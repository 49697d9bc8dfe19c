----------------------------- MODULE DbSidecar -----------------------------
(***************************************************************************)
(* The .tbc.db sidecar: AsyncDbWriter, an unbounded queue and a worker     *)
(* thread, over DbWriter, one transaction per field.                       *)
(*                                                                         *)
(* The first transaction inserts the capture row, later ones refresh its   *)
(* field count; what the row says otherwise is what the decoder's metadata *)
(* (here: the output levels) were at the first field.  A transaction can   *)
(* fail at any statement; its rows are then rolled back, but capture_id is *)
(* set before the field's rows are inserted and is not.                    *)
(***************************************************************************)
EXTENDS Naturals, Sequences, FiniteSets

CONSTANT MaxLost    \* bound: transactions that fail by themselves

ASSUME LostAssumption == MaxLost \in Nat

VARIABLES
    queue,       \* the channel to the worker: [field_id, meta]
    capture_id,  \* DbWriter.capture_id is set
    capture,     \* the committed capture row, or NoRow
    rows,        \* the field_ids of the committed field_record rows, in order
    lost         \* history: the fields whose own transaction met an error

dbVars == <<queue, capture_id, capture, rows, lost>>

NoRow == [n |-> 0, levels |-> "none"]

DbInit ==
    /\ queue = << >>
    /\ capture_id = FALSE
    /\ capture = NoRow
    /\ rows = << >>
    /\ lost = {}

\* AsyncDbWriter::write_field; it never blocks.
Enqueue(field_id, meta) ==
    /\ queue' = Append(queue, [field_id |-> field_id, meta |-> meta])
    /\ UNCHANGED <<capture_id, capture, rows, lost>>

\* AsyncDbWriter::finish: the worker has answered everything queued.
Finished == queue = << >>

\* field_record references capture; foreign keys are enforced by the SQLite
\* the program is built with.
ReferencesCapture == capture_id => capture # NoRow

\* DbWriter::write_field commits.
Commit ==
    /\ queue # << >>
    /\ ReferencesCapture
    /\ capture' = IF capture_id
                  THEN [capture EXCEPT !.n = Head(queue).meta.n]
                  ELSE Head(queue).meta
    /\ capture_id' = TRUE
    /\ rows' = Append(rows, Head(queue).field_id)
    /\ queue' = Tail(queue)
    /\ UNCHANGED lost

\* Mutant: what was inserted before the failure stays.
StatementFailsWithoutRollback(before) ==
    /\ queue # << >>
    /\ Cardinality(lost) < MaxLost
    /\ capture_id' = IF before THEN capture_id ELSE TRUE
    /\ rows' = IF before THEN rows ELSE Append(rows, Head(queue).field_id)
    /\ lost' = lost \union {Head(queue).field_id}
    /\ queue' = Tail(queue)
    /\ UNCHANGED capture

\* A statement of the transaction fails, before or after capture_id is set.
\* The worker goes on with the next field.
StatementFails(before) ==
    /\ queue # << >>
    /\ Cardinality(lost) < MaxLost
    /\ capture_id' = IF before THEN capture_id ELSE TRUE
    /\ lost' = lost \union {Head(queue).field_id}
    /\ queue' = Tail(queue)
    /\ UNCHANGED <<capture, rows>>

\* The field's row has no capture row to refer to: the insert fails.
ReferenceFails ==
    /\ queue # << >>
    /\ ~ReferencesCapture
    /\ queue' = Tail(queue)
    /\ UNCHANGED <<capture_id, capture, rows, lost>>

DbNext ==
    \/ Commit
    \/ \E before \in BOOLEAN : StatementFails(before)
    \/ ReferenceFails
=============================================================================
