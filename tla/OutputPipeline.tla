--------------------------- MODULE OutputPipeline ---------------------------
(***************************************************************************)
(* From the decode loop to the disk: decode_all hands every field to       *)
(* AsyncDecodeWriter, a bounded channel and a writer thread; the thread's  *)
(* DecodeWriter appends the field to the output streams (through buffers), *)
(* to the entries of the JSON sidecar, and to the queue of the database    *)
(* sidecar (DbSidecar).  Three threads, two channels, and an error may     *)
(* come up in any of them at any time.                                     *)
(*                                                                         *)
(* Fields are numbered in the order decode() returns them.                 *)
(***************************************************************************)
EXTENDS DbSidecar, FiniteSetsExt

CONSTANTS
    Streams,     \* the output streams in the order a field is written to them
    Levels,      \* output levels the metadata may report
    Bound,       \* BOUND of the channel
    Room,        \* fields a BufWriter has room for at least
    Early,       \* 100: up to here the reference drains its JSON entries at every field,
    Grid,        \* 500: and from there at multiples of this
    MaxFields,   \* bound: fields decoded
    Behind       \* bound: how far back the field is that fills a gap

ASSUME PipelineAssumption ==
    /\ Streams \in Seq(STRING)
    /\ \A i, j \in 1 .. Len(Streams) : Streams[i] = Streams[j] => i = j
    /\ {Bound, Room} \subseteq Nat \ {0}
    /\ {Early, Grid} \subseteq Nat \ {0}
    /\ {MaxFields, Behind} \subseteq Nat

VARIABLES
    decode,      \* where the decode thread is
    exit,        \* the exit status: "none", "ok" or "error"
    meta,        \* decoder.metadata()
    fieldinfo,   \* for every field decode() returned: its seq_no, and whether a call ends there
    tosend,      \* the fields of the last decode() not yet sent
    cmds,        \* the channel to the writer thread
    writer,      \* where the writer thread is
    err,         \* the error slot shared with it is set
    buf,         \* the streams' BufWriters
    disk,        \* what the streams' files hold
    entries,     \* json_entries: the field, and the one whose counts it shows
    json,        \* what the JSON file holds
    failed       \* history: the kinds of error the writer thread met

decodeVars == <<decode, exit, meta, fieldinfo, tosend>>
writerVars == <<writer, err, buf, disk, entries, json, failed>>
vars == <<dbVars, decodeVars, cmds, writerVars>>

StreamSet == {Streams[i] : i \in 1 .. Len(Streams)}
NoMeta == [n |-> 0, levels |-> "none"]
Close == [cmd |-> "Close"]
Write(field, m) == [cmd |-> "Write", field |-> field, meta |-> m]
Placeholder == [whole |-> TRUE, n |-> 0, entries |-> << >>]
Torn == [whole |-> FALSE, n |-> 0, entries |-> << >>]
Document == [whole |-> TRUE, n |-> Len(entries), entries |-> entries]

Init ==
    /\ DbInit
    /\ decode = "decoding"
    /\ exit = "none"
    /\ meta = NoMeta
    /\ fieldinfo = << >>
    /\ tosend = << >>
    /\ cmds = << >>
    /\ writer = "running"
    /\ err = FALSE
    /\ buf = [s \in StreamSet |-> << >>]
    /\ disk = [s \in StreamSet |-> << >>]
    /\ entries = << >>
    /\ json = Placeholder
    /\ failed = {}

-----------------------------------------------------------------------------
(* The decode thread: decode_all, and main after it.                       *)

\* decode() returns the fields of the given seq_nos; all of them are sent with
\* the metadata taken after the call.
Decode(seqs, levels) ==
    LET k == Len(seqs)
        m == [n |-> meta.n + k, levels |-> levels]
    IN  /\ decode = "decoding"
        /\ m.n <= MaxFields
        /\ meta' = m
        /\ fieldinfo' = fieldinfo \o [i \in 1 .. k |-> [seq_no |-> seqs[i], ends |-> i = k]]
        /\ tosend' = [i \in 1 .. k |-> Write(meta.n + i, m)]
        /\ decode' = "sending"
        /\ UNCHANGED <<dbVars, exit, cmds, writerVars>>

\* A field of its own, or behind one written before, which fills a gap.  The
\* seq_no of a new field is counted in fieldinfo.
DecodeOne(levels) == Decode(<<meta.n + 1>>, levels)
DecodeFilled(levels) ==
    \E n \in DOMAIN fieldinfo :
        n > meta.n - Behind /\ Decode(<<fieldinfo[n].seq_no, meta.n + 1>>, levels)

\* Mutant: the channel has no bound.
SendUnbounded ==
    /\ decode = "sending"
    /\ writer # "stopped"
    /\ cmds' = Append(cmds, Head(tosend))
    /\ tosend' = Tail(tosend)
    /\ decode' = IF Tail(tosend) = << >> THEN "decoding" ELSE "sending"
    /\ UNCHANGED <<dbVars, exit, meta, fieldinfo, writerVars>>

\* AsyncDecodeWriter::write_writeable: the send waits for room.
Send ==
    /\ decode = "sending"
    /\ writer # "stopped"
    /\ Len(cmds) < Bound
    /\ cmds' = Append(cmds, Head(tosend))
    /\ tosend' = Tail(tosend)
    /\ decode' = IF Tail(tosend) = << >> THEN "decoding" ELSE "sending"
    /\ UNCHANGED <<dbVars, exit, meta, fieldinfo, writerVars>>

\* The loop ends: end of input, length reached, or lead-out.
StartClose ==
    /\ decode = "decoding"
    /\ decode' = "closing"
    /\ UNCHANGED <<dbVars, exit, meta, fieldinfo, tosend, cmds, writerVars>>

\* AsyncDecodeWriter::close queues the Close and waits for the thread.
SendClose ==
    /\ decode = "closing"
    /\ writer # "stopped"
    /\ Len(cmds) < Bound
    /\ cmds' = Append(cmds, Close)
    /\ decode' = "joining"
    /\ UNCHANGED <<dbVars, exit, meta, fieldinfo, tosend, writerVars>>

Exit(status) ==
    /\ decode' = "exited"
    /\ exit' = status
    /\ UNCHANGED <<dbVars, meta, fieldinfo, tosend, cmds, writerVars>>

\* Mutant: a failed send is tried again.
SendRetries ==
    /\ decode \in {"sending", "closing"}
    /\ writer = "stopped"
    /\ UNCHANGED vars

\* The channel has lost its receiver: the writer's error ends the decode.
SendFails ==
    /\ decode \in {"sending", "closing"}
    /\ writer = "stopped"
    /\ Exit("error")

\* The reader or the decoder fails: main returns without closing the writer.
DecodeFails == decode = "decoding" /\ Exit("error")

Join == decode = "joining" /\ writer = "stopped" /\ Exit("ok")

DecodeThread ==
    \/ \E levels \in Levels : DecodeOne(levels) \/ DecodeFilled(levels)
    \/ Send
    \/ StartClose
    \/ SendClose
    \/ SendFails
    \/ DecodeFails
    \/ Join

-----------------------------------------------------------------------------
(* The writer thread.  It ends with the process.                           *)

Running(state) == decode # "exited" /\ writer = state

\* A buffer takes 8 or 2 MB, a number of fields.
Filled == {s \in StreamSet : Len(buf[s]) >= Room}

\* A field is appended to the streams at places 1 to n; a BufWriter without
\* room for it (those in spills) first passes on what it holds.
Append2Streams(field, n, spills) ==
    LET to == {Streams[i] : i \in 1 .. n}
    IN  /\ disk' = [s \in StreamSet |-> IF s \in to \intersect spills THEN disk[s] \o buf[s] ELSE disk[s]]
        /\ buf' = [s \in StreamSet |->
                       IF s \notin to THEN buf[s]
                       ELSE IF s \in spills THEN <<field>> ELSE Append(buf[s], field)]

\* Mutant: every repeated field past the early ones reaches back.
AliasReachesOld(fw1, fw2) == fw1 >= Early

\* json_alias_reaches_earlier: whether the reference's entry of the field
\* written as the fw1st is still pending when it is written again.
AliasReaches(fw1, fw2) ==
    fw2 <= (IF fw1 < Early THEN fw1 ELSE ((fw1 + Grid - 1) \div Grid) * Grid)

\* The entry of a field is pushed, and its counts are shown by the last entry
\* of the same seq_no too, if they reach it.
Pushed(field) ==
    LET same == {i \in DOMAIN entries : fieldinfo[entries[i].field].seq_no = fieldinfo[field].seq_no}
        pushed == Append(entries, [field |-> field, shows |-> field])
    IN  IF same = {} \/ ~AliasReaches(Max(same), Len(pushed)) THEN pushed
        ELSE [pushed EXCEPT ![Max(same)].shows = field]

\* DecodeWriter::write_writeable: database first, then the streams in their
\* order, then the JSON entry.
WriteField ==
    /\ Running("running")
    /\ cmds # << >>
    /\ Head(cmds).cmd = "Write"
    /\ Enqueue(Head(cmds).field, Head(cmds).meta)
    /\ \E spills \in SUBSET Filled : Append2Streams(Head(cmds).field, Len(Streams), spills)
    /\ entries' = Pushed(Head(cmds).field)
    /\ cmds' = Tail(cmds)
    /\ UNCHANGED <<decodeVars, writer, err, json, failed>>

\* Mutant: the thread goes on after an error.
WriteFailsAndGoesOn(n) ==
    /\ Running("running")
    /\ cmds # << >>
    /\ Head(cmds).cmd = "Write"
    /\ Enqueue(Head(cmds).field, Head(cmds).meta)
    /\ \E spills \in SUBSET Filled : Append2Streams(Head(cmds).field, n, spills)
    /\ err' = TRUE
    /\ failed' = failed \union {"write"}
    /\ cmds' = Tail(cmds)
    /\ UNCHANGED <<decodeVars, writer, entries, json>>

\* The stream at place n + 1 cannot take the field: the thread reports the
\* error and leaves its loop.
WriteFails(n) ==
    /\ Running("running")
    /\ cmds # << >>
    /\ Head(cmds).cmd = "Write"
    /\ Enqueue(Head(cmds).field, Head(cmds).meta)
    /\ \E spills \in SUBSET Filled : Append2Streams(Head(cmds).field, n, spills)
    /\ err' = TRUE
    /\ failed' = failed \union {"write"}
    /\ cmds' = Tail(cmds)
    /\ writer' = "leaving"
    /\ UNCHANGED <<decodeVars, entries, json>>

\* The buffers of the streams at places 1 to n are flushed.
Flush(n) ==
    LET of == {Streams[i] : i \in 1 .. n}
    IN  /\ disk' = [s \in StreamSet |-> IF s \in of THEN disk[s] \o buf[s] ELSE disk[s]]
        /\ buf' = [s \in StreamSet |-> IF s \in of THEN << >> ELSE buf[s]]

\* DecodeWriter::close: first the buffers,
CloseFlush ==
    /\ Running("running")
    /\ cmds # << >>
    /\ Head(cmds) = Close
    /\ Flush(Len(Streams))
    /\ cmds' = Tail(cmds)
    /\ writer' = "finishing"
    /\ UNCHANGED <<dbVars, decodeVars, err, entries, json, failed>>

\* where an error ends the close early: the thread logs it and leaves.
FlushFails(n) ==
    /\ Running("running")
    /\ cmds # << >>
    /\ Head(cmds) = Close
    /\ buf[Streams[n + 1]] # << >>
    /\ Flush(n)
    /\ cmds' = Tail(cmds)
    /\ writer' = "leaving"
    /\ failed' = failed \union {"flush"}
    /\ UNCHANGED <<dbVars, decodeVars, err, entries, json>>

\* Mutant: the close does not wait for the database.
CloseJsonAtOnce ==
    /\ Running("finishing")
    /\ json' = IF meta = NoMeta THEN json ELSE Document
    /\ writer' = "leaving"
    /\ UNCHANGED <<dbVars, decodeVars, cmds, err, buf, disk, entries, failed>>

\* then the database, then the JSON file, rewritten whole if there is
\* metadata for its header;
CloseJson ==
    /\ Running("finishing")
    /\ Finished
    /\ json' = IF meta = NoMeta THEN json ELSE Document
    /\ writer' = "leaving"
    /\ UNCHANGED <<dbVars, decodeVars, cmds, err, buf, disk, entries, failed>>

\* an error there is logged as well, and leaves a torn file behind.
JsonFails ==
    /\ Running("finishing")
    /\ Finished
    /\ meta # NoMeta
    /\ json' = Torn
    /\ failed' = failed \union {"json"}
    /\ writer' = "leaving"
    /\ UNCHANGED <<dbVars, decodeVars, cmds, err, buf, disk, entries>>

\* The thread ends: the channel loses its receiver with what it holds, and
\* the dropped buffers are flushed if that works.
Drop ==
    /\ Running("leaving")
    /\ \E ok \in SUBSET StreamSet :
           /\ disk' = [s \in StreamSet |-> IF s \in ok THEN disk[s] \o buf[s] ELSE disk[s]]
           /\ buf' = [s \in StreamSet |-> << >>]
    /\ cmds' = << >>
    /\ writer' = "stopped"
    /\ UNCHANGED <<dbVars, decodeVars, err, entries, json, failed>>

WriterThread ==
    \/ WriteField
    \/ \E n \in 0 .. Len(Streams) - 1 : WriteFails(n)
    \/ CloseFlush
    \/ \E n \in 0 .. Len(Streams) - 1 : FlushFails(n)
    \/ CloseJson
    \/ JsonFails
    \/ Drop

\* The database worker ends with the process, too.
DbThread ==
    /\ decode # "exited"
    /\ DbNext
    /\ UNCHANGED <<decodeVars, cmds, writerVars>>

Next == DecodeThread \/ WriterThread \/ DbThread

Spec == Init /\ [][Next]_vars

\* Every thread that can take a step takes one: the threads are the operating
\* system's, and none of them holds a lock while it waits for another.
FairSpec ==
    /\ Spec
    /\ WF_vars(DecodeThread)
    /\ WF_vars(WriterThread)
    /\ WF_vars(DbThread)

-----------------------------------------------------------------------------
(* What the way from the decode loop to the disk promises.                 *)

Fields == 1 .. MaxFields
Metas == [n : 0 .. MaxFields, levels : Levels]
Cmds == [cmd : {"Write"}, field : Fields, meta : Metas] \union {Close}
Entries == [field : Fields, shows : Fields]
ErrorKinds == {"write", "flush", "json"}

\* Types of the variables; the channel to the writer holds no more than its
\* bound, which is what keeps the memory of a fast decode in check.
TypeOK ==
    /\ decode \in {"decoding", "sending", "closing", "joining", "exited"}
    /\ exit \in {"none", "ok", "error"}
    /\ meta \in Metas \union {NoMeta}
    /\ tosend \in Seq(Cmds) /\ Len(tosend) <= 2
    /\ cmds \in Seq(Cmds) /\ Len(cmds) <= Bound
    /\ writer \in {"running", "finishing", "leaving", "stopped"}
    /\ err \in BOOLEAN
    /\ buf \in [StreamSet -> Seq(Fields)]
    /\ disk \in [StreamSet -> Seq(Fields)]
    /\ fieldinfo \in Seq([seq_no : Fields, ends : BOOLEAN]) /\ Len(fieldinfo) = meta.n
    /\ entries \in Seq(Entries)
    /\ json \in [whole : BOOLEAN, n : 0 .. MaxFields, entries : Seq(Entries)]
    /\ failed \subseteq ErrorKinds
    /\ queue \in Seq([field_id : Fields, meta : Metas])
    /\ capture_id \in BOOLEAN
    /\ capture \in Metas \union {NoRow}
    /\ rows \in Seq(Fields)
    /\ lost \subseteq Fields

UpTo(n) == [i \in 1 .. n |-> i]
Listed(list) == [i \in DOMAIN list |-> list[i].field]

\* What a stream has been given and has not thrown away.
Stream(i) == disk[Streams[i]] \o buf[Streams[i]]

\* The streams stay in step: each of them holds the fields in the order they
\* were decoded, without a hole or a repetition, and until the thread throws
\* its buffers away one stream is ahead of a later one, or of the JSON
\* entries, by at most the field whose write failed.  The picture, the sound
\* and the EFM data of a capture are matched by counting.
StreamsInStep ==
    /\ \A i \in 1 .. Len(Streams) : Stream(i) = UpTo(Len(Stream(i)))
    /\ Listed(entries) = UpTo(Len(entries))
    /\ writer # "stopped" =>
           \A i \in 1 .. Len(Streams) :
               /\ Len(Stream(i)) - Len(entries) \in {0, 1}
               /\ Len(Stream(i)) # Len(entries) => "write" \in failed
               /\ \A j \in i .. Len(Streams) : Len(Stream(j)) <= Len(Stream(i))

\* A decode that ends well and met no error on the writer thread has
\* everything on disk: all streams, a JSON file that lists and counts every
\* field, and in the database every field whose own transaction did not fail.
CleanExitIsComplete ==
    (exit = "ok" /\ failed = {}) =>
        /\ \A s \in StreamSet : disk[s] = UpTo(meta.n)
        /\ json.whole /\ json.n = meta.n /\ Listed(json.entries) = UpTo(meta.n)
        /\ queue = << >>
        /\ lost = {} => rows = UpTo(meta.n) /\ (meta # NoMeta => capture.n = meta.n)

\* The reference keeps one dict per field and drains the pending ones after a
\* call of decode that leaves the count below Early or at a multiple of Grid
\* (writer.rs:29-36); what it drains shows the last write of the field by then.
Drains(n) == n < Early \/ n % Grid = 0
DrainedAt(k) ==
    LET at == {n \in k .. meta.n : fieldinfo[n].ends /\ Drains(n)}
    IN  IF at = {} THEN meta.n ELSE Min(at)
SameAs(k) == {n \in DOMAIN fieldinfo : fieldinfo[n].seq_no = fieldinfo[k].seq_no}

\* No field is written three times, and no call steps over a place of the grid.
Plain ==
    /\ \A n \in DOMAIN fieldinfo : n >= Early /\ n % Grid = 0 => fieldinfo[n].ends
    /\ \A k \in DOMAIN fieldinfo : Cardinality(SameAs(k)) <= 2

\* From its drain on a JSON entry shows the counts the reference's would, over
\* captures of which no field is written three times, and no call steps over
\* a place of the grid: there the two differ.
JsonAsDrained ==
    Plain => \A k \in DOMAIN entries :
        Len(entries) >= DrainedAt(k)
            => entries[k].shows = Max({n \in SameAs(k) : n <= DrainedAt(k)})

\* A transaction that fails costs its own field and no other, once there is a
\* capture row; and no field row refers to a capture row that is not there.
LossIsLocal ==
    /\ \A i \in 1 .. Len(rows) - 1 : rows[i] < rows[i + 1]
    /\ capture = NoRow => rows = << >>
    /\ (capture # NoRow /\ queue = << >> /\ writer = "running") =>
           {rows[i] : i \in 1 .. Len(rows)} = (1 .. Len(entries)) \ lost

\* No thread waits for another for ever: whatever fails, and whenever, the
\* process ends.
Exits == <>(decode = "exited")
=============================================================================
