--------------------------- MODULE PrefetchReader ---------------------------
(***************************************************************************)
(* The reader of the decode loop (ld-decode-cli/src/prefetch.rs): a thread *)
(* that owns the DecodeReader serves reads and seeks in the order they are *)
(* sent, so that reads overlap with decoding.  The handle keeps two reads  *)
(* queued, as decode_all's refill does, and flushes them before a seek.    *)
(***************************************************************************)
EXTENDS SampleSources

CONSTANTS
    Formats,     \* what may be opened
    Chunk,       \* samples per read
    Targets(_)   \* samples a format's input is asked to seek to

ASSUME ReaderAssumption ==
    /\ Formats \subseteq Format
    /\ Length \in Nat
    /\ \A f \in Formats : Targets(f) \subseteq Nat
    /\ Chunk \in Nat \ {0}

\* Bytes behind the last whole group are no samples of the input.
ASSUME GroupsAssumption ==
    \A f \in Formats : f.source \in {"packed", "pipe"} => Length % f.samples = 0

VARIABLES
    reader,       \* the DecodeReader of the thread: its source, and its eof flag
    alive,        \* the thread runs
    fault,        \* an I/O error or a panic has happened
    requests,     \* sent by the handle, not served yet
    replies,      \* sent by the thread, not received yet
    outstanding,  \* reads queued and not taken
    failed,       \* the handle has given up
    pc,           \* "idle", "refill" (filling the queue, then take()),
                  \* "flush" and "seek" (seek_samples()), "error"
    target,       \* of the seek
    got,          \* what the last call returned
    here,         \* where that left the caller, and whether the input is dead
    split         \* a packed file has been read or sought by part of a group

handleVars == <<outstanding, failed, pc, target, got, here, split>>
vars == <<reader, alive, fault, requests, replies, handleVars>>

QueueDepth == 2

\* PackedSource has no part of a group to give, and takes what a seek leaves of
\* the bytes of a group for samples.
Splits(f, n) == f.source = "packed" /\ n % f.samples # 0

\* The channels to the thread are closed.
Gone == ~alive

Init ==
    /\ \E f \in Formats : reader = [src |-> Open(f), eof |-> FALSE]
    /\ alive = TRUE
    /\ fault = FALSE
    /\ requests = << >>
    /\ replies = << >>
    /\ outstanding = 0
    /\ failed = FALSE
    /\ pc = "idle"
    /\ target = 0
    /\ got = << >>
    /\ here = [pos |-> 0, health |-> "ok"]
    /\ split = FALSE

-----------------------------------------------------------------------------
(* The thread: one request, one reply.                                     *)

Reply(op, data, rdr) ==
    [op |-> op, data |-> data, pos |-> Position(rdr.src), eof |-> rdr.eof]

Serve(op) == alive /\ requests # << >> /\ Head(requests).op = op

Answer(op, data, rdr) ==
    /\ reader' = rdr
    /\ replies' = Append(replies, Reply(op, data, rdr))
    /\ requests' = Tail(requests)
    /\ UNCHANGED <<alive, handleVars>>

\* Mutant: the end of the input is not answered.
WorkerReadSilentAtEof ==
    LET done == ReadOf(reader.src, Head(requests).arg)
    IN  /\ Serve("read")
        /\ UNCHANGED <<fault, alive, handleVars>>
        /\ requests' = Tail(requests)
        /\ reader' = IF reader.eof THEN reader ELSE [reader EXCEPT !.src = done.src]
        /\ replies' = IF reader.eof \/ done.data = << >> THEN replies
                      ELSE Append(replies, Reply("read", done.data, reader'))

\* DecodeReader::read: behind an error there is nothing to read.
WorkerRead ==
    LET done == ReadOf(reader.src, Head(requests).arg)
    IN  /\ Serve("read")
        /\ UNCHANGED fault
        /\ IF reader.eof
           THEN Answer("read", << >>, reader)
           ELSE Answer("read", done.data, [reader EXCEPT !.src = done.src])

\* An I/O error is logged and answered like the end of the input.
WorkerReadFails ==
    /\ Serve("read")
    /\ ~reader.eof
    /\ fault' = TRUE
    /\ Answer("read", << >>, [reader EXCEPT !.eof = TRUE])

\* DecodeReader::seek_samples; so is a seek that the source refuses.
WorkerSeek ==
    LET s == Head(requests).arg
    IN  /\ Serve("seek")
        /\ UNCHANGED fault
        /\ Answer("seek", << >>,
                  IF reader.eof THEN reader
                  ELSE IF SeekRefused(reader.src, s) THEN [reader EXCEPT !.eof = TRUE]
                  ELSE [reader EXCEPT !.src = SeekOf(@, s)])

WorkerSeekFails ==
    /\ Serve("seek")
    /\ ~reader.eof
    /\ fault' = TRUE
    /\ Answer("seek", << >>, [reader EXCEPT !.eof = TRUE])

\* The source panics while it serves a request: what is queued is never
\* answered.
WorkerDies ==
    /\ alive
    /\ requests # << >>
    /\ ~reader.eof
    /\ alive' = FALSE
    /\ fault' = TRUE
    /\ requests' = << >>
    /\ UNCHANGED <<reader, replies, handleVars>>

-----------------------------------------------------------------------------
(* The handle.                                                             *)

Receive == replies' = Tail(replies)

After(reply) == IF reply.eof THEN [here EXCEPT !.health = "dead"]
                ELSE [pos |-> reply.pos, health |-> "ok"]

\* decode_all queues reads until two are queued.
Prefetch ==
    /\ pc \in {"idle", "refill"}
    /\ outstanding < QueueDepth
    /\ ~failed
    /\ ~Gone
    /\ pc' = "refill"
    /\ outstanding' = outstanding + 1
    /\ requests' = Append(requests, [op |-> "read", arg |-> Chunk])
    /\ split' = (split \/ Splits(reader.src.format, Chunk))
    /\ UNCHANGED <<reader, alive, fault, replies, failed, target, got, here>>

\* prefetch() to a dead thread notes the failure and returns; asked again, it
\* returns at once.
PrefetchRefused ==
    /\ pc \in {"idle", "refill"}
    /\ outstanding < QueueDepth
    /\ Gone
    /\ pc' = "refill"
    /\ failed' = TRUE
    /\ UNCHANGED <<reader, alive, fault, requests, replies, outstanding, target, got, here, split>>

\* take(): the oldest reply is the data of the oldest read.
Take ==
    /\ pc = "refill"
    /\ outstanding = QueueDepth
    /\ replies # << >>
    /\ Head(replies).op = "read"
    /\ Receive
    /\ outstanding' = outstanding - 1
    /\ got' = Head(replies).data
    /\ here' = After(Head(replies))
    /\ pc' = "idle"
    /\ UNCHANGED <<reader, alive, fault, requests, failed, target, split>>

\* seek_samples(): the window has drained, or lies behind what is needed.
BeginSeek(s) ==
    /\ pc = "idle"
    /\ pc' = "flush"
    /\ target' = s
    /\ split' = (split \/ Splits(reader.src.format, s))
    /\ UNCHANGED <<reader, alive, fault, requests, replies, outstanding, failed, got, here>>

\* The data of the reads in flight is received and dropped.
Flush ==
    /\ pc = "flush"
    /\ outstanding > 0
    /\ replies # << >>
    /\ Receive
    /\ outstanding' = outstanding - 1
    /\ UNCHANGED <<reader, alive, fault, requests, failed, pc, target, got, here, split>>

\* Mutant: the seek is sent without waiting for the reads.
SendSeekEarly ==
    /\ pc = "flush"
    /\ ~Gone
    /\ pc' = "seek"
    /\ requests' = Append(requests, [op |-> "seek", arg |-> target])
    /\ UNCHANGED <<reader, alive, fault, replies, outstanding, failed, target, got, here, split>>

\* The reads in flight are done with: the seek is sent.
SendSeek ==
    /\ pc = "flush"
    /\ outstanding = 0
    /\ ~Gone
    /\ pc' = "seek"
    /\ requests' = Append(requests, [op |-> "seek", arg |-> target])
    /\ UNCHANGED <<reader, alive, fault, replies, outstanding, failed, target, got, here, split>>

SeekDone ==
    /\ pc = "seek"
    /\ replies # << >>
    /\ Head(replies).op = "seek"
    /\ Receive
    /\ got' = << >>
    /\ here' = After(Head(replies))
    /\ pc' = "idle"
    /\ UNCHANGED <<reader, alive, fault, requests, outstanding, failed, target, split>>

\* The handle waits for a reply.
Waiting ==
    \/ pc = "refill" /\ outstanding = QueueDepth
    \/ pc = "flush" /\ outstanding > 0
    \/ pc = "seek"

\* No reply is left to receive, or a seek is to be sent.
Unanswered ==
    \/ Waiting /\ replies = << >>
    \/ pc = "flush" /\ outstanding = 0

\* The thread is gone and left no reply, or the seek cannot be sent to it:
\* the call returns an error, and main with it.
Died ==
    /\ Unanswered
    /\ Gone
    /\ failed' = TRUE
    /\ pc' = "error"
    /\ UNCHANGED <<reader, alive, fault, requests, replies, outstanding, target, got, here, split>>

Worker == WorkerRead \/ WorkerReadFails \/ WorkerSeek \/ WorkerSeekFails \/ WorkerDies

\* A call that has begun goes on.
Call == Prefetch \/ PrefetchRefused \/ Take \/ Flush \/ SendSeek \/ SeekDone \/ Died

Next ==
    \/ Worker
    \/ Call
    \/ \E s \in Targets(reader.src.format) : BeginSeek(s)

Spec == Init /\ [][Next]_vars

\* The thread serves what it is sent, and the loop goes on reading.
FairSpec == Spec /\ WF_vars(WorkerRead \/ WorkerSeek) /\ WF_vars(Call)

-----------------------------------------------------------------------------
(* What the prefetching reader promises the decode loop.                   *)

Requests == [op : {"read", "seek"}, arg : Nat]
Replies == [op : {"read", "seek"}, data : Seq(Nat \union {Garbled}), pos : Nat, eof : BOOLEAN]

\* Types of the variables.
TypeOK ==
    /\ reader \in [src : Source, eof : BOOLEAN]
    /\ alive \in BOOLEAN
    /\ fault \in BOOLEAN
    /\ requests \in Seq(Requests)
    /\ replies \in Seq(Replies)
    /\ outstanding \in 0 .. QueueDepth
    /\ failed \in BOOLEAN
    /\ pc \in {"idle", "refill", "flush", "seek", "error"}
    /\ target \in Nat
    /\ got \in Seq(Nat \union {Garbled})
    /\ here \in [pos : Nat, health : {"ok", "dead"}]
    /\ split \in BOOLEAN

Only(op, channel) == \A i \in 1 .. Len(channel) : channel[i].op = op

\* `outstanding` is the number of reads in the two channels, so the flush of a
\* seek drops exactly the replies of the reads sent before it; and the channels
\* hold a seek only while its caller waits for it, alone, so neither take() nor
\* the flush ever meets the reply of one.  A dead thread leaves reads
\* unanswered, and sends nothing more.
ChannelsCounted ==
    /\ pc # "seek" =>
        /\ Only("read", requests) /\ Only("read", replies)
        /\ IF alive THEN outstanding = Len(requests) + Len(replies)
           ELSE outstanding >= Len(replies)
    /\ pc = "seek" =>
        /\ Only("seek", requests) /\ Only("seek", replies)
        /\ outstanding = 0
        /\ IF alive THEN Len(requests) + Len(replies) = 1 ELSE Len(replies) <= 1

\* The source under the prefetching handle.
Stream == INSTANCE SampleStream WITH
    pos     <- here.pos,
    health  <- IF failed THEN "broken" ELSE here.health,
    forward <- ForwardOnly(reader.src)

\* A pipe is sent ahead to a place that a read in flight may have passed: the
\* source refuses that, and the input has ended.
Overtaken ==
    /\ ForwardOnly(reader.src)
    /\ target < here.pos + Chunk
    /\ here.health = "ok"
    /\ here' = [here EXCEPT !.health = "dead"]
    /\ got' = << >>
    /\ UNCHANGED <<reader, failed, fault>>

\* Until a packed file is read or sought by part of a group, every call of the
\* prefetching handle returns what the synchronous reader would return, over
\* every kind of source and whatever reads were in flight when a seek came.  The
\* input dies only of an I/O error, of a seek that goes back on a pipe, or of one
\* that leads less than a chunk ahead on it (there prefetch.rs:9, "an identical
\* sample stream", is not kept); the handle gives up only when the thread has
\* died.
ImplementsStream ==
    /\ Stream!StreamInit
    /\ [][~split' => Stream!StreamNext({Chunk}, {target}) \/ Overtaken]_(Stream!streamVars)

\* Every take() and every seek is answered, as long as the thread lives: no
\* reply is dropped, and the two sides never wait for each other.
CallsEnd == (pc # "idle") ~> (pc = "idle" \/ ~alive)
=============================================================================
