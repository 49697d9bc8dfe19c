------------------------------ MODULE StdinPipe ------------------------------
(***************************************************************************)
(* How a capture comes in through stdin (ld-decode-cli/src/reader.rs).     *)
(*                                                                         *)
(* A raw capture is drained by a thread of its own, block by block, into a *)
(* bounded queue (DrainReader).  A FLAC capture is fed to an ffmpeg child: *)
(* the bytes the probe has read first, then the rest, by a pump thread     *)
(* (FfmpegSource::spawn_stdin).  Who writes to stdin, the child and the    *)
(* pipes between are outside.                                              *)
(*                                                                         *)
(* A byte stands for its own place in the stream.  The child is taken to   *)
(* put out a byte for each it is given.                                    *)
(***************************************************************************)
EXTENDS Naturals, Sequences

CONSTANTS
    Bytes,        \* bytes that come in
    DrainBlock,   \* DRAIN_BLOCK
    DrainQueue,   \* DRAIN_QUEUE_BLOCKS
    PipeCap,      \* what a pipe holds
    ProbeWindow   \* PROBE_WINDOW

ASSUME StdinAssumption ==
    /\ Bytes \in Nat
    /\ {DrainBlock, DrainQueue, PipeCap, ProbeWindow} \subseteq Nat \ {0}

VARIABLES
    route,       \* "none", "drain", "child"
    at,          \* the next byte of stdin
    wire,        \* "open", "closed" behind the last byte, "broken" by an error
    feeder,      \* the thread: "idle", "runs", "sends", "stops", "over"
    block,       \* what it has in its hands
    queue,       \* the channel of the drain, or the pipe to the child
    child,       \* "none", "runs", "over"
    outpipe,     \* the pipe from the child
    current,     \* what the reader has taken from either
    taken,       \* history: what it has delivered
    met          \* what it was told last: "more", "eof", "error", "dropped"

pipeVars == <<route, at, wire, feeder, block, queue, child, outpipe, current, taken, met>>

ErrorBlock == <<0>>     \* no byte of the stream
Upto(i, n) == [k \in 1 .. n |-> i + k - 1]

PipeInit ==
    /\ route = "none" /\ at = 1 /\ wire = "open"
    /\ feeder = "idle" /\ block = << >> /\ queue = << >>
    /\ child = "none" /\ outpipe = << >>
    /\ current = << >> /\ taken = << >> /\ met = "more"

\* Nothing more comes in; or reading it fails.
WireCloses ==
    /\ wire = "open" /\ at > Bytes
    /\ wire' = "closed"
    /\ UNCHANGED <<route, at, feeder, block, queue, child, outpipe, current, taken, met>>

WireBreaks ==
    /\ wire = "open"
    /\ wire' = "broken"
    /\ UNCHANGED <<route, at, feeder, block, queue, child, outpipe, current, taken, met>>

\* n bytes of stdin.
Reads(n) == wire = "open" /\ n > 0 /\ at + n <= Bytes + 1 /\ at' = at + n

-----------------------------------------------------------------------------
(* DrainReader.                                                            *)

SpawnDrain ==
    /\ route = "none"
    /\ route' = "drain"
    /\ feeder' = "runs"
    /\ UNCHANGED <<at, wire, block, queue, child, outpipe, current, taken, met>>

\* Short reads add up to a block.
DrainFill(n) ==
    /\ route = "drain" /\ feeder = "runs"
    /\ Len(block) + n <= DrainBlock
    /\ Reads(n)
    /\ block' = block \o Upto(at, n)
    /\ feeder' = IF Len(block') = DrainBlock THEN "sends" ELSE "runs"
    /\ UNCHANGED <<route, wire, queue, child, outpipe, current, taken, met>>

\* Mutant: a block that is not full is kept for what may come.
DrainEofWaits ==
    /\ route = "drain" /\ feeder = "runs"
    /\ wire = "closed" /\ block = << >>
    /\ feeder' = "over"
    /\ UNCHANGED <<route, at, wire, block, queue, child, outpipe, current, taken, met>>

\* At the end of the stream what there is of a block is sent.
DrainEof ==
    /\ route = "drain" /\ feeder = "runs"
    /\ wire = "closed"
    /\ feeder' = IF block = << >> THEN "over" ELSE "sends"
    /\ UNCHANGED <<route, at, wire, block, queue, child, outpipe, current, taken, met>>

\* Mutant: the thread ends without a word.
DrainErrorQuiet ==
    /\ route = "drain" /\ feeder = "runs"
    /\ wire = "broken"
    /\ block' = << >>
    /\ feeder' = "over"
    /\ UNCHANGED <<route, at, wire, queue, child, outpipe, current, taken, met>>

\* The error takes the place of the block.
DrainError ==
    /\ route = "drain" /\ feeder = "runs"
    /\ wire = "broken"
    /\ block' = ErrorBlock
    /\ feeder' = "sends"
    /\ UNCHANGED <<route, at, wire, queue, child, outpipe, current, taken, met>>

\* The queue takes it, once there is room; a short block was the last.
DrainSend ==
    /\ route = "drain" /\ feeder = "sends"
    /\ met # "dropped"
    /\ Len(queue) < DrainQueue
    /\ queue' = Append(queue, block)
    /\ feeder' = IF block = ErrorBlock \/ Len(block) < DrainBlock THEN "over" ELSE "runs"
    /\ block' = << >>
    /\ UNCHANGED <<route, at, wire, child, outpipe, current, taken, met>>

\* The decode is over.
DrainStops ==
    /\ route = "drain" /\ feeder = "sends"
    /\ met = "dropped"
    /\ feeder' = "over"
    /\ UNCHANGED <<route, at, wire, block, queue, child, outpipe, current, taken, met>>

\* DrainReader::read: from the block in hand.
DrainRead(n) ==
    /\ route = "drain" /\ met = "more"
    /\ n \in 1 .. Len(current)
    /\ taken' = taken \o SubSeq(current, 1, n)
    /\ current' = SubSeq(current, n + 1, Len(current))
    /\ UNCHANGED <<route, at, wire, feeder, block, queue, child, outpipe, met>>

\* The next block, or the error in its place.
DrainReceive ==
    /\ route = "drain" /\ met = "more"
    /\ current = << >> /\ queue # << >>
    /\ queue' = Tail(queue)
    /\ IF Head(queue) = ErrorBlock THEN met' = "error" /\ UNCHANGED current
       ELSE current' = Head(queue) /\ UNCHANGED met
    /\ UNCHANGED <<route, at, wire, feeder, block, child, outpipe, taken>>

\* The sender is gone: the end of the stream.
DrainEnd ==
    /\ route = "drain" /\ met = "more"
    /\ current = << >> /\ queue = << >> /\ feeder = "over"
    /\ met' = "eof"
    /\ UNCHANGED <<route, at, wire, feeder, block, queue, child, outpipe, current, taken>>

-----------------------------------------------------------------------------
(* FfmpegSource on stdin.                                                  *)

\* read_fully, the probe: as much as comes, up to the window.
ProbedHead == IF Bytes < ProbeWindow THEN Bytes ELSE ProbeWindow

SpawnChild ==
    /\ route = "none"
    /\ wire = "open"
    /\ route' = "child"
    /\ at' = ProbedHead + 1
    /\ block' = Upto(1, ProbedHead)
    /\ child' = "runs"
    /\ feeder' = "runs"
    /\ UNCHANGED <<wire, queue, outpipe, current, taken, met>>

\* The pump, as far as the pipe takes it: the head first.
PumpHead ==
    /\ route = "child" /\ feeder = "runs" /\ child = "runs"
    /\ block # << >>
    /\ Len(queue) < PipeCap
    /\ queue' = Append(queue, Head(block))
    /\ block' = Tail(block)
    /\ UNCHANGED <<route, at, wire, feeder, child, outpipe, current, taken, met>>

PumpCopy ==
    /\ route = "child" /\ feeder = "runs" /\ child = "runs"
    /\ block = << >>
    /\ Len(queue) < PipeCap
    /\ Reads(1)
    /\ queue' = Append(queue, at)
    /\ UNCHANGED <<route, wire, feeder, block, child, outpipe, current, taken, met>>

\* stdin has ended, or cannot be read, or the child is gone: the pipe is closed.
PumpEnds ==
    /\ route = "child" /\ feeder = "runs"
    /\ \/ child = "over"
       \/ block = << >> /\ wire # "open"
    /\ feeder' = "over"
    /\ UNCHANGED <<route, at, wire, block, queue, child, outpipe, current, taken, met>>

ChildDecodes ==
    /\ child = "runs"
    /\ queue # << >> /\ Len(outpipe) < PipeCap
    /\ queue' = Tail(queue)
    /\ outpipe' = Append(outpipe, Head(queue))
    /\ UNCHANGED <<route, at, wire, feeder, block, child, current, taken, met>>

\* It ends with its input, or on its own: nobody looks at how.
ChildEnds ==
    /\ child = "runs"
    /\ queue = << >> /\ feeder = "over"
    /\ child' = "over"
    /\ UNCHANGED <<route, at, wire, feeder, block, queue, outpipe, current, taken, met>>

ChildFails ==
    /\ child = "runs"
    /\ child' = "over"
    /\ UNCHANGED <<route, at, wire, feeder, block, queue, outpipe, current, taken, met>>

\* FfmpegSource::refill and read.
ChildRead ==
    /\ route = "child" /\ met = "more"
    /\ outpipe # << >>
    /\ taken' = taken \o outpipe
    /\ outpipe' = << >>
    /\ UNCHANGED <<route, at, wire, feeder, block, queue, child, current, met>>

ChildEof ==
    /\ route = "child" /\ met = "more"
    /\ outpipe = << >> /\ child = "over"
    /\ met' = "eof"
    /\ UNCHANGED <<route, at, wire, feeder, block, queue, child, outpipe, current, taken>>

\* The decode is over: the channel is closed, the child killed.
SourceDropped ==
    /\ route # "none"
    /\ met # "dropped"
    /\ met' = "dropped"
    /\ child' = IF child = "runs" THEN "over" ELSE child
    /\ UNCHANGED <<route, at, wire, feeder, block, queue, outpipe, current, taken>>

\* What the threads and the child do on their own, and what a reader does.
Feeding ==
    \/ WireCloses \/ WireBreaks
    \/ \E n \in 1 .. DrainBlock : DrainFill(n)
    \/ DrainEof \/ DrainError \/ DrainSend
    \/ PumpHead \/ PumpCopy \/ PumpEnds
    \/ ChildDecodes \/ ChildEnds \/ ChildFails

Reading ==
    \/ \E n \in 1 .. DrainBlock : DrainRead(n)
    \/ DrainReceive \/ DrainEnd
    \/ ChildRead \/ ChildEof
=============================================================================
