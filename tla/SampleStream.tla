---------------------------- MODULE SampleStream ----------------------------
(***************************************************************************)
(* The input as the decode loop knows it: one synchronous DecodeReader     *)
(* (ld-decode-cli/src/reader.rs) that delivers sample after sample.        *)
(*                                                                         *)
(* A sample stands for its own index in the input.  An input error leaves  *)
(* the reader at its end of file for good: reads deliver nothing, seeks do *)
(* nothing, and the caller is not told.  A pipe cannot go back; asking it  *)
(* to is such an error.  The reader as a whole may break, which the caller *)
(* is told.                                                                *)
(***************************************************************************)
EXTENDS Naturals, Sequences

CONSTANT Length     \* samples of the input

ASSUME LengthAssumption == Length \in Nat

VARIABLES
    pos,       \* the next sample to be delivered
    health,    \* "ok", "dead" (an error was met: eof), "broken"
    got,       \* what the last call delivered
    forward,   \* the input is a pipe
    fault      \* something has gone wrong outside: an I/O error, a panic

streamVars == <<pos, health, got, forward, fault>>

Shorter(m, n) == IF m < n THEN m ELSE n

\* The n samples from sample i on.
Samples(i, n) == [k \in 1 .. n |-> i + k - 1]

\* How many samples there are from i on.
Available(i) == IF i < Length THEN Length - i ELSE 0

StreamInit ==
    /\ pos = 0
    /\ health = "ok"
    /\ got = << >>
    /\ forward \in BOOLEAN
    /\ fault = FALSE

Fault ==
    /\ fault' = TRUE
    /\ UNCHANGED <<pos, health, got, forward>>

\* DecodeReader::read: fewer than len samples mean the end of the input.
Read(len) ==
    /\ health = "ok"
    /\ got' = Samples(pos, Shorter(len, Available(pos)))
    /\ pos' = pos + Shorter(len, Available(pos))
    /\ UNCHANGED <<health, forward, fault>>

\* The error is logged, and the read is one of no samples.
ReadFails ==
    /\ health = "ok"
    /\ fault
    /\ health' = "dead"
    /\ got' = << >>
    /\ UNCHANGED <<pos, forward, fault>>

ReadDead ==
    /\ health = "dead"
    /\ got' = << >>
    /\ UNCHANGED <<pos, health, forward, fault>>

Refused(s) == forward /\ s < pos

\* DecodeReader::seek_samples.  Behind the end there is nothing to read.
Seek(s) ==
    /\ health = "ok"
    /\ ~Refused(s)
    /\ pos' = Shorter(s, Length)
    /\ got' = << >>
    /\ UNCHANGED <<health, forward, fault>>

\* A pipe sent behind its end may take that for its place (FfmpegSource), and
\* refuse to go back from there.
SeekFails(s) ==
    /\ health = "ok"
    /\ fault \/ Refused(s) \/ (forward /\ s >= Length)
    /\ health' = "dead"
    /\ got' = << >>
    /\ UNCHANGED <<pos, forward, fault>>

SeekDead ==
    /\ health = "dead"
    /\ got' = << >>
    /\ UNCHANGED <<pos, health, forward, fault>>

Break ==
    /\ fault
    /\ health # "broken"
    /\ health' = "broken"
    /\ UNCHANGED <<pos, got, forward, fault>>

StreamNext(lens, targets) ==
    \/ Fault
    \/ \E len \in lens : Read(len)
    \/ ReadFails
    \/ ReadDead
    \/ \E s \in targets : Seek(s) \/ SeekFails(s)
    \/ SeekDead
    \/ Break
=============================================================================
