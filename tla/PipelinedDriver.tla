-------------------------- MODULE PipelinedDriver --------------------------
(***************************************************************************)
(* When the reference decoder chooses the MTF level of a field, as the     *)
(* comments of Decoder::decode tell it: the thread that decodes the next   *)
(* field is launched, with the level of the day, before the current field  *)
(* is checked; a redo throws the thread away and decodes in line.          *)
(***************************************************************************)
CONSTANT InitialLevel

VARIABLES
    level,        \* the current level
    thread,       \* the level the thread for the next field was given
    demodulated   \* the level of the last field decoded

pipelineVars == <<level, thread, demodulated>>

Init ==
    /\ level = InitialLevel
    /\ thread = InitialLevel
    /\ demodulated = InitialLevel

\* The thread's field is taken and the next thread launched; then the check
\* sets the level.
Join ==
    /\ demodulated' = thread
    /\ thread' = level

\* The field is decoded again at the level the check has set, and the next
\* thread launched with that.
Redo ==
    /\ demodulated' = level
    /\ thread' = level
    /\ UNCHANGED level

Next == Join \/ Redo

PipelineSpec == Init /\ [][Next]_pipelineVars
=============================================================================
