-------------------------- MODULE SerialDemodCache --------------------------
(***************************************************************************)
(* The serial schedule of the block cache: what the decoder does when it   *)
(* demodulates its lookahead in line (LD_NO_ASYNC_PREFETCH).  One call of  *)
(* assemble_field is one step: flush on a redo, demodulate the window's    *)
(* missing blocks, prune, demodulate the lookahead, prune.  This is the    *)
(* schedule the threaded one is measured against.                          *)
(***************************************************************************)
EXTENDS DemodCacheOps

VARIABLES
    cache,      \* [map, order]: demod_cache and demod_cache_order
    levels,     \* self.levels
    outcome,    \* what the last call returned
    alive       \* FALSE once the process has aborted

serialVars == <<cache, levels, outcome, alive>>

Init ==
    /\ cache = [map |-> EmptyCache, order |-> << >>]
    /\ levels \in Levels
    /\ outcome = NoOutcome
    /\ alive = TRUE

\* The driver installs the levels a field or the AGC computed.
Recalibrate ==
    /\ alive
    /\ levels' \in Levels \ {levels}
    /\ UNCHANGED <<cache, outcome, alive>>

\* The driver is done with what the last call returned.
Consume ==
    /\ alive
    /\ outcome' = NoOutcome
    /\ UNCHANGED <<cache, levels, alive>>

\* One call of assemble_field for the field at block rb of the BlockLen grid.
AssembleField(rb, win, redo, mtf) ==
    LET flushed == IF redo THEN [map |-> EmptyCache, order |-> << >>] ELSE cache
        filled  == Prune(Insert(flushed, Missing(flushed, WindowBlocks(rb)), mtf, levels))
        ahead   == Missing(filled, PrefetchPlan(rb, win))
    IN  /\ alive
        /\ \/ /\ RunsPastWindow(rb, win) \/ StartsBeforeWindow(rb, win)
              /\ outcome' = [kind |-> "NeedData", needed |-> BlockBegin(rb)]
              /\ cache' = flushed
              /\ UNCHANGED alive
           \/ /\ ~RunsPastWindow(rb, win)
              /\ ~StartsBeforeWindow(rb, win)
              /\ ReachesEof(rb, win)
              /\ outcome' = [kind |-> "Eof"]
              /\ cache' = flushed
              /\ UNCHANGED alive
           \/ /\ ~RunsPastWindow(rb, win)
              /\ ~StartsBeforeWindow(rb, win)
              /\ ~ReachesEof(rb, win)
              /\ InWindow(BlockEnd(rb) - 1, win)
              /\ outcome' = [kind |-> "Field", blocks |-> Served(flushed, rb, mtf, levels)]
              /\ cache' = Prune(Insert(filled, ahead, mtf, levels))
              /\ UNCHANGED alive
        /\ UNCHANGED levels

\* A panic anywhere ends the process.
Crash ==
    /\ alive
    /\ alive' = FALSE
    /\ UNCHANGED <<cache, levels, outcome>>

Next ==
    \/ Recalibrate
    \/ Consume
    \/ Crash
    \/ \E rb \in ReadlocBlocks, win \in Windows, redo \in BOOLEAN, mtf \in Mtfs :
           AssembleField(rb, win, redo, mtf)

SerialSpec == Init /\ [][Next]_serialVars
=============================================================================
