----------------------------- MODULE DemodCache -----------------------------
(***************************************************************************)
(* The block cache with its background lookahead.  assemble_field hands    *)
(* the lookahead of a field to a worker of the prefetch pool and goes on;  *)
(* the next call waits for the results, files them under the MTF they were *)
(* asked at and only then looks at its redo flag and its window.  Between  *)
(* the two the driver is free to change the RF levels and the MTF.         *)
(*                                                                         *)
(* The worker owns copies of its inputs, so all it shares with the decoder *)
(* is the one-shot result channel: pending.sent says the channel holds the *)
(* results.                                                                *)
(***************************************************************************)
EXTENDS DemodCacheOps

VARIABLES
    cache,      \* [map, order]: demod_cache and demod_cache_order
    levels,     \* self.levels
    outcome,    \* what the last call returned
    pending,    \* pending_prefetch and the worker behind it
    call,       \* the arguments of the call in progress
    pc          \* where the decoder thread is

vars == <<cache, levels, outcome, pending, call, pc>>

\* No lookahead outstanding: there is nothing to wait for.
NoPrefetch == [blocks |-> {}, sent |-> TRUE]
NoCall == [rb |-> "none"]

Calls == [rb : ReadlocBlocks, win : Windows, redo : BOOLEAN, mtf : Mtfs]

Init ==
    /\ cache = [map |-> EmptyCache, order |-> << >>]
    /\ levels \in Levels
    /\ outcome = NoOutcome
    /\ pending = NoPrefetch
    /\ call = NoCall
    /\ pc = "driver"

-----------------------------------------------------------------------------
(* The driver between two calls, and the worker.                           *)

\* The driver installs the levels a field or the AGC computed.
Recalibrate ==
    /\ pc = "driver"
    /\ levels' \in Levels \ {levels}
    /\ UNCHANGED <<cache, outcome, pending, call, pc>>

\* The driver is done with what the last call returned and calls
\* assemble_field, which first waits on the worker.
Call(c) ==
    /\ pc = "driver"
    /\ call' = c
    /\ pc' = "assembling"
    /\ outcome' = NoOutcome
    /\ UNCHANGED <<cache, levels, pending>>

\* The worker has demodulated its batch and sends the results.
WorkerSend ==
    /\ pc # "aborted"
    /\ ~pending.sent
    /\ pending' = [pending EXCEPT !.sent = TRUE]
    /\ UNCHANGED <<cache, levels, outcome, call, pc>>

\* The worker panics.  No pool has a panic handler, and a panic that leaves a
\* job spawned on such a pool aborts the process.
WorkerPanic ==
    /\ pc # "aborted"
    /\ ~pending.sent
    /\ pc' = "aborted"
    /\ UNCHANGED <<cache, levels, outcome, pending, call>>

-----------------------------------------------------------------------------
(* The rest of the call, once the worker has answered.                     *)

\* Mutant: the worker reads the shared levels instead of its copy.
FoldAtCurrentLevels ==
    IF pending = NoPrefetch
    THEN cache
    ELSE Prune(Insert(cache, pending.blocks, pending.mtf, levels))

\* The cache with the lookahead of the previous field filed in it, under the
\* MTF and the levels of that field.
FoldPendingPrefetch ==
    IF pending = NoPrefetch
    THEN cache
    ELSE Prune(Insert(cache, pending.blocks, pending.mtf, pending.levels))

\* Mutant: a redo flushes before the fold.
FlushedThenFolded(redo) ==
    IF redo /\ pending # NoPrefetch
    THEN Insert([map |-> EmptyCache, order |-> << >>], pending.blocks, pending.mtf, pending.levels)
    ELSE IF redo THEN [map |-> EmptyCache, order |-> << >>] ELSE FoldPendingPrefetch

\* The cache a call works on: the fold comes first, then the flush.
FoldedThenFlushed(redo) ==
    IF redo THEN [map |-> EmptyCache, order |-> << >>] ELSE FoldPendingPrefetch

\* The window does not hold the read: the caller has to move it.
NeedData ==
    /\ pc = "assembling"
    /\ pending.sent
    /\ RunsPastWindow(call.rb, call.win) \/ StartsBeforeWindow(call.rb, call.win)
    /\ cache' = FoldedThenFlushed(call.redo)
    /\ outcome' = [kind |-> "NeedData", needed |-> BlockBegin(call.rb)]
    /\ pending' = NoPrefetch
    /\ call' = NoCall
    /\ pc' = "driver"
    /\ UNCHANGED levels

Covered ==
    /\ ~RunsPastWindow(call.rb, call.win)
    /\ ~StartsBeforeWindow(call.rb, call.win)

\* The input ends inside the requested blocks.
Eof ==
    /\ pc = "assembling"
    /\ pending.sent
    /\ Covered
    /\ ReachesEof(call.rb, call.win)
    /\ cache' = FoldedThenFlushed(call.redo)
    /\ outcome' = [kind |-> "Eof"]
    /\ pending' = NoPrefetch
    /\ call' = NoCall
    /\ pc' = "driver"
    /\ UNCHANGED levels

\* The end-of-input test counts whole BlockSize strides, while the last block
\* is sliced BlockLen long: slicing past the end of the window panics.
SlicePanic ==
    /\ pc = "assembling"
    /\ pending.sent
    /\ Covered
    /\ ~ReachesEof(call.rb, call.win)
    /\ ~InWindow(BlockEnd(call.rb) - 1, call.win)
    /\ pc' = "aborted"
    /\ UNCHANGED <<cache, levels, outcome, pending, call>>

\* The field: hits are reused, misses demodulated and filed, and the blocks of
\* the lookahead that are still missing go to the worker.
Field ==
    LET start  == FoldedThenFlushed(call.redo)
        filled == Prune(Insert(start, Missing(start, WindowBlocks(call.rb)), call.mtf, levels))
        ahead  == Missing(filled, PrefetchPlan(call.rb, call.win))
    IN  /\ pc = "assembling"
        /\ pending.sent
        /\ Covered
        /\ ~ReachesEof(call.rb, call.win)
        /\ InWindow(BlockEnd(call.rb) - 1, call.win)
        /\ cache' = filled
        /\ outcome' = [kind |-> "Field", blocks |-> Served(start, call.rb, call.mtf, levels)]
        /\ pending' = IF ahead = {}
                      THEN NoPrefetch
                      ELSE [blocks |-> ahead, mtf |-> call.mtf, levels |-> levels, sent |-> FALSE]
        /\ call' = NoCall
        /\ pc' = "driver"
        /\ UNCHANGED levels

Next ==
    \/ Recalibrate
    \/ \E c \in Calls : Call(c)
    \/ WorkerSend
    \/ WorkerPanic
    \/ NeedData
    \/ Eof
    \/ SlicePanic
    \/ Field

Spec == Init /\ [][Next]_vars

-----------------------------------------------------------------------------
(* What the block cache with background lookahead promises.                *)

\* Types of the variables (the fields of `Decoder` they stand for).
TypeOK ==
    /\ IsCache(cache)
    /\ levels \in Levels
    /\ \/ pending = NoPrefetch
       \/ /\ pending \in [blocks : (SUBSET Nat) \ {{}}, mtf : Mtfs,
                          levels : Levels, sent : BOOLEAN]
          /\ IsFiniteSet(pending.blocks)
    /\ pc \in {"driver", "assembling", "aborted"}
    /\ pc = "driver" => call = NoCall
    /\ pc = "assembling" => call \in Calls

\* The FIFO order lists every cached block exactly once and never more than
\* CacheSize of them, and a lookahead in flight is of blocks the cache does
\* not hold: nothing a call does while the worker runs may make the fold
\* insert a block twice, or prune_cache would evict a block that is still
\* listed (cache_insert pushes to the order without looking).
CacheListed ==
    /\ Listed(cache)
    /\ Len(cache.order) <= CacheSize
    /\ pending.blocks \intersect DOMAIN cache.map = {}

\* A redo re-demodulates its whole window: no block it serves was made at
\* another MTF or under other levels than the ones in force now, whatever the
\* worker was doing when the redo was asked for.
RedoServesFresh ==
    [][(pc = "assembling" /\ pc' = "driver" /\ call.redo /\ outcome'.kind = "Field")
          => \A b \in DOMAIN outcome'.blocks :
                 outcome'.blocks[b] = [bnum |-> b, mtf |-> call.mtf, levels |-> levels]]_vars

\* Threading the lookahead changes nothing a field can see: with the lookahead
\* in flight counted as filed, every step is a step of the serial schedule
\* (same windows served, same evictions, same MTF on every cached block).
Serial == INSTANCE SerialDemodCache WITH
    cache <- FoldPendingPrefetch,
    alive <- pc # "aborted"

ImplementsSerial == Serial!SerialSpec
=============================================================================
