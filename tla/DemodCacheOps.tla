--------------------------- MODULE DemodCacheOps ---------------------------
(***************************************************************************)
(* The block cache of the RF demodulator (`cache_insert` and `prune_cache` *)
(* in decode/mod.rs).                                                      *)
(*                                                                         *)
(* What a block is demodulated to depends on its input, on the MTF level   *)
(* and on the calibrated RF levels, so those three stand for the result.   *)
(***************************************************************************)
EXTENDS BlockGeometry, FiniteSets, Sequences

CONSTANTS
    CacheSize,       \* the 256 of prune_cache
    Mtfs,            \* MTF levels a field may be demodulated at
    Levels,          \* calibrated RF levels (CalibLevels)
    ReadlocBlocks,   \* the readloc_block of the fields asked for
    Windows          \* the sample windows the caller may offer

ASSUME CacheSizeAssumption == CacheSize \in Nat \ {0}

ASSUME InputAssumption ==
    /\ ReadlocBlocks \subseteq Nat
    /\ Windows \subseteq [start : Nat, end : Nat, final : BOOLEAN]

-----------------------------------------------------------------------------
(* The cache: demod_cache maps a block number to what it was demodulated   *)
(* with, demod_cache_order lists the keys in the order of insertion.       *)

Demod(b, mtf, lev) == [mtf |-> mtf, bd |-> [bnum |-> b, mtf |-> mtf, levels |-> lev]]

Entries == [mtf : Mtfs, bd : [bnum : Nat, mtf : Mtfs, levels : Levels]]

EmptyCache == [b \in {} |-> b]

\* The members of a finite set of block numbers in ascending order: the one
\* at place i is the one with i - 1 members below it.
Ascending(S) ==
    [i \in 1 .. Cardinality(S) |->
        CHOOSE b \in S : Cardinality({c \in S : c < b}) = i - 1]

\* A cache (a record of the map and the insertion order) after cache_insert
\* of every block of S, in block order.
Insert(c, S, mtf, lev) ==
    [map   |-> [b \in DOMAIN c.map \union S |->
                    IF b \in S THEN Demod(b, mtf, lev) ELSE c.map[b]],
     order |-> c.order \o Ascending(S)]

\* FIFO-prune to CacheSize entries: the oldest keys leave order and map.
Prune(c) ==
    LET drop == IF Len(c.order) > CacheSize THEN Len(c.order) - CacheSize ELSE 0
        gone == {c.order[i] : i \in 1 .. drop}
    IN  [map   |-> [b \in DOMAIN c.map \ gone |-> c.map[b]],
         order |-> SubSeq(c.order, drop + 1, Len(c.order))]

\* What every cache value is: a map of block numbers to entries made for those
\* blocks, and a sequence of block numbers.
IsCache(c) ==
    /\ c = [map |-> c.map, order |-> c.order]
    /\ c.map = [b \in DOMAIN c.map |-> c.map[b]]
    /\ DOMAIN c.map \subseteq Nat
    /\ \A b \in DOMAIN c.map : c.map[b] \in Entries /\ c.map[b].bd.bnum = b
    /\ c.order \in Seq(Nat)

\* The insertion order lists the keys of the map, each of them once.
Listed(c) ==
    /\ \A i, j \in 1 .. Len(c.order) : c.order[i] = c.order[j] => i = j
    /\ DOMAIN c.map = {c.order[i] : i \in 1 .. Len(c.order)}

NoOutcome == [kind |-> "None"]

\* Mutant: blocks are demodulated without looking into the cache.
MissingAll(c, S) == S

\* The blocks of S that are not in the cache.
Missing(c, S) == S \ DOMAIN c.map

\* The window blocks of the field as the decoder sees them: hits as they are
\* (whatever MTF they were demodulated with), misses at the current level.
Served(c, rb, mtf, lev) ==
    [b \in WindowBlocks(rb) |->
        IF b \in DOMAIN c.map THEN c.map[b].bd ELSE Demod(b, mtf, lev).bd]
=============================================================================
