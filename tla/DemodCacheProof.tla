-------------------------- MODULE DemodCacheProof ---------------------------
(***************************************************************************)
(* Proofs about the block cache, for every geometry, cache size and set of *)
(* windows the assumptions of DemodCacheOps allow.                         *)
(***************************************************************************)
EXTENDS DemodCache, FiniteSetTheorems, SequenceTheorems, TLAPS

(* A cache value whose order lists its keys.                               *)
WellFormed(c) == IsCache(c) /\ Listed(c)

-----------------------------------------------------------------------------
(* Ascending enumerates a finite set of block numbers: every member once.  *)
(* The number of members below a member is an injection into 0 .. n-1, so  *)
(* by counting it is onto, and the CHOOSE of Ascending has a witness.      *)
LEMMA AscendingLists ==
    ASSUME NEW S \in SUBSET Nat, IsFiniteSet(S)
    PROVE  /\ Cardinality(S) \in Nat
           /\ Ascending(S) \in Seq(Nat)
           /\ Len(Ascending(S)) = Cardinality(S)
           /\ \A i, j \in 1 .. Len(Ascending(S)) :
                  Ascending(S)[i] = Ascending(S)[j] => i = j
           /\ S = {Ascending(S)[i] : i \in 1 .. Len(Ascending(S))}
  <1> DEFINE n == Cardinality(S)
             below(b) == {c \in S : c < b}
             rank == [b \in S |-> Cardinality(below(b))]
  <1>1. n \in Nat
    BY FS_CardinalityType
  <1>2. \A b \in S : rank[b] \in 0 .. n - 1
    <2> TAKE b \in S
    <2>1. below(b) \in SUBSET S /\ b \notin below(b)
      OBVIOUS
    <2>2. IsFiniteSet(below(b)) /\ Cardinality(below(b)) <= n
                                /\ Cardinality(below(b)) # n
      BY <2>1, FS_Subset
    <2>3. Cardinality(below(b)) \in Nat
      BY <2>2, FS_CardinalityType
    <2> QED
      BY <2>2, <2>3, <1>1
  <1>3. \A b, c \in S : b < c => rank[b] < rank[c]
    <2> TAKE b, c \in S
    <2> HAVE b < c
    <2>1. below(b) \in SUBSET below(c) /\ b \in below(c) /\ b \notin below(b)
      <3>1. b \in Nat /\ c \in Nat /\ ~(b < b)
        OBVIOUS
      <3>2. \A e \in S : e < b => e < c
        BY <3>1
      <3> QED
        BY <3>1, <3>2
    <2>2. IsFiniteSet(below(c))
      BY FS_Subset
    <2>3. Cardinality(below(b)) <= Cardinality(below(c))
          /\ Cardinality(below(b)) # Cardinality(below(c))
      BY <2>1, <2>2, FS_Subset
    <2> QED
      BY <2>3, <1>2
  <1>4. \A b, c \in S : rank[b] = rank[c] => b = c
    <2> TAKE b, c \in S
    <2>1. b < c \/ c < b \/ b = c
      OBVIOUS
    <2> QED
      BY <2>1, <1>2, <1>3
  <1> HIDE DEF rank
  <1>5. rank \in [S -> 0 .. n - 1]
    BY <1>2 DEF rank
  <1>6. \A k \in 0 .. n - 1 : \E b \in S : rank[b] = k
    <2>1. rank \in Injection(S, 0 .. n - 1)
      BY <1>4, <1>5 DEF Injection, IsInjective
    <2>2. IsFiniteSet(0 .. n - 1) /\ Cardinality(0 .. n - 1) = n
      <3>1. n - 1 \in Int /\ 0 \in Int
        BY <1>1
      <3> QED
        BY <1>1, <3>1, FS_Interval
    <2>3. rank \in Surjection(S, 0 .. n - 1)
      BY <2>1, <2>2, FS_Injection
    <2> QED
      BY <2>3 DEF Surjection
  <1> DEFINE q == Ascending(S)
  <1>7. q = [i \in 1 .. n |-> CHOOSE b \in S : Cardinality(below(b)) = i - 1]
    BY DEF Ascending
  <1> HIDE DEF q, n, below
  <1>8. \A i \in 1 .. n : q[i] \in S /\ rank[q[i]] = i - 1
    <2> TAKE i \in 1 .. n
    <2>1. PICK b \in S : rank[b] = i - 1
      BY <1>1, <1>6
    <2>2. Cardinality(below(b)) = i - 1
      BY <2>1 DEF rank
    <2>3. q[i] \in S /\ Cardinality(below(q[i])) = i - 1
      BY <2>2, <1>7
    <2> QED
      BY <2>3 DEF rank
  <1>9. q \in Seq(Nat) /\ Len(q) = n
    <2>1. q \in [1 .. n -> Nat]
      BY <1>7, <1>8
    <2> QED
      BY <1>1, <2>1, IsASeq
  <1>10. \A i, j \in 1 .. n : q[i] = q[j] => i = j
    BY <1>1, <1>8
  <1>11. \A b \in S : \E i \in 1 .. n : q[i] = b
    <2> TAKE b \in S
    <2>1. rank[b] + 1 \in 1 .. n
      BY <1>1, <1>2
    <2>2. rank[q[rank[b] + 1]] = rank[b]
      BY <2>1, <1>2, <1>8
    <2> QED
      BY <2>1, <2>2, <1>4, <1>8
  <1>12. S = {q[i] : i \in 1 .. n}
    BY <1>8, <1>11
  <1> QED
    BY <1>1, <1>9, <1>10, <1>12 DEF q, n

(* Inserting blocks the cache does not hold keeps it well formed.          *)
LEMMA InsertWellFormed ==
    ASSUME NEW c, WellFormed(c),
           NEW S \in SUBSET Nat, IsFiniteSet(S), S \intersect DOMAIN c.map = {},
           NEW m \in Mtfs, NEW l \in Levels
    PROVE  /\ WellFormed(Insert(c, S, m, l))
           /\ DOMAIN Insert(c, S, m, l).map = DOMAIN c.map \union S
  <1> DEFINE q == Ascending(S)
             d == Insert(c, S, m, l)
             n == Len(c.order)
             k == Len(q)
  <1>1. /\ q \in Seq(Nat)
        /\ k \in Nat
        /\ \A i, j \in 1 .. k : q[i] = q[j] => i = j
        /\ S = {q[i] : i \in 1 .. k}
    BY AscendingLists
  <1>2. /\ c.order \in Seq(Nat)
        /\ n \in Nat
        /\ \A i, j \in 1 .. n : c.order[i] = c.order[j] => i = j
        /\ DOMAIN c.map = {c.order[i] : i \in 1 .. n}
        /\ DOMAIN c.map \subseteq Nat
        /\ \A b \in DOMAIN c.map : c.map[b] \in Entries /\ c.map[b].bd.bnum = b
    BY DEF WellFormed, IsCache, Listed
  <1> HIDE DEF q, k, n
  <1>3. /\ d.order = c.order \o q
        /\ d.map = [b \in DOMAIN c.map \union S |->
                        IF b \in S THEN Demod(b, m, l) ELSE c.map[b]]
        /\ d = [map |-> d.map, order |-> d.order]
    BY DEF Insert, q
  <1> HIDE DEF d
  <1>4. /\ d.order \in Seq(Nat)
        /\ Len(d.order) = n + k
        /\ \A i \in 1 .. n + k : d.order[i] = IF i <= n THEN c.order[i] ELSE q[i - n]
    BY <1>1, <1>2, <1>3, ConcatProperties DEF n, k
  <1>5. \A i \in 1 .. n : d.order[i] = c.order[i] /\ d.order[i] \in DOMAIN c.map
    <2> TAKE i \in 1 .. n
    <2>1. i \in 1 .. n + k /\ i <= n
      BY <1>1, <1>2
    <2>2. c.order[i] \in DOMAIN c.map
      BY <1>2
    <2> QED
      BY <2>1, <2>2, <1>4
  <1>6. \A i \in 1 .. k : d.order[n + i] = q[i] /\ d.order[n + i] \in S
    <2> TAKE i \in 1 .. k
    <2>1. n + i \in 1 .. n + k /\ ~(n + i <= n) /\ (n + i) - n = i
      BY <1>1, <1>2
    <2> QED
      BY <2>1, <1>1, <1>4
  <1>7. \A i \in 1 .. n + k : i \in 1 .. n \/ \E j \in 1 .. k : i = n + j
    <2> TAKE i \in 1 .. n + k
    <2>1. CASE i <= n
      BY <2>1
    <2>2. CASE ~(i <= n)
      <3>1. i - n \in 1 .. k /\ i = n + (i - n)
        BY <2>2, <1>1, <1>2
      <3> QED
        BY <3>1
    <2> QED
      BY <2>1, <2>2
  <1>8. \A i, j \in 1 .. n + k : d.order[i] = d.order[j] => i = j
    <2> TAKE i, j \in 1 .. n + k
    <2> HAVE d.order[i] = d.order[j]
    <2>1. CASE i \in 1 .. n /\ j \in 1 .. n
      BY <2>1, <1>2, <1>5
    <2>2. CASE \E a \in 1 .. k : i = n + a
      <3> PICK a \in 1 .. k : i = n + a
        BY <2>2
      <3>1. d.order[i] = q[a] /\ d.order[i] \in S
        BY <1>6
      <3>2. j \notin 1 .. n
        BY <3>1, <1>5
      <3>3. PICK e \in 1 .. k : j = n + e
        BY <3>2, <1>7
      <3> QED
        BY <3>1, <3>3, <1>1, <1>6
    <2>3. CASE \E a \in 1 .. k : j = n + a
      <3> PICK a \in 1 .. k : j = n + a
        BY <2>3
      <3>1. d.order[j] = q[a] /\ d.order[j] \in S
        BY <1>6
      <3>2. i \notin 1 .. n
        BY <3>1, <1>5
      <3>3. PICK e \in 1 .. k : i = n + e
        BY <3>2, <1>7
      <3> QED
        BY <3>1, <3>3, <1>1, <1>6
    <2> QED
      BY <2>1, <2>2, <2>3, <1>7
  <1>9. DOMAIN d.map = DOMAIN c.map \union S
    BY <1>3
  <1>10. DOMAIN d.map = {d.order[i] : i \in 1 .. n + k}
    <2>1. \A b \in DOMAIN c.map : \E i \in 1 .. n + k : d.order[i] = b
      <3> TAKE b \in DOMAIN c.map
      <3>1. PICK i \in 1 .. n : c.order[i] = b
        BY <1>2
      <3>2. i \in 1 .. n + k
        BY <1>1, <1>2
      <3> QED
        BY <3>1, <3>2, <1>5
    <2>2. \A b \in S : \E i \in 1 .. n + k : d.order[i] = b
      <3> TAKE b \in S
      <3>1. PICK i \in 1 .. k : q[i] = b
        BY <1>1
      <3>2. n + i \in 1 .. n + k
        BY <1>1, <1>2
      <3> QED
        BY <3>1, <3>2, <1>6
    <2>3. \A i \in 1 .. n + k : d.order[i] \in DOMAIN c.map \union S
      BY <1>5, <1>6, <1>7
    <2> QED
      BY <2>1, <2>2, <2>3, <1>9
  <1>11. \A b \in DOMAIN d.map : d.map[b] \in Entries /\ d.map[b].bd.bnum = b
    <2> TAKE b \in DOMAIN d.map
    <2>1. CASE b \in S
      BY <2>1, <1>3, <1>9 DEF Demod, Entries
    <2>2. CASE b \notin S
      BY <2>2, <1>2, <1>3, <1>9
    <2> QED
      BY <2>1, <2>2
  <1>12. d.map = [b \in DOMAIN d.map |-> d.map[b]] /\ DOMAIN d.map \subseteq Nat
    BY <1>2, <1>3, <1>9
  <1>13. WellFormed(d)
    BY <1>3, <1>4, <1>8, <1>10, <1>11, <1>12 DEF WellFormed, IsCache, Listed
  <1> QED
    BY <1>9, <1>13 DEF d

(* Pruning keeps a well-formed cache well formed, bounds it, and only      *)
(* removes keys.                                                           *)
LEMMA PruneWellFormed ==
    ASSUME NEW c, WellFormed(c)
    PROVE  /\ WellFormed(Prune(c))
           /\ Len(Prune(c).order) <= CacheSize
           /\ DOMAIN Prune(c).map \subseteq DOMAIN c.map
  <1> DEFINE n == Len(c.order)
             drop == IF n > CacheSize THEN n - CacheSize ELSE 0
             gone == {c.order[i] : i \in 1 .. drop}
             d == Prune(c)
  <1>1. /\ c.order \in Seq(Nat)
        /\ n \in Nat
        /\ \A i \in 1 .. n : c.order[i] \in Nat
        /\ \A i, j \in 1 .. n : c.order[i] = c.order[j] => i = j
        /\ DOMAIN c.map = {c.order[i] : i \in 1 .. n}
        /\ DOMAIN c.map \subseteq Nat
        /\ \A b \in DOMAIN c.map : c.map[b] \in Entries /\ c.map[b].bd.bnum = b
    BY DEF WellFormed, IsCache, Listed
  <1>2. drop \in 0 .. n /\ n - drop <= CacheSize /\ CacheSize \in Nat
    BY <1>1, CacheSizeAssumption
  <1>3. /\ d.map = [b \in DOMAIN c.map \ gone |-> c.map[b]]
        /\ d.order = SubSeq(c.order, drop + 1, n)
        /\ d = [map |-> d.map, order |-> d.order]
    BY DEF Prune
  <1> HIDE DEF d, drop, n
  <1>4. /\ d.order \in Seq(Nat)
        /\ Len(d.order) = n - drop
        /\ \A i \in 1 .. n - drop : d.order[i] = c.order[drop + i]
    <2>1. drop + 1 \in Int /\ n \in Int /\ \A i \in drop + 1 .. n : c.order[i] \in Nat
      BY <1>1, <1>2
    <2>2. /\ SubSeq(c.order, drop + 1, n) \in Seq(Nat)
          /\ Len(SubSeq(c.order, drop + 1, n)) =
                IF drop + 1 <= n THEN n - (drop + 1) + 1 ELSE 0
          /\ \A i \in 1 .. n - (drop + 1) + 1 :
                SubSeq(c.order, drop + 1, n)[i] = c.order[(drop + 1) + i - 1]
      BY <2>1, SubSeqProperties
    <2>3. (IF drop + 1 <= n THEN n - (drop + 1) + 1 ELSE 0) = n - drop
      BY <1>1, <1>2
    <2>4. \A i \in 1 .. n - drop : i \in 1 .. n - (drop + 1) + 1 /\ (drop + 1) + i - 1 = drop + i
      BY <1>1, <1>2
    <2> QED
      BY <2>2, <2>3, <2>4, <1>3
  <1>5. \A i \in 1 .. n - drop : drop + i \in 1 .. n
    BY <1>1, <1>2
  <1>6. \A i, j \in 1 .. n - drop : d.order[i] = d.order[j] => i = j
    <2> TAKE i, j \in 1 .. n - drop
    <2> HAVE d.order[i] = d.order[j]
    <2>1. c.order[drop + i] = c.order[drop + j]
      BY <1>4
    <2>2. drop + i \in 1 .. n /\ drop + j \in 1 .. n
      BY <1>5
    <2>3. drop + i = drop + j
      BY <2>1, <2>2, <1>1
    <2> QED
      BY <2>3, <1>2
  <1>7. DOMAIN d.map = DOMAIN c.map \ gone
    BY <1>3
  <1>8. \A i \in 1 .. n - drop : d.order[i] \in DOMAIN c.map \ gone
    <2> TAKE i \in 1 .. n - drop
    <2>1. d.order[i] = c.order[drop + i] /\ drop + i \in 1 .. n
      BY <1>4, <1>5
    <2>2. \A j \in 1 .. drop : c.order[j] # c.order[drop + i]
      <3> TAKE j \in 1 .. drop
      <3>1. j \in 1 .. n /\ j # drop + i
        BY <1>1, <1>2
      <3> QED
        BY <3>1, <2>1, <1>1
    <2> QED
      BY <2>1, <2>2, <1>1
  <1>9. \A b \in DOMAIN c.map \ gone : \E i \in 1 .. n - drop : d.order[i] = b
    <2> TAKE b \in DOMAIN c.map \ gone
    <2>1. PICK j \in 1 .. n : c.order[j] = b
      BY <1>1
    <2>2. j \notin 1 .. drop
      BY <2>1
    <2>3. j - drop \in 1 .. n - drop /\ drop + (j - drop) = j
      BY <2>2, <1>1, <1>2
    <2> QED
      BY <2>1, <2>3, <1>4
  <1>10. DOMAIN d.map = {d.order[i] : i \in 1 .. n - drop}
    BY <1>7, <1>8, <1>9
  <1>11. /\ d.map = [b \in DOMAIN d.map |-> d.map[b]]
         /\ \A b \in DOMAIN d.map : d.map[b] \in Entries /\ d.map[b].bd.bnum = b
    BY <1>1, <1>3, <1>7
  <1>12. WellFormed(d)
    BY <1>1, <1>3, <1>4, <1>6, <1>7, <1>10, <1>11 DEF WellFormed, IsCache, Listed
  <1> QED
    BY <1>2, <1>4, <1>7, <1>12 DEF d

(* The blocks of a window and of a lookahead are finitely many naturals.   *)
LEMMA Geometry ==
    ASSUME NEW rb \in ReadlocBlocks, NEW win \in Windows
    PROVE  /\ WindowBlocks(rb) \in SUBSET Nat
           /\ IsFiniteSet(WindowBlocks(rb))
           /\ PrefetchPlan(rb, win) \in SUBSET Nat
           /\ IsFiniteSet(PrefetchPlan(rb, win))
  <1>1. rb \in Nat
    BY InputAssumption
  <1>2. \A a \in Nat : a \div BlockSize \in Nat
    BY GeometryAssumption
  <1>3. \A a, b \in Nat : a * b \in Nat /\ a + b \in Nat
    OBVIOUS
  <1>4. FirstBlock(rb) \in Nat
    BY <1>1, <1>2, <1>3, GeometryAssumption DEF FirstBlock
  <1>5. ReadLen \div BlockLen + 2 \in Nat
    <2>1. BlockLen \in Nat /\ BlockLen > 0
      BY GeometryAssumption
    <2>2. ReadLen \div BlockLen \in Nat
      BY <2>1, GeometryAssumption
    <2> QED
      BY <2>2
  <1>6. BlockEnd(rb) \in Nat /\ BlockEnd(rb) - 1 \in Nat
    <2> DEFINE m == ReadLen \div BlockLen + 2
               e == rb * BlockLen + m * BlockLen
    <2>1. e \in Nat
      BY <1>1, <1>3, <1>5, GeometryAssumption
    <2>2. e \div BlockSize \in Nat
      BY <1>2, <2>1
    <2>3. BlockEnd(rb) = e \div BlockSize + 1
      BY DEF BlockEnd
    <2> QED
      BY <2>2, <2>3
  <1>7. \A a, b \in Int : a >= 0 => a .. b \in SUBSET Nat /\ IsFiniteSet(a .. b)
    BY FS_Interval
  <1>8. WindowBlocks(rb) \in SUBSET Nat /\ IsFiniteSet(WindowBlocks(rb))
    BY <1>4, <1>6, <1>7 DEF WindowBlocks
  <1>9. PrefetchPlan(rb, win) \in SUBSET Nat /\ IsFiniteSet(PrefetchPlan(rb, win))
    <2> DEFINE range == BlockEnd(rb) - 1 .. BlockEnd(rb) + PrefetchBlocks - 2
    <2>1. range \in SUBSET Nat /\ IsFiniteSet(range)
      <3>1. BlockEnd(rb) + PrefetchBlocks - 2 \in Int
        BY <1>6, GeometryAssumption
      <3> QED
        BY <3>1, <1>6, <1>7
    <2>2. PrefetchPlan(rb, win) \in SUBSET range
      BY DEF PrefetchPlan
    <2> QED
      BY <2>1, <2>2, FS_Subset
  <1> QED
    BY <1>8, <1>9

-----------------------------------------------------------------------------
(* The inductive invariant is the type invariant with CacheListed: that    *)
(* the lookahead in flight is disjoint from the cache is what keeps the    *)
(* fold from listing a block twice.                                        *)
IInv == TypeOK /\ CacheListed

\* The empty cache lists nothing.
LEMMA EmptyWellFormed ==
    /\ WellFormed([map |-> EmptyCache, order |-> << >>])
    /\ Len(<< >>) <= CacheSize
  <1>1. EmptyCache = [b \in DOMAIN EmptyCache |-> EmptyCache[b]] /\ DOMAIN EmptyCache = {}
    BY DEF EmptyCache
  <1>2. << >> \in Seq(Nat) /\ Len(<< >>) = 0 /\ 1 .. 0 = {}
    OBVIOUS
  <1> QED
    BY <1>1, <1>2, CacheSizeAssumption DEF WellFormed, IsCache, Listed

(* Filing the lookahead yields a well-formed cache within its bound.       *)
LEMMA FoldWellFormed ==
    ASSUME IInv
    PROVE  /\ WellFormed(FoldPendingPrefetch)
           /\ Len(FoldPendingPrefetch.order) <= CacheSize
  <1>0. WellFormed(cache) /\ Len(cache.order) <= CacheSize
    BY DEF IInv, TypeOK, CacheListed, WellFormed
  <1>1. CASE pending = NoPrefetch
    BY <1>0, <1>1 DEF FoldPendingPrefetch
  <1>2. CASE pending # NoPrefetch
    <2>1. /\ pending.blocks \in SUBSET Nat
          /\ IsFiniteSet(pending.blocks)
          /\ pending.blocks \intersect DOMAIN cache.map = {}
          /\ pending.mtf \in Mtfs
          /\ pending.levels \in Levels
      BY <1>2 DEF IInv, TypeOK, CacheListed
    <2>2. WellFormed(Insert(cache, pending.blocks, pending.mtf, pending.levels))
      BY <1>0, <2>1, InsertWellFormed
    <2> QED
      BY <1>2, <2>2, PruneWellFormed DEF FoldPendingPrefetch
  <1> QED
    BY <1>1, <1>2

(* So does the fold followed by the flush of a redo.                       *)
LEMMA FlushedWellFormed ==
    ASSUME IInv, NEW redo
    PROVE  /\ WellFormed(FoldedThenFlushed(redo))
           /\ Len(FoldedThenFlushed(redo).order) <= CacheSize
  <1>1. CASE redo
    BY <1>1, EmptyWellFormed DEF FoldedThenFlushed
  <1>2. CASE ~redo
    BY <1>2, FoldWellFormed DEF FoldedThenFlushed
  <1> QED
    BY <1>1, <1>2

(* Filling a well-formed cache with the window of a field.                 *)
LEMMA FillWellFormed ==
    ASSUME NEW c, WellFormed(c), NEW S \in SUBSET Nat, IsFiniteSet(S),
           NEW m \in Mtfs, NEW l \in Levels
    PROVE  /\ WellFormed(Prune(Insert(c, Missing(c, S), m, l)))
           /\ Len(Prune(Insert(c, Missing(c, S), m, l)).order) <= CacheSize
           /\ Missing(c, S) \in SUBSET Nat
           /\ IsFiniteSet(Missing(c, S))
           /\ Missing(c, S) \intersect DOMAIN c.map = {}
  <1>1. /\ Missing(c, S) \in SUBSET S
        /\ Missing(c, S) \intersect DOMAIN c.map = {}
    BY DEF Missing
  <1>2. IsFiniteSet(Missing(c, S)) /\ Missing(c, S) \in SUBSET Nat
    BY <1>1, FS_Subset
  <1>3. WellFormed(Insert(c, Missing(c, S), m, l))
    BY <1>1, <1>2, InsertWellFormed
  <1> QED
    BY <1>1, <1>2, <1>3, PruneWellFormed

-----------------------------------------------------------------------------
\* The invariant holds of a new decoder.
LEMMA InitIInv == Init => IInv
  <1> SUFFICES ASSUME Init PROVE IInv
    OBVIOUS
  <1>1. WellFormed(cache) /\ Len(cache.order) <= CacheSize
    BY EmptyWellFormed DEF Init
  <1>2. pending = NoPrefetch /\ pending.blocks \intersect DOMAIN cache.map = {}
    BY DEF Init, NoPrefetch
  <1> QED
    BY <1>1, <1>2 DEF Init, IInv, TypeOK, CacheListed, WellFormed

(* The two ways a call ends without a field leave the folded cache.        *)
LEMMA EmptyHandedIInv ==
    ASSUME IInv, cache' = FoldedThenFlushed(call.redo), pending' = NoPrefetch,
           call' = NoCall, pc' = "driver", levels' = levels
    PROVE  IInv'
  <1>1. WellFormed(cache') /\ Len(cache'.order) <= CacheSize
    BY FlushedWellFormed
  <1>2. pending'.blocks \intersect DOMAIN cache'.map = {}
    BY DEF NoPrefetch
  <1> QED
    BY <1>1, <1>2 DEF IInv, TypeOK, CacheListed, WellFormed

(* A field leaves the filled cache, and hands the worker blocks it does    *)
(* not hold.                                                               *)
LEMMA FieldIInv == IInv /\ Field => IInv'
  <1> SUFFICES ASSUME IInv, Field PROVE IInv'
    OBVIOUS
  <1> DEFINE start  == FoldedThenFlushed(call.redo)
             S      == WindowBlocks(call.rb)
             filled == Prune(Insert(start, Missing(start, S), call.mtf, levels))
             P      == PrefetchPlan(call.rb, call.win)
             ahead  == Missing(filled, P)
  <1>1. call.rb \in ReadlocBlocks /\ call.win \in Windows /\ call.mtf \in Mtfs
        /\ levels \in Levels
    BY DEF IInv, TypeOK, Field, Calls
  <1>2. S \in SUBSET Nat /\ IsFiniteSet(S) /\ P \in SUBSET Nat /\ IsFiniteSet(P)
    BY <1>1, Geometry
  <1>3. WellFormed(start)
    BY FlushedWellFormed
  <1>4. cache' = filled /\ levels' = levels /\ call' = NoCall /\ pc' = "driver"
        /\ pending' = IF ahead = {}
                      THEN NoPrefetch
                      ELSE [blocks |-> ahead, mtf |-> call.mtf, levels |-> levels, sent |-> FALSE]
    BY DEF Field
  <1> HIDE DEF start, S, P
  <1>5. WellFormed(filled) /\ Len(filled.order) <= CacheSize
    BY <1>1, <1>2, <1>3, FillWellFormed
  <1> HIDE DEF filled
  <1>6. ahead \in SUBSET Nat /\ IsFiniteSet(ahead) /\ ahead \intersect DOMAIN filled.map = {}
    BY <1>1, <1>2, <1>5, FillWellFormed
  <1> HIDE DEF ahead
  <1>7. /\ \/ pending' = NoPrefetch
           \/ /\ pending' \in [blocks : (SUBSET Nat) \ {{}}, mtf : Mtfs,
                               levels : Levels, sent : BOOLEAN]
              /\ IsFiniteSet(pending'.blocks)
        /\ pending'.blocks \intersect DOMAIN cache'.map = {}
    BY <1>1, <1>4, <1>6 DEF NoPrefetch
  <1> QED
    BY <1>1, <1>4, <1>5, <1>7 DEF IInv, TypeOK, CacheListed, WellFormed

\* Every step keeps it: one case for each action.
LEMMA NextIInv == IInv /\ [Next]_vars => IInv'
  <1> SUFFICES ASSUME IInv, [Next]_vars PROVE IInv'
    OBVIOUS
  <1>1. CASE Recalibrate
    BY <1>1 DEF Recalibrate, IInv, TypeOK, CacheListed
  <1>2. ASSUME NEW c \in Calls, Call(c) PROVE IInv'
    BY <1>2 DEF Call, IInv, TypeOK, CacheListed
  <1>3. CASE WorkerSend
    <2>1. /\ pending \in [blocks : (SUBSET Nat) \ {{}}, mtf : Mtfs,
                          levels : Levels, sent : BOOLEAN]
          /\ IsFiniteSet(pending.blocks)
      BY <1>3 DEF WorkerSend, IInv, TypeOK, NoPrefetch
    <2>2. /\ pending' \in [blocks : (SUBSET Nat) \ {{}}, mtf : Mtfs,
                           levels : Levels, sent : BOOLEAN]
          /\ pending'.blocks = pending.blocks
      BY <1>3, <2>1 DEF WorkerSend
    <2> QED
      BY <1>3, <2>1, <2>2 DEF WorkerSend, IInv, TypeOK, CacheListed
  <1>4. CASE WorkerPanic
    BY <1>4 DEF WorkerPanic, IInv, TypeOK, CacheListed
  <1>5. CASE NeedData
    BY <1>5, EmptyHandedIInv DEF NeedData
  <1>6. CASE Eof
    BY <1>6, EmptyHandedIInv DEF Eof
  <1>7. CASE SlicePanic
    BY <1>7 DEF SlicePanic, IInv, TypeOK, CacheListed
  <1>8. CASE Field
    BY <1>8, FieldIInv
  <1>9. CASE UNCHANGED vars
    BY <1>9 DEF vars, IInv, TypeOK, CacheListed
  <1> QED
    BY <1>1, <1>2, <1>3, <1>4, <1>5, <1>6, <1>7, <1>8, <1>9 DEF Next

(* The cache and its FIFO order never fall apart: they list the same       *)
(* blocks, at most CacheSize of them, and the lookahead in flight is of    *)
(* others (cache_insert, prune_cache, fold_pending_prefetch).              *)
THEOREM CacheInvariant == Spec => [](TypeOK /\ CacheListed)
  <1>1. Init => IInv
    BY InitIInv
  <1>2. IInv /\ [Next]_vars => IInv'
    BY NextIInv
  <1> QED
    BY <1>1, <1>2, PTL DEF Spec, IInv

-----------------------------------------------------------------------------
(* On a redo the cache is empty when the window is looked up, so the whole *)
(* window is demodulated at the levels of the redo (the flush follows the  *)
(* fold in assemble_field).                                                *)
THEOREM RedoIsFresh == Spec => RedoServesFresh
  <1> DEFINE Fresh ==
        (pc = "assembling" /\ pc' = "driver" /\ call.redo /\ outcome'.kind = "Field")
          => \A b \in DOMAIN outcome'.blocks :
                 outcome'.blocks[b] = [bnum |-> b, mtf |-> call.mtf, levels |-> levels]
  <1>1. IInv /\ [Next]_vars => [Fresh]_vars
    <2> SUFFICES ASSUME [Next]_vars, pc = "assembling", pc' = "driver", call.redo,
                        outcome'.kind = "Field"
                 PROVE  \A b \in DOMAIN outcome'.blocks :
                            outcome'.blocks[b] = [bnum |-> b, mtf |-> call.mtf, levels |-> levels]
      OBVIOUS
    <2>1. Field
      <3>1. ~Recalibrate /\ ~(\E c \in Calls : Call(c)) /\ ~(UNCHANGED vars)
        BY DEF vars, Recalibrate, Call
      <3>2. ~WorkerSend /\ ~WorkerPanic /\ ~SlicePanic
        BY DEF WorkerSend, WorkerPanic, SlicePanic
      <3>3. ~NeedData /\ ~Eof
        <4>1. NeedData => outcome'.kind = "NeedData"
          BY DEF NeedData
        <4>2. Eof => outcome'.kind = "Eof"
          BY DEF Eof
        <4> QED
          BY <4>1, <4>2
      <3> QED
        BY <3>1, <3>2, <3>3 DEF Next
    <2>2. outcome'.blocks = Served([map |-> EmptyCache, order |-> << >>], call.rb, call.mtf, levels)
      BY <2>1 DEF Field, FoldedThenFlushed
    <2>3. DOMAIN EmptyCache = {}
      BY DEF EmptyCache
    <2> QED
      BY <2>2, <2>3 DEF Served, Demod
  <1>2. Spec => []IInv
    BY InitIInv, NextIInv, PTL DEF Spec
  <1> QED
    BY <1>1, <1>2, PTL DEF Spec, RedoServesFresh

-----------------------------------------------------------------------------
(* The instance of the serial schedule works with the same operators.      *)
LEMMA SameOperators ==
    /\ Serial!NoOutcome = NoOutcome
    /\ Serial!EmptyCache = EmptyCache
    /\ \A rb : Serial!WindowBlocks(rb) = WindowBlocks(rb)
    /\ \A rb : Serial!BlockEnd(rb) = BlockEnd(rb)
    /\ \A rb : Serial!BlockBegin(rb) = BlockBegin(rb)
    /\ \A b, win : Serial!InWindow(b, win) = InWindow(b, win)
    /\ \A rb, win : Serial!PrefetchPlan(rb, win) = PrefetchPlan(rb, win)
    /\ \A rb, win : Serial!RunsPastWindow(rb, win) = RunsPastWindow(rb, win)
    /\ \A rb, win : Serial!StartsBeforeWindow(rb, win) = StartsBeforeWindow(rb, win)
    /\ \A rb, win : Serial!ReachesEof(rb, win) = ReachesEof(rb, win)
    /\ \A c, S : Serial!Missing(c, S) = Missing(c, S)
    /\ \A c, S, m, l : Serial!Insert(c, S, m, l) = Insert(c, S, m, l)
    /\ \A c : Serial!Prune(c) = Prune(c)
    /\ \A c, rb, m, l : Serial!Served(c, rb, m, l) = Served(c, rb, m, l)
  <1>1. /\ Serial!NoOutcome = NoOutcome
        /\ Serial!EmptyCache = EmptyCache
    BY DEF Serial!NoOutcome, NoOutcome, Serial!EmptyCache, EmptyCache
  <1>2. \A rb : Serial!FirstBlock(rb) = FirstBlock(rb)
    BY DEF Serial!FirstBlock, FirstBlock
  <1>3. \A rb : Serial!BlockEnd(rb) = BlockEnd(rb)
    BY DEF Serial!BlockEnd, BlockEnd
  <1>4. \A rb : Serial!BlockBegin(rb) = BlockBegin(rb)
    BY <1>2 DEF Serial!BlockBegin, BlockBegin
  <1>5. \A rb : Serial!WindowBlocks(rb) = WindowBlocks(rb)
    BY <1>2, <1>3 DEF Serial!WindowBlocks, WindowBlocks
  <1>6. \A b, win : Serial!InWindow(b, win) = InWindow(b, win)
    BY DEF Serial!InWindow, InWindow
  <1>7. \A rb, win : Serial!PrefetchPlan(rb, win) = PrefetchPlan(rb, win)
    BY <1>3, <1>4, <1>6 DEF Serial!PrefetchPlan, PrefetchPlan
  <1>8. \A rb, win : Serial!RunsPastWindow(rb, win) = RunsPastWindow(rb, win)
    BY <1>3 DEF Serial!RunsPastWindow, RunsPastWindow
  <1>9. \A rb, win : Serial!StartsBeforeWindow(rb, win) = StartsBeforeWindow(rb, win)
    BY <1>4 DEF Serial!StartsBeforeWindow, StartsBeforeWindow
  <1>10. \A rb, win : Serial!ReachesEof(rb, win) = ReachesEof(rb, win)
    BY <1>3 DEF Serial!ReachesEof, ReachesEof
  <1>11. \A c, S : Serial!Missing(c, S) = Missing(c, S)
    BY DEF Serial!Missing, Missing
  <1>12. \A b, m, l : Serial!Demod(b, m, l) = Demod(b, m, l)
    BY DEF Serial!Demod, Demod
  <1>13. \A S : Serial!Ascending(S) = Ascending(S)
    BY DEF Serial!Ascending, Ascending, Serial!Cardinality, Cardinality
  <1>14. \A c, S, m, l : Serial!Insert(c, S, m, l) = Insert(c, S, m, l)
    BY <1>12, <1>13 DEF Serial!Insert, Insert
  <1>15. \A c : Serial!Prune(c) = Prune(c)
    BY DEF Serial!Prune, Prune
  <1>16. \A c, rb, m, l : Serial!Served(c, rb, m, l) = Served(c, rb, m, l)
    BY <1>5, <1>12 DEF Serial!Served, Served
  <1> QED
    BY <1>1, <1>3, <1>4, <1>5, <1>6, <1>7, <1>8, <1>9, <1>10, <1>11, <1>14, <1>15, <1>16

(* Filing an empty lookahead changes nothing: the serial schedule's second *)
(* insertion is a no-op when nothing is left to prefetch.                  *)
LEMMA EmptyInsertIsNoOp ==
    ASSUME NEW c, WellFormed(c), Len(c.order) <= CacheSize, NEW m, NEW l
    PROVE  Prune(Insert(c, {}, m, l)) = c
  <1>1. /\ c = [map |-> c.map, order |-> c.order]
        /\ c.map = [b \in DOMAIN c.map |-> c.map[b]]
        /\ c.order \in Seq(Nat)
    BY DEF WellFormed, IsCache
  <1>2. Ascending({}) = << >>
    <2>1. Cardinality({}) = 0 /\ 1 .. 0 = {}
      BY FS_EmptySet
    <2> QED
      BY <2>1 DEF Ascending
  <1>3. Insert(c, {}, m, l) = c
    <2>1. c.order \o << >> = c.order
      BY <1>1, ConcatEmptySeq
    <2>2. [b \in DOMAIN c.map \union {} |-> IF b \in {} THEN Demod(b, m, l) ELSE c.map[b]] = c.map
      BY <1>1
    <2> QED
      BY <1>1, <1>2, <2>1, <2>2 DEF Insert
  <1>4. Prune(c) = c
    <2>1. ~(Len(c.order) > CacheSize) /\ 1 .. 0 = {}
      BY <1>1, CacheSizeAssumption
    <2>2. SubSeq(c.order, 0 + 1, Len(c.order)) = c.order
      BY <1>1, SubSeqFull
    <2>3. [b \in DOMAIN c.map \ {c.order[i] : i \in 1 .. 0} |-> c.map[b]] = c.map
      <3>1. {c.order[i] : i \in 1 .. 0} = {}
        OBVIOUS
      <3>2. DOMAIN c.map \ {c.order[i] : i \in 1 .. 0} = DOMAIN c.map
        BY <3>1
      <3> QED
        BY <3>2, <1>1
    <2> QED
      BY <1>1, <2>1, <2>2, <2>3 DEF Prune
  <1> QED
    BY <1>3, <1>4

(* Sending the results does not change what the fold will file.            *)
LEMMA SendKeepsFold ==
    ASSUME IInv, WorkerSend
    PROVE  FoldPendingPrefetch' = FoldPendingPrefetch
  <1>1. pending \in [blocks : (SUBSET Nat) \ {{}}, mtf : Mtfs, levels : Levels, sent : BOOLEAN]
    BY DEF WorkerSend, IInv, TypeOK, NoPrefetch
  <1>2. pending'.blocks = pending.blocks /\ pending'.mtf = pending.mtf
        /\ pending'.levels = pending.levels /\ cache' = cache
    BY <1>1 DEF WorkerSend
  <1>3. pending # NoPrefetch /\ pending' # NoPrefetch
    BY <1>1, <1>2 DEF NoPrefetch
  <1> QED
    BY <1>2, <1>3 DEF FoldPendingPrefetch

(* The step in which a field is served, with its lookahead counted as      *)
(* filed, is the serial schedule's call.                                   *)
LEMMA FieldIsSerialStep ==
    ASSUME IInv, Field
    PROVE  Serial!AssembleField(call.rb, call.win, call.redo, call.mtf)
  <1> DEFINE start  == FoldedThenFlushed(call.redo)
             S      == WindowBlocks(call.rb)
             filled == Prune(Insert(start, Missing(start, S), call.mtf, levels))
             ahead  == Missing(filled, PrefetchPlan(call.rb, call.win))
  <1>1. call.rb \in ReadlocBlocks /\ call.win \in Windows /\ call.mtf \in Mtfs
        /\ levels \in Levels
    BY DEF IInv, TypeOK, Field, Calls
  <1>2. S \in SUBSET Nat /\ IsFiniteSet(S)
    BY <1>1, Geometry
  <1>3. WellFormed(start)
    BY FlushedWellFormed
  <1>4. /\ cache' = filled
        /\ pending' = IF ahead = {}
                      THEN NoPrefetch
                      ELSE [blocks |-> ahead, mtf |-> call.mtf, levels |-> levels, sent |-> FALSE]
        /\ pc = "assembling" /\ pc' = "driver" /\ levels' = levels
        /\ outcome' = [kind |-> "Field", blocks |-> Served(start, call.rb, call.mtf, levels)]
        /\ ~RunsPastWindow(call.rb, call.win)
        /\ ~StartsBeforeWindow(call.rb, call.win)
        /\ ~ReachesEof(call.rb, call.win)
        /\ InWindow(BlockEnd(call.rb) - 1, call.win)
    BY DEF Field, Covered
  <1>5. start = IF call.redo THEN [map |-> EmptyCache, order |-> << >>] ELSE FoldPendingPrefetch
    BY DEF FoldedThenFlushed
  <1> HIDE DEF start, S
  <1>6. WellFormed(filled) /\ Len(filled.order) <= CacheSize
    BY <1>1, <1>2, <1>3, FillWellFormed
  <1>7. FoldPendingPrefetch' = Prune(Insert(filled, ahead, call.mtf, levels))
    <2> HIDE DEF filled, ahead
    <2>1. CASE ahead = {}
      <3>1. FoldPendingPrefetch' = filled
        BY <2>1, <1>4 DEF FoldPendingPrefetch
      <3> QED
        BY <2>1, <3>1, <1>6, EmptyInsertIsNoOp
    <2>2. CASE ahead # {}
      <3>1. pending' # NoPrefetch /\ pending'.blocks = ahead /\ pending'.mtf = call.mtf
            /\ pending'.levels = levels
        BY <2>2, <1>4 DEF NoPrefetch
      <3> QED
        BY <3>1, <1>4 DEF FoldPendingPrefetch
    <2> QED
      BY <2>1, <2>2
  <1> QED
    BY <1>4, <1>5, <1>7, SameOperators DEF Serial!AssembleField, S

\* Every step is one of the serial schedule, or none of it.
LEMMA StepIsSerialStep == IInv /\ [Next]_vars => [Serial!Next]_(Serial!serialVars)
  <1> SUFFICES ASSUME IInv, [Next]_vars PROVE [Serial!Next]_(Serial!serialVars)
    OBVIOUS
  <1>1. CASE Recalibrate
    BY <1>1 DEF Recalibrate, FoldPendingPrefetch, Serial!Next, Serial!Recalibrate
  <1>2. ASSUME NEW c \in Calls, Call(c) PROVE Serial!Next
    BY <1>2, SameOperators DEF Call, FoldPendingPrefetch, Serial!Next, Serial!Consume
  <1>3. CASE WorkerSend
    BY <1>3, SendKeepsFold DEF WorkerSend, Serial!serialVars
  <1>4. CASE WorkerPanic
    BY <1>4 DEF WorkerPanic, FoldPendingPrefetch, Serial!Next, Serial!Crash
  <1>5. CASE NeedData \/ Eof
    <2>1. call.rb \in ReadlocBlocks /\ call.win \in Windows /\ call.redo \in BOOLEAN
          /\ call.mtf \in Mtfs
      BY <1>5 DEF NeedData, Eof, IInv, TypeOK, Calls
    <2>2. FoldPendingPrefetch' = FoldedThenFlushed(call.redo)
      BY <1>5 DEF NeedData, Eof, FoldPendingPrefetch
    <2>3. Serial!AssembleField(call.rb, call.win, call.redo, call.mtf)
      BY <1>5, <2>2, SameOperators DEF NeedData, Eof, Covered, FoldedThenFlushed, Serial!AssembleField
    <2> QED
      BY <2>1, <2>3 DEF Serial!Next
  <1>6. CASE SlicePanic
    BY <1>6 DEF SlicePanic, FoldPendingPrefetch, Serial!Next, Serial!Crash
  <1>7. CASE Field
    <2>1. call.rb \in ReadlocBlocks /\ call.win \in Windows /\ call.redo \in BOOLEAN
          /\ call.mtf \in Mtfs
      BY <1>7 DEF Field, IInv, TypeOK, Calls
    <2> QED
      BY <1>7, <2>1, FieldIsSerialStep DEF Serial!Next
  <1>8. CASE UNCHANGED vars
    BY <1>8 DEF vars, FoldPendingPrefetch, Serial!serialVars
  <1> QED
    BY <1>1, <1>2, <1>3, <1>4, <1>5, <1>6, <1>7, <1>8 DEF Next

(* The threaded lookahead implements the serial schedule: every field sees *)
(* the same window, the same evictions and the same MTF on every block.    *)
THEOREM ThreadedIsSerial == Spec => ImplementsSerial
  <1>1. Init => Serial!Init
    BY SameOperators DEF Init, Serial!Init, FoldPendingPrefetch
  <1>2. Spec => []IInv
    BY InitIInv, NextIInv, PTL DEF Spec
  <1> QED
    BY <1>1, <1>2, StepIsSerialStep, PTL DEF Spec, ImplementsSerial, Serial!SerialSpec
=============================================================================
