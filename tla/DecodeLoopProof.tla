--------------------------- MODULE DecodeLoopProof ---------------------------
(***************************************************************************)
(* Proofs about the sliding window, for every input, geometry, cap, band   *)
(* and sequence of fields.                                                 *)
(***************************************************************************)
EXTENDS DecodeLoop, SequenceTheorems, TLAPS

(* The live part of the window, sample by sample: what is inductive of     *)
(* WindowIsInput.                                                          *)
Aligned ==
    /\ base <= read_pos
    /\ Len(window) - skip = read_pos - base
    /\ \A k \in 1 .. read_pos - base : window[skip + k] = base + k - 1
    /\ health = "ok" => pos = Shorter(read_pos, Length)

IInv == TypeOK /\ Aligned

-----------------------------------------------------------------------------
(* Arithmetic of the loop.                                                 *)

\* Saturating subtraction, minimum and maximum.
LEMMA Amounts ==
    ASSUME NEW m \in Nat, NEW n \in Nat
    PROVE  /\ Sub(m, n) \in Nat /\ Sub(m, n) <= m
           /\ Shorter(m, n) \in Nat /\ Shorter(m, n) <= m /\ Shorter(m, n) <= n
           /\ Further(m, n) \in Nat /\ Further(m, n) >= m
  BY DEF Sub, Shorter, Further

\* Products and quotients.
LEMMA Multiples ==
    ASSUME NEW m \in Nat, NEW n \in Nat
    PROVE  /\ m * n \in Nat
           /\ n > 0 => m \div n \in Nat
  OBVIOUS

\* What the assumptions say of the sizes.
LEMMA Geometry ==
    /\ BlockSize \in Nat /\ BlockSize > 0
    /\ BlockLen \in Nat /\ BlockLen > 0
    /\ BlockCut \in Nat /\ RewindBand \in Nat /\ ReadLen \in Nat
    /\ Length \in Nat /\ MaxFields \in Nat /\ MaxRewinds \in Nat
    /\ Chunk \in Nat
    /\ 2 * BlockSize \in Nat
  BY GeometryAssumption, LoopAssumption, LengthAssumption
     DEF GeometryAssumption, LoopAssumption, LengthAssumption, Chunk

\* A place on the block grid.
LEMMA GridTyped ==
    ASSUME NEW s \in Nat
    PROVE  Grid(s) \in Nat
  <1>1. s \div BlockSize \in Nat
    BY Geometry, Multiples
  <1> QED
    BY <1>1, Geometry, Multiples DEF Grid

\* read_start_for returns a place of the input.
LEMMA ReadStartTyped ==
    ASSUME NEW p \in Nat
    PROVE  ReadStart(p) \in Nat
  <1> DEFINE m == BlockCut + 2 * BlockSize
  <1>1. m \in Nat
    BY Geometry
  <1> HIDE DEF m
  <1>2. Sub(p, m) \in Nat
    BY <1>1, Amounts
  <1> QED
    BY <1>2, GridTyped DEF ReadStart, m

\* So does the margin of the window.
LEMMA HeadTyped ==
    ASSUME NEW consumed \in Nat
    PROVE  HeadOf(consumed) \in Nat
  <1> DEFINE m == BlockCut + BlockLen
             g == Grid(Sub(consumed, m))
  <1>1. m \in Nat
    BY Geometry
  <1> HIDE DEF m
  <1>2. g \in Nat
    BY <1>1, Amounts, GridTyped
  <1> HIDE DEF g
  <1>3. Sub(g, RewindBand) \in Nat
    BY <1>2, Geometry, Amounts
  <1> QED
    BY <1>3, GridTyped DEF HeadOf, g, m

\* Whatever the call may return is a place.
LEMMA ConsumedTyped ==
    ASSUME position \in Nat
    PROVE  Consumed \subseteq Nat
  <1>1. BlockBegin(ReadlocBlock) \in Nat
    <2>1. Sub(position, BlockCut) \in Nat
      BY Geometry, Amounts
    <2>2. ReadlocBlock \in Nat
      BY <2>1, Geometry, Multiples DEF ReadlocBlock
    <2>3. ReadlocBlock * BlockLen \in Nat
      BY <2>2, Geometry, Multiples
    <2>4. FirstBlock(ReadlocBlock) \in Nat
      BY <2>3, Geometry, Multiples DEF FirstBlock
    <2> QED
      BY <2>4, Geometry, Multiples DEF BlockBegin
  <1>2. \A offset \in Offsets : position + offset \in Nat
    BY LoopAssumption DEF LoopAssumption
  <1>3. \A back \in Rewinds : Sub(position, back) \in Nat
    BY LoopAssumption, Amounts DEF LoopAssumption
  <1> QED
    BY <1>1, <1>2, <1>3 DEF Consumed

\* A step of the decoder leads to a place of the input.
LEMMA AdvanceTyped ==
    ASSUME position \in Nat, rewinds \in 0 .. MaxRewinds, Advance
    PROVE  position' \in Nat /\ rewinds' \in 0 .. MaxRewinds
  <1>1. \A offset \in Offsets : position + offset \in Nat
    BY LoopAssumption DEF LoopAssumption
  <1>2. \A back \in Rewinds : Sub(position, back) \in Nat
    BY LoopAssumption, Amounts DEF LoopAssumption
  <1> QED
    BY <1>1, <1>2, Geometry DEF Advance

-----------------------------------------------------------------------------
(* The ways the window changes.                                            *)

\* It is empty at another place, where the reader stands, or it is the end of
\* the input there, or the reader is of no use any more.
LEMMA RestartAligns ==
    ASSUME NEW at \in Nat, Restart(at), TypeOK
    PROVE  /\ Aligned'
           /\ base' \in Nat /\ read_pos' \in Nat /\ skip' \in Nat
           /\ window' \in Seq(Nat) /\ skip' <= Len(window')
           /\ pos' \in Nat /\ got' \in Seq(Nat) /\ health' \in {"ok", "dead", "broken"}
           /\ UNCHANGED <<forward, fault>>
  <1>1. window' = << >> /\ skip' = 0 /\ base' = at /\ read_pos' = at
    BY DEF Restart
  <1>2. /\ health' = "ok" => pos' = Shorter(at, Length)
        /\ pos' \in Nat /\ got' = << >> /\ health' \in {"ok", "dead", "broken"}
        /\ UNCHANGED <<forward, fault>>
    <2>1. CASE Seek(at)
      BY <2>1, Geometry, Amounts DEF Seek, TypeOK
    <2>2. CASE SeekFails(at)
      BY <2>2 DEF SeekFails, TypeOK
    <2>3. CASE SeekDead
      BY <2>3 DEF SeekDead, TypeOK
    <2> QED
      BY <2>1, <2>2, <2>3 DEF Restart
  <1>3. /\ window' \in Seq(Nat) /\ got' \in Seq(Nat) /\ Len(window') = 0
        /\ base' \in Nat /\ read_pos' \in Nat /\ skip' \in Nat
        /\ skip' <= Len(window')
    BY <1>1, <1>2
  <1>4. Aligned'
    BY <1>1, <1>2, <1>3 DEF Aligned
  <1> QED
    BY <1>2, <1>3, <1>4

\* Samples are appended where the reader stands.
LEMMA TakeAligns ==
    ASSUME IInv, Take, UNCHANGED <<base, skip>>
    PROVE  /\ Aligned'
           /\ read_pos' \in Nat /\ final_chunk' \in BOOLEAN
           /\ window' \in Seq(Nat) /\ skip' <= Len(window')
           /\ pos' \in Nat /\ got' \in Seq(Nat) /\ health' \in {"ok", "dead", "broken"}
           /\ UNCHANGED <<forward, fault>>
  <1>1. /\ base \in Nat /\ skip \in Nat /\ read_pos \in Nat /\ pos \in Nat
        /\ window \in Seq(Nat) /\ skip <= Len(window) /\ Len(window) \in Nat
        /\ base <= read_pos /\ Len(window) - skip = read_pos - base
        /\ \A k \in 1 .. read_pos - base : window[skip + k] = base + k - 1
        /\ health = "ok" => pos = Shorter(read_pos, Length)
        /\ health \in {"ok", "dead", "broken"}
    BY DEF IInv, TypeOK, Aligned
  <1>2. /\ window' = window \o got' /\ read_pos' = read_pos + Len(got')
        /\ final_chunk' \in BOOLEAN
    BY DEF Take
  <1>3. /\ got' \in Seq(Nat) /\ pos' \in Nat /\ health' \in {"ok", "dead", "broken"}
        /\ UNCHANGED <<forward, fault>>
        /\ \A k \in 1 .. Len(got') : got'[k] = read_pos + k - 1
        /\ health' = "ok" => pos' = Shorter(read_pos + Len(got'), Length)
    <2>1. CASE Read(Chunk)
      <3> DEFINE n == Shorter(Chunk, Available(pos))
      <3>1. Available(pos) \in Nat
        BY <1>1, Geometry DEF Available
      <3>2. n \in Nat /\ n <= Available(pos)
        BY <3>1, Geometry, Amounts
      <3> HIDE DEF n
      <3>3. health = "ok" /\ got' = Samples(pos, n) /\ pos' = pos + n
            /\ UNCHANGED <<health, forward, fault>>
        BY <2>1 DEF Read, n
      <3>4. /\ got' \in Seq(Nat) /\ Len(got') = n
            /\ \A k \in 1 .. n : got'[k] = pos + k - 1
        <4>1. \A k \in 1 .. n : pos + k - 1 \in Nat
          BY <1>1, <3>2
        <4> QED
          BY <4>1, <3>2, <3>3 DEF Samples
      <3>5. CASE read_pos <= Length
        <4>1. pos = read_pos /\ n <= Length - read_pos
          BY <3>2, <3>3, <3>5, <1>1, Geometry DEF Shorter, Available
        <4> QED
          BY <4>1, <3>2, <3>3, <3>4, <3>5, <1>1, Geometry DEF Shorter
      <3>6. CASE read_pos > Length
        <4>1. pos = Length /\ n = 0
          BY <3>2, <3>3, <3>6, <1>1, Geometry DEF Shorter, Available
        <4> QED
          BY <4>1, <3>3, <3>4, <3>6, <1>1, Geometry DEF Shorter
      <3> QED
        BY <3>5, <3>6, <1>1, Geometry
    <2>2. CASE ReadFails
      BY <2>2, <1>1 DEF ReadFails
    <2>3. CASE ReadDead
      BY <2>3, <1>1 DEF ReadDead
    <2> QED
      BY <2>1, <2>2, <2>3 DEF Take
  <1>4. /\ window' \in Seq(Nat) /\ Len(got') \in Nat
        /\ Len(window') = Len(window) + Len(got')
        /\ \A i \in 1 .. Len(window) : window'[i] = window[i]
        /\ \A i \in 1 .. Len(got') : window'[Len(window) + i] = got'[i]
    <2>1. window \in Seq(Nat) /\ got' \in Seq(Nat) /\ window' = window \o got'
      BY <1>1, <1>2, <1>3
    <2> DEFINE w == window
               g == got'
               v == window'
    <2>2. w \in Seq(Nat) /\ g \in Seq(Nat) /\ v = w \o g
      BY <2>1
    <2> HIDE DEF w, g, v
    <2>3. /\ v \in Seq(Nat) /\ Len(w) \in Nat /\ Len(g) \in Nat
          /\ Len(v) = Len(w) + Len(g)
      BY ONLY <2>2, ConcatProperties
    <2>4. \A i \in 1 .. Len(w) + Len(g) :
             v[i] = IF i <= Len(w) THEN w[i] ELSE g[i - Len(w)]
      BY ONLY <2>2, ConcatProperties
    <2>5. \A i \in 1 .. Len(w) : v[i] = w[i]
      BY ONLY <2>3, <2>4
    <2>6. ASSUME NEW i \in 1 .. Len(g)
          PROVE  v[Len(w) + i] = g[i]
      <3>1. /\ Len(w) + i \in 1 .. Len(w) + Len(g)
            /\ ~(Len(w) + i <= Len(w))
            /\ Len(w) + i - Len(w) = i
        BY ONLY <2>3, i \in 1 .. Len(g)
      <3> QED
        BY ONLY <2>4, <3>1
    <2> QED
      BY <2>3, <2>5, <2>6 DEF w, g, v
  <1>5. ASSUME NEW k \in 1 .. read_pos' - base'
        PROVE  window'[skip' + k] = base' + k - 1
    <2>1. /\ k \in Nat /\ base' = base /\ skip' = skip
          /\ k <= Len(got') + (read_pos - base)
      BY <1>1, <1>2, <1>4
    <2>2. CASE k <= read_pos - base
      <3>1. k \in 1 .. read_pos - base /\ skip + k \in 1 .. Len(window)
        BY <2>1, <2>2, <1>1
      <3> QED
        BY <3>1, <2>1, <1>1, <1>4
    <2>3. CASE k > read_pos - base
      <3> DEFINE i == k - (read_pos - base)
      <3>1. i \in 1 .. Len(got') /\ skip + k = Len(window) + i
        <4> DEFINE m == read_pos - base
        <4>1. m \in Nat /\ Len(window) = skip + m
          BY <1>1
        <4>2. k > m /\ k <= Len(got') + m /\ i = k - m
          BY <2>1, <2>3
        <4> HIDE DEF m, i
        <4> QED
          BY <4>1, <4>2, <2>1, <1>1, <1>4
      <3>2. window'[skip + k] = read_pos + i - 1
        BY <3>1, <1>3, <1>4
      <3> QED
        BY <3>2, <2>1, <1>1
    <2> QED
      BY <2>1, <2>2, <2>3, <1>1
  <1>6. /\ read_pos' \in Nat /\ skip' <= Len(window') /\ base' <= read_pos'
        /\ Len(window') - skip' = read_pos' - base'
    BY <1>1, <1>2, <1>4
  <1>7. Aligned'
    BY <1>2, <1>3, <1>5, <1>6 DEF Aligned
  <1> QED
    BY <1>2, <1>3, <1>4, <1>6, <1>7

\* The head of the window moves on, and the dead prefix may be dropped.
LEMMA KeepAligns ==
    ASSUME IInv, NEW keep \in Nat, KeepWindow(keep)
    PROVE  /\ Aligned'
           /\ base' \in Nat /\ read_pos' \in Nat /\ skip' \in Nat
           /\ window' \in Seq(Nat) /\ skip' <= Len(window')
           /\ pos' \in Nat /\ got' \in Seq(Nat) /\ health' \in {"ok", "dead", "broken"}
           /\ UNCHANGED <<forward, fault>>
  <1>1. CASE keep > read_pos
    BY <1>1, RestartAligns DEF KeepWindow, IInv
  <1>2. CASE ~(keep > read_pos)
    <2> DEFINE d == Sub(keep, base)
               gone == skip + d
               compact == gone > 0 /\ gone >= Len(window) - gone
    <2>1. /\ base \in Nat /\ skip \in Nat /\ read_pos \in Nat
          /\ window \in Seq(Nat) /\ skip <= Len(window) /\ Len(window) \in Nat
          /\ base <= read_pos /\ Len(window) - skip = read_pos - base
          /\ \A k \in 1 .. read_pos - base : window[skip + k] = base + k - 1
      BY DEF IInv, TypeOK, Aligned
    <2>2. /\ window' = IF compact THEN SubSeq(window, gone + 1, Len(window)) ELSE window
          /\ skip' = IF compact THEN 0 ELSE gone
          /\ base' = Further(keep, base)
          /\ UNCHANGED <<pos, health, got, forward, fault, read_pos>>
      BY <1>2 DEF KeepWindow, streamVars
    <2>3. d \in Nat /\ base' = base + d /\ base + d <= read_pos
      BY <1>2, <2>1, <2>2 DEF Sub, Further
    <2> HIDE DEF d
    <2>4. gone \in Nat /\ gone <= Len(window) /\ Len(window) - gone = read_pos - base'
      BY <2>1, <2>3
    <2> HIDE DEF gone
    <2>5. ASSUME NEW k \in 1 .. read_pos - base'
          PROVE  window[gone + k] = base' + k - 1
      <3>1. d + k \in 1 .. read_pos - base /\ gone + k = skip + (d + k)
        BY <2>1, <2>3 DEF gone
      <3>2. window[skip + (d + k)] = base + (d + k) - 1
        BY <3>1, <2>1
      <3> QED
        BY <3>1, <3>2, <2>1, <2>3
    <2>6. /\ window' \in Seq(Nat) /\ skip' \in Nat /\ skip' <= Len(window')
          /\ Len(window') - skip' = read_pos - base'
          /\ \A k \in 1 .. read_pos - base' : window'[skip' + k] = base' + k - 1
      <3>1. CASE compact
        <4>1. window' = SubSeq(window, gone + 1, Len(window)) /\ skip' = 0
          BY <3>1, <2>2
        <4>2. /\ window' \in Seq(Nat) /\ Len(window') = Len(window) - gone
              /\ \A k \in 1 .. Len(window) - gone : window'[k] = window[gone + k]
          BY <4>1, <2>1, <2>4
        <4> QED
          <5>1. Len(window') - skip' = read_pos - base' /\ skip' \in Nat /\ skip' <= Len(window')
            BY <4>1, <4>2, <2>1, <2>4
          <5>2. ASSUME NEW k \in 1 .. read_pos - base'
                PROVE  window'[skip' + k] = base' + k - 1
            <6>1. k \in 1 .. Len(window) - gone /\ 0 + k = k
              BY <2>4
            <6> QED
              BY <6>1, <4>1, <4>2, <2>5
          <5> QED
            BY <5>1, <5>2, <4>2
      <3>2. CASE ~compact
        BY <3>2, <2>1, <2>2, <2>4, <2>5
      <3> QED
        BY <3>1, <3>2
    <2>7. Aligned'
      BY <2>1, <2>2, <2>3, <2>6 DEF IInv, Aligned
    <2> QED
      BY <2>1, <2>2, <2>3, <2>6, <2>7 DEF IInv, TypeOK
  <1> QED
    BY <1>1, <1>2

-----------------------------------------------------------------------------
(* Init and the steps.                                                     *)

\* The window is empty where the reader was positioned.
LEMMA InitAligns ==
    ASSUME Init
    PROVE  IInv
  <1>1. position \in Nat /\ max_fields \in Limits
    BY LoopAssumption DEF Init, LoopAssumption
  <1>2. base \in Nat
    BY <1>1, ReadStartTyped DEF Init
  <1>3. pos \in Nat
    BY <1>2, Geometry, Amounts DEF Init
  <1>4. window \in Seq(Nat) /\ got \in Seq(Nat) /\ Len(window) = 0
    BY DEF Init
  <1>5. {final_chunk, stalled, lead_out, forward, fault} \subseteq BOOLEAN
    BY Zenon DEF Init
  <1>6. TypeOK
    BY <1>1, <1>2, <1>3, <1>4, <1>5, Geometry DEF Init, TypeOK
  <1>7. Aligned
    BY <1>2, <1>4 DEF Init, Aligned
  <1> QED
    BY <1>6, <1>7 DEF IInv

\* A call that returns leaves the decoder at a place of the input.
LEMMA ReturnsTyped ==
    ASSUME IInv, NEW consumed \in Consumed, NEW n \in 0 .. 2, Returns(consumed, n)
    PROVE  /\ consumed \in Nat /\ position' \in Nat
           /\ rewinds' \in 0 .. MaxRewinds /\ lead_out' \in BOOLEAN
  <1>1. position \in Nat /\ rewinds \in 0 .. MaxRewinds /\ lead_out \in BOOLEAN
    BY DEF IInv, TypeOK
  <1>2. consumed \in Nat
    BY <1>1, ConsumedTyped
  <1>3. CASE UNCHANGED decoderVars
    BY <1>1, <1>2, <1>3 DEF decoderVars
  <1>4. CASE Advance /\ lead_out' \in BOOLEAN
    BY <1>1, <1>2, <1>4, AdvanceTyped
  <1> QED
    BY <1>3, <1>4 DEF Returns

\* The count of written fields stays within its bound.
LEMMA WriteTyped ==
    ASSUME IInv, NEW n \in 0 .. 2, Write(n)
    PROVE  fields_written' \in 0 .. MaxFields /\ max_fields' \in Limits
  <1>1. fields_written + n \in Nat /\ max_fields \in Limits
    BY Geometry DEF IInv, TypeOK
  <1>2. Shorter(fields_written + n, MaxFields) \in 0 .. MaxFields
    <2>1. MaxFields \in Nat
      BY Geometry
    <2> QED
      BY <1>1, <2>1 DEF Shorter
  <1> QED
    BY <1>1, <1>2 DEF Write

\* A step that moves neither the window nor the reader.
LEMMA StaysAligned ==
    ASSUME IInv, UNCHANGED <<window, skip, base, read_pos, pos>>,
           health' = health \/ health' = "broken"
    PROVE  Aligned'
  BY DEF IInv, Aligned

\* What the loop makes of an answer: it re-seeks, stops, drains or slides.
LEMMA AnswerKeeps ==
    ASSUME IInv, NEW consumed \in Consumed, NEW n \in 0 .. 2, Answer(consumed, n)
    PROVE  IInv'
  <1>1. /\ consumed \in Nat /\ position' \in Nat
        /\ rewinds' \in 0 .. MaxRewinds /\ lead_out' \in BOOLEAN
    BY ReturnsTyped DEF Answer, Called
  <1>2. /\ stalled \in BOOLEAN /\ final_chunk \in BOOLEAN
        /\ last_consumed \in Nat /\ reach \in Nat
        /\ fields_written \in 0 .. MaxFields /\ max_fields \in Limits
        /\ forward \in BOOLEAN /\ fault \in BOOLEAN /\ TypeOK
    BY DEF IInv, TypeOK
  <1>3. CASE ReseekBack(consumed)
    <2> DEFINE at == Grid(Sub(consumed, 2 * BlockSize))
    <2>1. at \in Nat
      BY <1>1, Geometry, Amounts, GridTyped
    <2> HIDE DEF at
    <2>2. /\ Restart(at) /\ stalled' = FALSE /\ last_consumed' = consumed
          /\ reach' = consumed /\ pc' = "loop"
          /\ UNCHANGED <<final_chunk, fields_written, max_fields>>
      BY <1>3 DEF ReseekBack, at
    <2>3. /\ Aligned'
          /\ base' \in Nat /\ read_pos' \in Nat /\ skip' \in Nat
          /\ window' \in Seq(Nat) /\ skip' <= Len(window')
          /\ pos' \in Nat /\ got' \in Seq(Nat) /\ health' \in {"ok", "dead", "broken"}
          /\ UNCHANGED <<forward, fault>>
      BY <2>1, <2>2, <1>2, RestartAligns
    <2>4. TypeOK'
      BY <2>2, <2>3, <1>1, <1>2 DEF TypeOK
    <2> QED
      BY <2>3, <2>4 DEF IInv
  <1>4. CASE Write(n) /\ (Stop \/ BeginDrain)
    <2>1. /\ UNCHANGED <<streamVars, windowVars, stalled, last_consumed, reach>>
          /\ pc' \in {"done", "drain"}
      BY <1>4 DEF Stop, BeginDrain
    <2>2. fields_written' \in 0 .. MaxFields /\ max_fields' \in Limits
      BY <1>4, WriteTyped
    <2>3. Aligned'
      BY <2>1, StaysAligned DEF streamVars, windowVars
    <2>4. TypeOK'
      BY <2>1, <2>2, <1>1, <1>2 DEF TypeOK, streamVars, windowVars
    <2> QED
      BY <2>3, <2>4 DEF IInv
  <1>5. CASE Write(n) /\ Slide(consumed, n)
    <2> DEFINE head == HeadOf(consumed)
    <2>1. head \in Nat
      BY <1>1, HeadTyped
    <2> HIDE DEF head
    <2>2. /\ KeepWindow(head) /\ stalled' \in BOOLEAN /\ last_consumed' = consumed
          /\ reach' = Further(reach, Sub(consumed, RewindBand))
          /\ pc' = "loop" /\ final_chunk' = final_chunk
      BY <1>5 DEF Slide, head
    <2>3. /\ Aligned'
          /\ base' \in Nat /\ read_pos' \in Nat /\ skip' \in Nat
          /\ window' \in Seq(Nat) /\ skip' <= Len(window')
          /\ pos' \in Nat /\ got' \in Seq(Nat) /\ health' \in {"ok", "dead", "broken"}
          /\ UNCHANGED <<forward, fault>>
      BY <2>1, <2>2, KeepAligns
    <2>4. fields_written' \in 0 .. MaxFields /\ max_fields' \in Limits
      BY <1>5, WriteTyped
    <2>5. reach' \in Nat
      <3>1. Sub(consumed, RewindBand) \in Nat
        BY <1>1, Geometry, Amounts
      <3> QED
        BY <3>1, <2>2, <1>2, Amounts
    <2>6. TypeOK'
      BY <2>2, <2>3, <2>4, <2>5, <1>1, <1>2 DEF TypeOK
    <2> QED
      BY <2>3, <2>6 DEF IInv
  <1> QED
    BY <1>3, <1>4, <1>5 DEF Answer

\* The drain moves neither the window nor the reader.
LEMMA DrainKeeps ==
    ASSUME IInv, NEW consumed \in Consumed, NEW n \in 0 .. 2, DrainAnswer(consumed, n)
    PROVE  IInv'
  <1>1. /\ consumed \in Nat /\ position' \in Nat
        /\ rewinds' \in 0 .. MaxRewinds /\ lead_out' \in BOOLEAN
    BY ReturnsTyped DEF DrainAnswer
  <1>2. fields_written' \in 0 .. MaxFields /\ max_fields' \in Limits
    BY WriteTyped DEF DrainAnswer
  <1>3. /\ UNCHANGED <<streamVars, windowVars, stalled, reach>>
        /\ last_consumed' \in {consumed, last_consumed}
        /\ pc' \in {"done", "drain"}
    BY DEF DrainAnswer, Stop
  <1>4. Aligned'
    BY <1>3, StaysAligned DEF streamVars, windowVars
  <1>5. last_consumed' \in Nat
    BY <1>1, <1>3 DEF IInv, TypeOK
  <1>6. TypeOK'
    BY <1>1, <1>2, <1>3, <1>5 DEF IInv, TypeOK, streamVars, windowVars
  <1> QED
    BY <1>4, <1>6 DEF IInv

\* Every step of decode_all.
LEMMA StepKeeps ==
    ASSUME IInv, [Next]_vars
    PROVE  IInv'
  <1>1. TypeOK
    BY DEF IInv
  <1>2. CASE Refill
    <2>1. /\ Take /\ UNCHANGED <<decoderVars, skip, base, last_consumed, fields_written,
                                  max_fields, reach, pc>>
          /\ stalled' = FALSE
      BY <1>2 DEF Refill
    <2>2. /\ Aligned'
          /\ read_pos' \in Nat /\ final_chunk' \in BOOLEAN
          /\ window' \in Seq(Nat) /\ skip' <= Len(window')
          /\ pos' \in Nat /\ got' \in Seq(Nat) /\ health' \in {"ok", "dead", "broken"}
          /\ UNCHANGED <<forward, fault>>
      BY <2>1, TakeAligns
    <2>3. TypeOK'
      BY <2>1, <2>2, <1>1 DEF TypeOK, decoderVars
    <2> QED
      BY <2>2, <2>3 DEF IInv
  <1>3. CASE Filled \/ Crash \/ CallError
    <2>1. /\ UNCHANGED <<streamVars, decoderVars, windowVars, loopVars>>
          /\ pc' \in {"decode", "crashed", "error"}
      BY <1>3 DEF Filled, Crash, CallError
    <2>2. Aligned'
      BY <2>1, StaysAligned DEF streamVars, windowVars
    <2>3. TypeOK'
      BY <2>1, <1>1 DEF TypeOK, streamVars, decoderVars, windowVars, loopVars
    <2> QED
      BY <2>2, <2>3 DEF IInv
  <1>4. CASE SkipField
    <2>1. Advance /\ UNCHANGED <<streamVars, lead_out, windowVars, loopVars, pc>>
      BY <1>4 DEF SkipField
    <2>2. position' \in Nat /\ rewinds' \in 0 .. MaxRewinds
      BY <2>1, <1>1, AdvanceTyped DEF TypeOK
    <2>3. Aligned'
      BY <2>1, StaysAligned DEF streamVars, windowVars
    <2>4. TypeOK'
      BY <2>1, <2>2, <1>1 DEF TypeOK, streamVars, windowVars, loopVars
    <2> QED
      BY <2>3, <2>4 DEF IInv
  <1>5. CASE \E consumed \in Consumed, n \in 0 .. 2 : Answer(consumed, n)
    BY <1>5, AnswerKeeps
  <1>6. CASE \E consumed \in Consumed, n \in 0 .. 2 : DrainAnswer(consumed, n)
    BY <1>6, DrainKeeps
  <1>7. CASE ReaderError
    <2>1. /\ Break /\ pc' = "error" /\ UNCHANGED <<decoderVars, windowVars, loopVars>>
      BY <1>7 DEF ReaderError
    <2>2. health' = "broken" /\ UNCHANGED <<pos, got, forward, fault>>
      BY <2>1 DEF Break
    <2>3. Aligned'
      BY <2>1, <2>2, StaysAligned DEF windowVars
    <2>4. TypeOK'
      BY <2>1, <2>2, <1>1 DEF TypeOK, decoderVars, windowVars, loopVars
    <2> QED
      BY <2>3, <2>4 DEF IInv
  <1>8. CASE \E consumed \in Consumed, n \in 0 .. 2 : SeekError(consumed, n)
    <2>1. PICK consumed \in Consumed, n \in 0 .. 2 : SeekError(consumed, n)
      BY <1>8
    <2>2. /\ Returns(consumed, n) /\ Write(n) /\ Break /\ pc' = "error"
          /\ UNCHANGED <<windowVars, stalled, last_consumed, reach>>
      BY <2>1 DEF SeekError, Called
    <2>3. health' = "broken" /\ UNCHANGED <<pos, got, forward, fault>>
      BY <2>2 DEF Break
    <2>4. /\ position' \in Nat /\ rewinds' \in 0 .. MaxRewinds /\ lead_out' \in BOOLEAN
          /\ fields_written' \in 0 .. MaxFields /\ max_fields' \in Limits
      BY <2>2, ReturnsTyped, WriteTyped
    <2>5. Aligned'
      BY <2>2, <2>3, StaysAligned DEF windowVars
    <2>6. TypeOK'
      BY <2>2, <2>3, <2>4, <1>1 DEF TypeOK, windowVars
    <2> QED
      BY <2>5, <2>6 DEF IInv
  <1>9. CASE Failure
    <2>1. /\ Fault /\ UNCHANGED <<decoderVars, windowVars, loopVars, pc>>
      BY <1>9 DEF Failure
    <2>2. fault' = TRUE /\ UNCHANGED <<pos, health, got, forward>>
      BY <2>1 DEF Fault
    <2>3. Aligned'
      BY <2>1, <2>2, StaysAligned DEF windowVars
    <2>4. TypeOK'
      BY <2>1, <2>2, <1>1 DEF TypeOK, decoderVars, windowVars, loopVars
    <2> QED
      BY <2>3, <2>4 DEF IInv
  <1>10. CASE UNCHANGED vars
    <2>1. UNCHANGED <<streamVars, decoderVars, windowVars, loopVars, pc>>
      BY <1>10 DEF vars
    <2>2. Aligned'
      BY <2>1, StaysAligned DEF streamVars, windowVars
    <2>3. TypeOK'
      BY <2>1, <1>1 DEF TypeOK, streamVars, decoderVars, windowVars, loopVars
    <2> QED
      BY <2>2, <2>3 DEF IInv
  <1> QED
    BY <1>2, <1>3, <1>4, <1>5, <1>6, <1>7, <1>8, <1>9, <1>10 DEF Next, Step

\* Sample by sample is as a whole.
LEMMA AlignedIsInput ==
    ASSUME IInv
    PROVE  WindowIsInput
  <1> DEFINE n == read_pos - base
  <1>1. /\ base \in Nat /\ skip \in Nat /\ window \in Seq(Nat) /\ n \in Nat
        /\ skip <= Len(window) /\ Len(window) \in Nat /\ Len(window) - skip = n
        /\ \A k \in 1 .. n : window[skip + k] = base + k - 1
    BY DEF IInv, TypeOK, Aligned
  <1>2. health = "ok" => pos = Shorter(read_pos, Length)
    BY DEF IInv, Aligned
  <1> HIDE DEF n
  <1>3. SubSeq(window, skip + 1, Len(window)) = [k \in 1 .. n |-> window[skip + k]]
    <2>1. Len(window) - (skip + 1) + 1 = n
      BY <1>1
    <2>2. \A k \in 1 .. n : (skip + 1) + k - 1 = skip + k
      BY <1>1
    <2> QED
      BY <2>1, <2>2, <1>1
  <1>4. Samples(base, n) = [k \in 1 .. n |-> window[skip + k]]
    BY <1>1 DEF Samples
  <1> QED
    BY <1>2, <1>3, <1>4 DEF WindowIsInput, n

\* The window is the input, without a gap, a repetition or a shift: however the
\* reader answers, wherever the fields are and however small the cap and the band.
THEOREM WindowInvariant == Spec => [](TypeOK /\ WindowIsInput)
  <1>1. Init => IInv
    BY InitAligns
  <1>2. IInv /\ [Next]_vars => IInv'
    BY StepKeeps
  <1>3. IInv => TypeOK /\ WindowIsInput
    BY AlignedIsInput DEF IInv
  <1> QED
    BY <1>1, <1>2, <1>3, PTL DEF Spec

-----------------------------------------------------------------------------
(* Where the window must begin and how long it may become.  What keeps the *)
(* two apart is the geometry of a read: how far the first block it needs   *)
(* is behind the decoder's position, and the last one before it.           *)

\* The block a read at p is named by, and the sample the read begins with.
BlockAt(p) == Sub(p, BlockCut) \div BlockLen
Place(p) == BlockBegin(BlockAt(p))

Most == Further(MaxKeep, LookAhead)

\* The window reaches back to the read at the place the decoder may go back to.
Margin == base <= Place(reach)

\* One chunk beyond the cap, and one for every way back; the last of these is
\* still to come if there is a stall, or may be the next call's.
Slack ==
    /\ Live < Most + (1 + rewinds) * Chunk
    /\ (stalled \/ last_consumed > position) => Live < Most + rewinds * Chunk

\* A window behind which nothing comes ends with the input.
Ending == (final_chunk /\ health = "ok") => Length <= read_pos

\* A decoder that never went back is past where it has been; between two calls it
\* is not before what the last one returned.
Onward ==
    /\ rewinds = 0 => reach <= position
    /\ (rewinds = 0 \/ pc = "loop") => last_consumed <= position

Bounds ==
    /\ IInv
    /\ Margin
    /\ Slack
    /\ skip = 0 \/ skip < Live
    /\ Ending
    /\ Onward
    /\ pc = "drain" => final_chunk
    /\ EndsAtEnd

\* Rounding down.
LEMMA RoundDown ==
    ASSUME NEW m \in Nat, NEW n \in Nat, n > 0
    PROVE  /\ m \div n \in Nat /\ (m \div n) * n \in Nat
           /\ (m \div n) * n <= m /\ m < (m \div n) * n + n
  OBVIOUS

\* Quotients and products in order.
LEMMA InOrder ==
    ASSUME NEW a \in Nat, NEW b \in Nat, NEW n \in Nat, a <= b
    PROVE  a * n <= b * n /\ (n > 0 => a \div n <= b \div n)
  OBVIOUS

LEMMA Distributes ==
    ASSUME NEW a \in Nat, NEW b \in Nat, NEW n \in Nat
    PROVE  (a + b) * n = a * n + b * n /\ a * n \in Nat /\ b * n \in Nat
  OBVIOUS

\* What the assumptions say of the sizes together.
LEMMA MoreGeometry ==
    /\ BlockCut + BlockLen <= 2 * BlockSize /\ BlockCut <= BlockLen
    /\ CapBlocks \in Nat /\ PrefetchBlocks \in Nat
    /\ MaxKeep \in Nat /\ LookAhead \in Nat /\ LookAhead > 0
    /\ Most \in Nat /\ MaxKeep <= Most /\ LookAhead <= Most
  <1>1. /\ BlockCut + BlockLen <= 2 * BlockSize /\ BlockSize <= BlockLen
        /\ CapBlocks \in Nat /\ PrefetchBlocks \in Nat
    BY GeometryAssumption, LoopAssumption DEF GeometryAssumption, LoopAssumption
  <1>2. MaxKeep \in Nat
    <2>1. CapBlocks * BlockSize \in Nat
      BY <1>1, Geometry, Multiples
    <2> QED BY <2>1, Geometry DEF MaxKeep
  <1>3. LookAhead \in Nat /\ LookAhead > 0
    <2>1. (PrefetchBlocks + 4) * BlockSize \in Nat
      BY <1>1, Geometry, Multiples
    <2> QED BY <2>1, Geometry DEF LookAhead
  <1>4. Most \in Nat /\ MaxKeep <= Most /\ LookAhead <= Most
    BY <1>2, <1>3 DEF Most, Further
  <1> QED BY <1>1, <1>2, <1>3, <1>4, Geometry

\* The grid is less than a block behind, and in order.
LEMMA GridBehind ==
    ASSUME NEW s \in Nat
    PROVE  Grid(s) \in Nat /\ Grid(s) <= s /\ s < Grid(s) + BlockSize
  BY Geometry, RoundDown DEF Grid

LEMMA GridInOrder ==
    ASSUME NEW s \in Nat, NEW t \in Nat, s <= t
    PROVE  Grid(s) <= Grid(t)
  <1>1. s \div BlockSize \in Nat /\ t \div BlockSize \in Nat
    BY Geometry, RoundDown
  <1>2. s \div BlockSize <= t \div BlockSize
    BY Geometry, InOrder
  <1> QED BY <1>1, <1>2, Geometry, InOrder DEF Grid

\* The block a read is named by begins less than a block behind the cut.
LEMMA NamedBlock ==
    ASSUME NEW p \in Nat
    PROVE  /\ BlockAt(p) \in Nat /\ BlockAt(p) * BlockLen \in Nat
           /\ BlockAt(p) * BlockLen <= Sub(p, BlockCut)
           /\ Sub(p, BlockCut) < BlockAt(p) * BlockLen + BlockLen
           /\ Place(p) = Grid(BlockAt(p) * BlockLen)
  <1>1. Sub(p, BlockCut) \in Nat
    BY Geometry, Amounts
  <1>2. /\ BlockAt(p) \in Nat /\ BlockAt(p) * BlockLen \in Nat
        /\ BlockAt(p) * BlockLen <= Sub(p, BlockCut)
        /\ Sub(p, BlockCut) < BlockAt(p) * BlockLen + BlockLen
    BY <1>1, Geometry, RoundDown DEF BlockAt
  <1>3. Place(p) = Grid(BlockAt(p) * BlockLen)
    BY DEF Place, BlockBegin, FirstBlock, Grid
  <1> QED BY <1>2, <1>3

\* A read begins behind its position, and not by much.
LEMMA PlaceBehind ==
    ASSUME NEW p \in Nat
    PROVE  /\ Place(p) \in Nat /\ Place(p) <= p
           /\ BlockAt(p) * BlockLen < Place(p) + BlockSize
  <1>1. /\ BlockAt(p) * BlockLen \in Nat
        /\ BlockAt(p) * BlockLen <= Sub(p, BlockCut)
        /\ Place(p) = Grid(BlockAt(p) * BlockLen)
    BY NamedBlock
  <1>2. Sub(p, BlockCut) \in Nat /\ Sub(p, BlockCut) <= p
    BY Geometry, Amounts
  <1> DEFINE m == BlockAt(p) * BlockLen
  <1>3. m \in Nat /\ m <= Sub(p, BlockCut) /\ Place(p) = Grid(m)
    BY <1>1
  <1> HIDE DEF m
  <1>4. Place(p) \in Nat /\ Place(p) <= m /\ m < Place(p) + BlockSize
    BY <1>3, GridBehind
  <1>5. Place(p) <= p
    BY <1>2, <1>3, <1>4
  <1> QED BY <1>4, <1>5 DEF m

\* Reads begin in the order of their positions.
LEMMA PlaceInOrder ==
    ASSUME NEW p \in Nat, NEW q \in Nat, p <= q
    PROVE  Place(p) <= Place(q)
  <1>1. /\ Sub(p, BlockCut) \in Nat /\ Sub(q, BlockCut) \in Nat
        /\ Sub(p, BlockCut) <= Sub(q, BlockCut)
    BY Geometry DEF Sub
  <1>2. BlockAt(p) <= BlockAt(q)
    BY <1>1, Geometry, InOrder DEF BlockAt
  <1>3. BlockAt(p) \in Nat /\ BlockAt(q) \in Nat
    BY NamedBlock
  <1>4. BlockAt(p) * BlockLen <= BlockAt(q) * BlockLen
    BY <1>2, <1>3, Geometry, InOrder
  <1>5. BlockAt(p) * BlockLen \in Nat /\ BlockAt(q) * BlockLen \in Nat
    BY NamedBlock
  <1> QED BY <1>4, <1>5, NamedBlock, GridInOrder

\* What lies a cut and a block behind is behind the read.
LEMMA CutBehind ==
    ASSUME NEW p \in Nat, NEW m \in Nat, m <= Sub(p, BlockCut + BlockLen)
    PROVE  Grid(m) <= Place(p)
  <1> DEFINE n == BlockAt(p) * BlockLen
             c == Sub(p, BlockCut)
  <1>1. /\ n \in Nat /\ c < n + BlockLen /\ Place(p) = Grid(n)
    BY NamedBlock
  <1> HIDE DEF n
  <1>2. Sub(p, BlockCut + BlockLen) <= n
    BY <1>1, Geometry DEF Sub
  <1>3. m <= n
    BY <1>1, <1>2, Geometry DEF Sub
  <1> QED BY <1>1, <1>3, GridInOrder

\* The window of --start begins behind the first read,
LEMMA StartBehind ==
    ASSUME NEW p \in Nat
    PROVE  ReadStart(p) <= Place(p)
  <1> DEFINE m == Sub(p, BlockCut + 2 * BlockSize)
  <1>1. m \in Nat /\ m <= Sub(p, BlockCut + BlockLen)
    BY Geometry, MoreGeometry DEF Sub
  <1> HIDE DEF m
  <1>2. Grid(m) <= Place(p)
    BY <1>1, CutBehind
  <1> QED BY <1>2 DEF ReadStart, m

\* the window after a step back begins behind the next one,
LEMMA SeekBehind ==
    ASSUME NEW p \in Nat
    PROVE  Grid(Sub(p, 2 * BlockSize)) <= Place(p)
  <1> DEFINE m == Sub(p, 2 * BlockSize)
  <1>1. m \in Nat /\ m <= Sub(p, BlockCut + BlockLen)
    BY Geometry, MoreGeometry DEF Sub
  <1> HIDE DEF m
  <1>2. Grid(m) <= Place(p)
    BY <1>1, CutBehind
  <1> QED BY <1>2 DEF m

\* and a window that has slid begins behind all reads within the band.
LEMMA HeadBehind ==
    ASSUME NEW consumed \in Nat
    PROVE  HeadOf(consumed) <= Place(Sub(consumed, RewindBand))
  <1> DEFINE far == Sub(consumed, BlockCut + BlockLen)
             g == Grid(far)
             m == Sub(g, RewindBand)
             p == Sub(consumed, RewindBand)
  <1>1. far \in Nat /\ p \in Nat
    BY Geometry DEF Sub
  <1>2. g \in Nat /\ g <= far
    BY <1>1, GridBehind
  <1> HIDE DEF g
  <1>3. m \in Nat /\ m <= Sub(p, BlockCut + BlockLen)
    BY <1>1, <1>2, Geometry DEF Sub
  <1>4. HeadOf(consumed) = Grid(m)
    BY DEF HeadOf, g
  <1> HIDE DEF m, p
  <1>5. Grid(m) <= Place(p)
    BY <1>1, <1>3, CutBehind
  <1> QED BY <1>4, <1>5 DEF p

\* All that a read and its lookahead want, from the head of the window on, is a
\* fixed amount.
LEMMA LookAheadSuffices ==
    ASSUME NEW p \in Nat
    PROVE  (BlockEnd(BlockAt(p)) + PrefetchBlocks) * BlockSize
              <= HeadOf(Place(p)) + LookAhead
  <1> DEFINE rb == BlockAt(p)
             n == rb * BlockLen
             k == ReadLen \div BlockLen
             e == (n + (k + 2) * BlockLen) \div BlockSize
  <1>1. rb \in Nat /\ n \in Nat /\ Place(p) \in Nat /\ n < Place(p) + BlockSize
    BY NamedBlock, PlaceBehind
  <1> HIDE DEF rb
  <1>2. k \in Nat /\ k * BlockLen <= ReadLen /\ k * BlockLen \in Nat
    BY Geometry, RoundDown
  <1>3. BlockEnd(rb) = e + 1
    BY DEF BlockEnd
  <1> HIDE DEF n, k
  <1>4. (k + 2) * BlockLen = k * BlockLen + 2 * BlockLen
    BY <1>2, Geometry, Distributes
  <1>5. n + (k + 2) * BlockLen \in Nat /\ n + (k + 2) * BlockLen <= n + ReadLen + 2 * BlockLen
    BY <1>1, <1>2, <1>4, Geometry
  <1>6. e \in Nat /\ e * BlockSize \in Nat /\ e * BlockSize <= n + ReadLen + 2 * BlockLen
    <2>1. /\ e \in Nat /\ e * BlockSize \in Nat
          /\ e * BlockSize <= n + (k + 2) * BlockLen
      BY <1>5, Geometry, RoundDown
    <2> HIDE DEF e
    <2> QED BY <2>1, <1>1, <1>5, Geometry
  <1> HIDE DEF e
  <1>7. (e + 1 + PrefetchBlocks) * BlockSize = e * BlockSize + (1 + PrefetchBlocks) * BlockSize
    <2>1. e + 1 + PrefetchBlocks = e + (1 + PrefetchBlocks)
      BY <1>6, MoreGeometry
    <2> QED BY <2>1, <1>6, MoreGeometry, Geometry, Distributes
  <1>8. /\ (1 + PrefetchBlocks) * BlockSize = BlockSize + PrefetchBlocks * BlockSize
        /\ (PrefetchBlocks + 4) * BlockSize = PrefetchBlocks * BlockSize + 4 * BlockSize
        /\ PrefetchBlocks * BlockSize \in Nat
    BY MoreGeometry, Geometry, Distributes
  <1>9. Place(p) <= HeadOf(Place(p)) + BlockCut + BlockLen + RewindBand + 2 * BlockSize
    <2> DEFINE c == Place(p)
               far == Sub(c, BlockCut + BlockLen)
               g == Grid(far)
               m == Sub(g, RewindBand)
    <2>1. c \in Nat /\ far \in Nat /\ c <= far + BlockCut + BlockLen
      BY <1>1, Geometry DEF Sub
    <2> HIDE DEF c, far
    <2>2. g \in Nat /\ far < g + BlockSize
      BY <2>1, GridBehind
    <2> HIDE DEF g
    <2>3. m \in Nat /\ g <= m + RewindBand
      BY <2>2, Geometry DEF Sub
    <2>4. HeadOf(c) = Grid(m)
      BY DEF HeadOf, far, g
    <2> HIDE DEF m
    <2>5. HeadOf(c) \in Nat /\ m < HeadOf(c) + BlockSize
      BY <2>3, <2>4, GridBehind
    <2>6. c <= HeadOf(c) + BlockCut + BlockLen + RewindBand + 2 * BlockSize
      BY <2>1, <2>2, <2>3, <2>5, Geometry
    <2> QED BY <2>6 DEF c
  <1>10. HeadOf(Place(p)) \in Nat
    BY <1>1, HeadTyped
  <1>11. LookAhead = RewindBand + BlockCut + 3 * BlockLen + ReadLen
                       + PrefetchBlocks * BlockSize + 4 * BlockSize
    BY <1>8, Geometry DEF LookAhead
  <1> DEFINE h == HeadOf(Place(p))
             pb == PrefetchBlocks * BlockSize
             eb == e * BlockSize
  <1>12. (BlockEnd(rb) + PrefetchBlocks) * BlockSize = eb + BlockSize + pb
    BY <1>3, <1>6, <1>7, <1>8, Geometry
  <1>13. eb + BlockSize + pb <= h + LookAhead
    <2> HIDE DEF h, pb, eb
    <2>1. /\ h \in Nat /\ pb \in Nat /\ eb \in Nat /\ eb <= n + ReadLen + 2 * BlockLen
          /\ Place(p) <= h + BlockCut + BlockLen + RewindBand + 2 * BlockSize
          /\ LookAhead = RewindBand + BlockCut + 3 * BlockLen + ReadLen + pb + 4 * BlockSize
      BY <1>6, <1>8, <1>9, <1>10, <1>11 DEF h, pb, eb
    <2> QED BY <2>1, <1>1, Geometry
  <1> QED BY <1>12, <1>13 DEF rb, h

\* A read reaches past its position.
LEMMA ReadsOn ==
    ASSUME NEW p \in Nat
    PROVE  BlockEnd(BlockAt(p)) * BlockSize > p
  <1> DEFINE n == BlockAt(p) * BlockLen
             k == ReadLen \div BlockLen
             w == n + (k + 2) * BlockLen
             e == w \div BlockSize
  <1>1. n \in Nat /\ Sub(p, BlockCut) < n + BlockLen
    BY NamedBlock
  <1>2. k \in Nat /\ k * BlockLen \in Nat
    BY Geometry, RoundDown
  <1>3. BlockEnd(BlockAt(p)) = e + 1
    BY DEF BlockEnd
  <1> HIDE DEF n, k
  <1>4. (k + 2) * BlockLen = k * BlockLen + 2 * BlockLen
    BY <1>2, Geometry, Distributes
  <1>5. w \in Nat /\ w > p
    BY <1>1, <1>2, <1>4, Geometry, MoreGeometry DEF Sub
  <1> HIDE DEF w
  <1>6. e \in Nat /\ w < e * BlockSize + BlockSize /\ e * BlockSize \in Nat
    BY <1>5, Geometry, RoundDown
  <1> HIDE DEF e
  <1>7. (e + 1) * BlockSize = e * BlockSize + BlockSize
    BY <1>6, Geometry, Distributes
  <1>8. (e + 1) * BlockSize > p
    BY <1>5, <1>6, <1>7, Geometry
  <1> QED BY <1>3, <1>8

-----------------------------------------------------------------------------
(* The steps.                                                              *)

\* The decoder goes on, unless it goes back.
LEMMA AdvanceOnward ==
    ASSUME position \in Nat, rewinds \in Nat, Advance
    PROVE  /\ position' \in Nat /\ rewinds' \in Nat
           /\ \/ position < position' /\ rewinds' = rewinds
              \/ rewinds' = rewinds + 1
  <1>1. CASE \E offset \in Offsets : position' = position + offset /\ UNCHANGED rewinds
    BY <1>1, LoopAssumption DEF LoopAssumption
  <1>2. CASE rewinds' = rewinds + 1 /\ \E back \in Rewinds : position' = Sub(position, back)
    BY <1>2, LoopAssumption, Amounts DEF LoopAssumption
  <1> QED BY <1>1, <1>2 DEF Advance

\* More ways back, more room.
LEMMA Rooms ==
    ASSUME NEW r \in Nat
    PROVE  /\ r * Chunk \in Nat
           /\ (1 + r) * Chunk = r * Chunk + Chunk
           /\ (1 + (r + 1)) * Chunk = r * Chunk + 2 * Chunk
           /\ (r + 1) * Chunk = r * Chunk + Chunk
           /\ Chunk \in Nat
  BY Geometry

\* What a call that returns says of the place it has come to.
LEMMA ReturnsOnward ==
    ASSUME Bounds, NEW consumed \in Consumed, NEW n \in 0 .. 2, Returns(consumed, n)
    PROVE  /\ consumed \in Nat /\ position' \in Nat /\ rewinds' \in Nat /\ rewinds \in Nat
           /\ consumed <= position'
           /\ \/ position' = position /\ rewinds' = rewinds
              \/ position' = consumed /\ position < position' /\ rewinds' = rewinds
              \/ position' = consumed /\ rewinds' = rewinds + 1
  <1>1. position \in Nat /\ rewinds \in Nat /\ consumed \in Nat
    <2>1. position \in Nat /\ rewinds \in Nat
      BY Geometry DEF Bounds, IInv, TypeOK
    <2>2. consumed \in Nat
      BY <2>1, ConsumedTyped
    <2> QED BY <2>1, <2>2
  <1>2. CASE consumed \in {BlockBegin(ReadlocBlock), position} /\ UNCHANGED decoderVars
    <2>1. BlockBegin(ReadlocBlock) = Place(position)
      BY DEF Place, BlockAt, ReadlocBlock
    <2>2. consumed <= position
      BY <1>1, <1>2, <2>1, PlaceBehind
    <2> QED BY <1>1, <1>2, <2>2 DEF decoderVars
  <1>3. CASE Advance /\ consumed = position'
    BY <1>1, <1>3, AdvanceOnward
  <1> QED BY <1>2, <1>3 DEF Returns

\* A read has an end.
LEMMA ReadEnds ==
    ASSUME NEW p \in Nat
    PROVE  BlockEnd(BlockAt(p)) \in Nat
  <1> DEFINE m == BlockAt(p) * BlockLen
             k == (ReadLen \div BlockLen + 2) * BlockLen
  <1>1. m \in Nat
    BY NamedBlock
  <1>2. k \in Nat
    <2>1. ReadLen \div BlockLen + 2 \in Nat
      BY Geometry, RoundDown
    <2> QED BY <2>1, Geometry, Multiples
  <1>3. BlockEnd(BlockAt(p)) = (m + k) \div BlockSize + 1
    BY DEF BlockEnd
  <1> HIDE DEF m, k
  <1>4. (m + k) \div BlockSize \in Nat
    BY <1>1, <1>2, Geometry, RoundDown
  <1> QED BY <1>3, <1>4

\* The decoder finds the end of the input only in a window that ends with it.
LEMMA EofIsFinal ==
    ASSUME Bounds, AtEof
    PROVE  final_chunk /\ BlockEnd(BlockAt(position)) * BlockSize > read_pos
  <1> DEFINE e == BlockEnd(BlockAt(position))
  <1>1. /\ position \in Nat /\ base \in Nat /\ read_pos \in Nat
        /\ base + Live = read_pos
    BY DEF Bounds, IInv, TypeOK, Aligned, Live
  <1>2. /\ e * BlockSize > base + Live
        /\ (e + PrefetchBlocks) * BlockSize > base + Live => final_chunk
    BY DEF AtEof, NeedsData, ReachesEof, RunsPastWindow, Window, BlockAt, ReadlocBlock
  <1>3. e \in Nat
    BY <1>1, ReadEnds
  <1> HIDE DEF e
  <1>4. /\ (e + PrefetchBlocks) * BlockSize = e * BlockSize + PrefetchBlocks * BlockSize
        /\ e * BlockSize \in Nat /\ PrefetchBlocks * BlockSize \in Nat
    BY <1>3, MoreGeometry, Geometry, Distributes
  <1> QED BY <1>1, <1>2, <1>4 DEF e

\* A call that is not told that the window begins too late, and asks for data
\* twice, asks for no more than the lookahead.
LEMMA StallIsSmall ==
    ASSUME Bounds, ~final_chunk, NEW n \in 0 .. 2, NEW consumed \in Consumed,
           Returns(consumed, n), ~Behind(consumed, n), n = 0,
           NeedsData
    PROVE  read_pos < HeadOf(consumed) + LookAhead
  <1>1. /\ position \in Nat /\ base \in Nat /\ read_pos \in Nat /\ base <= read_pos
        /\ Live = read_pos - base
    BY DEF Bounds, IInv, TypeOK, Aligned, Live
  <1>2. consumed = Place(position)
    BY DEF Returns, Readable, AtEof, Place, BlockAt, ReadlocBlock
  <1>3. ~(Place(position) < base)
    BY <1>2 DEF Behind
  <1>4. RunsPastWindow(ReadlocBlock, Window)
    BY <1>3 DEF NeedsData, StartsBeforeWindow, Window, Place, BlockAt, ReadlocBlock
  <1>5. (BlockEnd(BlockAt(position)) + PrefetchBlocks) * BlockSize > base + Live
    BY <1>4 DEF RunsPastWindow, Window, BlockAt, ReadlocBlock
  <1>6. base + Live = read_pos
    BY <1>1
  <1> DEFINE need == (BlockEnd(BlockAt(position)) + PrefetchBlocks) * BlockSize
             h == HeadOf(Place(position))
  <1>7. need <= h + LookAhead
    BY <1>1, LookAheadSuffices
  <1>8. h \in Nat
    BY <1>1, PlaceBehind, HeadTyped
  <1>9. need \in Nat
    <2>1. BlockEnd(BlockAt(position)) + PrefetchBlocks \in Nat
      BY <1>1, ReadEnds, MoreGeometry
    <2> QED BY <2>1, Geometry, Multiples
  <1>10. need > read_pos
    BY <1>5, <1>6
  <1> HIDE DEF need, h
  <1>11. read_pos < h + LookAhead
    BY <1>1, <1>7, <1>8, <1>9, <1>10, MoreGeometry
  <1> QED BY <1>2, <1>11 DEF h

\* The numbers in the state, and the length of the live part.
LEMMA Numbers ==
    ASSUME IInv
    PROVE  /\ position \in Nat /\ base \in Nat /\ skip \in Nat /\ read_pos \in Nat
           /\ last_consumed \in Nat /\ reach \in Nat /\ rewinds \in Nat
           /\ base <= read_pos /\ Live = read_pos - base /\ Live \in Nat
           /\ window \in Seq(Nat) /\ Len(window) \in Nat /\ skip <= Len(window)
  BY Geometry DEF IInv, TypeOK, Aligned, Live

LEMMA NumbersNext ==
    ASSUME IInv'
    PROVE  /\ position' \in Nat /\ base' \in Nat /\ skip' \in Nat /\ read_pos' \in Nat
           /\ last_consumed' \in Nat /\ reach' \in Nat /\ rewinds' \in Nat
           /\ base' <= read_pos' /\ Live' = read_pos' - base' /\ Live' \in Nat
  BY Geometry DEF IInv, TypeOK, Aligned, Live

\* The slack there is, and the one there is next.
LEMMA SlackIs ==
    /\ Slack <=> /\ Live < Most + (1 + rewinds) * Chunk
                 /\ (stalled \/ last_consumed > position) => Live < Most + rewinds * Chunk
    /\ Slack' <=> /\ Live' < Most + (1 + rewinds') * Chunk
                  /\ (stalled' \/ last_consumed' > position') => Live' < Most + rewinds' * Chunk
  BY DEF Slack, Most, MaxKeep, LookAhead, Chunk, Further

LEMMA MarginIs == (Margin <=> base <= Place(reach)) /\ (Margin' <=> base' <= Place(reach'))
  BY DEF Margin, Place, BlockAt, BlockBegin, FirstBlock, Sub

\* A decoder that looks for a field owes a chunk for every way back.
LEMMA SlackMoves ==
    ASSUME Slack, IInv, IInv', UNCHANGED <<stalled, last_consumed>>, Live' = Live,
           \/ position' = position /\ rewinds' = rewinds
           \/ position < position' /\ rewinds' = rewinds
           \/ rewinds' = rewinds + 1
    PROVE  Slack'
  <1> DEFINE r == rewinds
             s == r * Chunk
  <1>1. /\ position \in Nat /\ last_consumed \in Nat /\ Live \in Nat /\ r \in Nat
        /\ position' \in Nat
    BY Numbers, NumbersNext
  <1>2. s \in Nat /\ (1 + r) * Chunk = s + Chunk
        /\ (1 + (r + 1)) * Chunk = s + 2 * Chunk /\ (r + 1) * Chunk = s + Chunk /\ Chunk \in Nat
    BY <1>1, Rooms
  <1>3. /\ Live < Most + (1 + r) * Chunk
        /\ (stalled \/ last_consumed > position) => Live < Most + r * Chunk
    BY SlackIs
  <1> HIDE DEF r, s
  <1>4. CASE rewinds' = r
    <2>1. last_consumed' > position' => last_consumed > position
      BY <1>1, <1>4 DEF r
    <2> QED BY <2>1, <1>3, <1>4, SlackIs
  <1>5. CASE rewinds' = r + 1
    <2>1. Live < Most + (1 + (r + 1)) * Chunk
      BY <1>1, <1>2, <1>3, MoreGeometry
    <2>2. Live < Most + (r + 1) * Chunk
      BY <1>2, <1>3
    <2> QED BY <2>1, <2>2, <1>5, SlackIs
  <1> QED BY <1>4, <1>5 DEF r

\* At the return of a call the stall, if there is one, is a real one or pays for
\* a way back.
LEMMA SlackReturns ==
    ASSUME Slack, IInv, IInv', NEW consumed \in Nat,
           last_consumed' = consumed, consumed <= position', Live' <= Live,
           stalled' => \/ Live' < LookAhead
                       \/ stalled
                       \/ /\ position' = last_consumed
                          /\ position < position' \/ rewinds' = rewinds + 1,
           rewinds' \in {rewinds, rewinds + 1}
    PROVE  Slack'
  <1> DEFINE r == rewinds
             s == r * Chunk
  <1>1. /\ position \in Nat /\ last_consumed \in Nat /\ Live \in Nat /\ r \in Nat
        /\ position' \in Nat /\ Live' \in Nat
    BY Numbers, NumbersNext
  <1>2. s \in Nat /\ (1 + r) * Chunk = s + Chunk
        /\ (1 + (r + 1)) * Chunk = s + 2 * Chunk /\ (r + 1) * Chunk = s + Chunk /\ Chunk \in Nat
    BY <1>1, Rooms
  <1>3. /\ Live < Most + (1 + r) * Chunk
        /\ (stalled \/ last_consumed > position) => Live < Most + r * Chunk
    BY SlackIs
  <1>4. ~(last_consumed' > position')
    BY <1>1
  <1> HIDE DEF r, s
  <1>5. CASE rewinds' = r
    <2>1. stalled' => Live' < Most + r * Chunk
      <3>1. CASE Live' < LookAhead
        BY <3>1, <1>1, <1>2, MoreGeometry
      <3>2. CASE position' = last_consumed /\ position < position'
        <4>1. Live < Most + s
          BY <3>2, <1>1, <1>2, <1>3
        <4> QED BY <4>1, <1>1, <1>2, MoreGeometry
      <3>3. rewinds' # rewinds + 1
        BY <1>5, <1>1 DEF r
      <3>4. CASE stalled
        <4>1. Live < Most + s
          BY <3>4, <1>3 DEF s
        <4> QED BY <4>1, <1>1, <1>2, MoreGeometry DEF s
      <3> QED BY <3>1, <3>2, <3>3, <3>4
    <2>2. Live' < Most + (1 + r) * Chunk
      BY <1>1, <1>2, <1>3, MoreGeometry
    <2> QED BY <2>1, <2>2, <1>4, <1>5, SlackIs
  <1>6. CASE rewinds' = r + 1
    <2>1. Live' < Most + (1 + (r + 1)) * Chunk
      BY <1>1, <1>2, <1>3, MoreGeometry
    <2>2. Live' < Most + (r + 1) * Chunk
      BY <1>1, <1>2, <1>3, MoreGeometry
    <2> QED BY <2>1, <2>2, <1>6, SlackIs
  <1> QED BY <1>5, <1>6 DEF r

\* A read that ends short of the chunk ends with the input.
LEMMA TakeEnds ==
    ASSUME IInv, Take
    PROVE  Ending' /\ (health' = "ok" => health = "ok")
  <1>1. /\ read_pos \in Nat /\ pos \in Nat
        /\ health = "ok" => pos = Shorter(read_pos, Length)
    BY DEF IInv, TypeOK, Aligned
  <1>2. read_pos' = read_pos + Len(got') /\ (final_chunk' <=> Len(got') < Chunk)
    BY DEF Take
  <1>3. CASE Read(Chunk)
    <2> DEFINE n == Shorter(Chunk, Available(pos))
    <2>1. health = "ok" /\ got' = Samples(pos, n) /\ n \in Nat
      BY <1>3, <1>1, Geometry DEF Read, Shorter, Available
    <2>2. Len(got') = n
      BY <2>1 DEF Samples
    <2>3. Len(got') < Chunk => read_pos + Len(got') >= Length
      BY <2>1, <2>2, <1>1, Geometry DEF Shorter, Available
    <2> QED BY <2>1, <2>3, <1>2 DEF Ending
  <1>4. CASE ReadFails \/ ReadDead
    <2>1. health' = "dead"
      BY <1>4 DEF ReadFails, ReadDead
    <2> QED BY <2>1 DEF Ending
  <1> QED BY <1>3, <1>4 DEF Take

\* The window after a refill.
LEMMA RefillBounded ==
    ASSUME Bounds, IInv', Refill
    PROVE  Bounds'
  <1>1. /\ Take /\ WantsData /\ stalled' = FALSE /\ pc' = "loop"
        /\ UNCHANGED <<decoderVars, skip, base, last_consumed, reach>>
    BY DEF Refill
  <1>2. Ending'
    BY <1>1, TakeEnds DEF Bounds
  <1>3. /\ Live \in Nat /\ Live' \in Nat /\ rewinds \in Nat /\ position \in Nat
        /\ last_consumed \in Nat
    BY Numbers, NumbersNext DEF Bounds
  <1>4. Len(got') \in Nat /\ Len(got') <= Chunk /\ Live' = Live + Len(got')
    <2>1. Len(got') <= Chunk
      <3>1. CASE Read(Chunk)
        <4> DEFINE n == Shorter(Chunk, Available(pos))
        <4>1. got' = Samples(pos, n) /\ n \in Nat /\ n <= Chunk
          BY <3>1, Geometry DEF Read, Shorter, Available, Bounds, IInv, TypeOK
        <4>2. Len(got') = n
          BY <4>1 DEF Samples
        <4> QED BY <4>1, <4>2
      <3>2. CASE ReadFails \/ ReadDead
        BY <3>2, Geometry DEF ReadFails, ReadDead
      <3> QED BY <3>1, <3>2, <1>1 DEF Take
    <2>2. got' \in Seq(Nat)
      BY DEF IInv, TypeOK
    <2>3. read_pos' = read_pos + Len(got') /\ base' = base
      BY <1>1 DEF Take
    <2>4. Live = read_pos - base /\ Live' = read_pos' - base'
          /\ read_pos \in Nat /\ base \in Nat
      BY Numbers, NumbersNext DEF Bounds
    <2> QED BY <2>1, <2>2, <2>3, <2>4
  <1>5. Slack'
    <2> DEFINE s == rewinds * Chunk
    <2>1. s \in Nat /\ (1 + rewinds) * Chunk = s + Chunk /\ Chunk \in Nat
      BY <1>3, Rooms
    <2>2. stalled \/ Live < MaxKeep
      BY <1>1 DEF WantsData
    <2>3. stalled => Live < Most + s
      BY SlackIs DEF Bounds
    <2>4. last_consumed > position => Live < Most + s
      BY SlackIs DEF Bounds
    <2> HIDE DEF s
    <2>5. Live < Most + s
      BY <2>1, <2>2, <2>3, <1>3, MoreGeometry
    <2> QED
      <3>1. Live' < Most + s + Chunk
        BY <2>1, <2>5, <1>3, <1>4, MoreGeometry
      <3>2. Live' < Most + (1 + rewinds) * Chunk
        BY <2>1, <3>1, MoreGeometry
      <3>3. rewinds' = rewinds /\ ~(last_consumed' > position')
        <4>1. pc = "loop" /\ last_consumed <= position
          BY DEF Refill, Bounds, Onward
        <4> QED BY <4>1, <1>1, <1>3 DEF decoderVars
      <3> QED BY <3>2, <3>3, <1>1, SlackIs
  <1>6. skip' = 0 \/ skip' < Live'
    BY <1>1, <1>3, <1>4, Numbers, NumbersNext DEF Bounds
  <1>7. Margin' /\ Onward'
    BY <1>1, MarginIs DEF Bounds, Onward, decoderVars, Refill
  <1>8. EndsAtEnd' /\ (pc' = "drain" => final_chunk')
    BY <1>1 DEF EndsAtEnd
  <1> QED BY <1>2, <1>5, <1>6, <1>7, <1>8 DEF Bounds

\* The decoder moves, or not even that: what is said of the window stays.
LEMMA WindowStays ==
    ASSUME Bounds, IInv',
           UNCHANGED <<window, skip, base, read_pos, final_chunk, stalled, last_consumed, reach>>,
           health' = "ok" => health = "ok",
           \/ position' = position /\ rewinds' = rewinds
           \/ position < position' /\ rewinds' = rewinds
           \/ rewinds' = rewinds + 1,
           pc' # "loop" \/ (pc' = pc /\ position' = position /\ rewinds' = rewinds)
    PROVE  Margin' /\ Slack' /\ (skip' = 0 \/ skip' < Live') /\ Ending' /\ Onward'
  <1>1. Live' = Live
    BY DEF Live
  <1>2. Slack'
    BY <1>1, SlackMoves DEF Bounds
  <1>3. Margin'
    BY MarginIs DEF Bounds
  <1>4. Ending' /\ (skip' = 0 \/ skip' < Live')
    BY <1>1 DEF Bounds, Ending
  <1>5. /\ position \in Nat /\ position' \in Nat /\ rewinds \in Nat
        /\ last_consumed \in Nat /\ reach \in Nat
    BY Numbers, NumbersNext DEF Bounds
  <1>6. /\ rewinds = 0 => reach <= position
        /\ (rewinds = 0 \/ pc = "loop") => last_consumed <= position
    BY DEF Bounds, Onward
  <1>7. rewinds' = 0 => rewinds = 0 /\ position <= position'
    BY <1>5
  <1>8. rewinds' = 0 => reach' <= position' /\ last_consumed' <= position'
    BY <1>5, <1>6, <1>7
  <1>9. pc' = "loop" => last_consumed' <= position'
    BY <1>6
  <1>10. Onward'
    BY <1>8, <1>9 DEF Onward
  <1> QED BY <1>2, <1>3, <1>4, <1>10

\* A step back of the window.
LEMMA ReseekBounded ==
    ASSUME Bounds, IInv', NEW consumed \in Consumed, NEW n \in 0 .. 2,
           Returns(consumed, n), Behind(consumed, n), ReseekBack(consumed)
    PROVE  Bounds'
  <1> DEFINE at == Grid(Sub(consumed, 2 * BlockSize))
  <1>1. /\ consumed \in Nat /\ position' \in Nat /\ rewinds \in Nat
        /\ consumed <= position' /\ rewinds' \in {rewinds, rewinds + 1}
    BY ReturnsOnward
  <1>2. at <= Place(consumed)
    BY <1>1, SeekBehind
  <1>3. /\ Restart(at) /\ stalled' = FALSE /\ last_consumed' = consumed
        /\ reach' = consumed /\ pc' = "loop" /\ final_chunk' = final_chunk
    BY DEF ReseekBack
  <1> HIDE DEF at
  <1>4. base' = at /\ read_pos' = at /\ skip' = 0
    BY <1>3 DEF Restart
  <1>5. Live \in Nat /\ Live' = read_pos' - base' /\ base' \in Nat
    BY Numbers, NumbersNext DEF Bounds
  <1>6. Live' <= Live
    BY <1>4, <1>5
  <1>7. Slack'
    BY <1>1, <1>3, <1>6, SlackReturns DEF Bounds
  <1>8. Margin'
    BY <1>2, <1>3, <1>4, MarginIs
  <1>9. Onward'
    BY <1>1, <1>3 DEF Onward
  <1>10. Ending'
    BY <1>3 DEF Behind, Ending
  <1> QED BY <1>3, <1>4, <1>7, <1>8, <1>9, <1>10 DEF Bounds, EndsAtEnd

\* What a slide leaves of the window.
LEMMA KeepBounded ==
    ASSUME Bounds, IInv', NEW keep \in Nat, KeepWindow(keep)
    PROVE  /\ base' \in {keep, base} /\ keep <= base'
           /\ Live' <= Live /\ (read_pos < keep + LookAhead => Live' < LookAhead)
           /\ skip' = 0 \/ skip' < Live'
  <1>1. /\ base \in Nat /\ skip \in Nat /\ read_pos \in Nat
        /\ base <= read_pos /\ Live = read_pos - base /\ Live \in Nat
        /\ window \in Seq(Nat) /\ Len(window) \in Nat /\ skip <= Len(window)
        /\ base' \in Nat /\ Live' = read_pos' - base'
    BY Numbers, NumbersNext DEF Bounds
  <1>2. CASE keep > read_pos
    <2>1. base' = keep /\ read_pos' = keep /\ skip' = 0
      BY <1>2 DEF KeepWindow, Restart
    <2> QED BY <2>1, <1>1, <1>2, MoreGeometry
  <1>3. CASE ~(keep > read_pos)
    <2> DEFINE gone == skip + Sub(keep, base)
               compact == gone > 0 /\ gone >= Len(window) - gone
    <2>1. /\ window' = IF compact THEN SubSeq(window, gone + 1, Len(window)) ELSE window
          /\ skip' = IF compact THEN 0 ELSE gone
          /\ base' = Further(keep, base)
          /\ read_pos' = read_pos
      BY <1>3 DEF KeepWindow
    <2>2. base' \in {keep, base} /\ keep <= base' /\ base <= base'
      BY <2>1, <1>1 DEF Further
    <2>3. gone \in Nat
      <3>1. Sub(keep, base) \in Nat
        BY <1>1, Amounts
      <3> QED BY <3>1, <1>1
    <2> HIDE DEF gone
    <2>4. Live' <= Live /\ (read_pos < keep + LookAhead => Live' < LookAhead)
      BY <2>1, <2>2, <1>1, MoreGeometry
    <2>5. skip' = 0 \/ skip' < Live'
      <3>1. CASE compact
        BY <3>1, <2>1
      <3>2. CASE ~compact
        <4>1. window' = window /\ skip' = gone
          BY <3>2, <2>1
        <4>2. Live' = Len(window) - gone
          BY <4>1 DEF Live
        <4> QED BY <4>1, <4>2, <3>2, <2>3, <1>1
      <3> QED BY <3>1, <3>2
    <2> QED BY <2>2, <2>4, <2>5
  <1> QED BY <1>2, <1>3

\* The window slides on.
LEMMA SlideBounded ==
    ASSUME Bounds, IInv', NEW consumed \in Consumed, NEW n \in 0 .. 2,
           Returns(consumed, n), ~Behind(consumed, n), ~final_chunk, Slide(consumed, n)
    PROVE  Bounds'
  <1> DEFINE head == HeadOf(consumed)
             back == Sub(consumed, RewindBand)
  <1>1. /\ consumed \in Nat /\ position' \in Nat /\ rewinds \in Nat
        /\ consumed <= position' /\ rewinds' \in {rewinds, rewinds + 1}
    BY ReturnsOnward
  <1>2. head \in Nat /\ head <= Place(back)
    BY <1>1, HeadTyped, HeadBehind
  <1>3. back \in Nat /\ back <= consumed
    BY <1>1, Geometry, Amounts
  <1>4. /\ KeepWindow(head) /\ (stalled' => n = 0 /\ consumed = last_consumed)
        /\ last_consumed' = consumed /\ reach' = Further(reach, back)
        /\ pc' = "loop" /\ final_chunk' = final_chunk
    BY DEF Slide
  <1>5. stalled' => Live' < LookAhead
                      \/ (position' = last_consumed
                            /\ (position < position' \/ rewinds' = rewinds + 1))
    <2> SUFFICES ASSUME stalled'
                 PROVE  Live' < LookAhead
                          \/ (position' = last_consumed
                                /\ (position < position' \/ rewinds' = rewinds + 1))
      OBVIOUS
    <2>1. n = 0 /\ consumed = last_consumed
      BY <1>4
    <2>2. CASE NeedsData
      <3>1. read_pos < head + LookAhead
        BY <2>1, <2>2, StallIsSmall
      <3> HIDE DEF head
      <3> QED BY <3>1, <1>2, <1>4, KeepBounded
    <2>3. CASE AtEof
      BY <2>3, EofIsFinal
    <2>4. CASE Readable /\ Advance /\ consumed = position'
      <3>1. position < position' \/ rewinds' = rewinds + 1
        BY <2>4, <1>1, Numbers, AdvanceOnward DEF Bounds
      <3> QED BY <3>1, <2>1, <2>4
    <2> QED BY <2>2, <2>3, <2>4 DEF Returns
  <1> HIDE DEF head, back
  <1>6. /\ base' \in {head, base} /\ Live' <= Live
        /\ skip' = 0 \/ skip' < Live'
    BY <1>2, <1>4, KeepBounded
  <1>7. Slack'
    BY <1>1, <1>4, <1>5, <1>6, SlackReturns DEF Bounds
  <1>8. Margin'
    <2>1. /\ reach \in Nat /\ base \in Nat /\ reach' \in Nat
          /\ reach <= reach' /\ back <= reach'
      BY <1>3, <1>4, Numbers DEF Bounds, Further
    <2>2. base <= Place(reach)
      BY MarginIs DEF Bounds
    <2>3. /\ Place(reach) <= Place(reach') /\ Place(back) <= Place(reach')
          /\ Place(reach) \in Nat /\ Place(back) \in Nat /\ Place(reach') \in Nat
      BY <2>1, <1>3, PlaceInOrder, PlaceBehind
    <2>4. base' <= Place(reach')
      BY <2>1, <2>2, <2>3, <1>2, <1>6
    <2> QED BY <2>4, MarginIs
  <1>9. Onward'
    <2>1. position \in Nat /\ reach \in Nat /\ (rewinds = 0 => reach <= position)
      BY Numbers DEF Bounds, Onward
    <2>2. rewinds' = 0 => rewinds = 0 /\ position <= position'
      BY <1>1, <2>1, ReturnsOnward
    <2>3. rewinds' = 0 => reach' <= position'
      BY <2>1, <2>2, <1>1, <1>3, <1>4 DEF Further
    <2> QED BY <2>3, <1>1, <1>4 DEF Onward
  <1>10. Ending'
    BY <1>4 DEF Ending
  <1> QED BY <1>4, <1>6, <1>7, <1>8, <1>9, <1>10 DEF Bounds, EndsAtEnd

\* The loop stops, or begins to drain the window.
LEMMA StopBounded ==
    ASSUME Bounds, IInv', NEW consumed \in Consumed, NEW n \in 0 .. 2,
           Returns(consumed, n), Write(n),
           (Enough /\ Stop) \/ (final_chunk /\ BeginDrain)
    PROVE  Bounds'
  <1>1. /\ UNCHANGED <<window, skip, base, read_pos, final_chunk, stalled, last_consumed, reach>>
        /\ health' = health /\ pc' \in {"done", "drain"}
        /\ pc' = "drain" => final_chunk
    BY DEF Stop, BeginDrain, streamVars, windowVars
  <1>2. Margin' /\ Slack' /\ (skip' = 0 \/ skip' < Live') /\ Ending' /\ Onward'
    BY <1>1, ReturnsOnward, WindowStays
  <1>3. EndsAtEnd'
    <2>1. CASE pc' = "done"
      <3>1. Enough
        BY <2>1 DEF BeginDrain
      <3>2. max_fields' = max_fields
        BY DEF Write
      <3>3. fields_written' \in Nat /\ max_fields' \in Nat
        BY LoopAssumption, Geometry DEF IInv, TypeOK, LoopAssumption
      <3>4. lead_out' \/ ~(fields_written' < max_fields')
        BY <3>1, <3>2, <3>3 DEF Enough
      <3> QED BY <3>4 DEF EndsAtEnd
    <2> QED BY <2>1, <1>1 DEF EndsAtEnd
  <1> QED BY <1>1, <1>2, <1>3 DEF Bounds

\* The drain goes on while there are fields, and ends at the end.
LEMMA DrainBounded ==
    ASSUME Bounds, IInv', NEW consumed \in Consumed, NEW n \in 0 .. 2,
           DrainAnswer(consumed, n)
    PROVE  Bounds'
  <1>1. /\ pc = "drain" /\ final_chunk /\ Returns(consumed, n) /\ Write(n)
    BY DEF DrainAnswer, Bounds
  <1>2. CASE Enough
    <2>1. Stop
      BY <1>2 DEF DrainAnswer
    <2> QED BY <2>1, <1>1, <1>2, StopBounded
  <1>3. CASE ~Enough
    <2>1. /\ UNCHANGED <<window, skip, base, read_pos, final_chunk, stalled, reach>>
          /\ health' = health /\ pc' \in {"done", "drain"}
          /\ \/ n = 0 /\ consumed = last_consumed /\ last_consumed' = last_consumed
             \/ last_consumed' = consumed /\ (pc' = "done" => consumed >= read_pos)
      BY <1>3 DEF DrainAnswer, Stop, streamVars, windowVars
    <2>2. /\ consumed \in Nat /\ position' \in Nat /\ rewinds \in Nat /\ rewinds' \in Nat
          /\ consumed <= position'
          /\ \/ position' = position /\ rewinds' = rewinds
             \/ position' = consumed /\ position < position' /\ rewinds' = rewinds
             \/ position' = consumed /\ rewinds' = rewinds + 1
      BY <1>1, ReturnsOnward
    <2>3. Margin' /\ Slack' /\ (skip' = 0 \/ skip' < Live') /\ Ending' /\ Onward'
      <3>1. CASE last_consumed' = last_consumed
        BY <3>1, <2>1, <2>2, WindowStays
      <3>2. CASE last_consumed' = consumed
        <4>1. Live' = Live /\ Live \in Nat
          BY <2>1, Numbers DEF Live, Bounds
        <4>2. rewinds' \in {rewinds, rewinds + 1}
          BY <2>2
        <4>3. Slack'
          BY <3>2, <4>1, <4>2, <2>1, <2>2, SlackReturns DEF Bounds
        <4>4. Margin' /\ Ending' /\ (skip' = 0 \/ skip' < Live')
          BY <4>1, <2>1, MarginIs DEF Bounds, Ending
        <4>5. position \in Nat /\ reach \in Nat /\ (rewinds = 0 => reach <= position)
          BY Numbers DEF Bounds, Onward
        <4>6. rewinds' = 0 => reach' <= position'
          BY <4>5, <2>1, <2>2
        <4>7. Onward'
          BY <4>6, <3>2, <2>1, <2>2 DEF Onward
        <4> QED BY <4>3, <4>4, <4>7
      <3> QED BY <3>1, <3>2, <2>1
    <2>4. EndsAtEnd'
      <3> SUFFICES ASSUME pc' = "done", health' = "ok", rewinds' = 0
                   PROVE  BlockEnd(BlockAt(position')) * BlockSize > Length
        BY DEF EndsAtEnd, ReachesEof, BlockAt, ReadlocBlock, BlockEnd, Sub
      <3>1. /\ rewinds = 0 /\ position \in Nat /\ read_pos \in Nat /\ base \in Nat
            /\ reach \in Nat /\ reach <= position /\ last_consumed <= position
            /\ last_consumed \in Nat
        BY <2>2, Numbers DEF Bounds, Onward
      <3>2. Length <= read_pos /\ Length \in Nat
        BY <1>1, <2>1, Geometry DEF Bounds, Ending
      <3>3. CASE NeedsData
        <4>1. Place(position) < base
          BY <3>3, <1>1 DEF NeedsData, RunsPastWindow, StartsBeforeWindow, Window,
                            Place, BlockAt, ReadlocBlock
        <4>2. base <= Place(reach)
          BY MarginIs DEF Bounds
        <4>3. /\ Place(reach) <= Place(position)
              /\ Place(reach) \in Nat /\ Place(position) \in Nat
          BY <3>1, PlaceInOrder, PlaceBehind
        <4> QED BY <4>1, <4>2, <4>3, <3>1
      <3>4. CASE AtEof
        <4>1. position' = position
          BY <3>4, <1>1 DEF Returns, Readable, AtEof, decoderVars
        <4>2. BlockEnd(BlockAt(position)) * BlockSize > read_pos
          BY <3>4, EofIsFinal
        <4>3. BlockEnd(BlockAt(position)) * BlockSize \in Nat
          BY <3>1, ReadEnds, Geometry, Multiples
        <4> DEFINE e == BlockEnd(BlockAt(position)) * BlockSize
        <4>4. e > Length
          <5>1. e > read_pos /\ e \in Nat
            BY <4>2, <4>3
          <5> HIDE DEF e
          <5> QED BY <5>1, <3>1, <3>2
        <4> QED BY <4>1, <4>4
      <3>5. CASE Readable
        <4>1. Advance /\ consumed = position'
          BY <3>5, <1>1 DEF Returns, Readable
        <4>2. position < position'
          BY <4>1, <3>1, AdvanceOnward
        <4>3. consumed >= read_pos
          BY <4>1, <4>2, <2>1, <3>1, <2>2
        <4> DEFINE e == BlockEnd(BlockAt(position')) * BlockSize
        <4>4. e > position'
          BY <2>2, ReadsOn
        <4>5. e \in Nat
          BY <2>2, ReadEnds, Geometry, Multiples
        <4> HIDE DEF e
        <4>6. e > Length
          BY <4>1, <4>3, <4>4, <4>5, <2>2, <3>1, <3>2
        <4> QED BY <4>6 DEF e
      <3> QED BY <3>3, <3>4, <3>5 DEF Readable
    <2> QED BY <2>1, <2>3, <2>4, <1>1 DEF Bounds
  <1> QED BY <1>2, <1>3

\* Every step of the loop keeps the window between its bounds.
LEMMA StepBounded ==
    ASSUME Bounds, [Next]_vars
    PROVE  Bounds'
  <1>1. IInv'
    BY StepKeeps DEF Bounds
  <1>2. CASE Refill
    BY <1>1, <1>2, RefillBounded
  <1>3. CASE Filled \/ Crash \/ CallError
    <2>1. /\ UNCHANGED <<window, skip, base, read_pos, final_chunk, stalled, last_consumed, reach>>
          /\ UNCHANGED <<position, rewinds, health>>
          /\ pc' \in {"decode", "crashed", "error"}
      BY <1>3 DEF Filled, Crash, CallError, streamVars, decoderVars, windowVars, loopVars
    <2>2. Margin' /\ Slack' /\ (skip' = 0 \/ skip' < Live') /\ Ending' /\ Onward'
      BY <1>1, <2>1, WindowStays
    <2> QED BY <1>1, <2>1, <2>2 DEF Bounds, EndsAtEnd
  <1>4. CASE SkipField
    <2>1. /\ UNCHANGED <<window, skip, base, read_pos, final_chunk, stalled, last_consumed, reach>>
          /\ health' = health /\ pc' = pc /\ pc \in {"decode", "drain"} /\ Advance
      BY <1>4 DEF SkipField, Decoding, streamVars, windowVars, loopVars
    <2>2. \/ position < position' /\ rewinds' = rewinds
          \/ rewinds' = rewinds + 1
      BY <2>1, Numbers, AdvanceOnward DEF Bounds
    <2>3. Margin' /\ Slack' /\ (skip' = 0 \/ skip' < Live') /\ Ending' /\ Onward'
      BY <1>1, <2>1, <2>2, WindowStays
    <2> QED BY <1>1, <2>1, <2>3 DEF Bounds, EndsAtEnd
  <1>5. CASE \E consumed \in Consumed, n \in 0 .. 2 : Answer(consumed, n)
    <2>1. PICK consumed \in Consumed, n \in 0 .. 2 : Answer(consumed, n)
      BY <1>5
    <2>2. Returns(consumed, n)
      BY <2>1 DEF Answer, Called
    <2>3. CASE Behind(consumed, n)
      <3>1. ReseekBack(consumed)
        BY <2>1, <2>3 DEF Answer
      <3> QED BY <1>1, <2>2, <2>3, <3>1, ReseekBounded
    <2>4. CASE ~Behind(consumed, n)
      <3>1. /\ Write(n)
            /\ \/ Enough /\ Stop
               \/ final_chunk /\ BeginDrain
               \/ ~final_chunk /\ Slide(consumed, n)
        BY <2>1, <2>4 DEF Answer
      <3> QED BY <1>1, <2>2, <2>4, <3>1, StopBounded, SlideBounded
    <2> QED BY <2>3, <2>4
  <1>6. CASE \E consumed \in Consumed, n \in 0 .. 2 : DrainAnswer(consumed, n)
    BY <1>1, <1>6, DrainBounded
  <1>7. CASE ReaderError
    <2>1. /\ UNCHANGED <<window, skip, base, read_pos, final_chunk, stalled, last_consumed, reach>>
          /\ UNCHANGED <<position, rewinds>> /\ health' = "broken" /\ pc' = "error"
      BY <1>7 DEF ReaderError, Break, decoderVars, windowVars, loopVars
    <2>2. Margin' /\ Slack' /\ (skip' = 0 \/ skip' < Live') /\ Ending' /\ Onward'
      BY <1>1, <2>1, WindowStays
    <2> QED BY <1>1, <2>1, <2>2 DEF Bounds, EndsAtEnd
  <1>8. CASE \E consumed \in Consumed, n \in 0 .. 2 : SeekError(consumed, n)
    <2>1. PICK consumed \in Consumed, n \in 0 .. 2 : SeekError(consumed, n)
      BY <1>8
    <2>2. /\ UNCHANGED <<window, skip, base, read_pos, final_chunk, stalled, last_consumed, reach>>
          /\ Returns(consumed, n) /\ health' = "broken" /\ pc' = "error"
      BY <2>1 DEF SeekError, Called, Break, windowVars
    <2>3. Margin' /\ Slack' /\ (skip' = 0 \/ skip' < Live') /\ Ending' /\ Onward'
      BY <1>1, <2>2, ReturnsOnward, WindowStays
    <2> QED BY <1>1, <2>2, <2>3 DEF Bounds, EndsAtEnd
  <1>9. CASE Failure \/ UNCHANGED vars
    <2>1. /\ UNCHANGED <<window, skip, base, read_pos, final_chunk, stalled, last_consumed, reach>>
          /\ UNCHANGED <<position, rewinds, lead_out, fields_written, max_fields, health, pc>>
      BY <1>9 DEF Failure, Fault, vars, streamVars, decoderVars, windowVars, loopVars
    <2>2. Margin' /\ Slack' /\ (skip' = 0 \/ skip' < Live') /\ Ending' /\ Onward'
      BY <1>1, <2>1, WindowStays
    <2>3. EndsAtEnd'
      BY <2>1 DEF Bounds, EndsAtEnd, ReachesEof, ReadlocBlock
    <2> QED BY <1>1, <2>1, <2>2, <2>3 DEF Bounds
  <1> QED
    BY <1>2, <1>3, <1>4, <1>5, <1>6, <1>7, <1>8, <1>9 DEF Next, Step

\* The empty window before the first read.
LEMMA InitBounded ==
    ASSUME Init
    PROVE  Bounds
  <1>1. IInv
    BY InitAligns
  <1>2. /\ base = ReadStart(position) /\ read_pos = base /\ reach = position
        /\ rewinds = 0 /\ last_consumed = 0 /\ skip = 0 /\ pc = "loop"
        /\ stalled = FALSE /\ final_chunk = FALSE
    BY DEF Init
  <1>3. position \in Nat /\ Live = read_pos - base /\ base \in Nat
    BY <1>1, Numbers
  <1>4. Margin
    BY <1>2, <1>3, StartBehind, MarginIs
  <1>5. Slack
    <2>1. /\ rewinds * Chunk \in Nat /\ (1 + rewinds) * Chunk = rewinds * Chunk + Chunk
          /\ Chunk \in Nat
      BY <1>2, Rooms
    <2>2. Live = 0
      BY <1>2, <1>3
    <2>3. Live < Most + rewinds * Chunk /\ Live < Most + (1 + rewinds) * Chunk
      BY <2>1, <2>2, MoreGeometry
    <2> QED BY <2>3, SlackIs
  <1>6. Ending /\ Onward
    BY <1>2, <1>3 DEF Ending, Onward
  <1> QED BY <1>1, <1>2, <1>4, <1>5, <1>6 DEF Bounds, EndsAtEnd

\* What the bounds say of the band.
LEMMA MarginSuffices == Bounds => BandSuffices
  <1> SUFFICES ASSUME Bounds, position >= reach
               PROVE  ~(Place(position) < base)
    BY DEF BandSuffices, StartsBeforeWindow, Window, Place, BlockAt, ReadlocBlock
  <1>1. position \in Nat /\ reach \in Nat /\ base \in Nat
    BY Numbers DEF Bounds
  <1>2. /\ Place(reach) <= Place(position)
        /\ Place(reach) \in Nat /\ Place(position) \in Nat
    BY <1>1, PlaceInOrder, PlaceBehind
  <1>3. base <= Place(reach)
    BY MarginIs DEF Bounds
  <1> QED BY <1>1, <1>2, <1>3

\* The margin of two blocks and the rewind band are enough: a decoder that goes
\* back no further than the band finds what it reads in the window.
THEOREM BandInvariant == Spec => []BandSuffices
  <1>1. Init => Bounds
    BY InitBounded
  <1>2. Bounds /\ [Next]_vars => Bounds'
    BY StepBounded
  <1> QED
    BY <1>1, <1>2, MarginSuffices, PTL DEF Spec

\* The memory of the window is bounded, however far the disc makes the decoder
\* look ahead.
THEOREM BoundInvariant == Spec => []WindowBounded
  <1>1. Init => Bounds
    BY InitBounded
  <1>2. Bounds /\ [Next]_vars => Bounds'
    BY StepBounded
  <1>3. Bounds => WindowBounded
    BY SlackIs DEF Bounds, WindowBounded, Most
  <1> QED
    BY <1>1, <1>2, <1>3, PTL DEF Spec

\* A decode that nothing stops has read its input to the end.
THEOREM EndInvariant == Spec => []EndsAtEnd
  <1>1. Init => Bounds
    BY InitBounded
  <1>2. Bounds /\ [Next]_vars => Bounds'
    BY StepBounded
  <1>3. Bounds => EndsAtEnd
    BY DEF Bounds
  <1> QED
    BY <1>1, <1>2, <1>3, PTL DEF Spec
=============================================================================
