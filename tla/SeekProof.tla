------------------------------ MODULE SeekProof ------------------------------
(***************************************************************************)
(* Proofs about a seek and the frame numbers of the decode behind it, for  *)
(* every set of discs, every geometry and every bound on the scans.        *)
(*                                                                         *)
(* The parts that are inductive together: the codes that are kept are ones *)
(* of a disc, the scan keeps those of the last field it counted, and the   *)
(* decode those of the last first field it counted.                        *)
(***************************************************************************)
EXTENDS Seek, SequenceTheorems, WellFoundedInduction, TLAPS

(* The codes of a field, and what can be read from two of them.            *)
Line == Code \union {NoCode}
Field == [1 .. 3 -> Line]
Reading == [number : Nat \union {NoNumber}, leadouts : Nat, lead_in : BOOLEAN,
            is_clv : BOOLEAN, early_clv : BOOLEAN, minutes : Nat \union {NoNumber},
            seconds : Nat \union {NoNumber}, frame : Nat]

-----------------------------------------------------------------------------
(* decode_frame_number.  Two fields have six codes, so that what is read    *)
(* from them can be written out.                                           *)

\* What two digits are worth.
LEMMA BcdOfTwo ==
  ASSUME NEW a \in Nat, NEW b \in Nat
  PROVE  Bcd(<<a, b>>) \in Nat
<1> DEFINE digits == <<a, b>>
           value[n \in 0 .. Len(digits)] ==
               IF n = 0 THEN 0 ELSE 10 * value[n - 1] + digits[n]
           g == [n \in 0 .. 2 |-> IF n = 0 THEN 0 ELSE IF n = 1 THEN a ELSE 10 * a + b]
<1>1. g = [n \in 0 .. Len(digits) |-> IF n = 0 THEN 0 ELSE 10 * g[n - 1] + digits[n]]
  <2>1. \A n \in 0 .. 2 : g[n] = IF n = 0 THEN 0 ELSE 10 * g[n - 1] + digits[n]
    OBVIOUS
  <2> HIDE DEF g
  <2> QED BY <2>1 DEF g
<1>2. value = [n \in 0 .. Len(digits) |->
                  IF n = 0 THEN 0 ELSE 10 * value[n - 1] + digits[n]]
  <2> HIDE DEF digits, g
  <2> QED BY <1>1 DEF value
<1>3. Bcd(<<a, b>>) = value[2]
  BY DEF Bcd
<1>4. Len(digits) = 2 /\ digits[1] = a /\ digits[2] = b
  OBVIOUS
<1> HIDE DEF value, digits
<1>5. value[0] = 0 /\ value[1] = 10 * value[0] + a /\ value[2] = 10 * value[1] + b
  BY <1>2, <1>4
<1> QED BY <1>3, <1>5
\* What five digits are worth.
LEMMA BcdOfFive ==
  ASSUME NEW a \in Nat, NEW b \in Nat, NEW c \in Nat, NEW d \in Nat, NEW e \in Nat
  PROVE  Bcd(<<a, b, c, d, e>>) \in Nat
<1> DEFINE digits == <<a, b, c, d, e>>
           value[n \in 0 .. Len(digits)] ==
               IF n = 0 THEN 0 ELSE 10 * value[n - 1] + digits[n]
           v1 == 10 * 0 + a
           v2 == 10 * v1 + b
           v3 == 10 * v2 + c
           v4 == 10 * v3 + d
           v5 == 10 * v4 + e
           g == [n \in 0 .. 5 |-> IF n = 0 THEN 0 ELSE IF n = 1 THEN v1 ELSE IF n = 2 THEN v2
                                  ELSE IF n = 3 THEN v3 ELSE IF n = 4 THEN v4 ELSE v5]
<1>1. g = [n \in 0 .. Len(digits) |-> IF n = 0 THEN 0 ELSE 10 * g[n - 1] + digits[n]]
  <2>1. /\ v1 = 10 * 0 + digits[1] /\ v2 = 10 * v1 + digits[2]
        /\ v3 = 10 * v2 + digits[3] /\ v4 = 10 * v3 + digits[4]
        /\ v5 = 10 * v4 + digits[5] /\ Len(digits) = 5
    OBVIOUS
  <2> HIDE DEF v1, v2, v3, v4, v5, digits
  <2>2. \A n \in 0 .. 5 : g[n] = IF n = 0 THEN 0 ELSE 10 * g[n - 1] + digits[n]
    <3>1. g[0] = 0 /\ g[1] = v1 /\ g[2] = v2 /\ g[3] = v3 /\ g[4] = v4 /\ g[5] = v5
      OBVIOUS
    <3> HIDE DEF g
    <3> QED BY <2>1, <3>1
  <2> HIDE DEF g
  <2> QED BY <2>1, <2>2 DEF g
<1>2. value = [n \in 0 .. Len(digits) |->
                  IF n = 0 THEN 0 ELSE 10 * value[n - 1] + digits[n]]
  <2> HIDE DEF digits, g
  <2> QED BY <1>1 DEF value
<1>3. Bcd(<<a, b, c, d, e>>) = value[5]
  BY DEF Bcd
<1>4. /\ Len(digits) = 5 /\ digits[1] = a /\ digits[2] = b /\ digits[3] = c
      /\ digits[4] = d /\ digits[5] = e
  OBVIOUS
<1> HIDE DEF value, digits
<1>5. /\ value[0] = 0 /\ value[1] = 10 * value[0] + a /\ value[2] = 10 * value[1] + b
      /\ value[3] = 10 * value[2] + c /\ value[4] = 10 * value[3] + d
      /\ value[5] = 10 * value[4] + e
  BY <1>2, <1>4
<1> QED BY <1>3, <1>5

\* The digits of a code.
LEMMA CodeDigits ==
  ASSUME NEW l \in Code
  PROVE  /\ \A i \in 1 .. 6 : l[i] \in Nat
         /\ l[2] % 8 \in Nat
BY DEF Code

\* A code that is read leaves a reading.
LEMMA SeenTyped ==
  ASSUME NEW s \in Reading, NEW l \in Code
  PROVE  Seen(s, l) \in Reading
<1>1. /\ l[1] \in Nat /\ l[2] \in Nat /\ l[3] \in Nat /\ l[4] \in Nat /\ l[5] \in Nat
      /\ l[6] \in Nat /\ l[2] % 8 \in Nat
  BY CodeDigits
<1>2. Bcd(<<l[5], l[6]>>) \in Nat /\ Bcd(PictureDigits(l)) \in Nat
  BY <1>1, BcdOfTwo, BcdOfFive DEF PictureDigits
<1> DEFINE low == Bcd(<<l[5], l[6]>>)
           picture == Bcd(PictureDigits(l))
<1> HIDE DEF low, picture
<1>3. IsSecondCode(l) => l[4] + 10 * (l[2] - 10) \in Nat
  BY <1>1 DEF IsSecondCode
<1>4. low + 60 * l[2] \in Nat
  BY <1>1, <1>2 DEF low
<1>5. CASE l = LeadOut
  <2>1. Seen(s, l) = [s EXCEPT !.leadouts = s.leadouts + 1]
    <3>1. ~IsTimeCode(l) /\ ~IsPictureCode(l) /\ l # LeadIn
      BY <1>5 DEF IsTimeCode, IsPictureCode, IsTime, IsPicture, LeadIn, LeadOut
    <3> QED BY <1>5, <3>1 DEF Seen
  <2>2. s.leadouts + 1 \in Nat
    BY DEF Reading
  <2> QED BY <2>1, <2>2 DEF Reading
<1>6. CASE l # LeadOut /\ l = LeadIn
  <2>1. Seen(s, l) = [s EXCEPT !.lead_in = TRUE]
    <3>1. ~IsTimeCode(l) /\ ~IsPictureCode(l) /\ l # LeadOut
      BY <1>6 DEF IsTimeCode, IsPictureCode, IsTime, IsPicture, LeadIn
    <3> QED BY <1>6, <3>1 DEF Seen
  <2> QED BY <2>1 DEF Reading
<1>7. CASE l # LeadOut /\ l # LeadIn
  <2>1. CASE IsTimeCode(l)
    <3>1. ~IsPictureCode(l) /\ l[1] = 15
      BY <2>1 DEF IsTimeCode, IsPictureCode, IsTime
    <3>2. Seen(s, l) = [s EXCEPT !.minutes = low + 60 * l[2], !.is_clv = TRUE]
      BY <1>7, <2>1, <3>1 DEF Seen, low
    <3> QED BY <1>4, <3>2 DEF Reading
  <2>2. CASE ~IsTimeCode(l) /\ IsPictureCode(l)
    <3>1. l[1] = 15
      BY <2>2 DEF IsPictureCode, IsPicture
    <3>2. Seen(s, l) = [s EXCEPT !.number = picture, !.is_clv = FALSE]
      BY <1>7, <2>2, <3>1 DEF Seen, picture
    <3>3. picture \in Nat
      BY <1>2 DEF picture
    <3> QED BY <3>2, <3>3 DEF Reading
  <2>3. CASE ~IsTimeCode(l) /\ ~IsPictureCode(l) /\ l[1] # 15 /\ IsSecondCode(l)
    <3>1. Seen(s, l) = [s EXCEPT !.seconds = l[4] + 10 * (l[2] - 10),
                                 !.frame = low, !.is_clv = TRUE]
      BY <1>7, <2>3 DEF Seen, low
    <3>2. low \in Nat
      BY <1>2 DEF low
    <3> QED BY <1>3, <2>3, <3>1, <3>2 DEF Reading
  <2>4. CASE ~IsTimeCode(l) /\ ~IsPictureCode(l) /\ ~(l[1] # 15 /\ IsSecondCode(l))
    <3>1. Seen(s, l) = s
      BY <1>7, <2>4 DEF Seen
    <3> QED BY <3>1
  <2> QED BY <2>1, <2>2, <2>3, <2>4
<1> QED BY <1>5, <1>6, <1>7

\* So does the number that is made of what has been read.
LEMMA NumberedTyped ==
  ASSUME NEW s \in Reading
  PROVE  Numbered(s) \in Reading
<1>1. FramesPerSecond \in Nat
  BY FpsAssumption
<1>2. s.frame \in Nat /\ s.minutes \in Nat \union {NoNumber} /\ s.seconds \in Nat \union {NoNumber}
  BY DEF Reading
<1>3. CASE s.number # NoNumber \/ s.minutes = NoNumber
  BY <1>3 DEF Numbered
<1>4. CASE s.number = NoNumber /\ s.minutes # NoNumber /\ s.seconds # NoNumber
  <2> DEFINE whole == (s.minutes * 60 + s.seconds) * FramesPerSecond
             n == whole + s.frame
  <2>1. s.minutes \in Nat /\ s.seconds \in Nat /\ s.minutes * 60 + s.seconds \in Nat
    BY <1>2, <1>4
  <2>2. n \in Nat
    <3>1. \A x \in Nat : x * FramesPerSecond \in Nat
      BY <1>1
    <3>2. whole \in Nat
      BY <2>1, <3>1
    <3> HIDE DEF whole
    <3> QED BY <1>2, <3>2
  <2>3. Numbered(s) = [s EXCEPT !.number = n]
    BY <1>4 DEF Numbered
  <2> HIDE DEF n
  <2> QED BY <2>2, <2>3 DEF Reading
<1>5. CASE s.number = NoNumber /\ s.minutes # NoNumber /\ s.seconds = NoNumber
  <2>1. s.minutes * 60 \in Nat
    BY <1>2, <1>5
  <2>2. Numbered(s) = [s EXCEPT !.number = s.minutes * 60, !.early_clv = TRUE]
    BY <1>5 DEF Numbered
  <2> QED BY <2>1, <2>2 DEF Reading
<1> QED BY <1>3, <1>4, <1>5

\* A field is a sequence of three lines.
LEMMA FieldIsSeq ==
  ASSUME NEW f \in Field
  PROVE  f \in Seq(Line) /\ Len(f) = 3
<1>1. ASSUME NEW S, NEW n \in Nat, NEW s \in [1 .. n -> S]
      PROVE  s \in Seq(S) /\ Len(s) = n
  OBVIOUS
<1>2. PICK n \in Nat : n = 3
  OBVIOUS
<1>3. PICK S : S = Line
  OBVIOUS
<1>4. f \in [1 .. n -> S]
  BY <1>2, <1>3 DEF Field
<1>5. f \in Seq(S) /\ Len(f) = n
  BY ONLY <1>1, <1>4, n \in Nat
<1> QED BY <1>2, <1>3, <1>5

\* Three lines and three lines.
LEMMA TwoThrees ==
  ASSUME NEW S, NEW s \in Seq(S), NEW t \in Seq(S), Len(s) = 3, Len(t) = 3
  PROVE  Len(s \o t) = 6 /\ \A n \in 1 .. 6 : (s \o t)[n] \in S
<1> DEFINE u == s \o t
<1>1. u \in Seq(S) /\ Len(u) = Len(s) + Len(t)
  BY ConcatProperties
<1> HIDE DEF u
<1>2. Len(u) = 6
  BY <1>1
<1>3. \A n \in 1 .. Len(u) : u[n] \in S
  BY ONLY <1>1, ElementOfSeq
<1> QED BY <1>2, <1>3 DEF u

\* What a pair of fields says is a reading; its codes are read one by one.
LEMMA ReadFrameTyped ==
  ASSUME NEW f1 \in Field, NEW f2 \in Field
  PROVE  ReadFrame(f1, f2) \in Reading
<1> DEFINE codes == f1 \o f2
           Next1(before, n) ==
               IF before.number # NoNumber \/ codes[n] = NoCode THEN before
               ELSE Numbered(Seen(before, codes[n]))
           after[n \in 0 .. Len(codes)] ==
               IF n = 0 THEN Blank ELSE Next1(after[n - 1], n)
           a1 == Next1(Blank, 1)
           a2 == Next1(a1, 2)
           a3 == Next1(a2, 3)
           a4 == Next1(a3, 4)
           a5 == Next1(a4, 5)
           a6 == Next1(a5, 6)
           g == [n \in 0 .. 6 |-> IF n = 0 THEN Blank ELSE IF n = 1 THEN a1
                                  ELSE IF n = 2 THEN a2 ELSE IF n = 3 THEN a3
                                  ELSE IF n = 4 THEN a4 ELSE IF n = 5 THEN a5 ELSE a6]
<1>1. Len(codes) = 6 /\ \A n \in 1 .. 6 : codes[n] \in Line
  <2>1. /\ f1 \in Seq(Line) /\ Len(f1) = 3 /\ f2 \in Seq(Line) /\ Len(f2) = 3
        /\ \A n \in 1 .. 3 : f1[n] \in Line /\ f2[n] \in Line
    BY DEF Field
  <2> QED BY <2>1, TwoThrees
<1>2. g = [n \in 0 .. Len(codes) |-> IF n = 0 THEN Blank ELSE Next1(g[n - 1], n)]
  <2>1. /\ a1 = Next1(Blank, 1) /\ a2 = Next1(a1, 2) /\ a3 = Next1(a2, 3)
        /\ a4 = Next1(a3, 4) /\ a5 = Next1(a4, 5) /\ a6 = Next1(a5, 6)
    OBVIOUS
  <2> HIDE DEF a1, a2, a3, a4, a5, a6, Next1, codes
  <2>2. \A n \in 0 .. 6 : g[n] = IF n = 0 THEN Blank ELSE Next1(g[n - 1], n)
    <3>1. /\ g[0] = Blank /\ g[1] = a1 /\ g[2] = a2 /\ g[3] = a3 /\ g[4] = a4
          /\ g[5] = a5 /\ g[6] = a6
      OBVIOUS
    <3> HIDE DEF g
    <3> QED BY <2>1, <3>1
  <2> HIDE DEF g
  <2> QED BY <1>1, <2>2 DEF g
<1>3. after = [n \in 0 .. Len(codes) |-> IF n = 0 THEN Blank ELSE Next1(after[n - 1], n)]
  <2> HIDE DEF Next1, g, codes
  <2> QED BY <1>2 DEF after
<1>4. ReadFrame(f1, f2) = after[6]
  BY <1>1 DEF ReadFrame
<1> HIDE DEF after
<1>5. /\ after[0] = Blank /\ after[1] = Next1(after[0], 1) /\ after[2] = Next1(after[1], 2)
      /\ after[3] = Next1(after[2], 3) /\ after[4] = Next1(after[3], 4)
      /\ after[5] = Next1(after[4], 5) /\ after[6] = Next1(after[5], 6)
  <2> HIDE DEF Next1, codes
  <2> QED BY <1>1, <1>3
<1>6. \A before \in Reading : \A n \in 1 .. 6 : Next1(before, n) \in Reading
  <2> TAKE before \in Reading
  <2> TAKE n \in 1 .. 6
  <2>1. codes[n] \in Code \/ codes[n] = NoCode
    BY <1>1 DEF Line
  <2> QED BY <2>1, SeenTyped, NumberedTyped
<1>7. Blank \in Reading
  BY DEF Blank, Reading
<1> HIDE DEF Next1
<1> QED BY <1>4, <1>5, <1>6, <1>7
-----------------------------------------------------------------------------
(* The fields of a disc.                                                   *)


\* A set of numbers that is not empty has a least one.
LEMMA Least ==
  ASSUME NEW T, T \subseteq Nat, T # {}
  PROVE  \E x \in T : \A y \in T : x <= y
<1> DEFINE R == {ss \in Nat \X Nat : ss[1] < ss[2]}
<1>1. R = OpToRel(<, Nat)
  BY DEF OpToRel
<1>2. IsWellFoundedOn(R, Nat)
  BY <1>1, NatLessThanWellFounded
<1> HIDE DEF R
<1>3. PICK x \in T : \A y \in T : ~(<<y, x>> \in R)
  BY <1>2, WFMin
<1>4. ASSUME NEW y \in T PROVE x <= y
  <2>1. x \in Nat /\ y \in Nat
    OBVIOUS
  <2>2. ~(<<y, x>> \in R)
    BY <1>3
  <2>3. ~(y < x)
    BY <2>1, <2>2 DEF R
  <2> QED BY <2>1, <2>3
<1> QED BY <1>4


\* A field of a disc.
LEMMA OneField ==
  ASSUME NEW d \in Discs, NEW k \in DOMAIN d
  PROVE  /\ k \in Nat /\ d[k].start \in Nat /\ d[k].next \in Nat
         /\ d[k].start < d[k].next
         /\ d[k].valid \in BOOLEAN /\ d[k].first \in BOOLEAN
         /\ d[k].codes \in Field /\ d[k].codes \in Triples
<1>1. /\ k \in Nat /\ d[k].start \in Nat /\ d[k].next \in Nat
      /\ d[k].start < d[k].next
  BY DiscsAssumption
<1>2. d[k].codes \in Field
  BY DiscsAssumption DEF Field, Line
<1>3. d[k].valid \in BOOLEAN /\ d[k].first \in BOOLEAN
  BY DiscsAssumption, Zenon
<1>4. d[k].codes \in Triples
  <2>1. d[k].codes \in {d[j].codes : j \in DOMAIN d}
    OBVIOUS
  <2> QED BY <2>1 DEF Triples
<1> QED BY <1>1, <1>2, <1>3, <1>4

\* The fields lie in the order of their numbers.
LEMMA FieldOrder ==
  ASSUME NEW d \in Discs, NEW j \in DOMAIN d, NEW k \in DOMAIN d
  PROVE  /\ j < k => d[j].next <= d[k].start /\ d[j].start < d[k].start
         /\ d[j].start < d[k].start => j < k
<1>1. ASSUME NEW m \in DOMAIN d, NEW n \in DOMAIN d, m < n
      PROVE  d[m].next <= d[n].start /\ d[m].start < d[n].start
  <2>1. m \in 0 .. n - 1
    BY <1>1, OneField
  <2>2. d[m].next <= d[n].start
    BY <2>1, DiscsAssumption
  <2> QED BY <2>2, OneField
<1>2. ASSUME d[j].start < d[k].start PROVE j < k
  <2>1. j \in Nat /\ k \in Nat /\ d[j].start \in Nat /\ d[k].start \in Nat
    BY OneField
  <2>2. ~(j = k)
    BY <1>2, <2>1
  <2>3. ~(k < j)
    BY <1>1, <1>2, <2>1
  <2> QED BY <2>1, <2>2, <2>3
<1> QED BY <1>1, <1>2

\* The codes of two fields of discs are read as they should be.
LEMMA TwoFields ==
  ASSUME NEW f1 \in Triples, NEW f2 \in Triples
  PROVE  Frame[<<f1, f2>>] = ReadFrame(f1, f2) /\ Frame[<<f1, f2>>] \in Reading
<1>1. \A f \in Triples : f \in Field
  <2> TAKE f \in Triples
  <2>1. PICK d \in Discs : f \in {d[k].codes : k \in DOMAIN d}
    BY DEF Triples
  <2> QED BY <2>1, OneField
<1>2. Frame[<<f1, f2>>] = ReadFrame(f1, f2)
  BY DEF Frame
<1> QED BY <1>1, <1>2, ReadFrameTyped

\* None is not the codes of a field.
LEMMA NoneIsNoField ==
  ASSUME NEW f \in Field
  PROVE  f # None
<1>1. DOMAIN f = 1 .. 3 /\ DOMAIN None = {}
  BY DEF Field, None, NoCode
<1>2. 1 \in 1 .. 3
  OBVIOUS
<1> QED BY <1>1, <1>2

\* The field that is met at a place is the first one there or behind.
LEMMA Met ==
  ASSUME NEW d \in Discs, NEW p \in Nat, \E k \in DOMAIN d : d[k].start >= p
  PROVE  LET later == {k \in DOMAIN d : d[k].start >= p}
             met == CHOOSE k \in later : \A j \in later : k <= j
         IN  /\ met \in DOMAIN d /\ met \in Nat /\ d[met].start >= p
             /\ \A j \in DOMAIN d : j < met => d[j].start < p
<1> DEFINE later == {k \in DOMAIN d : d[k].start >= p}
           met == CHOOSE k \in later : \A j \in later : k <= j
<1>1. later \subseteq Nat /\ later # {}
  BY OneField
<1>2. \E k \in later : \A j \in later : k <= j
  <2> HIDE DEF later
  <2> QED BY <1>1, Least
<1>3. met \in later /\ \A j \in later : met <= j
  <2> HIDE DEF later
  <2> QED BY <1>2
<1> HIDE DEF met
<1>4. ASSUME NEW j \in DOMAIN d, j < met PROVE d[j].start < p
  <2>1. j \notin later
    <3>1. j \in Nat /\ met \in Nat
      BY <1>1, <1>3, OneField
    <3> HIDE DEF later
    <3> QED BY <1>3, <1>4, <3>1
  <2> QED BY <2>1, OneField
<1> QED BY <1>1, <1>3, <1>4 DEF met
-----------------------------------------------------------------------------
(* The invariant.                                                          *)

\* The bounds that TypeOK leaves to the program counter.
Counted ==
    /\ pc = "scan" => fields_seen < ScanFields
    /\ pc \in {"jump", "scan"} => retry < Tries
    /\ pc \in {"jump", "scan"} => firstfield_linecode = None

\* The codes that are kept are those of a field.
CodesKnown == {scan_prev_linecode, firstfield_linecode} \subseteq Triples \union {None}

\* What the scan keeps is of the last field it counted, which it is behind; what
\* lies between has been passed over.
ScanSound ==
    (pc = "scan" /\ scan_prev_linecode # None) =>
        /\ Len(paired) >= 1
        /\ LET last == paired[Len(paired)]
           IN  /\ disc[last].codes = scan_prev_linecode
               /\ disc[last].valid
               /\ disc[last].next <= position
               /\ \A k \in DOMAIN disc :
                     (k > last /\ disc[k].start < position /\ disc[k].valid)
                         => SteppedOver(last, k)

\* The last first field of a sequence of fields stands at i.
LastFirst(fields, i) ==
    /\ i \in 1 .. Len(fields)
    /\ disc[fields[i]].first
    /\ \A j \in i + 1 .. Len(fields) : ~disc[fields[j]].first

\* What the decode keeps is of the last first field it counted, and a number is
\* of that one and the last field.
DecodeSound ==
    pc = "decode" =>
        /\ firstfield_linecode # None =>
              \E i \in 1 .. Len(paired) :
                 /\ LastFirst(paired, i)
                 /\ disc[paired[i]].codes = firstfield_linecode
        /\ frame_number # NoNumber =>
              \E i \in 1 .. Len(paired) :
                 /\ LastFirst(paired, i)
                 /\ ~disc[paired[Len(paired)]].first
                 /\ frame_number = Frame[<<disc[paired[i]].codes,
                                           disc[paired[Len(paired)]].codes>>].number

IInv == TypeOK /\ Counted /\ CodesKnown /\ ScanSound /\ DecodeSound

-----------------------------------------------------------------------------
(* Places.                                                                 *)

\* What the assumptions say of the sizes.
LEMMA Geometry ==
  /\ BlockSize \in Nat /\ BlockSize > 0 /\ BlockLen \in Nat /\ BlockLen > 0
  /\ BlockCut \in Nat /\ RewindBand \in Nat /\ CapBlocks \in Nat /\ ReadLen \in Nat
  /\ Length \in Nat /\ FieldLen \in Nat /\ FieldLen > 0
  /\ ScanFields \in Nat /\ ScanFields > 0 /\ Tries \in Nat /\ Tries > 0
  /\ Chunk \in Nat /\ MaxKeep \in Nat
<1>1. /\ BlockSize \in Nat /\ BlockSize > 0 /\ BlockLen \in Nat /\ BlockLen > 0
      /\ ReadLen \in Nat /\ Length \in Nat
  BY GeometryAssumption, LengthAssumption
<1>2. /\ BlockCut \in Nat /\ RewindBand \in Nat /\ CapBlocks \in Nat
      /\ FieldLen \in Nat /\ FieldLen > 0
      /\ ScanFields \in Nat /\ ScanFields > 0 /\ Tries \in Nat /\ Tries > 0
  BY SeekAssumption
<1>3. Chunk \in Nat
  BY <1>1 DEF Chunk
<1>4. MaxKeep \in Nat
  <2>1. CapBlocks * BlockSize \in Nat
    BY <1>1, <1>2
  <2> QED BY <1>1, <1>2, <2>1 DEF MaxKeep
<1> QED BY <1>1, <1>2, <1>3, <1>4

\* Products and quotients.
LEMMA Multiples ==
  ASSUME NEW m \in Nat, NEW n \in Nat
  PROVE  /\ m * n \in Nat
         /\ n > 0 => /\ m \div n \in Nat
                     /\ (m \div n) * n <= m
                     /\ m < (m \div n) * n + n
OBVIOUS

\* Saturating subtraction and minimum.
LEMMA Amounts ==
  ASSUME NEW m \in Nat, NEW n \in Nat
  PROVE  /\ Sub(m, n) \in Nat /\ Sub(m, n) <= m /\ Sub(m, n) + n >= m
         /\ Shorter(m, n) \in Nat
BY DEF Sub, Shorter

\* The places of fields and of windows are places of the input.
LEMMA Places ==
  ASSUME NEW p \in Nat
  PROVE  /\ PositionOf(p) \in Nat
         /\ ReadStart(p) \in Nat
         /\ p \div FieldLen \in Nat
<1>1. PositionOf(p) \in Nat
  BY Geometry, Multiples DEF PositionOf
<1>2. ReadStart(p) \in Nat
  <2> DEFINE m == BlockCut + 2 * BlockSize
             s == Sub(p, m)
             q == s \div BlockSize
  <2>1. m \in Nat
    BY Geometry
  <2>2. s \in Nat
    <3> HIDE DEF m
    <3> QED BY <2>1, Amounts
  <2>3. q \in Nat
    <3> HIDE DEF s
    <3> QED BY <2>2, Geometry, Multiples
  <2>4. q * BlockSize \in Nat
    <3> HIDE DEF q
    <3> QED BY <2>3, Geometry, Multiples
  <2> QED BY <2>4 DEF ReadStart, Grid
<1>3. p \div FieldLen \in Nat
  BY Geometry, Multiples
<1> QED BY <1>1, <1>2, <1>3

\* A read starts at or in front of the decoder, and not far from it.
LEMMA ReadlocNear ==
  ASSUME position \in Nat
  PROVE  /\ Readloc \in Nat
         /\ Readloc <= position
         /\ position < Readloc + BlockSize + BlockLen + BlockCut
<1> DEFINE s == Sub(position, BlockCut)
           rb == s \div BlockLen
           at == rb * BlockLen
           b == at \div BlockSize
<1>1. s \in Nat /\ s <= position /\ s + BlockCut >= position
  BY Geometry, Amounts
<1>2. rb \in Nat /\ at <= s /\ s < at + BlockLen
  <2> HIDE DEF s
  <2> QED BY <1>1, Geometry, Multiples
<1>3. at \in Nat
  <2> HIDE DEF rb
  <2> QED BY <1>2, Geometry, Multiples
<1>4. b \in Nat /\ b * BlockSize <= at /\ at < b * BlockSize + BlockSize
  <2> HIDE DEF at
  <2> QED BY <1>3, Geometry, Multiples
<1>5. b * BlockSize \in Nat
  <2> HIDE DEF b
  <2> QED BY <1>4, Geometry, Multiples
<1>6. Readloc = b * BlockSize
  BY DEF Readloc, BlockBegin, FirstBlock, ReadlocBlock
<1> DEFINE r == b * BlockSize
<1>7. r \in Nat /\ r <= at /\ at < r + BlockSize
  BY <1>4, <1>5
<1> HIDE DEF r, at, s
<1>8. r <= position /\ position < r + BlockSize + BlockLen + BlockCut
  BY <1>1, <1>2, <1>3, <1>7, Geometry
<1> QED BY <1>6, <1>7, <1>8 DEF r

-----------------------------------------------------------------------------
(* The input and the window.                                               *)

\* The types of what the reader keeps.
StreamTyped == pos \in Nat /\ got \in Seq(Nat) /\ health \in {"ok", "dead"}

\* A seek of the reader.
LEMMA SeekTyped ==
  ASSUME StreamTyped, NEW s \in Nat, Seek(s) \/ SeekFails(s) \/ SeekDead
  PROVE  StreamTyped'
<1>1. << >> \in Seq(Nat)
  OBVIOUS
<1>2. CASE Seek(s)
  BY <1>1, <1>2, Geometry, Amounts DEF Seek, StreamTyped
<1>3. CASE SeekFails(s)
  BY <1>1, <1>3 DEF SeekFails, StreamTyped
<1>4. CASE SeekDead
  BY <1>1, <1>4 DEF SeekDead, StreamTyped
<1> QED BY <1>2, <1>3, <1>4

\* A read of a chunk.
LEMMA ReadTyped ==
  ASSUME StreamTyped, Read(Chunk) \/ ReadFails \/ ReadDead
  PROVE  StreamTyped' /\ Len(got') \in Nat
<1>1. << >> \in Seq(Nat)
  OBVIOUS
<1>2. CASE Read(Chunk)
  <2> DEFINE n == Shorter(Chunk, Available(pos))
  <2>1. pos \in Nat /\ Available(pos) \in Nat
    BY Geometry DEF Available, StreamTyped
  <2>2. n \in Nat
    BY <2>1, Geometry, Amounts
  <2> HIDE DEF n
  <2>3. got' = Samples(pos, n) /\ pos' = pos + n /\ health' = health
    BY <1>2 DEF Read, n
  <2>4. Samples(pos, n) \in Seq(Nat)
    <3>1. Samples(pos, n) \in [1 .. n -> Nat]
      BY <2>1, <2>2 DEF Samples
    <3> QED BY <2>2, <3>1
  <2>5. StreamTyped'
    BY <2>1, <2>2, <2>3, <2>4 DEF StreamTyped
  <2>6. Len(got') \in Nat
    BY <2>3, <2>4
  <2> QED BY <2>5, <2>6
<1>3. CASE ReadFails \/ ReadDead
  BY <1>1, <1>3 DEF ReadFails, ReadDead, StreamTyped
<1> QED BY <1>2, <1>3

\* The decoder and an empty window at a field.
LEMMA JumpTyped ==
  ASSUME StreamTyped, NEW field \in Nat, Jump(field)
  PROVE  /\ StreamTyped'
         /\ {position', startfield', base', read_pos', need_end'} \subseteq Nat
         /\ final_chunk' = FALSE /\ frame_number' = NoNumber
         /\ scan_prev_linecode' = None /\ paired' = << >>
<1>1. /\ position' = PositionOf(field) /\ startfield' = field
      /\ base' = ReadStart(position') /\ read_pos' = base' /\ need_end' = base' + MaxKeep
      /\ final_chunk' = FALSE /\ frame_number' = NoNumber
      /\ scan_prev_linecode' = None /\ paired' = << >>
      /\ Seek(base') \/ SeekFails(base') \/ SeekDead
  BY DEF Jump
<1>2. position' \in Nat
  BY <1>1, Places
<1>3. base' \in Nat
  BY <1>1, <1>2, Places
<1>4. need_end' \in Nat
  BY <1>1, <1>3, Geometry
<1>5. StreamTyped'
  BY <1>1, <1>3, SeekTyped
<1> QED BY <1>1, <1>2, <1>3, <1>4, <1>5

\* Nothing of what the codes are about changes.
LEMMA SoundKept ==
  ASSUME IInv, UNCHANGED <<disc, scan_prev_linecode, firstfield_linecode, frame_number,
                           paired, position, pc>>
  PROVE  CodesKnown' /\ ScanSound' /\ DecodeSound'
BY DEF IInv, CodesKnown, ScanSound, DecodeSound, LastFirst, SteppedOver

\* The parts of the types that the codes are not about.
Typed ==
  /\ {position, base, read_pos, need_end, startfield} \subseteq Nat
  /\ final_chunk \in BOOLEAN
  /\ fields_seen \in 0 .. ScanFields
  /\ retry \in 0 .. Tries

\* And the others.
Kept ==
  /\ disc \in Discs /\ target \in Targets
  /\ frame_number \in Nat \union {NoNumber}
  /\ {is_clv, lead_out} \subseteq BOOLEAN
  /\ entry.field \in DOMAIN disc \union {NoEntry.field}
  /\ entry.first \in BOOLEAN
  /\ slots \subseteq BOOLEAN
  /\ pc \in {"jump", "scan", "failed", "decode", "done", "crashed"}
  /\ paired \in Seq(DOMAIN disc)

\* Codes that are known are sequences of codes.
LEMMA TypeParts ==
  /\ TypeOK => StreamTyped /\ Typed /\ Kept
  /\ (StreamTyped /\ Typed /\ Kept /\ CodesKnown) => TypeOK
<1>1. TypeOK => StreamTyped /\ Typed /\ Kept
  BY DEF TypeOK, StreamTyped, Typed, Kept
<1>2. ASSUME StreamTyped, Typed, Kept, CodesKnown PROVE TypeOK
  <2>1. \A f \in Triples : f \in Seq(Code \union {NoCode})
    <3> TAKE f \in Triples
    <3>1. PICK d \in Discs : f \in {d[k].codes : k \in DOMAIN d}
      BY DEF Triples
    <3>2. f \in Field
      BY <3>1, OneField
    <3>3. f \in Seq(Line)
      BY <3>2, FieldIsSeq
    <3> QED BY <3>3 DEF Line
  <2>2. None \in Seq(Code \union {NoCode})
    BY DEF None, NoCode
  <2>3. {scan_prev_linecode, firstfield_linecode} \subseteq Seq(Code \union {NoCode})
    BY <1>2, <2>1, <2>2 DEF CodesKnown
  <2> QED BY <1>2, <2>3 DEF TypeOK, StreamTyped, Typed, Kept
<1> QED BY <1>1, <1>2

\* The same behind a step.
LEMMA TypePartsNext == (StreamTyped /\ Typed /\ Kept /\ CodesKnown)' => TypeOK'
BY TypeParts, PTL

-----------------------------------------------------------------------------
(* The scan.                                                               *)

\* The field that the decoder meets.
LEMMA MetHere ==
  ASSUME disc \in Discs, position \in Nat, AnyField(position)
  PROVE  /\ Here \in DOMAIN disc /\ Here \in Nat /\ disc[Here].start >= position
         /\ \A j \in DOMAIN disc : j < Here => disc[j].start < position
         /\ disc[Here].next \in Nat /\ disc[Here].start \in Nat
         /\ disc[Here].start < disc[Here].next
         /\ disc[Here].codes \in Triples /\ disc[Here].codes # None
<1>1. /\ Here \in DOMAIN disc /\ Here \in Nat /\ disc[Here].start >= position
      /\ \A j \in DOMAIN disc : j < Here => disc[j].start < position
  BY Met DEF Here, FieldAt, AnyField
<1> HIDE DEF Here
<1>2. /\ disc[Here].next \in Nat /\ disc[Here].start \in Nat
      /\ disc[Here].start < disc[Here].next
      /\ disc[Here].codes \in Triples /\ disc[Here].codes \in Field
  BY <1>1, OneField
<1>3. disc[Here].codes # None
  BY <1>2, NoneIsNoField
<1> QED BY <1>1, <1>2, <1>3

\* Two codes give a reading, and none without two valid fields.
LEMMA PairTyped ==
  ASSUME IInv
  PROVE  /\ Pair \in Reading
         /\ Pair.number # NoNumber =>
               /\ Valid /\ scan_prev_linecode # None /\ scan_prev_linecode \in Triples
               /\ Pair = ReadFrame(scan_prev_linecode, disc[Here].codes)
<1>1. disc \in Discs /\ position \in Nat /\ scan_prev_linecode \in Triples \union {None}
  BY DEF IInv, TypeOK, CodesKnown
<1>2. CASE Valid /\ scan_prev_linecode # None
  <2>1. disc[Here].codes \in Triples /\ scan_prev_linecode \in Triples
    BY <1>1, <1>2, MetHere DEF Valid
  <2>2. Pair = Frame[<<scan_prev_linecode, disc[Here].codes>>]
    BY <1>2 DEF Pair
  <2> QED BY <1>2, <2>1, <2>2, TwoFields
<1>3. CASE ~(Valid /\ scan_prev_linecode # None)
  <2>1. Pair = Blank
    BY <1>3 DEF Pair
  <2>2. Blank \in Reading /\ Blank.number = NoNumber
    BY DEF Blank, Reading
  <2> QED BY <2>1, <2>2
<1> QED BY <1>2, <1>3

\* The types of what a field of the scan leaves.
LEMMA PairedTyped ==
  ASSUME IInv, Paired
  PROVE  /\ scan_prev_linecode' \in Triples \union {None}
         /\ paired' \in Seq(DOMAIN disc)
         /\ is_clv' \in BOOLEAN /\ lead_out' \in BOOLEAN
<1>1. /\ disc \in Discs /\ position \in Nat /\ scan_prev_linecode \in Triples \union {None}
      /\ paired \in Seq(DOMAIN disc)
  BY DEF IInv, TypeOK, CodesKnown
<1>2. is_clv \in BOOLEAN /\ lead_out \in BOOLEAN
  BY DEF IInv, TypeOK
<1>3. CASE Valid
  <2>1. Here \in DOMAIN disc /\ disc[Here].codes \in Triples
    BY <1>1, <1>3, MetHere DEF Valid
  <2>2. /\ scan_prev_linecode' = disc[Here].codes /\ paired' = Append(paired, Here)
        /\ lead_out' = (lead_out \/ Pair.leadouts >= 2)
        /\ is_clv' = IF scan_prev_linecode = None THEN is_clv ELSE Pair.is_clv
    BY <1>3 DEF Paired
  <2>3. paired' \in Seq(DOMAIN disc)
    <3> HIDE DEF Here
    <3> QED BY <1>1, <2>1, <2>2
  <2>4. Pair.is_clv \in BOOLEAN
    BY PairTyped DEF Reading
  <2>5. is_clv' \in BOOLEAN
    BY <1>2, <2>2, <2>4
  <2>6. lead_out' \in BOOLEAN
    BY <2>2
  <2> QED BY <2>1, <2>2, <2>3, <2>5, <2>6
<1>4. CASE ~Valid
  BY <1>1, <1>2, <1>4 DEF Paired
<1> QED BY <1>3, <1>4

\* The decoder moves on.
LEMMA MovedTyped ==
  ASSUME disc \in Discs, position \in Nat, Moved
  PROVE  /\ position' \in Nat /\ position' > position
         /\ ~Valid => \E skip \in Skips : position' = position + skip
<1>1. CASE Valid
  BY <1>1, MetHere DEF Moved, Valid
<1>2. CASE ~Valid
  <2>1. PICK skip \in Skips : position' = position + skip
    BY <1>2 DEF Moved
  <2>2. skip \in Nat \ {0}
    BY SeekAssumption
  <2> QED BY <2>1, <2>2
<1> QED BY <1>1, <1>2

\* The last of a sequence behind an append, and the one in front of it.
LEMMA Appended ==
  ASSUME NEW S, NEW s \in Seq(S), NEW e \in S
  PROVE  /\ Append(s, e) \in Seq(S)
         /\ Len(Append(s, e)) = Len(s) + 1
         /\ Append(s, e)[Len(s) + 1] = e
         /\ \A i \in 1 .. Len(s) : Append(s, e)[i] = s[i]
         /\ Len(s) \in Nat
OBVIOUS

\* A field of the scan that is met leaves what is kept sound.
LEMMA ScanMoves ==
  ASSUME IInv, pc = "scan", Paired, Moved, disc' = disc
  PROVE  ScanSound'
<1>1. /\ disc \in Discs /\ position \in Nat /\ paired \in Seq(DOMAIN disc)
      /\ Len(paired) \in Nat
  BY DEF IInv, TypeOK
<1>2. position' \in Nat /\ position' > position
  BY <1>1, MovedTyped
<1>3. CASE Valid
  <2> DEFINE here == Here
  <2>1. /\ here \in DOMAIN disc /\ here \in Nat
        /\ disc[here].next \in Nat /\ disc[here].start \in Nat
        /\ disc[here].start < disc[here].next
    BY <1>1, <1>3, MetHere DEF Valid
  <2>2. /\ scan_prev_linecode' = disc[here].codes /\ paired' = Append(paired, here)
        /\ position' = disc[here].next
    BY <1>3 DEF Paired, Moved
  <2>3. disc[here].valid
    BY <1>3 DEF Valid
  <2> HIDE DEF here
  <2>4. Len(paired') = Len(paired) + 1 /\ paired'[Len(paired')] = here
    BY <1>1, <2>1, <2>2, Appended
  <2>5. \A k \in DOMAIN disc : k > here => ~(disc[k].start < disc[here].next)
    <3> TAKE k \in DOMAIN disc
    <3> HAVE k > here
    <3>1. k \in Nat /\ disc[k].start \in Nat
      BY <1>1, OneField
    <3>2. disc[here].next <= disc[k].start
      BY <1>1, <2>1, <3>1, FieldOrder
    <3> QED BY <2>1, <3>1, <3>2
  <2>6. Len(paired') >= 1
    BY <1>1, <2>4
  <2>7. disc[here].next <= position'
    BY <2>1, <2>2
  <2> QED BY <2>2, <2>3, <2>4, <2>5, <2>6, <2>7 DEF ScanSound
<1>4. CASE ~Valid
  <2>1. UNCHANGED <<scan_prev_linecode, paired>>
    BY <1>4 DEF Paired
  <2>2. CASE scan_prev_linecode = None
    BY <2>1, <2>2 DEF ScanSound
  <2>3. CASE scan_prev_linecode # None
    <3>1. Len(paired) >= 1 /\ paired[Len(paired)] \in DOMAIN disc
      BY <1>1, <2>3 DEF IInv, ScanSound
    <3>2. PICK last \in DOMAIN disc : last = paired[Len(paired)]
      BY <3>1
    <3>3. /\ disc[last].codes = scan_prev_linecode
          /\ disc[last].valid
          /\ disc[last].next <= position
          /\ \A k \in DOMAIN disc :
                (k > last /\ disc[k].start < position /\ disc[k].valid)
                    => SteppedOver(last, k)
      BY <2>3, <3>2 DEF IInv, ScanSound
    <3>4. /\ last \in Nat /\ disc[last].next \in Nat /\ disc[last].start \in Nat
          /\ disc[last].start < disc[last].next
      BY <1>1, OneField
    <3>5. ASSUME NEW k \in DOMAIN disc, k > last, disc[k].start < position', disc[k].valid
          PROVE  SteppedOver(last, k)
      <4>1. k \in Nat /\ disc[k].start \in Nat
        BY <1>1, OneField
      <4>2. CASE disc[k].start < position
        BY <3>3, <3>5, <4>2
      <4>3. CASE disc[k].start >= position
        <5>1. AnyField(position)
          BY <4>3 DEF AnyField
        <5> DEFINE here == Here
        <5>2. ~disc[here].valid
          BY <1>4, <5>1 DEF Valid
        <5>3. /\ here \in DOMAIN disc /\ here \in Nat /\ disc[here].start >= position
              /\ \A j \in DOMAIN disc : j < here => disc[j].start < position
              /\ disc[here].start \in Nat
          BY <1>1, <5>1, MetHere
        <5>4. PICK skip \in Skips : position' = position + skip
          BY <1>1, <1>4, MovedTyped
        <5> HIDE DEF here
        <5>5. ~(k < here)
          BY <1>1, <4>1, <4>3, <5>3
        <5>6. k # here
          BY <3>5, <5>2
        <5>7. disc[last].start < disc[here].start
          BY <1>1, <3>3, <3>4, <5>3
        <5>8. last < here
          BY <1>1, <5>3, <5>7, FieldOrder
        <5>9. here \in last + 1 .. k - 1
          BY <3>4, <4>1, <5>3, <5>5, <5>6, <5>8
        <5>10. skip \in Nat
          BY SeekAssumption
        <5>11. disc[k].start < disc[here].start + skip
          BY <1>1, <3>5, <4>1, <5>3, <5>4, <5>10
        <5> QED BY <5>2, <5>9, <5>11 DEF SteppedOver
      <4>4. disc[k].start < position \/ disc[k].start >= position
        BY <1>1, <4>1
      <4> QED BY <4>2, <4>3, <4>4
    <3>6. disc[last].next <= position'
      BY <1>1, <1>2, <3>3, <3>4
    <3>7. /\ scan_prev_linecode' = scan_prev_linecode /\ paired' = paired
          /\ paired'[Len(paired')] = last /\ Len(paired') >= 1
      BY <2>1, <3>1, <3>2
    <3>8. \A k \in DOMAIN disc :
             (k > last /\ disc[k].start < position' /\ disc[k].valid)
                 => SteppedOver(last, k)'
      BY <3>5 DEF SteppedOver
    <3>9. disc'[last].codes = scan_prev_linecode' /\ disc'[last].valid
      BY <3>3, <3>7
    <3> QED BY <3>6, <3>7, <3>8, <3>9 DEF ScanSound
  <2> QED BY <2>2, <2>3
<1> QED BY <1>3, <1>4

-----------------------------------------------------------------------------
(* The steps of a seek.                                                    *)

\* The decoder goes to another field, and forgets the codes it has.
LEMMA JumpIInv ==
  ASSUME IInv, NEW field \in Nat, Jump(field), pc' = "scan", fields_seen' < ScanFields,
         fields_seen' \in 0 .. ScanFields,
         pc \in {"jump", "scan"},
         UNCHANGED <<discVars, firstfield_linecode, is_clv, lead_out, entryVars, retry>>
  PROVE  IInv'
<1>1. StreamTyped /\ Typed /\ Kept
  BY TypeParts DEF IInv
<1>2. /\ StreamTyped'
      /\ {position', startfield', base', read_pos', need_end'} \subseteq Nat
      /\ final_chunk' = FALSE /\ frame_number' = NoNumber
      /\ scan_prev_linecode' = None /\ paired' = << >>
  BY <1>1, JumpTyped
<1>3. Typed'
  BY <1>1, <1>2 DEF Typed
<1>4. Kept'
  <2>1. paired' \in Seq(DOMAIN disc')
    BY <1>2
  <2> QED BY <1>1, <1>2, <2>1 DEF Kept, discVars, entryVars
<1>5. CodesKnown'
  BY <1>2 DEF IInv, CodesKnown
<1>6. Counted'
  BY DEF IInv, Counted
<1>7. ScanSound' /\ DecodeSound'
  BY <1>2 DEF ScanSound, DecodeSound
<1>8. TypeOK'
  BY <1>2, <1>3, <1>4, <1>5, TypePartsNext
<1> QED BY <1>5, <1>6, <1>7, <1>8 DEF IInv

LEMMA BeginScanIInv ==
  ASSUME IInv, BeginScan
  PROVE  IInv'
<1>1. startfield \in Nat
  BY DEF IInv, TypeOK
<1>2. 0 < ScanFields /\ 0 \in 0 .. ScanFields
  BY Geometry
<1> QED BY <1>1, <1>2, JumpIInv DEF BeginScan

LEMMA FallBackIInv ==
  ASSUME IInv, FallBack
  PROVE  IInv'
<1>1. pc = "scan" /\ pc' = pc /\ fields_seen' = fields_seen
  BY DEF FallBack, Call
<1>2. fields_seen < ScanFields /\ fields_seen \in 0 .. ScanFields
  BY <1>1 DEF IInv, Counted, TypeOK
<1> QED BY <1>1, <1>2, JumpIInv DEF FallBack

\* Only the window and the reader change.
LEMMA WindowIInv ==
  ASSUME IInv, StreamTyped', {base', read_pos', need_end'} \subseteq Nat,
         final_chunk' \in BOOLEAN,
         UNCHANGED <<discVars, position, codeVars, entryVars, scanVars, pc, paired>>
  PROVE  IInv'
<1>1. StreamTyped /\ Typed /\ Kept
  BY TypeParts DEF IInv
<1>2. UNCHANGED <<disc, scan_prev_linecode, firstfield_linecode, frame_number,
                  paired, position, pc>>
  BY DEF discVars, codeVars
<1>3. CodesKnown' /\ ScanSound' /\ DecodeSound'
  BY <1>2, SoundKept
<1>4. Typed'
  BY <1>1 DEF Typed, scanVars
<1>5. Kept'
  BY <1>1 DEF Kept, discVars, codeVars, entryVars
<1>6. Counted'
  BY DEF IInv, Counted, scanVars, codeVars
<1>7. TypeOK'
  BY <1>3, <1>4, <1>5, TypePartsNext
<1> QED BY <1>3, <1>6, <1>7 DEF IInv

LEMMA RefillIInv ==
  ASSUME IInv, Refill
  PROVE  IInv'
<1>1. StreamTyped /\ base \in Nat /\ read_pos \in Nat /\ need_end \in Nat
  BY TypeParts DEF IInv, Typed
<1>2. StreamTyped' /\ Len(got') \in Nat
  BY <1>1, ReadTyped DEF Refill
<1>3. /\ read_pos' = read_pos + Len(got') /\ base' = base /\ need_end' = need_end
      /\ final_chunk' = (Len(got') < Chunk)
      /\ UNCHANGED <<discVars, position, codeVars, entryVars, scanVars, pc, paired>>
  BY DEF Refill
<1>4. read_pos' \in Nat /\ final_chunk' \in BOOLEAN
  BY <1>1, <1>2, <1>3
<1> QED BY <1>1, <1>2, <1>3, <1>4, WindowIInv

LEMMA StallIInv ==
  ASSUME IInv, Stall
  PROVE  IInv'
<1>1. /\ StreamTyped /\ base \in Nat /\ read_pos \in Nat /\ need_end \in Nat
      /\ final_chunk \in BOOLEAN
  BY TypeParts DEF IInv, Typed
<1>2. Readloc \in Nat
  BY ReadlocNear DEF IInv, TypeOK
<1>3. UNCHANGED <<discVars, position, codeVars, entryVars, scanVars, pc, paired>>
  BY DEF Stall
<1>4. CASE Readloc < base
  <2>1. /\ base' = ReadStart(Readloc) /\ read_pos' = base' /\ need_end' = base' + MaxKeep
        /\ final_chunk' = FALSE
        /\ Seek(base') \/ SeekFails(base') \/ SeekDead
    BY <1>4 DEF Stall
  <2>2. base' \in Nat
    BY <1>2, <2>1, Places
  <2>3. need_end' \in Nat
    BY <2>1, <2>2, Geometry
  <2>4. StreamTyped'
    BY <1>1, <2>1, <2>2, SeekTyped
  <2> QED BY <1>3, <2>1, <2>2, <2>3, <2>4, WindowIInv
<1>5. CASE ~(Readloc < base)
  <2>1. /\ need_end' = IF Readloc + MaxKeep < read_pos THEN read_pos
                       ELSE Readloc + MaxKeep
        /\ UNCHANGED <<streamVars, base, read_pos, final_chunk>>
    BY <1>5 DEF Stall
  <2>2. need_end' \in Nat
    BY <1>1, <1>2, <2>1, Geometry
  <2>3. StreamTyped'
    BY <1>1, <2>1 DEF StreamTyped, streamVars
  <2> QED BY <1>1, <1>3, <2>1, <2>2, <2>3, WindowIInv
<1> QED BY <1>4, <1>5

\* Only where the program stands changes, and it does not go on with the seek.
LEMMA StopIInv ==
  ASSUME IInv, pc' \in {"failed", "done", "crashed"},
         UNCHANGED <<streamVars, discVars, position, codeVars, entryVars, windowVars,
                     scanVars, paired>>
  PROVE  IInv'
<1>1. StreamTyped /\ Typed /\ Kept
  BY TypeParts DEF IInv
<1>2. StreamTyped' /\ Typed'
  BY <1>1 DEF StreamTyped, Typed, streamVars, windowVars, scanVars
<1>3. Kept'
  BY <1>1 DEF Kept, discVars, codeVars, entryVars
<1>4. CodesKnown'
  BY DEF IInv, CodesKnown, codeVars
<1>5. Counted' /\ ScanSound' /\ DecodeSound'
  BY DEF Counted, ScanSound, DecodeSound
<1>6. TypeOK'
  BY <1>2, <1>3, <1>4, TypePartsNext
<1> QED BY <1>4, <1>5, <1>6 DEF IInv

\* The outcomes of one scan_field that are a field.
LEMMA ScanOnIInv ==
  ASSUME IInv, ScanOn
  PROVE  IInv'
<1>1. StreamTyped /\ Typed /\ Kept
  BY TypeParts DEF IInv
<1>2. /\ pc = "scan" /\ Moved /\ Paired /\ fields_seen' = fields_seen + 1
      /\ \/ fields_seen' >= ScanFields /\ pc' = "failed" /\ need_end' = need_end
         \/ fields_seen' < ScanFields /\ need_end' = position' + MaxKeep /\ pc' = "scan"
      /\ UNCHANGED <<streamVars, discVars, firstfield_linecode, frame_number, entryVars, base,
                     read_pos, final_chunk, startfield, retry>>
  <2>1. fields_seen' = fields_seen + 1 /\ fields_seen \in Nat /\ ScanFields \in Nat
    BY <1>1, Geometry DEF ScanOn, Typed
  <2>2. fields_seen' >= ScanFields \/ fields_seen' < ScanFields
    BY <2>1
  <2> QED BY <2>2 DEF ScanOn, Readable, Call
<1>3. fields_seen < ScanFields /\ retry < Tries /\ firstfield_linecode = None
  BY <1>2 DEF IInv, Counted
<1>4. /\ scan_prev_linecode' \in Triples \union {None}
      /\ paired' \in Seq(DOMAIN disc)
      /\ is_clv' \in BOOLEAN /\ lead_out' \in BOOLEAN
  BY <1>2, PairedTyped
<1>5. position' \in Nat
  BY <1>1, <1>2, MovedTyped DEF Kept, Typed
<1>6. StreamTyped'
  BY <1>1, <1>2 DEF StreamTyped, streamVars
<1>7. Typed'
  <2>1. fields_seen' \in 0 .. ScanFields
    BY <1>1, <1>2, <1>3, Geometry DEF Typed
  <2>2. need_end' \in Nat
    BY <1>1, <1>2, <1>5, Geometry DEF Typed
  <2> QED BY <1>1, <1>2, <1>5, <2>1, <2>2 DEF Typed
<1>8. Kept'
  <2>1. disc' = disc /\ pc' \in {"scan", "failed"}
    BY <1>2 DEF discVars
  <2> QED BY <1>1, <1>2, <1>4, <2>1 DEF Kept, discVars, entryVars
<1>9. CodesKnown'
  BY <1>2, <1>3, <1>4 DEF CodesKnown
<1>10. Counted'
  BY <1>2, <1>3 DEF Counted
<1>11. ScanSound'
  BY <1>2, ScanMoves DEF discVars
<1>12. DecodeSound'
  BY <1>2 DEF DecodeSound
<1>13. TypeOK'
  BY <1>6, <1>7, <1>8, <1>9, TypePartsNext
<1> QED BY <1>9, <1>10, <1>11, <1>12, <1>13 DEF IInv

LEMMA MissedIInv ==
  ASSUME IInv, Missed
  PROVE  IInv'
<1>1. StreamTyped /\ Typed /\ Kept
  BY TypeParts DEF IInv
<1>2. /\ pc = "scan" /\ Moved /\ Paired /\ retry' = retry + 1
      /\ startfield' = Homed(Pair.number)
      /\ pc' = IF retry' < Tries THEN "jump" ELSE "failed"
      /\ Pair.number # NoNumber
      /\ UNCHANGED <<streamVars, discVars, firstfield_linecode, frame_number, entryVars,
                     windowVars, fields_seen>>
  BY DEF Missed, Readable, Call
<1>3. retry < Tries /\ firstfield_linecode = None
  BY <1>2 DEF IInv, Counted
<1>4. /\ scan_prev_linecode' \in Triples \union {None}
      /\ paired' \in Seq(DOMAIN disc)
      /\ is_clv' \in BOOLEAN /\ lead_out' \in BOOLEAN
  BY <1>2, PairedTyped
<1>5. position' \in Nat
  BY <1>1, <1>2, MovedTyped DEF Kept, Typed
<1>6. startfield' \in Nat
  <2>1. Pair.number \in Nat
    BY <1>2, PairTyped DEF Reading
  <2>2. target \in Nat /\ startfield \in Nat
    BY <1>1, SeekAssumption DEF Kept, Typed
  <2> DEFINE n == Pair.number
  <2>3. Homed(n) \in Nat
    <3>1. n \in Nat
      BY <2>1
    <3> HIDE DEF n
    <3>2. startfield + (target - n) * 2 - 1 \in Int
      BY <2>2, <3>1
    <3> QED BY <3>2 DEF Homed
  <2> QED BY <1>2, <2>3
<1>7. StreamTyped'
  BY <1>1, <1>2 DEF StreamTyped, streamVars
<1>8. Typed'
  <2>1. retry' \in 0 .. Tries
    BY <1>1, <1>2, <1>3, Geometry DEF Typed
  <2> QED BY <1>1, <1>2, <1>5, <1>6, <2>1 DEF Typed, windowVars
<1>9. Kept'
  <2>1. disc' = disc /\ pc' \in {"jump", "failed"}
    BY <1>2 DEF discVars
  <2> QED BY <1>1, <1>2, <1>4, <2>1 DEF Kept, discVars, entryVars
<1>10. CodesKnown'
  BY <1>2, <1>3, <1>4 DEF CodesKnown
<1>11. Counted'
  BY <1>2, <1>3 DEF Counted
<1>12. ScanSound' /\ DecodeSound'
  BY <1>2 DEF ScanSound, DecodeSound
<1>13. TypeOK'
  BY <1>7, <1>8, <1>9, <1>10, TypePartsNext
<1> QED BY <1>10, <1>11, <1>12, <1>13 DEF IInv

LEMMA FoundIInv ==
  ASSUME IInv, Found
  PROVE  IInv'
<1>1. StreamTyped /\ Typed /\ Kept
  BY TypeParts DEF IInv
<1>2. /\ pc = "scan" /\ Paired
      /\ position' = PositionOf(FoundField)
      /\ base' = ReadStart(position') /\ read_pos' = base'
      /\ Rewrapped(base') /\ got' = << >>
      /\ final_chunk' = FALSE /\ pc' = "decode" /\ frame_number' = NoNumber
      /\ UNCHANGED <<discVars, firstfield_linecode, entryVars, need_end, scanVars>>
  BY DEF Found, Readable, Call
<1>3. firstfield_linecode = None
  BY <1>2 DEF IInv, Counted
<1>4. /\ scan_prev_linecode' \in Triples \union {None}
      /\ paired' \in Seq(DOMAIN disc)
      /\ is_clv' \in BOOLEAN /\ lead_out' \in BOOLEAN
  BY <1>2, PairedTyped
<1>5. position' \in Nat
  <2>1. Readloc \in Nat
    BY <1>1, ReadlocNear DEF Typed
  <2>2. FoundField \in Nat
    BY <2>1, Places DEF FoundField
  <2> QED BY <1>2, <2>2, Places
<1>6. base' \in Nat
  BY <1>2, <1>5, Places
<1>7. StreamTyped'
  <2>1. got' \in Seq(Nat)
    BY <1>2
  <2>2. pos' \in Nat /\ health' \in {"ok", "dead"}
    <3>1. pos \in Nat /\ health \in {"ok", "dead"}
      BY <1>1 DEF StreamTyped
    <3>2. Shorter(base', Length) \in Nat
      BY <1>6, Geometry, Amounts
    <3>3. \/ pos' = Shorter(base', Length) /\ health' = health
          \/ pos' = pos /\ health' = health
          \/ pos' = pos /\ health' = "ok"
      BY <1>2 DEF Rewrapped
    <3> QED BY <3>1, <3>2, <3>3
  <2> QED BY <2>1, <2>2 DEF StreamTyped
<1>8. Typed'
  BY <1>1, <1>2, <1>5, <1>6 DEF Typed, scanVars
<1>9. Kept'
  <2>1. disc' = disc
    BY <1>2 DEF discVars
  <2> QED BY <1>1, <1>2, <1>4, <2>1 DEF Kept, discVars, entryVars
<1>10. CodesKnown'
  BY <1>2, <1>3, <1>4 DEF CodesKnown
<1>11. Counted' /\ ScanSound'
  BY <1>2 DEF Counted, ScanSound
<1>12. DecodeSound'
  BY <1>2, <1>3 DEF DecodeSound
<1>13. TypeOK'
  BY <1>7, <1>8, <1>9, <1>10, TypePartsNext
<1> QED BY <1>10, <1>11, <1>12, <1>13 DEF IInv

-----------------------------------------------------------------------------
(* The steps of the decode.                                                *)

\* What a field that counts leaves of the codes.
LEMMA PairWithFirstTyped ==
  ASSUME IInv, NEW k \in DOMAIN disc, PairWithFirst(k)
  PROVE  /\ frame_number' \in Nat \union {NoNumber}
         /\ firstfield_linecode' \in Triples \union {None}
         /\ is_clv' \in BOOLEAN /\ lead_out' \in BOOLEAN
<1>1. /\ disc \in Discs /\ firstfield_linecode \in Triples \union {None}
  BY DEF IInv, TypeOK, CodesKnown
<1>2. is_clv \in BOOLEAN /\ lead_out \in BOOLEAN
  BY DEF IInv, TypeOK
<1>3. disc[k].codes \in Triples
  BY <1>1, OneField
<1>4. CASE disc[k].first \/ firstfield_linecode = None
  BY <1>2, <1>3, <1>4 DEF PairWithFirst
<1>5. CASE ~(disc[k].first \/ firstfield_linecode = None)
  <2> DEFINE frame == Frame[<<firstfield_linecode, disc[k].codes>>]
  <2>1. frame \in Reading
    BY <1>1, <1>3, <1>5, TwoFields
  <2>2. /\ frame_number' = frame.number /\ is_clv' = frame.is_clv
        /\ lead_out' = (lead_out \/ frame.leadouts >= 2)
        /\ firstfield_linecode' = firstfield_linecode
    BY <1>5 DEF PairWithFirst
  <2> HIDE DEF frame
  <2>3. frame.number \in Nat \union {NoNumber} /\ frame.is_clv \in BOOLEAN
    BY <2>1 DEF Reading
  <2>4. lead_out' \in BOOLEAN
    BY <2>2
  <2> QED BY <1>1, <2>2, <2>3, <2>4
<1> QED BY <1>4, <1>5

\* A field that counts leaves what the decode keeps sound.
LEMMA PairWithFirstSound ==
  ASSUME IInv, pc = "decode", NEW k \in DOMAIN disc, PairWithFirst(k),
         paired' = Append(paired, k), disc' = disc
  PROVE  DecodeSound'
<1>1. disc \in Discs /\ paired \in Seq(DOMAIN disc) /\ Len(paired) \in Nat
  BY DEF IInv, TypeOK
<1>2. PICK n \in Nat : n = Len(paired)
  BY <1>1
<1>3. /\ Len(paired') = n + 1 /\ paired'[n + 1] = k
      /\ \A i \in 1 .. n : paired'[i] = paired[i]
  BY <1>1, <1>2, Appended
<1>4. CASE disc[k].first
  <2>1. frame_number' = NoNumber /\ firstfield_linecode' = disc[k].codes
    BY <1>4 DEF PairWithFirst
  <2>2. LastFirst(paired, n + 1)'
    <3>1. n + 1 \in 1 .. Len(paired') /\ (n + 1) + 1 .. Len(paired') = {}
      BY <1>2, <1>3
    <3> QED BY <1>3, <1>4, <3>1 DEF LastFirst
  <2>3. disc'[paired'[n + 1]].codes = firstfield_linecode' /\ n + 1 \in 1 .. Len(paired')
    BY <1>2, <1>3, <2>1
  <2> QED BY <2>1, <2>2, <2>3 DEF DecodeSound
<1>5. CASE ~disc[k].first /\ firstfield_linecode = None
  <2>1. frame_number' = NoNumber /\ firstfield_linecode' = None
    BY <1>5 DEF PairWithFirst
  <2> QED BY <2>1 DEF DecodeSound
<1>6. CASE ~disc[k].first /\ firstfield_linecode # None
  <2>1. /\ frame_number' = Frame[<<firstfield_linecode, disc[k].codes>>].number
        /\ firstfield_linecode' = firstfield_linecode
    BY <1>6 DEF PairWithFirst
  <2>2. PICK i \in 1 .. n :
           LastFirst(paired, i) /\ disc[paired[i]].codes = firstfield_linecode
    BY <1>2, <1>6 DEF IInv, DecodeSound
  <2>3. i \in 1 .. Len(paired') /\ paired'[i] = paired[i]
    BY <1>2, <1>3, <2>2
  <2>4. LastFirst(paired, i)'
    <3>1. ASSUME NEW j \in i + 1 .. Len(paired')
          PROVE  ~disc[paired'[j]].first
      <4>1. j \in i + 1 .. n \/ j = n + 1
        BY <1>2, <1>3, <2>2
      <4>2. CASE j = n + 1
        BY <1>3, <1>6, <4>2
      <4>3. CASE j \in i + 1 .. n
        <5>1. j \in 1 .. n /\ paired'[j] = paired[j]
          BY <1>2, <1>3, <2>2, <4>3
        <5>2. ~disc[paired[j]].first
          BY <1>2, <2>2, <4>3 DEF LastFirst
        <5> QED BY <5>1, <5>2
      <4> QED BY <4>1, <4>2, <4>3
    <3>2. disc[paired[i]].first
      BY <2>2 DEF LastFirst
    <3> QED BY <2>3, <3>1, <3>2 DEF LastFirst
  <2>5. /\ disc'[paired'[i]].codes = firstfield_linecode'
        /\ ~disc'[paired'[Len(paired')]].first
        /\ frame_number' = Frame[<<disc'[paired'[i]].codes,
                                   disc'[paired'[Len(paired')]].codes>>].number
    BY <1>3, <1>6, <2>1, <2>2, <2>3
  <2> QED BY <2>3, <2>4, <2>5 DEF DecodeSound
<1> QED BY <1>4, <1>5, <1>6

\* The entries of the decode.
LEMMA RecordTyped ==
  ASSUME disc \in Discs, entry.field \in DOMAIN disc \union {NoEntry.field},
         entry.first \in BOOLEAN, slots \subseteq BOOLEAN,
         NEW k \in DOMAIN disc, Record(k)
  PROVE  /\ entry'.field \in DOMAIN disc \union {NoEntry.field}
         /\ entry'.first \in BOOLEAN
         /\ slots' \subseteq BOOLEAN
<1>1. disc[k].first \in BOOLEAN
  BY OneField
<1>2. CASE entry = NoEntry /\ ~disc[k].first
  BY <1>2 DEF Record, entryVars
<1>3. CASE ~(entry = NoEntry /\ ~disc[k].first)
  <2> DEFINE parity == IF entry # NoEntry /\ ~Skipped(k) THEN ~entry.first
                       ELSE disc[k].first
  <2>1. /\ slots' = slots \union {disc[k].first}
        /\ entry' = entry \/ entry' = [field |-> k, first |-> parity]
    BY <1>3 DEF Record
  <2>2. parity \in BOOLEAN
    BY <1>1
  <2> HIDE DEF parity
  <2>3. CASE entry' = entry
    BY <1>1, <2>1, <2>3
  <2>4. CASE entry' = [field |-> k, first |-> parity]
    BY <1>1, <2>1, <2>2, <2>4
  <2> QED BY <2>1, <2>3, <2>4
<1> QED BY <1>2, <1>3

LEMMA DecodeFieldIInv ==
  ASSUME IInv, DecodeField
  PROVE  IInv'
<1>1. StreamTyped /\ Typed /\ Kept
  BY TypeParts DEF IInv
<1>2. PICK k \in DOMAIN disc : k = Here
  BY <1>1, MetHere DEF DecodeField, Kept, Typed
<1>3. /\ pc = "decode" /\ UpdateFrameNumber(k) /\ Record(k)
      /\ position' = disc[k].next
      /\ pc' = IF lead_out' THEN "done" ELSE "decode"
      /\ UNCHANGED <<streamVars, discVars, scan_prev_linecode, windowVars, scanVars>>
  BY <1>2 DEF DecodeField
<1>4. position' \in Nat
  BY <1>1, <1>3, OneField DEF Kept
<1>5. pc' \in {"done", "decode"}
  BY <1>3
<1>6. disc' = disc
  BY <1>3 DEF discVars
<1>7. /\ entry'.field \in DOMAIN disc \union {NoEntry.field}
      /\ entry'.first \in BOOLEAN
      /\ slots' \subseteq BOOLEAN
  BY <1>1, <1>3, RecordTyped DEF Kept
<1>8. /\ frame_number' \in Nat \union {NoNumber}
      /\ firstfield_linecode' \in Triples \union {None}
      /\ is_clv' \in BOOLEAN /\ lead_out' \in BOOLEAN
      /\ paired' \in Seq(DOMAIN disc)
      /\ DecodeSound'
  <2>1. CASE Skipped(k)
    <3>1. UNCHANGED <<firstfield_linecode, frame_number, is_clv, lead_out, paired>>
      BY <1>3, <2>1 DEF UpdateFrameNumber
    <3>2. DecodeSound'
      BY <1>3, <1>6, <3>1 DEF IInv, DecodeSound, LastFirst
    <3> QED BY <1>1, <3>1, <3>2 DEF IInv, CodesKnown, Kept
  <2>2. CASE ~Skipped(k)
    <3>1. PairWithFirst(k) /\ paired' = Append(paired, k)
      BY <1>3, <2>2 DEF UpdateFrameNumber
    <3>2. paired' \in Seq(DOMAIN disc)
      BY <1>1, <3>1, Appended DEF Kept
    <3> QED BY <1>3, <1>6, <3>1, <3>2, PairWithFirstTyped, PairWithFirstSound
  <2> QED BY <2>1, <2>2
<1>9. StreamTyped' /\ Typed'
  BY <1>1, <1>3, <1>4 DEF StreamTyped, Typed, streamVars, windowVars, scanVars
<1>10. Kept'
  BY <1>1, <1>3, <1>5, <1>6, <1>7, <1>8 DEF Kept, discVars
<1>11. CodesKnown'
  BY <1>3, <1>8 DEF IInv, CodesKnown
<1>12. Counted' /\ ScanSound'
  BY <1>5 DEF Counted, ScanSound
<1>13. TypeOK'
  BY <1>9, <1>10, <1>11, TypePartsNext
<1> QED BY <1>8, <1>11, <1>12, <1>13 DEF IInv

LEMMA DecodeInvalidIInv ==
  ASSUME IInv, DecodeInvalid
  PROVE  IInv'
<1>1. StreamTyped /\ Typed /\ Kept
  BY TypeParts DEF IInv
<1>2. /\ pc = "decode" /\ Moved
      /\ UNCHANGED <<streamVars, discVars, codeVars, entryVars, windowVars, scanVars, pc,
                     paired>>
  BY DEF DecodeInvalid
<1>3. position' \in Nat
  BY <1>1, <1>2, MovedTyped DEF Kept, Typed
<1>4. StreamTyped' /\ Typed'
  BY <1>1, <1>2, <1>3 DEF StreamTyped, Typed, streamVars, windowVars, scanVars
<1>5. Kept'
  BY <1>1, <1>2 DEF Kept, discVars, codeVars, entryVars
<1>6. CodesKnown'
  BY <1>2 DEF IInv, CodesKnown, codeVars
<1>7. Counted' /\ ScanSound'
  BY <1>2 DEF Counted, ScanSound
<1>8. DecodeSound'
  BY <1>2 DEF IInv, DecodeSound, LastFirst, discVars, codeVars
<1>9. TypeOK'
  BY <1>4, <1>5, <1>6, TypePartsNext
<1> QED BY <1>6, <1>7, <1>8, <1>9 DEF IInv

LEMMA FailureIInv ==
  ASSUME IInv, Failure
  PROVE  IInv'
<1>1. StreamTyped /\ Typed /\ Kept
  BY TypeParts DEF IInv
<1>2. /\ UNCHANGED <<pos, health, got>>
      /\ UNCHANGED <<discVars, position, codeVars, entryVars, windowVars, scanVars, pc, paired>>
  BY DEF Failure, Fault
<1>3. StreamTyped'
  BY <1>1, <1>2 DEF StreamTyped
<1>4. base' \in Nat /\ read_pos' \in Nat /\ need_end' \in Nat /\ final_chunk' \in BOOLEAN
  BY <1>1, <1>2 DEF Typed, windowVars
<1> QED BY <1>2, <1>3, <1>4, WindowIInv

LEMMA StutterIInv ==
  ASSUME IInv, UNCHANGED vars
  PROVE  IInv'
<1>1. UNCHANGED <<pos, health, got, discVars, position, codeVars, entryVars, windowVars,
                  scanVars, pc, paired>>
  BY DEF vars, streamVars
<1>2. StreamTyped'
  BY <1>1, TypeParts DEF IInv, StreamTyped
<1>3. base' \in Nat /\ read_pos' \in Nat /\ need_end' \in Nat /\ final_chunk' \in BOOLEAN
  BY <1>1, TypeParts DEF IInv, Typed, windowVars
<1> QED BY <1>1, <1>2, <1>3, WindowIInv

-----------------------------------------------------------------------------
(* The theorems.                                                           *)

LEMMA InitIInv == Init => IInv
<1> SUFFICES ASSUME Init PROVE IInv
  OBVIOUS
<1>1. startfield \in Nat
  <2>1. PICK frame \in Frames \union {target} :
           startfield = IF frame = 0 THEN StartField(target) ELSE StartField(frame)
    BY DEF Init
  <2>2. target \in Nat /\ frame \in Nat
    BY SeekAssumption DEF Init
  <2> QED BY <2>1, <2>2 DEF StartField
<1>2. StreamTyped
  BY DEF Init, StreamInit, StreamTyped
<1>3. Typed
  <2>1. position \in Nat
    BY <1>1, Places DEF Init
  <2>2. base = 0 /\ read_pos = 0 /\ need_end = 0 /\ final_chunk = FALSE
        /\ fields_seen = 0 /\ retry = 0
    BY DEF Init
  <2>3. 0 \in 0 .. ScanFields /\ 0 \in 0 .. Tries
    BY Geometry
  <2>4. {position, base, read_pos, need_end, startfield} \subseteq Nat
    BY <1>1, <2>1, <2>2
  <2>5. final_chunk \in BOOLEAN /\ fields_seen \in 0 .. ScanFields /\ retry \in 0 .. Tries
    BY <2>2, <2>3
  <2> QED BY ONLY <2>4, <2>5 DEF Typed
<1>4. Kept
  <2>1. entry.field = NoEntry.field /\ entry.first = FALSE
    BY DEF Init, NoEntry
  <2>2. paired \in Seq(DOMAIN disc)
    BY DEF Init
  <2> QED BY <2>1, <2>2 DEF Init, Kept
<1>5. CodesKnown
  BY DEF Init, CodesKnown
<1>6. Counted /\ ScanSound /\ DecodeSound
  BY Geometry DEF Init, Counted, ScanSound, DecodeSound
<1> QED BY <1>2, <1>3, <1>4, <1>5, <1>6, TypeParts DEF IInv

LEMMA NextIInv == IInv /\ [Next]_vars => IInv'
<1> SUFFICES ASSUME IInv, [Next]_vars PROVE IInv'
  OBVIOUS
<1>1. CASE BeginScan
  BY <1>1, BeginScanIInv
<1>2. CASE Refill
  BY <1>2, RefillIInv
<1>3. CASE ScanOn
  BY <1>3, ScanOnIInv
<1>4. CASE Found
  BY <1>4, FoundIInv
<1>5. CASE Missed
  BY <1>5, MissedIInv
<1>6. CASE Stall
  BY <1>6, StallIInv
<1>7. CASE FallBack
  BY <1>7, FallBackIInv
<1>8. CASE GiveUp
  BY <1>8, StopIInv DEF GiveUp
<1>9. CASE Crash
  BY <1>9, StopIInv DEF Crash
<1>10. CASE DecodeField
  BY <1>10, DecodeFieldIInv
<1>11. CASE DecodeInvalid
  BY <1>11, DecodeInvalidIInv
<1>12. CASE DecodeEnds
  BY <1>12, StopIInv DEF DecodeEnds
<1>13. CASE Failure
  BY <1>13, FailureIInv
<1>14. CASE UNCHANGED vars
  BY <1>14, StutterIInv
<1> QED BY <1>1, <1>2, <1>3, <1>4, <1>5, <1>6, <1>7, <1>8, <1>9, <1>10, <1>11, <1>12,
           <1>13, <1>14 DEF Next, SeekStep, DecodeStep

\* The types of the seek and of the decode behind it (run_seek, scan_field,
\* update_frame_number).  That a frame number is one rests on the codes of a pair
\* of fields being read as decode_frame_number reads them.
THEOREM SeekInvariant == Spec => []TypeOK
<1>1. IInv => TypeOK
  BY DEF IInv
<1> QED BY <1>1, InitIInv, NextIInv, PTL DEF Spec

\* update_frame_number: the number of a decoded frame is read from its second
\* field and the last first field in front of it that counts, on every disc.
THEOREM NumberInvariant == Spec => []NumberIsOfItsPair
<1>1. IInv => NumberIsOfItsPair
  <2> SUFFICES ASSUME IInv, pc = "decode", frame_number # NoNumber
               PROVE  LET firsts == {i \in 1 .. Len(paired) : disc[paired[i]].first}
                      IN  /\ ~disc[paired[Len(paired)]].first
                          /\ firsts # {}
                          /\ LET i == CHOOSE i \in firsts : \A j \in firsts : j <= i
                             IN  frame_number = ReadFrame(disc[paired[i]].codes,
                                                 disc[paired[Len(paired)]].codes).number
    BY DEF NumberIsOfItsPair
  <2>1. disc \in Discs /\ paired \in Seq(DOMAIN disc) /\ Len(paired) \in Nat
    BY DEF IInv, TypeOK
  <2>2. PICK i \in 1 .. Len(paired) :
           /\ LastFirst(paired, i)
           /\ ~disc[paired[Len(paired)]].first
           /\ frame_number = Frame[<<disc[paired[i]].codes,
                                     disc[paired[Len(paired)]].codes>>].number
    BY DEF IInv, DecodeSound
  <2> DEFINE firsts == {m \in 1 .. Len(paired) : disc[paired[m]].first}
             chosen == CHOOSE m \in firsts : \A j \in firsts : j <= m
  <2>3. i \in firsts
    BY <2>2 DEF LastFirst
  <2>4. \A j \in firsts : j <= i
    <3> TAKE j \in firsts
    <3>1. j \in 1 .. Len(paired) /\ disc[paired[j]].first
      OBVIOUS
    <3>2. j \notin i + 1 .. Len(paired)
      BY <2>2, <3>1 DEF LastFirst
    <3> QED BY <2>1, <3>1, <3>2
  <2>5. chosen = i
    <3>1. firsts \subseteq Nat
      BY <2>1
    <3> HIDE DEF firsts
    <3>2. \E m \in firsts : \A j \in firsts : j <= m
      BY <2>3, <2>4
    <3>3. chosen \in firsts /\ \A j \in firsts : j <= chosen
      BY <3>2
    <3> HIDE DEF chosen
    <3>4. chosen <= i /\ i <= chosen
      BY <2>3, <2>4, <3>3
    <3> QED BY <2>3, <3>1, <3>3, <3>4
  <2>6. Len(paired) \in 1 .. Len(paired)
    BY <2>1, <2>2
  <2>7. /\ paired[i] \in DOMAIN disc
        /\ paired[Len(paired)] \in DOMAIN disc
    BY <2>1, <2>2, <2>6
  <2>8. disc[paired[i]].codes \in Triples /\ disc[paired[Len(paired)]].codes \in Triples
    BY <2>1, <2>7, OneField
  <2>9. frame_number = ReadFrame(disc[paired[i]].codes,
                                 disc[paired[Len(paired)]].codes).number
    BY <2>2, <2>8, TwoFields
  <2>10. firsts # {}
    BY <2>3
  <2> HIDE DEF chosen, firsts
  <2>11. frame_number = ReadFrame(disc[paired[chosen]].codes,
                                  disc[paired[Len(paired)]].codes).number
    BY <2>5, <2>9
  <2> QED BY <2>2, <2>10, <2>11 DEF chosen, firsts
<1> QED BY <1>1, InitIInv, NextIInv, PTL DEF Spec

\* A number ends a scan: it is of two valid fields that the scan has met one
\* behind the other.
LEMMA HitStep ==
  ASSUME IInv, Found \/ Missed
  PROVE  /\ Len(paired') >= 2
         /\ LET second == paired'[Len(paired')]
                first == paired'[Len(paired') - 1]
            IN  /\ second > first /\ disc[first].valid /\ disc[second].valid
                /\ \A k \in first + 1 .. second - 1 :
                      disc[k].valid => SteppedOver(first, k)
                /\ ReadFrame(disc[first].codes, disc[second].codes).number # NoNumber
<1>1. /\ disc \in Discs /\ position \in Nat /\ target \in Nat
      /\ paired \in Seq(DOMAIN disc) /\ Len(paired) \in Nat
  BY SeekAssumption DEF IInv, TypeOK
<1>2. pc = "scan" /\ Paired /\ Pair.number # NoNumber
  BY <1>1 DEF Found, Missed, Readable, Call, NoNumber
<1>3. /\ Valid /\ scan_prev_linecode # None
      /\ Pair = ReadFrame(scan_prev_linecode, disc[Here].codes)
  BY <1>2, PairTyped
<1>4. PICK second \in DOMAIN disc : second = Here
  BY <1>1, <1>3, MetHere DEF Valid
<1>5. /\ disc[second].start >= position /\ disc[second].valid
      /\ \A j \in DOMAIN disc : j < second => disc[j].start < position
  BY <1>1, <1>3, <1>4, MetHere DEF Valid
<1>6. /\ Len(paired) >= 1 /\ paired[Len(paired)] \in DOMAIN disc
  BY <1>1, <1>2, <1>3 DEF IInv, ScanSound
<1>7. PICK first \in DOMAIN disc : first = paired[Len(paired)]
  BY <1>6
<1>8. /\ disc[first].codes = scan_prev_linecode /\ disc[first].valid
      /\ disc[first].next <= position
      /\ \A k \in DOMAIN disc :
            (k > first /\ disc[k].start < position /\ disc[k].valid) => SteppedOver(first, k)
  BY <1>2, <1>3, <1>7 DEF IInv, ScanSound
<1>9. /\ first \in Nat /\ second \in Nat /\ disc[first].next \in Nat
      /\ disc[first].start \in Nat /\ disc[second].start \in Nat
      /\ disc[first].start < disc[first].next
  BY <1>1, OneField
<1>10. first < second
  <2>1. disc[first].start < disc[second].start
    BY <1>1, <1>5, <1>8, <1>9
  <2> QED BY <1>1, <2>1, FieldOrder
<1>11. ASSUME NEW k \in first + 1 .. second - 1, disc[k].valid
       PROVE  SteppedOver(first, k)
  <2>1. k \in 0 .. second /\ k > first /\ k < second
    BY <1>9
  <2>2. k \in DOMAIN disc
    BY <1>1, <2>1, DiscsAssumption
  <2>3. disc[k].start < position
    BY <1>5, <2>1, <2>2
  <2> QED BY <1>8, <1>11, <2>1, <2>2, <2>3
<1>12. paired' = Append(paired, second)
  BY <1>2, <1>3, <1>4 DEF Paired
<1>13. /\ Len(paired') = Len(paired) + 1 /\ paired'[Len(paired) + 1] = second
       /\ paired'[Len(paired)] = first
  BY <1>1, <1>6, <1>7, <1>12, Appended
<1>14. Len(paired') >= 2 /\ Len(paired') - 1 = Len(paired)
  BY <1>1, <1>6, <1>13
<1>15. ReadFrame(disc[first].codes, disc[second].codes).number # NoNumber
  BY <1>2, <1>3, <1>4, <1>8
<1>16. paired'[Len(paired')] = second /\ paired'[Len(paired') - 1] = first
  BY <1>13, <1>14
<1> QED BY <1>5, <1>8, <1>9, <1>10, <1>11, <1>14, <1>15, <1>16

\* scan_field: what ends a scan with a number is "computed from the previous
\* valid field of this scan, never from state left by an earlier scan".
THEOREM HitAction == Spec => HitIsOfThisScan
<1>1. IInv /\ [Next]_vars =>
         [(Found \/ Missed) =>
             /\ Len(paired') >= 2
             /\ LET second == paired'[Len(paired')]
                    first == paired'[Len(paired') - 1]
                IN  /\ second > first /\ disc[first].valid /\ disc[second].valid
                    /\ \A k \in first + 1 .. second - 1 :
                          disc[k].valid => SteppedOver(first, k)
                    /\ ReadFrame(disc[first].codes, disc[second].codes).number # NoNumber]_vars
  BY HitStep
<1> QED BY <1>1, InitIInv, NextIInv, PTL DEF Spec, HitIsOfThisScan

\* The decoder goes back to the field that completed the number, or to one of the
\* two in front of it.
LEMMA LandStep ==
  ASSUME IInv, Found, AnyField(position')
  PROVE  LET met == CHOOSE k \in DOMAIN disc :
                        /\ disc[k].start >= position'
                        /\ \A j \in 0 .. k - 1 : disc[j].start < position'
         IN  met \in Here - 2 .. Here
<1>1. disc \in Discs /\ position \in Nat /\ target \in Nat
  BY SeekAssumption DEF IInv, TypeOK
<1>2. Valid
  <2>1. Pair.number # NoNumber
    BY <1>1 DEF Found, NoNumber
  <2> QED BY <2>1, PairTyped
<1>3. PICK here \in DOMAIN disc : here = Here
  BY <1>1, <1>2, MetHere DEF Valid
<1>4. /\ here \in Nat /\ disc[here].start >= position /\ disc[here].start \in Nat
      /\ \A j \in DOMAIN disc : j < here => disc[j].start < position
  BY <1>1, <1>2, <1>3, MetHere DEF Valid
<1> DEFINE p == PositionOf(FoundField)
<1>5. position' = p
  BY DEF Found
<1>6. /\ p \in Nat /\ p <= position
      /\ position < p + FieldLen + BlockSize + BlockLen + BlockCut
  <2>1. /\ Readloc \in Nat /\ Readloc <= position
        /\ position < Readloc + BlockSize + BlockLen + BlockCut
    BY <1>1, ReadlocNear
  <2>2. PICK r \in Nat : r = Readloc
    BY <2>1
  <2>3. /\ (r \div FieldLen) * FieldLen \in Nat
        /\ (r \div FieldLen) * FieldLen <= r
        /\ r < (r \div FieldLen) * FieldLen + FieldLen
    <3>1. r \div FieldLen \in Nat
      BY Geometry, Multiples
    <3> QED BY <3>1, Geometry, Multiples
  <2>4. p = (r \div FieldLen) * FieldLen
    BY <2>2 DEF PositionOf, FoundField
  <2> DEFINE q == (r \div FieldLen) * FieldLen
  <2>5. q \in Nat /\ q <= r /\ r < q + FieldLen /\ p = q
    BY <2>3, <2>4
  <2> HIDE DEF q, p
  <2> QED BY <1>1, <2>1, <2>2, <2>5, Geometry
<1> HIDE DEF p
<1>7. PICK met \in DOMAIN disc :
         /\ met \in Nat /\ disc[met].start >= p
         /\ \A j \in DOMAIN disc : j < met => disc[j].start < p
  <2>1. \E k \in DOMAIN disc : disc[k].start >= p
    BY <1>5 DEF AnyField
  <2> QED BY <1>1, <1>6, <2>1, Met
<1>8. \A k \in DOMAIN disc :
         (/\ disc[k].start >= position'
          /\ \A j \in 0 .. k - 1 : disc[j].start < position') => k = met
  <2> TAKE k \in DOMAIN disc
  <2> HAVE /\ disc[k].start >= position'
           /\ \A j \in 0 .. k - 1 : disc[j].start < position'
  <2>1. k \in Nat /\ disc[k].start \in Nat /\ disc[met].start \in Nat
    BY <1>1, OneField
  <2>2. ~(met < k)
    BY <1>5, <1>6, <1>7, <2>1
  <2>3. ~(k < met)
    BY <1>5, <1>6, <1>7, <2>1
  <2> QED BY <1>7, <2>1, <2>2, <2>3
<1>9. \A j \in 0 .. met - 1 : disc[j].start < position'
  <2> TAKE j \in 0 .. met - 1
  <2>1. j \in 0 .. met /\ j < met
    BY <1>7
  <2>2. j \in DOMAIN disc
    BY <1>1, <2>1, DiscsAssumption
  <2> QED BY <1>5, <1>7, <2>1, <2>2
<1>10. met <= here
  <2>1. ~(here < met)
    BY <1>4, <1>6, <1>7, <1>1
  <2> QED BY <1>4, <1>7, <2>1
<1>11. here - 2 <= met
  <2> SUFFICES ASSUME met < here - 2 PROVE FALSE
    BY <1>4, <1>7
  <2>1. {here - 1, here - 2, here - 3} \subseteq 0 .. here
    BY <1>4, <1>7
  <2>2. {here - 1, here - 2, here - 3} \subseteq DOMAIN disc
    BY <1>1, <2>1, DiscsAssumption
  <2> DEFINE s1 == disc[here - 1].start
             s2 == disc[here - 2].start
             s3 == disc[here - 3].start
             far == FieldLen + BlockLen + BlockSize + BlockCut
  <2>3. s1 \in Nat /\ s2 \in Nat /\ s3 \in Nat
    BY <1>1, <2>2, OneField
  <2>4. 2 * (s1 - s2) >= far
    <3>1. here - 1 > 0 /\ here - 1 - 1 = here - 2
      BY <1>4, <1>7
    <3> QED BY <1>1, <2>2, <3>1, SpacingAssumption
  <2>5. 2 * (s2 - s3) >= far
    <3>1. here - 2 > 0 /\ here - 2 - 1 = here - 3
      BY <1>4, <1>7
    <3> QED BY <1>1, <2>2, <3>1, SpacingAssumption
  <2>6. s1 < position
    <3>1. here - 1 < here
      BY <1>4
    <3> QED BY <1>4, <2>2, <3>1
  <2>7. disc[met].start <= s3
    <3>1. met = here - 3 \/ met < here - 3
      BY <1>4, <1>7
    <3>2. CASE met < here - 3
      <4>1. disc[met].start < s3
        BY <1>1, <2>2, <3>2, FieldOrder
      <4>2. disc[met].start \in Nat
        BY <1>1, OneField
      <4> HIDE DEF s3
      <4> QED BY <2>3, <4>1, <4>2
    <3>3. CASE met = here - 3
      BY <2>3, <3>3
    <3> QED BY <3>1, <3>2, <3>3
  <2>8. disc[met].start \in Nat /\ disc[met].start >= p
    BY <1>1, <1>7, OneField
  <2>9. far \in Nat /\ position < p + far
    BY <1>1, <1>6, Geometry
  <2> HIDE DEF s1, s2, s3, far
  <2> QED BY <1>1, <1>6, <2>3, <2>4, <2>5, <2>6, <2>7, <2>8, <2>9
<1> DEFINE chosen == CHOOSE k \in DOMAIN disc :
                        /\ disc[k].start >= position'
                        /\ \A j \in 0 .. k - 1 : disc[j].start < position'
<1>12. chosen = met
  <2>1. disc[met].start >= position'
    BY <1>5, <1>7
  <2> QED BY <1>8, <1>9, <2>1
<1> HIDE DEF chosen
<1>13. chosen \in Here - 2 .. Here
  BY <1>3, <1>4, <1>7, <1>10, <1>11, <1>12
<1> QED BY <1>13 DEF chosen

\* A seek that succeeds puts the decode no further than two fields in front of the
\* field that completed the number, and never behind it, whatever the sizes of
\* blocks and fields.  Whether the frame's first field is still in front is not
\* said: it may be lost.
THEOREM TargetAction == Spec => LandsByHit
<1>1. IInv /\ [Next]_vars =>
         [(Found /\ AnyField(position')) =>
             LET met == CHOOSE k \in DOMAIN disc :
                            /\ disc[k].start >= position'
                            /\ \A j \in 0 .. k - 1 : disc[j].start < position'
             IN  met \in Here - 2 .. Here]_vars
  BY LandStep
<1> QED BY <1>1, InitIInv, NextIInv, PTL DEF Spec, LandsByHit
=============================================================================
