---------------------------- MODULE StartupProof ----------------------------
(***************************************************************************)
(* What main() keeps to, and what comes through stdin, for every capture,  *)
(* every choice of options and every size of the blocks, the queue and the *)
(* pipes.                                                                  *)
(*                                                                         *)
(* PipeDelivers rests on where every byte is: between what the reader has  *)
(* delivered and the next byte of stdin lie, in this order, the block in   *)
(* the reader's hand, the queue and the block in the thread's hands, with  *)
(* nothing left out between them (PipeSound).  OpensWhatItHolds rests on   *)
(* the source and the rate being those of open_input (Opened), and on the  *)
(* first of the marks with a rate.  RefusedUntouched rests on which stages *)
(* the acceptance and the first file have been passed at (FilesSound), and *)
(* JsonOfDecoded on the stages behind the creation of the JSON file        *)
(* (JsonSound).                                                            *)
(***************************************************************************)
EXTENDS Startup, SequenceTheorems, WellFoundedInduction, TLAPS

-----------------------------------------------------------------------------
(* Runs of bytes.                                                          *)

\* Upto(i, n) holds the n bytes from i on.
LEMMA UptoTyped ==
  ASSUME NEW i \in Nat, NEW n \in Nat
  PROVE  /\ Upto(i, n) \in Seq(Nat)
         /\ Len(Upto(i, n)) = n
         /\ DOMAIN Upto(i, n) = 1 .. n
         /\ \A k \in 1 .. n : Upto(i, n)[k] = i + k - 1
<1>1. \A k \in 1 .. n : i + k - 1 \in Nat
  OBVIOUS
<1> QED BY <1>1 DEF Upto

\* A sequence is a run as soon as it has its length and its bytes.
LEMMA UptoIs ==
  ASSUME NEW s, s \in Seq(Nat), NEW i \in Nat, NEW n \in Nat, Len(s) = n,
         \A k \in 1 .. n : s[k] = i + k - 1
  PROVE  s = Upto(i, n)
<1>1. s = [k \in 1 .. Len(s) |-> s[k]]
  OBVIOUS
<1> QED BY <1>1 DEF Upto

\* A run goes on where it ends.
LEMMA UptoJoins ==
  ASSUME NEW i \in Nat, NEW m \in Nat, NEW n \in Nat
  PROVE  Upto(i, m) \o Upto(i + m, n) = Upto(i, m + n)
<1>0. i + m \in Nat /\ m + n \in Nat
  OBVIOUS
<1>1. PICK a : a = Upto(i, m)
  OBVIOUS
<1>2. PICK b : b = Upto(i + m, n)
  OBVIOUS
<1>3. a \in Seq(Nat) /\ Len(a) = m
  BY <1>1, UptoTyped
<1>4. \A k \in 1 .. m : a[k] = i + k - 1
  BY <1>1, UptoTyped
<1>5. b \in Seq(Nat) /\ Len(b) = n
  BY <1>0, <1>2, UptoTyped
<1>6. \A k \in 1 .. n : b[k] = i + m + k - 1
  BY <1>0, <1>2, UptoTyped
<1>7. a \o b \in Seq(Nat) /\ Len(a \o b) = m + n
  BY <1>3, <1>5, ConcatProperties
<1>8. ASSUME NEW k \in 1 .. m + n
      PROVE  (a \o b)[k] = i + k - 1
  <2>0. (a \o b)[k] = IF k <= m THEN a[k] ELSE b[k - m]
    BY <1>3, <1>5, ConcatProperties
  <2>1. CASE k <= m
    BY <2>0, <2>1, <1>4
  <2>2. CASE k > m
    <3>1. k - m \in 1 .. n /\ i + m + (k - m) - 1 = i + k - 1
      BY <2>2
    <3>2. b[k - m] = i + m + (k - m) - 1
      BY <3>1, <1>6
    <3> QED BY <3>1, <3>2, <2>0, <2>2
  <2>3. k <= m \/ k > m
    OBVIOUS
  <2> QED BY <2>1, <2>2, <2>3
<1>9. a \o b = Upto(i, m + n)
  BY <1>0, <1>7, <1>8, UptoIs
<1> QED BY <1>1, <1>2, <1>9

\* The next byte lengthens a run.
LEMMA UptoGrows ==
  ASSUME NEW i \in Nat, NEW n \in Nat
  PROVE  Append(Upto(i, n), i + n) = Upto(i, n + 1)
<1>1. i + n \in Nat /\ n + 1 \in Nat
  OBVIOUS
<1>2. PICK a : a = Upto(i, n)
  OBVIOUS
<1>3. a \in Seq(Nat) /\ Len(a) = n
  BY <1>2, UptoTyped
<1>4. \A k \in 1 .. n : a[k] = i + k - 1
  BY <1>2, UptoTyped
<1>5. Append(a, i + n) \in Seq(Nat) /\ Len(Append(a, i + n)) = n + 1
  BY <1>1, <1>3
<1>6. ASSUME NEW k \in 1 .. n + 1
      PROVE  Append(a, i + n)[k] = i + k - 1
  <2>1. CASE k = n + 1
    BY <1>1, <1>3, <2>1
  <2>2. CASE k \in 1 .. n
    <3>1. Append(a, i + n)[k] = a[k]
      BY <1>1, <1>3, <2>2
    <3> QED BY <3>1, <2>2, <1>4
  <2>3. k = n + 1 \/ k \in 1 .. n
    OBVIOUS
  <2> QED BY <2>1, <2>2, <2>3
<1>7. Append(a, i + n) = Upto(i, n + 1)
  BY <1>1, <1>5, <1>6, UptoIs
<1> QED BY <1>2, <1>7

\* Without its first bytes it is the run behind them, and they are a run.
LEMMA UptoSplits ==
  ASSUME NEW i \in Nat, NEW n \in Nat, NEW m \in 1 .. n
  PROVE  /\ SubSeq(Upto(i, n), 1, m) = Upto(i, m)
         /\ SubSeq(Upto(i, n), m + 1, n) = Upto(i + m, n - m)
<1>0. m \in Nat /\ n - m \in Nat /\ i + m \in Nat
  OBVIOUS
<1>1. PICK a : a = Upto(i, n)
  OBVIOUS
<1>2. a \in Seq(Nat) /\ Len(a) = n
  BY <1>1, UptoTyped
<1>3. \A k \in 1 .. n : a[k] = i + k - 1
  BY <1>1, UptoTyped
<1>4. SubSeq(a, 1, m) = Upto(i, m)
  <2>1. SubSeq(a, 1, m) \in Seq(Nat) /\ Len(SubSeq(a, 1, m)) = m
    BY <1>2
  <2>2. \A k \in 1 .. m : SubSeq(a, 1, m)[k] = a[k]
    BY <1>2
  <2>3. \A k \in 1 .. m : SubSeq(a, 1, m)[k] = i + k - 1
    BY <2>2, <1>3
  <2> QED BY <1>0, <2>1, <2>3, UptoIs
<1>5. SubSeq(a, m + 1, n) = Upto(i + m, n - m)
  <2>1. SubSeq(a, m + 1, n) \in Seq(Nat) /\ Len(SubSeq(a, m + 1, n)) = n - m
    BY <1>2
  <2>2. ASSUME NEW k \in 1 .. n - m
        PROVE  SubSeq(a, m + 1, n)[k] = i + m + k - 1
    <3>1. SubSeq(a, m + 1, n)[k] = a[k + m]
      BY <1>2
    <3>2. k + m \in 1 .. n /\ i + (k + m) - 1 = i + m + k - 1
      OBVIOUS
    <3> QED BY <3>1, <3>2, <1>3
  <2> QED BY <1>0, <2>1, <2>2, UptoIs
<1> QED BY <1>1, <1>4, <1>5

\* Its first byte, and the rest.
LEMMA UptoHeads ==
  ASSUME NEW i \in Nat, NEW n \in Nat, Upto(i, n) # << >>
  PROVE  /\ n > 0
         /\ Head(Upto(i, n)) = i
         /\ Tail(Upto(i, n)) = Upto(i + 1, n - 1)
<1>1. /\ Upto(i, n) \in Seq(Nat) /\ Len(Upto(i, n)) = n
      /\ \A k \in 1 .. n : Upto(i, n)[k] = i + k - 1
  BY UptoTyped
<1>2. n > 0
  BY <1>1
<1>3. Tail(Upto(i, n)) = SubSeq(Upto(i, n), 2, n)
  BY <1>1
<1>4. Head(Upto(i, n)) = i
  <2>1. Head(Upto(i, n)) = Upto(i, n)[1]
    BY <1>1, <1>2
  <2> QED BY <1>1, <1>2, <2>1
<1>5. Tail(Upto(i, n)) = Upto(i + 1, n - 1)
  <2>1. 1 \in 1 .. n
    BY <1>2
  <2>2. SubSeq(Upto(i, n), 1 + 1, n) = Upto(i + 1, n - 1)
    BY <2>1, UptoSplits
  <2> QED BY <2>2, <1>3
<1> QED BY <1>2, <1>4, <1>5

-----------------------------------------------------------------------------
(* Blocks of the stream, in a queue.                                       *)

Blocks == Seq(Nat)

\* A block of the stream, and the byte behind it.
IsPiece(b) == Len(b) > 0 /\ b[1] > 0 /\ b = Upto(b[1], Len(b))
Behind(b) == b[1] + Len(b)

\* A queue of blocks of the stream, one behind the other, from the byte `front`
\* on; an error can only be the last.
Chained(q, front) ==
    /\ \A i \in 1 .. Len(q) : IsPiece(q[i]) \/ (q[i] = ErrorBlock /\ i = Len(q))
    /\ \A i \in 1 .. Len(q) - 1 : q[i + 1] # ErrorBlock => q[i + 1][1] = Behind(q[i])
    /\ q # << >> /\ q[1] # ErrorBlock => q[1][1] = front
ErrorIn(q) == q # << >> /\ q[Len(q)] = ErrorBlock

\* The byte behind a queue without an error.
EndOf(q, front) == IF q = << >> THEN front ELSE Behind(q[Len(q)])

LEMMA PieceTyped ==
  ASSUME NEW b \in Blocks, IsPiece(b)
  PROVE  /\ Len(b) \in Nat \ {0} /\ b[1] \in Nat \ {0} /\ Behind(b) \in Nat
         /\ b # ErrorBlock /\ b # << >>
<1>1. Len(b) \in Nat /\ Len(b) > 0 /\ b[1] > 0
  BY DEF IsPiece, Blocks
<1>2. b[1] \in Nat
  BY <1>1 DEF Blocks
<1>3. b # ErrorBlock
  <2>1. ErrorBlock[1] = 0
    BY DEF ErrorBlock
  <2> QED BY <2>1, <1>1
<1>4. b # << >>
  BY <1>1
<1> QED BY <1>1, <1>2, <1>3, <1>4 DEF Behind

LEMMA ErrorTyped == ErrorBlock \in Blocks /\ Len(ErrorBlock) = 1 /\ ErrorBlock # << >>
BY DEF ErrorBlock, Blocks

\* A run of bytes is a block.
LEMMA UptoPiece ==
  ASSUME NEW i \in Nat \ {0}, NEW n \in Nat \ {0}
  PROVE  /\ IsPiece(Upto(i, n)) /\ Upto(i, n) \in Blocks
         /\ Upto(i, n)[1] = i /\ Len(Upto(i, n)) = n /\ Behind(Upto(i, n)) = i + n
<1>1. Upto(i, n) \in Seq(Nat) /\ Len(Upto(i, n)) = n
  BY UptoTyped
<1>2. Upto(i, n)[1] = i
  <2>1. 1 \in 1 .. n /\ i + 1 - 1 = i
    OBVIOUS
  <2> QED BY <2>1, UptoTyped
<1> QED BY <1>1, <1>2 DEF IsPiece, Behind, Blocks

\* What is read behind a block makes it longer.
LEMMA PieceGrows ==
  ASSUME NEW b \in Blocks, IsPiece(b), NEW n \in Nat \ {0}
  PROVE  LET c == b \o Upto(Behind(b), n)
         IN  /\ IsPiece(c) /\ c \in Blocks
             /\ c[1] = b[1] /\ Len(c) = Len(b) + n /\ Behind(c) = Behind(b) + n
<1>1. Len(b) \in Nat \ {0} /\ b[1] \in Nat \ {0}
  BY PieceTyped
<1>2. PICK i \in Nat \ {0} : i = b[1]
  BY <1>1
<1>3. PICK m \in Nat \ {0} : m = Len(b)
  BY <1>1
<1>4. b = Upto(i, m) /\ Behind(b) = i + m
  BY <1>2, <1>3 DEF IsPiece, Behind
<1>5. b \o Upto(Behind(b), n) = Upto(i, m + n)
  <2>1. Upto(i, m) \o Upto(i + m, n) = Upto(i, m + n)
    BY UptoJoins
  <2>2. Behind(b) = i + m /\ b = Upto(i, m)
    BY <1>4
  <2> QED BY ONLY <2>1, <2>2
<1>6. PICK k \in Nat \ {0} : k = m + n
  OBVIOUS
<1>7. /\ IsPiece(Upto(i, k)) /\ Upto(i, k) \in Blocks
      /\ Upto(i, k)[1] = i /\ Len(Upto(i, k)) = k /\ Behind(Upto(i, k)) = i + k
  BY UptoPiece
<1>8. i + k = Behind(b) + n
  BY <1>4, <1>6
<1>9. b \o Upto(Behind(b), n) = Upto(i, k)
  BY <1>5, <1>6
<1> QED BY <1>2, <1>3, <1>6, <1>7, <1>8, <1>9

\* A block that begins where the queue ends may be queued.
LEMMA ChainGrows ==
  ASSUME NEW q \in Seq(Blocks), NEW front \in Nat, Chained(q, front), ~ErrorIn(q),
         NEW b \in Blocks, IsPiece(b), b[1] = EndOf(q, front)
  PROVE  LET r == Append(q, b)
         IN  /\ r \in Seq(Blocks) /\ Len(r) = Len(q) + 1
             /\ Chained(r, front) /\ ~ErrorIn(r) /\ EndOf(r, front) = Behind(b)
<1>1. PICK r : r = Append(q, b)
  OBVIOUS
<1>2. PICK n \in Nat : n = Len(q)
  OBVIOUS
<1>3. r \in Seq(Blocks) /\ Len(r) = n + 1
  BY <1>1, <1>2
<1>4. r[n + 1] = b
  BY <1>1, <1>2
<1>5. \A i \in 1 .. n : r[i] = q[i]
  BY <1>1, <1>2
<1>6. b # ErrorBlock
  BY PieceTyped
<1>7. \A i \in 1 .. n : IsPiece(q[i])
  BY <1>2 DEF Chained, ErrorIn
<1>8. ASSUME NEW i \in 1 .. n + 1
      PROVE  IsPiece(r[i])
  <2>1. i \in 1 .. n \/ i = n + 1
    OBVIOUS
  <2> QED BY <2>1, <1>4, <1>5, <1>7
<1>9. ASSUME NEW i \in 1 .. (n + 1) - 1, r[i + 1] # ErrorBlock
      PROVE  r[i + 1][1] = Behind(r[i])
  <2>1. CASE i = n
    <3>1. q # << >>
      BY <2>1, <1>2
    <3>2. b[1] = Behind(q[n])
      BY <3>1, <1>2 DEF EndOf
    <3>3. r[i] = q[n] /\ r[i + 1] = b
      BY <2>1, <1>4, <1>5
    <3> QED BY <3>2, <3>3
  <2>2. CASE i # n
    <3>1. i \in 1 .. n - 1 /\ i \in 1 .. n /\ i + 1 \in 1 .. n
      BY <2>2
    <3>2. r[i] = q[i] /\ r[i + 1] = q[i + 1]
      BY <3>1, <1>5
    <3>3. q[i + 1][1] = Behind(q[i])
      BY <3>1, <3>2, <1>2, <1>9 DEF Chained
    <3> QED BY <3>2, <3>3
  <2> QED BY <2>1, <2>2
<1>10. ASSUME r[1] # ErrorBlock
       PROVE  r[1][1] = front
  <2>1. CASE q = << >>
    <3>1. n = 0
      BY <2>1, <1>2
    <3> QED BY <2>1, <3>1, <1>4 DEF EndOf
  <2>2. CASE q # << >>
    <3>1. r[1] = q[1]
      BY <2>2, <1>2, <1>5
    <3> QED BY <2>2, <3>1, <1>10 DEF Chained
  <2> QED BY <2>1, <2>2
<1>11. Chained(r, front)
  BY <1>3, <1>8, <1>9, <1>10 DEF Chained
<1>12. ~ErrorIn(r)
  BY <1>3, <1>4, <1>6 DEF ErrorIn
<1>13. EndOf(r, front) = Behind(b)
  BY <1>3, <1>4 DEF EndOf
<1> QED BY <1>1, <1>2, <1>3, <1>11, <1>12, <1>13

\* An error may be queued behind anything but an error.
LEMMA ChainBreaks ==
  ASSUME NEW q \in Seq(Blocks), NEW front \in Nat, Chained(q, front), ~ErrorIn(q)
  PROVE  LET r == Append(q, ErrorBlock)
         IN  /\ r \in Seq(Blocks) /\ Len(r) = Len(q) + 1
             /\ Chained(r, front) /\ ErrorIn(r)
<1>1. PICK r : r = Append(q, ErrorBlock)
  OBVIOUS
<1>2. PICK n \in Nat : n = Len(q)
  OBVIOUS
<1>3. r \in Seq(Blocks) /\ Len(r) = n + 1
  BY <1>1, <1>2, ErrorTyped
<1>4. r[n + 1] = ErrorBlock
  BY <1>1, <1>2, ErrorTyped
<1>5. \A i \in 1 .. n : r[i] = q[i]
  BY <1>1, <1>2, ErrorTyped
<1>6. \A i \in 1 .. n : IsPiece(q[i])
  BY <1>2 DEF Chained, ErrorIn
<1>7. ASSUME NEW i \in 1 .. n + 1
      PROVE  IsPiece(r[i]) \/ (r[i] = ErrorBlock /\ i = n + 1)
  <2>1. i \in 1 .. n \/ i = n + 1
    OBVIOUS
  <2> QED BY <2>1, <1>4, <1>5, <1>6
<1>8. ASSUME NEW i \in 1 .. (n + 1) - 1, r[i + 1] # ErrorBlock
      PROVE  r[i + 1][1] = Behind(r[i])
  <2>1. i # n
    BY <1>4, <1>8
  <2>2. i \in 1 .. n - 1 /\ i \in 1 .. n /\ i + 1 \in 1 .. n
    BY <2>1
  <2>3. r[i] = q[i] /\ r[i + 1] = q[i + 1]
    BY <2>2, <1>5
  <2>4. q[i + 1][1] = Behind(q[i])
    BY <2>2, <2>3, <1>2, <1>8 DEF Chained
  <2> QED BY <2>3, <2>4
<1>9. ASSUME r[1] # ErrorBlock
      PROVE  r[1][1] = front
  <2>1. q # << >>
    BY <1>2, <1>4, <1>9
  <2>2. r[1] = q[1]
    BY <2>1, <1>2, <1>5
  <2> QED BY <2>1, <2>2, <1>9 DEF Chained
<1>10. Chained(r, front)
  BY <1>3, <1>7, <1>8, <1>9 DEF Chained
<1>11. ErrorIn(r)
  BY <1>3, <1>4 DEF ErrorIn
<1> QED BY <1>1, <1>2, <1>3, <1>10, <1>11

\* Without its first block a queue is the queue behind that block.
LEMMA ChainShrinks ==
  ASSUME NEW q \in Seq(Blocks), NEW front \in Nat, Chained(q, front),
         q # << >>, Head(q) # ErrorBlock
  PROVE  /\ Head(q) \in Blocks /\ IsPiece(Head(q)) /\ Head(q)[1] = front
         /\ Tail(q) \in Seq(Blocks) /\ Len(Tail(q)) = Len(q) - 1
         /\ Chained(Tail(q), Behind(Head(q)))
         /\ ErrorIn(Tail(q)) <=> ErrorIn(q)
         /\ ~ErrorIn(q) => EndOf(Tail(q), Behind(Head(q))) = EndOf(q, front)
<1>1. PICK r : r = Tail(q)
  OBVIOUS
<1>2. PICK n \in Nat : n = Len(q)
  OBVIOUS
<1>3. n > 0 /\ Head(q) = q[1] /\ 1 \in 1 .. n
  BY <1>2
<1>4. r \in Seq(Blocks) /\ Len(r) = n - 1 /\ n - 1 \in Nat
  BY <1>1, <1>2, <1>3
<1>5. \A i \in 1 .. n - 1 : r[i] = q[i + 1]
  BY <1>1, <1>2
<1>6. IsPiece(q[1]) /\ q[1] \in Blocks
  BY <1>2, <1>3 DEF Chained
<1>7. ASSUME NEW i \in 1 .. n - 1
      PROVE  IsPiece(r[i]) \/ (r[i] = ErrorBlock /\ i = n - 1)
  <2>1. i + 1 \in 1 .. n /\ (i + 1 = n => i = n - 1)
    OBVIOUS
  <2>2. IsPiece(q[i + 1]) \/ (q[i + 1] = ErrorBlock /\ i + 1 = n)
    BY <2>1, <1>2 DEF Chained
  <2> QED BY <2>1, <2>2, <1>5
<1>8. ASSUME NEW i \in 1 .. (n - 1) - 1, r[i + 1] # ErrorBlock
      PROVE  r[i + 1][1] = Behind(r[i])
  <2>1. i + 1 \in 1 .. n - 1 /\ i \in 1 .. n - 1
    OBVIOUS
  <2>2. r[i] = q[i + 1] /\ r[i + 1] = q[(i + 1) + 1]
    BY <2>1, <1>5
  <2>3. q[(i + 1) + 1][1] = Behind(q[i + 1])
    BY <2>1, <2>2, <1>2, <1>8 DEF Chained
  <2> QED BY <2>2, <2>3
<1>9. ASSUME r # << >>, r[1] # ErrorBlock
      PROVE  r[1][1] = Behind(q[1])
  <2>1. 1 \in 1 .. n - 1
    BY <1>4, <1>9
  <2>2. r[1] = q[1 + 1]
    BY <2>1, <1>5
  <2>3. q[1 + 1][1] = Behind(q[1])
    BY <2>1, <2>2, <1>2, <1>9 DEF Chained
  <2> QED BY <2>2, <2>3
<1>10. Chained(r, Behind(q[1]))
  BY <1>4, <1>7, <1>8, <1>9 DEF Chained
<1>11. r # << >> => r[n - 1] = q[n]
  <2> SUFFICES ASSUME r # << >> PROVE r[n - 1] = q[n]
    OBVIOUS
  <2>1. n - 1 \in 1 .. n - 1 /\ (n - 1) + 1 = n
    BY <1>4
  <2>2. r[n - 1] = q[(n - 1) + 1]
    BY <2>1, <1>5
  <2> QED BY <2>1, <2>2
<1>12. r = << >> => n = 1
  BY <1>4
<1>13. ErrorIn(r) <=> ErrorIn(q)
  BY <1>2, <1>3, <1>4, <1>11, <1>12 DEF ErrorIn
<1>14. EndOf(r, Behind(q[1])) = EndOf(q, front)
  BY <1>2, <1>4, <1>11, <1>12 DEF EndOf
<1>15. q[1][1] = front
  BY <1>3 DEF Chained
<1> QED BY <1>1, <1>2, <1>3, <1>4, <1>6, <1>10, <1>13, <1>14, <1>15

-----------------------------------------------------------------------------
(* Where the bytes are.                                                    *)

\* The first byte the queue of the drain holds.
Front == Len(taken) + Len(current) + 1

\* The thread has a block in hands that begins where the queue ends, and ends at
\* the next byte of stdin.
BlockFollows == IsPiece(block) /\ block[1] = EndOf(queue, Front) /\ at = Behind(block)

\* Where the thread of the drain stands, while the reader listens.
FeederStands ==
    /\ feeder \in {"runs", "sends", "over"}
    /\ feeder = "runs" =>
           \/ block = << >> /\ at = EndOf(queue, Front)
           \/ BlockFollows /\ Len(block) < DrainBlock
    /\ feeder = "sends" =>
           block = ErrorBlock \/ (BlockFollows /\ (Len(block) = DrainBlock \/ wire = "closed"))
    /\ feeder = "over" =>
           ErrorIn(queue) \/ (wire = "closed" /\ EndOf(queue, Front) = Bytes + 1)

Listening ==
    /\ Chained(queue, Front)
    /\ ErrorIn(queue) => feeder = "over"
    /\ FeederStands

DrainSound ==
    /\ queue \in Seq(Blocks) /\ Len(queue) <= DrainQueue
    /\ block \in Blocks /\ current \in Blocks /\ outpipe = << >> /\ child = "none"
    /\ current = Upto(Len(taken) + 1, Len(current))
    /\ met = "more" => Listening
    /\ met = "eof" => wire = "closed" /\ Len(taken) = Bytes

\* On the way through the child the pipes hold the bytes themselves.
ChildSound ==
    /\ queue \in Seq(Nat) /\ outpipe \in Seq(Nat) /\ block \in Seq(Nat)
    /\ Len(queue) <= PipeCap /\ Len(outpipe) <= PipeCap
    /\ outpipe = Upto(Len(taken) + 1, Len(outpipe))
    /\ queue = Upto(Len(taken) + Len(outpipe) + 1, Len(queue))
    /\ block = Upto(Len(taken) + Len(outpipe) + Len(queue) + 1, Len(block))
    /\ at = Len(taken) + Len(outpipe) + Len(queue) + Len(block) + 1

Untouched ==
    /\ at = 1 /\ taken = << >> /\ current = << >> /\ queue = << >> /\ block = << >>
    /\ outpipe = << >> /\ feeder = "idle" /\ child = "none" /\ met = "more"

PipeTyped ==
    /\ at \in 1 .. Bytes + 1
    /\ wire \in {"open", "closed", "broken"}
    /\ wire = "closed" => at = Bytes + 1
    /\ taken \in Seq(Nat) /\ taken = Upto(1, Len(taken))

\* The inductive invariant of the pipe.
PipeSound ==
    /\ PipeTyped
    /\ \/ route = "none" /\ Untouched
       \/ route = "drain" /\ DrainSound
       \/ route = "child" /\ ChildSound

LEMMA Sizes ==
  /\ Bytes \in Nat
  /\ DrainBlock \in Nat \ {0} /\ DrainQueue \in Nat \ {0}
  /\ PipeCap \in Nat \ {0} /\ ProbeWindow \in Nat \ {0}
BY StdinAssumption

LEMMA PipeStarts == PipeInit => PipeSound
<1> SUFFICES ASSUME PipeInit PROVE PipeSound
  OBVIOUS
<1>1. taken = Upto(1, Len(taken))
  BY UptoTyped DEF PipeInit, Upto
<1> QED BY <1>1, Sizes DEF PipeInit, PipeSound, PipeTyped, Untouched

\* What PipeSound says of a step on the way it is about.
LEMMA OnDrain ==
  ASSUME PipeSound, route = "drain"
  PROVE  PipeTyped /\ DrainSound
BY DEF PipeSound

LEMMA OnChild ==
  ASSUME PipeSound, route = "child"
  PROVE  PipeTyped /\ ChildSound
BY DEF PipeSound

LEMMA SpawnDrainSound ==
  ASSUME PipeSound, SpawnDrain
  PROVE  PipeSound'
<1>1. PipeTyped /\ Untouched
  BY DEF PipeSound, SpawnDrain
<1>2. /\ route' = "drain" /\ feeder' = "runs"
      /\ UNCHANGED <<at, wire, block, queue, child, outpipe, current, taken, met>>
  BY DEF SpawnDrain
<1>3. PipeTyped'
  BY <1>1, <1>2 DEF PipeTyped
<1>4. << >> \in Seq(Blocks) /\ << >> \in Blocks /\ Len(<< >>) = 0 /\ << >> = Upto(1, 0)
  BY DEF Blocks, Upto
<1>5. current' = Upto(Len(taken') + 1, Len(current'))
  BY <1>1, <1>2, <1>4 DEF Untouched
<1>6. Front' = 1 /\ queue' = << >> /\ block' = << >> /\ at' = 1
  BY <1>1, <1>2, <1>4 DEF Untouched, Front
<1>7. Listening'
  BY <1>2, <1>4, <1>6 DEF Listening, Chained, ErrorIn, FeederStands, EndOf
<1>8. DrainSound'
  BY <1>1, <1>2, <1>4, <1>5, <1>6, <1>7, Sizes DEF Untouched, DrainSound
<1> QED BY <1>2, <1>3, <1>8 DEF PipeSound

LEMMA SpawnChildSound ==
  ASSUME PipeSound, SpawnChild
  PROVE  PipeSound'
<1>1. PipeTyped /\ Untouched
  BY DEF PipeSound, SpawnChild
<1>2. /\ route' = "child" /\ wire = "open" /\ at' = ProbedHead + 1 /\ block' = Upto(1, ProbedHead)
      /\ UNCHANGED <<wire, queue, outpipe, current, taken, met>>
  BY DEF SpawnChild
<1>3. ProbedHead \in Nat /\ ProbedHead <= Bytes
  BY Sizes DEF ProbedHead
<1>4. PipeTyped'
  BY <1>1, <1>2, <1>3, Sizes DEF PipeTyped
<1>5. << >> \in Seq(Nat) /\ Len(<< >>) = 0 /\ << >> = Upto(1, 0)
  BY DEF Upto
<1>6. Upto(1, ProbedHead) \in Seq(Nat) /\ Len(Upto(1, ProbedHead)) = ProbedHead
  BY <1>3, UptoTyped
<1>7. ChildSound'
  BY <1>1, <1>2, <1>3, <1>5, <1>6, Sizes DEF Untouched, ChildSound
<1> QED BY <1>2, <1>4, <1>7 DEF PipeSound

LEMMA WireSound ==
  ASSUME PipeSound, WireCloses \/ WireBreaks
  PROVE  PipeSound'
<1>1. /\ wire = "open" /\ wire' \in {"closed", "broken"}
      /\ wire' = "closed" => at > Bytes
      /\ UNCHANGED <<route, at, feeder, block, queue, child, outpipe, current, taken, met>>
  BY DEF WireCloses, WireBreaks
<1>2. PipeTyped'
  BY <1>1, Sizes DEF PipeSound, PipeTyped
<1>3. Untouched => Untouched'
  BY <1>1 DEF Untouched
<1>4. ChildSound => ChildSound'
  BY <1>1 DEF ChildSound
<1>5. ASSUME DrainSound PROVE DrainSound'
  <2>1. Front' = Front /\ EndOf(queue', Front') = EndOf(queue, Front)
    BY <1>1 DEF Front
  <2>2. BlockFollows' <=> BlockFollows
    BY <1>1, <2>1 DEF BlockFollows
  <2>3. met = "more" => Listening'
    BY <1>1, <1>5, <2>1, <2>2 DEF DrainSound, Listening, FeederStands
  <2> QED BY <1>1, <1>5, <2>3 DEF DrainSound
<1> QED BY <1>1, <1>2, <1>3, <1>4, <1>5 DEF PipeSound

-----------------------------------------------------------------------------
(* The steps of the drain.                                                 *)

\* What stays as it is when neither the reader nor the queue moves.
LEMMA EndStays ==
  ASSUME UNCHANGED <<queue, current, taken>>
  PROVE  Front' = Front /\ EndOf(queue, Front)' = EndOf(queue, Front)
BY DEF Front, EndOf, Behind

LEMMA FrontTyped ==
  ASSUME PipeTyped, DrainSound
  PROVE  Front \in Nat \ {0} /\ Len(taken) \in Nat /\ Len(current) \in Nat
BY DEF PipeTyped, DrainSound, Front, Blocks

LEMMA DrainFillSound ==
  ASSUME PipeSound, NEW n \in 1 .. DrainBlock, DrainFill(n)
  PROVE  PipeSound'
<1>1. /\ route = "drain" /\ feeder = "runs" /\ Len(block) + n <= DrainBlock
      /\ wire = "open" /\ at + n <= Bytes + 1 /\ at' = at + n
      /\ block' = block \o Upto(at, n)
      /\ feeder' = IF Len(block') = DrainBlock THEN "sends" ELSE "runs"
      /\ UNCHANGED <<route, wire, queue, child, outpipe, current, taken, met>>
  BY DEF DrainFill, Reads
<1>2. PipeTyped /\ DrainSound
  BY <1>1, OnDrain
<1>3. n \in Nat \ {0} /\ at \in Nat \ {0} /\ at' \in 1 .. Bytes + 1
  BY <1>1, <1>2, Sizes DEF PipeTyped
<1>4. PipeTyped'
  BY <1>1, <1>2, <1>3 DEF PipeTyped
<1>5. Front' = Front /\ EndOf(queue, Front)' = EndOf(queue, Front)
  BY <1>1, EndStays
<1>6. /\ block' \in Blocks
      /\ Listening => /\ IsPiece(block') /\ block'[1] = EndOf(queue, Front)
                      /\ at' = Behind(block') /\ Len(block') = Len(block) + n
  <2>1. CASE block = << >>
    <3>1. block' = Upto(at, n)
      <4>1. << >> \o Upto(at, n) = Upto(at, n)
        BY <1>3, UptoTyped, ConcatEmptySeq
      <4> QED BY <4>1, <2>1, <1>1
    <3>2. ~BlockFollows
      BY <2>1 DEF BlockFollows, IsPiece
    <3>3. Listening => at = EndOf(queue, Front)
      BY <3>2, <1>1 DEF Listening, FeederStands
    <3>4. Len(block) = 0
      BY <2>1
    <3>5. /\ IsPiece(Upto(at, n)) /\ Upto(at, n) \in Blocks
          /\ Upto(at, n)[1] = at /\ Len(Upto(at, n)) = n /\ Behind(Upto(at, n)) = at + n
      BY <1>3, UptoPiece
    <3> QED BY <3>1, <3>3, <3>4, <3>5, <1>1, <1>3
  <2>2. CASE block # << >>
    <3>1. block' \in Blocks
      BY <1>1, <1>2, <1>3, UptoTyped DEF DrainSound, Blocks
    <3>2. ASSUME Listening
          PROVE  /\ IsPiece(block') /\ block'[1] = EndOf(queue, Front)
                 /\ at' = Behind(block') /\ Len(block') = Len(block) + n
      <4>1. BlockFollows
        BY <2>2, <3>2, <1>1 DEF Listening, FeederStands
      <4>2. IsPiece(block) /\ block[1] = EndOf(queue, Front) /\ at = Behind(block) /\ block \in Blocks
        BY <4>1, <1>2 DEF BlockFollows, DrainSound
      <4>3. block' = block \o Upto(Behind(block), n)
        BY <4>2, <1>1
      <4>4. PICK c : c = block \o Upto(Behind(block), n)
        OBVIOUS
      <4>5. /\ IsPiece(c) /\ c[1] = block[1] /\ Len(c) = Len(block) + n
            /\ Behind(c) = Behind(block) + n
        BY <4>2, <4>4, <1>3, PieceGrows
      <4>6. block' = c
        BY <4>3, <4>4
      <4> QED BY <4>2, <4>5, <4>6, <1>1
    <3> QED BY <3>1, <3>2
  <2> QED BY <2>1, <2>2
<1>7. ASSUME Listening PROVE Listening'
  <2>1. Len(block') <= DrainBlock /\ Len(block') \in Nat
    <3>1. Len(block') = Len(block) + n
      BY <1>6, <1>7
    <3>2. Len(block) \in Nat
      BY <1>2 DEF DrainSound, Blocks
    <3> QED BY <3>1, <3>2, <1>1, <1>3
  <2>2. BlockFollows'
    BY <1>5, <1>6, <1>7 DEF BlockFollows
  <2>3. ~ErrorIn(queue)
    BY <1>1, <1>7 DEF Listening
  <2>4. FeederStands'
    <3>1. CASE Len(block') = DrainBlock
      BY <3>1, <2>2, <1>1 DEF FeederStands
    <3>2. CASE Len(block') # DrainBlock
      <4>1. Len(block') < DrainBlock
        BY <3>2, <2>1, Sizes
      <4> QED BY <4>1, <3>2, <2>2, <1>1 DEF FeederStands
    <3> QED BY <3>1, <3>2
  <2> QED BY <2>3, <2>4, <1>1, <1>5, <1>7 DEF Listening
<1>8. DrainSound'
  BY <1>1, <1>2, <1>6, <1>7 DEF DrainSound
<1> QED BY <1>1, <1>4, <1>8 DEF PipeSound

LEMMA DrainEofSound ==
  ASSUME PipeSound, DrainEof
  PROVE  PipeSound'
<1>1. /\ route = "drain" /\ feeder = "runs" /\ wire = "closed"
      /\ feeder' = IF block = << >> THEN "over" ELSE "sends"
      /\ UNCHANGED <<route, at, wire, block, queue, child, outpipe, current, taken, met>>
  BY DEF DrainEof
<1>2. PipeTyped /\ DrainSound
  BY <1>1, OnDrain
<1>3. PipeTyped'
  BY <1>1, <1>2 DEF PipeTyped
<1>4. Front' = Front /\ EndOf(queue, Front)' = EndOf(queue, Front)
  BY <1>1, EndStays
<1>5. ASSUME Listening PROVE Listening'
  <2>1. ~ErrorIn(queue) /\ at = Bytes + 1
    BY <1>1, <1>2, <1>5 DEF Listening, PipeTyped
  <2>2. block # << >> => BlockFollows'
    BY <1>1, <1>4, <1>5 DEF Listening, FeederStands, BlockFollows
  <2>3. block = << >> => EndOf(queue, Front)' = Bytes + 1
    <3>1. block = << >> => ~BlockFollows
      BY DEF BlockFollows, IsPiece
    <3> QED BY <3>1, <2>1, <1>1, <1>4, <1>5 DEF Listening, FeederStands
  <2>4. FeederStands'
    BY <2>2, <2>3, <1>1 DEF FeederStands
  <2> QED BY <2>1, <2>4, <1>1, <1>4, <1>5 DEF Listening
<1>6. DrainSound'
  BY <1>1, <1>2, <1>5 DEF DrainSound
<1> QED BY <1>1, <1>3, <1>6 DEF PipeSound

LEMMA DrainErrorSound ==
  ASSUME PipeSound, DrainError
  PROVE  PipeSound'
<1>1. /\ route = "drain" /\ feeder = "runs" /\ block' = ErrorBlock /\ feeder' = "sends"
      /\ UNCHANGED <<route, at, wire, queue, child, outpipe, current, taken, met>>
  BY DEF DrainError
<1>2. PipeTyped /\ DrainSound
  BY <1>1, OnDrain
<1>3. PipeTyped'
  BY <1>1, <1>2 DEF PipeTyped
<1>4. Front' = Front
  BY <1>1, EndStays
<1>5. ASSUME Listening PROVE Listening'
  <2>1. ~ErrorIn(queue)
    BY <1>1, <1>5 DEF Listening
  <2>2. FeederStands'
    BY <1>1 DEF FeederStands
  <2> QED BY <2>1, <2>2, <1>1, <1>4, <1>5 DEF Listening
<1>6. DrainSound'
  BY <1>1, <1>2, <1>5, ErrorTyped DEF DrainSound
<1> QED BY <1>1, <1>3, <1>6 DEF PipeSound

LEMMA DrainSendSound ==
  ASSUME PipeSound, DrainSend
  PROVE  PipeSound'
<1>1. /\ route = "drain" /\ feeder = "sends" /\ met # "dropped"
      /\ Len(queue) < DrainQueue
      /\ queue' = Append(queue, block) /\ block' = << >>
      /\ feeder' = IF block = ErrorBlock \/ Len(block) < DrainBlock THEN "over" ELSE "runs"
      /\ UNCHANGED <<route, at, wire, child, outpipe, current, taken, met>>
  BY DEF DrainSend
<1>2. PipeTyped /\ DrainSound
  BY <1>1, OnDrain
<1>3. PipeTyped'
  BY <1>1, <1>2 DEF PipeTyped
<1>4. Front' = Front /\ Front \in Nat
  BY <1>1, <1>2, FrontTyped DEF Front
<1>5. queue \in Seq(Blocks) /\ block \in Blocks /\ << >> \in Blocks
  BY <1>2 DEF DrainSound, Blocks
<1>6. queue' \in Seq(Blocks) /\ Len(queue') = Len(queue) + 1 /\ Len(queue) \in Nat
  BY <1>1, <1>5
<1>7. ASSUME Listening PROVE Listening'
  <2>1. Chained(queue, Front) /\ ~ErrorIn(queue)
    BY <1>1, <1>7 DEF Listening
  <2>2. CASE block = ErrorBlock
    <3>1. Chained(queue', Front) /\ ErrorIn(queue')
      BY <2>1, <2>2, <1>1, <1>4, <1>5, ChainBreaks
    <3>2. FeederStands'
      BY <2>2, <3>1, <1>1 DEF FeederStands
    <3> QED BY <2>2, <3>1, <3>2, <1>1, <1>4 DEF Listening
  <2>3. CASE block # ErrorBlock
    <3>1. BlockFollows /\ (Len(block) = DrainBlock \/ wire = "closed")
      BY <2>3, <1>1, <1>7 DEF Listening, FeederStands
    <3>2. IsPiece(block) /\ block[1] = EndOf(queue, Front) /\ at = Behind(block)
      BY <3>1 DEF BlockFollows
    <3>3. /\ Chained(queue', Front) /\ ~ErrorIn(queue')
          /\ EndOf(queue', Front) = Behind(block)
      BY <2>1, <3>2, <1>1, <1>4, <1>5, ChainGrows
    <3>4. EndOf(queue', Front') = at'
      BY <3>2, <3>3, <1>1, <1>4
    <3>5. CASE Len(block) < DrainBlock
      <4>1. wire = "closed" /\ at = Bytes + 1
        BY <3>1, <3>5, <1>2, Sizes DEF PipeTyped
      <4>2. FeederStands'
        BY <4>1, <3>4, <3>5, <1>1 DEF FeederStands
      <4> QED BY <3>3, <3>5, <4>2, <1>1, <1>4 DEF Listening
    <3>6. CASE ~(Len(block) < DrainBlock)
      <4>1. FeederStands'
        BY <2>3, <3>4, <3>6, <1>1 DEF FeederStands
      <4> QED BY <3>3, <4>1, <1>1, <1>4 DEF Listening
    <3> QED BY <3>5, <3>6
  <2> QED BY <2>2, <2>3
<1>8. DrainSound'
  BY <1>1, <1>2, <1>5, <1>6, <1>7, Sizes DEF DrainSound
<1> QED BY <1>1, <1>3, <1>8 DEF PipeSound

LEMMA DrainStopsSound ==
  ASSUME PipeSound, DrainStops
  PROVE  PipeSound'
<1>1. /\ route = "drain" /\ met = "dropped"
      /\ UNCHANGED <<route, at, wire, block, queue, child, outpipe, current, taken, met>>
  BY DEF DrainStops
<1>2. PipeTyped /\ DrainSound
  BY <1>1, OnDrain
<1>3. PipeTyped' /\ DrainSound'
  BY <1>1, <1>2 DEF PipeTyped, DrainSound
<1> QED BY <1>1, <1>3 DEF PipeSound

-----------------------------------------------------------------------------
(* The steps of the reader of the drain.                                   *)

LEMMA DrainReadSound ==
  ASSUME PipeSound, NEW n \in 1 .. DrainBlock, DrainRead(n)
  PROVE  PipeSound'
<1>1. /\ route = "drain" /\ met = "more" /\ n \in 1 .. Len(current)
      /\ taken' = taken \o SubSeq(current, 1, n)
      /\ current' = SubSeq(current, n + 1, Len(current))
      /\ UNCHANGED <<route, at, wire, feeder, block, queue, child, outpipe, met>>
  BY DEF DrainRead
<1>2. PipeTyped /\ DrainSound
  BY <1>1, OnDrain
<1>3. PICK t \in Nat : t = Len(taken)
  BY <1>2, FrontTyped
<1>4. PICK c \in Nat : c = Len(current)
  BY <1>2, FrontTyped
<1>5. taken = Upto(1, t) /\ current = Upto(t + 1, c) /\ n \in 1 .. c /\ n \in Nat
  BY <1>1, <1>2, <1>3, <1>4 DEF PipeTyped, DrainSound
<1>6. SubSeq(current, 1, n) = Upto(t + 1, n) /\ SubSeq(current, n + 1, c) = Upto((t + 1) + n, c - n)
  <2>1. PICK i \in Nat : i = t + 1
    OBVIOUS
  <2>2. SubSeq(Upto(i, c), 1, n) = Upto(i, n) /\ SubSeq(Upto(i, c), n + 1, c) = Upto(i + n, c - n)
    BY <1>5, UptoSplits
  <2>3. current = Upto(i, c)
    BY <2>1, <1>5
  <2> QED BY ONLY <2>1, <2>2, <2>3
<1>7. taken' = Upto(1, t + n)
  <2>1. Upto(1, t) \o Upto(1 + t, n) = Upto(1, t + n)
    BY <1>5, UptoJoins
  <2>2. 1 + t = t + 1
    OBVIOUS
  <2> QED BY <2>1, <2>2, <1>1, <1>5, <1>6
<1>8. current' = Upto((t + n) + 1, c - n)
  <2>1. (t + 1) + n = (t + n) + 1
    BY <1>5
  <2> QED BY <2>1, <1>1, <1>4, <1>6
<1>9. taken' \in Seq(Nat) /\ Len(taken') = t + n
  <2>1. t + n \in Nat
    BY <1>5
  <2> QED BY <2>1, <1>7, UptoTyped
<1>10. current' \in Blocks /\ Len(current') = c - n
  <2>1. (t + n) + 1 \in Nat /\ c - n \in Nat
    BY <1>5
  <2> QED BY <2>1, <1>8, UptoTyped DEF Blocks
<1>11. Front' = Front
  <2>1. Front = t + c + 1
    BY <1>3, <1>4 DEF Front
  <2>2. Front' = (t + n) + (c - n) + 1
    BY <1>9, <1>10 DEF Front
  <2> QED BY <2>1, <2>2, <1>5
<1>12. PipeTyped'
  BY <1>1, <1>2, <1>7, <1>9 DEF PipeTyped
<1>13. EndOf(queue, Front)' = EndOf(queue, Front) /\ (BlockFollows <=> BlockFollows')
  BY <1>1, <1>11 DEF BlockFollows, EndOf
<1>14. Listening'
  BY <1>1, <1>2, <1>11, <1>13 DEF DrainSound, Listening, FeederStands
<1>15. current' = Upto(Len(taken') + 1, Len(current'))
  BY <1>8, <1>9, <1>10
<1>16. DrainSound'
  BY <1>1, <1>2, <1>10, <1>14, <1>15 DEF DrainSound
<1> QED BY <1>1, <1>12, <1>16 DEF PipeSound

LEMMA DrainReceiveSound ==
  ASSUME PipeSound, DrainReceive
  PROVE  PipeSound'
<1>1. /\ route = "drain" /\ met = "more" /\ current = << >> /\ queue # << >>
      /\ queue' = Tail(queue)
      /\ IF Head(queue) = ErrorBlock THEN met' = "error" /\ UNCHANGED current
         ELSE current' = Head(queue) /\ UNCHANGED met
      /\ UNCHANGED <<route, at, wire, feeder, block, child, outpipe, taken>>
  BY DEF DrainReceive
<1>2. PipeTyped /\ DrainSound
  BY <1>1, OnDrain
<1>3. PipeTyped'
  BY <1>1, <1>2 DEF PipeTyped
<1>4. /\ queue \in Seq(Blocks) /\ Len(queue) <= DrainQueue /\ block \in Blocks
      /\ current = Upto(Len(taken) + 1, Len(current)) /\ current \in Blocks
      /\ outpipe = << >> /\ child = "none" /\ Listening
  BY <1>1, <1>2 DEF DrainSound
<1>5. queue' \in Seq(Blocks) /\ Len(queue') <= DrainQueue
  BY <1>1, <1>4, Sizes
<1>6. CASE Head(queue) = ErrorBlock
  BY <1>1, <1>3, <1>4, <1>5, <1>6 DEF PipeSound, DrainSound
<1>7. CASE Head(queue) # ErrorBlock
  <2>1. current' = Head(queue) /\ met' = "more"
    BY <1>1, <1>7
  <2>2. PICK f \in Nat : f = Front
    BY <1>2, FrontTyped
  <2>3. Chained(queue, f)
    BY <2>2, <1>4 DEF Listening
  <2>4. /\ Head(queue) \in Blocks /\ IsPiece(Head(queue)) /\ Head(queue)[1] = f
        /\ Chained(Tail(queue), Behind(Head(queue)))
        /\ ErrorIn(Tail(queue)) <=> ErrorIn(queue)
        /\ ~ErrorIn(queue) => EndOf(Tail(queue), Behind(Head(queue))) = EndOf(queue, f)
    BY <2>3, <1>1, <1>4, <1>7, ChainShrinks
  <2>5. f = Len(taken) + 1 /\ Len(taken) \in Nat
    <3>1. Len(current) = 0
      BY <1>1
    <3> QED BY <3>1, <2>2, <1>2, FrontTyped DEF Front
  <2>6. current' = Upto(Len(taken') + 1, Len(current'))
    <3>1. Head(queue) = Upto(Head(queue)[1], Len(Head(queue)))
      BY <2>4 DEF IsPiece
    <3> QED BY <3>1, <2>1, <2>4, <2>5, <1>1
  <2>7. Front' = Behind(Head(queue))
    <3>1. Len(Head(queue)) \in Nat
      BY <2>4 DEF Blocks
    <3> QED BY <3>1, <2>1, <2>4, <2>5, <1>1 DEF Front, Behind
  <2>8. Chained(queue', Front') /\ (ErrorIn(queue') <=> ErrorIn(queue))
    BY <2>4, <2>7, <1>1
  <2>9. ~ErrorIn(queue) => EndOf(queue', Front') = EndOf(queue, Front)
    BY <2>2, <2>4, <2>7, <1>1
  <2>10. ErrorIn(queue) => feeder = "over"
    BY <1>4 DEF Listening
  <2>11. FeederStands
    BY <1>4 DEF Listening
  <2>12. FeederStands'
    <3>1. CASE ErrorIn(queue)
      BY <3>1, <2>8, <2>10, <1>1 DEF FeederStands
    <3>2. CASE ~ErrorIn(queue)
      <4>1. EndOf(queue', Front') = EndOf(queue, Front)
        BY <3>2, <2>9
      <4>2. BlockFollows <=> BlockFollows'
        BY <4>1, <1>1 DEF BlockFollows
      <4> QED BY <4>1, <4>2, <3>2, <2>11, <1>1 DEF FeederStands
    <3> QED BY <3>1, <3>2
  <2>13. Listening'
    BY <2>8, <2>10, <2>12, <1>1 DEF Listening
  <2>14. DrainSound'
    BY <2>1, <2>4, <2>6, <2>13, <1>1, <1>4, <1>5 DEF DrainSound
  <2> QED BY <2>14, <1>1, <1>3 DEF PipeSound
<1> QED BY <1>6, <1>7

LEMMA DrainEndSound ==
  ASSUME PipeSound, DrainEnd
  PROVE  PipeSound'
<1>1. /\ route = "drain" /\ met = "more" /\ current = << >> /\ queue = << >> /\ feeder = "over"
      /\ met' = "eof"
      /\ UNCHANGED <<route, at, wire, feeder, block, queue, child, outpipe, current, taken>>
  BY DEF DrainEnd
<1>2. PipeTyped /\ DrainSound
  BY <1>1, OnDrain
<1>3. PipeTyped'
  BY <1>1, <1>2 DEF PipeTyped
<1>4. wire = "closed" /\ EndOf(queue, Front) = Bytes + 1
  <2>1. ~ErrorIn(queue)
    BY <1>1 DEF ErrorIn
  <2> QED BY <2>1, <1>1, <1>2 DEF DrainSound, Listening, FeederStands
<1>5. Len(taken) = Bytes
  <2>1. Front = Bytes + 1
    BY <1>1, <1>4 DEF EndOf
  <2>2. Len(current) = 0
    BY <1>1
  <2> QED BY <2>1, <2>2, <1>2, FrontTyped, Sizes DEF Front
<1>6. DrainSound'
  BY <1>1, <1>2, <1>4, <1>5 DEF DrainSound
<1> QED BY <1>1, <1>3, <1>6 DEF PipeSound

-----------------------------------------------------------------------------
(* The steps on the way through the child.                                 *)

\* The places, as numbers.
LEMMA ChildPlaces ==
  ASSUME PipeTyped, ChildSound
  PROVE  \E t, o, q, b \in Nat :
            /\ t = Len(taken) /\ o = Len(outpipe) /\ q = Len(queue) /\ b = Len(block)
            /\ taken = Upto(1, t) /\ outpipe = Upto(t + 1, o) /\ queue = Upto(t + o + 1, q)
            /\ block = Upto(t + o + q + 1, b)
            /\ at = t + o + q + b + 1
            /\ q <= PipeCap /\ o <= PipeCap
<1>1. Len(taken) \in Nat /\ Len(outpipe) \in Nat /\ Len(queue) \in Nat /\ Len(block) \in Nat
  BY DEF PipeTyped, ChildSound
<1> QED BY <1>1 DEF PipeTyped, ChildSound

\* And back.
LEMMA ChildPlaced ==
  ASSUME NEW t \in Nat, NEW o \in Nat, NEW q \in Nat, NEW b \in Nat,
         (/\ taken = Upto(1, t) /\ outpipe = Upto(t + 1, o) /\ queue = Upto(t + o + 1, q)
          /\ block = Upto(t + o + q + 1, b)
          /\ at = t + o + q + b + 1
          /\ q <= PipeCap /\ o <= PipeCap)'
  PROVE  ChildSound' /\ taken' \in Seq(Nat) /\ taken' = Upto(1, Len(taken'))
<1>1. taken' \in Seq(Nat) /\ Len(taken') = t
  BY UptoTyped
<1>2. outpipe' \in Seq(Nat) /\ Len(outpipe') = o
  <2>1. t + 1 \in Nat
    OBVIOUS
  <2> QED BY <2>1, UptoTyped
<1>3. queue' \in Seq(Nat) /\ Len(queue') = q
  <2>1. t + o + 1 \in Nat
    OBVIOUS
  <2> QED BY <2>1, UptoTyped
<1>4. block' \in Seq(Nat) /\ Len(block') = b
  <2>1. t + o + q + 1 \in Nat
    OBVIOUS
  <2> QED BY <2>1, UptoTyped
<1> QED BY <1>1, <1>2, <1>3, <1>4 DEF ChildSound

LEMMA PumpHeadSound ==
  ASSUME PipeSound, PumpHead
  PROVE  PipeSound'
<1>1. /\ route = "child" /\ block # << >> /\ Len(queue) < PipeCap
      /\ queue' = Append(queue, Head(block)) /\ block' = Tail(block)
      /\ UNCHANGED <<route, at, wire, outpipe, current, taken, met>>
  BY DEF PumpHead
<1>2. PipeTyped /\ ChildSound
  BY <1>1, OnChild
<1>3. PICK t, o, q, b \in Nat :
            /\ t = Len(taken) /\ o = Len(outpipe) /\ q = Len(queue) /\ b = Len(block)
            /\ taken = Upto(1, t) /\ outpipe = Upto(t + 1, o) /\ queue = Upto(t + o + 1, q)
            /\ block = Upto(t + o + q + 1, b)
            /\ at = t + o + q + b + 1
            /\ q <= PipeCap /\ o <= PipeCap
  BY <1>2, ChildPlaces
<1>4. PICK i \in Nat : i = t + o + q + 1
  OBVIOUS
<1>5. b > 0 /\ Head(block) = i /\ Tail(block) = Upto(i + 1, b - 1)
  <2>1. block = Upto(i, b) /\ Upto(i, b) # << >>
    BY <1>1, <1>3, <1>4
  <2>2. b > 0 /\ Head(Upto(i, b)) = i /\ Tail(Upto(i, b)) = Upto(i + 1, b - 1)
    BY <2>1, UptoHeads
  <2> QED BY ONLY <2>1, <2>2
<1>6. queue' = Upto(t + o + 1, q + 1)
  <2>1. PICK k \in Nat : k = t + o + 1
    OBVIOUS
  <2>2. Append(Upto(k, q), k + q) = Upto(k, q + 1)
    BY UptoGrows
  <2>3. k + q = i
    BY <2>1, <1>4
  <2> QED BY <2>1, <2>2, <2>3, <1>1, <1>3, <1>5
<1>7. block' = Upto(t + o + (q + 1) + 1, b - 1)
  <2>1. i + 1 = t + o + (q + 1) + 1
    BY <1>4
  <2> QED BY <2>1, <1>1, <1>5
<1>8. PICK r \in Nat : r = q + 1
  OBVIOUS
<1>9. PICK c \in Nat : c = b - 1
  BY <1>5
<1>10. at' = t + o + r + c + 1 /\ r <= PipeCap
  <2>1. at' = t + o + q + b + 1 /\ q < PipeCap
    BY <1>1, <1>3
  <2> QED BY <2>1, <1>8, <1>9, Sizes
<1>11. ChildSound'
  BY <1>1, <1>3, <1>6, <1>7, <1>8, <1>9, <1>10, ChildPlaced
<1>12. PipeTyped'
  BY <1>1, <1>2 DEF PipeTyped
<1> QED BY <1>1, <1>11, <1>12 DEF PipeSound

LEMMA PumpCopySound ==
  ASSUME PipeSound, PumpCopy
  PROVE  PipeSound'
<1>1. /\ route = "child" /\ block = << >> /\ Len(queue) < PipeCap
      /\ wire = "open" /\ at + 1 <= Bytes + 1 /\ at' = at + 1
      /\ queue' = Append(queue, at)
      /\ UNCHANGED <<route, wire, block, outpipe, current, taken, met>>
  BY DEF PumpCopy, Reads
<1>2. PipeTyped /\ ChildSound
  BY <1>1, OnChild
<1>3. PICK t, o, q, b \in Nat :
            /\ t = Len(taken) /\ o = Len(outpipe) /\ q = Len(queue) /\ b = Len(block)
            /\ taken = Upto(1, t) /\ outpipe = Upto(t + 1, o) /\ queue = Upto(t + o + 1, q)
            /\ block = Upto(t + o + q + 1, b)
            /\ at = t + o + q + b + 1
            /\ q <= PipeCap /\ o <= PipeCap
  BY <1>2, ChildPlaces
<1>4. b = 0
  BY <1>1, <1>3
<1>5. PICK r \in Nat : r = q + 1
  OBVIOUS
<1>6. queue' = Upto(t + o + 1, r)
  <2>1. PICK k \in Nat : k = t + o + 1
    OBVIOUS
  <2>2. Append(Upto(k, q), k + q) = Upto(k, q + 1)
    BY UptoGrows
  <2>3. k + q = at
    <3>1. at = t + o + q + b + 1
      BY <1>3
    <3> QED BY <3>1, <2>1, <1>4
  <2> QED BY <2>1, <2>2, <2>3, <1>1, <1>3, <1>5
<1>7. \A i \in Nat : Upto(i, 0) = << >>
  BY DEF Upto
<1>8. block' = Upto(t + o + r + 1, b)
  BY <1>1, <1>4, <1>7
<1>9. at' = t + o + r + b + 1 /\ r <= PipeCap
  <2>1. at = t + o + q + b + 1 /\ at' = at + 1 /\ q < PipeCap
    BY <1>1, <1>3
  <2> QED BY <2>1, <1>5, Sizes
<1>10. ChildSound'
  BY <1>1, <1>3, <1>6, <1>8, <1>9, ChildPlaced
<1>11. PipeTyped'
  BY <1>1, <1>2, Sizes DEF PipeTyped
<1> QED BY <1>1, <1>10, <1>11 DEF PipeSound

LEMMA ChildDecodesSound ==
  ASSUME PipeSound, ChildDecodes
  PROVE  PipeSound'
<1>1. /\ child = "runs" /\ queue # << >> /\ Len(outpipe) < PipeCap
      /\ queue' = Tail(queue) /\ outpipe' = Append(outpipe, Head(queue))
      /\ UNCHANGED <<route, at, wire, block, current, taken, met>>
  BY DEF ChildDecodes
<1>2. route = "child" /\ PipeTyped /\ ChildSound
  BY <1>1 DEF PipeSound, Untouched, DrainSound
<1>3. PICK t, o, q, b \in Nat :
            /\ t = Len(taken) /\ o = Len(outpipe) /\ q = Len(queue) /\ b = Len(block)
            /\ taken = Upto(1, t) /\ outpipe = Upto(t + 1, o) /\ queue = Upto(t + o + 1, q)
            /\ block = Upto(t + o + q + 1, b)
            /\ at = t + o + q + b + 1
            /\ q <= PipeCap /\ o <= PipeCap
  BY <1>2, ChildPlaces
<1>4. PICK i \in Nat : i = t + o + 1
  OBVIOUS
<1>5. q > 0 /\ Head(queue) = i /\ Tail(queue) = Upto(i + 1, q - 1)
  <2>1. queue = Upto(i, q) /\ Upto(i, q) # << >>
    BY <1>1, <1>3, <1>4
  <2>2. q > 0 /\ Head(Upto(i, q)) = i /\ Tail(Upto(i, q)) = Upto(i + 1, q - 1)
    BY <2>1, UptoHeads
  <2> QED BY ONLY <2>1, <2>2
<1>6. PICK p \in Nat : p = o + 1
  OBVIOUS
<1>7. PICK r \in Nat : r = q - 1
  BY <1>5
<1>8. outpipe' = Upto(t + 1, p)
  <2>1. PICK k \in Nat : k = t + 1
    OBVIOUS
  <2>2. Append(Upto(k, o), k + o) = Upto(k, o + 1)
    BY UptoGrows
  <2>3. k + o = i
    BY <2>1, <1>4
  <2> QED BY <2>1, <2>2, <2>3, <1>1, <1>3, <1>5, <1>6
<1>9. queue' = Upto(t + p + 1, r)
  <2>1. i + 1 = t + p + 1
    BY <1>4, <1>6
  <2> QED BY <2>1, <1>1, <1>5, <1>7
<1>10. block' = Upto(t + p + r + 1, b)
  <2>1. t + p + r + 1 = t + o + q + 1
    BY <1>6, <1>7
  <2> QED BY <2>1, <1>1, <1>3
<1>11. at' = t + p + r + b + 1 /\ r <= PipeCap /\ p <= PipeCap
  <2>1. at' = t + o + q + b + 1 /\ o < PipeCap /\ q <= PipeCap
    BY <1>1, <1>3
  <2> QED BY <2>1, <1>6, <1>7, Sizes
<1>12. ChildSound'
  BY <1>1, <1>3, <1>8, <1>9, <1>10, <1>11, ChildPlaced
<1>13. PipeTyped'
  BY <1>1, <1>2 DEF PipeTyped
<1> QED BY <1>1, <1>2, <1>12, <1>13 DEF PipeSound

LEMMA ChildReadSound ==
  ASSUME PipeSound, ChildRead
  PROVE  PipeSound'
<1>1. /\ route = "child" /\ taken' = taken \o outpipe /\ outpipe' = << >>
      /\ UNCHANGED <<route, at, wire, block, queue, current, met>>
  BY DEF ChildRead
<1>2. PipeTyped /\ ChildSound
  BY <1>1, OnChild
<1>3. PICK t, o, q, b \in Nat :
            /\ t = Len(taken) /\ o = Len(outpipe) /\ q = Len(queue) /\ b = Len(block)
            /\ taken = Upto(1, t) /\ outpipe = Upto(t + 1, o) /\ queue = Upto(t + o + 1, q)
            /\ block = Upto(t + o + q + 1, b)
            /\ at = t + o + q + b + 1
            /\ q <= PipeCap /\ o <= PipeCap
  BY <1>2, ChildPlaces
<1>4. PICK s \in Nat : s = t + o
  OBVIOUS
<1>5. taken' = Upto(1, s)
  <2>1. Upto(1, t) \o Upto(1 + t, o) = Upto(1, t + o)
    BY UptoJoins
  <2>2. 1 + t = t + 1
    OBVIOUS
  <2> QED BY <2>1, <2>2, <1>1, <1>3, <1>4
<1>6. outpipe' = Upto(s + 1, 0)
  BY <1>1 DEF Upto
<1>7. queue' = Upto(s + 0 + 1, q) /\ block' = Upto(s + 0 + q + 1, b) /\ at' = s + 0 + q + b + 1
  <2>1. s + 0 + 1 = t + o + 1 /\ s + 0 + q + 1 = t + o + q + 1 /\ s + 0 + q + b + 1 = t + o + q + b + 1
    BY <1>4
  <2> QED BY <2>1, <1>1, <1>3
<1>8. 0 <= PipeCap /\ 0 \in Nat
  BY Sizes
<1>9. ChildSound' /\ taken' \in Seq(Nat) /\ taken' = Upto(1, Len(taken'))
  BY <1>3, <1>5, <1>6, <1>7, <1>8, ChildPlaced
<1>10. PipeTyped'
  BY <1>1, <1>2, <1>9 DEF PipeTyped
<1> QED BY <1>1, <1>9, <1>10 DEF PipeSound

\* What moves no byte.
LEMMA PipeRests ==
  ASSUME PipeSound,
         \/ PumpEnds \/ ChildEnds \/ ChildFails \/ ChildEof \/ SourceDropped
         \/ UNCHANGED pipeVars
  PROVE  PipeSound'
<1>1. CASE UNCHANGED pipeVars
  <2>1. UNCHANGED <<route, at, wire, feeder, block, queue, child, outpipe, current, taken, met>>
    BY <1>1 DEF pipeVars
  <2>2. PipeTyped => PipeTyped'
    BY <2>1 DEF PipeTyped
  <2>3. Untouched => Untouched'
    BY <2>1 DEF Untouched
  <2>4. ChildSound => ChildSound'
    BY <2>1 DEF ChildSound
  <2>5. Listening => Listening'
    <3>1. Front' = Front
      BY <2>1 DEF Front
    <3>2. FeederStands => FeederStands'
      BY <2>1, <3>1 DEF FeederStands, BlockFollows
    <3> QED BY <2>1, <3>1, <3>2 DEF Listening
  <2>6. DrainSound => DrainSound'
    BY <2>1, <2>5 DEF DrainSound
  <2> QED BY <2>1, <2>2, <2>3, <2>4, <2>6 DEF PipeSound
<1>2. CASE PumpEnds \/ ChildEnds \/ ChildFails \/ ChildEof
  <2>1. /\ route = "child" \/ child # "none"
        /\ UNCHANGED <<route, at, wire, block, queue, outpipe, current, taken>>
    BY <1>2 DEF PumpEnds, ChildEnds, ChildFails, ChildEof
  <2>2. route = "child" /\ PipeTyped /\ ChildSound
    BY <2>1, <1>2 DEF PipeSound, Untouched, DrainSound, PumpEnds, ChildEnds, ChildFails, ChildEof
  <2>3. PipeTyped' /\ ChildSound'
    BY <2>1, <2>2 DEF PipeTyped, ChildSound
  <2> QED BY <2>1, <2>2, <2>3 DEF PipeSound
<1>3. CASE SourceDropped
  <2>1. /\ route # "none" /\ met' = "dropped" /\ (child = "none" => child' = "none")
        /\ UNCHANGED <<route, at, wire, feeder, block, queue, outpipe, current, taken>>
    BY <1>3 DEF SourceDropped
  <2>2. PipeTyped'
    BY <2>1 DEF PipeSound, PipeTyped
  <2>3. DrainSound => DrainSound'
    BY <2>1 DEF DrainSound
  <2>4. ChildSound => ChildSound'
    BY <2>1 DEF ChildSound
  <2> QED BY <2>1, <2>2, <2>3, <2>4 DEF PipeSound
<1> QED BY <1>1, <1>2, <1>3

LEMMA PipeSteps ==
  ASSUME PipeSound, [Next]_vars
  PROVE  PipeSound'
<1>1. \/ UNCHANGED pipeVars \/ SpawnDrain \/ SpawnChild
      \/ Feeding \/ Reading \/ DrainStops \/ SourceDropped
  <2>1. CASE UNCHANGED vars
    BY <2>1 DEF vars, pipeVars
  <2>2. CASE Next
    BY <2>2 DEF Next, InstallLog, ChooseFormat, OpenFile, OpenPipe, OpenError, InitEngine,
                BuildSpec, CreateFile, CreateFails, BuildDecoder, SeekDone, SeekFailed,
                DecodeField, DecodeEnds, DecodeFails, PipeFeeds, PipeReads, LastSend, Exited, vars
  <2> QED BY <2>1, <2>2
<1>2. CASE Feeding
  BY <1>2, WireSound, DrainFillSound, DrainEofSound, DrainErrorSound, DrainSendSound,
     PumpHeadSound, PumpCopySound, ChildDecodesSound, PipeRests DEF Feeding
<1>3. CASE Reading
  BY <1>3, DrainReadSound, DrainReceiveSound, DrainEndSound, ChildReadSound, PipeRests DEF Reading
<1>4. CASE UNCHANGED pipeVars \/ SourceDropped
  BY <1>4, PipeRests
<1> QED BY <1>1, <1>2, <1>3, <1>4, SpawnDrainSound, SpawnChildSound, DrainStopsSound

\* What comes through stdin is delivered in its order with nothing left out, the
\* end of a raw stdin is told only behind its last byte, and what waits on the
\* way stays within the queues; whatever the sizes of stream, block and queues.
THEOREM PipeInvariant == Spec => []PipeDelivers
<1>1. Init => PipeSound
  BY PipeStarts DEF Init
<1>2. PipeSound /\ [Next]_vars => PipeSound'
  BY PipeSteps
<1>3. PipeSound => PipeDelivers
  <2>1. ASSUME PipeTyped, DrainSound, route = "drain" PROVE PipeDelivers
    <3>1. Len(outpipe) <= PipeCap
      <4>1. Len(outpipe) = 0
        BY <2>1 DEF DrainSound
      <4> QED BY <4>1, Sizes
    <3> QED BY <2>1, <3>1 DEF PipeTyped, DrainSound, PipeDelivers
  <2>2. ASSUME PipeTyped, ChildSound, route = "child" PROVE PipeDelivers
    BY <2>2 DEF PipeTyped, ChildSound, PipeDelivers
  <2>3. ASSUME PipeTyped, Untouched, route = "none" PROVE PipeDelivers
    <3>1. Len(outpipe) = 0 /\ Len(queue) = 0
      BY <2>3 DEF Untouched
    <3> QED BY <2>3, <3>1, Sizes DEF PipeTyped, PipeDelivers
  <2> QED BY <2>1, <2>2, <2>3 DEF PipeSound
<1> QED BY <1>1, <1>2, <1>3, PTL DEF Spec

-----------------------------------------------------------------------------
(* The names of the files.                                                 *)

LEMMA FileNames == FileSet = {"tbc", "json", "pcm", "efm", "db"}
<1>1. Len(Files) = 5
  BY DEF Files
<1>2. /\ Files[1] = "tbc" /\ Files[2] = "json" /\ Files[3] = "pcm"
      /\ Files[4] = "efm" /\ Files[5] = "db"
  BY DEF Files
<1>3. 1 .. 5 = {1, 2, 3, 4, 5}
  OBVIOUS
<1> HIDE DEF Files
<1> QED BY <1>1, <1>2, <1>3 DEF FileSet

\* One file is created after the other.
LEMMA FileOrder ==
  /\ Next_("tbc") = "json" /\ Next_("json") = "pcm" /\ Next_("pcm") = "efm"
  /\ Next_("efm") = "db" /\ Next_("db") = "decoder"
<1>1. Len(Files) = 5
  BY DEF Files
<1>2. /\ Files[1] = "tbc" /\ Files[2] = "json" /\ Files[3] = "pcm"
      /\ Files[4] = "efm" /\ Files[5] = "db"
  BY DEF Files
<1> HIDE DEF Files
<1>3. \A i \in 1 .. 5 : /\ Files[i] = "tbc" <=> i = 1
                        /\ Files[i] = "json" <=> i = 2
                        /\ Files[i] = "pcm" <=> i = 3
                        /\ Files[i] = "efm" <=> i = 4
                        /\ Files[i] = "db" <=> i = 5
  BY <1>2
<1>4. (CHOOSE i \in 1 .. 5 : Files[i] = "tbc") = 1
  BY <1>3
<1>5. (CHOOSE i \in 1 .. 5 : Files[i] = "json") = 2
  BY <1>3
<1>6. (CHOOSE i \in 1 .. 5 : Files[i] = "pcm") = 3
  BY <1>3
<1>7. (CHOOSE i \in 1 .. 5 : Files[i] = "efm") = 4
  BY <1>3
<1>8. (CHOOSE i \in 1 .. 5 : Files[i] = "db") = 5
  BY <1>3
<1> QED BY <1>1, <1>2, <1>4, <1>5, <1>6, <1>7, <1>8 DEF Next_

-----------------------------------------------------------------------------
(* The input.                                                              *)

\* A set of numbers that is not empty has a least one.
LEMMA Least ==
  ASSUME NEW T, T \subseteq Nat, T # {}
  PROVE  \E x \in T : \A y \in T : x <= y
<1> DEFINE R == {ss \in Nat \X Nat : ss[1] < ss[2]}
<1>1. R = OpToRel(<, Nat)
  BY DEF OpToRel
<1>2. IsWellFoundedOn(R, Nat)
  BY <1>1, NatLessThanWellFounded
<1> HIDE DEF R
<1>3. PICK x \in T : \A y \in T : ~(<<y, x>> \in R)
  BY <1>2, WFMin
<1>4. ASSUME NEW y \in T PROVE x <= y
  <2>1. x \in Nat /\ y \in Nat
    OBVIOUS
  <2>2. ~(<<y, x>> \in R)
    BY <1>3
  <2>3. ~(y < x)
    BY <2>1, <2>2 DEF R
  <2> QED BY <2>1, <2>3
<1> QED BY <1>4

\* What a capture is.
LEMMA CaptureTyped ==
  ASSUME NEW capture \in Capture, NEW i \in DOMAIN capture.marks
  PROVE  /\ i \in Nat /\ i > 0 /\ capture.marks[i].rate \in Nat
         /\ capture.marks[i].container \in Containers
         /\ capture.marks[i].rate # NoRate => capture.marks[i].container = "flac"
<1>1. capture.marks \in Seq(Mark)
  BY DEF Capture
<1>2. capture.marks[i] \in Mark /\ i \in Nat /\ i > 0
  BY <1>1
<1>3. \A m \in Mark : /\ m.rate \in Nat /\ m.container \in Containers
                      /\ m.rate # NoRate => m.container = "flac"
  BY DEF Mark
<1> QED BY <1>2, <1>3

LEMMA CaptureOrder ==
  ASSUME NEW capture \in Capture, NEW i \in DOMAIN capture.marks, NEW j \in DOMAIN capture.marks,
         capture.marks[i].container = "flac", capture.marks[i].stream,
         capture.marks[i].rate = NoRate, i < j
  PROVE  capture.marks[j].rate = NoRate
<1>1. Cut(capture.marks[i])
  BY DEF Cut
<1> QED BY <1>1 DEF Capture

\* The rate of a capture is the first there is; the first mark's, if that is a
\* FLAC stream.
LEMMA FirstRate ==
  ASSUME NEW capture \in Capture
  PROVE  /\ FlacSampleRate(capture) \in Nat
         /\ (\E i \in DOMAIN capture.marks : capture.marks[i].rate # NoRate)
                => FlacSampleRate(capture) # NoRate
         /\ (/\ 1 \in DOMAIN capture.marks
             /\ capture.marks[1].stream /\ capture.marks[1].container = "flac")
                => FlacSampleRate(capture) = capture.marks[1].rate
<1> DEFINE marks == capture.marks
           found == {i \in Magics(capture, "flac") : capture.marks[i].rate # NoRate}
           first == CHOOSE i \in found : \A j \in found : i <= j
<1>1. FlacSampleRate(capture) = IF found = {} THEN NoRate ELSE marks[first].rate
  BY DEF FlacSampleRate
<1>2. \A i : i \in found <=>
         i \in DOMAIN marks /\ marks[i].container = "flac" /\ marks[i].rate # NoRate
  BY DEF Magics
<1>3. \A i \in found : i \in Nat /\ i > 0 /\ marks[i].rate \in Nat
  BY <1>2, CaptureTyped
<1>4. found # {} => first \in found /\ \A j \in found : first <= j
  <2>1. found \subseteq Nat
    BY <1>3
  <2> HIDE DEF found
  <2>2. found # {} => \E i \in found : \A j \in found : i <= j
    BY <2>1, Least
  <2> QED BY <2>2
<1>5. (\E i \in DOMAIN marks : marks[i].rate # NoRate) => found # {}
  BY <1>2, CaptureTyped
<1>6. ASSUME 1 \in DOMAIN marks, marks[1].stream, marks[1].container = "flac"
      PROVE  FlacSampleRate(capture) = marks[1].rate
  <2>1. CASE marks[1].rate # NoRate
    <3>1. 1 \in found
      BY <2>1, <1>2, <1>6
    <3>2. first \in found /\ first <= 1
      BY <3>1, <1>4
    <3>3. first = 1
      <4> HIDE DEF first, found
      <4> QED BY <3>2, <1>3
    <3> QED BY <3>1, <3>3, <1>1
  <2>2. CASE marks[1].rate = NoRate
    <3>1. \A j \in found : FALSE
      <4> SUFFICES ASSUME NEW j \in found PROVE FALSE
        OBVIOUS
      <4>1. j \in DOMAIN marks /\ marks[j].rate # NoRate /\ j \in Nat /\ j > 0
        BY <1>2, <1>3
      <4>2. j # 1
        BY <4>1, <2>2
      <4>3. 1 < j
        BY <4>1, <4>2
      <4> QED BY <4>1, <4>3, <1>6, <2>2, CaptureOrder
    <3>2. found = {}
      BY <3>1
    <3> QED BY <3>2, <2>2, <1>1
  <2> QED BY <2>1, <2>2
<1> HIDE DEF marks, found, first
<1>7. NoRate \in Nat /\ \A i \in found : marks[i].rate # NoRate
  BY <1>2 DEF NoRate
<1>8. FlacSampleRate(capture) \in Nat
  BY <1>1, <1>3, <1>4, <1>7
<1>9. (\E i \in DOMAIN marks : marks[i].rate # NoRate) => FlacSampleRate(capture) # NoRate
  BY <1>1, <1>4, <1>5, <1>7
<1> QED BY <1>6, <1>8, <1>9 DEF marks

\* An .ldf file is refused, or opened with what finds its first stream.
LEMMA LdfOpens ==
  ASSUME NEW capture \in Capture, NEW ffmpeg
  PROVE  LET source_ == OpenLdf(capture, ffmpeg)
         IN  /\ capture.marks = << >> => source_ = Failed
             /\ capture.marks # << >> /\ capture.marks[1].stream => Delivers(capture, source_)
<1>1. CASE capture.marks = << >>
  BY <1>1 DEF OpenLdf
<1>2. CASE capture.marks # << >>
  <2> SUFFICES ASSUME capture.marks[1].stream
               PROVE  Delivers(capture, OpenLdf(capture, ffmpeg))
    BY <1>2
  <2>1. 1 \in DOMAIN capture.marks
    BY <1>2 DEF Capture
  <2>2. PICK c \in Containers : c = capture.marks[1].container
    BY <2>1, CaptureTyped
  <2>3. StreamAt(capture, c, 1)
    BY <2>1, <2>2 DEF StreamAt
  <2>4. ~capture.shifted => StreamAt(capture, c, 0)
    BY <2>1, <2>2 DEF StreamAt
  <2>5. \A at_ : StreamAt(capture, c, at_) => Delivers(capture, OpenClaxon(capture, c, at_))
    BY DEF Delivers, OpenClaxon, Claxon
  <2>6. StreamAt(capture, c, 0) => Delivers(capture, Ffmpeg)
    BY <2>2 DEF Delivers, Ffmpeg, FfmpegDecodes
  <2>7. OpenLdf(capture, ffmpeg) =
            IF capture.shifted THEN OpenClaxon(capture, c, 1)
            ELSE IF c = "flac" THEN OpenRawFlac(capture, ffmpeg)
            ELSE IF ffmpeg THEN Ffmpeg
            ELSE OpenClaxon(capture, "ogg", 0)
    BY <1>2, <2>2 DEF OpenLdf
  <2>8. c = "flac" \/ c = "ogg"
    BY DEF Containers
  <2>9. OpenLdf(capture, ffmpeg) \in
            IF capture.shifted THEN {OpenClaxon(capture, c, 1)}
            ELSE {Ffmpeg, OpenClaxon(capture, c, 0)}
    BY <2>7, <2>8 DEF OpenRawFlac
  <2> QED BY <2>3, <2>4, <2>5, <2>6, <2>9
<1> QED BY <1>1, <1>2

\* The inductive invariant of the input: what open_input has found.
Opening ==
    /\ job \in Jobs
    /\ inputfreq \in Nat
    /\ stage \in {"log", "format", "open"} => inputfreq = NoRate
    /\ inputfreq # NoRate /\ ~job.stdin =>
           /\ rate = IF format \in Compressed THEN FlacSampleRate(job.capture) ELSE NoRate
           /\ source = OpenSource(job.capture, format, HasFfmpeg)

LEMMA OpeningSteps ==
  ASSUME Opening, [Next]_vars
  PROVE  Opening'
<1>1. job.capture \in Capture /\ job.freq \in Nat
  BY JobsAssumption DEF Opening
<1>2. FlacSampleRate(job.capture) \in Nat
  BY <1>1, FirstRate
<1>3. \A d \in Nat : Freq(d) \in Nat
  BY <1>1 DEF Freq, DefaultRate
<1>4. job' = job
  BY DEF Next, InstallLog, ChooseFormat, OpenFile, OpenPipe, OpenError, InitEngine,
         BuildSpec, CreateFile, CreateFails, BuildDecoder, SeekDone, SeekFailed,
         DecodeField, DecodeEnds, DecodeFails, PipeFeeds, PipeReads, LastSend, Exited, vars
<1>5. CASE ChooseFormat
  <2>1. stage = "format" /\ UNCHANGED <<rate, source, inputfreq>>
    BY <1>5 DEF ChooseFormat
  <2> QED BY <2>1, <1>4 DEF Opening
<1>6. CASE OpenFile
  <2> DEFINE declared == IF format \in Compressed THEN FlacSampleRate(job.capture) ELSE NoRate
  <2>1. /\ stage = "open" /\ source' = OpenSource(job.capture, format, HasFfmpeg)
        /\ rate' = declared /\ inputfreq' = Freq(declared) /\ format' = format
        /\ stage' \in {"engine", "exit"}
    BY <1>6 DEF OpenFile, Goes, Fails
  <2>2. declared \in Nat
    BY <1>2 DEF NoRate
  <2>3. inputfreq' \in Nat
    BY <2>1, <2>2, <1>3
  <2>4. HasFfmpeg' = HasFfmpeg
    BY <1>4 DEF HasFfmpeg
  <2> QED BY <2>1, <2>3, <2>4, <1>4 DEF Opening
<1>7. CASE OpenPipe
  <2> DEFINE declared == IF format \in Compressed THEN FlacSampleRate(job.capture) ELSE NoRate
  <2>1. job.stdin /\ inputfreq' = Freq(declared) /\ stage' \in {"engine", "exit"}
    BY <1>7 DEF OpenPipe, Goes, Fails
  <2>2. declared \in Nat
    BY <1>2 DEF NoRate
  <2>3. inputfreq' \in Nat
    BY <2>1, <2>2, <1>3
  <2> QED BY <2>1, <2>3, <1>4 DEF Opening
<1>8. CASE InstallLog(TRUE) \/ InstallLog(FALSE)
  <2>1. stage = "log" /\ UNCHANGED inputVars
    BY <1>8 DEF InstallLog
  <2> QED BY <2>1, <1>4 DEF Opening, inputVars
<1>9. CASE UNCHANGED <<job, inputVars>> /\ (stage' = stage \/ stage' \notin {"log", "format", "open"})
  <2>1. HasFfmpeg' = HasFfmpeg
    BY <1>4 DEF HasFfmpeg
  <2> QED BY <2>1, <1>9 DEF Opening, inputVars
<1>10. CASE CreateFile
  <2>1. stage \in FileSet /\ stage' = Next_(stage) /\ UNCHANGED inputVars
    BY <1>10 DEF CreateFile, Goes
  <2>2. stage' \notin {"log", "format", "open"}
    BY <2>1, FileNames, FileOrder
  <2> QED BY <2>1, <2>2, <1>4, <1>9
<1>11. CASE \/ OpenError \/ InitEngine \/ BuildSpec \/ CreateFails \/ BuildDecoder
            \/ SeekDone \/ SeekFailed \/ DecodeField \/ DecodeEnds \/ DecodeFails
            \/ PipeFeeds \/ PipeReads \/ LastSend \/ Exited \/ UNCHANGED vars
  <2>1. UNCHANGED inputVars /\ (stage' = stage \/ stage' \notin {"log", "format", "open"})
    BY <1>11 DEF OpenError, InitEngine, BuildSpec, CreateFails, BuildDecoder, SeekDone,
           SeekFailed, DecodeField, DecodeEnds, DecodeFails, PipeFeeds, PipeReads, LastSend,
           Exited, Goes, Fails, inputVars, vars
  <2> QED BY <2>1, <1>4, <1>9
<1> QED BY <1>5, <1>6, <1>7, <1>8, <1>10, <1>11 DEF Next

LEMMA OpeningHolds == Spec => []Opening
<1>1. Init => Opening
  BY DEF Init, Opening, NoRate
<1>2. Opening /\ [Next]_vars => Opening'
  BY OpeningSteps
<1> QED BY <1>1, <1>2, PTL DEF Spec

\* An .ldf file without a magic is refused; one whose first magic stands before a
\* stream is opened with what decodes that stream, and at its rate; with ffmpeg
\* or without, for every capture.
THEOREM OpensInvariant == Spec => []OpensWhatItHolds
<1>1. Opening => OpensWhatItHolds
  <2> SUFFICES ASSUME Opening, inputfreq # NoRate, ~job.stdin, format = "ldf"
               PROVE  LET marks == job.capture.marks
                      IN  /\ marks = << >> => source = Failed
                          /\ marks # << >> /\ marks[1].stream =>
                               /\ Delivers(job.capture, source)
                               /\ (\E i \in DOMAIN marks : marks[i].rate # NoRate) => rate # NoRate
                               /\ marks[1].container = "flac" => rate = marks[1].rate
    BY DEF OpensWhatItHolds
  <2>1. job.capture \in Capture
    BY JobsAssumption DEF Opening
  <2>2. rate = FlacSampleRate(job.capture) /\ source = OpenLdf(job.capture, HasFfmpeg)
    BY DEF Opening, Compressed, OpenSource
  <2>3. job.capture.marks # << >> => 1 \in DOMAIN job.capture.marks
    BY <2>1 DEF Capture
  <2> QED BY <2>1, <2>2, <2>3, FirstRate, LdfOpens
<1> QED BY <1>1, OpeningHolds, PTL

-----------------------------------------------------------------------------
(* The files.                                                              *)

\* All the files are what they were before the run.
Same == \A f, g \in FileSet : files[f] = files[g]

\* The engine and the decoder's parameters are accepted.
Accepted == Supported /\ transformed = {Resolved} /\ inputfreq >= job.needs

\* The stages before the decoder's parameters are accepted, and behind the first file.
Refusing == {"log", "format", "open", "engine", "spec"}
Behind1st == {"json", "pcm", "efm", "db", "decoder", "seek", "decode"}

\* The inductive invariant of the files.
FilesSound ==
    /\ files = [f \in FileSet |-> files[f]]
    /\ stage \in Refusing \cup {"tbc"} \cup Behind1st \cup {"exit"}
    /\ stage \in Refusing \cup {"tbc"} => Same
    /\ stage = "spec" => Supported /\ engine = Resolved
    /\ stage \in {"tbc"} \cup Behind1st => Accepted
    /\ stage \in Behind1st /\ ~job.stdout => files["tbc"] = "new"
    /\ job.stdout => Same /\ files["json"] # "new"
    /\ RefusedUntouched

LEMMA FilesStart == Init => FilesSound
<1> SUFFICES ASSUME Init PROVE FilesSound
  OBVIOUS
<1>1. stage = "log" /\ files \in {[f \in FileSet |-> "old"], [f \in FileSet |-> "none"]}
  BY DEF Init
<1>2. files = [f \in FileSet |-> files[f]] /\ Same /\ files["json"] # "new"
  BY <1>1, FileNames DEF Same
<1>3. RefusedUntouched
  BY <1>2 DEF RefusedUntouched, Same
<1> QED BY <1>1, <1>2, <1>3 DEF FilesSound, Refusing, Behind1st

\* What the options and the engine say does not change.
LEMMA AcceptedStays ==
  ASSUME job' = job, transformed' = transformed, inputfreq' = inputfreq
  PROVE  (Accepted <=> Accepted') /\ (Supported <=> Supported') /\ Resolved' = Resolved
BY DEF Accepted, Supported, Resolved

\* A step that leaves the files and what was accepted alone, and goes no further
\* than the next stage.
LEMMA FilesRest ==
  ASSUME FilesSound, job' = job, files' = files,
         (transformed' = transformed /\ inputfreq' = inputfreq) \/ stage \in Refusing,
         \/ stage' = stage /\ engine' = engine /\ transformed' = transformed /\ inputfreq' = inputfreq
         \/ stage \in Refusing /\ stage' \in Refusing \ {"spec"}
         \/ stage \in Behind1st /\ stage' \in {"decoder", "seek", "decode"}
         \/ stage' = "exit"
  PROVE  FilesSound'
<1>1. (Same <=> Same') /\ files' = [f \in FileSet |-> files'[f]]
  BY DEF FilesSound, Same
<1>2. Resolved' = Resolved /\ (Supported <=> Supported')
  BY DEF Supported, Resolved
<1>3. transformed' = transformed /\ inputfreq' = inputfreq => (Accepted <=> Accepted')
  BY AcceptedStays
<1>4. Same' => RefusedUntouched'
  BY DEF Same, RefusedUntouched
<1>5. files'["tbc"] = "new" /\ Accepted' => RefusedUntouched'
  BY DEF Accepted, RefusedUntouched
<1>6. RefusedUntouched'
  <2>1. CASE Same
    BY <2>1, <1>1, <1>4
  <2>2. CASE ~Same
    <3>1. files["tbc"] = "new" /\ Accepted
      BY <2>2 DEF FilesSound, RefusedUntouched, Same, Accepted
    <3>2. stage \notin Refusing
      BY <2>2 DEF FilesSound
    <3> QED BY <3>1, <3>2, <1>3, <1>5
  <2> QED BY <2>1, <2>2
<1>7. stage \in Behind1st => stage \notin Refusing
  BY DEF Behind1st, Refusing
<1>8. CASE stage' = stage /\ engine' = engine /\ transformed' = transformed /\ inputfreq' = inputfreq
  BY <1>1, <1>2, <1>3, <1>6, <1>8 DEF FilesSound
<1>9. CASE stage \in Refusing /\ stage' \in Refusing \ {"spec"}
  BY <1>1, <1>6, <1>9 DEF FilesSound, Refusing, Behind1st
<1>10. CASE stage \in Behind1st /\ stage' \in {"decoder", "seek", "decode"}
  BY <1>1, <1>3, <1>6, <1>7, <1>10 DEF FilesSound, Refusing, Behind1st
<1>11. CASE stage' = "exit"
  BY <1>1, <1>6, <1>11 DEF FilesSound, Refusing, Behind1st
<1> QED BY <1>8, <1>9, <1>10, <1>11

LEMMA InitEngineFiles ==
  ASSUME FilesSound, InitEngine
  PROVE  FilesSound'
<1>1. /\ stage = "engine"
      /\ IF Supported THEN stage' = "spec" /\ engine' = Resolved ELSE stage' = "exit" /\ engine' = engine
      /\ UNCHANGED <<job, transformed, inputfreq, files>>
  BY DEF InitEngine, Goes, Fails, inputVars, outVars
<1>2. CASE ~Supported
  BY <1>1, <1>2, FilesRest DEF Refusing
<1>3. CASE Supported
  <2>1. Resolved' = Resolved /\ Supported'
    BY <1>1, <1>3 DEF Supported, Resolved
  <2>2. Same /\ (Same <=> Same') /\ files' = [f \in FileSet |-> files'[f]]
    BY <1>1 DEF FilesSound, Same, Refusing
  <2>3. RefusedUntouched'
    BY <2>2 DEF Same, RefusedUntouched
  <2> QED BY <1>1, <1>3, <2>1, <2>2, <2>3 DEF FilesSound, Refusing, Behind1st
<1> QED BY <1>2, <1>3

LEMMA BuildSpecFiles ==
  ASSUME Opening, FilesSound, BuildSpec
  PROVE  FilesSound'
<1>1. /\ stage = "spec"
      /\ IF inputfreq < job.needs THEN stage' = "exit" /\ transformed' = transformed
         ELSE stage' = "tbc" /\ transformed' = {ActiveEngine}
      /\ UNCHANGED <<job, engine, inputfreq, files>>
  BY DEF BuildSpec, Goes, Fails, inputVars, outVars
<1>2. CASE inputfreq < job.needs
  BY <1>1, <1>2, FilesRest DEF Refusing
<1>3. CASE ~(inputfreq < job.needs)
  <2>1. Supported /\ engine = Resolved /\ Same
    BY <1>1 DEF FilesSound, Refusing
  <2>2. ActiveEngine = Resolved
    <3>1. Resolved # "none"
      BY <2>1 DEF Supported
    <3> QED BY <2>1, <3>1 DEF ActiveEngine
  <2>3. Accepted'
    <3>1. Resolved' = Resolved /\ Supported'
      BY <1>1, <2>1 DEF Supported, Resolved
    <3>2. inputfreq >= job.needs
      <4>1. inputfreq \in Nat /\ job.needs \in Nat
        BY JobsAssumption DEF Opening
      <4> QED BY <4>1, <1>3
    <3> QED BY <1>1, <1>3, <2>2, <3>1, <3>2 DEF Accepted
  <2>4. Same' /\ files' = [f \in FileSet |-> files'[f]]
    BY <1>1, <2>1 DEF FilesSound, Same
  <2>5. RefusedUntouched'
    BY <2>4 DEF Same, RefusedUntouched
  <2> QED BY <1>1, <1>3, <2>3, <2>4, <2>5 DEF FilesSound, Refusing, Behind1st
<1> QED BY <1>2, <1>3

LEMMA CreateFileFiles ==
  ASSUME FilesSound, CreateFile
  PROVE  FilesSound'
<1>1. /\ stage \in {"tbc", "json", "pcm", "efm", "db"} /\ stage' = Next_(stage)
      /\ files' = IF Wanted(stage) THEN [files EXCEPT ![stage] = "new"] ELSE files
      /\ UNCHANGED <<job, transformed, inputfreq>>
  BY FileNames DEF CreateFile, Goes, hostVars, inputVars
<1>2. stage' \in Behind1st /\ (stage = "tbc" => stage' = "json")
  BY <1>1, FileOrder DEF Behind1st
<1>3. Accepted /\ Accepted'
  <2>1. Accepted
    BY <1>1 DEF FilesSound, Behind1st
  <2> QED BY <2>1, <1>1, AcceptedStays
<1>4. files' = [f \in FileSet |-> files'[f]]
  BY <1>1 DEF FilesSound
<1>5. CASE job.stdout
  <2>1. ~Wanted(stage) /\ files' = files
    BY <1>1, <1>5 DEF Wanted
  <2>2. Same' /\ files'["json"] # "new"
    BY <2>1, <1>5 DEF FilesSound, Same
  <2>3. RefusedUntouched'
    BY <2>2 DEF Same, RefusedUntouched
  <2> QED BY <1>1, <1>2, <1>3, <1>4, <1>5, <2>2, <2>3 DEF FilesSound, Refusing, Behind1st
<1>6. CASE ~job.stdout
  <2>1. files'["tbc"] = "new"
    <3>1. CASE stage = "tbc"
      <4>1. Wanted(stage)
        BY <3>1, <1>6 DEF Wanted
      <4>2. "tbc" \in DOMAIN files
        <5>1. DOMAIN files = FileSet
          BY DEF FilesSound
        <5> QED BY <5>1, FileNames
      <4> QED BY <3>1, <4>1, <4>2, <1>1
    <3>2. CASE stage # "tbc"
      <4>1. files["tbc"] = "new"
        BY <3>2, <1>1, <1>6 DEF FilesSound, Behind1st
      <4> QED BY <3>2, <4>1, <1>1
    <3> QED BY <3>1, <3>2
  <2>2. RefusedUntouched'
    BY <2>1, <1>3 DEF Accepted, RefusedUntouched
  <2> QED BY <1>1, <1>2, <1>3, <1>4, <1>6, <2>1, <2>2 DEF FilesSound, Refusing, Behind1st
<1> QED BY <1>5, <1>6

\* The ends that take the JSON file away.
LEMMA RemovesFiles ==
  ASSUME FilesSound, stage \in Behind1st, stage' = "exit", RemoveJson,
         job' = job, transformed' = transformed, inputfreq' = inputfreq
  PROVE  FilesSound'
<1>1. Accepted /\ Accepted'
  <2>1. Accepted
    BY DEF FilesSound
  <2> QED BY <2>1, AcceptedStays
<1>2. files' = [f \in FileSet |-> files'[f]]
  BY DEF FilesSound, RemoveJson
<1>3. CASE job.stdout
  BY <1>3, FilesRest DEF RemoveJson
<1>4. CASE ~job.stdout
  <2>1. files'["tbc"] = "new"
    BY <1>4 DEF FilesSound, RemoveJson
  <2>2. RefusedUntouched'
    BY <2>1, <1>1 DEF Accepted, RefusedUntouched
  <2> QED BY <1>2, <1>4, <2>2 DEF FilesSound, Refusing, Behind1st
<1> QED BY <1>3, <1>4

LEMMA FilesSteps ==
  ASSUME Opening, FilesSound, [Next]_vars
  PROVE  FilesSound'
<1>1. ASSUME NEW opened \in BOOLEAN, InstallLog(opened) PROVE FilesSound'
  <2>1. /\ stage = "log" /\ stage' = "format"
        /\ UNCHANGED <<job, files, engine, transformed, inputfreq>>
    BY <1>1 DEF InstallLog, Goes, inputVars, outVars
  <2> QED BY <2>1, FilesRest DEF Refusing
<1>2. CASE ChooseFormat
  <2>1. /\ stage = "format" /\ stage' \in {"open", "exit"}
        /\ UNCHANGED <<job, files, engine, transformed, inputfreq>>
    BY <1>2 DEF ChooseFormat, Goes, Fails, hostVars, outVars
  <2> QED BY <2>1, FilesRest DEF Refusing
<1>3. CASE OpenFile \/ OpenPipe \/ OpenError
  <2>1. /\ stage = "open" /\ stage' \in {"engine", "exit"}
        /\ UNCHANGED <<job, files, engine, transformed>>
    BY <1>3 DEF OpenFile, OpenPipe, OpenError, Goes, Fails, hostVars, outVars
  <2> QED BY <2>1, FilesRest DEF Refusing
<1>4. CASE CreateFails
  <2>1. stage' = "exit" /\ UNCHANGED <<job, files, transformed, inputfreq>>
    BY <1>4 DEF CreateFails, Fails, hostVars, inputVars, outVars
  <2> QED BY <2>1, FilesRest
<1>5. CASE BuildDecoder \/ SeekDone
  <2>1. /\ stage \in {"decoder", "seek"} /\ stage' \in {"seek", "decode", "exit"}
        /\ UNCHANGED <<job, files, transformed, inputfreq>>
    BY <1>5 DEF BuildDecoder, SeekDone, Goes, Fails, hostVars, inputVars, outVars
  <2>2. stage \in Behind1st
    BY <2>1 DEF Behind1st
  <2> QED BY <2>1, <2>2, FilesRest
<1>6. CASE SeekFailed
  <2>1. stage = "seek" /\ stage' = "exit" /\ RemoveJson /\ UNCHANGED <<job, transformed, inputfreq>>
    BY <1>6 DEF SeekFailed, hostVars, inputVars
  <2> QED BY <2>1, RemovesFiles DEF Behind1st
<1>7. CASE DecodeEnds
  <2>1. /\ stage = "decode" /\ stage' = "exit" /\ (files' = files \/ RemoveJson)
        /\ UNCHANGED <<job, transformed, inputfreq>>
    BY <1>7 DEF DecodeEnds, hostVars, inputVars
  <2>2. stage \in Behind1st
    BY <2>1 DEF Behind1st
  <2>3. CASE files' = files
    BY <2>1, <2>3, FilesRest
  <2>4. CASE RemoveJson
    BY <2>1, <2>2, <2>4, RemovesFiles
  <2> QED BY <2>1, <2>3, <2>4
<1>8. CASE DecodeFails
  <2>1. stage' = "exit" /\ UNCHANGED <<job, files, transformed, inputfreq>>
    BY <1>8 DEF DecodeFails, Fails, hostVars, inputVars, outVars
  <2> QED BY <2>1, FilesRest
<1>9. CASE DecodeField \/ PipeFeeds \/ PipeReads \/ LastSend \/ Exited \/ UNCHANGED vars
  <2>1. stage' = stage /\ UNCHANGED <<job, files, engine, transformed, inputfreq>>
    BY <1>9 DEF DecodeField, PipeFeeds, PipeReads, LastSend, Exited, hostVars, inputVars, outVars, vars
  <2> QED BY <2>1, FilesRest
<1> QED BY <1>1, <1>2, <1>3, <1>4, <1>5, <1>6, <1>7, <1>8, <1>9,
           InitEngineFiles, BuildSpecFiles, CreateFileFiles DEF Next

LEMMA FilesHold == Spec => []FilesSound
<1>1. Init => FilesSound
  BY FilesStart
<1>2. Opening /\ FilesSound /\ [Next]_vars => FilesSound'
  BY FilesSteps
<1> QED BY <1>1, <1>2, OpeningHolds, PTL DEF Spec

\* A run that is refused has touched no file; one that has touched any has had
\* its engine and its parameters accepted, and transformed with no other engine;
\* for every choice of options, processor and capture.
THEOREM RefusedInvariant == Spec => []RefusedUntouched
<1>1. FilesSound => RefusedUntouched
  BY DEF FilesSound
<1> QED BY <1>1, FilesHold, PTL

-----------------------------------------------------------------------------
(* The JSON file.                                                          *)

\* Where the JSON file of a run that is not on stdout has been created.
BehindJson == {"pcm", "efm", "db", "decoder", "seek", "decode"}

\* Only the decode decodes, and only what is decoded is written; the JSON file
\* stays from its creation to the end.
JsonSound ==
    /\ fields => decoded
    /\ decoded => stage \in {"decode", "exit"}
    /\ stage \in BehindJson /\ ~job.stdout => files["json"] = "new"

\* A step that leaves the files and the fields alone, and enters no stage behind
\* the JSON file that it is not already in.
LEMMA JsonRests ==
  ASSUME JsonSound, UNCHANGED <<job, files, decoded, fields>>,
         \/ stage' = stage
         \/ stage' = "exit"
         \/ stage' \notin BehindJson /\ stage \notin {"decode", "exit"}
         \/ stage \in BehindJson /\ stage # "decode" /\ stage' \in BehindJson
  PROVE  JsonSound'
BY DEF JsonSound, BehindJson

LEMMA CreateFileJson ==
  ASSUME FilesSound, JsonSound, CreateFile
  PROVE  JsonSound'
<1>1. /\ stage \in {"tbc", "json", "pcm", "efm", "db"} /\ stage' = Next_(stage)
      /\ files' = IF Wanted(stage) THEN [files EXCEPT ![stage] = "new"] ELSE files
      /\ UNCHANGED <<job, decoded, fields>>
  BY FileNames DEF CreateFile, Goes
<1>2. ~decoded /\ ~fields
  BY <1>1 DEF JsonSound
<1>3. "json" \in DOMAIN files
  BY FileNames DEF FilesSound
<1>4. CASE stage = "tbc"
  BY <1>1, <1>2, <1>4, FileOrder DEF JsonSound, BehindJson
<1>5. CASE stage = "json"
  BY <1>1, <1>2, <1>3, <1>5 DEF JsonSound, Wanted
<1>6. CASE stage \in {"pcm", "efm", "db"}
  <2>1. ~job.stdout => files["json"] = "new"
    BY <1>6 DEF JsonSound, BehindJson
  <2>2. files'["json"] = files["json"]
    BY <1>1, <1>6
  <2> QED BY <1>1, <1>2, <2>1, <2>2 DEF JsonSound
<1> QED BY <1>1, <1>4, <1>5, <1>6

LEMMA JsonSteps ==
  ASSUME FilesSound, JsonSound, [Next]_vars
  PROVE  JsonSound'
<1>1. ASSUME NEW opened \in BOOLEAN, InstallLog(opened) PROVE JsonSound'
  BY <1>1, JsonRests DEF InstallLog, Goes, outVars, BehindJson
<1>2. CASE ChooseFormat \/ OpenFile \/ OpenPipe \/ OpenError \/ InitEngine \/ BuildSpec
  <2>1. /\ stage \in {"format", "open", "engine", "spec"}
        /\ stage' \in {"open", "engine", "spec", "tbc", "exit"}
        /\ UNCHANGED <<job, files, decoded, fields>>
    BY <1>2 DEF ChooseFormat, OpenFile, OpenPipe, OpenError, InitEngine, BuildSpec, Goes, Fails, outVars
  <2> QED BY <2>1, JsonRests DEF BehindJson
<1>3. CASE BuildDecoder \/ SeekDone
  <2>1. /\ stage \in {"decoder", "seek"} /\ stage' \in {"seek", "decode", "exit"}
        /\ UNCHANGED <<job, files, decoded, fields>>
    BY <1>3 DEF BuildDecoder, SeekDone, Goes, Fails, outVars
  <2> QED BY <2>1, JsonRests DEF BehindJson
<1>4. CASE CreateFails \/ DecodeFails
  <2>1. stage' = "exit" /\ UNCHANGED <<job, files, decoded, fields>>
    BY <1>4 DEF CreateFails, DecodeFails, Fails, outVars
  <2> QED BY <2>1, JsonRests
<1>5. CASE SeekFailed \/ DecodeEnds
  <2>1. stage' = "exit" /\ UNCHANGED <<decoded, fields>>
    BY <1>5 DEF SeekFailed, DecodeEnds
  <2> QED BY <2>1 DEF JsonSound, BehindJson
<1>6. CASE DecodeField
  <2>1. stage = "decode" /\ decoded' = TRUE /\ UNCHANGED <<job, stage, files>>
    BY <1>6 DEF DecodeField
  <2> QED BY <2>1 DEF JsonSound
<1>7. CASE PipeFeeds \/ PipeReads \/ LastSend \/ Exited \/ UNCHANGED vars
  <2>1. UNCHANGED <<job, stage, files, decoded, fields>>
    BY <1>7 DEF PipeFeeds, PipeReads, LastSend, Exited, outVars, vars
  <2> QED BY <2>1, JsonRests
<1> QED BY <1>1, <1>2, <1>3, <1>4, <1>5, <1>6, <1>7, CreateFileJson DEF Next

LEMMA JsonHolds == Spec => []JsonSound
<1>1. Init => JsonSound
  BY DEF Init, JsonSound, BehindJson
<1>2. FilesSound /\ JsonSound /\ [Next]_vars => JsonSound'
  BY JsonSteps
<1> QED BY <1>1, <1>2, FilesHold, PTL DEF Spec

\* The fields of a run are left with their JSON beside them, by every end the run
\* can come to; and a JSON file stays only behind a decoded field or an error that
\* main returns; for every choice of options, capture and device.
THEOREM JsonAction == Spec => JsonOfDecoded
<1>1. ASSUME FilesSound, JsonSound, [Next]_vars
      PROVE  [ stage # "exit" /\ stage' = "exit" =>
                 /\ files'["json"] = "new" => decoded \/ (status' = "error" /\ stage # "seek")
                 /\ fields /\ ~job.stdout => files'["json"] = "new" ]_vars
  <2> SUFFICES ASSUME Next, stage # "exit", stage' = "exit"
               PROVE  /\ files'["json"] = "new" => decoded \/ (status' = "error" /\ stage # "seek")
                      /\ fields /\ ~job.stdout => files'["json"] = "new"
    BY <1>1
  <2>1. RemoveJson => files'["json"] # "new"
    <3> SUFFICES ASSUME RemoveJson PROVE files'["json"] # "new"
      OBVIOUS
    <3>1. CASE job.stdout
      BY <1>1, <3>1 DEF FilesSound, RemoveJson
    <3>2. CASE ~job.stdout
      <4>1. "json" \in DOMAIN files
        BY <1>1, FileNames DEF FilesSound
      <4> QED BY <4>1, <3>2 DEF RemoveJson
    <3> QED BY <3>1, <3>2
  <2>2. fields => decoded /\ stage = "decode" /\ (~job.stdout => files["json"] = "new")
    BY <1>1 DEF JsonSound, BehindJson
  <2>3. ~CreateFile
    <3>1. CreateFile => stage' # "exit"
      BY FileNames, FileOrder DEF CreateFile, Goes
    <3> QED BY <3>1
  <2>4. CASE SeekFailed
    <3>1. stage = "seek" /\ RemoveJson
      BY <2>4 DEF SeekFailed
    <3> QED BY <3>1, <2>1, <2>2
  <2>5. CASE DecodeEnds
    <3>1. IF decoded THEN files' = files ELSE RemoveJson
      BY <2>5 DEF DecodeEnds
    <3> QED BY <3>1, <2>1, <2>2
  <2>6. ASSUME NEW opened \in BOOLEAN, InstallLog(opened) PROVE FALSE
    BY <2>6 DEF InstallLog, Goes
  <2>7. CASE \/ ChooseFormat \/ OpenFile \/ OpenPipe \/ OpenError \/ InitEngine \/ BuildSpec
             \/ CreateFails \/ BuildDecoder \/ SeekDone \/ DecodeField \/ DecodeFails
             \/ PipeFeeds \/ PipeReads \/ LastSend \/ Exited
    <3>1. files' = files /\ status' = "error" /\ stage # "seek"
      BY <2>7, FileNames DEF ChooseFormat, OpenFile, OpenPipe, OpenError, InitEngine, BuildSpec,
             CreateFails, BuildDecoder, SeekDone, DecodeField, DecodeFails,
             PipeFeeds, PipeReads, LastSend, Exited, Goes, Fails, outVars
    <3> QED BY <3>1, <2>2
  <2> QED BY <2>3, <2>4, <2>5, <2>6, <2>7 DEF Next
<1> QED BY <1>1, FilesHold, JsonHolds, PTL DEF Spec, JsonOfDecoded
=============================================================================
