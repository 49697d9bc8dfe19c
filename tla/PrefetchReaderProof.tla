------------------------ MODULE PrefetchReaderProof -------------------------
(***************************************************************************)
(* Proofs about the prefetching reader, for every input length, chunk and  *)
(* set of formats.                                                         *)
(***************************************************************************)
EXTENDS PrefetchReader, SequenceTheorems, TLAPS

Sample == Nat \union {Garbled}

-----------------------------------------------------------------------------
(* What the sources return has its type, and is of the same format.        *)

\* Products, quotients and remainders of the packed formats are numbers.
LEMMA Numbers ==
    ASSUME NEW a \in Nat, NEW b \in Nat
    PROVE  /\ a * b \in Nat
           /\ b > 0 => a \div b \in Nat /\ a % b \in Nat /\ a % b < b
  OBVIOUS

\* The smaller of two amounts, and what is left of one.
LEMMA Bounds ==
    ASSUME NEW m \in Nat, NEW n \in Nat
    PROVE  /\ Least(m, n) \in Nat /\ Least(m, n) <= m /\ Least(m, n) <= n
           /\ Left(m, n) \in Nat
  BY DEF Least, Left

\* The head and the rest of the pending samples are samples.
LEMMA Parts ==
    ASSUME NEW s \in Seq(Sample), NEW n \in Nat, n <= Len(s)
    PROVE  /\ Taken(s, n) \in Seq(Sample)
           /\ Dropped(s, n) \in Seq(Sample)
  <1>1. Taken(s, n) \in Seq(Sample)
    BY DEF Taken
  <1>2. Dropped(s, n) \in Seq(Sample)
    BY DEF Dropped
  <1> QED
    BY <1>1, <1>2

\* Dropping more than there is leaves nothing.
LEMMA DroppedTyped ==
    ASSUME NEW s \in Seq(Sample), NEW n \in Nat
    PROVE  Dropped(s, n) \in Seq(Sample)
  <1>1. CASE n <= Len(s)
    BY <1>1, Parts
  <1>2. CASE n > Len(s)
    <2>1. Dropped(s, n) = << >>
      BY <1>2 DEF Dropped
    <2> QED
      BY <2>1
  <1> QED
    BY <1>1, <1>2

\* A run of the input is a sequence of samples.
LEMMA Runs ==
    ASSUME NEW i \in Nat, NEW n \in Nat
    PROVE  Run(i, n) \in Seq(Sample)
  <1>1. \A k \in 1 .. n : i + k - 1 \in Nat
    OBVIOUS
  <1> QED
    BY <1>1 DEF Run, Sample

\* The size of a group is not zero, so it can be divided by.
LEMMA FormatTyped ==
    ASSUME NEW f \in Format
    PROVE  /\ f.samples \in Nat /\ f.samples > 0
           /\ f.bytes \in Nat /\ f.bytes > 0
  BY DEF Format

\* Whole groups unpack to as many samples as they hold.
LEMMA UnpackedTyped ==
    ASSUME NEW f \in Format, NEW b \in Nat, NEW n \in Nat
    PROVE  Unpacked(f, b, n) \in Seq(Sample) /\ Len(Unpacked(f, b, n)) = n * f.samples
  <1>1. b \div f.bytes \in Nat
    BY FormatTyped
  <1> DEFINE g == b \div f.bytes
             c == n * f.samples
  <1>2. c \in Nat /\ g * f.samples \in Nat
    BY <1>1, FormatTyped
  <1>3. \A k \in 1 .. c : g * f.samples + k - 1 \in Nat
    BY <1>2
  <1> QED
    BY <1>2, <1>3 DEF Unpacked, Sample

\* RawSource::read and the FLAC decoders.
LEMMA PlainTyped ==
    ASSUME NEW src \in Source, NEW len \in Nat, Length \in Nat
    PROVE  /\ PlainRead(src, len).src \in Source
           /\ PlainRead(src, len).src.format = src.format
           /\ PlainRead(src, len).data \in Seq(Sample)
  <1> DEFINE n == Least(len, Left(src.at, Length))
  <1>1. src.at \in Nat
    BY DEF Source
  <1>2. n \in Nat
    BY <1>1, Bounds
  <1>3. Run(src.at, n) \in Seq(Sample)
    BY <1>1, <1>2, Runs
  <1> HIDE DEF n
  <1> DEFINE next == [src EXCEPT !.at = @ + n]
  <1>4. next \in Source /\ next.format = src.format
    <2>1. src.at + n \in Nat
      BY <1>1, <1>2
    <2> QED
      BY <2>1 DEF Source
  <1>5. PlainRead(src, len).src = next /\ PlainRead(src, len).data = Run(src.at, n)
    BY DEF PlainRead, n
  <1> HIDE DEF next
  <1> QED
    BY <1>3, <1>4, <1>5

\* PackedSource::read.
LEMMA PackedTyped ==
    ASSUME NEW src \in Source, NEW len \in Nat, Length \in Nat
    PROVE  /\ PackedRead(src, len).src \in Source
           /\ PackedRead(src, len).src.format = src.format
           /\ PackedRead(src, len).data \in Seq(Sample)
  <1> DEFINE f == src.format
             n == Least(Len(src.pending), len)
             head == Taken(src.pending, n)
             served == [src EXCEPT !.pending = Dropped(@, n)]
             groups == (len - n) \div f.samples
             filled == Least(groups * f.bytes, Left(src.at, FileBytes(f)))
             data == Unpacked(f, src.at, filled \div f.bytes)
             next == [served EXCEPT !.at = @ + filled]
  <1>1. f \in Format /\ src.at \in Nat /\ src.pending \in Seq(Sample)
    BY DEF Source, Sample
  <1>2. n \in Nat /\ n <= Len(src.pending) /\ len - n \in Nat
    <2>1. Len(src.pending) \in Nat
      BY <1>1
    <2>2. n \in Nat /\ n <= Len(src.pending) /\ n <= len
      BY <2>1, Bounds
    <2> HIDE DEF n
    <2> QED
      BY <2>2
  <1>3. /\ f.samples \in Nat /\ f.samples > 0
        /\ f.bytes \in Nat /\ f.bytes > 0
    BY <1>1, FormatTyped
  <1>4. PackedRead(src, len) = IF n = len THEN [src |-> served, data |-> head]
                               ELSE [src |-> ReadRaw(served, len - n).src,
                                     data |-> head \o ReadRaw(served, len - n).data]
    BY DEF PackedRead
  <1>5. head \in Seq(Sample) /\ Dropped(src.pending, n) \in Seq(Sample)
    BY <1>1, <1>2, Parts
  <1> HIDE DEF n, head
  <1>6. served \in Source /\ served.format = f /\ served.at = src.at
    BY <1>1, <1>5 DEF Source, Sample
  <1>7. ReadRaw(served, len - n) = [src |-> next, data |-> data]
    BY <1>6 DEF ReadRaw
  <1>8. filled \in Nat
    <2>1. groups \in Nat /\ Length \div f.samples \in Nat
      BY <1>2, <1>3, Numbers
    <2> HIDE DEF groups, f
    <2>2. FileBytes(f) \in Nat /\ groups * f.bytes \in Nat
      BY <2>1, <1>3, Numbers DEF FileBytes
    <2> QED
      BY <2>2, <1>1, Bounds
  <1> HIDE DEF filled, served
  <1>9. data \in Seq(Sample)
    <2>1. filled \div f.bytes \in Nat
      BY <1>3, <1>8, Numbers
    <2> QED
      BY <2>1, <1>1, UnpackedTyped
  <1>10. next \in Source /\ next.format = f
    <2>1. src.at + filled \in Nat
      BY <1>1, <1>8
    <2>2. next = [served EXCEPT !.at = src.at + filled]
      BY <1>6
    <2> QED
      BY <2>1, <2>2, <1>6 DEF Source
  <1> HIDE DEF data, next, f
  <1>11. head \o data \in Seq(Sample)
    BY <1>5, <1>9
  <1> QED
    BY <1>4, <1>5, <1>6, <1>7, <1>10, <1>11 DEF f

\* PipeSource::read.
LEMMA PipeTyped ==
    ASSUME NEW src \in Source, NEW len \in Nat, Length \in Nat
    PROVE  /\ PipeRead(src, len).src \in Source
           /\ PipeRead(src, len).src.format = src.format
           /\ PipeRead(src, len).data \in Seq(Sample)
  <1> DEFINE spg == src.format.samples
             n == Least(Len(src.pending), len)
             whole == (len - n) \div spg
             groups == Least(whole, Left(src.at, Length) \div spg)
             at == src.at + groups * spg
             rest == (len - n) % spg
             more == groups = whole /\ rest > 0 /\ Left(at, Length) >= spg
             tail == IF more THEN Run(at, rest) ELSE << >>
             over == IF more THEN Run(at + rest, spg - rest) ELSE << >>
             data == Taken(src.pending, n) \o Run(src.at, groups * spg) \o tail
             stop == IF more THEN at + spg ELSE at
             kept == Dropped(src.pending, n) \o over
  <1>1. /\ src.format \in Format /\ src.at \in Nat /\ src.pos \in Nat
        /\ src.pending \in Seq(Sample)
    BY DEF Source, Sample
  <1>2. spg \in Nat /\ spg > 0
    BY <1>1, FormatTyped
  <1>3. n \in Nat /\ n <= Len(src.pending) /\ len - n \in Nat
    <2>1. Len(src.pending) \in Nat
      BY <1>1
    <2>2. n \in Nat /\ n <= Len(src.pending) /\ n <= len
      BY <2>1, Bounds
    <2> HIDE DEF n
    <2> QED
      BY <2>2
  <1>4. PipeRead(src, len) =
          [src |-> [src EXCEPT !.at = stop, !.pending = kept, !.pos = @ + Len(data)],
           data |-> data]
    BY DEF PipeRead
  <1>5. /\ Taken(src.pending, n) \in Seq(Sample)
        /\ Dropped(src.pending, n) \in Seq(Sample)
    BY <1>1, <1>3, Parts
  <1> HIDE DEF n, spg
  <1>6. whole \in Nat /\ rest \in Nat /\ rest < spg
    BY <1>2, <1>3, Numbers
  <1>7. Left(src.at, Length) \div spg \in Nat
    <2>1. Left(src.at, Length) \in Nat
      BY <1>1, Bounds
    <2> QED
      BY <2>1, <1>2, Numbers
  <1>8. groups \in Nat
    BY <1>6, <1>7, Bounds
  <1> HIDE DEF whole, rest, groups
  <1>9. groups * spg \in Nat
    BY <1>2, <1>8, Numbers
  <1>10. at \in Nat /\ spg - rest \in Nat /\ Run(src.at, groups * spg) \in Seq(Sample)
    <2>1. at \in Nat /\ spg - rest \in Nat
      BY <1>1, <1>2, <1>6, <1>9
    <2> QED
      BY <2>1, <1>1, <1>9, Runs
  <1> HIDE DEF at
  <1>11. Run(at, rest) \in Seq(Sample) /\ Run(at + rest, spg - rest) \in Seq(Sample)
    <2>1. at + rest \in Nat
      BY <1>6, <1>10
    <2> QED
      BY <2>1, <1>6, <1>10, Runs
  <1>12. tail \in Seq(Sample) /\ over \in Seq(Sample) /\ stop \in Nat
    BY <1>2, <1>10, <1>11
  <1> HIDE DEF tail, over, stop
  <1>13. data \in Seq(Sample) /\ kept \in Seq(Sample)
    BY <1>5, <1>10, <1>12
  <1> HIDE DEF data, kept
  <1>14. Len(data) \in Nat
    BY <1>13
  <1> DEFINE next == [src EXCEPT !.at = stop, !.pending = kept, !.pos = @ + Len(data)]
  <1>15. next \in Source /\ next.format = src.format
    <2>1. src.pos + Len(data) \in Nat
      BY <1>1, <1>14
    <2> QED
      BY <2>1, <1>12, <1>13 DEF Source, Sample
  <1>16. PipeRead(src, len).src = next /\ PipeRead(src, len).data = data
    BY <1>4
  <1> HIDE DEF next
  <1> QED
    BY <1>13, <1>15, <1>16

\* FfmpegSource::read.
LEMMA FfmpegTyped ==
    ASSUME NEW src \in Source, NEW len \in Nat, Length \in Nat
    PROVE  /\ FfmpegRead(src, len).src \in Source
           /\ FfmpegRead(src, len).src.format = src.format
           /\ FfmpegRead(src, len).data \in Seq(Sample)
  <1> DEFINE skip == Least(src.discard, Left(src.at, Length))
             n == Least(len, Left(src.at + skip, Length))
             data == Run(src.at + skip, n)
             next == [src EXCEPT !.at = @ + skip + n, !.discard = @ - skip, !.pos = @ + n]
  <1>1. src.at \in Nat /\ src.discard \in Nat /\ src.pos \in Nat
    BY DEF Source
  <1>2. skip \in Nat /\ skip <= src.discard
    BY <1>1, Bounds
  <1>3. FfmpegRead(src, len) = IF len = 0 THEN [src |-> src, data |-> << >>]
                               ELSE [src |-> next, data |-> data]
    BY DEF FfmpegRead
  <1> HIDE DEF skip
  <1>4. src.at + skip \in Nat /\ src.discard - skip \in Nat
    BY <1>1, <1>2
  <1>5. n \in Nat
    BY <1>4, Bounds
  <1> HIDE DEF n
  <1>6. data \in Seq(Sample)
    BY <1>4, <1>5, Runs
  <1>7. next \in Source /\ next.format = src.format
    <2>1. src.at + skip + n \in Nat /\ src.pos + n \in Nat
      BY <1>1, <1>4, <1>5
    <2> QED
      BY <2>1, <1>4 DEF Source
  <1> HIDE DEF data, next
  <1>8. CASE len = 0
    <2>1. FfmpegRead(src, len).src = src /\ FfmpegRead(src, len).data = << >>
      BY <1>3, <1>8
    <2> QED
      BY <2>1
  <1>9. CASE len # 0
    BY <1>3, <1>6, <1>7, <1>9
  <1> QED
    BY <1>8, <1>9

\* Every kind of source answers a read with samples.
LEMMA ReadTyped ==
    ASSUME NEW src \in Source, NEW len \in Nat, Length \in Nat
    PROVE  /\ ReadOf(src, len).src \in Source
           /\ ReadOf(src, len).src.format = src.format
           /\ ReadOf(src, len).data \in Seq(Sample)
  <1> DEFINE kind == src.format.source
  <1>1. CASE kind = "packed"
    BY <1>1, PackedTyped DEF ReadOf
  <1>2. CASE kind = "pipe"
    BY <1>2, PipeTyped DEF ReadOf
  <1>3. CASE kind = "ffmpeg"
    BY <1>3, FfmpegTyped DEF ReadOf
  <1>4. CASE kind \notin {"packed", "pipe", "ffmpeg"}
    BY <1>4, PlainTyped DEF ReadOf
  <1> QED
    BY <1>1, <1>2, <1>3, <1>4

\* PackedSource::seek_samples.
LEMMA PackedSeekTyped ==
    ASSUME NEW src \in Source, NEW s \in Nat, Length \in Nat
    PROVE  /\ PackedSeek(src, s) \in Source
           /\ PackedSeek(src, s).format = src.format
  <1> DEFINE f == src.format
             start == (s * f.bytes) \div f.samples
             offset == (s * f.bytes) % f.samples
             filled == Least(f.bytes, Left(start, FileBytes(f)))
             rest == Dropped(Unpacked(f, start, filled \div f.bytes), offset)
             aligned == [src EXCEPT !.at = start, !.pending = << >>]
             between == [src EXCEPT !.at = start + filled, !.pending = rest]
  <1>1. f \in Format
    BY DEF Source
  <1>2. /\ f.samples \in Nat /\ f.samples > 0
        /\ f.bytes \in Nat /\ f.bytes > 0
    BY <1>1, FormatTyped
  <1>3. PackedSeek(src, s) = IF offset = 0 THEN aligned ELSE between
    BY DEF PackedSeek
  <1> HIDE DEF f
  <1>4. start \in Nat /\ offset \in Nat
    <2>1. s * f.bytes \in Nat
      BY <1>2, Numbers
    <2> QED
      BY <2>1, <1>2, Numbers
  <1> HIDE DEF start, offset
  <1>5. filled \in Nat
    <2>1. FileBytes(f) \in Nat
      <3>1. Length \div f.samples \in Nat
        BY <1>2, Numbers
      <3> QED
        BY <3>1, <1>2, Numbers DEF FileBytes
    <2> QED
      BY <2>1, <1>2, <1>4, Bounds
  <1> HIDE DEF filled
  <1>6. rest \in Seq(Sample)
    <2>1. filled \div f.bytes \in Nat
      BY <1>2, <1>5, Numbers
    <2>2. Unpacked(f, start, filled \div f.bytes) \in Seq(Sample)
      BY <2>1, <1>1, <1>4, UnpackedTyped
    <2> QED
      BY <2>2, <1>4, DroppedTyped
  <1> HIDE DEF rest
  <1>7. aligned \in Source /\ aligned.format = src.format
    <2> DEFINE nothing == << >>
    <2>1. nothing \in Seq(Nat \union {Garbled})
      OBVIOUS
    <2>2. aligned = [src EXCEPT !.at = start, !.pending = nothing]
      OBVIOUS
    <2> HIDE DEF nothing, aligned
    <2> QED
      BY <1>4, <2>1, <2>2 DEF Source
  <1>8. between \in Source /\ between.format = src.format
    <2> DEFINE end == start + filled
    <2>1. end \in Nat /\ rest \in Seq(Nat \union {Garbled})
      BY <1>4, <1>5, <1>6 DEF Sample
    <2>2. between = [src EXCEPT !.at = end, !.pending = rest]
      OBVIOUS
    <2> HIDE DEF end, between
    <2> QED
      BY <2>1, <2>2 DEF Source
  <1> HIDE DEF aligned, between
  <1> QED
    BY <1>3, <1>7, <1>8

\* A seek that is not refused leaves a source of the same format.
LEMMA SeekTyped ==
    ASSUME NEW src \in Source, NEW s \in Nat, ~SeekRefused(src, s), Length \in Nat
    PROVE  /\ SeekOf(src, s) \in Source
           /\ SeekOf(src, s).format = src.format
  <1> DEFINE kind == src.format.source
  <1>1. kind \in {"raw", "packed", "pipe", "restart", "ffmpeg"}
    BY DEF Source, Format
  <1>2. src.pos \in Nat /\ src.discard \in Nat
    BY DEF Source
  <1>3. CASE kind = "raw"
    <2>1. SeekOf(src, s) = [src EXCEPT !.at = s]
      BY <1>3 DEF SeekOf, RawSeek
    <2> QED
      BY <2>1 DEF Source
  <1>4. CASE kind = "packed"
    BY <1>4, PackedSeekTyped DEF SeekOf
  <1>5. CASE kind = "pipe"
    <2>1. s - src.pos \in Nat
      BY <1>2, <1>5 DEF SeekRefused, ForwardOnly
    <2>2. SeekOf(src, s) = PipeRead(src, s - src.pos).src
      BY <1>5 DEF SeekOf, PipeSeek
    <2> QED
      BY <2>1, <2>2, PipeTyped
  <1>6. CASE kind = "restart"
    <2>1. Least(s, Length) \in Nat
      BY Bounds
    <2>2. SeekOf(src, s) = [src EXCEPT !.at = Least(s, Length)]
      BY <1>6 DEF SeekOf, RestartSeek
    <2> QED
      BY <2>1, <2>2 DEF Source
  <1>7. CASE kind = "ffmpeg"
    <2>1. src.discard + s - src.pos \in Nat
      BY <1>2, <1>7 DEF SeekRefused, ForwardOnly
    <2>2. SeekOf(src, s) = [src EXCEPT !.discard = src.discard + s - src.pos, !.pos = s]
      BY <1>7 DEF SeekOf, FfmpegSeek
    <2> QED
      BY <2>1, <2>2 DEF Source
  <1> QED
    BY <1>1, <1>3, <1>4, <1>5, <1>6, <1>7

\* The place a source stands at is a sample number.
LEMMA PositionTyped ==
    ASSUME NEW src \in Source, Length \in Nat
    PROVE  Position(src) \in Nat
  <1> DEFINE f == src.format
             group == (src.at \div f.bytes) * f.samples
             p == IF f.source = "packed" THEN group ELSE src.at
             m == Len(src.pending)
  <1>1. /\ f \in Format /\ src.at \in Nat /\ src.discard \in Nat
        /\ src.pending \in Seq(Sample)
    BY DEF Source, Sample
  <1>2. f.samples \in Nat /\ f.bytes \in Nat /\ f.bytes > 0
    BY <1>1, FormatTyped
  <1>3. Position(src) = Least(Left(m, p + src.discard), Length)
    BY DEF Position
  <1>4. m \in Nat
    BY <1>1
  <1>5. group \in Nat
    <2>1. src.at \div f.bytes \in Nat
      BY <1>1, <1>2, Numbers
    <2> QED
      BY <2>1, <1>2, Numbers
  <1> HIDE DEF group, m
  <1>6. p + src.discard \in Nat
    BY <1>1, <1>5
  <1> HIDE DEF p
  <1>7. Left(m, p + src.discard) \in Nat
    BY <1>4, <1>6, Bounds
  <1> QED
    BY <1>3, <1>7, Bounds

-----------------------------------------------------------------------------
(* The channels.  ChannelsCounted is inductive over typed channels; that   *)
(* the source keeps its format is what types the targets of a seek.        *)

DeadIsSilent == ~alive => requests = << >>

IInv ==
    /\ TypeOK
    /\ reader.src.format \in Formats
    /\ ChannelsCounted
    /\ DeadIsSilent

\* Taking the first message of a channel.
LEMMA Received ==
    ASSUME NEW S, NEW channel \in Seq(S), channel # << >>
    PROVE  /\ Head(channel) \in S
           /\ Tail(channel) \in Seq(S)
           /\ Len(channel) \in Nat /\ Len(channel) > 0
           /\ Len(Tail(channel)) = Len(channel) - 1
           /\ \A op : Only(op, channel) => Head(channel).op = op /\ Only(op, Tail(channel))
  <1>1. /\ Head(channel) \in S
        /\ Tail(channel) \in Seq(S)
        /\ Len(channel) \in Nat /\ Len(channel) > 0
        /\ Len(Tail(channel)) = Len(channel) - 1
        /\ Head(channel) = channel[1]
        /\ \A i \in 1 .. Len(Tail(channel)) : Tail(channel)[i] = channel[i + 1]
    OBVIOUS
  <1>2. ASSUME NEW op, Only(op, channel)
        PROVE  Head(channel).op = op /\ Only(op, Tail(channel))
    <2>1. Head(channel).op = op
      BY <1>1, <1>2 DEF Only
    <2>2. ASSUME NEW i \in 1 .. Len(Tail(channel))
          PROVE  Tail(channel)[i].op = op
      <3>1. i + 1 \in 1 .. Len(channel)
        BY <1>1
      <3> QED
        BY <3>1, <1>1, <1>2 DEF Only
    <2> QED
      BY <2>1, <2>2 DEF Only
  <1> QED
    BY <1>1, <1>2

\* Sending one more.
LEMMA Sent ==
    ASSUME NEW S, NEW channel \in Seq(S), NEW m \in S
    PROVE  /\ Append(channel, m) \in Seq(S)
           /\ Len(channel) \in Nat
           /\ Len(Append(channel, m)) = Len(channel) + 1
           /\ Only(m.op, channel) => Only(m.op, Append(channel, m))
  <1>1. /\ Append(channel, m) \in Seq(S)
        /\ Len(channel) \in Nat
        /\ Len(Append(channel, m)) = Len(channel) + 1
        /\ Append(channel, m)[Len(channel) + 1] = m
        /\ \A i \in 1 .. Len(channel) : Append(channel, m)[i] = channel[i]
    OBVIOUS
  <1>2. ASSUME Only(m.op, channel), NEW i \in 1 .. Len(channel) + 1
        PROVE  Append(channel, m)[i].op = m.op
    <2>1. CASE i = Len(channel) + 1
      BY <1>1, <2>1
    <2>2. CASE i \in 1 .. Len(channel)
      BY <1>1, <1>2, <2>2 DEF Only
    <2> QED
      BY <1>1, <2>1, <2>2
  <1> QED
    BY <1>1, <1>2 DEF Only

\* One request, one reply of the same kind.
LEMMA AnswerKeeps ==
    ASSUME IInv, NEW op \in {"read", "seek"}, Serve(op),
           NEW data \in Seq(Sample),
           NEW rdr \in [src : Source, eof : BOOLEAN], rdr.src.format \in Formats,
           Answer(op, data, rdr), fault' \in BOOLEAN
    PROVE  IInv'
  <1> DEFINE reply == Reply(op, data, rdr)
  <1>1. /\ requests \in Seq(Requests) /\ requests # << >> /\ Head(requests).op = op
        /\ replies \in Seq(Replies) /\ outstanding \in 0 .. QueueDepth /\ alive
    BY DEF IInv, TypeOK, Serve
  <1>2. rdr.src \in Source /\ rdr.eof \in BOOLEAN
    OBVIOUS
  <1>3. Position(rdr.src) \in Nat
    BY <1>2, PositionTyped, ReaderAssumption DEF ReaderAssumption
  <1>4. reply \in Replies /\ reply.op = op
    BY <1>2, <1>3 DEF Reply, Replies, Sample
  <1>5. /\ reader' = rdr /\ alive' = alive /\ pc' = pc /\ outstanding' = outstanding
        /\ requests' = Tail(requests) /\ replies' = Append(replies, reply)
        /\ UNCHANGED <<failed, target, got, here, split>>
    BY DEF Answer, handleVars
  <1> HIDE DEF reply
  <1>6. /\ requests' \in Seq(Requests) /\ replies' \in Seq(Replies)
        /\ Len(requests) \in Nat /\ Len(requests) > 0 /\ Len(replies) \in Nat
        /\ Len(requests') = Len(requests) - 1 /\ Len(replies') = Len(replies) + 1
    BY <1>1, <1>4, <1>5, Received, Sent
  <1>7. \A o : Only(o, requests) => op = o /\ Only(o, requests')
    BY <1>1, <1>5, Received
  <1>8. Only(op, replies) => Only(op, replies')
    BY <1>1, <1>4, <1>5, Sent
  <1>9. TypeOK'
    BY <1>5, <1>6 DEF IInv, TypeOK
  <1>10. ChannelsCounted'
    <2>1. CASE pc = "seek"
      BY <2>1, <1>1, <1>5, <1>6, <1>7, <1>8 DEF IInv, ChannelsCounted
    <2>2. CASE pc # "seek"
      BY <2>2, <1>1, <1>5, <1>6, <1>7, <1>8 DEF IInv, ChannelsCounted
    <2> QED
      BY <2>1, <2>2
  <1> QED
    BY <1>5, <1>9, <1>10 DEF IInv, DeadIsSilent

\* The steps of the thread: reads, seeks, their failures, and its death.
LEMMA WorkerKeeps ==
    ASSUME IInv, Worker
    PROVE  IInv'
  <1> DEFINE s == Head(requests).arg
             read == ReadOf(reader.src, s)
  <1>1. /\ reader.src \in Source /\ reader.eof \in BOOLEAN
        /\ reader \in [src : Source, eof : BOOLEAN]
        /\ reader.src.format \in Formats
        /\ fault \in BOOLEAN /\ alive \in BOOLEAN /\ requests \in Seq(Requests)
    BY DEF IInv, TypeOK
  <1>2. ASSUME requests # << >>
        PROVE  s \in Nat
    <2>1. Head(requests) \in Requests
      BY <1>1, <1>2, Received
    <2> QED
      BY <2>1 DEF Requests
  <1>3. Length \in Nat
    BY ReaderAssumption DEF ReaderAssumption
  <1>4. << >> \in Seq(Sample)
    OBVIOUS
  <1> DEFINE dead == [reader EXCEPT !.eof = TRUE]
  <1>5. dead \in [src : Source, eof : BOOLEAN] /\ dead.src.format \in Formats
    BY <1>1
  <1>6. CASE WorkerRead
    <2>1. Serve("read") /\ fault' = fault
      BY <1>6 DEF WorkerRead
    <2>2. CASE reader.eof
      <3>1. Answer("read", << >>, reader)
        BY <1>6, <2>2 DEF WorkerRead
      <3> QED
        BY <3>1, <2>1, <1>1, <1>4, AnswerKeeps
    <2>3. CASE ~reader.eof
      <3> DEFINE rdr == [reader EXCEPT !.src = read.src]
      <3>1. Answer("read", read.data, rdr)
        BY <1>6, <2>3 DEF WorkerRead
      <3>2. s \in Nat
        BY <2>1, <1>2 DEF Serve
      <3>3. /\ read.src \in Source /\ read.src.format = reader.src.format
            /\ read.data \in Seq(Sample)
        BY <3>2, <1>1, <1>3, ReadTyped
      <3> HIDE DEF read
      <3>4. rdr \in [src : Source, eof : BOOLEAN] /\ rdr.src.format \in Formats
        BY <3>3, <1>1
      <3> HIDE DEF rdr
      <3> QED
        BY <3>1, <3>3, <3>4, <2>1, <1>1, AnswerKeeps
    <2> QED
      BY <2>2, <2>3, <1>1
  <1>7. CASE WorkerReadFails
    <2>1. Serve("read") /\ fault' = TRUE /\ Answer("read", << >>, dead)
      BY <1>7 DEF WorkerReadFails
    <2> HIDE DEF dead
    <2> QED
      BY <2>1, <1>4, <1>5, AnswerKeeps
  <1>8. CASE WorkerSeek
    <2> DEFINE rdr == IF reader.eof THEN reader
                      ELSE IF SeekRefused(reader.src, s) THEN dead
                      ELSE [reader EXCEPT !.src = SeekOf(@, s)]
    <2>1. Serve("seek") /\ fault' = fault /\ Answer("seek", << >>, rdr)
      BY <1>8 DEF WorkerSeek
    <2>2. s \in Nat
      BY <2>1, <1>2 DEF Serve
    <2> HIDE DEF s, dead
    <2>3. ASSUME ~SeekRefused(reader.src, s)
          PROVE  SeekOf(reader.src, s) \in Source
                 /\ SeekOf(reader.src, s).format = reader.src.format
      BY <2>2, <2>3, <1>1, <1>3, SeekTyped
    <2>4. rdr \in [src : Source, eof : BOOLEAN] /\ rdr.src.format \in Formats
      BY <2>3, <1>1, <1>5
    <2> HIDE DEF rdr
    <2> QED
      BY <2>1, <2>4, <1>1, <1>4, AnswerKeeps
  <1>9. CASE WorkerSeekFails
    <2>1. Serve("seek") /\ fault' = TRUE /\ Answer("seek", << >>, dead)
      BY <1>9 DEF WorkerSeekFails
    <2> HIDE DEF dead
    <2> QED
      BY <2>1, <1>4, <1>5, AnswerKeeps
  <1>10. CASE WorkerDies
    <2>1. /\ requests' = << >> /\ alive' = FALSE /\ fault' = TRUE /\ alive
          /\ UNCHANGED <<reader, replies, outstanding, failed, pc, target, got, here, split>>
      BY <1>10 DEF WorkerDies, handleVars
    <2>2. requests' \in Seq(Requests) /\ Len(requests') = 0
      BY <2>1
    <2>3. TypeOK'
      BY <2>1, <2>2 DEF IInv, TypeOK
    <2>4. Len(requests) \in Nat /\ Len(replies) \in Nat
      BY DEF IInv, TypeOK
    <2>5. \A op : Only(op, requests')
      BY <2>2 DEF Only
    <2>6. \A op : Only(op, replies) => Only(op, replies')
      BY <2>1 DEF Only
    <2>7. ChannelsCounted'
      BY <2>1, <2>4, <2>5, <2>6 DEF IInv, ChannelsCounted, TypeOK
    <2> QED
      BY <2>1, <2>3, <2>7 DEF IInv, DeadIsSilent
  <1> QED
    BY <1>6, <1>7, <1>8, <1>9, <1>10 DEF Worker

\* What a reply tells the caller of its place.
LEMMA AfterTyped ==
    ASSUME here \in [pos : Nat, health : {"ok", "dead"}], NEW reply \in Replies
    PROVE  After(reply) \in [pos : Nat, health : {"ok", "dead"}]
  BY DEF After, Replies

\* The steps of prefetch(), take() and seek_samples().
LEMMA HandleKeeps ==
    ASSUME IInv, Call \/ \E s \in Targets(reader.src.format) : BeginSeek(s)
    PROVE  IInv'
  <1>1. /\ requests \in Seq(Requests) /\ replies \in Seq(Replies)
        /\ Len(requests) \in Nat /\ Len(replies) \in Nat
        /\ outstanding \in 0 .. QueueDepth /\ target \in Nat
        /\ here \in [pos : Nat, health : {"ok", "dead"}]
        /\ reader.src.format \in Formats /\ alive \in BOOLEAN
        /\ pc \in {"idle", "refill", "flush", "seek", "error"}
    BY DEF IInv, TypeOK
  <1>2. Chunk \in Nat /\ \A f \in Formats : Targets(f) \subseteq Nat
    BY ReaderAssumption DEF ReaderAssumption
  <1>3. CASE Prefetch
    <2> DEFINE m == [op |-> "read", arg |-> Chunk]
    <2>1. /\ pc \in {"idle", "refill"} /\ alive /\ outstanding < QueueDepth
          /\ pc' = "refill" /\ outstanding' = outstanding + 1
          /\ requests' = Append(requests, m)
          /\ split' = (split \/ Splits(reader.src.format, Chunk))
          /\ UNCHANGED <<reader, alive, fault, replies, failed, target, got, here>>
      BY <1>3 DEF Prefetch, Gone
    <2>2. m \in Requests /\ m.op = "read"
      BY <1>2 DEF Requests
    <2> HIDE DEF m
    <2>3. /\ requests' \in Seq(Requests) /\ Len(requests') = Len(requests) + 1
          /\ Only("read", requests) => Only("read", requests')
      BY <2>1, <2>2, <1>1, Sent
    <2>4. TypeOK'
      <3>1. split' \in BOOLEAN
        BY <2>1
      <3> QED
        BY <2>1, <2>3, <3>1 DEF IInv, TypeOK, QueueDepth
    <2>5. ChannelsCounted'
      BY <2>1, <2>3, <1>1 DEF IInv, ChannelsCounted, Only
    <2> QED
      BY <2>1, <2>4, <2>5 DEF IInv, DeadIsSilent
  <1>4. CASE PrefetchRefused
    <2>1. /\ pc \in {"idle", "refill"} /\ pc' = "refill" /\ failed' = TRUE
          /\ UNCHANGED <<reader, alive, fault, requests, replies, outstanding, target, got, here, split>>
      BY <1>4 DEF PrefetchRefused
    <2>2. TypeOK'
      BY <2>1 DEF IInv, TypeOK
    <2>3. ChannelsCounted'
      BY <2>1 DEF IInv, ChannelsCounted, Only
    <2> QED
      BY <2>1, <2>2, <2>3 DEF IInv, DeadIsSilent
  <1>5. CASE Take
    <2>1. /\ pc = "refill" /\ outstanding = QueueDepth /\ replies # << >>
          /\ replies' = Tail(replies) /\ outstanding' = outstanding - 1
          /\ got' = Head(replies).data /\ here' = After(Head(replies)) /\ pc' = "idle"
          /\ UNCHANGED <<reader, alive, fault, requests, failed, target, split>>
      BY <1>5 DEF Take, Receive
    <2>2. /\ Head(replies) \in Replies /\ replies' \in Seq(Replies)
          /\ Len(replies') = Len(replies) - 1
          /\ Only("read", replies) => Only("read", replies')
      BY <2>1, <1>1, Received
    <2>3. /\ here' \in [pos : Nat, health : {"ok", "dead"}]
          /\ got' \in Seq(Nat \union {Garbled})
      <3>1. Head(replies).data \in Seq(Nat \union {Garbled})
        BY <2>2 DEF Replies
      <3> QED
        BY <2>1, <2>2, <3>1, <1>1, AfterTyped
    <2>4. TypeOK'
      BY <2>1, <2>2, <2>3 DEF IInv, TypeOK, QueueDepth
    <2>5. ChannelsCounted'
      BY <2>1, <2>2, <1>1 DEF IInv, ChannelsCounted, Only, QueueDepth
    <2> QED
      BY <2>1, <2>4, <2>5 DEF IInv, DeadIsSilent
  <1>6. CASE Flush
    <2>1. /\ pc = "flush" /\ outstanding > 0 /\ replies # << >>
          /\ replies' = Tail(replies) /\ outstanding' = outstanding - 1
          /\ UNCHANGED <<reader, alive, fault, requests, failed, pc, target, got, here, split>>
      BY <1>6 DEF Flush, Receive
    <2>2. /\ replies' \in Seq(Replies) /\ Len(replies') = Len(replies) - 1
          /\ Only("read", replies) => Only("read", replies')
      BY <2>1, <1>1, Received
    <2>3. TypeOK'
      BY <2>1, <2>2 DEF IInv, TypeOK, QueueDepth
    <2>4. ChannelsCounted'
      BY <2>1, <2>2, <1>1 DEF IInv, ChannelsCounted, Only, QueueDepth
    <2> QED
      BY <2>1, <2>3, <2>4 DEF IInv, DeadIsSilent
  <1>7. CASE SendSeek
    <2> DEFINE m == [op |-> "seek", arg |-> target]
    <2>1. /\ pc = "flush" /\ outstanding = 0 /\ alive /\ pc' = "seek"
          /\ requests' = Append(requests, m)
          /\ UNCHANGED <<reader, alive, fault, replies, outstanding, failed, target, got, here, split>>
      BY <1>7 DEF SendSeek, Gone
    <2>2. m \in Requests /\ m.op = "seek"
      BY <1>1 DEF Requests
    <2> HIDE DEF m
    <2>3. /\ requests' \in Seq(Requests) /\ Len(requests') = Len(requests) + 1
          /\ Only("seek", requests) => Only("seek", requests')
      BY <2>1, <2>2, <1>1, Sent
    <2>4. Len(requests) = 0 /\ Len(replies) = 0
      BY <2>1, <1>1 DEF IInv, ChannelsCounted
    <2>5. Only("seek", requests) /\ Only("seek", replies')
      BY <2>1, <2>4 DEF Only
    <2>6. TypeOK'
      BY <2>1, <2>3 DEF IInv, TypeOK
    <2>7. ChannelsCounted'
      BY <2>1, <2>3, <2>4, <2>5 DEF ChannelsCounted
    <2> QED
      BY <2>1, <2>6, <2>7 DEF IInv, DeadIsSilent
  <1>8. CASE SeekDone
    <2>1. /\ pc = "seek" /\ replies # << >> /\ replies' = Tail(replies)
          /\ got' = << >> /\ here' = After(Head(replies)) /\ pc' = "idle"
          /\ UNCHANGED <<reader, alive, fault, requests, outstanding, failed, target, split>>
      BY <1>8 DEF SeekDone, Receive
    <2>2. /\ Head(replies) \in Replies /\ replies' \in Seq(Replies)
          /\ Len(replies) > 0 /\ Len(replies') = Len(replies) - 1
      BY <2>1, <1>1, Received
    <2>3. /\ here' \in [pos : Nat, health : {"ok", "dead"}]
          /\ got' \in Seq(Nat \union {Garbled})
      BY <2>1, <2>2, <1>1, AfterTyped
    <2>4. TypeOK'
      BY <2>1, <2>2, <2>3 DEF IInv, TypeOK
    <2>5. /\ outstanding = 0 /\ Len(replies') = 0
          /\ alive => Len(requests) = 0
      BY <2>1, <2>2, <1>1 DEF IInv, ChannelsCounted
    <2>6. Len(requests) = 0
      BY <2>5 DEF IInv, DeadIsSilent
    <2>7. Only("read", requests') /\ Only("read", replies') /\ Len(requests') = 0
      <3>1. Len(replies') = 0 /\ Len(requests') = 0
        BY <2>1, <2>5, <2>6
      <3>2. \A i : i \notin 1 .. 0
        OBVIOUS
      <3> QED
        BY <3>1, <3>2 DEF Only
    <2>8. ChannelsCounted'
      BY <2>1, <2>5, <2>7 DEF ChannelsCounted
    <2> QED
      BY <2>1, <2>4, <2>8 DEF IInv, DeadIsSilent
  <1>9. CASE Died
    <2>1. /\ failed' = TRUE /\ pc' = "error" /\ ~alive
          /\ pc = "seek" => Len(replies) = 0
          /\ UNCHANGED <<reader, alive, fault, requests, replies, outstanding, target, got, here, split>>
      BY <1>9 DEF Died, Gone, Unanswered, Waiting
    <2>2. TypeOK'
      BY <2>1 DEF IInv, TypeOK
    <2>3. Len(requests) = 0
      BY <2>1 DEF IInv, DeadIsSilent
    <2>4. ChannelsCounted'
      BY <2>1, <2>3, <1>1 DEF IInv, ChannelsCounted, Only
    <2> QED
      BY <2>1, <2>2, <2>4 DEF IInv, DeadIsSilent
  <1>10. CASE \E s \in Targets(reader.src.format) : BeginSeek(s)
    <2>1. PICK s \in Targets(reader.src.format) : BeginSeek(s)
      BY <1>10
    <2>2. /\ pc = "idle" /\ pc' = "flush" /\ target' = s /\ s \in Nat
          /\ split' = (split \/ Splits(reader.src.format, s))
          /\ UNCHANGED <<reader, alive, fault, requests, replies, outstanding, failed, got, here>>
      BY <2>1, <1>1, <1>2 DEF BeginSeek
    <2>3. TypeOK'
      <3>1. split' \in BOOLEAN
        BY <2>2
      <3> QED
        BY <2>2, <3>1 DEF IInv, TypeOK
    <2>4. ChannelsCounted'
      BY <2>2 DEF IInv, ChannelsCounted, Only
    <2> QED
      BY <2>2, <2>3, <2>4 DEF IInv, DeadIsSilent
  <1> QED
    BY <1>3, <1>4, <1>5, <1>6, <1>7, <1>8, <1>9, <1>10 DEF Call

\* The reader starts with empty channels, over a source that is just opened.
LEMMA InitTyped ==
    ASSUME Init
    PROVE  IInv
  <1>1. PICK f \in Formats : reader = [src |-> Open(f), eof |-> FALSE]
    BY DEF Init
  <1>2. f \in Format
    BY ReaderAssumption DEF ReaderAssumption
  <1>3. Open(f) \in Source /\ Open(f).format = f
    BY <1>2 DEF Open, Source
  <1>4. TypeOK
    <2>1. reader \in [src : Source, eof : BOOLEAN]
      BY <1>1, <1>3
    <2>2. /\ requests \in Seq(Requests) /\ replies \in Seq(Replies)
          /\ got \in Seq(Nat \union {Garbled})
      BY DEF Init
    <2>3. here \in [pos : Nat, health : {"ok", "dead"}]
      BY DEF Init
    <2>4. /\ alive \in BOOLEAN /\ fault \in BOOLEAN /\ failed \in BOOLEAN
          /\ pc \in {"idle", "refill", "flush", "seek", "error"} /\ split \in BOOLEAN
      BY Zenon DEF Init
    <2>5. outstanding \in 0 .. QueueDepth /\ target \in Nat
      BY DEF Init, QueueDepth
    <2> QED
      BY <2>1, <2>2, <2>3, <2>4, <2>5 DEF TypeOK
  <1>5. ChannelsCounted
    BY DEF Init, ChannelsCounted, Only
  <1>6. DeadIsSilent
    BY DEF Init, DeadIsSilent
  <1> QED
    BY <1>1, <1>3, <1>4, <1>5, <1>6 DEF IInv, DeadIsSilent

\* No step of either side breaks it.
LEMMA ReaderKept ==
    ASSUME IInv, [Next]_vars
    PROVE  IInv'
  <1>1. CASE Next
    BY <1>1, WorkerKeeps, HandleKeeps DEF Next
  <1>2. CASE UNCHANGED vars
    BY <1>2 DEF vars, handleVars, IInv, TypeOK, ChannelsCounted, Only, DeadIsSilent
  <1> QED
    BY <1>1, <1>2

\* The count that the handle keeps is the number of reads in its channels,
\* and a seek is in them only alone and while its caller waits (ChannelsCounted):
\* for every input, chunk and set of formats, with every failure of the thread.
THEOREM ReaderInvariant == Spec => [](TypeOK /\ ChannelsCounted)
  <1>1. Init => IInv
    BY InitTyped
  <1>2. IInv /\ [Next]_vars => IInv'
    BY ReaderKept
  <1>3. IInv => TypeOK /\ ChannelsCounted
    BY DEF IInv, DeadIsSilent
  <1> QED
    BY <1>1, <1>2, <1>3, PTL DEF Spec

-----------------------------------------------------------------------------
(* What the sources deliver: runs of the input, from where they stand.     *)

\* Whole groups divide back.
LEMMA Whole ==
    ASSUME NEW g \in Nat, NEW b \in Nat, b > 0
    PROVE  (g * b) \div b = g /\ (g * b) % b = 0
  <1>1. g * b \in Nat
    OBVIOUS
  <1> QED
    BY <1>1

\* A multiple is so many groups.
LEMMA Groups ==
    ASSUME NEW n \in Nat, NEW b \in Nat, b > 0, n % b = 0
    PROVE  n \div b \in Nat /\ n = (n \div b) * b
  OBVIOUS

\* Groups compare as what they hold does.
LEMMA GroupsOrdered ==
    ASSUME NEW g \in Nat, NEW h \in Nat, NEW b \in Nat, b > 0
    PROVE  /\ g <= h <=> g * b <= h * b
           /\ g < h <=> g * b < h * b
           /\ (g + h) * b = g * b + h * b
           /\ g <= h => (h - g) * b = h * b - g * b
  OBVIOUS

\* A run of no samples is nothing, and it is as long as it says.
LEMMA RunOf ==
    ASSUME NEW i \in Nat, NEW n \in Nat
    PROVE  /\ Len(Run(i, n)) = n
           /\ Run(i, 0) = << >>
           /\ Run(i, n) \in Seq(Nat)
  BY DEF Run

\* Two runs side by side are one.
Join(i, m, n) == Run(i, m) \o Run(i + m, n) = Run(i, m + n)

LEMMA RunsJoin ==
    ASSUME NEW i \in Nat, NEW m \in Nat, NEW n \in Nat
    PROVE  Join(i, m, n)
  BY DEF Join, Run

\* A run is cut into two.
Part(i, m, n) ==
    /\ Taken(Run(i, m), n) = Run(i, n)
    /\ Dropped(Run(i, m), n) = Run(i + n, m - n)

LEMMA RunsPart ==
    ASSUME NEW i \in Nat, NEW m \in Nat, NEW n \in Nat, n <= m
    PROVE  Part(i, m, n)
  BY DEF Part, Run, Taken, Dropped

\* What a source is asked for is in whole groups, if it is a packed file.
Fits(f, n) == f.source = "packed" => n % f.samples = 0

\* An input of packed samples is whole groups.
WholeGroups(f) == f.source \in {"packed", "pipe"} => Length % f.samples = 0

\* Where the source stands between two calls, as long as none has failed.
Well(src) ==
    LET f == src.format
    IN  /\ f.source \in {"raw", "restart"} => src.pending = << >> /\ src.discard = 0
        /\ f.source = "packed" =>
            src.pending = << >> /\ src.discard = 0 /\ src.at % f.bytes = 0
        /\ f.source = "pipe" =>
            /\ src.discard = 0
            /\ src.at % f.samples = 0
            /\ src.at <= Length
            /\ src.pos + Len(src.pending) = src.at
            /\ src.pending = Run(src.pos, Len(src.pending))
        /\ f.source = "ffmpeg" =>
            /\ src.pending = << >>
            /\ src.at <= Length
            /\ src.pos = src.at + src.discard

\* What a read of len samples at a place yields.
Yield(p, len) == Least(len, Left(p, Length))

\* A read delivers the samples behind the place, and moves on by as many.
Delivers(src, len) ==
    LET p == Position(src)
        done == ReadOf(src, len)
    IN  /\ done.data = Run(p, Yield(p, len))
        /\ Position(done.src) = p + Yield(p, len)
        /\ Well(done.src)

\* The place of a source.
LEMMA PositionIs ==
    ASSUME NEW src \in Source, Length \in Nat, Well(src)
    PROVE  /\ src.format.source \in {"raw", "restart"} =>
                Position(src) = Least(src.at, Length)
           /\ src.format.source = "packed" =>
                Position(src) = Least((src.at \div src.format.bytes) * src.format.samples, Length)
           /\ src.format.source = "pipe" => Position(src) = src.pos
           /\ src.format.source = "ffmpeg" => Position(src) = Least(src.pos, Length)
  <1>1. /\ src.at \in Nat /\ src.discard \in Nat /\ src.pos \in Nat
        /\ src.pending \in Seq(Sample) /\ Len(src.pending) \in Nat
        /\ src.format \in Format
    BY DEF Source, Sample
  <1>2. CASE src.format.source \in {"raw", "restart"}
    <2>1. Position(src) = Least(Left(Len(src.pending), src.at + src.discard), Length)
      BY <1>2 DEF Position
    <2>2. Len(src.pending) = 0 /\ src.discard = 0
      BY <1>2 DEF Well
    <2>3. Left(Len(src.pending), src.at + src.discard) = src.at
      BY <1>1, <2>2 DEF Left
    <2> QED
      BY <1>2, <2>1, <2>3
  <1>3. CASE src.format.source = "packed"
    <2> DEFINE q == (src.at \div src.format.bytes) * src.format.samples
    <2>1. Position(src) = Least(Left(Len(src.pending), q + src.discard), Length)
      BY <1>3 DEF Position
    <2>2. Len(src.pending) = 0 /\ src.discard = 0
      BY <1>3 DEF Well
    <2>3. q \in Nat
      <3>1. src.at \div src.format.bytes \in Nat
        BY <1>1, FormatTyped, Numbers
      <3> QED
        BY <3>1, <1>1, FormatTyped, Numbers
    <2> HIDE DEF q
    <2>4. Left(Len(src.pending), q + src.discard) = q
      BY <2>2, <2>3 DEF Left
    <2> QED
      BY <1>3, <2>1, <2>4 DEF q
  <1>4. CASE src.format.source = "pipe"
    <2>1. Position(src) = Least(Left(Len(src.pending), src.at + src.discard), Length)
      BY <1>4 DEF Position
    <2>2. src.discard = 0 /\ src.pos + Len(src.pending) = src.at /\ src.at <= Length
      BY <1>4 DEF Well
    <2>3. Left(Len(src.pending), src.at + src.discard) = src.pos
      BY <1>1, <2>2 DEF Left
    <2>4. Least(src.pos, Length) = src.pos
      BY <1>1, <2>2 DEF Least
    <2> QED
      BY <1>4, <2>1, <2>3, <2>4
  <1>5. CASE src.format.source = "ffmpeg"
    <2>1. Position(src) = Least(Left(Len(src.pending), src.at + src.discard), Length)
      BY <1>5 DEF Position
    <2>2. Len(src.pending) = 0 /\ src.pos = src.at + src.discard
      BY <1>5 DEF Well
    <2>3. Left(Len(src.pending), src.at + src.discard) = src.pos
      BY <1>1, <2>2 DEF Left
    <2> QED
      BY <1>5, <2>1, <2>3
  <1> QED
    BY <1>2, <1>3, <1>4, <1>5

\* RawSource::read and the FLAC decoders.
LEMMA PlainDelivers ==
    ASSUME NEW src \in Source, NEW len \in Nat, Length \in Nat, Well(src),
           src.format.source \in {"raw", "restart"}
    PROVE  Delivers(src, len)
  <1> DEFINE n == Least(len, Left(src.at, Length))
             next == [src EXCEPT !.at = @ + n]
             p == Least(src.at, Length)
  <1>1. src.at \in Nat /\ src.pending = << >> /\ src.discard = 0
    BY DEF Source, Well
  <1>2. Position(src) = p
    BY PositionIs
  <1>3. n \in Nat /\ p \in Nat /\ n = Yield(p, len) /\ Least(src.at + n, Length) = p + n
        /\ (n = 0 \/ p = src.at)
    BY <1>1 DEF Least, Left, Yield
  <1>4. ReadOf(src, len) = [src |-> next, data |-> Run(src.at, n)]
    BY DEF ReadOf, PlainRead
  <1>5. Run(src.at, n) = Run(p, n)
    BY <1>1, <1>3, RunOf
  <1> HIDE DEF n, p
  <1>6. next \in Source /\ next.format = src.format /\ next.at = src.at + n
        /\ next.pending = << >> /\ next.discard = 0
    <2>1. src.at + n \in Nat
      BY <1>1, <1>3
    <2> QED
      BY <2>1, <1>1 DEF Source
  <1> HIDE DEF next
  <1>7. Well(next)
    BY <1>6 DEF Well
  <1>8. Position(next) = p + n
    BY <1>3, <1>6, <1>7, PositionIs
  <1>9. ReadOf(src, len).src = next /\ ReadOf(src, len).data = Run(src.at, n)
    BY <1>4
  <1> QED
    BY <1>2, <1>3, <1>5, <1>7, <1>8, <1>9 DEF Delivers

\* What is dropped and what is read, from a place, of an input of so many samples.
LEMMA SkipAndRead ==
    ASSUME NEW at \in Nat, NEW discard \in Nat, NEW len \in Nat, NEW end \in Nat,
           at <= end,
           NEW skip, skip = Least(discard, Left(at, end)),
           NEW p, p = Least(at + discard, end),
           NEW n, n = Least(len, Left(at + skip, end))
    PROVE  /\ skip \in Nat /\ skip <= discard /\ at + skip = p
           /\ n \in Nat /\ p \in Nat /\ n = Least(len, Left(p, end))
           /\ Least(at + discard + n, end) = p + n
           /\ at + skip + n <= end
           /\ len = 0 => n = 0
           /\ at + skip + n \in Nat /\ discard - skip \in Nat
           /\ at + discard + n = (at + skip + n) + (discard - skip)
  <1>1. CASE discard <= end - at
    <2>1. skip = discard /\ p = at + discard /\ at + skip = p
      BY <1>1 DEF Least, Left
    <2>2. n = Least(len, end - p) /\ n = Least(len, Left(p, end)) /\ n \in Nat /\ n <= end - p
      BY <1>1, <2>1 DEF Least, Left
    <2> QED
      BY <1>1, <2>1, <2>2 DEF Least
  <1>2. CASE discard > end - at
    <2>1. skip = end - at /\ p = end /\ at + skip = p
      BY <1>2 DEF Least, Left
    <2>2. n = 0 /\ n = Least(len, Left(p, end))
      BY <1>2, <2>1 DEF Least, Left
    <2> QED
      BY <1>2, <2>1, <2>2 DEF Least
  <1> QED
    BY <1>1, <1>2

\* FfmpegSource::read: what is still to be dropped is dropped first.
LEMMA FfmpegDelivers ==
    ASSUME NEW src \in Source, NEW len \in Nat, Length \in Nat, Well(src),
           src.format.source = "ffmpeg"
    PROVE  Delivers(src, len)
  <1> DEFINE at == src.at
             drop == src.discard
             skip == Least(drop, Left(at, Length))
             n == Least(len, Left(at + skip, Length))
             next == [src EXCEPT !.at = at + skip + n, !.discard = drop - skip,
                                 !.pos = src.pos + n]
             p == Least(at + drop, Length)
  <1>1. /\ at \in Nat /\ drop \in Nat /\ src.pos \in Nat
        /\ src.pending = << >> /\ at <= Length /\ src.pos = at + drop
    BY DEF Source, Well
  <1>2. Position(src) = p
    BY <1>1, PositionIs
  <1>3. ReadOf(src, len) = IF len = 0 THEN [src |-> src, data |-> << >>]
                           ELSE [src |-> next, data |-> Run(at + skip, n)]
    BY DEF ReadOf, FfmpegRead
  <1> HIDE DEF at, drop
  <1>4. /\ skip \in Nat /\ skip <= drop /\ at + skip = p
        /\ n \in Nat /\ p \in Nat /\ n = Least(len, Left(p, Length))
        /\ Least(at + drop + n, Length) = p + n
        /\ at + skip + n <= Length
        /\ len = 0 => n = 0
        /\ at + skip + n \in Nat /\ drop - skip \in Nat
        /\ at + drop + n = (at + skip + n) + (drop - skip)
    <2>1. at \in Nat /\ drop \in Nat /\ at <= Length
      BY <1>1
    <2> QED
      BY ONLY <2>1, SkipAndRead, len \in Nat, Length \in Nat
  <1> HIDE DEF n, p, skip
  <1>5. n = Yield(p, len) /\ src.pos + n = at + drop + n /\ src.pos + n \in Nat
    BY <1>1, <1>4 DEF Yield
  <1>6. CASE len = 0
    <2>1. ReadOf(src, len).src = src /\ ReadOf(src, len).data = << >>
      BY <1>3, <1>6
    <2>2. Run(p, n) = << >>
      BY <1>4, <1>6, RunOf
    <2> QED
      BY <2>1, <2>2, <1>2, <1>4, <1>5, <1>6 DEF Delivers
  <1>7. CASE len # 0
    <2>1. next \in Source /\ next.format = src.format /\ next.at = at + skip + n
          /\ next.discard = drop - skip /\ next.pos = src.pos + n
          /\ next.pending = << >>
      <3> QED
        BY <1>1, <1>4, <1>5 DEF Source
    <2> HIDE DEF next
    <2>2. next.pos = next.at + next.discard
      BY <2>1, <1>4, <1>5
    <2>3. Well(next)
      BY <2>1, <2>2, <1>4 DEF Well
    <2>4. Position(next) = p + n
      BY <2>1, <2>3, <1>4, <1>5, PositionIs
    <2>5. ReadOf(src, len).src = next /\ ReadOf(src, len).data = Run(at + skip, n)
      BY <1>3, <1>7
    <2> QED
      BY <2>3, <2>4, <2>5, <1>2, <1>4, <1>5 DEF Delivers
  <1> QED
    BY <1>6, <1>7

\* In whole groups as in samples.
LEMMA LeastGroups ==
    ASSUME NEW a \in Nat, NEW b \in Nat, NEW k \in Nat, k > 0
    PROVE  /\ Least(a * k, b * k) = Least(a, b) * k
           /\ Left(a * k, b * k) = Left(a, b) * k
           /\ Least(a, b) \in Nat /\ Left(a, b) \in Nat
  <1>1. /\ a < b <=> a * k < b * k
        /\ a <= b => (b - a) * k = b * k - a * k
    BY GroupsOrdered
  <1> QED
    BY <1>1 DEF Least, Left

\* A read from a place, of an input of so many samples or groups.
LEMMA Reads ==
    ASSUME NEW at \in Nat, NEW len \in Nat, NEW end \in Nat,
           NEW n, n = Least(len, Left(at, end)),
           NEW p, p = Least(at, end)
    PROVE  /\ n \in Nat /\ p \in Nat
           /\ n = Least(len, Left(p, end))
           /\ Least(at + n, end) = p + n
           /\ n = 0 \/ p = at
  BY DEF Least, Left

\* The same of groups of S samples, in B bytes.
GroupsRead(g, c, L, S, B, h, q) ==
    /\ h \in Nat /\ q \in Nat /\ g + h \in Nat
    /\ h = 0 \/ q = g
    /\ c = 0 => h = 0
    /\ Least(c * B, Left(g * B, L * B)) = h * B
    /\ Least(g * S, L * S) = q * S
    /\ Least(c * S, Left(q * S, L * S)) = h * S
    /\ Least((g + h) * S, L * S) = q * S + h * S
    /\ h * S \in Nat /\ q * S \in Nat /\ g * S \in Nat
    /\ g * B + h * B = (g + h) * B /\ (g + h) * B \in Nat
    /\ (h * B) \div B = h

LEMMA GroupReads ==
    ASSUME NEW g \in Nat, NEW c \in Nat, NEW L \in Nat,
           NEW S \in Nat, S > 0, NEW B \in Nat, B > 0,
           NEW h, h = Least(c, Left(g, L)),
           NEW q, q = Least(g, L)
    PROVE  GroupsRead(g, c, L, S, B, h, q)
  <1>1. /\ h \in Nat /\ q \in Nat /\ g + h \in Nat
        /\ h = Least(c, Left(q, L))
        /\ Least(g + h, L) = q + h
        /\ h = 0 \/ q = g
    <2>1. /\ h \in Nat /\ q \in Nat /\ h = Least(c, Left(q, L))
          /\ Least(g + h, L) = q + h /\ (h = 0 \/ q = g)
      BY ONLY Reads, g \in Nat, c \in Nat, L \in Nat,
              h = Least(c, Left(g, L)), q = Least(g, L)
    <2> QED
      BY ONLY <2>1, g \in Nat
  <1>2. c = 0 => h = 0
    BY DEF Least, Left
  <1>3. Least(c * B, Left(g * B, L * B)) = h * B
    <2>1. Left(g * B, L * B) = Left(g, L) * B /\ Left(g, L) \in Nat
      BY LeastGroups
    <2> QED
      BY <2>1, LeastGroups
  <1>4. Least(g * S, L * S) = q * S
    BY LeastGroups
  <1>5. Least(c * S, Left(q * S, L * S)) = h * S
    <2>1. Left(q * S, L * S) = Left(q, L) * S /\ Left(q, L) \in Nat
      BY ONLY <1>1, LeastGroups, L \in Nat, S \in Nat, S > 0
    <2>2. Least(c * S, Left(q, L) * S) = Least(c, Left(q, L)) * S
      BY <2>1, LeastGroups
    <2> QED
      BY <2>1, <2>2, <1>1
  <1>6. Least((g + h) * S, L * S) = q * S + h * S
    <2>1. Least((g + h) * S, L * S) = Least(g + h, L) * S
      BY <1>1, LeastGroups
    <2>2. (q + h) * S = q * S + h * S
      BY <1>1, GroupsOrdered
    <2> QED
      BY <2>1, <2>2, <1>1
  <1>7. h * S \in Nat /\ q * S \in Nat /\ g * S \in Nat /\ (g + h) * B \in Nat
    BY ONLY <1>1, Numbers, g \in Nat, S \in Nat, B \in Nat
  <1>8. g * B + h * B = (g + h) * B
    BY ONLY <1>1, GroupsOrdered, g \in Nat, B \in Nat, B > 0
  <1>9. (h * B) \div B = h
    BY ONLY <1>1, Whole, B \in Nat, B > 0
  <1> QED
    BY ONLY <1>1, <1>2, <1>3, <1>4, <1>5, <1>6, <1>7, <1>8, <1>9, Zenon DEF GroupsRead

\* Unpacked whole groups are a run of the input.
LEMMA UnpackedRun ==
    ASSUME NEW f, NEW S \in Nat, NEW B \in Nat, S = f.samples, B = f.bytes, B > 0,
           NEW g \in Nat, NEW h \in Nat
    PROVE  Unpacked(f, g * B, h) = Run(g * S, h * S)
  <1>1. (g * B) \div B = g /\ (g * B) % B = 0
    BY Whole
  <1> QED
    BY <1>1 DEF Unpacked, Run

\* PackedSource::read: whole groups.
LEMMA PackedDelivers ==
    ASSUME NEW src \in Source, NEW len \in Nat, Length \in Nat, Well(src),
           src.format.source = "packed", WholeGroups(src.format), Fits(src.format, len)
    PROVE  Delivers(src, len)
  <1> DEFINE f == src.format
  <1>1. /\ f \in Format /\ src.at \in Nat
        /\ f.samples \in Nat /\ f.samples > 0 /\ f.bytes \in Nat /\ f.bytes > 0
        /\ src.pending = << >> /\ src.discard = 0
    BY FormatTyped DEF Source, Well
  <1>2. PICK S \in Nat : S = f.samples /\ S > 0
    BY <1>1
  <1>3. PICK B \in Nat : B = f.bytes /\ B > 0
    BY <1>1
  <1>4. PICK g \in Nat : src.at = g * B /\ src.at \div f.bytes = g
    <2>1. src.at % B = 0
      BY <1>3 DEF Well
    <2> QED
      BY <2>1, <1>1, <1>3, Groups
  <1>5. PICK L \in Nat : Length = L * S /\ Length \div f.samples = L
    <2>1. Length % S = 0
      BY <1>2 DEF WholeGroups
    <2> QED
      BY <2>1, <1>2, Groups
  <1>6. PICK c \in Nat : len = c * S /\ len \div f.samples = c
    <2>1. len % S = 0
      BY <1>2 DEF Fits
    <2> QED
      BY <2>1, <1>2, Groups
  <1>7. PICK h : h = Least(c, Left(g, L))
    OBVIOUS
  <1>8. PICK q : q = Least(g, L)
    OBVIOUS
  <1>9. /\ h \in Nat /\ q \in Nat /\ g + h \in Nat
        /\ h = 0 \/ q = g
        /\ c = 0 => h = 0
        /\ Least(c * B, Left(g * B, L * B)) = h * B
        /\ Least(g * S, L * S) = q * S
        /\ Least(c * S, Left(q * S, L * S)) = h * S
        /\ Least((g + h) * S, L * S) = q * S + h * S
        /\ h * S \in Nat /\ q * S \in Nat /\ g * S \in Nat
        /\ g * B + h * B = (g + h) * B /\ (g + h) * B \in Nat
        /\ (h * B) \div B = h
    <2>1. S > 0 /\ B > 0
      BY <1>2, <1>3
    <2>2. g \in Nat /\ c \in Nat /\ L \in Nat /\ S \in Nat /\ B \in Nat
      OBVIOUS
    <2>3. GroupsRead(g, c, L, S, B, h, q)
      BY ONLY <2>1, <2>2, <1>7, <1>8, GroupReads
    <2> QED
      BY ONLY <2>3, Zenon DEF GroupsRead
  <1>10. PICK n \in Nat : n = h * S
    BY <1>9
  <1>11. PICK p \in Nat : p = q * S
    BY <1>9
  <1>12. Position(src) = p
    <2>1. Position(src) = Least(g * S, L * S)
      BY <1>2, <1>4, <1>5, PositionIs
    <2> QED
      BY <2>1, <1>9, <1>11
  <1>13. n = Yield(p, len)
    BY <1>5, <1>6, <1>9, <1>10, <1>11 DEF Yield
  <1>14. Run(g * S, n) = Run(p, n)
    <2>1. CASE h = 0
      <3>1. n = 0 /\ g * S \in Nat
        BY <2>1, <1>2, <1>9, <1>10
      <3> QED
        BY <3>1, RunOf
    <2>2. CASE q = g
      BY <2>2, <1>11
    <2> QED
      BY <2>1, <2>2, <1>9
  <1>15. PICK served : served = [src EXCEPT !.pending = Dropped(@, 0)]
    OBVIOUS
  <1>16. /\ served \in Source /\ served.format = f /\ served.at = src.at
         /\ served.pending = << >> /\ served.discard = 0
    <2>1. Dropped(src.pending, 0) = << >>
      BY <1>1 DEF Dropped
    <2> QED
      BY <2>1, <1>1, <1>15 DEF Source
  <1>17. PICK next : next = [served EXCEPT !.at = @ + h * B]
    OBVIOUS
  <1>18. ReadRaw(served, len) = [src |-> next, data |-> Run(p, n)]
    <2>1. Least((len \div f.samples) * f.bytes, Left(src.at, FileBytes(f))) = h * B
      BY <1>3, <1>4, <1>5, <1>6, <1>9 DEF FileBytes
    <2>2. (h * B) \div f.bytes = h
      BY <1>3, <1>9
    <2>3. Unpacked(f, src.at, h) = Run(p, n)
      <3>1. h \in Nat /\ S = f.samples /\ B = f.bytes /\ B > 0
        BY ONLY <1>2, <1>3, <1>9
      <3>2. PICK h2 \in Nat : h2 = h
        BY ONLY <3>1
      <3>3. Unpacked(f, g * B, h2) = Run(g * S, h2 * S)
        BY ONLY <3>1, UnpackedRun, g \in Nat, S \in Nat, B \in Nat, h2 \in Nat
      <3> QED
        BY <3>2, <3>3, <1>4, <1>10, <1>14
    <2> QED
      BY <2>1, <2>2, <2>3, <1>16, <1>17 DEF ReadRaw
  <1>19. /\ next \in Source /\ next.format = f /\ next.at = (g + h) * B
         /\ next.pending = << >> /\ next.discard = 0
    <2>1. served.at + h * B = (g + h) * B /\ (g + h) * B \in Nat
      BY <1>4, <1>9, <1>16
    <2>2. next = [served EXCEPT !.at = (g + h) * B]
      BY <2>1, <1>17
    <2>3. PICK m \in Nat : m = (g + h) * B
      BY <2>1
    <2> QED
      BY <2>2, <2>3, <1>16 DEF Source
  <1>20. next.at % f.bytes = 0 /\ next.at \div f.bytes = g + h
    <2>1. ((g + h) * B) % B = 0 /\ ((g + h) * B) \div B = g + h
      BY ONLY <1>3, <1>9, Whole, B \in Nat
    <2> QED
      BY <2>1, <1>3, <1>19
  <1>21. Well(next)
    BY <1>19, <1>20 DEF Well
  <1>22. Position(next) = p + n
    <2>1. Position(next) = Least((g + h) * S, L * S)
      BY <1>2, <1>5, <1>19, <1>20, <1>21, PositionIs
    <2> QED
      BY <2>1, <1>9, <1>10, <1>11
  <1>23. ReadOf(src, len) = IF 0 = len THEN [src |-> served, data |-> << >>]
                            ELSE [src |-> next, data |-> Run(p, n)]
    <2>1. Taken(src.pending, 0) = << >> /\ Least(Len(src.pending), len) = 0
      BY <1>1 DEF Taken, Least
    <2>2. PackedRead(src, len) = IF 0 = len THEN [src |-> served, data |-> << >>]
                                 ELSE [src |-> ReadRaw(served, len - 0).src,
                                       data |-> << >> \o ReadRaw(served, len - 0).data]
      BY <2>1, <1>15 DEF PackedRead
    <2>3. len - 0 = len
      OBVIOUS
    <2>4. << >> \o Run(p, n) = Run(p, n)
      BY RunOf
    <2>5. ReadOf(src, len) = PackedRead(src, len)
      BY DEF ReadOf
    <2> QED
      BY <2>2, <2>3, <2>4, <2>5, <1>18
  <1>24. CASE len # 0
    <2>1. ReadOf(src, len).src = next /\ ReadOf(src, len).data = Run(p, n)
      BY <1>23, <1>24
    <2> QED
      BY <2>1, <1>12, <1>13, <1>21, <1>22 DEF Delivers
  <1>25. CASE len = 0
    <2>1. ReadOf(src, len).src = served /\ ReadOf(src, len).data = << >>
      BY <1>23, <1>25
    <2>2. n = 0 /\ p + n = p
      BY <1>13, <1>25, Bounds DEF Yield, Least
    <2>3. Run(p, n) = << >>
      BY <2>2, RunOf
    <2>4. Well(served)
      BY <1>3, <1>16 DEF Well
    <2>5. Position(served) = Position(src)
      BY <2>4, <1>16, PositionIs
    <2> QED
      BY <2>1, <2>2, <2>3, <2>4, <2>5, <1>12, <1>13 DEF Delivers
  <1> QED
    BY <1>24, <1>25

\* What a pipe takes besides what is pending: u samples are asked for at group g
\* of L, each of G samples.
Taking(g, L, G, u, groups, rest, more) ==
    /\ groups \in Nat /\ rest \in Nat /\ rest < G
    /\ groups * G \in Nat /\ g * G + groups * G \in Nat
    /\ (g * G + groups * G) % G = 0 /\ (g * G + groups * G + G) % G = 0
    /\ g * G + groups * G <= L * G
    /\ more => /\ u = groups * G + rest
               /\ g * G + groups * G + G <= L * G
    /\ ~more => groups * G = Least(u, L * G - g * G)

LEMMA TakingWhole ==
    ASSUME NEW g \in Nat, NEW L \in Nat, g <= L, NEW G \in Nat, G > 0, NEW u \in Nat,
           NEW whole, whole = u \div G,
           NEW groups, groups = Least(whole, Left(g * G, L * G) \div G),
           NEW rest, rest = u % G,
           NEW more \in BOOLEAN,
           more <=> groups = whole /\ rest > 0 /\ Left(g * G + groups * G, L * G) >= G
    PROVE  Taking(g, L, G, u, groups, rest, more)
  <1>1. whole \in Nat /\ rest \in Nat /\ rest < G /\ u = whole * G + rest
    OBVIOUS
  <1>2. Left(g * G, L * G) = Left(g, L) * G /\ Left(g, L) = L - g
    BY ONLY LeastGroups, g \in Nat, L \in Nat, G \in Nat, G > 0, g <= L DEF Left
  <1>3. Left(g * G, L * G) \div G = L - g
    <2>1. L - g \in Nat
      OBVIOUS
    <2> QED
      BY ONLY <1>2, <2>1, Whole, G \in Nat, G > 0
  <1>4. groups \in Nat /\ groups <= whole /\ groups <= L - g /\ (groups = whole \/ groups = L - g)
    BY ONLY <1>1, <1>3, groups = Least(whole, Left(g * G, L * G) \div G), g \in Nat,
            L \in Nat, g <= L DEF Least
  <1>5. PICK k \in Nat : k = g + groups
    BY <1>4
  <1>6. /\ g * G + groups * G = k * G /\ groups * G \in Nat /\ k * G \in Nat
        /\ k <= L /\ (groups = L - g <=> k = L)
    BY ONLY <1>4, <1>5, GroupsOrdered, Numbers, g \in Nat, L \in Nat, g <= L, G \in Nat, G > 0
  <1>7. (k * G) % G = 0 /\ (k * G + G) % G = 0
    <2>1. (k + 1) * G = k * G + G
      OBVIOUS
    <2> QED
      BY <2>1, Whole
  <1>8. /\ k * G <= L * G
        /\ L * G - g * G = (L - g) * G
        /\ k < L => k * G + G <= L * G
    <2>1. k <= L => k * G <= L * G
      BY ONLY GroupsOrdered, k \in Nat, L \in Nat, G \in Nat, G > 0
    <2>2. (L - g) * G = L * G - g * G
      BY ONLY GroupsOrdered, g \in Nat, L \in Nat, G \in Nat, G > 0, g <= L
    <2>3. k < L => (k + 1) * G <= L * G /\ (k + 1) * G = k * G + G
      <3>1. k < L => k + 1 <= L /\ k + 1 \in Nat
        OBVIOUS
      <3>2. (k + 1) * G = k * G + G
        OBVIOUS
      <3> QED
        BY ONLY <3>1, <3>2, GroupsOrdered, L \in Nat, G \in Nat, G > 0
    <2> QED
      BY <2>1, <2>2, <2>3, <1>6
  <1>9. ASSUME more
        PROVE  u = groups * G + rest /\ k * G + G <= L * G
    <2>1. groups = whole /\ Left(k * G, L * G) >= G
      BY <1>6, <1>9
    <2>2. k # L
      <3>1. k = L => Left(k * G, L * G) = 0
        BY <1>6 DEF Left
      <3> QED
        BY <2>1, <3>1
    <2> QED
      BY <2>1, <2>2, <1>1, <1>6, <1>8
  <1>10. ASSUME ~more
         PROVE  groups * G = Least(u, L * G - g * G)
    <2>1. CASE groups = L - g
      <3>1. groups * G = L * G - g * G
        BY <2>1, <1>8
      <3>2. groups * G <= whole * G
        BY ONLY <1>1, <1>4, GroupsOrdered, G \in Nat, G > 0
      <3>3. groups * G <= u
        BY <3>2, <1>1, <1>6
      <3> QED
        BY <3>1, <3>3, <1>6 DEF Least
    <2>2. CASE groups # L - g
      <3>1. groups = whole /\ k < L
        BY <2>2, <1>4, <1>6
      <3>2. k * G + G <= L * G
        BY <3>1, <1>8
      <3>3. Left(k * G, L * G) >= G
        <4>1. L * G \in Nat
          OBVIOUS
        <4> QED
          BY ONLY <3>2, <4>1, <1>6, G \in Nat, G > 0 DEF Left
      <3>4. rest = 0
        BY <3>1, <3>3, <1>1, <1>6, <1>10
      <3>5. u = groups * G /\ groups * G <= L * G - g * G
        BY <3>1, <3>4, <1>1, <1>6, <1>8
      <3> QED
        BY <3>5, <1>6 DEF Least
    <2> QED
      BY <2>1, <2>2
  <1> QED
    BY <1>1, <1>4, <1>6, <1>7, <1>8, <1>9, <1>10 DEF Taking

\* A pipe's next place and what is pending there, after a read.
WellAt(src, p) == Well(src) /\ Position(src) = p

LEMMA PipeWell ==
    ASSUME NEW src \in Source, Length \in Nat, src.format.source = "pipe", Well(src),
           NEW stop \in Nat, NEW kept \in Nat, NEW n \in Nat, NEW next,
           next = [src EXCEPT !.at = stop, !.pending = Run(src.pos + n, kept),
                              !.pos = @ + n],
           stop % src.format.samples = 0, stop <= Length, src.pos + n + kept = stop
    PROVE  WellAt(next, src.pos + n)
  <1>1. src.pos \in Nat /\ src.discard = 0
    BY DEF Source, Well
  <1>2. PICK i \in Nat : i = src.pos + n
    BY <1>1
  <1>3. /\ Run(i, kept) \in Seq(Nat \union {Garbled}) /\ Len(Run(i, kept)) = kept
    BY <1>2, RunOf, Runs DEF Sample
  <1>4. next = [src EXCEPT !.at = stop, !.pending = Run(i, kept), !.pos = i]
    BY <1>2
  <1>5. /\ next \in Source /\ next.format = src.format /\ next.at = stop
        /\ next.pending = Run(i, kept) /\ next.pos = i /\ next.discard = 0
    BY <1>1, <1>3, <1>4 DEF Source
  <1>6. Well(next)
    BY <1>2, <1>3, <1>5 DEF Well
  <1> QED
    BY <1>2, <1>5, <1>6, PositionIs DEF WellAt

\* PipeSource::read: what is pending comes first, and what is left of a group
\* that was cut is pending afterwards.
LEMMA PipeDelivered ==
    ASSUME NEW src \in Source, NEW len \in Nat, Length \in Nat, Well(src),
           src.format.source = "pipe", WholeGroups(src.format)
    PROVE  /\ PipeRead(src, len).data = Run(src.pos, Yield(src.pos, len))
           /\ Position(PipeRead(src, len).src) = src.pos + Yield(src.pos, len)
           /\ Well(PipeRead(src, len).src)
  <1>1. /\ src.format \in Format /\ src.format.samples \in Nat /\ src.format.samples > 0
        /\ src.at \in Nat /\ src.pos \in Nat /\ Len(src.pending) \in Nat
        /\ src.at <= Length
    BY FormatTyped DEF Source, Well
  <1>2. PICK G \in Nat : G = src.format.samples /\ G > 0
    BY <1>1
  <1>3. PICK i \in Nat : i = src.pos
    BY <1>1
  <1>4. PICK m \in Nat : m = Len(src.pending) /\ src.pending = Run(i, m) /\ i + m = src.at
    BY <1>1, <1>3 DEF Well
  <1>5. PICK g \in Nat : src.at = g * G
    <2>1. src.at % G = 0
      BY <1>2 DEF Well
    <2>2. src.at \div G \in Nat /\ src.at = (src.at \div G) * G
      BY ONLY <2>1, <1>1, <1>2, Groups, G \in Nat
    <2> QED
      BY ONLY <2>2
  <1>6. PICK L \in Nat : Length = L * G
    <2>1. Length % G = 0
      BY <1>2 DEF WholeGroups
    <2>2. Length \div G \in Nat /\ Length = (Length \div G) * G
      BY ONLY <2>1, <1>2, Groups, G \in Nat, Length \in Nat
    <2> QED
      BY ONLY <2>2
  <1>7. g <= L
    BY ONLY <1>1, <1>2, <1>5, <1>6, GroupsOrdered, g \in Nat, L \in Nat, G \in Nat
  <1>8. PICK n \in Nat : n = Least(m, len) /\ n <= m /\ n <= len
    BY Bounds
  <1>9. PICK u \in Nat : u = len - n
    BY <1>8
  <1>10. PICK whole : whole = u \div G
    OBVIOUS
  <1>11. PICK groups : groups = Least(whole, Left(g * G, L * G) \div G)
    OBVIOUS
  <1>12. PICK rest : rest = u % G
    OBVIOUS
  <1>13. PICK more \in BOOLEAN :
            more <=> groups = whole /\ rest > 0 /\ Left(g * G + groups * G, L * G) >= G
    <2>1. (groups = whole /\ rest > 0 /\ Left(g * G + groups * G, L * G) >= G) \in BOOLEAN
      OBVIOUS
    <2> QED
      BY <2>1, Zenon
  <1>14. Taking(g, L, G, u, groups, rest, more)
    BY ONLY <1>2, <1>7, <1>10, <1>11, <1>12, <1>13, TakingWhole, g \in Nat, L \in Nat,
            G \in Nat, u \in Nat, more \in BOOLEAN
  <1>15. PICK t \in Nat : t = groups * G
    BY <1>14 DEF Taking
  <1>16. PICK at \in Nat : at = g * G
    BY <1>5, <1>1
  <1>17. PICK end \in Nat : end = L * G /\ end = Length
    BY <1>6
  <1>18. /\ groups \in Nat /\ rest \in Nat /\ rest < G
         /\ (at + t) % G = 0 /\ (at + t + G) % G = 0
         /\ at + t <= end
         /\ more => u = t + rest /\ at + t + G <= end
         /\ ~more => t = Least(u, end - at)
    BY <1>14, <1>15, <1>16, <1>17 DEF Taking
  <1> DEFINE stop == IF more THEN at + t + G ELSE at + t
             tail == IF more THEN Run(at + t, rest) ELSE << >>
             over == IF more THEN Run(at + t + rest, G - rest) ELSE << >>
             data == Taken(Run(i, m), n) \o Run(at, t) \o tail
             kept == Dropped(Run(i, m), n) \o over
  <1>19. PipeRead(src, len) =
          [src |-> [src EXCEPT !.at = stop, !.pending = kept, !.pos = @ + Len(data)],
           data |-> data]
    <2>1. /\ Least(Len(src.pending), len) = n /\ (len - n) \div src.format.samples = whole
          /\ (len - n) % src.format.samples = rest /\ src.at = at
      BY <1>2, <1>4, <1>5, <1>8, <1>9, <1>10, <1>12, <1>16
    <2>2. /\ Least(whole, Left(src.at, Length) \div src.format.samples) = groups
          /\ groups * src.format.samples = t
      BY <1>2, <1>5, <1>6, <1>11, <1>15
    <2>3. more <=> groups = whole /\ rest > 0 /\ Left(at + t, Length) >= src.format.samples
      BY <1>2, <1>13, <1>15, <1>16, <1>17
    <2> QED
      BY <2>1, <2>2, <2>3, <1>2, <1>4 DEF PipeRead
  <1>20. /\ Taken(Run(i, m), n) = Run(i, n)
         /\ Dropped(Run(i, m), n) = Run(i + n, m - n)
    <2>1. Part(i, m, n)
      BY ONLY <1>8, RunsPart, i \in Nat, m \in Nat, n \in Nat
    <2> QED
      BY <2>1 DEF Part
  <1> HIDE DEF data, kept, stop, tail, over
  <1>21. PICK y \in Nat : y = Yield(i, len)
    BY Bounds DEF Yield
  <1> DEFINE Moved(k) == /\ data = Run(i, y) /\ kept = Run(i + y, k)
                         /\ i + y + k = stop /\ stop \in Nat
                         /\ stop % G = 0 /\ stop <= end
  <1>22. ASSUME n = len
         PROVE  Moved(m - n) /\ m - n \in Nat
    <2>1. u = 0 /\ rest = 0
      BY <1>2, <1>9, <1>12, <1>22
    <2>2. ~more
      BY <2>1, <1>13
    <2>3. t = 0
      BY <2>1, <2>2, <1>18 DEF Least
    <2>4. tail = << >> /\ over = << >> /\ stop = at
      BY <2>2, <2>3 DEF tail, over, stop
    <2>5. data = Run(i, n)
      <3>1. Run(i, n) \in Seq(Nat) /\ Run(at, 0) = << >>
        BY RunOf
      <3>2. data = Run(i, n) \o << >> \o << >>
        BY <2>3, <2>4, <3>1, <1>20 DEF data
      <3> QED
        BY ONLY <3>1, <3>2
    <2>6. kept = Run(i + n, m - n)
      <3>1. m - n \in Nat
        BY <1>8
      <3>2. Run(i + n, m - n) \in Seq(Nat)
        BY ONLY <3>1, RunOf, i + n \in Nat
      <3> QED
        BY <2>4, <3>2, <1>20 DEF kept
    <2>7. y = n
      <3>1. i + n <= end
        BY <1>1, <1>4, <1>8, <1>17
      <3> QED
        BY <3>1, <1>17, <1>21, <1>22 DEF Yield, Least, Left
    <2>8. i + n + (m - n) = at /\ m - n \in Nat
      BY <1>4, <1>5, <1>8, <1>16
    <2>9. at % G = 0 /\ at <= end
      BY <2>3, <1>18
    <2> QED
      BY <2>4, <2>5, <2>6, <2>7, <2>8, <2>9
  <1>23. ASSUME n # len
         PROVE  n = m /\ i + m = at /\ len = m + u /\ kept = over /\ Run(i + m, 0) = << >>
    <2>1. n = m
      BY <1>8, <1>23 DEF Least
    <2>2. i + m = at /\ len = m + u
      <3>1. i + m = at
        BY <1>4, <1>5, <1>16
      <3>2. len = m + u
        BY ONLY <2>1, <1>9, len \in Nat, m \in Nat, n \in Nat, u \in Nat
      <3> QED
        BY <3>1, <3>2
    <2>3. Run(i + m, 0) = << >>
      <3>1. i + m \in Nat /\ 0 \in Nat
        OBVIOUS
      <3> QED
        BY ONLY <3>1, RunOf
    <2>4. over \in Seq(Nat)
      <3>1. more => at + t + rest \in Nat /\ G - rest \in Nat
        BY <1>18
      <3> QED
        BY <3>1, RunOf DEF over
    <2>5. kept = << >> \o over
      <3>1. m - n = 0
        BY <2>1
      <3>2. Dropped(Run(i, m), n) = << >>
        BY <2>1, <2>3, <3>1, <1>20
      <3> QED
        BY <3>2 DEF kept
    <2> QED
      BY <2>1, <2>2, <2>3, <2>4, <2>5
  <1>24. ASSUME n # len, more
         PROVE  Moved(G - rest) /\ G - rest \in Nat
    <2>1. /\ tail = Run(at + t, rest) /\ over = Run(at + t + rest, G - rest)
          /\ stop = at + t + G
      BY <1>24 DEF tail, over, stop
    <2>2. i + m = at /\ len = m + u /\ n = m /\ u = t + rest /\ at + t + G <= end
      BY <1>18, <1>23, <1>24
    <2>3. data = Run(i, len)
      <3>1. Run(i, m) \o Run(i + m, t) = Run(i, m + t)
        <4>1. Join(i, m, t)
          BY ONLY RunsJoin, i \in Nat, m \in Nat, t \in Nat
        <4> QED
          BY <4>1 DEF Join
      <3>2. Run(i, m + t) \o Run(i + (m + t), rest) = Run(i, m + t + rest)
        <4>1. m + t \in Nat /\ rest \in Nat
          BY <1>18
        <4>2. Join(i, m + t, rest)
          BY ONLY <4>1, RunsJoin, i \in Nat
        <4> QED
          BY <4>2 DEF Join
      <3>3. at + t = i + (m + t) /\ len = m + t + rest
        BY <2>2, <1>18
      <3>4. data = Run(i, m) \o Run(at, t) \o tail
        BY <2>2, <1>20 DEF data
      <3> QED
        BY <3>1, <3>2, <3>3, <3>4, <2>1, <2>2
    <2>4. y = len /\ i + len = at + t + rest /\ G - rest \in Nat
      <3>1. i + len <= end
        BY <2>2, <1>18
      <3> QED
        BY <3>1, <2>2, <1>17, <1>18, <1>21 DEF Yield, Least, Left
    <2>5. at + t + G \in Nat /\ i + len + (G - rest) = at + t + G
      BY <2>4, <1>18
    <2> QED
      BY <2>1, <2>2, <2>3, <2>4, <2>5, <1>18, <1>23, <1>24
  <1>25. ASSUME n # len, ~more
         PROVE  Moved(0)
    <2>1. tail = << >> /\ over = << >> /\ stop = at + t
      BY <1>25 DEF tail, over, stop
    <2>2. i + m = at /\ len = m + u /\ n = m /\ t = Least(u, end - at)
      BY <1>18, <1>23, <1>25
    <2>3. data = Run(i, m + t)
      <3>1. Run(i, m) \o Run(i + m, t) = Run(i, m + t)
        <4>1. Join(i, m, t)
          BY ONLY RunsJoin, i \in Nat, m \in Nat, t \in Nat
        <4> QED
          BY <4>1 DEF Join
      <3>2. Run(i, m + t) \in Seq(Nat)
        BY RunOf
      <3>3. data = Run(i, m) \o Run(at, t) \o << >>
        BY <2>1, <2>2, <1>20 DEF data
      <3> QED
        BY <3>1, <3>2, <3>3, <2>2
    <2>4. y = m + t
      BY <2>2, <1>17, <1>18, <1>21 DEF Yield, Least, Left
    <2>5. kept = Run(i + y, 0)
      <3>1. Run(i + y, 0) = << >>
        BY RunOf
      <3> QED
        BY <3>1, <2>1, <1>23, <1>25
    <2>6. i + y + 0 = at + t /\ at + t \in Nat
      BY <2>2, <2>4
    <2> QED
      BY <2>1, <2>3, <2>4, <2>5, <2>6, <1>18
  <1>26. PICK k \in Nat : Moved(k)
    <2>1. 0 \in Nat
      OBVIOUS
    <2> HIDE DEF Moved
    <2> QED
      BY <2>1, <1>22, <1>24, <1>25
  <1>27. Len(data) = y
    BY <1>26, RunOf
  <1>28. PICK next : next = [src EXCEPT !.at = stop, !.pending = kept, !.pos = @ + Len(data)]
    OBVIOUS
  <1>29. PipeRead(src, len).src = next /\ PipeRead(src, len).data = data
    BY <1>19, <1>28
  <1>30. Well(next) /\ Position(next) = src.pos + y
    <2>1. next = [src EXCEPT !.at = stop, !.pending = Run(src.pos + y, k), !.pos = @ + y]
      BY <1>3, <1>26, <1>27, <1>28
    <2>2. stop % src.format.samples = 0 /\ stop <= Length /\ src.pos + y + k = stop
          /\ stop \in Nat
      BY <1>2, <1>3, <1>17, <1>26
    <2>3. WellAt(next, src.pos + y)
      BY ONLY <2>1, <2>2, PipeWell, src \in Source, Length \in Nat,
              src.format.source = "pipe", Well(src), y \in Nat, k \in Nat
    <2> QED
      BY <2>3 DEF WellAt
  <1> QED
    BY <1>3, <1>21, <1>26, <1>29, <1>30

\* A sound source, asked for what fits its format, delivers the input.
LEMMA ReadDelivers ==
    ASSUME NEW src \in Source, NEW len \in Nat, Length \in Nat, Well(src),
           WholeGroups(src.format), Fits(src.format, len)
    PROVE  Delivers(src, len)
  <1>1. src.format.source \in {"raw", "packed", "pipe", "restart", "ffmpeg"}
    BY DEF Source, Format
  <1>2. CASE src.format.source \in {"raw", "restart"}
    BY <1>2, PlainDelivers
  <1>3. CASE src.format.source = "packed"
    BY <1>3, PackedDelivers
  <1>4. CASE src.format.source = "ffmpeg"
    BY <1>4, FfmpegDelivers
  <1>5. CASE src.format.source = "pipe"
    <2>1. Position(src) = src.pos
      BY <1>5, PositionIs
    <2>2. ReadOf(src, len) = PipeRead(src, len)
      BY <1>5 DEF ReadOf
    <2> QED
      BY <2>1, <2>2, <1>5, PipeDelivered DEF Delivers
  <1> QED
    BY <1>1, <1>2, <1>3, <1>4, <1>5

\* PackedSource::seek_samples, to the start of a group.
LEMMA PackedSought ==
    ASSUME NEW src \in Source, NEW s \in Nat, Length \in Nat, Well(src),
           src.format.source = "packed", Fits(src.format, s)
    PROVE  WellAt(PackedSeek(src, s), Least(s, Length))
  <1>1. /\ src.format.samples \in Nat /\ src.format.samples > 0
        /\ src.format.bytes \in Nat /\ src.format.bytes > 0
        /\ src.pending = << >> /\ src.discard = 0
    BY FormatTyped DEF Source, Well
  <1>2. PICK S \in Nat : S = src.format.samples /\ S > 0
    BY <1>1
  <1>3. PICK B \in Nat : B = src.format.bytes /\ B > 0
    BY <1>1
  <1>4. PICK t \in Nat : s = t * S
    <2>1. s % S = 0
      BY <1>2 DEF Fits
    <2>2. s \div S \in Nat /\ s = (s \div S) * S
      BY ONLY <2>1, <1>2, Groups, S \in Nat, s \in Nat
    <2> QED
      BY ONLY <2>2
  <1>5. (s * B) \div S = t * B /\ (s * B) % S = 0 /\ t * B \in Nat
    <2>1. t * B \in Nat
      BY ONLY Numbers, t \in Nat, B \in Nat
    <2>2. s * B = (t * B) * S
      BY ONLY <1>4, s \in Nat, t \in Nat, B \in Nat, S \in Nat
    <2>3. ((t * B) * S) \div S = t * B /\ ((t * B) * S) % S = 0
      BY ONLY <2>1, <1>2, Whole, S \in Nat
    <2> QED
      BY <2>1, <2>2, <2>3
  <1>6. PICK at \in Nat : at = t * B
    BY <1>5
  <1>7. PICK next : next = [src EXCEPT !.at = at, !.pending = << >>]
    OBVIOUS
  <1>8. PackedSeek(src, s) = next
    BY <1>2, <1>3, <1>5, <1>6, <1>7 DEF PackedSeek
  <1>9. /\ next \in Source /\ next.format = src.format /\ next.at = at
        /\ next.pending = << >> /\ next.discard = 0
    <2>1. PICK none : none = << >> /\ none \in Seq(Nat \union {Garbled})
      <3>1. Run(0, 0) = << >> /\ Run(0, 0) \in Seq(Nat \union {Garbled})
        BY RunOf, Runs DEF Sample
      <3> QED
        BY ONLY <3>1, Zenon
    <2>2. next = [src EXCEPT !.at = at, !.pending = none]
      BY <2>1, <1>7
    <2> QED
      BY <2>1, <2>2, <1>1 DEF Source
  <1>10. at % B = 0 /\ at \div B = t
    BY ONLY <1>3, <1>6, Whole, t \in Nat, B \in Nat
  <1>11. Well(next)
    BY <1>3, <1>9, <1>10 DEF Well
  <1>12. Position(next) = Least(s, Length)
    BY <1>2, <1>3, <1>4, <1>9, <1>10, <1>11, PositionIs
  <1> QED
    BY <1>8, <1>11, <1>12 DEF WellAt

\* A seek that is not refused leads to the place, or to the end.
LEMMA SeekArrives ==
    ASSUME NEW src \in Source, NEW s \in Nat, Length \in Nat, Well(src),
           WholeGroups(src.format), Fits(src.format, s), ~SeekRefused(src, s)
    PROVE  WellAt(SeekOf(src, s), Least(s, Length))
  <1>1. /\ src.format.source \in {"raw", "packed", "pipe", "restart", "ffmpeg"}
        /\ src.pos \in Nat /\ src.at \in Nat /\ src.discard \in Nat
    BY DEF Source, Format
  <1>2. PICK q \in Nat : q = Least(s, Length) /\ Least(q, Length) = q
    BY DEF Least
  <1>3. CASE src.format.source = "raw"
    <2>1. PICK next : next = [src EXCEPT !.at = s]
      OBVIOUS
    <2>2. SeekOf(src, s) = next
      BY <2>1, <1>3 DEF SeekOf, RawSeek
    <2>3. /\ next \in Source /\ next.format = src.format /\ next.at = s
          /\ next.pending = src.pending /\ next.discard = src.discard
      BY <2>1 DEF Source
    <2>4. Well(next)
      BY <2>3, <1>3 DEF Well
    <2> QED
      BY <2>2, <2>3, <2>4, <1>3, PositionIs DEF WellAt
  <1>4. CASE src.format.source = "packed"
    BY <1>4, PackedSought DEF SeekOf
  <1>5. CASE src.format.source = "pipe"
    <2>1. s >= src.pos /\ s - src.pos \in Nat
      BY <1>1, <1>5 DEF SeekRefused, ForwardOnly
    <2>2. PICK i \in Nat : i = src.pos
      BY <1>1
    <2>3. i <= Length
      BY <1>1, <1>5, <2>2 DEF Well, Source
    <2>4. PICK d \in Nat : d = s - i /\ s = i + d
      BY <2>1, <2>2
    <2>5. SeekOf(src, s) = PipeRead(src, d).src
      BY <1>5, <2>2, <2>4 DEF SeekOf, PipeSeek
    <2>6. /\ Position(PipeRead(src, d).src) = i + Yield(i, d)
          /\ Well(PipeRead(src, d).src)
      BY <1>5, <2>2, PipeDelivered
    <2>7. i + Yield(i, d) = Least(s, Length)
      BY <2>3, <2>4 DEF Yield, Least, Left
    <2> QED
      BY <2>5, <2>6, <2>7 DEF WellAt
  <1>6. CASE src.format.source = "restart"
    <2>1. PICK next : next = [src EXCEPT !.at = q]
      OBVIOUS
    <2>2. SeekOf(src, s) = next
      BY <2>1, <1>2, <1>6 DEF SeekOf, RestartSeek
    <2>3. /\ next \in Source /\ next.format = src.format /\ next.at = q
          /\ next.pending = src.pending /\ next.discard = src.discard
      BY <2>1 DEF Source
    <2>4. Well(next)
      BY <2>3, <1>6 DEF Well
    <2> QED
      BY <2>2, <2>3, <2>4, <1>2, <1>6, PositionIs DEF WellAt
  <1>7. CASE src.format.source = "ffmpeg"
    <2>1. /\ s >= src.pos /\ src.pos = src.at + src.discard
          /\ src.pending = << >> /\ src.at <= Length
      BY <1>1, <1>7 DEF SeekRefused, ForwardOnly, Well
    <2>2. PICK d \in Nat : d = src.discard + s - src.pos /\ s = src.at + d
      BY <2>1, <1>1
    <2>3. PICK next : next = [src EXCEPT !.discard = d, !.pos = s]
      OBVIOUS
    <2>4. SeekOf(src, s) = next
      BY <2>2, <2>3, <1>7 DEF SeekOf, FfmpegSeek
    <2>5. /\ next \in Source /\ next.format = src.format /\ next.at = src.at
          /\ next.pending = << >> /\ next.discard = d /\ next.pos = s
      BY <2>1, <2>3 DEF Source
    <2>6. Well(next)
      BY <2>1, <2>2, <2>5, <1>7 DEF Well
    <2> QED
      BY <2>4, <2>5, <2>6, <1>7, PositionIs DEF WellAt
  <1> QED
    BY <1>1, <1>3, <1>4, <1>5, <1>6, <1>7

\* Only a pipe refuses, and only to go back from where it stands, or from behind
\* the end.
LEMMA RefusedBehind ==
    ASSUME NEW src \in Source, NEW s \in Nat, Length \in Nat, Well(src)
    PROVE  /\ SeekRefused(src, s) =>
                ForwardOnly(src) /\ (s < Position(src) \/ s >= Length)
           /\ ForwardOnly(src) /\ s < Position(src) => SeekRefused(src, s)
           /\ Position(src) <= Length
  <1>1. /\ src.format.source \in {"raw", "packed", "pipe", "restart", "ffmpeg"}
        /\ src.pos \in Nat /\ Position(src) \in Nat
    BY PositionTyped DEF Source, Format
  <1>2. Position(src) <= Length
    <2>1. ASSUME NEW a \in Nat PROVE Least(a, Length) <= Length
      BY DEF Least
    <2>2. CASE src.format.source \in {"raw", "restart"}
      BY <2>1, <2>2, PositionIs DEF Source
    <2>3. CASE src.format.source = "packed"
      <3>1. PICK a \in Nat : a = (src.at \div src.format.bytes) * src.format.samples
        <4>1. /\ src.format \in Format /\ src.at \in Nat
              /\ src.format.samples \in Nat /\ src.format.bytes \in Nat
              /\ src.format.bytes > 0
          BY FormatTyped DEF Source
        <4>2. src.at \div src.format.bytes \in Nat
          BY <4>1, Numbers
        <4> QED
          BY <4>1, <4>2, Numbers
      <3> QED
        BY <2>1, <2>3, <3>1, PositionIs
    <2>4. CASE src.format.source = "pipe"
      <3>1. src.pos <= src.at /\ src.at <= Length /\ src.at \in Nat
        BY <1>1, <2>4 DEF Well, Source
      <3>2. Position(src) = src.pos
        BY <2>4, PositionIs
      <3> QED
        BY ONLY <1>1, <3>1, <3>2, Length \in Nat
    <2>5. CASE src.format.source = "ffmpeg"
      BY <1>1, <2>1, <2>5, PositionIs
    <2> QED
      BY <1>1, <2>2, <2>3, <2>4, <2>5
  <1>3. CASE src.format.source = "pipe"
    BY <1>1, <1>2, <1>3, PositionIs DEF SeekRefused, ForwardOnly
  <1>4. CASE src.format.source = "ffmpeg"
    <2>1. Position(src) = Least(src.pos, Length)
      BY <1>4, PositionIs
    <2> QED
      BY <2>1, <1>1, <1>2, <1>4 DEF SeekRefused, ForwardOnly, Least
  <1>5. CASE ~ForwardOnly(src)
    BY <1>2, <1>5 DEF SeekRefused
  <1> QED
    BY <1>3, <1>4, <1>5 DEF ForwardOnly

\* A source that is just opened stands at the start.
LEMMA Opened ==
    ASSUME NEW f \in Format, Length \in Nat
    PROVE  Open(f) \in Source /\ WellAt(Open(f), 0)
  <1>1. /\ f.samples \in Nat /\ f.samples > 0 /\ f.bytes \in Nat /\ f.bytes > 0
    BY FormatTyped
  <1>2. Open(f) \in Source
    BY DEF Open, Source
  <1>3. /\ Run(0, 0) = << >>
        /\ 0 % f.bytes = 0 /\ 0 % f.samples = 0
        /\ (0 \div f.bytes) * f.samples = 0
    <2>1. Run(0, 0) = << >>
      BY RunOf
    <2>2. \A b \in Nat : b > 0 => 0 * b = 0 /\ (0 * b) \div b = 0 /\ (0 * b) % b = 0
      BY Whole
    <2>3. 0 % f.bytes = 0 /\ 0 % f.samples = 0 /\ 0 \div f.bytes = 0
      BY ONLY <1>1, <2>2
    <2> QED
      BY <1>1, <2>1, <2>3
  <1>4. PICK src \in Source : src = Open(f)
    BY <1>2
  <1>5. /\ src.format = f /\ src.at = 0 /\ src.pending = << >> /\ src.discard = 0
        /\ src.pos = 0 /\ Len(src.pending) = 0
    BY <1>4 DEF Open
  <1>6. Well(src)
    BY <1>3, <1>5 DEF Well
  <1>7. f.source \in {"raw", "packed", "pipe", "restart", "ffmpeg"} /\ Least(0, Length) = 0
    BY DEF Format, Least
  <1>8. Position(src) = 0
    BY <1>3, <1>5, <1>6, <1>7, PositionIs
  <1> QED
    BY <1>2, <1>4, <1>6, <1>8 DEF WellAt

-----------------------------------------------------------------------------
(* The refinement.  What the thread has answered is, reply by reply, what   *)
(* the synchronous reader would answer next; behind it the source stands.   *)

\* Where the caller will be after k of the replies.
Place(h, channel, k) == IF k = 0 THEN h.pos ELSE channel[k].pos

Stands == Position(reader.src)

\* Reply k delivers what is next, or tells of the error before it.
Told(h, channel, k) ==
    IF channel[k].eof THEN channel[k].data = << >>
    ELSE /\ h.health = "ok"
         /\ \A j \in 1 .. k - 1 : ~channel[j].eof
         /\ channel[k].data = Run(Place(h, channel, k - 1), Yield(Place(h, channel, k - 1), Chunk))
         /\ channel[k].pos = Place(h, channel, k - 1) + Yield(Place(h, channel, k - 1), Chunk)

AllTold(h, channel) == \A k \in 1 .. Len(channel) : Told(h, channel, k)

NoneEnded(channel) == \A k \in 1 .. Len(channel) : ~channel[k].eof

\* The thread ends only of a panic; then the handle gives up, once it has to
\* wait for it.  A seek begins with one read in flight at most.
FailuresTold ==
    /\ ~alive => fault
    /\ failed => ~alive /\ (pc = "error" \/ (pc = "refill" /\ outstanding < QueueDepth))
    /\ pc \in {"idle", "flush"} => outstanding <= 1

\* What the requests ask for: of a packed file, whole groups.
Asked ==
    /\ \A i \in 1 .. Len(requests) :
        /\ requests[i].arg = IF requests[i].op = "read" THEN Chunk ELSE target
        /\ Fits(reader.src.format, requests[i].arg)
    /\ pc \in {"flush", "seek"} =>
        target \in Targets(reader.src.format) /\ Fits(reader.src.format, target)

\* Reading ahead: the replies continue from here, the source behind them.
ReadAhead ==
    pc \in {"idle", "refill"} =>
        /\ AllTold(here, replies)
        /\ ~reader.eof => /\ here.health = "ok"
                          /\ Stands = Place(here, replies, Len(replies))
                          /\ NoneEnded(replies)
        /\ reader.eof /\ here.health = "ok" => fault

\* What is still to be dropped of a flush.
InFlight == IF pc = "flush" /\ requests # << >> THEN Chunk ELSE 0

\* A seek that is not answered yet: a pipe can still follow, if it is sent a
\* chunk ahead.
Seeking ==
    (pc = "flush" \/ (pc = "seek" /\ replies = << >>)) =>
        /\ ~reader.eof => /\ here.health = "ok"
                          /\ here.pos <= Stands
                          /\ ForwardOnly(reader.src) /\ target >= here.pos + Chunk =>
                                Stands + InFlight <= target
        /\ reader.eof /\ here.health = "ok" => fault

\* The answer of a seek.
SeekAnswered ==
    pc = "seek" /\ replies # << >> =>
        /\ reader.eof = replies[1].eof
        /\ ~replies[1].eof =>
            /\ here.health = "ok"
            /\ ~(ForwardOnly(reader.src) /\ target < here.pos)
            /\ replies[1].pos = Least(target, Length)
            /\ Stands = replies[1].pos
        /\ replies[1].eof /\ here.health = "ok" =>
            \/ fault
            \/ ForwardOnly(reader.src) /\ (target < here.pos + Chunk \/ target >= Length)

SourceSound == ~reader.eof => Well(reader.src)

RInv ==
    /\ IInv
    /\ FailuresTold
    /\ Asked
    /\ ReadAhead
    /\ Seeking
    /\ SeekAnswered
    /\ SourceSound

Places == [pos : Nat, health : {"ok", "dead"}]

\* What one more reply tells.
LEMMA ToldOneMore ==
    ASSUME NEW h \in Places, NEW channel \in Seq(Replies), NEW r \in Replies,
           AllTold(h, channel),
           IF r.eof THEN r.data = << >>
           ELSE LET p == Place(h, channel, Len(channel))
                IN  /\ h.health = "ok" /\ NoneEnded(channel)
                    /\ r.data = Run(p, Yield(p, Chunk))
                    /\ r.pos = p + Yield(p, Chunk)
    PROVE  /\ AllTold(h, Append(channel, r))
           /\ Place(h, Append(channel, r), Len(Append(channel, r))) = r.pos
           /\ NoneEnded(channel) /\ ~r.eof => NoneEnded(Append(channel, r))
  <1> DEFINE c == Append(channel, r)
             n == Len(channel)
  <1>1. /\ n \in Nat /\ Len(c) = n + 1 /\ c[n + 1] = r
        /\ \A k \in 1 .. n : c[k] = channel[k]
    OBVIOUS
  <1>2. ASSUME NEW k \in 0 .. n
        PROVE  Place(h, c, k) = Place(h, channel, k)
    BY <1>1 DEF Place
  <1>3. ASSUME NEW k \in 1 .. n
        PROVE  Told(h, c, k)
    <2>1. Told(h, channel, k) /\ c[k] = channel[k]
      BY <1>1, <1>3 DEF AllTold
    <2>2. k - 1 \in 0 .. n /\ Place(h, c, k - 1) = Place(h, channel, k - 1)
      BY <1>1, <1>2, <1>3
    <2>3. \A j \in 1 .. k - 1 : c[j] = channel[j]
      BY <1>1, <1>3
    <2> HIDE DEF c, n
    <2> QED
      BY <2>1, <2>2, <2>3 DEF Told
  <1>4. Told(h, c, n + 1)
    <2>1. n + 1 - 1 = n /\ Place(h, c, n) = Place(h, channel, n)
      BY <1>1, <1>2
    <2>2. \A j \in 1 .. n : c[j] = channel[j]
      BY <1>1
    <2> HIDE DEF c
    <2> QED
      BY <2>1, <2>2, <1>1 DEF Told, NoneEnded
  <1>5. \A k \in 1 .. n + 1 : k = n + 1 \/ k \in 1 .. n
    BY <1>1
  <1> HIDE DEF c, n
  <1>6. AllTold(h, c)
    BY <1>1, <1>3, <1>4, <1>5 DEF AllTold
  <1>7. Place(h, c, Len(c)) = r.pos
    BY <1>1 DEF Place
  <1>8. ASSUME NoneEnded(channel), ~r.eof
        PROVE  NoneEnded(c)
    BY <1>1, <1>5, <1>8 DEF NoneEnded, n
  <1> QED
    BY <1>6, <1>7, <1>8 DEF c

\* Where a reply leaves the caller.
AfterOf(h, r) == IF r.eof THEN [h EXCEPT !.health = "dead"]
                 ELSE [pos |-> r.pos, health |-> "ok"]

\* What the rest tell, once the first is taken.
LEMMA ToldRest ==
    ASSUME NEW h \in Places, NEW channel \in Seq(Replies), channel # << >>,
           AllTold(h, channel)
    PROVE  /\ AllTold(AfterOf(h, Head(channel)), Tail(channel))
           /\ NoneEnded(channel) =>
                /\ NoneEnded(Tail(channel)) /\ ~Head(channel).eof
                /\ Place(AfterOf(h, Head(channel)), Tail(channel), Len(Tail(channel)))
                     = Place(h, channel, Len(channel))
  <1> DEFINE c == Tail(channel)
             r == Head(channel)
             n == Len(c)
             g == AfterOf(h, r)
  <1>1. /\ n \in Nat /\ Len(channel) = n + 1 /\ r = channel[1] /\ r \in Replies
        /\ \A k \in 1 .. n : c[k] = channel[k + 1]
    OBVIOUS
  <1>2. \A k \in 1 .. n : k + 1 \in 1 .. n + 1 /\ k + 1 - 1 = k
    BY <1>1
  <1> HIDE DEF c, r, n
  <1>3. ~r.eof => g = [pos |-> r.pos, health |-> "ok"]
    BY DEF AfterOf
  <1> HIDE DEF g
  <1>4. ASSUME ~r.eof, NEW k \in 0 .. n
        PROVE  Place(g, c, k) = Place(h, channel, k + 1)
    <2>1. CASE k = 0
      BY <2>1, <1>1, <1>3, <1>4 DEF Place
    <2>2. CASE k # 0
      <3>1. k \in 1 .. n /\ k + 1 # 0
        BY <2>2, <1>1, <1>4
      <3> QED
        BY <2>2, <3>1, <1>1 DEF Place
    <2> QED
      BY <2>1, <2>2
  <1>5. ASSUME NEW k \in 1 .. n
        PROVE  Told(g, c, k)
    <2>1. Told(h, channel, k + 1) /\ c[k] = channel[k + 1] /\ k + 1 - 1 = k
      BY <1>1, <1>2, <1>5 DEF AllTold
    <2>2. CASE channel[k + 1].eof
      BY <2>1, <2>2 DEF Told
    <2>3. CASE ~channel[k + 1].eof
      <3>1. /\ \A j \in 1 .. k : ~channel[j].eof
            /\ channel[k + 1].data = Run(Place(h, channel, k), Yield(Place(h, channel, k), Chunk))
            /\ channel[k + 1].pos = Place(h, channel, k) + Yield(Place(h, channel, k), Chunk)
        BY <2>1, <2>3 DEF Told
      <3>2. ~r.eof
        BY <3>1, <1>1, <1>5
      <3>3. g.health = "ok"
        BY <3>2, <1>3
      <3>4. \A j \in 1 .. k - 1 : ~c[j].eof
        <4>1. \A j \in 1 .. k - 1 : j \in 1 .. n /\ j + 1 \in 1 .. k
          BY <1>1, <1>5
        <4> QED
          BY <4>1, <3>1, <1>1
      <3>5. k - 1 \in 0 .. n /\ k - 1 + 1 = k
        BY <1>1, <1>5
      <3>6. Place(g, c, k - 1) = Place(h, channel, k)
        BY <3>2, <3>5, <1>4
      <3> QED
        BY <2>1, <2>3, <3>1, <3>3, <3>4, <3>6 DEF Told
    <2> QED
      BY <2>2, <2>3
  <1>6. AllTold(g, c)
    BY <1>5 DEF AllTold, n
  <1>7. ASSUME NoneEnded(channel)
        PROVE  NoneEnded(c) /\ ~r.eof /\ Place(g, c, n) = Place(h, channel, n + 1)
    <2>1. ~r.eof
      BY <1>1, <1>7 DEF NoneEnded
    <2>2. NoneEnded(c)
      BY <1>1, <1>2, <1>7 DEF NoneEnded, n
    <2>3. n \in 0 .. n
      BY <1>1
    <2> QED
      BY <2>1, <2>2, <2>3, <1>4
  <1> QED
    BY <1>1, <1>6, <1>7 DEF c, r, n, g

\* What is sound of the input holds of a format that may be opened.
LEMMA FormatFits ==
    ASSUME NEW f \in Formats
    PROVE  /\ f \in Format /\ WholeGroups(f)
           /\ \A s \in Targets(f) : s \in Nat
           /\ Length \in Nat /\ Chunk \in Nat
           /\ \A n : ~Splits(f, n) => Fits(f, n)
  BY ReaderAssumption, GroupsAssumption
     DEF ReaderAssumption, GroupsAssumption, WholeGroups, Fits, Splits

\* The request that is served.
LEMMA Serving ==
    ASSUME RInv, NEW op, Serve(op)
    PROVE  /\ alive /\ ~failed /\ requests # << >> /\ requests \in Seq(Requests)
           /\ Len(requests) \in Nat /\ Len(requests) > 0
           /\ Head(requests).op = op /\ Head(requests).arg \in Nat
           /\ Fits(reader.src.format, Head(requests).arg)
           /\ op = "read" => Head(requests).arg = Chunk /\ pc # "seek"
           /\ op = "seek" => Head(requests).arg = target /\ pc = "seek"
  <1>1. /\ alive /\ requests # << >> /\ Head(requests).op = op /\ requests \in Seq(Requests)
        /\ ~failed
    BY DEF RInv, IInv, TypeOK, Serve, FailuresTold
  <1>2. /\ Len(requests) \in Nat /\ Len(requests) > 0 /\ Head(requests) \in Requests
        /\ Head(requests) = requests[1]
    BY <1>1
  <1>3. Head(requests).op \in {"read", "seek"} /\ Head(requests).arg \in Nat
    BY <1>2 DEF Requests
  <1>4. /\ requests[1].arg = IF requests[1].op = "read" THEN Chunk ELSE target
        /\ Fits(reader.src.format, requests[1].arg)
    BY <1>2 DEF RInv, Asked
  <1>5. \A o : Only(o, requests) => requests[1].op = o
    BY <1>2 DEF Only
  <1>6. pc = "seek" => op = "seek"
    BY <1>1, <1>2, <1>5 DEF RInv, IInv, ChannelsCounted
  <1>7. pc # "seek" => op = "read"
    BY <1>1, <1>2, <1>5 DEF RInv, IInv, ChannelsCounted
  <1> QED
    BY <1>1, <1>2, <1>3, <1>4, <1>6, <1>7

\* An answer leaves the handle, and what is still asked for, as they were.
LEMMA AnswerRests ==
    ASSUME RInv, NEW op, Serve(op), NEW data, NEW rdr, Answer(op, data, rdr),
           rdr.src.format = reader.src.format, fault => fault'
    PROVE  /\ FailuresTold' /\ Asked'
           /\ reader' = rdr /\ replies' = Append(replies, Reply(op, data, rdr))
           /\ requests' = Tail(requests) /\ Len(requests') = Len(requests) - 1
           /\ UNCHANGED <<alive, outstanding, failed, pc, target, got, here>>
  <1>1. /\ alive /\ ~failed /\ requests # << >> /\ requests \in Seq(Requests)
        /\ Len(requests) \in Nat /\ Len(requests) > 0
    BY Serving
  <1>2. /\ reader' = rdr /\ replies' = Append(replies, Reply(op, data, rdr))
        /\ requests' = Tail(requests)
        /\ UNCHANGED <<alive, outstanding, failed, pc, target, got, here>>
    BY DEF Answer, handleVars
  <1>3. /\ Len(requests') = Len(requests) - 1
        /\ \A i \in 1 .. Len(requests') : requests'[i] = requests[i + 1]
                                          /\ i + 1 \in 1 .. Len(requests)
    BY <1>1, <1>2
  <1>4. FailuresTold'
    BY <1>1, <1>2 DEF RInv, FailuresTold, QueueDepth
  <1>5. Asked'
    <2>1. reader'.src.format = reader.src.format
      BY <1>2
    <2>2. \A i \in 1 .. Len(requests') :
            /\ requests'[i].arg = IF requests'[i].op = "read" THEN Chunk ELSE target
            /\ Fits(reader.src.format, requests'[i].arg)
      BY <1>3 DEF RInv, Asked
    <2> QED
      BY <2>1, <2>2, <1>2 DEF RInv, Asked, Fits
  <1> QED
    BY <1>2, <1>3, <1>4, <1>5

\* In a flush one read is in flight at most.
LEMMA FlushedOne ==
    ASSUME RInv, pc \in {"idle", "flush"}
    PROVE  /\ Len(requests) \in Nat /\ Len(replies) \in Nat
           /\ Len(requests) + Len(replies) <= 1
           /\ requests # << >> => Len(requests) = 1 /\ replies = << >>
  <1>1. /\ requests \in Seq(Requests) /\ replies \in Seq(Replies)
        /\ outstanding \in 0 .. QueueDepth /\ alive \in BOOLEAN
    BY DEF RInv, IInv, TypeOK
  <1>2. Len(requests) \in Nat /\ Len(replies) \in Nat
        /\ (requests # << >> => Len(requests) > 0) /\ (requests = << >> => Len(requests) = 0)
        /\ (Len(replies) = 0 => replies = << >>)
    BY <1>1
  <1>3. outstanding <= 1
    BY DEF RInv, FailuresTold
  <1>4. CASE alive
    <2>1. pc # "seek" /\ ChannelsCounted
      BY DEF RInv, IInv
    <2>2. outstanding = Len(requests) + Len(replies)
      BY <2>1, <1>4 DEF ChannelsCounted
    <2>3. Len(requests) + Len(replies) <= 1
      BY <2>2, <1>3
    <2>4. Len(requests) > 0 => Len(requests) = 1 /\ Len(replies) = 0
      BY ONLY <2>3, Len(requests) \in Nat, Len(replies) \in Nat, <1>2
    <2> QED
      BY ONLY <2>3, <2>4, <1>2, Zenon
  <1>5. CASE ~alive
    <2>1. requests = << >> /\ outstanding >= Len(replies)
      BY <1>5 DEF RInv, IInv, ChannelsCounted, DeadIsSilent
    <2>2. Len(requests) + Len(replies) <= 1
      BY <2>1, <1>1, <1>2, <1>3
    <2> QED
      BY ONLY <2>1, <2>2, <1>2, Zenon
  <1> QED
    BY ONLY <1>1, <1>4, <1>5

\* DecodeReader::read: one more reply that tells what is next.
LEMMA ReadKeeps ==
    ASSUME RInv, WorkerRead, IInv'
    PROVE  RInv'
  <1> DEFINE f == reader.src.format
  <1>1. /\ Serve("read") /\ fault' = fault
    BY DEF WorkerRead
  <1>2. /\ pc # "seek" /\ Head(requests).arg = Chunk /\ Fits(f, Chunk)
    BY <1>1, Serving
  <1>3. /\ reader \in [src : Source, eof : BOOLEAN] /\ reader.src \in Source /\ f \in Formats
        /\ replies \in Seq(Replies) /\ here \in Places /\ replies' \in Seq(Replies)
    BY DEF RInv, IInv, TypeOK, Places
  <1>4. /\ WholeGroups(f) /\ Fits(f, Chunk) /\ Length \in Nat /\ Chunk \in Nat
    BY <1>2, <1>3, FormatFits
  <1>5. CASE reader.eof
    <2>1. Answer("read", << >>, reader)
      BY <1>5 DEF WorkerRead
    <2>2. PICK r : r = Reply("read", << >>, reader)
      OBVIOUS
    <2>3. /\ FailuresTold' /\ Asked' /\ reader' = reader /\ replies' = Append(replies, r)
          /\ requests' = Tail(requests) /\ Len(requests') = Len(requests) - 1
          /\ UNCHANGED <<alive, outstanding, failed, pc, target, got, here>>
      BY <2>1, <2>2, <1>1, AnswerRests
    <2>4. r.eof /\ r.data = << >>
      BY <2>2, <1>5 DEF Reply
    <2>5. r \in Replies
      <3>1. Position(reader.src) \in Nat
        BY <1>3, <1>4, PositionTyped
      <3>2. << >> \in Seq(Nat \union {Garbled})
        OBVIOUS
      <3> QED
        BY <2>2, <3>1, <3>2, <1>3 DEF Reply, Replies
    <2>6. ReadAhead'
      <3>1. ASSUME pc \in {"idle", "refill"}
            PROVE  AllTold(here, replies') /\ (here.health = "ok" => fault)
        <4>1. AllTold(here, replies) /\ (here.health = "ok" => fault)
          BY <3>1, <1>5 DEF RInv, ReadAhead
        <4> QED
          BY <4>1, <2>3, <2>4, <2>5, <1>3, ToldOneMore
      <3> QED
        BY <3>1, <2>3, <1>1, <1>5 DEF ReadAhead
    <2>7. Seeking'
      BY <2>3, <1>1, <1>2, <1>5 DEF RInv, Seeking
    <2>8. SeekAnswered' /\ SourceSound'
      BY <2>3, <1>2, <1>5 DEF SeekAnswered, SourceSound
    <2> QED
      BY <2>3, <2>6, <2>7, <2>8 DEF RInv
  <1>6. CASE ~reader.eof
    <2>1. PICK done : done = ReadOf(reader.src, Chunk)
      OBVIOUS
    <2>2. PICK rdr : rdr = [reader EXCEPT !.src = done.src]
      OBVIOUS
    <2>3. Answer("read", done.data, rdr)
      BY <2>1, <2>2, <1>2, <1>6 DEF WorkerRead
    <2>4. Well(reader.src)
      BY <1>6 DEF RInv, SourceSound
    <2>5. PICK n \in Nat : n = Yield(Stands, Chunk) /\ n <= Chunk
      <3>1. Stands \in Nat
        BY <1>3, <1>4, PositionTyped DEF Stands
      <3> QED
        BY <3>1, <1>4, Bounds DEF Yield
    <2>6. /\ done.data = Run(Stands, n) /\ Position(done.src) = Stands + n
          /\ Well(done.src) /\ done.src.format = f
      BY <2>1, <2>4, <2>5, <1>3, <1>4, ReadDelivers, ReadTyped DEF Delivers, Stands
    <2>7. rdr.src = done.src /\ ~rdr.eof
      BY <2>2, <1>3, <1>6
    <2>8. PICK r : r = Reply("read", done.data, rdr)
      OBVIOUS
    <2>9. /\ FailuresTold' /\ Asked' /\ reader' = rdr /\ replies' = Append(replies, r)
          /\ requests' = Tail(requests) /\ Len(requests') = Len(requests) - 1
          /\ UNCHANGED <<alive, outstanding, failed, pc, target, got, here>>
      BY <2>3, <2>6, <2>7, <2>8, <1>1, AnswerRests
    <2>10. ~r.eof /\ r.data = Run(Stands, n) /\ r.pos = Stands + n
      BY <2>6, <2>7, <2>8 DEF Reply
    <2>11. Stands' = Stands + n /\ Stands \in Nat
      BY <2>6, <2>7, <2>9, <1>3, <1>4, PositionTyped DEF Stands
    <2>12. r \in Replies
      <3>1. /\ Len(replies) \in Nat /\ Len(replies') = Len(replies) + 1
            /\ replies'[Len(replies) + 1] = r
        BY <2>9, <1>3
      <3> QED
        BY <3>1, <1>3
    <2>13. ReadAhead'
      <3>1. ASSUME pc \in {"idle", "refill"}
            PROVE  /\ AllTold(here, replies') /\ NoneEnded(replies') /\ here.health = "ok"
                   /\ Stands' = Place(here, replies', Len(replies'))
        <4>1. /\ AllTold(here, replies) /\ here.health = "ok" /\ NoneEnded(replies)
              /\ Stands = Place(here, replies, Len(replies))
          BY <3>1, <1>6 DEF RInv, ReadAhead
        <4>2. PICK p : p = Place(here, replies, Len(replies))
          OBVIOUS
        <4>3. r.data = Run(p, Yield(p, Chunk)) /\ r.pos = p + Yield(p, Chunk)
          BY <4>1, <4>2, <2>5, <2>10
        <4>4. /\ AllTold(here, Append(replies, r)) /\ NoneEnded(Append(replies, r))
              /\ Place(here, Append(replies, r), Len(Append(replies, r))) = r.pos
          BY <4>1, <4>2, <4>3, <2>10, <2>12, <1>3, ToldOneMore
        <4> QED
          BY <4>1, <4>4, <2>9, <2>10, <2>11
      <3> QED
        BY <3>1, <2>7, <2>9, <1>1 DEF ReadAhead
    <2>14. Seeking'
      <3>1. ASSUME pc = "flush"
            PROVE  /\ here.health = "ok" /\ here.pos <= Stands'
                   /\ ForwardOnly(reader.src) /\ target >= here.pos + Chunk =>
                        Stands' + InFlight' <= target
        <4>1. /\ here.health = "ok" /\ here.pos <= Stands /\ here.pos \in Nat
              /\ ForwardOnly(reader.src) /\ target >= here.pos + Chunk =>
                   Stands + InFlight <= target
          BY <3>1, <1>3, <1>6 DEF RInv, Seeking, Places
        <4>2. requests # << >>
          BY <1>1 DEF Serve
        <4>3. Len(requests) = 1
          BY <3>1, <4>2, FlushedOne
        <4>4. requests' \in Seq(Requests) /\ Len(requests') = 0
          BY <4>3, <2>9 DEF RInv, IInv, TypeOK
        <4>5. InFlight = Chunk /\ InFlight' = 0
          BY <3>1, <4>2, <4>4, <2>9 DEF InFlight
        <4>6. target \in Nat
          BY DEF RInv, IInv, TypeOK
        <4> QED
          BY <4>1, <4>5, <4>6, <2>5, <2>11, <1>4
      <3>2. ForwardOnly(rdr.src) = ForwardOnly(reader.src)
        BY <2>6, <2>7 DEF ForwardOnly
      <3> QED
        BY <3>1, <3>2, <2>7, <2>9, <1>2 DEF Seeking
    <2>15. SeekAnswered' /\ SourceSound'
      BY <2>6, <2>7, <2>9, <1>2 DEF SeekAnswered, SourceSound
    <2> QED
      BY <2>9, <2>13, <2>14, <2>15 DEF RInv
  <1> QED
    BY <1>5, <1>6, <1>3

\* While a seek is served, it is alone.
LEMMA SeekAlone ==
    ASSUME RInv, Serve("seek")
    PROVE  pc = "seek" /\ replies = << >> /\ replies \in Seq(Replies)
  <1>1. /\ alive /\ pc = "seek" /\ Len(requests) \in Nat /\ Len(requests) > 0
    BY Serving
  <1>2. replies \in Seq(Replies) /\ ChannelsCounted
    BY DEF RInv, IInv, TypeOK
  <1>3. Len(requests) + Len(replies) = 1
    BY <1>1, <1>2 DEF ChannelsCounted
  <1>4. Len(replies) \in Nat /\ (Len(replies) = 0 => replies = << >>)
    BY <1>2
  <1>5. Len(replies) = 0
    BY ONLY <1>1, <1>3, <1>4
  <1> QED
    BY <1>1, <1>2, <1>4, <1>5

\* An error of the input: the reader has ended, and something has gone wrong.
LEMMA FailureKeeps ==
    ASSUME RInv, NEW op \in {"read", "seek"}, Serve(op),
           Answer(op, << >>, [reader EXCEPT !.eof = TRUE]), fault' = TRUE, IInv'
    PROVE  RInv'
  <1> DEFINE dead == [reader EXCEPT !.eof = TRUE]
             r == Reply(op, << >>, dead)
  <1>1. /\ reader \in [src : Source, eof : BOOLEAN] /\ reader.src \in Source
        /\ reader.src.format \in Formats
        /\ replies \in Seq(Replies) /\ here \in Places
    BY DEF RInv, IInv, TypeOK, Places
  <1>2. dead.src = reader.src /\ dead.eof
    BY <1>1
  <1>3. /\ FailuresTold' /\ Asked' /\ reader' = dead /\ replies' = Append(replies, r)
        /\ requests' = Tail(requests) /\ Len(requests') = Len(requests) - 1
        /\ UNCHANGED <<alive, outstanding, failed, pc, target, got, here>>
    BY <1>2, AnswerRests
  <1>4. r.eof /\ r.data = << >>
    BY <1>2 DEF Reply
  <1>5. r \in Replies
    <2>1. Position(reader.src) \in Nat
      BY <1>1, FormatFits, PositionTyped
    <2>2. << >> \in Seq(Nat \union {Garbled})
      OBVIOUS
    <2> QED
      BY <2>1, <2>2, <1>2 DEF Reply, Replies
  <1> HIDE DEF r, dead
  <1>6. ReadAhead'
    <2>1. ASSUME pc \in {"idle", "refill"}
          PROVE  AllTold(here, replies')
      <3>1. AllTold(here, replies)
        BY <2>1 DEF RInv, ReadAhead
      <3> QED
        BY <3>1, <1>1, <1>3, <1>4, <1>5, ToldOneMore
    <2> QED
      BY <2>1, <1>2, <1>3 DEF ReadAhead
  <1>7. Seeking'
    BY <1>2, <1>3 DEF Seeking
  <1>8. SeekAnswered'
    <2>1. ASSUME pc = "seek"
          PROVE  replies'[1] = r
      <3>1. op = "seek"
        BY <2>1, Serving
      <3>2. replies = << >>
        BY <3>1, SeekAlone
      <3> QED
        BY <3>2, <1>3
    <2> QED
      BY <2>1, <1>2, <1>3, <1>4 DEF SeekAnswered
  <1>9. SourceSound'
    BY <1>2, <1>3 DEF SourceSound
  <1> QED
    BY <1>3, <1>6, <1>7, <1>8, <1>9 DEF RInv

\* DecodeReader::seek_samples.
LEMMA SeekKeeps ==
    ASSUME RInv, WorkerSeek, IInv'
    PROVE  RInv'
  <1> DEFINE f == reader.src.format
             dead == [reader EXCEPT !.eof = TRUE]
  <1>1. Serve("seek") /\ fault' = fault
    BY DEF WorkerSeek
  <1>2. /\ pc = "seek" /\ replies = << >> /\ Head(requests).arg = target /\ requests # << >>
    BY <1>1, Serving, SeekAlone
  <1>3. /\ reader \in [src : Source, eof : BOOLEAN] /\ reader.src \in Source /\ f \in Formats
        /\ target \in Nat /\ target \in Targets(f) /\ here \in Places /\ here.pos \in Nat
        /\ Fits(f, target)
    BY <1>2 DEF RInv, IInv, TypeOK, Asked, Places
  <1>4. /\ WholeGroups(f) /\ Fits(f, target) /\ Length \in Nat /\ Chunk \in Nat
    BY <1>3, FormatFits
  <1>5. PICK rdr : rdr = IF reader.eof THEN reader
                         ELSE IF SeekRefused(reader.src, target) THEN dead
                         ELSE [reader EXCEPT !.src = SeekOf(@, target)]
    OBVIOUS
  <1>6. Answer("seek", << >>, rdr)
    BY <1>2, <1>5 DEF WorkerSeek
  <1>7. rdr.src.format = f
    <2>1. ~SeekRefused(reader.src, target) => SeekOf(reader.src, target).format = f
      BY <1>3, <1>4, SeekTyped
    <2> QED
      BY <2>1, <1>3, <1>5
  <1>8. PICK r : r = Reply("seek", << >>, rdr)
    OBVIOUS
  <1>9. /\ FailuresTold' /\ Asked' /\ reader' = rdr /\ replies' = Append(replies, r)
        /\ UNCHANGED <<alive, outstanding, failed, pc, target, got, here>>
    BY <1>1, <1>6, <1>7, <1>8, AnswerRests
  <1>10. replies' # << >> /\ replies'[1] = r
    BY <1>2, <1>9
  <1>11. r.eof = rdr.eof /\ r.pos = Position(rdr.src)
    BY <1>8 DEF Reply
  <1>12. ReadAhead' /\ Seeking'
    BY <1>2, <1>9, <1>10 DEF ReadAhead, Seeking
  <1>13. /\ ~reader.eof => /\ here.health = "ok" /\ here.pos <= Stands
                           /\ ForwardOnly(reader.src) /\ target >= here.pos + Chunk =>
                                Stands <= target
         /\ reader.eof /\ here.health = "ok" => fault
    <2>1. Stands \in Nat
      BY <1>3, <1>4, PositionTyped DEF Stands
    <2>2. InFlight = 0
      BY <1>2 DEF InFlight
    <2> QED
      BY <2>1, <2>2, <1>2 DEF RInv, Seeking
  <1>14. ForwardOnly(rdr.src) = ForwardOnly(reader.src)
    BY <1>7 DEF ForwardOnly
  <1>15. CASE reader.eof
    <2>1. rdr = reader
      BY <1>5, <1>15
    <2>2. SeekAnswered'
      BY <2>1, <1>1, <1>9, <1>10, <1>11, <1>13, <1>15 DEF SeekAnswered
    <2>3. SourceSound'
      BY <2>1, <1>9, <1>15 DEF SourceSound
    <2> QED
      BY <2>2, <2>3, <1>9, <1>12 DEF RInv
  <1>16. CASE ~reader.eof /\ SeekRefused(reader.src, target)
    <2>1. rdr = dead /\ rdr.eof
      BY <1>3, <1>5, <1>16
    <2>2. Well(reader.src)
      BY <1>16 DEF RInv, SourceSound
    <2>3. ForwardOnly(reader.src) /\ (target < Stands \/ target >= Length) /\ Stands \in Nat
      BY <2>2, <1>3, <1>4, <1>16, RefusedBehind, PositionTyped DEF Stands
    <2>4. target < here.pos + Chunk \/ target >= Length
      BY <2>3, <1>3, <1>4, <1>13, <1>16
    <2>5. SeekAnswered'
      BY <2>1, <2>3, <2>4, <1>9, <1>10, <1>11, <1>14 DEF SeekAnswered
    <2>6. SourceSound'
      BY <2>1, <1>9 DEF SourceSound
    <2> QED
      BY <2>5, <2>6, <1>9, <1>12 DEF RInv
  <1>17. CASE ~reader.eof /\ ~SeekRefused(reader.src, target)
    <2>1. Well(reader.src)
      BY <1>17 DEF RInv, SourceSound
    <2>2. WellAt(SeekOf(reader.src, target), Least(target, Length))
      BY <2>1, <1>3, <1>4, <1>17, SeekArrives
    <2>3. rdr.src = SeekOf(reader.src, target) /\ ~rdr.eof
      BY <1>3, <1>5, <1>17
    <2>4. r.pos = Least(target, Length) /\ ~r.eof /\ Well(rdr.src)
          /\ Position(rdr.src) = Least(target, Length)
      BY <2>2, <2>3, <1>11 DEF WellAt
    <2>5. ~(ForwardOnly(reader.src) /\ target < here.pos)
      <3>1. ForwardOnly(reader.src) /\ target < Stands => SeekRefused(reader.src, target)
        BY <2>1, <1>3, <1>4, RefusedBehind DEF Stands
      <3>2. Stands \in Nat
        BY <1>3, <1>4, PositionTyped DEF Stands
      <3> QED
        BY <3>1, <3>2, <1>3, <1>13, <1>17
    <2>6. SeekAnswered'
      BY <2>3, <2>4, <2>5, <1>9, <1>10, <1>11, <1>13, <1>14, <1>17 DEF SeekAnswered, Stands
    <2>7. SourceSound'
      BY <2>4, <1>9 DEF SourceSound
    <2> QED
      BY <2>6, <2>7, <1>9, <1>12 DEF RInv
  <1> QED
    BY <1>15, <1>16, <1>17

\* The thread panics.
LEMMA DeathKeeps ==
    ASSUME RInv, WorkerDies, IInv'
    PROVE  RInv'
  <1>1. /\ requests' = << >> /\ alive' = FALSE /\ fault' = TRUE /\ alive
        /\ UNCHANGED <<reader, replies, outstanding, failed, pc, target, got, here>>
    BY DEF WorkerDies, handleVars
  <1>2. FailuresTold'
    BY <1>1 DEF RInv, FailuresTold, QueueDepth
  <1>3. Len(requests') = 0
    BY <1>1
  <1>4. Asked'
    BY <1>1, <1>3 DEF RInv, Asked
  <1>5. ReadAhead'
    BY <1>1 DEF RInv, ReadAhead, AllTold, Told, NoneEnded, Place, Stands
  <1>6. Seeking'
    <2>1. InFlight' = 0
      BY <1>1 DEF InFlight
    <2>2. ~reader.eof /\ (pc = "flush" \/ (pc = "seek" /\ replies = << >>)) =>
            /\ here.health = "ok" /\ here.pos <= Stands
            /\ ForwardOnly(reader.src) /\ target >= here.pos + Chunk =>
                 Stands + InFlight <= target
      BY DEF RInv, Seeking
    <2>3. Stands \in Nat /\ InFlight \in Nat /\ target \in Nat
      <3>1. reader.src \in Source /\ reader.src.format \in Formats /\ target \in Nat
        BY DEF RInv, IInv, TypeOK
      <3> QED
        BY <3>1, FormatFits, PositionTyped DEF Stands, InFlight
    <2>4. Stands + InFlight <= target => Stands + 0 <= target
      BY <2>3
    <2> QED
      BY <2>1, <2>2, <2>4, <1>1 DEF Seeking, Stands
  <1>7. SeekAnswered' /\ SourceSound'
    BY <1>1 DEF RInv, SeekAnswered, SourceSound, Stands
  <1> QED
    BY <1>2, <1>4, <1>5, <1>6, <1>7 DEF RInv

\* The steps of the thread.
LEMMA WorkerTells ==
    ASSUME RInv, Worker
    PROVE  RInv'
  <1>1. IInv'
    BY WorkerKeeps DEF RInv
  <1>2. CASE WorkerReadFails
    BY <1>1, <1>2, FailureKeeps DEF WorkerReadFails
  <1>3. CASE WorkerSeekFails
    BY <1>1, <1>3, FailureKeeps DEF WorkerSeekFails
  <1> QED
    BY <1>1, <1>2, <1>3, ReadKeeps, SeekKeeps, DeathKeeps DEF Worker

\* One more read is sent, or refused by a thread that is gone.
LEMMA PrefetchTells ==
    ASSUME RInv, Prefetch \/ PrefetchRefused, IInv', ~split'
    PROVE  RInv'
  <1>1. /\ pc \in {"idle", "refill"} /\ pc' = "refill" /\ outstanding < QueueDepth
        /\ UNCHANGED <<reader, alive, fault, replies, target, got, here>>
    BY DEF Prefetch, PrefetchRefused
  <1>2. requests \in Seq(Requests) /\ outstanding \in 0 .. QueueDepth
    BY DEF RInv, IInv, TypeOK
  <1>3. FailuresTold'
    BY <1>1 DEF Prefetch, PrefetchRefused, RInv, FailuresTold, Gone
  <1>4. Asked'
    <2>1. CASE Prefetch
      <3> DEFINE m == [op |-> "read", arg |-> Chunk]
      <3>1. /\ requests' = Append(requests, m) /\ m.op = "read" /\ m.arg = Chunk
            /\ ~Splits(reader.src.format, Chunk)
        BY <2>1 DEF Prefetch
      <3> HIDE DEF m
      <3>4. Fits(reader.src.format, Chunk)
        BY <3>1 DEF Fits, Splits
      <3>2. /\ Len(requests) \in Nat /\ Len(requests') = Len(requests) + 1
            /\ requests'[Len(requests) + 1] = m
            /\ \A i \in 1 .. Len(requests) : requests'[i] = requests[i]
        BY <3>1, <1>2
      <3>3. ASSUME NEW i \in 1 .. Len(requests')
            PROVE  /\ requests'[i].arg = IF requests'[i].op = "read" THEN Chunk ELSE target
                   /\ Fits(reader.src.format, requests'[i].arg)
        <4>1. CASE i = Len(requests) + 1
          BY <4>1, <3>1, <3>2, <3>4
        <4>2. CASE i \in 1 .. Len(requests)
          BY <4>2, <3>2 DEF RInv, Asked
        <4>3. i = Len(requests) + 1 \/ i \in 1 .. Len(requests)
          BY <3>2
        <4> QED
          BY <4>1, <4>2, <4>3
      <3> QED
        BY <3>3, <1>1 DEF Asked
    <2>2. CASE PrefetchRefused
      BY <2>2, <1>1 DEF PrefetchRefused, RInv, Asked
    <2> QED
      BY <2>1, <2>2
  <1>5. ReadAhead'
    <2>1. /\ AllTold(here, replies)
          /\ ~reader.eof => /\ here.health = "ok"
                            /\ Stands = Place(here, replies, Len(replies))
                            /\ NoneEnded(replies)
          /\ reader.eof /\ here.health = "ok" => fault
      BY <1>1 DEF RInv, ReadAhead
    <2> QED
      BY <2>1, <1>1 DEF ReadAhead, AllTold, Told, NoneEnded, Place, Stands
  <1>6. Seeking' /\ SeekAnswered' /\ SourceSound'
    BY <1>1 DEF RInv, Seeking, SeekAnswered, SourceSound
  <1> QED
    BY <1>3, <1>4, <1>5, <1>6 DEF RInv

\* The first reply is taken: the rest tell what comes behind it.
LEMMA TakeTells ==
    ASSUME RInv, Take, IInv'
    PROVE  RInv' /\ ~failed /\ Told(here, replies, 1)
  <1>1. /\ pc = "refill" /\ pc' = "idle" /\ outstanding = QueueDepth /\ replies # << >>
        /\ outstanding' = outstanding - 1 /\ replies' = Tail(replies)
        /\ here' = AfterOf(here, Head(replies))
        /\ UNCHANGED <<reader, alive, fault, requests, failed, target>>
    BY DEF Take, Receive, After, AfterOf
  <1>2. /\ replies \in Seq(Replies) /\ here \in Places
        /\ Len(replies) \in Nat /\ Len(replies) > 0 /\ Head(replies) = replies[1]
    <2>1. replies \in Seq(Replies) /\ here \in Places
      BY DEF RInv, IInv, TypeOK, Places
    <2> QED
      BY <2>1, <1>1
  <1>3. ~failed
    BY <1>1 DEF RInv, FailuresTold, QueueDepth
  <1>4. FailuresTold'
    BY <1>1, <1>3 DEF RInv, FailuresTold, QueueDepth
  <1>5. Asked'
    BY <1>1 DEF RInv, Asked
  <1>6. /\ AllTold(here, replies)
        /\ ~reader.eof => Stands = Place(here, replies, Len(replies)) /\ NoneEnded(replies)
        /\ reader.eof /\ here.health = "ok" => fault
    BY <1>1 DEF RInv, ReadAhead
  <1>7. Told(here, replies, 1)
    BY <1>2, <1>6 DEF AllTold
  <1>8. /\ AllTold(here', replies')
        /\ NoneEnded(replies) =>
             /\ NoneEnded(replies') /\ ~Head(replies).eof
             /\ Place(here', replies', Len(replies')) = Place(here, replies, Len(replies))
    BY <1>1, <1>2, <1>6, ToldRest
  <1>9. ~Head(replies).eof => here'.health = "ok" /\ here.health = "ok"
    BY <1>1, <1>2, <1>7 DEF AfterOf, Told
  <1>10. Head(replies).eof => here'.health # "ok"
    BY <1>1, <1>2 DEF AfterOf, Places
  <1>11. ReadAhead'
    BY <1>1, <1>6, <1>8, <1>9, <1>10 DEF ReadAhead, Stands
  <1>12. Seeking' /\ SeekAnswered' /\ SourceSound'
    BY <1>1 DEF RInv, Seeking, SeekAnswered, SourceSound
  <1> QED
    BY <1>3, <1>4, <1>5, <1>7, <1>11, <1>12 DEF RInv

\* A seek begins: a pipe that is sent a chunk ahead is sent past what is in flight.
LEMMA BeginSeekTells ==
    ASSUME RInv, NEW s \in Targets(reader.src.format), BeginSeek(s), IInv', ~split'
    PROVE  RInv'
  <1>1. /\ pc = "idle" /\ pc' = "flush" /\ target' = s
        /\ ~Splits(reader.src.format, s)
        /\ UNCHANGED <<reader, alive, fault, requests, replies, outstanding, failed, got, here>>
    BY DEF BeginSeek
  <1>2. /\ replies \in Seq(Replies) /\ requests \in Seq(Requests) /\ here.pos \in Nat
        /\ reader.src \in Source /\ reader.src.format \in Formats
    BY DEF RInv, IInv, TypeOK
  <1>3. s \in Nat /\ Chunk \in Nat /\ Length \in Nat /\ Fits(reader.src.format, s)
    BY <1>1, <1>2, FormatFits
  <1>4. FailuresTold'
    BY <1>1 DEF RInv, FailuresTold
  <1>5. Asked'
    <2>1. \A i \in 1 .. Len(requests) : requests[i].op = "read"
      BY <1>1 DEF RInv, IInv, ChannelsCounted, Only
    <2> QED
      BY <2>1, <1>1, <1>3 DEF RInv, Asked
  <1>6. Seeking'
    <2>1. ASSUME ~reader.eof
          PROVE  /\ here.health = "ok" /\ here.pos <= Stands
                 /\ ForwardOnly(reader.src) /\ s >= here.pos + Chunk =>
                      Stands + InFlight' <= s
      <3>1. /\ AllTold(here, replies) /\ here.health = "ok" /\ NoneEnded(replies)
            /\ Stands = Place(here, replies, Len(replies))
        BY <2>1, <1>1 DEF RInv, ReadAhead
      <3>2. /\ Len(requests) \in Nat /\ Len(replies) \in Nat
            /\ Len(requests) + Len(replies) <= 1
            /\ requests # << >> => Len(requests) = 1 /\ replies = << >>
        BY <1>1, FlushedOne
      <3>3. InFlight' = IF requests # << >> THEN Chunk ELSE 0
        BY <1>1 DEF InFlight
      <3>4. CASE replies = << >>
        <4>1. Stands = here.pos
          BY <3>1, <3>4 DEF Place
        <4>2. InFlight' \in Nat /\ InFlight' <= Chunk
          BY <3>3, <1>3
        <4> QED
          BY <4>1, <4>2, <3>1, <1>1, <1>2, <1>3
      <3>5. CASE replies # << >>
        <4>1. Len(replies) = 1
          <5>1. Len(replies) > 0
            BY <3>5, <1>2
          <5>2. Len(requests) + Len(replies) <= 1
            BY <3>2
          <5>3. PICK m \in Nat, n \in Nat : m = Len(requests) /\ n = Len(replies)
            BY <1>2
          <5>4. n > 0 /\ m + n <= 1
            BY <5>1, <5>2, <5>3
          <5>5. n = 1
            BY ONLY <5>4, n \in Nat, m \in Nat
          <5> QED
            BY <5>3, <5>5
        <4>2. Told(here, replies, 1) /\ ~replies[1].eof
          BY <4>1, <3>1 DEF AllTold, NoneEnded
        <4>3. Place(here, replies, 0) = here.pos /\ Place(here, replies, 1) = replies[1].pos
          BY DEF Place
        <4>4. Stands = here.pos + Yield(here.pos, Chunk)
          BY <4>1, <4>2, <4>3, <3>1 DEF Told
        <4>5. Yield(here.pos, Chunk) \in Nat /\ Yield(here.pos, Chunk) <= Chunk
          BY <1>2, <1>3, Bounds DEF Yield
        <4>6. InFlight' = 0
          BY <3>2, <3>3, <3>5
        <4> QED
          BY <4>4, <4>5, <4>6, <3>1, <1>1, <1>2, <1>3
      <3> QED
        BY <3>4, <3>5
    <2>2. reader.eof /\ here.health = "ok" => fault
      BY <1>1 DEF RInv, ReadAhead
    <2> QED
      BY <2>1, <2>2, <1>1 DEF Seeking, Stands
  <1>7. ReadAhead' /\ SeekAnswered' /\ SourceSound'
    BY <1>1 DEF RInv, ReadAhead, SeekAnswered, SourceSound
  <1> QED
    BY <1>4, <1>5, <1>6, <1>7 DEF RInv

\* A flush drops what was in flight; then the seek is sent.
LEMMA FlushTells ==
    ASSUME RInv, Flush, IInv'
    PROVE  RInv'
  <1>1. /\ pc = "flush" /\ pc' = "flush" /\ replies # << >> /\ outstanding' = outstanding - 1
        /\ UNCHANGED <<reader, alive, fault, requests, failed, target, got, here>>
    BY DEF Flush
  <1>2. requests = << >>
    BY <1>1, FlushedOne
  <1>3. outstanding \in 0 .. QueueDepth
    BY DEF RInv, IInv, TypeOK
  <1>4. FailuresTold'
    BY <1>1, <1>3 DEF RInv, FailuresTold
  <1>5. Asked'
    BY <1>1 DEF RInv, Asked
  <1>6. InFlight' = InFlight
    BY <1>1 DEF InFlight
  <1>7. Seeking'
    BY <1>1, <1>6 DEF RInv, Seeking, Stands
  <1>8. ReadAhead' /\ SeekAnswered' /\ SourceSound'
    BY <1>1 DEF RInv, ReadAhead, SeekAnswered, SourceSound
  <1> QED
    BY <1>4, <1>5, <1>7, <1>8 DEF RInv

LEMMA SendSeekTells ==
    ASSUME RInv, SendSeek, IInv'
    PROVE  RInv'
  <1> DEFINE m == [op |-> "seek", arg |-> target]
  <1>1. /\ pc = "flush" /\ pc' = "seek" /\ outstanding = 0 /\ alive
        /\ requests' = Append(requests, m) /\ m.op = "seek" /\ m.arg = target
        /\ UNCHANGED <<reader, alive, fault, replies, outstanding, failed, target, got, here>>
    BY DEF SendSeek, Gone
  <1> HIDE DEF m
  <1>2. replies \in Seq(Replies) /\ requests \in Seq(Requests)
    BY DEF RInv, IInv, TypeOK
  <1>3. Len(requests) = 0 /\ Len(replies) = 0
    <2>1. outstanding = Len(requests) + Len(replies)
      BY <1>1 DEF RInv, IInv, ChannelsCounted
    <2> QED
      BY <2>1, <1>1, <1>2
  <1>4. requests = << >> /\ replies = << >>
    BY <1>2, <1>3
  <1>5. Len(requests') = 1 /\ requests'[1] = m
    BY <1>1, <1>4
  <1>6. FailuresTold'
    BY <1>1 DEF RInv, FailuresTold
  <1>7. Asked'
    BY <1>1, <1>5 DEF RInv, Asked
  <1>8. InFlight = 0 /\ InFlight' = 0
    BY <1>1, <1>4 DEF InFlight
  <1>9. Seeking'
    BY <1>1, <1>8 DEF RInv, Seeking, Stands
  <1>10. ReadAhead' /\ SeekAnswered' /\ SourceSound'
    BY <1>1, <1>4 DEF RInv, ReadAhead, SeekAnswered, SourceSound
  <1> QED
    BY <1>6, <1>7, <1>9, <1>10 DEF RInv

\* A seek is answered: nothing is ahead of the caller.
LEMMA SeekDoneTells ==
    ASSUME RInv, SeekDone, IInv'
    PROVE  RInv' /\ ~failed /\ Head(replies) = replies[1]
  <1>1. /\ pc = "seek" /\ pc' = "idle" /\ replies # << >> /\ replies' = Tail(replies)
        /\ here' = AfterOf(here, Head(replies))
        /\ UNCHANGED <<reader, alive, fault, requests, outstanding, failed, target>>
    BY DEF SeekDone, Receive, After, AfterOf
  <1>2. /\ replies \in Seq(Replies) /\ requests \in Seq(Requests) /\ here \in Places
        /\ Len(replies) \in Nat /\ Len(replies) > 0 /\ Head(replies) = replies[1]
        /\ Len(requests) \in Nat /\ replies[1].eof \in BOOLEAN /\ outstanding = 0
    <2>1. /\ replies \in Seq(Replies) /\ requests \in Seq(Requests) /\ here \in Places
          /\ outstanding = 0
      BY <1>1 DEF RInv, IInv, TypeOK, Places, ChannelsCounted
    <2>2. Head(replies) = replies[1] /\ Head(replies) \in Replies
      BY <2>1, <1>1
    <2> QED
      BY <2>1, <2>2, <1>1 DEF Replies
  <1>3. Len(replies) <= 1 /\ Len(requests) = 0
    <2>1. CASE alive
      BY <2>1, <1>1, <1>2 DEF RInv, IInv, ChannelsCounted
    <2>2. CASE ~alive
      BY <2>2, <1>1, <1>2 DEF RInv, IInv, ChannelsCounted, DeadIsSilent
    <2> QED
      BY <2>1, <2>2
  <1>4. replies' = << >> /\ Len(replies') = 0
    <2>1. replies' \in Seq(Replies) /\ Len(replies') = Len(replies) - 1
      BY <1>1, <1>2, Received
    <2>2. Len(replies') = 0
      BY ONLY <2>1, <1>2, <1>3
    <2> QED
      BY <2>1, <2>2
  <1>5. FailuresTold' /\ ~failed
    BY <1>1, <1>2 DEF RInv, FailuresTold
  <1>6. Asked'
    BY <1>1 DEF RInv, Asked
  <1>7. /\ reader.eof = replies[1].eof
        /\ ~replies[1].eof => here.health = "ok" /\ Stands = replies[1].pos
    BY <1>1 DEF RInv, SeekAnswered
  <1>8. IF replies[1].eof THEN here'.health = "dead"
        ELSE here'.pos = replies[1].pos /\ here'.health = "ok"
    BY <1>1, <1>2 DEF AfterOf, Places
  <1>9. ReadAhead'
    <2>1. \A k : k \notin 1 .. Len(replies')
      BY <1>4
    <2>2. AllTold(here', replies') /\ NoneEnded(replies')
      BY <2>1 DEF AllTold, NoneEnded
    <2>3. Place(here', replies', Len(replies')) = here'.pos /\ Stands' = Stands
      BY <1>1, <1>4 DEF Place, Stands
    <2> QED
      BY <1>1, <1>7, <1>8, <2>2, <2>3 DEF ReadAhead
  <1>10. Seeking' /\ SeekAnswered' /\ SourceSound'
    BY <1>1 DEF RInv, Seeking, SeekAnswered, SourceSound
  <1> QED
    BY <1>2, <1>5, <1>6, <1>9, <1>10 DEF RInv

LEMMA DiedTells ==
    ASSUME RInv, Died, IInv'
    PROVE  RInv'
  <1>1. /\ ~alive /\ failed' = TRUE /\ pc' = "error"
        /\ UNCHANGED <<reader, alive, fault, requests, replies, outstanding, target, got, here>>
    BY DEF Died, Gone
  <1>2. FailuresTold' /\ Asked'
    BY <1>1 DEF RInv, FailuresTold, Asked
  <1>3. ReadAhead' /\ Seeking' /\ SeekAnswered' /\ SourceSound'
    BY <1>1 DEF RInv, ReadAhead, Seeking, SeekAnswered, SourceSound
  <1> QED
    BY <1>2, <1>3 DEF RInv

\* No step of either side breaks what the replies tell.
LEMMA NextTells ==
    ASSUME RInv, [Next]_vars, ~split'
    PROVE  RInv'
  <1>1. CASE Worker
    BY <1>1, WorkerTells
  <1>2. CASE Call
    <2>1. IInv'
      BY <1>2, HandleKeeps DEF RInv
    <2> QED
      BY <2>1, <1>2, PrefetchTells, TakeTells, FlushTells, SendSeekTells, SeekDoneTells,
         DiedTells DEF Call
  <1>3. ASSUME NEW s \in Targets(reader.src.format), BeginSeek(s)
        PROVE  RInv'
    <2>1. IInv'
      BY <1>3, HandleKeeps DEF RInv
    <2> QED
      BY <2>1, <1>3, BeginSeekTells
  <1>4. CASE UNCHANGED vars
    <2>1. UNCHANGED <<reader, alive, fault, requests, replies, outstanding, failed, pc, target,
                      got, here>>
      BY <1>4 DEF vars, handleVars
    <2>2. IInv'
      BY ReaderKept DEF RInv
    <2>3. FailuresTold' /\ Asked'
      BY <2>1 DEF RInv, FailuresTold, Asked, Fits
    <2>4. ReadAhead'
      BY <2>1 DEF RInv, ReadAhead, AllTold, Told, NoneEnded, Place, Stands
    <2>5. Seeking' /\ SeekAnswered' /\ SourceSound'
      BY <2>1 DEF RInv, Seeking, InFlight, SeekAnswered, SourceSound, Stands
    <2> QED
      BY <2>2, <2>3, <2>4, <2>5 DEF RInv
  <1> QED
    BY <1>1, <1>2, <1>3, <1>4 DEF Next

\* What the synchronous reader delivers, in the words of the sources.
LEMMA SameWords ==
    ASSUME NEW i \in Nat, NEW n \in Nat
    PROVE  /\ Stream!Samples(i, n) = Run(i, n)
           /\ Stream!Shorter(i, n) = Least(i, n)
           /\ Stream!Available(i) = Left(i, Length)
  BY DEF Stream!Samples, Run, Stream!Shorter, Least, Stream!Available, Left

StreamStutter == UNCHANGED Stream!streamVars

\* The step changes nothing the caller sees.
LEMMA Unseen ==
    ASSUME UNCHANGED <<here, failed, got, fault>>,
           ForwardOnly(reader.src)' = ForwardOnly(reader.src)
    PROVE  StreamStutter
  BY DEF StreamStutter, Stream!streamVars

\* The thread works unseen: at most, something goes wrong.
LEMMA WorkerMaps ==
    ASSUME RInv, Worker
    PROVE  Stream!Fault \/ StreamStutter
  <1>1. /\ reader \in [src : Source, eof : BOOLEAN] /\ reader.src \in Source
        /\ reader.src.format \in Formats /\ Length \in Nat
    BY ReaderAssumption DEF RInv, IInv, TypeOK, ReaderAssumption
  <1>2. UNCHANGED <<here, failed, got>>
    BY DEF Worker, WorkerRead, WorkerReadFails, WorkerSeek, WorkerSeekFails, WorkerDies,
           Answer, handleVars
  <1>3. fault' = fault \/ fault' = TRUE
    BY DEF Worker, WorkerRead, WorkerReadFails, WorkerSeek, WorkerSeekFails, WorkerDies
  <1>4. reader'.src.format = reader.src.format
    <2>1. CASE WorkerRead
      <3>1. Head(requests).arg \in Nat
        BY <2>1, Serving DEF WorkerRead
      <3>2. ReadOf(reader.src, Head(requests).arg).src.format = reader.src.format
        BY <3>1, <1>1, ReadTyped
      <3>3. \/ reader' = reader
            \/ reader' = [reader EXCEPT !.src = ReadOf(reader.src, Head(requests).arg).src]
        BY <2>1 DEF WorkerRead, Answer
      <3> QED
        BY <3>2, <3>3, <1>1
    <2>2. CASE WorkerSeek
      <3>1. Head(requests).arg \in Nat
        BY <2>2, Serving DEF WorkerSeek
      <3>2. ~SeekRefused(reader.src, Head(requests).arg) =>
              SeekOf(reader.src, Head(requests).arg).format = reader.src.format
        BY <3>1, <1>1, SeekTyped
      <3>3. \/ reader' = reader
            \/ reader' = [reader EXCEPT !.eof = TRUE]
            \/ /\ ~SeekRefused(reader.src, Head(requests).arg)
               /\ reader' = [reader EXCEPT !.src = SeekOf(@, Head(requests).arg)]
        BY <2>2 DEF WorkerSeek, Answer
      <3> QED
        BY <3>2, <3>3, <1>1
    <2>3. CASE WorkerReadFails \/ WorkerSeekFails \/ WorkerDies
      <3>1. reader' = reader \/ reader' = [reader EXCEPT !.eof = TRUE]
        BY <2>3 DEF WorkerReadFails, WorkerSeekFails, WorkerDies, Answer
      <3> QED
        BY <3>1, <1>1
    <2> QED
      BY <2>1, <2>2, <2>3 DEF Worker
  <1>5. ForwardOnly(reader.src)' = ForwardOnly(reader.src)
    BY <1>4 DEF ForwardOnly
  <1>6. CASE fault' = fault
    BY <1>2, <1>5, <1>6, Unseen
  <1>7. CASE fault' = TRUE
    BY <1>2, <1>5, <1>7 DEF Stream!Fault
  <1> QED
    BY <1>3, <1>6, <1>7

\* take() is the read of a chunk by the synchronous reader.
LEMMA TakeMaps ==
    ASSUME RInv, Take
    PROVE  Stream!Read(Chunk) \/ Stream!ReadFails \/ Stream!ReadDead
  <1>1. IInv'
    BY HandleKeeps DEF RInv, Call
  <1>2. ~failed /\ Told(here, replies, 1)
    BY <1>1, TakeTells
  <1>3. /\ pc = "refill" /\ replies # << >>
        /\ got' = Head(replies).data /\ here' = AfterOf(here, Head(replies))
        /\ UNCHANGED <<reader, fault, failed>>
    BY DEF Take, After, AfterOf
  <1>4. /\ here \in Places /\ here.pos \in Nat /\ here.health \in {"ok", "dead"}
        /\ replies \in Seq(Replies) /\ Chunk \in Nat /\ Length \in Nat
    BY ReaderAssumption DEF RInv, IInv, TypeOK, Places, ReaderAssumption
  <1>5. PICK r : r = replies[1] /\ r = Head(replies)
    BY <1>3, <1>4
  <1>6. 1 \in 1 .. Len(replies)
    BY <1>3, <1>4
  <1>7. CASE r.eof
    <2>1. reader.eof
      BY <1>3, <1>5, <1>6, <1>7 DEF RInv, ReadAhead, NoneEnded
    <2>2. here.health = "ok" => fault
      BY <2>1, <1>3 DEF RInv, ReadAhead
    <2>3. here' = [here EXCEPT !.health = "dead"] /\ got' = << >>
      BY <1>2, <1>3, <1>5, <1>7 DEF AfterOf, Told
    <2>4. here'.pos = here.pos /\ here'.health = "dead"
      BY <2>3, <1>4 DEF Places
    <2>5. ForwardOnly(reader.src)' = ForwardOnly(reader.src)
      BY <1>3
    <2>6. CASE here.health = "ok"
      BY <2>2, <2>3, <2>4, <2>5, <2>6, <1>2, <1>3 DEF Stream!ReadFails
    <2>7. CASE here.health = "dead"
      BY <2>3, <2>4, <2>5, <2>7, <1>2, <1>3 DEF Stream!ReadDead
    <2> QED
      BY <2>6, <2>7, <1>4
  <1>8. CASE ~r.eof
    <2> DEFINE n == Yield(here.pos, Chunk)
    <2>1. n \in Nat
      BY <1>4, Bounds DEF Yield
    <2>2. here.health = "ok" /\ r.data = Run(here.pos, n) /\ r.pos = here.pos + n
      <3>1. 1 - 1 = 0 /\ Place(here, replies, 0) = here.pos
        BY DEF Place
      <3> QED
        BY <3>1, <1>2, <1>5, <1>8 DEF Told
    <2>3. here' = [pos |-> here.pos + n, health |-> "ok"] /\ got' = Run(here.pos, n)
      BY <2>2, <1>3, <1>5, <1>8 DEF AfterOf
    <2>4. n = Stream!Shorter(Chunk, Stream!Available(here.pos))
      <3>1. Left(here.pos, Length) \in Nat
        BY <1>4, Bounds
      <3> QED
        BY <3>1, <1>4, SameWords DEF Yield
    <2>5. Run(here.pos, n) = Stream!Samples(here.pos, n)
      BY <2>1, <1>4, SameWords
    <2> HIDE DEF n
    <2>6. here'.pos = here.pos + n /\ here'.health = "ok"
      BY <2>3
    <2>7. ForwardOnly(reader.src)' = ForwardOnly(reader.src)
      BY <1>3
    <2> QED
      BY <2>2, <2>3, <2>4, <2>5, <2>6, <2>7, <1>2, <1>3 DEF Stream!Read
  <1> QED
    BY <1>7, <1>8

\* seek_samples() is the seek of the synchronous reader, unless it asks a pipe for
\* what the reads in flight have passed.
LEMMA SeekDoneMaps ==
    ASSUME RInv, SeekDone
    PROVE  Stream!Seek(target) \/ Stream!SeekFails(target) \/ Stream!SeekDead \/ Overtaken
  <1>1. IInv'
    BY HandleKeeps DEF RInv, Call
  <1>2. ~failed /\ Head(replies) = replies[1]
    BY <1>1, SeekDoneTells
  <1>3. /\ pc = "seek" /\ replies # << >>
        /\ got' = << >> /\ here' = AfterOf(here, replies[1])
        /\ UNCHANGED <<reader, fault, failed>>
    BY <1>2 DEF SeekDone, After, AfterOf
  <1>4. /\ here \in Places /\ here.pos \in Nat /\ here.health \in {"ok", "dead"}
        /\ target \in Nat /\ Length \in Nat
    BY ReaderAssumption DEF RInv, IInv, TypeOK, Places, ReaderAssumption
  <1>5. PICK r : r = replies[1]
    OBVIOUS
  <1>6. /\ ~r.eof => /\ here.health = "ok"
                     /\ ~(ForwardOnly(reader.src) /\ target < here.pos)
                     /\ r.pos = Least(target, Length)
        /\ r.eof /\ here.health = "ok" =>
             \/ fault
             \/ ForwardOnly(reader.src) /\ (target < here.pos + Chunk \/ target >= Length)
    BY <1>3, <1>5 DEF RInv, SeekAnswered
  <1>7. ForwardOnly(reader.src)' = ForwardOnly(reader.src)
    BY <1>3
  <1>8. CASE r.eof
    <2>1. here'.pos = here.pos /\ here'.health = "dead"
      BY <1>3, <1>4, <1>5, <1>8 DEF AfterOf, Places
    <2>2. CASE here.health = "ok"
      <3>1. CASE fault \/ (ForwardOnly(reader.src) /\ target >= Length)
        BY <3>1, <2>1, <2>2, <1>2, <1>3, <1>7 DEF Stream!SeekFails
      <3>2. CASE ForwardOnly(reader.src) /\ target < here.pos + Chunk
        <4>1. here' = [here EXCEPT !.health = "dead"]
          BY <1>3, <1>5, <1>8 DEF AfterOf
        <4> QED
          BY <4>1, <3>2, <2>2, <1>3 DEF Overtaken
      <3> QED
        BY <3>1, <3>2, <2>2, <1>6, <1>8
    <2>3. CASE here.health = "dead"
      BY <2>1, <2>3, <1>2, <1>3, <1>7 DEF Stream!SeekDead
    <2> QED
      BY <2>2, <2>3, <1>4
  <1>9. CASE ~r.eof
    <2>1. here'.pos = Least(target, Length) /\ here'.health = "ok"
      BY <1>3, <1>5, <1>6, <1>9 DEF AfterOf
    <2>2. Stream!Shorter(target, Length) = Least(target, Length)
      BY <1>4, SameWords
    <2>3. ~Stream!Refused(target)
      BY <1>6, <1>9 DEF Stream!Refused
    <2> QED
      BY <2>1, <2>2, <2>3, <1>2, <1>3, <1>6, <1>7, <1>9 DEF Stream!Seek
  <1> QED
    BY <1>8, <1>9

\* The handle gives up only on a thread that has died.
LEMMA GivesUpMaps ==
    ASSUME RInv, PrefetchRefused \/ Died
    PROVE  Stream!Break \/ StreamStutter
  <1>1. ~alive /\ failed' = TRUE /\ UNCHANGED <<reader, fault, got, here>>
    BY DEF PrefetchRefused, Died, Gone
  <1>2. fault /\ here.health \in {"ok", "dead"} /\ failed \in BOOLEAN
    BY <1>1 DEF RInv, IInv, TypeOK, FailuresTold
  <1>3. ForwardOnly(reader.src)' = ForwardOnly(reader.src)
    BY <1>1
  <1>4. CASE failed
    BY <1>1, <1>3, <1>4, Unseen
  <1>5. CASE ~failed
    <2>1. here.health # "broken"
      BY <1>2
    <2> QED
      BY <2>1, <1>1, <1>2, <1>3, <1>5 DEF Stream!Break
  <1> QED
    BY <1>4, <1>5

\* Every step of reader and thread is a step of the synchronous reader, or one
\* its caller does not see.
LEMMA NextMaps ==
    ASSUME RInv, [Next]_vars
    PROVE  [Stream!StreamNext({Chunk}, {target}) \/ Overtaken]_(Stream!streamVars)
  <1>1. CASE Worker
    BY <1>1, WorkerMaps DEF Stream!StreamNext, StreamStutter
  <1>2. CASE Take
    <2>1. Stream!Read(Chunk) \/ Stream!ReadFails \/ Stream!ReadDead
      BY <1>2, TakeMaps
    <2> QED
      BY <2>1 DEF Stream!StreamNext
  <1>3. CASE SeekDone
    <2>1. Stream!Seek(target) \/ Stream!SeekFails(target) \/ Stream!SeekDead \/ Overtaken
      BY <1>3, SeekDoneMaps
    <2> QED
      BY <2>1 DEF Stream!StreamNext
  <1>4. CASE PrefetchRefused \/ Died
    BY <1>4, GivesUpMaps DEF Stream!StreamNext, StreamStutter
  <1>5. ASSUME UNCHANGED <<reader, here, failed, got, fault>>
        PROVE  StreamStutter
    <2>1. ForwardOnly(reader.src)' = ForwardOnly(reader.src)
      BY <1>5
    <2> QED
      BY <2>1, <1>5, Unseen
  <1>6. CASE Prefetch \/ Flush \/ SendSeek \/ \E s \in Targets(reader.src.format) : BeginSeek(s)
    <2>1. UNCHANGED <<reader, here, failed, got, fault>>
      BY <1>6 DEF Prefetch, Flush, SendSeek, BeginSeek
    <2> QED
      BY <2>1, <1>5 DEF StreamStutter
  <1>7. CASE UNCHANGED vars
    <2>1. UNCHANGED <<reader, here, failed, got, fault>>
      BY <1>7 DEF vars, handleVars
    <2> QED
      BY <2>1, <1>5 DEF StreamStutter
  <1> QED
    BY <1>1, <1>2, <1>3, <1>4, <1>6, <1>7 DEF Next, Call

\* It starts as the synchronous reader does.
LEMMA InitTells ==
    ASSUME Init
    PROVE  RInv /\ Stream!StreamInit
  <1>1. PICK f \in Formats : reader = [src |-> Open(f), eof |-> FALSE]
    BY DEF Init
  <1>2. f \in Format /\ Length \in Nat
    BY ReaderAssumption DEF ReaderAssumption
  <1>3. Open(f) \in Source /\ WellAt(Open(f), 0)
    BY <1>2, Opened
  <1>4. reader.src = Open(f) /\ ~reader.eof
    BY <1>1
  <1>5. /\ requests = << >> /\ replies = << >> /\ outstanding = 0 /\ failed = FALSE
        /\ pc = "idle" /\ alive = TRUE /\ fault = FALSE /\ got = << >> /\ target = 0
        /\ here = [pos |-> 0, health |-> "ok"]
    BY DEF Init
  <1>6. Len(requests) = 0 /\ Len(replies) = 0 /\ \A k : k \notin 1 .. 0
    BY <1>5
  <1>7. IInv
    BY InitTyped
  <1>8. FailuresTold
    BY <1>5 DEF FailuresTold
  <1>9. Asked
    BY <1>5, <1>6 DEF Asked
  <1>10. ReadAhead
    <2>1. Stands = 0 /\ here.pos = 0 /\ here.health = "ok"
      BY <1>3, <1>4, <1>5 DEF Stands, WellAt
    <2> QED
      BY <2>1, <1>4, <1>6 DEF ReadAhead, AllTold, NoneEnded, Place
  <1>11. Seeking /\ SeekAnswered
    BY <1>5 DEF Seeking, SeekAnswered
  <1>12. SourceSound
    BY <1>3, <1>4 DEF SourceSound, WellAt
  <1>13. Stream!StreamInit
    <2>1. ForwardOnly(reader.src) \in BOOLEAN
      BY DEF ForwardOnly
    <2> QED
      BY <2>1, <1>5 DEF Stream!StreamInit
  <1> QED
    BY <1>7, <1>8, <1>9, <1>10, <1>11, <1>12, <1>13 DEF RInv

\* Until a packed file is asked for part of a group.
Unsplit == IInv /\ (~split => RInv)

\* Part of a group, once asked for, is not forgotten.
LEMMA SplitStays ==
    ASSUME [Next]_vars, ~split'
    PROVE  ~split
  <1>1. CASE Worker
    BY <1>1 DEF Worker, WorkerRead, WorkerReadFails, WorkerSeek, WorkerSeekFails, WorkerDies,
                Answer, handleVars
  <1>2. CASE Call
    BY <1>2 DEF Call, Prefetch, PrefetchRefused, Take, Flush, SendSeek, SeekDone, Died
  <1>3. CASE \E s \in Targets(reader.src.format) : BeginSeek(s)
    BY <1>3 DEF BeginSeek
  <1>4. CASE UNCHANGED vars
    BY <1>4 DEF vars, handleVars
  <1> QED
    BY <1>1, <1>2, <1>3, <1>4 DEF Next

\* Reading ahead on a thread implements the synchronous reader: every call
\* delivers what one reader, asked in order, would deliver, for every input,
\* chunk and kind of source, with every failure of the input and of the thread,
\* until a packed file is asked for part of a group.  Reading ahead costs a pipe
\* the seeks that lead less than a chunk ahead.
THEOREM ReaderIsStream == Spec => ImplementsStream
  <1> DEFINE Step == ~split' => Stream!StreamNext({Chunk}, {target}) \/ Overtaken
  <1>1. Init => Unsplit /\ Stream!StreamInit
    BY InitTells DEF Unsplit, RInv
  <1>2. Unsplit /\ [Next]_vars => Unsplit'
    <2> SUFFICES ASSUME Unsplit, [Next]_vars PROVE Unsplit'
      OBVIOUS
    <2>1. IInv'
      BY ReaderKept DEF Unsplit
    <2>2. ASSUME ~split' PROVE RInv'
      BY <2>2, SplitStays, NextTells DEF Unsplit
    <2> QED
      BY <2>1, <2>2 DEF Unsplit
  <1>3. Unsplit /\ [Next]_vars => [Step]_(Stream!streamVars)
    <2> SUFFICES ASSUME Unsplit, [Next]_vars, ~split'
                 PROVE  [Stream!StreamNext({Chunk}, {target}) \/ Overtaken]_(Stream!streamVars)
      OBVIOUS
    <2>1. RInv
      BY SplitStays DEF Unsplit
    <2> QED
      BY <2>1, NextMaps
  <1> QED
    BY <1>1, <1>2, <1>3, PTL DEF Spec, ImplementsStream
=============================================================================
