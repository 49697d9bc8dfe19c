---------------------------- MODULE SampleSources ----------------------------
(***************************************************************************)
(* The sample sources of ld-decode-cli/src/reader.rs: how each of them     *)
(* keeps its place in the input over reads and seeks of any size.          *)
(*                                                                         *)
(* A sample stands for its own index; what is unpacked from bytes that do  *)
(* not start a group is Garbled.  An open source is a record:              *)
(*   format    what was opened                                             *)
(*   at        the place in the file or pipe: a byte for packed files, the *)
(*             next decoded sample for the others                          *)
(*   pending   decoded samples not yet delivered                           *)
(*   discard   samples still to be dropped (FfmpegSource)                  *)
(*   pos       samples delivered or skipped (sources fed by a pipe)        *)
(*                                                                         *)
(* The Python-compatible shift of deep .flac seeks (flac_pyseek) is left   *)
(* out: a deliberate change of the stream, at 40 kHz and far in only.      *)
(***************************************************************************)
EXTENDS Naturals, Sequences

CONSTANTS
    Length,    \* samples of the input
    Garbled    \* not a sample of the input

\* source  "raw" (RawSource), "packed" (PackedSource), "pipe" (PipeSource),
\*         "restart" (LdfSource, RawFlacSource, FfmpegSource on a file) or
\*         "ffmpeg" (FfmpegSource on stdin)
\* samples, bytes   the size of a group of packed samples
Format == [source : {"raw", "packed", "pipe", "restart", "ffmpeg"},
           samples : Nat \ {0}, bytes : Nat \ {0}]

Source == [format : Format, at : Nat, pending : Seq(Nat \union {Garbled}),
           discard : Nat, pos : Nat]

Open(f) == [format |-> f, at |-> 0, pending |-> << >>, discard |-> 0, pos |-> 0]

\* Both kinds of pipe can only be read forward.
ForwardOnly(src) == src.format.source \in {"pipe", "ffmpeg"}

Least(m, n) == IF m < n THEN m ELSE n
Left(i, end) == IF i < end THEN end - i ELSE 0
Taken(s, n) == SubSeq(s, 1, n)
Dropped(s, n) == SubSeq(s, n + 1, Len(s))
Run(i, n) == [k \in 1 .. n |-> i + k - 1]

-----------------------------------------------------------------------------
(* Sources that count in samples.                                          *)

\* RawSource::read; the FLAC decoders deliver the same way.
PlainRead(src, len) ==
    LET n == Least(len, Left(src.at, Length))
    IN  [src |-> [src EXCEPT !.at = @ + n], data |-> Run(src.at, n)]

\* RawSource::seek_samples.
RawSeek(src, s) == [src EXCEPT !.at = s]

\* Start over, and decode up to the sample.
RestartSeek(src, s) == [src EXCEPT !.at = Least(s, Length)]

-----------------------------------------------------------------------------
(* Packed files: groups of bytes, each holding a few samples.              *)

FileBytes(f) == (Length \div f.samples) * f.bytes

\* The samples of n groups of bytes, the first of which is at byte b.
Unpacked(f, b, n) ==
    [k \in 1 .. n * f.samples |->
        IF b % f.bytes = 0 THEN (b \div f.bytes) * f.samples + k - 1 ELSE Garbled]

\* PackedSource::read_raw: whole groups, never more than fit the buffer.
ReadRaw(src, len) ==
    LET f == src.format
        filled == Least((len \div f.samples) * f.bytes, Left(src.at, FileBytes(f)))
    IN  [src |-> [src EXCEPT !.at = @ + filled],
         data |-> Unpacked(f, src.at, filled \div f.bytes)]

PackedRead(src, len) ==
    LET n == Least(Len(src.pending), len)
        served == [src EXCEPT !.pending = Dropped(@, n)]
        raw == ReadRaw(served, len - n)
    IN  IF n = len THEN [src |-> served, data |-> Taken(src.pending, n)]
        ELSE [src |-> raw.src, data |-> Taken(src.pending, n) \o raw.data]

\* PackedSource::seek_samples: the byte is a proportion of the sample, and what
\* remains of the division is taken for samples to drop off the group.
PackedSeek(src, s) ==
    LET f == src.format
        start == (s * f.bytes) \div f.samples
        offset == (s * f.bytes) % f.samples
        filled == Least(f.bytes, Left(start, FileBytes(f)))
    IN  IF offset = 0 THEN [src EXCEPT !.at = start, !.pending = << >>]
        ELSE [src EXCEPT !.at = start + filled,
                         !.pending = Dropped(Unpacked(f, start, filled \div f.bytes), offset)]

-----------------------------------------------------------------------------
(* Pipes.                                                                  *)

\* Mutant: what does not fit of the last group is lost.
PipeReadLosesRest(src, len) ==
    LET spg == src.format.samples
        n == Least(Len(src.pending), len)
        groups == Least((len - n) \div spg, Left(src.at, Length) \div spg)
        at == src.at + groups * spg
        rest == (len - n) % spg
        more == groups = (len - n) \div spg /\ rest > 0 /\ Left(at, Length) >= spg
        data == Taken(src.pending, n) \o Run(src.at, groups * spg)
                  \o (IF more THEN Run(at, rest) ELSE << >>)
    IN  [src |-> [src EXCEPT !.at = IF more THEN at + spg ELSE at,
                             !.pending = Dropped(@, n),
                             !.pos = @ + Len(data)],
         data |-> data]

\* PipeSource::read: what is pending, whole groups, and the head of one more.
PipeRead(src, len) ==
    LET spg == src.format.samples
        n == Least(Len(src.pending), len)
        whole == (len - n) \div spg
        groups == Least(whole, Left(src.at, Length) \div spg)
        at == src.at + groups * spg
        rest == (len - n) % spg
        more == groups = whole /\ rest > 0 /\ Left(at, Length) >= spg
        data == Taken(src.pending, n) \o Run(src.at, groups * spg)
                  \o (IF more THEN Run(at, rest) ELSE << >>)
    IN  [src |-> [src EXCEPT !.at = IF more THEN at + spg ELSE at,
                             !.pending = Dropped(@, n) \o
                                 (IF more THEN Run(at + rest, spg - rest) ELSE << >>),
                             !.pos = @ + Len(data)],
         data |-> data]

\* PipeSource::seek_samples: read and drop.
PipeSeek(src, s) == PipeRead(src, s - src.pos).src

\* FfmpegSource::read.
FfmpegRead(src, len) ==
    LET skip == Least(src.discard, Left(src.at, Length))
        n == Least(len, Left(src.at + skip, Length))
    IN  IF len = 0 THEN [src |-> src, data |-> << >>]
        ELSE [src |-> [src EXCEPT !.at = @ + skip + n,
                                  !.discard = @ - skip,
                                  !.pos = @ + n],
              data |-> Run(src.at + skip, n)]

\* FfmpegSource::seek_samples on stdin.
FfmpegSeek(src, s) == [src EXCEPT !.discard = @ + s - src.pos, !.pos = s]

-----------------------------------------------------------------------------
(* Any source.                                                             *)

\* A seek that the source answers with an error.
SeekRefused(src, s) == ForwardOnly(src) /\ s < src.pos

ReadOf(src, len) ==
    CASE src.format.source = "packed" -> PackedRead(src, len)
      [] src.format.source = "pipe"   -> PipeRead(src, len)
      [] src.format.source = "ffmpeg" -> FfmpegRead(src, len)
      [] OTHER                        -> PlainRead(src, len)

SeekOf(src, s) ==
    CASE src.format.source = "raw"     -> RawSeek(src, s)
      [] src.format.source = "packed"  -> PackedSeek(src, s)
      [] src.format.source = "pipe"    -> PipeSeek(src, s)
      [] src.format.source = "restart" -> RestartSeek(src, s)
      [] src.format.source = "ffmpeg"  -> FfmpegSeek(src, s)

\* The sample the source stands at.
Position(src) ==
    LET f == src.format
        p == CASE f.source = "packed" -> (src.at \div f.bytes) * f.samples
               [] OTHER -> src.at
    IN  Least(Left(Len(src.pending), p + src.discard), Length)
=============================================================================
