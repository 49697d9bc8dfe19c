----------------------------- MODULE DemodKernel -----------------------------
(***************************************************************************)
(* The CPU demodulator (demodblock.rs): one block of n samples with its    *)
(* cut on, as every batch calls it.  Arrays are functions on 0..n - 1, what*)
(* is kept of them sequences.  An mtf level of 0 is the None of `mtf_pow`. *)
(***************************************************************************)
EXTENDS Spectra

\* The row map of `batch_spec`.
ROW_HILBERT == 0
ROW_EFM == 1
ROW_RFHPF == 2
VIDEO_ROWS == <<ROW_HILBERT, ROW_EFM, ROW_RFHPF>>

\* unwrap_hilbert: index 0 stays 0.
UnwrapHilbert(n, z) == [i \in 0..n - 1 |-> IF i = 0 THEN 0 ELSE Turned(z[i], z[i - 1])]

Slice(x, start, end) == [j \in 1..end - start |-> x[start + j - 1]]

\* kept_range: from the block cut to the end cut, as Python slices it.
KeptStart(n) == IF BlockCut[n] < n THEN BlockCut[n] ELSE n
KeptEnd(n) == IF BlockCutEnd(n) < n THEN n - BlockCutEnd(n) ELSE 0

\* rolled_f32_range: a range of an array rolled by -offset, as two runs.
RolledRange(n, x, offset, start, end) ==
    LET off   == offset % n
        s0    == IF start + off >= n THEN start + off - n ELSE start + off
        count == end - start
        first == IF n - s0 < count THEN n - s0 ELSE count
    IN  IF start >= end THEN <<>>
        ELSE Slice(x, s0, s0 + first) \o Slice(x, 0, count - first)

\* cut_rfhpf: the kept range, rotdelay samples early.  A stop index that is
\* not negative counts from the front.
RfhpfStart(n, rot) == Clamp(BlockCut[n] - rot, 0, n)
RfhpfStop(n, rot) ==
    LET stop == -(BlockCutEnd(n) + rot)
    IN  Clamp(IF stop < 0 THEN n + stop ELSE stop, 0, n)

\* audio_stage1: a channel's two runs of bins, filtered and demodulated at
\* their own rate.  In units of a bin's width over 2 * HalfTurn.
AudioCut(n, a) ==
    LET fdiv  == Filters[n].audio_fdiv
        start == IF BlockCut[n] \div fdiv < Len(a) THEN BlockCut[n] \div fdiv ELSE Len(a)
        end   == Len(a) - BlockCutEnd(n) \div fdiv
    IN  IF start < end THEN SubSeq(a, start + 1, end) ELSE a

AudioTurns(n, ch, a1) ==
    LET af == Filters[n].audio[ch]
    IN  [i \in 1..af.nbins |->
            a1[i - 1] * af.nbins + 2 * HalfTurn * af.lowbin]

AudioStage1(n, ch, lo, hi) ==
    LET af     == Filters[n].audio[ch]
        half   == af.nbins \div 2
        sliced == [i \in 0..af.nbins - 1 |->
                      Mul(IF i < half THEN lo[i] ELSE hi[i - half], af.filt1[i])]
    IN  AudioCut(n, AudioTurns(n, ch, UnwrapHilbert(af.nbins, Ifft(af.nbins, sliced))))

\* The EFM channel's clip to 16 bits.
EfmSample(v) == Clamp(Centred(v[1]), -EfmMax - 1, EfmMax)

RealRow(n, x) == [j \in 0..n - 1 |-> Real(x[j])]

\* demod_head up to its inverse transforms: what the rows hold after them.
HeadRows(n, indata, level) ==
    LET f       == Filters[n]
        hilbert == Products(n, indata, f.rfvideo)
        rfhpf   == [k \in 0..n \div 2 |-> Mul(indata[k], f.frfhpf_rfft[k])]
        row(r)  == CASE r = ROW_HILBERT ->
                            Ifft(n, IF level = 0 THEN hilbert
                                    ELSE Products(n, hilbert, MtfPow(n, level)))
                     [] r = ROW_EFM     -> Ifft(n, Products(n, indata, f.fefm))
                     [] r = ROW_RFHPF   -> RealRow(n, Irfft(n, rfhpf))
    IN  [r \in 0..2 |-> row(r)]

\* demod_head behind them.
HeadOf(n, indata, rows, demod, rot) ==
    [rfhpf |-> [j \in 1..RfhpfStop(n, rot) - RfhpfStart(n, rot) |->
                   rows[ROW_RFHPF][RfhpfStart(n, rot) + j - 1][1]],
     audio |-> [ch \in 1..2 |->
                   LET af   == Filters[n].audio[ch]
                       half == af.nbins \div 2
                   IN  AudioStage1(n, ch,
                           [i \in 0..half - 1 |-> indata[af.lowbin + i]],
                           [i \in 0..half - 1 |-> indata[n - af.lowbin - half + i]])],
     demod_raw |-> Slice(demod, KeptStart(n), KeptEnd(n)),
     demod_clamped |-> [i \in 0..n - 1 |-> Clamp(demod[i], ClampLo, ClampHi)],
     efm |-> [j \in 1..KeptEnd(n) - KeptStart(n) |->
                 EfmSample(rows[ROW_EFM][KeptStart(n) + j - 1])]]

Demodulated(n, indata, rows, rot) ==
    HeadOf(n, indata, rows, UnwrapHilbert(n, rows[ROW_HILBERT]), rot)

HeadOfSpectrum(n, indata, level, rot) ==
    Demodulated(n, indata, HeadRows(n, indata, level), rot)

DemodHead(n, data, level, rot) == HeadOfSpectrum(n, FftRealFull(n, data), level, rot)

\* late_group_cpu: the three post-demod filters, each product and each inverse
\* in its row, then the cut.
LateRows(n, spectrum) ==
    LET product(i) == [k \in 0..n \div 2 |-> Mul(spectrum[k], Filters[n].fvideo_rfft[i][k])]
        channel(r) == CHOOSE i \in 1..3 : VIDEO_ROWS[i] = r
    IN  [r \in 0..2 |-> Irfft(n, product(channel(r)))]

Gathered(n, rows) ==
    [i \in 1..3 |-> RolledRange(n, rows[VIDEO_ROWS[i]], 0, KeptStart(n), KeptEnd(n))]

LateGroup(n, clamped) == Gathered(n, LateRows(n, FftRealFull(n, clamped)))

\* demod_assemble
Assembled(head, videos) ==
    [demod |-> videos[1], demod_05 |-> videos[2], demod_burst |-> videos[3],
     demod_raw |-> head.demod_raw, audio |-> head.audio, efm |-> head.efm,
     rfhpf |-> head.rfhpf]

Joined(n, head) == Assembled(head, LateGroup(n, head.demod_clamped))

\* demod_block_cpu
DemodBlockCpu(n, data, level, rot) == Joined(n, DemodHead(n, data, level, rot))
=============================================================================
