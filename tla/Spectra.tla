------------------------------- MODULE Spectra -------------------------------
(***************************************************************************)
(* The arithmetic of the demodulators: complex numbers, the FFT library    *)
(* (ffi_ducc.rs) and the filter bank (spec.rs).                            *)
(*                                                                         *)
(* A real number is an element of the field with P = 127 elements and a    *)
(* complex number a pair <<re, im>>.  P is 3 modulo 4, so i is no real     *)
(* number; 64 divides P + 1, so the circle of norm 1 holds the 64th roots  *)
(* of unity, and conjugation inverts them.  Everything linear (transforms, *)
(* filters, delays, cuts) therefore holds exactly where it holds over the  *)
(* complex numbers, and two different linear computations agree on a given *)
(* block only if they are the same one or by a collision modulo 127.       *)
(* Rounding is not modelled.                                               *)
(***************************************************************************)
EXTENDS Integers, Sequences

CONSTANTS
    Lens,            \* block lengths (spec.blocklen), powers of 8 up to 64
    RfTaps,          \* impulse response of the RF video filter, complex
    MtfTaps,         \* ... of the MTF compensation
    HpfTaps,         \* ... of the dropout detector's RF highpass
    EfmTaps,         \* ... of the EFM equaliser
    VideoTaps,       \* ... of FVideo, FVideo05 and FVideoBurst
    VideoOffsets,    \* their FIR delays: 0, f05_offset, fvideo_burst_offset
    AudioSlice,      \* for a length and a channel: its lowbin and nbins
    AudioTaps,       \* what an audio channel's stage-1 filter is made from
    BlockCut,        \* for a length: spec.blockcut
    HalfTurn,        \* freq_hz / 2, in units of the frequency
    ClampLo,         \* the clamp of the demodulated frequency: 1 500 000 ...
    ClampHi,         \* ... and freq_hz * 0.75
    Ire50,           \* levels.iretohz(50.0)
    EfmMax           \* the largest EFM sample: 32767

P == 127
Real(v) == <<v % P, 0>>
Zero == Real(0)

\* np_cmul, and the other operations on complex numbers.
Mul(a, b) == <<(a[1] * b[1] - a[2] * b[2]) % P, (a[1] * b[2] + a[2] * b[1]) % P>>
Add(a, b) == <<(a[1] + b[1]) % P, (a[2] + b[2]) % P>>
Sub(a, b) == <<(a[1] - b[1]) % P, (a[2] - b[2]) % P>>
Conj(a)   == <<a[1], -a[2] % P>>

\* A real number of the field as an integer around 0.
Centred(v) == IF v > P \div 2 THEN v - P ELSE v

Reciprocals == [a \in 1..P - 1 |-> CHOOSE b \in 1..P - 1 : a * b % P = 1]
Squares == {a * a % P : a \in 1..P - 1}

\* f[0] + ... + f[n - 1], n a power of 2, by halves.
Folded(f, m) == [i \in 0..m - 1 |-> Add(f[i], f[i + m])]
SumOf(f, n) ==
    LET halved[m \in 1..n] == IF m = n THEN f ELSE Folded(halved[2 * m], m)
    IN  halved[1][0]

Square(z) == Mul(z, z)
PowersOf(z) ==
    LET p[i \in 0..63] == IF i = 0 THEN Real(1)
                          ELSE IF i % 2 = 0 THEN Square(p[i \div 2])
                          ELSE Mul(p[i - 1], z)
    IN  p

\* exp(-2 pi i m / 64): a root of norm 1 whose 16th power is -i.
Turns == PowersOf(CHOOSE z \in (0..P - 1) \X (0..P - 1) :
                      /\ Mul(z, Conj(z)) = Real(1)
                      /\ PowersOf(z)[16] = <<0, P - 1>>)

\* exp(-2 pi i m / n)
Cis(n, m) == Turns[m * (64 \div n) % 64]

-----------------------------------------------------------------------------
(* The FFT library.                                                        *)

\* The transforms by definition: c2c forward, and inverse with its 1/n.
Fft(n, x) == [k \in 0..n - 1 |-> SumOf([j \in 0..n - 1 |-> Mul(x[j], Cis(n, j * k))], n)]

Ifft(n, x) ==
    [j \in 0..n - 1 |->
        Mul(Real(Reciprocals[n]),
            SumOf([k \in 0..n - 1 |-> Mul(x[k], Conj(Cis(n, j * k)))], n))]

\* r2c: the first n / 2 + 1 bins of real samples.
Rfft(n, x) ==
    [k \in 0..n \div 2 |-> SumOf([j \in 0..n - 1 |-> Mul(Real(x[j]), Cis(n, j * k))], n)]

Reflected(n, half) ==
    [k \in 0..n - 1 |-> IF k <= n \div 2 THEN half[k] ELSE Conj(half[n - k])]

\* The half spectrum of real samples and its reflection.
FftRealFull(n, x) == Reflected(n, Rfft(n, x))

RealParts(n, x) == [j \in 0..n - 1 |-> x[j][1]]

\* c2r, normalised: reads the real parts only of the first and the last bin.
Irfft(n, half) ==
    LET bins == [k \in 0..n \div 2 |->
                    IF k \in {0, n \div 2} THEN Real(half[k][1]) ELSE half[k]]
    IN  RealParts(n, Ifft(n, Reflected(n, bins)))

-----------------------------------------------------------------------------
(* The filter bank.                                                        *)

\* filtfft: the response of a filter over a block of n samples.
FiltFft(n, taps) ==
    Fft(n, [j \in 0..n - 1 |-> IF j < Len(taps) THEN taps[j + 1] ELSE Zero])

Products(n, a, b) == [k \in 0..n - 1 |-> Mul(a[k], b[k])]

\* Mutant: the phase ramp has the other sign.
ShiftedHalfBack(n, full, offset) ==
    [k \in 0..n \div 2 |-> Mul(full[k], Cis(n, offset * k))]

\* A half spectrum advanced by the filter's own FIR delay.
ShiftedHalf(n, full, offset) ==
    [k \in 0..n \div 2 |-> Mul(full[k], Conj(Cis(n, offset * k)))]

\* fft_do_slice: the bins of an audio carrier out of a full spectrum.
DoSlice(n, x, low, nbins) ==
    LET half == nbins \div 2
    IN  [i \in 0..nbins - 1 |->
            x[IF i < half THEN low + i ELSE n - low - half + (i - half)]]

AudioChannel(n, ch) ==
    LET slice == AudioSlice[n][ch]
    IN  [lowbin |-> slice.lowbin,
         nbins  |-> slice.nbins,
         filt1  |-> DoSlice(n, FiltFft(n, AudioTaps[ch]), slice.lowbin, slice.nbins)]

\* compute_filters: what the demodulator reads of Filters.
Filters ==
    [n \in Lens |->
        [rfvideo     |-> FiltFft(n, RfTaps),
         mtf         |-> FiltFft(n, MtfTaps),
         frfhpf_rfft |-> ShiftedHalf(n, FiltFft(n, HpfTaps), 0),
         fefm        |-> FiltFft(n, EfmTaps),
         fvideo_rfft |-> [i \in 1..3 |->
                             ShiftedHalf(n, FiltFft(n, VideoTaps[i]), VideoOffsets[i])],
         audio       |-> [ch \in 1..2 |-> AudioChannel(n, ch)],
         audio_fdiv  |-> n \div AudioSlice[n][1].nbins]]

\* block_cut_end: the FIR delay of the 0.5 MHz filter, up to a whole number of
\* audio samples.
BlockCutEnd(n) ==
    LET fdiv == Filters[n].audio_fdiv
    IN  ((VideoOffsets[2] + fdiv - 1) \div fdiv) * fdiv

BlockSize(n) == n - BlockCut[n] - BlockCutEnd(n)

\* compute_mtf_pow: the MTF response to the power of a level.
MtfPow(n, level) ==
    LET pow[l \in 0..level] ==
            IF l = 0 THEN [k \in 0..n - 1 |-> Real(1)]
            ELSE Products(n, pow[l - 1], Filters[n].mtf)
    IN  pow[level]

-----------------------------------------------------------------------------
(* The FM discriminator's atan2: any function of the direction of a        *)
(* complex number, which a positive factor (a square) does not turn.       *)

Atan2(z) ==
    IF z = Zero THEN 0
    ELSE LET lead  == IF z[1] = 0 THEN z[2] ELSE z[1]
             slope == IF z[1] = 0 THEN P ELSE z[2] * Reciprocals[z[1]] % P
             side  == IF lead \in Squares THEN 0 ELSE 11
         IN  ((5 * slope + side) % (2 * HalfTurn)) - HalfTurn + 1

\* The turn from w to z as a frequency: 0 .. 2 * HalfTurn - 1.
Turned(z, w) ==
    LET d == Atan2(Mul(z, Conj(w)))
    IN  IF d < 0 THEN d + 2 * HalfTurn ELSE d

Clamp(v, lo, hi) == IF v < lo THEN lo ELSE IF v > hi THEN hi ELSE v
=============================================================================
