----------------------------- MODULE GpuKernels ------------------------------
(***************************************************************************)
(* The OpenCL kernels of the GPU demodulator (SOURCE in demod_gpu.rs), as  *)
(* functions of one block's row: a complex function on 0..n - 1.  The sign *)
(* of a transform is -1 forward and 1 inverse; no transform is normalised. *)
(***************************************************************************)
EXTENDS DemodKernel

LoadReal(n, in) == [i \in 0..n - 1 |-> Real(in[i])]

\* From 16-bit codes: two units a code, as the samples are (see GpuDemod).
LoadU16(n, in, off) == [i \in 0..n - 1 |-> Real(2 * in[i] + off)]

\* v * exp(s * i * pi/4 * k) for k = 1, 2, 3, by its real and imaginary parts.
R2 == Cis(8, 1)[1]
W8_1(v, s) == <<R2 * (v[1] - s * v[2]) % P, R2 * (v[2] + s * v[1]) % P>>
W8_2(v, s) == <<-s * v[2] % P, s * v[1] % P>>
W8_3(v, s) == <<R2 * (-v[1] - s * v[2]) % P, R2 * (-v[2] + s * v[1]) % P>>

\* DFT-8: a radix-2 split into two DFT-4.
Halves(v, s) ==
    <<Add(v[0], v[4]), Add(v[1], v[5]), Add(v[2], v[6]), Add(v[3], v[7]),
      Sub(v[0], v[4]), W8_1(Sub(v[1], v[5]), s),
      W8_2(Sub(v[2], v[6]), s), W8_3(Sub(v[3], v[7]), s)>>

Quarters(a, s) ==
    [c0 |-> Add(a[1], a[3]), c2 |-> Sub(a[1], a[3]),
     c1 |-> Add(a[2], a[4]), c3 |-> W8_2(Sub(a[2], a[4]), s),
     d0 |-> Add(a[5], a[7]), d2 |-> Sub(a[5], a[7]),
     d1 |-> Add(a[6], a[8]), d3 |-> W8_2(Sub(a[6], a[8]), s)]

Eighths(q) ==
    <<Add(q.c0, q.c1), Add(q.d0, q.d1), Add(q.c2, q.c3), Add(q.d2, q.d3),
      Sub(q.c0, q.c1), Sub(q.d0, q.d1), Sub(q.c2, q.c3), Sub(q.d2, q.d3)>>

Dft8(v, s) == Eighths(Quarters(Halves(v, s), s))

\* fft_pass, one work item: the eight inputs of item j, turned by their
\* twiddles and transformed.
Butterfly(n, x, ns, s, j) ==
    LET k    == j % ns
        step == n \div (ns * 8)
        t(r) == IF s > 0 THEN Conj(Cis(n, (k * r * step) % n)) ELSE Cis(n, (k * r * step) % n)
    IN  Dft8([r \in 0..7 |-> IF ns > 1 /\ r > 0 THEN Mul(x[j + r * (n \div 8)], t(r))
                             ELSE x[j + r * (n \div 8)]], s)

\* Where the items write: output q is output r of the item it belongs to.
Scattered(n, o, ns) ==
    [q \in 0..n - 1 |->
        o[(q \div (ns * 8)) * ns + (q % ns)][(q % (ns * 8)) \div ns + 1]]

FftPass(n, x, ns, s) ==
    Scattered(n, [j \in 0..(n \div 8) - 1 |-> Butterfly(n, x, ns, s, j)], ns)

\* The Hermitian full spectrum of x[:N/2+1] * f.
Herm(n, x, f) ==
    [k \in 0..n - 1 |->
        IF k \in {0, n \div 2} THEN Real(Mul(x[k], f[k])[1])
        ELSE IF k < n \div 2 THEN Mul(x[k], f[k])
        ELSE Conj(Mul(x[n - k], f[n - k]))]

\* rf_products: the rows H, E and R; mtfpow is <<>> when it is not to be used.
RfProducts(n, x, mtfpow) ==
    LET f == Filters[n]
        h == Products(n, x, f.rfvideo)
    IN  <<IF mtfpow = <<>> THEN h ELSE Products(n, h, mtfpow),
          Products(n, x, f.fefm),
          Herm(n, x, f.frfhpf_rfft)>>

\* discriminate: the frequency minus c, as it is and clamped.
DiscriminateRaw(n, h, c) ==
    [i \in 0..n - 1 |-> IF i = 0 THEN -c ELSE Turned(h[i], h[i - 1]) - c]

Discriminate(n, raw, lo, hi) == [i \in 0..n - 1 |-> Real(Clamp(raw[i], lo, hi))]

VideoProducts(n, y) == [i \in 1..3 |-> Herm(n, y, Filters[n].fvideo_rfft[i])]

\* extract: every channel's cut, with its 1/N and the constant put back.
Extract(n, v, raw, r, e, c, add, cstart, clen, rstart, rlen) ==
    LET inv      == Reciprocals[n % P]
        video(i) == [j \in 1..clen |-> (v[i][cstart + j - 1][1] * inv + add[i]) % P]
    IN  [demod |-> video(1), demod_05 |-> video(2), demod_burst |-> video(3),
         demod_raw |-> [j \in 1..clen |-> raw[cstart + j - 1] + c],
         efm |-> [j \in 1..clen |-> EfmSample(Real(e[cstart + j - 1][1] * inv))],
         rfhpf |-> [j \in 1..rlen |-> r[rstart + j - 1][1] * inv % P]]

\* gather_bins: m bins from each of the four starts.
GatherBins(n, x, starts, m) ==
    [j \in 0..4 * m - 1 |->
        LET at == starts[j \div m + 1] + (j % m)
        IN  x[IF at < n - 1 THEN at ELSE n - 1]]
=============================================================================
