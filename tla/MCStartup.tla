------------------------------ MODULE MCStartup ------------------------------
EXTENDS Startup

Marks == {[container |-> "ogg", stream |-> s, rate |-> 0] : s \in BOOLEAN}
    \cup {[container |-> "flac", stream |-> s, rate |-> r] : s \in BOOLEAN, r \in {0, 28}}
    \cup {[container |-> "flac", stream |-> TRUE, rate |-> 40]}
Captures(n) == {c \in {[shifted |-> s, marks |-> m] :
                           s \in BOOLEAN, m \in UNION {[1 .. k -> Marks] : k \in 0 .. n}} : c \in Capture}
Good == [shifted |-> FALSE, marks |-> <<[container |-> "flac", stream |-> TRUE, rate |-> 28]>>]

Plain == [stdin |-> FALSE, ext |-> "lds", format |-> NoFormat, freq |-> NoRate, needs |-> 20,
          stdout |-> FALSE, audio |-> TRUE, efm |-> TRUE, gpu |-> "none", device |-> {},
          seek |-> FALSE, capture |-> Good, ffmpeg |-> TRUE, no_ffmpeg |-> FALSE,
          engine |-> "unset", cpu |-> {}]

\* Every capture, with and without ffmpeg.
FileJobs ==
    {[Plain EXCEPT !.ext = e, !.capture = c, !.ffmpeg = f, !.stdout = TRUE] :
        e \in {"ldf", "flac"}, c \in Captures(3), f \in BOOLEAN}
\* What can be asked for, and refused.
OptionJobs ==
    {[Plain EXCEPT !.format = f, !.ext = x, !.freq = q] :
        f \in {NoFormat, "r8"}, x \in {"lds", "txt"}, q \in {NoRate, 16, 28}}
    \cup {[Plain EXCEPT !.engine = e, !.cpu = c] :
        e \in {"sse2", "avx2", "avx2fma", "junk"}, c \in SUBSET {"avx2", "fma"}}
    \cup {[Plain EXCEPT !.stdout = o, !.audio = a, !.efm = e, !.seek = s] :
        o \in BOOLEAN, a \in BOOLEAN, e \in BOOLEAN, s \in BOOLEAN}
    \cup {[Plain EXCEPT !.gpu = g, !.device = d, !.no_ffmpeg = n] :
        g \in {"none", "single", "double"}, d \in SUBSET {"single", "double"}, n \in BOOLEAN}
\* Through stdin.
PipeJobs ==
    {[Plain EXCEPT !.stdin = TRUE, !.format = f, !.no_ffmpeg = n, !.seek = s, !.stdout = TRUE] :
        f \in {NoFormat, "s16", "ldf"}, n \in BOOLEAN, s \in BOOLEAN}
MCJobs == FileJobs \cup OptionJobs \cup PipeJobs
=============================================================================
