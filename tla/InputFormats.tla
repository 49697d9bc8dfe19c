---------------------------- MODULE InputFormats ----------------------------
(***************************************************************************)
(* Opening an input (ld-decode-cli/src/reader.rs): which format is taken   *)
(* for the file, what the probe of a FLAC capture finds in its first bytes,*)
(* and which decoder is put behind the source.                             *)
(*                                                                         *)
(* A capture is what the probe window shows of a file: the OggS and fLaC   *)
(* magics in their order, and whether something lies before the first.  A  *)
(* mark says what it looks like, whether a decoder that starts there finds *)
(* a stream, and the rate of a STREAMINFO block behind it (0: none seen).  *)
(* STREAMINFO stands behind a fLaC magic alone, and behind every one with  *)
(* a stream, but where the window ends on it and shows nothing further.    *)
(***************************************************************************)
EXTENDS Naturals, Sequences

Containers == {"ogg", "flac"}
NoRate == 0
Mark == {m \in [container : Containers, stream : BOOLEAN, rate : Nat] :
            m.rate # NoRate => m.container = "flac"}
Cut(mark) == mark.container = "flac" /\ mark.stream /\ mark.rate = NoRate
Capture == {c \in [shifted : BOOLEAN, marks : Seq(Mark)] :
               \A i, j \in DOMAIN c.marks :
                   Cut(c.marks[i]) /\ i < j => c.marks[j].rate = NoRate}

NoFormat == "none"
Formats == {"s16", "r16", "r8", "s8", "rf", "lds", "r30", "ldf", "flac"}
Compressed == {"ldf", "flac"}

DefaultRate == 40    \* DEFAULT_FLAC_RATE_HZ, in kHz

\* infer_format: by the extension; there is none on stdin.
InferFormat(infile) ==
    IF infile.stdin \/ infile.ext \notin Formats THEN NoFormat ELSE infile.ext

Magics(capture, container) ==
    {i \in DOMAIN capture.marks : capture.marks[i].container = container}

\* flac_sample_rate: the first fLaC with a STREAMINFO block behind it.
FlacSampleRate(capture) ==
    LET found == {i \in Magics(capture, "flac") : capture.marks[i].rate # NoRate}
    IN  IF found = {} THEN NoRate
        ELSE capture.marks[CHOOSE i \in found : \A j \in found : i <= j].rate

-----------------------------------------------------------------------------
(* Sources.  `at` is the mark a decoder is put on; 0 is the start of the   *)
(* file, which the first mark is on unless the capture is shifted.         *)

Failed == [decoder |-> "none", container |-> "none", at |-> 0]
Raw == [decoder |-> "raw", container |-> "none", at |-> 0]
Claxon(container, at) == [decoder |-> "claxon", container |-> container, at |-> at]
Ffmpeg == [decoder |-> "ffmpeg", container |-> "none", at |-> 0]

\* What there is at a place of the capture.
StreamAt(capture, container, at) ==
    LET i == IF at = 0 THEN 1 ELSE at
    IN  /\ i \in DOMAIN capture.marks
        /\ at = 0 => ~capture.shifted
        /\ capture.marks[i].container = container
        /\ capture.marks[i].stream

\* claxon and the Ogg reader look at what they are put on, and fail otherwise.
OpenClaxon(capture, container, at) ==
    IF StreamAt(capture, container, at) THEN Claxon(container, at) ELSE Failed

\* The ffmpeg child starts whatever the file holds, and finds out later: it
\* probes the stream from the start of the file.
FfmpegDecodes(capture) == \E c \in Containers : StreamAt(capture, c, 0)

Delivers(capture, source) ==
    CASE source.decoder = "raw"    -> TRUE
      [] source.decoder = "ffmpeg" -> FfmpegDecodes(capture)
      [] source.decoder = "claxon" -> StreamAt(capture, source.container, source.at)
      [] OTHER                     -> FALSE

\* open_raw_flac at the start of the file.
OpenRawFlac(capture, ffmpeg) ==
    IF ffmpeg THEN Ffmpeg ELSE OpenClaxon(capture, "flac", 0)

\* Mutant: a stream behind something else goes to ffmpeg like any other.
OpenLdfShiftedToo(capture, ffmpeg) ==
    IF capture.marks = << >> THEN Failed
    ELSE IF ffmpeg THEN Ffmpeg
    ELSE OpenClaxon(capture, capture.marks[1].container, IF capture.shifted THEN 1 ELSE 0)

\* open_ldf: what find_container finds first decides.  ffmpeg comes first at
\* the start of the file, and not at all behind it.
OpenLdf(capture, ffmpeg) ==
    IF capture.marks = << >> THEN Failed
    ELSE LET container == capture.marks[1].container
         IN  IF capture.shifted THEN OpenClaxon(capture, container, 1)
             ELSE IF container = "flac" THEN OpenRawFlac(capture, ffmpeg)
             ELSE IF ffmpeg THEN Ffmpeg
             ELSE OpenClaxon(capture, "ogg", 0)

\* open_stdin: FLAC needs ffmpeg, which is sent what the probe has read.
OpenStdin(format, ffmpeg) ==
    IF format \notin Compressed THEN Raw ELSE IF ffmpeg THEN Ffmpeg ELSE Failed

\* open_source.
OpenSource(capture, format, ffmpeg) ==
    CASE format = "ldf"  -> OpenLdf(capture, ffmpeg)
      [] format = "flac" -> OpenRawFlac(capture, ffmpeg)
      [] OTHER           -> Raw
=============================================================================
