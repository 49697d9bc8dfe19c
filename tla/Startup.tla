------------------------------- MODULE Startup -------------------------------
(***************************************************************************)
(* main() of ld-decode-cli: from the arguments to the decode, and out of   *)
(* it.  One step per thing that can fail: the log, the input, the FFT      *)
(* engine, the decoder's parameters, the files, the GPU, the seek, the     *)
(* decode.  An input on stdin is read through StdinPipe.                   *)
(*                                                                         *)
(* A job is what the user asks for and what the machine offers: the input  *)
(* and its capture, the options, the environment.                          *)
(***************************************************************************)
EXTENDS InputFormats, StdinPipe

CONSTANT Jobs

ASSUME JobsAssumption ==
    \A j \in Jobs : j.capture \in Capture /\ j.freq \in Nat /\ j.needs \in Nat

VARIABLES
    job,
    stage,       \* the next thing to do
    status,      \* the exit status: "none", "ok", "error"
    log,         \* the log file is installed
    format,      \* of the input
    rate,        \* container_rate_hz
    source,      \* what the samples come from
    inputfreq,   \* the sampling rate the decoder is built for
    engine,      \* ENGINE: the FFT engine, once it is set
    transformed, \* the engines that have transformed anything
    files,       \* the files of the run: "old", "new", "none"
    gpu,         \* the demodulator runs on a device
    decoded,     \* Decoder::metadata is some: a pass over some field was valid
    fields       \* some field was written

hostVars == <<log, engine, transformed>>
inputVars == <<format, rate, source, inputfreq>>
outVars == <<files, gpu, decoded, fields>>
vars == <<pipeVars, job, stage, status, hostVars, inputVars, outVars>>

\* In the order they are created; the name of the output stands before each.
Files == <<"tbc", "json", "pcm", "efm", "db">>
FileSet == {Files[i] : i \in 1 .. Len(Files)}

\* What the job wants of them; stdout takes the picture alone.
Wanted(file) ==
    /\ ~job.stdout
    /\ file = "pcm" => job.audio
    /\ file = "efm" => job.efm

HasFfmpeg == job.ffmpeg /\ ~job.no_ffmpeg

Init ==
    /\ PipeInit
    /\ job \in Jobs
    /\ stage = "log" /\ status = "none"
    /\ log = FALSE
    /\ format = NoFormat /\ rate = NoRate /\ source = Failed /\ inputfreq = NoRate
    /\ engine = "none" /\ transformed = {}
    /\ files \in {[f \in FileSet |-> "old"], [f \in FileSet |-> "none"]}
    /\ gpu = FALSE /\ decoded = FALSE /\ fields = FALSE

Goes(to) == stage' = to /\ UNCHANGED status

\* An error that main returns, with all that has been done so far.
Fails == stage' = "exit" /\ status' = "error"

\* logging::install; without it the run goes on.
InstallLog(opened) ==
    /\ stage = "log"
    /\ log' = (opened /\ ~job.stdout)
    /\ Goes("format")
    /\ UNCHANGED <<pipeVars, job, engine, transformed, inputVars, outVars>>

ChooseFormat ==
    /\ stage = "format"
    /\ format' = IF job.format # NoFormat THEN job.format ELSE InferFormat(job)
    /\ IF format' = NoFormat THEN Fails ELSE Goes("open")
    /\ UNCHANGED <<pipeVars, job, hostVars, rate, source, inputfreq, outVars>>

\* --inputfreq, what the capture says of itself, or 40 MHz.
Freq(declared) ==
    IF job.freq # NoRate THEN job.freq ELSE IF declared # NoRate THEN declared ELSE DefaultRate

\* open_input on a file.
OpenFile ==
    LET declared == IF format \in Compressed THEN FlacSampleRate(job.capture) ELSE NoRate
    IN  /\ stage = "open"
        /\ ~job.stdin
        /\ source' = OpenSource(job.capture, format, HasFfmpeg)
        /\ rate' = declared
        /\ inputfreq' = Freq(declared)
        /\ IF source' = Failed THEN Fails ELSE Goes("engine")
        /\ UNCHANGED <<pipeVars, job, hostVars, format, outVars>>

\* open_input on stdin.
OpenPipe ==
    LET declared == IF format \in Compressed THEN FlacSampleRate(job.capture) ELSE NoRate
    IN  /\ stage = "open"
        /\ job.stdin
        /\ source' = OpenStdin(format, HasFfmpeg)
        /\ rate' = declared
        /\ inputfreq' = Freq(declared)
        /\ CASE source' = Failed -> Fails /\ UNCHANGED pipeVars
             [] source' = Raw    -> Goes("engine") /\ SpawnDrain
             [] OTHER            -> Goes("engine") /\ SpawnChild
        /\ UNCHANGED <<job, hostVars, format, outVars>>

\* The file cannot be opened or read.
OpenError ==
    /\ stage = "open"
    /\ Fails
    /\ UNCHANGED <<pipeVars, job, hostVars, inputVars, outVars>>

\* What LD_FFT_ENGINE asks for, if the processor can do it.
Resolved == IF job.engine = "unset" THEN "sse2" ELSE job.engine
Supported ==
    CASE Resolved = "sse2"    -> TRUE
      [] Resolved = "avx2"    -> "avx2" \in job.cpu
      [] Resolved = "avx2fma" -> {"avx2", "fma"} \subseteq job.cpu
      [] OTHER                -> FALSE

\* Mutant: the engine is asked for when the decoder has been built.
InitEngineLate ==
    /\ stage = "engine"
    /\ engine' = "sse2"
    /\ IF ~Supported THEN Fails ELSE Goes("spec")
    /\ UNCHANGED <<pipeVars, job, log, transformed, inputVars, outVars>>

\* init_engine.
InitEngine ==
    /\ stage = "engine"
    /\ IF Supported THEN Goes("spec") /\ engine' = Resolved
                    ELSE Fails /\ UNCHANGED engine
    /\ UNCHANGED <<pipeVars, job, log, transformed, inputVars, outVars>>

\* active_engine: what the entry points transform with.
ActiveEngine == IF engine = "none" THEN "sse2" ELSE engine

\* DecoderSpec::new refuses a rate it has no room for, and designs its filters,
\* with transforms.
BuildSpec ==
    /\ stage = "spec"
    /\ IF inputfreq < job.needs THEN Fails /\ UNCHANGED transformed
       ELSE Goes("tbc") /\ transformed' = {ActiveEngine}
    /\ UNCHANGED <<pipeVars, job, log, engine, inputVars, outVars>>

-----------------------------------------------------------------------------
(* The files.                                                              *)

Next_(file) ==
    LET i == CHOOSE i \in 1 .. Len(Files) : Files[i] = file
    IN  IF i = Len(Files) THEN "decoder" ELSE Files[i + 1]

\* Created and emptied, whatever there was; nothing happens to the files of an
\* output that is not wanted.
CreateFile ==
    /\ stage \in FileSet
    /\ files' = IF Wanted(stage) THEN [files EXCEPT ![stage] = "new"] ELSE files
    /\ Goes(Next_(stage))
    /\ UNCHANGED <<pipeVars, job, hostVars, inputVars, gpu, decoded, fields>>

CreateFails ==
    /\ stage \in FileSet
    /\ Wanted(stage)
    /\ Fails
    /\ UNCHANGED <<pipeVars, job, hostVars, inputVars, outVars>>

\* --gpu, on a device that can do it.
BuildDecoder ==
    /\ stage = "decoder"
    /\ IF job.gpu = "none" THEN Goes("seek") /\ UNCHANGED gpu
       ELSE IF job.gpu \in job.device THEN Goes("seek") /\ gpu' = TRUE
       ELSE Fails /\ UNCHANGED gpu
    /\ UNCHANGED <<pipeVars, job, hostVars, inputVars, files, decoded, fields>>

RemoveJson == files' = IF job.stdout THEN files ELSE [files EXCEPT !["json"] = "none"]

\* --seek, if it finds the frame; and nothing to do without it.
SeekDone ==
    /\ stage = "seek"
    /\ Goes("decode")
    /\ UNCHANGED <<pipeVars, job, hostVars, inputVars, outVars>>

\* Mutant: the exit leaves the JSON file behind.
SeekFailedLeavesJson ==
    /\ stage = "seek"
    /\ job.seek
    /\ stage' = "exit" /\ status' = "error"
    /\ UNCHANGED <<pipeVars, job, hostVars, inputVars, outVars>>

\* The frame is not found: the sidecars are closed and the JSON file removed.
SeekFailed ==
    /\ stage = "seek"
    /\ job.seek
    /\ stage' = "exit" /\ status' = "error"
    /\ RemoveJson
    /\ UNCHANGED <<pipeVars, job, hostVars, inputVars, gpu, decoded, fields>>

\* A pass of decode_all over a field that is valid: from here on there is
\* metadata.  The field is written unless it is a second field before any
\* first, comes behind a skip that nothing can fill, or is sent back to a pass
\* that finds none.  The pipe, if there is one, is still read.
DecodeField ==
    /\ stage = "decode"
    /\ ~fields
    /\ IF job.stdin THEN taken # << >> ELSE Delivers(job.capture, source)
    /\ decoded' = TRUE
    /\ fields' \in BOOLEAN
    /\ UNCHANGED <<pipeVars, job, stage, status, hostVars, inputVars, files, gpu>>

\* The end of the input, of --length or of the disc; an error of the input is
\* logged and is an end like any other (DecodeReader::read).  The JSON file is
\* removed if there is no metadata, whatever has been written.
DecodeEnds ==
    /\ stage = "decode"
    /\ stage' = "exit" /\ status' = "ok"
    /\ IF decoded THEN UNCHANGED files ELSE RemoveJson
    /\ IF job.stdin THEN SourceDropped ELSE UNCHANGED pipeVars
    /\ UNCHANGED <<job, hostVars, inputVars, gpu, decoded, fields>>

\* The writer, the decoder or the read thread's channel fails.
DecodeFails ==
    /\ stage = "decode"
    /\ Fails
    /\ IF job.stdin THEN SourceDropped ELSE UNCHANGED pipeVars
    /\ UNCHANGED <<job, hostVars, inputVars, outVars>>

\* The threads behind the source.
PipeFeeds ==
    /\ stage # "exit" /\ route # "none"
    /\ Feeding
    /\ UNCHANGED <<job, stage, status, hostVars, inputVars, outVars>>

\* The scan of a seek and the decode read it.
PipeReads ==
    /\ stage = "decode" \/ (stage = "seek" /\ job.seek)
    /\ Reading
    /\ UNCHANGED <<job, stage, status, hostVars, inputVars, outVars>>

\* While main ends, the thread in its send is told.
LastSend ==
    /\ stage = "exit"
    /\ DrainStops
    /\ UNCHANGED <<job, stage, status, hostVars, inputVars, outVars>>

Exited == stage = "exit" /\ UNCHANGED vars

Next ==
    \/ \E opened \in BOOLEAN : InstallLog(opened)
    \/ ChooseFormat \/ OpenFile \/ OpenPipe \/ OpenError
    \/ InitEngine \/ BuildSpec \/ CreateFile \/ CreateFails \/ BuildDecoder
    \/ SeekDone \/ SeekFailed
    \/ DecodeField \/ DecodeEnds \/ DecodeFails
    \/ PipeFeeds \/ PipeReads \/ LastSend \/ Exited

Spec == Init /\ [][Next]_vars

\* The threads run, and the decode reads on.
FairSpec == Spec /\ WF_vars(PipeFeeds) /\ WF_vars(PipeReads)

-----------------------------------------------------------------------------
(* What a run of ld-decode-cli keeps to on its way in and out.             *)

\* An .ldf file that holds no magic is refused; and if the first magic stands
\* before a stream, whatever lies before it, whether or not there is an ffmpeg,
\* the file is opened with a decoder that finds that stream, and at the rate of
\* a STREAMINFO block if there is one (open_ldf, find_container,
\* flac_sample_rate).
OpensWhatItHolds ==
    LET marks == job.capture.marks
    IN  inputfreq # NoRate /\ ~job.stdin /\ format = "ldf" =>
            /\ marks = << >> => source = Failed
            /\ marks # << >> /\ marks[1].stream =>
                 /\ Delivers(job.capture, source)
                 /\ (\E i \in DOMAIN marks : marks[i].rate # NoRate) => rate # NoRate
                 /\ marks[1].container = "flac" => rate = marks[1].rate

\* No file of an earlier run is touched before the FFT engine and the decoder's
\* parameters are accepted, and the first touched is the picture: a run that is
\* refused leaves all as it was, and one that is not transforms with the engine
\* it was asked for and no other (main, init_engine, DecoderSpec::new).
RefusedUntouched ==
    \/ \A f, g \in FileSet : files[f] = files[g]
    \/ /\ files["tbc"] = "new"
       /\ Supported /\ transformed = {Resolved}
       /\ inputfreq >= job.needs

\* A run that writes fields to a file leaves their JSON beside them, however it
\* ends; and a JSON file is left only by a run that has decoded a field, or by an
\* error that main returns, never by a seek that failed (main's two remove_file).
\* A field decoded is not a field written: the run may end well with a JSON that
\* holds none, which main.rs:425 says does not happen.
JsonOfDecoded ==
    [][ stage # "exit" /\ stage' = "exit" =>
          /\ files'["json"] = "new" => decoded \/ (status' = "error" /\ stage # "seek")
          /\ fields /\ ~job.stdout => files'["json"] = "new" ]_vars

\* What comes through stdin is delivered in its order, with nothing left out,
\* what the probe took included; and on the drain route the end of the stream
\* is the end: all has been delivered, and stdin had no error (DrainReader,
\* FfmpegSource::spawn_stdin).  What waits on the way stays within its queues.
PipeDelivers ==
    /\ taken = Upto(1, Len(taken))
    /\ Len(queue) <= IF route = "drain" THEN DrainQueue ELSE PipeCap
    /\ Len(outpipe) <= PipeCap
    /\ route = "drain" /\ met = "eof" => wire = "closed" /\ Len(taken) = Bytes

\* When a raw stdin is closed, or broken, the decode is told so, whatever the
\* queue holds: nobody waits for a block that does not come
\* (DrainReader::spawn, read).
PipeEnds == (stage = "decode" /\ route = "drain" /\ wire # "open") ~> (met # "more" \/ stage = "exit")
=============================================================================
