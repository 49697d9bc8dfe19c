# ld-decode-rust: TLA+ models, checks and proofs

ld-decode-rust turns the RF capture of a LaserDisc into a time-base corrected
picture (`.tbc`), sound (`.pcm`), EFM data (`.efm`) and two metadata sidecars
(`.tbc.json`, `.tbc.db`). It is a port of a Python program and has to produce the
same bytes, while it runs the work in another order and on other threads. What is
hard about it is therefore not only the signal processing: every piece of
threading claims to be invisible in the output. That claim is what most of these
modules state and check.

Paths below are relative to the repository; `mod.rs` is
`crates/ld-decode/src/decode/mod.rs`, `cli/` is `crates/ld-decode-cli/src/`.

## 1. Inventory

| Part | State | Operations | Interacts with | What makes it correct |
|---|---|---|---|---|
| Demodulation block cache (`mod.rs` assemble_field, cache_insert, prune_cache, fold_pending_prefetch, prefetch_plan) | `demod_cache`, `demod_cache_order`, `pending_prefetch`, `levels` | one call per pass over a field; worker on a rayon pool sends one batch | field loop (redo flag, MTF, levels), window | the lookahead changes nothing a field sees; redo serves fresh blocks only; FIFO order and map agree |
| EFM PLL and helper (`mod.rs` PllSpec, `decode/efm_pll.rs`) | `efm_pll`, `pll_gen`, `pll_token`, two channels | submit, take, helper run | field loop, writeout | T-values are those of one serial run over the written fields |
| Field loop (`mod.rs` decode, buildmetadata, writeout) | position, previous field, MTF level and history, ratios, entries, last valid field of each parity | one pass; redo; write; backfill; drop | cache, PLL, output | MTF schedule of the reference; right hint; no endless redo; entries describe their own field |
| VBI frame numbers (`mod.rs` update_frame_number, decode_frame_number) | line codes of the first field, CLV flags | per valid field | field loop, seek | a number is read from the two fields the code means to pair |
| Decode loop and window (`cli/main.rs` decode_all, keep_window, refill_take) | window, base, read position, stall flag | refill, decode, trim, re-seek, drain | prefetching reader, field loop, output | the decoder is shown consecutive samples and everything it needs; the loop ends |
| Prefetching reader (`cli/prefetch.rs`) | two channels, count of outstanding reads | prefetch, take, seek | decode loop, sample source | same sample stream as the synchronous reader |
| Program start and end (`cli/main.rs` main, `cli/reader.rs` open_*, DrainReader, spawn_stdin) | the files, the input and its threads, engine, exit status | open, refuse, drain stdin, feed ffmpeg, end | reader, seek, decode, writer | what a capture holds is opened; a refused run touches nothing; stdin arrives whole |
| Seek (`cli/main.rs` run_seek, seek_getframenr; `mod.rs` scan_field, rough_seek) | start field, window, field budget | scan, home in, fall back | reader, field loop | ends; found frame is the one asked for |
| Sample sources (`cli/reader.rs`) | position, buffered bytes, child process | read, seek, rewind | prefetching reader | position bookkeeping |
| Writer thread and streams (`cli/async_writer.rs`, `cli/writer.rs`) | channel, error slot, buffers, JSON entries | write, close | decode loop, database | streams in step; clean exit is complete; process ends |
| Database sidecar (`cli/async_db.rs`, `cli/db.rs`) | queue, capture id, tables | one transaction per field, finish | writer thread | a lost transaction costs one field |
| JSON aliasing (`cli/writer.rs` json_alias_reaches_earlier) | entries not yet drained | patch of an earlier entry | writer | a reader sees what the reference would write |
| Field analysis (`decode/field.rs`, `mod.rs` fielddecode) | pulse levels, the previous field's end and parity, lines of a field | per window: classify pulses, find the vertical blanking, elect line 0, place the lines, say where the next field starts | field loop | no recorded field is missed; a skip is made good; lines ascend; the decode goes on |
| Demodulator (`demodblock.rs`, `optimized/`, `spec.rs`, `ffi_ducc.rs`) | filters, fixed at start | a block through half spectra, filters, inverse transforms, cuts, audio slices | block cache, GPU | kept samples are the filters' response to the whole stream; numeric equality with the reference (golden tests) |
| GPU demodulator (`demod_gpu.rs`, `opencl.rs`) | device buffers, pinned staging, kept MTF power, command queue | a batch of blocks; fall back to the CPU | block cache: field loop and lookahead share it under a lock | a block is what the CPU makes of it, whatever failed before |
| Metrics (`vits.rs`), dropouts, analogue audio | per field | pure functions, floating point | field loop | golden tests |
| Requests, flags, logging, scripts, CI, vendored FFT | - | - | - | - |

Threads: the decode thread (main), the prefetch worker of the block cache (rayon
pool of its own), the pool that demodulates blocks, the side pool of a field
(dropouts, audio), the PLL helper, the read worker, the writer thread and the
database worker. They share no data except through channels, one error slot and
write-once cells.

Hard behaviours, in the order of what they could cost: threads whose results
arrive after the state they belong to has changed (lookahead, PLL, seek flush);
redo, which goes back in time; retries and kept fields that are written twice;
errors on a thread nobody waits for; window and cache at their limits; the end of
the input. `PROJECT.json` lists each hazard with its line and the properties that
cover it.

## 2. Modules

| Module | Models | State and actions against the code |
|---|---|---|
| `BlockGeometry` | which blocks a field read takes, and the tests of assemble_field on the window | pure operators, shared by the cache and the decode loop |
| `DemodCacheOps` | cache operations | pure operators; a demodulated block is `[bnum, mtf, levels]` |
| `SerialDemodCache` | abstract: lookahead demodulated in line (`LD_NO_ASYNC_PREFETCH`) | one step per assemble_field |
| `DemodCache` | the threaded schedule | `Call` enters assemble_field and waits on the worker; `NeedData`, `Eof`, `Field`, `SlicePanic` are its outcomes, each with fold and flush in the code's order; `WorkerSend`, `WorkerPanic`; `Recalibrate` is the driver's change of levels |
| `PllMachine` | the PLL as a function | |
| `SerialPll` | abstract: one machine, advanced by each write | |
| `SpeculativePll` | PllSpec and what the field loop does with tokens | `Pass` (submit), `Abandon`, `Claim`, `WriteSpeculated`, `WriteInline`, `HelperStep`, `HelperDies` |
| `FieldDriver` | decode() | `InvalidPass`, `ValidPass`, `Eof` are the passes of its loop; `DropSecond`, `Write`, `Backfill` what follows it |
| `PipelinedDriver` | abstract: when the reference, which decodes ahead on a thread, chooses the MTF level | external: told by the comments of decode() |
| `DbSidecar` | AsyncDbWriter over DbWriter | `Enqueue`, `Commit`, `StatementFails`, `ReferenceFails` |
| `OutputPipeline` | decode_all's output side, AsyncDecodeWriter, DecodeWriter; composes `DbSidecar` | one action per send, per write, per error path, per step of close; `Pushed` is what a repeated field does to the JSON entry it repeats |
| `SampleStream` | abstract: one synchronous DecodeReader | `Read`, `Seek` and how each can fail; a sample stands for its index, so a lost, repeated or shifted sample is seen |
| `SampleSources` | the sources of reader.rs | pure operators from (source, size) to (source, samples): raw, packed, pipe, restarted decoder, ffmpeg on stdin |
| `PrefetchReader` | prefetch.rs and the refill that queues two reads | `Worker*` is the loop of the thread, the other actions the steps of prefetch(), take() and seek_samples(); composes `SampleSources`, implements `SampleStream` |
| `DecodeLoop` | decode_all, keep_window, refill_take, read_start_for | composes `SampleStream` and `BlockGeometry`: `Refill`/`Filled`, `SkipField`, `Answer` (re-seek, stop, drain or slide), `DrainAnswer`, and the ways out by an error |
| `PhilipsCodes` | decode_frame_number | pure operators: six BCD digits, or what a damaged code leaves of them |
| `Seek` | run_seek, seek_getframenr, scan_field, rough_seek, update_frame_number, and the decode behind them | `Jump` and `FallBack` (place the reader), `ReadMore`, the outcomes of one scan_field, `FoundField`, the ways to fail, then the fields of the decode; composes `SampleStream`, `BlockGeometry`, `PhilipsCodes` |
| `InputFormats` | the probe of a capture and the choice of its decoder | pure operators: find_container, flac_sample_rate, open_ldf |
| `StdinPipe` | DrainReader, FfmpegSource::spawn_stdin | `Drain*` (the thread that empties stdin), `Feed*` (the one that fills ffmpeg), ffmpeg, and the reader behind |
| `Startup` | main | one action per stage from the log to the exit, each with the error that ends it there; composes the two above |
| `SyncPulses` | getpulses, refinepulses and the search for a blanking | pure operators over pulses in ticks, 20 to a line |
| `FieldLines` | get_line0 (`FromGroup`, `FromEnd`, `FromPrevious`, `Elect`), compute_linelocs, fix_badlines | pure operators; every candidate for line 0 with its confidence |
| `FieldSync` | the field loop around them: decodefield and the entries | `Decode` is one pass over a window: too short, no field, or a field with its lines, its entry and what the next one gets to know; `Ends` the end of the input |
| `Spectra` | the transforms of ffi_ducc.rs, half spectra, filters | arithmetic modulo 127 with a complex unit, in which the FFT is exact |
| `DemodKernel` | demod_block_kernel | a block of samples to its six channels and two audio slices |
| `GpuKernels` | the OpenCL kernels | one operator per kernel, on rows; the transform as passes of radix 8 |
| `GpuDemod` | GpuDemod and opencl.rs | `EnableGpu`; `CpuCall` or, under the lock, `EnsureBuffers`, `StageInput`, `EnqueueCommand`, `BlockingWrite`, `Finish`; `CallFails`, `EnsureFails`; `DeviceRuns` takes commands from the queue at any time |
| `DemodCacheProof`, `HelpersProof` (of `SpeculativePll` and `GpuDemod`), `FieldDriverProof`, `OutputPipelineProof`, `PrefetchReaderProof`, `DecodeLoopProof`, `SeekProof`, `StartupProof` | theorems | |
| `MC*` | instances for TLC | |

Properties are at the end of a module; where it is proved about, the module of its name
with `Proof` has the theorems and their proofs. The two helpers a field is handed to, the
thread of the PLL and the GPU, share `HelpersProof`.

Operators whose comment starts with "Mutant" are faulty variants of the definition
that follows them. They are used by nothing; each shows that one property would
notice that fault.

## 3. Runs

Every proof module proves its component's type invariant; `seek` and `output_pipeline`
check theirs as well, and `field_sync`, about which nothing is proved, checks its own.

| Run | Bounds | What it shows |
|---|---|---|
| `demod_cache` | blocks of 4 with 1 of overlap, cache of 4, lookahead of 2, four read locations, two MTF levels, two calibrations, three windows | cache well formed (`CacheListed`), fresh redo (`RedoServesFresh`), threaded schedule implements the serial one (`ImplementsSerial`) |
| `speculative_pll` | 2 slices of EFM and fields without, 3 speculative runs, 4 written fields | `SpeculationSound`, `ImplementsSerial` |
| `output_pipeline` | 2 streams, 6 fields, channel of 2, buffers of at least 3 fields, drain grid of 2 and 4, one failed transaction | `TypeOK` (with the bound of the channel), `StreamsInStep`, `CleanExitIsComplete`, `LossIsLocal`, `JsonAsDrained`, `Exits` |
| `field_driver` | discs of 6 fields, every validity, parity, gap of 1 or 2, three ratios or none, 1 or 2 ratios kept | `PrevfieldIsPredecessor`, `LastWrittenIsItsEntry`, `ImplementsPipeline`, `ReachesEnd` |
| `prefetch_reader` | five kinds of source over 12 samples, packed ones in groups of two and of three, chunks of 4, seeks to five places, on and off the groups, a pipe to five of which two are behind the end and one is less than a chunk ahead, any I/O error, a thread that may die | channels hold what the handle counts (`ChannelsCounted`), the loop sees a synchronous reader but for two stated exceptions (`ImplementsStream`), calls end (`CallsEnd`) |
| `decode_loop` | 56 samples, blocks of 3 with 1 of overlap, one block of look-ahead, reads of 3, a band of 4, fields 4 or 37 samples on, one step back of 4 or 15 per run | `WindowIsInput`, `BandSuffices`, `WindowBounded`, `EndsAtEnd`, `Ends` |
| `seek` | five discs of a few fields, skips of one, six and thirteen samples over a field that cannot be decoded: stills with a lead-out, the same with a field that cannot be decoded, a programme in time, numbers out of order, none at all | `NumberIsOfItsPair`, `HitIsOfThisScan`, `LandsByHit`, `SeekEnds` |
| `seek_stdin` | the same, from a pipe | violated: `DecodeReadsFromBase` |
| `startup` | every capture of up to 3 container marks with and without ffmpeg; every combination of the options that can be refused; stdin of 3 bytes through queues of 1 | `OpensWhatItHolds`, `RefusedUntouched`, `PipeDelivers`, `JsonOfDecoded`, `PipeEnds` |
| `field_sync` | NTSC and PAL tapes of four to seven fields of 40 and 41 lines, damaged in every way listed below | `NoFieldLost`, `Relocks`, `LinesAscend`, `Advances` |
| `gpu_demod` | blocks of 8 and of 64 samples, batches of 2, two callers, two failing calls or one failing allocation, also before a smaller batch, hosts that are refused | `KernelsAgree`, `StreamTiles`; that `KernelAssumption` holds of every batch |
| `burst_tail` | the same | violated: `BurstTiles` |

Why the bounds are enough. *Cache*: four read locations whose windows overlap,
adjoin and leave gaps; a window is 2 or 3 blocks and the cache holds 4, so pruning
evicts blocks that are still wanted; the two grids drift apart as 32768 and 31712
do. *PLL*: three tokens allow a redo, a kept field and an unrelated field in one
run, four writes allow a field to be written twice around another. *Output*: more
fields than the channel holds, two streams so that one can fail after the other; the
early rule of the JSON drain is reached at the first field, its grid at the fourth,
with repeats before, at and behind it; repeats of more than `Behind` fields ago are
left out.
*Field loop*: six positions hold a dropped field, a skip without and a skip with
backfill, and redos at each. *Reader*: three chunks and an end in the middle of none,
two reads in flight when a seek comes, seeks back, ahead and behind the end; groups that divide the chunk and
that do not, in a file and in a pipe. *Decode loop*: the short step keeps the window full and
makes it slide, the long one leads beyond it (re-seek ahead); a step back of 4 stays
in the band, one of 15 leaves it (re-seek back). `CapBlocks` is 7 of the code's
130 so that a full window does not hold what the decoder asks for and the stall
has to serve it, which in the program is the case at high sample rates; with a cap
that is large enough the stall of a healthy decode is only the one at the end.
*Seek*: each disc is a different way for a scan to go: found at once, after a jump
back or ahead, not at all, past a field that cannot be decoded. *Startup*: three marks
hold one that is shadowed by an earlier one and one shifted by a byte; a drain block of
2 and a stream of 3 end in a full block, a short one and an empty one. *Field sync*:
every pulse of a vertical blanking is lost, misread or followed by a made-up one in
turn; dropouts reach from a pulse to the whole blanking and beyond; a tape begins at
nine places of a field, with pulse levels right, off or lost; skips go from half a line
to more than a field and back again. *GPU*: 32768 is 8 to the fifth, an odd number of
passes, so that results land in the other row; 8 stands for it, and 64 for the even
number and for twiddle factors. Blocks 0 and 1 have samples the 16-bit codes hold,
block 5 has fractions, block 9 is too wide: with the two callers every order of
staging formats occurs.
The proved theorems do not depend on these bounds.

Deadlock is checked for `field_driver`, `startup` and `gpu_demod`. The rest stop on
purpose: a process that has aborted or exited, or a decode that has used its bounded
tokens.

## 4. Fairness

Only the liveness properties need any. `Exits` assumes weak fairness of each
of the three threads: they are threads of the operating system, and none holds a
lock while it waits for another; an I/O operation is assumed to return, with or
without success. `ReachesEnd` assumes that decode_all goes on calling decode()
(one sequential loop, so weak fairness of the whole next-state relation). It does
not assume that fields are valid or that checks pass; it does assume that a pass
advances by at least one field, which is what field.rs returns for a field it
cannot use (a fixed skip) as well as for one it can. `CallsEnd` assumes that the read thread serves what is queued as long as it
lives (its reads return, with or without success) and that the decode thread goes on
with the call it is in. `SeekEnds` assumes that the one thread of a seek goes on;
`PipeEnds` that the thread at stdin and the reader behind it do, not that stdin has an
end: it speaks of a stdin that is closed or broken. `Advances` and the properties of
the GPU need none. `Ends` assumes that the decode thread goes on; that a call
of decode() moves, or says that it needs data or is at the end, is the decoder's
(`ReachesEnd`), and how often it moves back is bounded by `MaxRewinds`.

## 5. Proofs

All proofs are checked by TLAPS for every value of the constants, under the
assumptions named in the modules.

* `DemodCacheProof` (assumes `GeometryAssumption`, `CacheSizeAssumption`,
  `InputAssumption`). `CacheInvariant`: the inductive invariant is
  TypeOK /\ CacheListed; CacheListed is inductive only because it says that the
  blocks of the lookahead in flight are not in the cache, for without that the fold
  could list a block twice. The lemmas say what `Ascending`, `Insert` and `Prune`
  return. `RedoIsFresh` is a step property from the same invariant.
  `ThreadedIsSerial` maps the serial cache to "the cache with the lookahead in
  flight already filed": sending and calling become stutters, and a call's fold is
  where the serial schedule already was.
* `HelpersProof`, the PLL (`PllAssumption`). `SpeculationInvariant`:
  the invariant relates every job and result to every field that could still claim
  it (`Holders`), because a token outlives its field (redo, drop, second write).
  `SpeculativeIsSerial` follows from it: an accepted result is the inline one.
* `HelpersProof`, the GPU (`ScenarioAssumption`, `BatchAssumption`, `KernelAssumption`).
  `KernelsAlwaysAgree`: `KernelsAgree` for any callers, calls, batch size, queue depth and
  number of failures. It ends where `blind` begins: once a kernel or the host has worked on a
  buffer that a failed growth left without memory (`opencl.rs:310`, section 6), nothing is
  claimed, and nothing could be: TLC finds batches that are wrong there. The arithmetic is a hypothesis,
  `KernelAssumption`: a batch on a device of its own, each call done before the next is made
  and whatever MTF power is known to it, gives what the CPU kernel gives. TLC evaluates it for
  every batch of the instance. What is proved is that nothing else can make a
  difference: neither the commands a failed batch left in the queue, nor the other caller's
  batches, nor when the device runs, nor what a buffer held before. The argument:
  - `BatchSound`: a batch, as `Batch` builds it, reads a buffer only where it has written all
    of it (its samples staged and uploaded, a row made by an earlier pass of the same length)
    or where the level remembered says that it is there (the MTF power), and makes a buffer
    large enough before it uses it.
  - `RunAgrees`: a command that finds its inputs equal in two memories, as far as they are
    defined, leaves its outputs so.
  - `GpuInv`, the inductive invariant, is about the holder of the mutex (`InHand`): the calls
    it still has to make are a tail of its batch, the last commands of the queue are its
    own, on buffers that have not been made anew since, and on all that those already run
    have given the memory agrees with that of the batch run alone, as far (`Holder`).
    Commands a failed batch left come before its own; until the last of them has run, all it
    has given is its staged samples, which no command writes. `DeviceOK` (the level
    remembered is that of the power in the device's memory) carries the power from one batch
    to the next. All of it is claimed only while `blind` is not set, which a command enqueued
    on a buffer without memory does and nothing undoes (`BlindStays`).
* `FieldDriverProof` (`DriverAssumption`). `DriverInvariant` and `ClockInvariant`: the
  inductive invariant is the two properties with what ties the state of the loop
  together (`LoopInv`): the level history ends in the current level, that is the level
  of the recorded ratios, and the field in hand reaches up to the next position.
  `SerialIsPipelined`: the level history of length two is the level given to the thread
  of the next field.
* `OutputPipelineProof` (`PipelineAssumption`). One invariant for the first four
  theorems (`PipelineTyped`, `PipelineInStep`, `PipelineComplete`, `PipelineLossLocal`):
  entries, channel and what is still to be sent are the fields in their order
  (`ChannelInOrder`); a close that met no error has everything on disk
  (`ClosedIsComplete`); the queue of the database follows on what its worker has settled
  (`QueueInOrder`), and what is settled is a row or lost (`RowsAccounted`,
  `NothingLost`). Without the counts that go with the fields in flight (`Counted`) the
  capture row could end short. `PipelineJson` adds that an entry shows its own field or
  the one other field of its seq_no, if that is written and its aliasing reaches back
  (`ShownIn`), and that a field in the middle of a call repeats an earlier one
  (`Repeats`): so one that is written again later ends its call, and
  `json_alias_reaches_earlier` rounds up to the very place at which it is drained.
* `PrefetchReaderProof` (`ReaderAssumption`, `GroupsAssumption`: bytes behind the last whole
  group of a packed input are no samples).
  The lemmas say what every kind of source answers to a read or a seek of any size.
  `ReaderInvariant`: TypeOK /\ ChannelsCounted, with two facts more: the format stays
  one of `Formats`, and a dead thread leaves no request in its channel (`DeadIsSilent`:
  otherwise the seek that ends a flush would leave one behind). `ReaderIsStream`, the
  refinement of `SampleStream`: reply by reply, what the thread has answered is what a
  synchronous reader would answer next (`AllTold`), and the source stands behind the last
  of them, or, while a seek is under way, where it can still reach the target
  (`Seeking`); what becomes of a short read, an error, a dead thread or a refused seek
  is in `FailuresTold` and `SeekAnswered`. Two exceptions are in the property, because the
  code makes them. A packed file read or sought by part of a group delivers something else
  from there on; `split` remembers that, and the refinement speaks of the steps before it.
  decode_all reads and seeks by multiples of the block size, which groups of four (`.lds`)
  divide: there `split` never comes about. Groups of three (`.r30`) they do not, and the
  theorem says nothing of such a decode from its first chunk on (section 6). A pipe sent
  less than a chunk ahead may have been read past that place already (`Overtaken`): it
  refuses the seek, which for the loop is the end of the input. The invariant is
  `~split => RInv` for the alignment of requests and replies, over TypeOK /\
  ChannelsCounted, which need none of it.
* `DecodeLoopProof` (`LengthAssumption`, `GeometryAssumption`, `LoopAssumption`).
  `WindowInvariant`: TypeOK /\ WindowIsInput. The inductive form (`Aligned`) is sample
  by sample and ties the length of the live part to base and read position; one
  lemma for each way the window changes (`RestartAligns`, `TakeAligns`,
  `KeepAligns`). `BandInvariant`, `BoundInvariant` and `EndInvariant` share a second
  invariant (`Bounds`): the window reaches back to the block read at the place the loop
  has promised (`Margin`); a stall pending or a step back in the last call has used the
  chunk it costs (`Slack`); the last window ends with the input (`Ending`); a decoder
  that never went back is never before what a call returned (`Onward`). They need that
  the cuts are a small part of a block, which at 32768 against 1024 and 32 they are.
* `SeekProof` (`SeekAssumption`, `DiscsAssumption`, `SpacingAssumption`, and those of the
  modules it composes). `SeekInvariant`
  and `NumberInvariant`: the codes kept by the scan are those of the last field it
  counted (`ScanSound`), those kept by the decode of the last first field it counted
  (`DecodeSound`). `HitAction` is a step property from them. `TargetAction` needs how far
  fields are apart (`SpacingAssumption`: about a nominal field, and a field is longer than
  the blocks a read begins ahead; a real one has twenty blocks): then the decode
  meets first the field that completed the number or one of the two before it
  (`LandsByHit`). It is not more: see `main.rs:885` in section 6. What a frame number is made of is a recursion over six
  digits, which the proof unrolls.
* `StartupProof` (`JobsAssumption`, `StdinAssumption`).
  `PipeInvariant`: every byte of stdin is in one place: between what has been delivered
  and the next byte of stdin lie the block in the reader's hand, the queue and the block
  in the thread's hands (`PipeSound`); of the error or end block nothing follows.
  `OpensInvariant`: source and rate are those the options and the first mark with a rate
  ask for. `RefusedInvariant`: which stages lie behind the acceptance of the options and
  before the first file (`FilesSound`). `JsonAction` is the step property; it speaks of fields
  decoded, which is what the code goes by (`main.rs:425` in section 6).

Only model-checked:

* All liveness properties (`Exits`, `ReachesEnd`, `CallsEnd`, `SeekEnds`, `PipeEnds`,
  `Ends`): fairness and ENABLED are outside the prover's reach.
* Field analysis (`field_sync`). `NoFieldLost`, `Relocks`, `LinesAscend`, `Advances` and, in
  `TypeOK`, that the position is never before the window of the previous field are
  statements about tapes and how they are damaged: for an arbitrary sequence of pulses
  they are false. What makes them hold for a recording is the arithmetic of the whole
  search (medians, votes, the recursive line length), over lists of pulses.
* The arithmetic of the demodulator (`gpu_demod`). `StreamTiles` compares transforms with
  convolutions, and `KernelAssumption` the radix-8 passes with the CPU's transforms; that
  a transform computes what it should is number theory of the roots of unity and induction
  over its passes and its length.

## 6. Where code and comments disagree

Two runs end in a counterexample on purpose.

* `seek_stdin`: after a seek, main puts the reader before the field that was found
  (`cli/main.rs:397`). A pipe has passed that place; the refusal marks the reader
  ended, and decode_all wraps the source in a fresh reader, which is not. The window
  is labelled with a position its first sample does not have.
* `burst_tail`: the cut at the end of a block is to hide the delay of the filters
  (`spec.rs:1647`, 2760) and follows the 0.5 MHz filter only, 32 samples at 40 MHz;
  the NTSC burst filter is advanced by 40. The last eight burst samples kept of every
  block are wrapped around from its start.

Others were found while modelling and are not run. Where a property stands next to one of
them, it states what the code does, and says so.

* `main.rs:885` says that a seek leaves the decoder "positioned at the start of the target
  frame". It goes back to where the field that completed the number was read from, in whole
  nominal fields (909). When that is the second field of the frame, the place can lie behind
  the start of the first: the decode then meets the second field first, drops it because
  no first field has been written (`mod.rs:1144`), and the target frame is not in the
  output. On the undamaged stills of `seek`, with `--start 1` and frame 2, it is so.
* `main.rs:425`: "leaves no `.tbc.json` at all on a decode that handles no frames". The file
  is removed if the decoder has no metadata (742), and it has once any pass over a field was
  valid (`mod.rs:976`), also if that field is dropped (1144) or its redo finds none. Such
  a run ends well with a JSON that has no field.
* `prefetch.rs:9` promises "an identical sample stream", and 142 that the position after a
  seek "matches the synchronous reader". A pipe sent less than a chunk ahead has been read
  past that place by the reads in flight and refuses (`reader.rs:320`), where the
  synchronous reader would go there. decode_all seeks ahead only when the window has
  drained. On a seekable NTSC input that is always far enough; a PAL decode from stdin with
  a few million samples of invalid lead-in before a one-second skip can ask for a place one
  chunk ahead, and the decode ends there.
* `mod.rs:1172` fills a gap from the slot of the other parity. A field is kept in the
  slot of its own parity (1159), also when its entry was flipped (2185): the filler of
  a gap can be a flipped entry, three of one parity in a row.
* `mod.rs:1432` expects one range check to cover every block of a window; near the end
  of the input the slices reach further than the check (1454), and the decode panics.
* `mod.rs:1315` expects that a panic of the prefetch worker costs cache entries. A job
  spawned on a rayon pool without a panic handler aborts the process.
* `mod.rs:2403` patches the entry with the seq_no of the field written again. A filler
  that was itself dropped before has the seq_no of the field after it.
* `async_writer.rs:7` promises that errors surface at close; errors of the close itself
  are only logged (28, 61).
* `db.rs:7` describes the capture row as refreshed; its levels stay those of the first
  field (368), only the count is.
* `reader.rs:465` takes a short read for the end of the input; a packed source whose
  group does not divide the chunk answers short in the middle (581, 603).
* `prefetch.rs:144` reports a dead read thread; prefetch() (113) forestalls it, and the
  refill asks again for ever.
* `writer.rs:29`: the reference drains after a call. A filler pair that steps over a
  multiple of the grid, and a field written three times between two, are patched
  otherwise (only the last entry of a seq_no is); `JsonAsDrained` leaves both out.
* `reader.rs:578`: the pending samples of a packed source are to keep seeks that are not
  on a group boundary exact. `seek_samples` (642) starts at the byte
  sample * bytes / samples, which is inside a group then, and drops the remainder of that
  division as if it were samples: what follows is unpacked across groups. decode_all seeks
  by whole blocks, so only groups of three (`.r30`) get there.
* `reader.rs:320`: a stdin that is sent behind its end takes the end as its place
  without an error, and from there refuses the way back to where the caller was.
* `main.rs:596`, 731: the cap of the window is exceeded by one chunk, as the code has it, and
  by another for every time the decoder goes back: a call that ends where the one before
  ended counts as a stall, and a stall reads on. `WindowBounded` says so.
* `field.rs:1508`: until the first field is written, a window without a sync pulse moves
  the decoder on by a second, over fields that are valid. The two fields of a number need
  not be neighbours then; `HitIsOfThisScan` makes the exception.
* `opencl.rs:310`, 352: when a buffer or a pinned staging area cannot be grown, it keeps
  its old capacity but has lost its memory. A later, smaller batch passes the capacity
  test and is enqueued on no memory, where `mod.rs:527` promises the CPU kernel. A copy
  from or to no buffer is an error and falls back; a kernel takes it for a null pointer,
  and the host stages into memory it has given back. `gpu_demod` gets there, and `Agreed`,
  which is `KernelsAgree` without the exception, is violated.
* `efm_pll.rs:128` subtracts 16-bit samples; a crossing from below -16384 to above 16384
  does not fit. The PLL's arithmetic is not modelled.
* main: a read error of the input is logged and taken for its end, and the exit status
  is 0; so is a failure of ffmpeg, whose status is not asked for. An error of the seek
  or of `--gpu` returns with the placeholder JSON left behind.

## 7. What is abstracted, and what is not modelled

* Samples, blocks and fields are identities; a demodulated block is what it was
  made from, a field's counts are the field they were taken from.
* `DemodCache`: a call's arguments are free (any read location, window, redo flag,
  MTF), more than the field loop would pass. The process may abort in
  `SlicePanic` or `WorkerPanic`.
* `SpeculativePll`: the debug modes (`LD_DUMP_PLL`, disabled speculation) and
  decodes without digital audio are left out.
* `FieldDriver`: positions are counted in fields. A pass that returns NeedData is
  a stutter: nothing the module models has changed, and a redo reads the same
  window as its first pass. The values of RF levels, frame numbers, lead-out and
  the audio offset are left out; AGC is a choice.
* `SampleStream`, `PrefetchReader`: `fault` remembers that an I/O error or a panic has
  happened; without one the reader may not die. `split` is a history too: a packed file
  has been asked for part of a group (section 5). The Python-compatible shift of deep
  `.flac` seeks (`flac_pyseek`) and the queue between stdin and the pipe source are left
  out.
* `DecodeLoop`: the decoder is any sequence of steps ahead, and of `MaxRewinds` steps
  back, over the code's block geometry; MTF, redo and fields are `FieldDriver`'s.
  `EndsAtEnd` is about decodes that never went back: after a step back inside the
  final window, one call without a field that ends where the call before ended
  stops the drain although input is left. `BandSuffices` needs `reach`, a history
  of how far back the loop has promised to be able to go.
* `OutputPipeline`: a BufWriter spills at field granularity, and takes `Room` fields at
  least. decode() calls that return no field are stutters. A filler is a field written
  before; one that was dropped (section 6) is left out. A failing `--seek` closes the
  writer without metadata and is left out here (`Startup` has it).
* `Seek`: a disc is a sequence of fields with places, parities, codes and whether they
  can be decoded; the read window is the decode loop's geometry. The plain `--start`
  jump and `LD_START_SAMPLE` are left out.
* `Startup`: options that only set a number of the decoder are left out; what a probe
  sees of a capture is the order of its container marks. ffmpeg may end early. A stdin
  that breaks loses the part of a block that was read; an odd last byte is dropped.
* `FieldSync`: pulses have a kind and a start in ticks, 20 to a line; the classes are
  disjoint, and the median of the hsync widths that adapts them is left out. On a tape
  that begins without a signal the levels calibrate to noise; they heal once fields are
  found, which the run shows. refinepulses can take a noise pulse inside a blanking and
  push an hsync twice. The errors that fix_badlines looks for below a tick (its
  threshold, the seven samples of offset) and the refinement of lines by hsync edge,
  burst and pilot are left out, and so are the changes of level of the AGC. Lines of
  picture are not blank unless the damage says `dark`. A dropout of a whole blanking
  costs two fields: get_line0 bounds its guess only if the previous field was good.
  `LinesAscend` is not about fields that a skip has cut short.
* `Spectra`, `DemodKernel`, `GpuKernels`: exact arithmetic modulo 127, so rounding, and
  single against double precision, are not told apart; the filters are short FIRs in
  place of the program's, some of which are recursive and decay within the cut. MTF is
  an integer power. The Hilbert transform, the discriminator, clamping, the EFM clip,
  16-bit codes and the audio slices are the code's.
* `GpuDemod`: the queue is in order and runs at any time; a blocking write that fails
  has not changed the device. A batch that failed leaves its uploads in the queue, and
  they may read what the next batch stages; the next batch uploads after them, which is
  why `KernelsAgree` holds. What a kernel does with a null pointer, or the host with memory it
  has given back, is undefined; in the model such a command reads junk and writes nothing,
  and `blind` remembers that it was made. Profiling, dumps, `LD_GPU_CHECK`, the PAL pilot channel and
  poisoned locks (nothing under the lock panics) are left out.
* Not modelled: filter design and the floating-point ports (`optimized/`, parts of
  `spec.rs` and `demodblock.rs`), metrics, dropouts and analogue audio's second phase:
  what is hard there is rounding, which golden tests compare bit by bit. The frequency
  loop of the EFM PLL, for the same reason. Option parsing, flags and log formatting
  keep no state a property is about. Vendored code and scripts.

## 8. Plan

Done: block cache, speculative PLL, field loop, output pipeline with database and JSON
entries, prefetching reader with its sources, decode loop, seek and frame numbers, start
and end of the program, field analysis down to the tick, demodulator and GPU schedule. Of
the first eight every safety property and every refinement that a run checks is proved; of
the GPU its schedule, apart from its arithmetic.

Left, in order of importance:

1. Of the type invariant of `FieldSync` what does not speak of places, for every tape: that
   the levels of confidence stay percentages, and the parities of the entries.
2. A refinement of the decode loop's input: that `DecodeLoop` over the prefetching reader
   is `DecodeLoop` over `SampleStream` follows from `ReaderIsStream` only informally.
