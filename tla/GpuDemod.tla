------------------------------- MODULE GpuDemod ------------------------------
(***************************************************************************)
(* The demodulator behind --gpu (demod_gpu.rs over opencl.rs, called by    *)
(* demod_batch in mod.rs).  Two threads of the decoder hand batches to one *)
(* GpuDemod: the field that is being decoded and the background lookahead. *)
(* A call is cut into chunks of MaxBatch blocks; a chunk holds the mutex   *)
(* while the host enqueues its commands, and the device runs the in-order  *)
(* queue on its own.  Any OpenCL call may fail: the chunk gives up, what it*)
(* has enqueued stays in the queue, the call's blocks are demodulated on   *)
(* the CPU and the next call tries the device again.                       *)
(*                                                                         *)
(* A sample is given in half units, so an integral one is even.            *)
(***************************************************************************)
EXTENDS GpuKernels, SequencesExt

CONSTANTS
    Callers,         \* the threads that demodulate
    MaxBatch,        \* MAX_BATCH
    CodeMax,         \* the largest 16-bit code: 65535
    Stream,          \* for a length: the samples of the input
    Scenarios        \* what may happen, see below

\* len     spec.blocklen
\* gpu     --gpu was given
\* host    its OpenCL installation
\* calls   for each caller: the batches it asks for, with their MTF level
\* rot     spec.delays.video_rot
\* faults  bound on the enqueued calls that fail
\* allocs  bound on the allocations that fail
\* depth   bound on the commands in the device's queue
ASSUME ScenarioAssumption ==
    \A s \in Scenarios : /\ s.len \in Nat /\ s.gpu \in BOOLEAN /\ s.rot \in Nat
                         /\ s.faults \in Nat /\ s.allocs \in Nat /\ s.depth \in Nat \ {0}
                         /\ s.calls \in [Callers -> Seq([blocks : Seq(Nat) \ {<<>>}, level : Nat])]

\* MAX_BATCH is 64.  The lock has a holder or is free.
ASSUME BatchAssumption == MaxBatch \in 1..64 /\ "free" \notin Callers

VARIABLES
    scen,            \* the scenario
    gpu,             \* Decoder::gpu: "none", "asked" for, "on" or "refused"
    lock,            \* the holder of the mutex, or "free"
    todo,            \* the calls its chunk still has to make
    work,            \* per caller: calls answered, blocks of the current one
    answer,          \* per caller: its last answered call
    buf,             \* per buffer: its capacity and handle
    mem,             \* per buffer: what it holds
    queue,           \* commands the device has not run
    pow_level,       \* State::pow_level, 0 for None
    faults, allocs,  \* failures so far
    blind            \* a buffer that has no memory has been worked on

gpuVars == <<scen, gpu, lock, todo, work, answer, buf, mem, queue, pow_level, faults, allocs, blind>>

-----------------------------------------------------------------------------
(* Opening the device.                                                     *)

\* Gpu::open: the picked GPU of all platforms', and double precision.
Opens(host) ==
    LET devices == FlattenSeq(host.platforms)
    IN  /\ host.runtime
        /\ host.pick < Len(devices)
        /\ devices[host.pick + 1].fp64

\* GpuDemod::new
PowersOf8 == {8, 64, 512, 4096, 32768}
New(host, n) == n \in PowersOf8 /\ Opens(host) /\ host.builds

\* Decoder::enable_gpu, which the program does not survive when it fails.
EnableGpu ==
    /\ gpu = "asked"
    /\ gpu' = IF New(scen.host, scen.len) THEN "on" ELSE "refused"
    /\ UNCHANGED <<scen, lock, todo, work, answer, buf, mem, queue, pow_level, faults, allocs, blind>>

-----------------------------------------------------------------------------
(* Buffers.  A handle is a number that changes when the buffer is made     *)
(* anew, 0 for the null handle.  A capacity counts blocks.                 *)

Row(i) == <<"r0", "r1", "r2", "r3", "r4", "r5">>[i + 1]
Rows == {Row(i) : i \in 0..5}
Sized == Rows \cup {"raw", "in16", "up", "down", "bins", "out"}
Buffers == Sized \cup {"mtfpow", "starts"}

\* What a fresh buffer holds: one value of its kind.
Junk(n, name) ==
    LET all(v) == [b \in 0..MaxBatch - 1 |-> [k \in 0..n - 1 |-> v]]
        cut    == [b \in 0..MaxBatch - 1 |->
                      [demod |-> <<>>, demod_05 |-> <<>>, demod_burst |-> <<>>,
                       demod_raw |-> <<>>, efm |-> <<>>, rfhpf |-> <<>>]]
    IN  CASE name \in Rows \cup {"bins"} -> all(<<1, 0>>)
          [] name \in {"raw", "in16", "up"} -> all(1)
          [] name = "out"    -> cut
          [] name = "down"   -> [out |-> cut, bins |-> all(<<1, 0>>)]
          [] name = "mtfpow" -> 0
          [] name = "starts" -> <<0, 0, 0, 0>>

NextPowerOfTwo(u) == CHOOSE p \in {1, 2, 4, 8, 16, 32, 64, 128} : p >= u /\ p \div 2 < u

\* Buffer::ensure and Pinned::ensure: released and made anew when too small.
Grows(name, units) == buf[name].cap < units
Grown(units) == [cap |-> NextPowerOfTwo(units), handle |-> NextPowerOfTwo(units) + 1]

-----------------------------------------------------------------------------
(* One chunk, as the calls `batch` makes.                                  *)

Data(n, b) == [i \in 0..n - 1 |-> Stream[n][b * BlockSize(n) + i + 1]]

Samples(n, blocks) == {Data(n, blocks[b])[i] : b \in DOMAIN blocks, i \in 0..n - 1}

\* Integers in a 16-bit range go up as codes from their minimum.
Integral(vals) ==
    /\ Max(vals) - Min(vals) <= 2 * CodeMax
    /\ \A v \in vals : v % 2 = 0

Coded(v, lo) == ((v - lo) \div 2) % (CodeMax + 1)

Staged(n, blocks, vals) ==
    [b \in 0..Len(blocks) - 1 |->
        [i \in 0..n - 1 |-> LET v == Data(n, blocks[b + 1])[i]
                            IN  IF Integral(vals) THEN Coded(v, Min(vals)) ELSE v]]

Passes(n) == CASE n = 8 -> 1 [] n = 64 -> 2 [] n = 512 -> 3 [] n = 4096 -> 4 [] n = 32768 -> 5
EndsIn(n, src, tmp) == IF Passes(n) % 2 = 1 THEN tmp ELSE src

\* The first two rows that are none of four.
FreeRows(a, b, c, d) ==
    LET free == (0..5) \ {a, b, c, d} IN <<Min(free), Min(free \ {Min(free)})>>

\* Which row holds what.  Every transform ends in its own row or in its
\* partner's, by the number of passes, and the roles move accordingly.
RowPlan(n) ==
    LET x      == EndsIn(n, 0, 1)
        h      == EndsIn(n, 2, x)
        spare  == IF h = 2 THEN x ELSE 2
        e      == EndsIn(n, 3, spare)
        spare2 == IF e = 3 THEN spare ELSE 3
        r      == EndsIn(n, 4, spare2)
        spare3 == IF r = 4 THEN spare2 ELSE 4
        y      == EndsIn(n, spare3, h)
        other  == IF y = spare3 THEN h ELSE spare3
        free   == FreeRows(e, r, y, other)
        vrows  == <<other, free[1], free[2]>>
        v1     == EndsIn(n, vrows[1], y)
        tmp2   == IF v1 = vrows[1] THEN y ELSE vrows[1]
        v2     == EndsIn(n, vrows[2], tmp2)
        tmp3   == IF v2 = vrows[2] THEN tmp2 ELSE vrows[2]
    IN  [x |-> x, h |-> h, spare |-> spare, e |-> e, spare2 |-> spare2, r |-> r,
         d |-> spare3, y |-> y, vrows |-> vrows, tmps |-> <<y, tmp2, tmp3>>,
         v_out |-> <<v1, v2, EndsIn(n, vrows[3], tmp3)>>]

\* The calls: a buffer made large enough, the staging memory filled, a
\* command enqueued, a blocking write.
Ensure(names, units) == [op |-> "ensure", names |-> names, units |-> units]
Stage(data) == [op |-> "stage", data |-> data]
Enqueue(kernel, reads, writes, arg) ==
    [op |-> "enqueue", kernel |-> kernel, reads |-> reads, writes |-> writes, arg |-> arg]
Write(name, value) == [op |-> "write", name |-> name, value |-> value]

FftCalls(n, src, tmp, s) ==
    [p \in 1..Passes(n) |->
        Enqueue("fft_pass", <<Row(IF p % 2 = 1 THEN src ELSE tmp)>>,
                            <<Row(IF p % 2 = 1 THEN tmp ELSE src)>>, [ns |-> 8^(p - 1), s |-> s])]

InputCalls(n, nb, data, vals) ==
    IF Integral(vals)
    THEN <<Ensure(<<"up">>, nb), Stage(data), Ensure(<<"in16">>, nb),
           Enqueue("upload", <<"up">>, <<"in16">>, 0),
           Enqueue("load_u16", <<"in16">>, <<Row(0)>>, Min(vals))>>
    ELSE <<Ensure(<<"up">>, 2 * nb), Stage(data),
           Enqueue("upload", <<"up">>, <<"raw">>, 0),
           Enqueue("load_real", <<"raw">>, <<Row(0)>>, 0)>>

\* The MTF power goes up when its level changed.
PowCalls(level, known) ==
    IF level # 0 /\ known # level THEN <<Write("mtfpow", level)>> ELSE <<>>

\* The runs of bins the audio channels start at.
AudioStarts(n) ==
    LET af(ch) == Filters[n].audio[ch]
    IN  <<af(1).lowbin, n - af(1).lowbin - af(1).nbins \div 2,
          af(2).lowbin, n - af(2).lowbin - af(2).nbins \div 2>>

AudioRun(n) == Max({Filters[n].audio[ch].nbins \div 2 : ch \in 1..2})

SpectrumCalls(n, nb, w, level, known) ==
    FftCalls(n, 0, 1, -1) \o PowCalls(level, known)
    \o <<Enqueue("rf_products", <<Row(w.x), "mtfpow">>, <<Row(2), Row(3), Row(4)>>, level # 0),
         Ensure(<<"bins">>, nb), Write("starts", AudioStarts(n)),
         Enqueue("gather_bins", <<Row(w.x), "starts">>, <<"bins">>, AudioRun(n))>>

VideoCalls(n, w) ==
    FftCalls(n, 2, w.x, 1) \o FftCalls(n, 3, w.spare, 1) \o FftCalls(n, 4, w.spare2, 1)
    \o <<Enqueue("discriminate", <<Row(w.h)>>, <<"raw", Row(w.d)>>, 0)>>
    \o FftCalls(n, w.d, w.h, -1)
    \o <<Enqueue("video_products", <<Row(w.y)>>, [i \in 1..3 |-> Row(w.vrows[i])], 0)>>
    \o FftCalls(n, w.vrows[1], w.tmps[1], 1)
    \o FftCalls(n, w.vrows[2], w.tmps[2], 1)
    \o FftCalls(n, w.vrows[3], w.tmps[3], 1)

OutputCalls(nb, w, rot) ==
    <<Ensure(<<"out">>, nb),
      Enqueue("extract", [i \in 1..3 |-> Row(w.v_out[i])] \o <<"raw", Row(w.r), Row(w.e)>>,
                         <<"out">>, rot),
      Ensure(<<"down">>, nb),
      Enqueue("download", <<"out", "down">>, <<"down">>, "out"),
      Enqueue("download", <<"bins", "down">>, <<"down">>, "bins"),
      [op |-> "finish"]>>

Batch(n, blocks, level, rot, known) ==
    LET nb   == Len(blocks)
        vals == Samples(n, blocks)
        w    == RowPlan(n)
    IN  <<Ensure(<<"r0", "r1", "r2", "r3", "r4", "r5", "raw">>, nb)>>
        \o InputCalls(n, nb, Staged(n, blocks, vals), vals)
        \o SpectrumCalls(n, nb, w, level, known) \o VideoCalls(n, w) \o OutputCalls(nb, w, rot)

-----------------------------------------------------------------------------
(* What the device computes: of an enqueued call over nb blocks, if x is   *)
(* what it reads.                                                          *)

Extent(start, end) == IF end > start THEN end - start ELSE 0

\* What is added back to the filtered channels, from which c was taken.
AddedBack(n) == [i \in 1..3 |-> Ire50 * Filters[n].fvideo_rfft[i][0][1] % P]

ExtractArgs(n, v, raw, r, e, rot) ==
    Extract(n, v, raw, r, e, Ire50, AddedBack(n),
            KeptStart(n), Extent(KeptStart(n), KeptEnd(n)),
            RfhpfStart(n, rot), Extent(RfhpfStart(n, rot), RfhpfStop(n, rot)))

\* One block's share.
BlockOutput(n, call, x, b) ==
    CASE call.kernel = "load_u16"  -> <<LoadU16(n, x[1][b], call.arg)>>
      [] call.kernel = "load_real" -> <<LoadReal(n, x[1][b])>>
      [] call.kernel = "fft_pass"  -> <<FftPass(n, x[1][b], call.arg.ns, call.arg.s)>>
      [] call.kernel = "rf_products" ->
            RfProducts(n, x[1][b], IF call.arg THEN MtfPow(n, x[2]) ELSE <<>>)
      [] call.kernel = "gather_bins" -> <<GatherBins(n, x[1][b], x[2], call.arg)>>
      [] call.kernel = "discriminate" ->
            LET raw == DiscriminateRaw(n, x[1][b], Ire50)
            IN  <<raw, Discriminate(n, raw, ClampLo - Ire50, ClampHi - Ire50)>>
      [] call.kernel = "video_products" -> VideoProducts(n, x[1][b])
      [] call.kernel = "extract" ->
            <<ExtractArgs(n, [i \in 1..3 |-> x[i][b]], x[4][b], x[5][b], x[6][b], call.arg)>>

PerBlock(outs, nb, k) == [i \in 1..k |-> [b \in 0..nb - 1 |-> outs[b][i]]]

Output(n, call, nb, x) ==
    CASE call.kernel = "upload"   -> <<x[1]>>
      [] call.kernel = "download" -> <<[x[2] EXCEPT ![call.arg] = x[1]]>>
      [] OTHER -> PerBlock([b \in 0..nb - 1 |-> BlockOutput(n, call, x, b)],
                           nb, Len(call.writes))

\* Blocks that are not written keep what they hold.
Over(new, old) == [b \in DOMAIN old |-> IF b \in DOMAIN new THEN new[b] ELSE old[b]]

\* What it leaves of memory m, of which it can write `valid`.
Position(names, name) == CHOOSE i \in DOMAIN names : names[i] = name

Stored(call, out, m, valid) ==
    [name \in Buffers |->
        IF name \in valid /\ name \in Range(call.writes)
        THEN Over(out[Position(call.writes, name)], m[name])
        ELSE m[name]]

\* A block as the staging memory has it; its audio comes from the bins.
Received(n, out, bins) ==
    LET run      == AudioRun(n)
        half(ch) == Filters[n].audio[ch].nbins \div 2
        part(ch, at) == [i \in 0..half(ch) - 1 |-> bins[2 * (ch - 1) * run + at + i]]
    IN  [demod |-> out.demod, demod_05 |-> out.demod_05, demod_burst |-> out.demod_burst,
         demod_raw |-> out.demod_raw, efm |-> out.efm, rfhpf |-> out.rfhpf,
         audio |-> [ch \in 1..2 |-> AudioStage1(n, ch, part(ch, 0), part(ch, run))]]

-----------------------------------------------------------------------------
(* A batch on its own: each of its calls is done before the next is made,  *)
(* on a device that has just been opened but for the MTF power it holds.   *)

Opened(n, known) ==
    [name \in Buffers |-> IF name = "mtfpow" THEN known ELSE Junk(n, name)]

Done(n, nb, m, call) ==
    CASE call.op = "stage"   -> [m EXCEPT !["up"] = Over(call.data, @)]
      [] call.op = "write"   -> [m EXCEPT ![call.name] = call.value]
      [] call.op = "enqueue" ->
            Stored(call, Output(n, call, nb, [i \in DOMAIN call.reads |-> m[call.reads[i]]]),
                   m, Buffers)
      [] OTHER -> m

\* The value itself; compared once, it is evaluated once.
Settled(v) == CHOOSE w \in {v} : w = w

\* The memory after the first k of the calls.
After(n, nb, known, calls) ==
    LET after[k \in 0..Len(calls)] ==
            IF k = 0 THEN Opened(n, known) ELSE Settled(Done(n, nb, after[k - 1], calls[k]))
    IN  after

Downloaded(n, blocks, m) ==
    [b \in DOMAIN blocks |-> Received(n, m.down.out[b - 1], m.down.bins[b - 1])]

Alone(n, blocks, level, rot, known) ==
    LET calls == Batch(n, blocks, level, rot, known)
    IN  Downloaded(n, blocks, After(n, Len(blocks), known, calls)[Len(calls)])

-----------------------------------------------------------------------------
(* The calls of the two threads.                                           *)

CallsOf(s) == UNION {Range(s.calls[c]) : c \in Callers}

\* demod_block_cpu of every block a scenario asks for, and its head's part.
Decodes ==
    UNION {UNION {{<<s.len, call.blocks[b], call.level, s.rot>> : b \in DOMAIN call.blocks} :
                     call \in CallsOf(s)} : s \in Scenarios}

HeadTable == [k \in Decodes |-> DemodHead(k[1], Data(k[1], k[2]), k[3], k[4])]
CpuTable == [k \in Decodes |-> Joined(k[1], HeadTable[k])]

CpuBlocks(s, blocks, level) ==
    [b \in DOMAIN blocks |-> CpuTable[<<s.len, blocks[b], level, s.rot>>]]
Cpu(call) == CpuBlocks(scen, call.blocks, call.level)

Asked(c) == scen.calls[c][work[c].done + 1]
Busy(c) == work[c].done < Len(scen.calls[c])

\* The chunk of a call's blocks that begins behind its first k.
Piece(blocks, k) == SubSeq(blocks, k + 1, Min({k + MaxBatch, Len(blocks)}))
Chunk(c) == Piece(Asked(c).blocks, Len(work[c].got))

\* The arithmetic: a batch on its own gives what the CPU kernel gives, whatever
\* power was on the device.
ASSUME KernelAssumption ==
    \A s \in Scenarios : \A call \in CallsOf(s) : \A k \in 0..Len(call.blocks) - 1 :
        \A known \in {0} \cup {other.level : other \in CallsOf(s)} :
            Alone(s.len, Piece(call.blocks, k), call.level, s.rot, known)
                = CpuBlocks(s, Piece(call.blocks, k), call.level)

\* The call is answered.
Answer(c, out) ==
    /\ answer' = [answer EXCEPT ![c] = [blocks |-> Asked(c).blocks, level |-> Asked(c).level,
                                        out |-> out]]
    /\ work' = [work EXCEPT ![c] = [done |-> @.done + 1, got |-> <<>>]]

GpuInit ==
    /\ scen \in Scenarios
    /\ gpu = IF scen.gpu THEN "asked" ELSE "none"
    /\ lock = "free" /\ todo = <<>> /\ queue = <<>>
    /\ work = [c \in Callers |-> [done |-> 0, got |-> <<>>]]
    /\ answer = [c \in Callers |-> [blocks |-> <<>>, level |-> 0, out |-> <<>>]]
    /\ buf = [name \in Buffers |-> [cap |-> 0, handle |-> 1]]
    /\ mem = [name \in Buffers |-> Junk(scen.len, name)]
    /\ pow_level = 0 /\ faults = 0 /\ allocs = 0 /\ blind = FALSE

\* demod_batch without --gpu.
CpuCall(c) ==
    /\ gpu = "none" /\ Busy(c)
    /\ Answer(c, Cpu(Asked(c)))
    /\ UNCHANGED <<scen, gpu, lock, todo, buf, mem, queue, pow_level, faults, allocs, blind>>

\* `batch` takes the mutex for the next chunk.
TakeLock(c) ==
    /\ gpu = "on" /\ lock = "free" /\ Busy(c)
    /\ lock' = c
    /\ todo' = Batch(scen.len, Chunk(c), Asked(c).level, scen.rot, pow_level)
    /\ UNCHANGED <<scen, gpu, work, answer, buf, mem, queue, pow_level, faults, allocs, blind>>

Upcoming(op) == todo # <<>> /\ todo[1].op = op
Past == todo' = Tail(todo)

\* A buffer that could not be grown has no memory, and passes for its old
\* capacity.
Lost(name) == buf[name].handle = 0

EnsureBuffers ==
    /\ Upcoming("ensure")
    /\ Past
    /\ LET grown == {name \in Range(todo[1].names) : Grows(name, todo[1].units)}
       IN  /\ buf' = [name \in Buffers |->
                         IF name \in grown THEN Grown(todo[1].units) ELSE buf[name]]
           /\ mem' = [name \in Buffers |->
                         IF name \in grown THEN Junk(scen.len, name) ELSE mem[name]]
    /\ UNCHANGED <<scen, gpu, lock, work, answer, queue, pow_level, faults, allocs, blind>>

StageInput ==
    /\ Upcoming("stage")
    /\ Past
    /\ mem' = [mem EXCEPT !["up"] = Over(todo[1].data, @)]
    /\ blind' = (blind \/ Lost("up"))
    /\ UNCHANGED <<scen, gpu, lock, work, answer, buf, queue, pow_level, faults, allocs>>

\* Queue::upload, Queue::launch, Queue::download: the command keeps the
\* buffers' handles.
Used(call) == Range(call.reads) \cup Range(call.writes)
Held(call) == [name \in Used(call) |-> buf[name].handle]

\* A copy from or to no buffer is refused at once.  A kernel takes no buffer for
\* a null pointer, and the host's memory is written where it was.
NoObject(call) ==
    call.kernel \in {"upload", "download"} /\ \E name \in Used(call) \ {"up", "down"} : Lost(name)

EnqueueCommand ==
    /\ Upcoming("enqueue")
    /\ ~NoObject(todo[1])
    /\ Len(queue) < scen.depth
    /\ Past
    /\ queue' = Append(queue, [call |-> todo[1], handle |-> Held(todo[1]), nb |-> Len(Chunk(lock))])
    /\ blind' = (blind \/ \E name \in Used(todo[1]) : Lost(name))
    /\ UNCHANGED <<scen, gpu, lock, work, answer, buf, mem, pow_level, faults, allocs>>

\* Queue::write waits for the queue.
BlockingWrite ==
    /\ Upcoming("write")
    /\ queue = <<>>
    /\ Past
    /\ mem' = [mem EXCEPT ![todo[1].name] = todo[1].value]
    /\ pow_level' = IF todo[1].name = "mtfpow" THEN todo[1].value ELSE pow_level
    /\ UNCHANGED <<scen, gpu, lock, work, answer, buf, queue, faults, allocs, blind>>

Unlock == lock' = "free" /\ todo' = <<>>

\* Mutant: it does not wait for the queue.
FinishEarly ==
    /\ Upcoming("finish")
    /\ LET got == work[lock].got \o
                  Downloaded(scen.len, Chunk(lock), mem)
       IN  IF Len(got) = Len(Asked(lock).blocks)
           THEN Answer(lock, got)
           ELSE work' = [work EXCEPT ![lock].got = got] /\ UNCHANGED answer
    /\ Unlock
    /\ UNCHANGED <<scen, gpu, buf, mem, queue, pow_level, faults, allocs, blind>>

\* Queue::finish, and the end of `batch`: of the call, if it was its last.
Finish ==
    /\ Upcoming("finish")
    /\ queue = <<>>
    /\ LET got == work[lock].got \o
                  Downloaded(scen.len, Chunk(lock), mem)
       IN  IF Len(got) = Len(Asked(lock).blocks)
           THEN Answer(lock, got)
           ELSE work' = [work EXCEPT ![lock].got = got] /\ UNCHANGED answer
    /\ Unlock
    /\ UNCHANGED <<scen, gpu, buf, mem, queue, pow_level, faults, allocs, blind>>

\* An OpenCL call returns an error: gpu_demod_blocks falls back for all the
\* blocks of the call, those of its earlier chunks too.
CallFails ==
    /\ todo # <<>> /\ todo[1].op \in {"enqueue", "write", "finish"}
    /\ \/ faults < scen.faults /\ faults' = faults + 1
       \/ todo[1].op = "enqueue" /\ NoObject(todo[1]) /\ UNCHANGED faults
    /\ Answer(lock, Cpu(Asked(lock)))
    /\ Unlock
    /\ UNCHANGED <<scen, gpu, buf, mem, queue, pow_level, allocs, blind>>

\* An allocation fails: the buffers before it have grown, its own is gone and
\* its capacity is what it was.
EnsureFails ==
    /\ Upcoming("ensure")
    /\ allocs < scen.allocs
    /\ allocs' = allocs + 1
    /\ \E i \in DOMAIN todo[1].names :
          LET name   == todo[1].names[i]
              before == {todo[1].names[j] : j \in {k \in DOMAIN todo[1].names : k < i}}
              grown  == {x \in before : Grows(x, todo[1].units)}
          IN  /\ Grows(name, todo[1].units)
              /\ buf' = [x \in Buffers |->
                            IF x \in grown THEN Grown(todo[1].units)
                            ELSE IF x = name THEN [buf[x] EXCEPT !.handle = 0] ELSE buf[x]]
              /\ mem' = [x \in Buffers |->
                            IF x \in grown \cup {name} THEN Junk(scen.len, x) ELSE mem[x]]
    /\ Answer(lock, Cpu(Asked(lock)))
    /\ Unlock
    /\ UNCHANGED <<scen, gpu, queue, pow_level, faults, blind>>

\* The device runs the next command, on the memory it was enqueued with.
Current(cmd, name) == cmd.handle[name] # 0 /\ buf[name].handle = cmd.handle[name]

Fetched(cmd) ==
    [i \in DOMAIN cmd.call.reads |->
        IF Current(cmd, cmd.call.reads[i]) THEN mem[cmd.call.reads[i]]
        ELSE Junk(scen.len, cmd.call.reads[i])]

Valid(cmd) == {name \in DOMAIN cmd.handle : Current(cmd, name)}

DeviceRuns ==
    /\ queue # <<>>
    /\ mem' = Stored(queue[1].call, Output(scen.len, queue[1].call, queue[1].nb, Fetched(queue[1])),
                     mem, Valid(queue[1]))
    /\ queue' = Tail(queue)
    /\ UNCHANGED <<scen, gpu, lock, todo, work, answer, buf, pow_level, faults, allocs, blind>>

\* Everything is answered, or --gpu was refused.
Finished ==
    /\ gpu = "refused" \/ (gpu # "asked" /\ queue = <<>> /\ \A c \in Callers : ~Busy(c))
    /\ UNCHANGED gpuVars

GpuNext ==
    \/ EnableGpu
    \/ \E c \in Callers : CpuCall(c) \/ TakeLock(c)
    \/ EnsureBuffers \/ StageInput \/ EnqueueCommand \/ BlockingWrite \/ Finish
    \/ CallFails \/ EnsureFails
    \/ DeviceRuns
    \/ Finished

GpuSpec == GpuInit /\ [][GpuNext]_gpuVars

-----------------------------------------------------------------------------
(* What the demodulated blocks must be, whoever computed them: the filter  *)
(* chain over the endless stream, which block processing is a way to       *)
(* compute.  S is the stream, a function on 0 .. last.                     *)

At(f, p) == IF p \in DOMAIN f THEN f[p] ELSE Zero

\* A filter by its definition, `early` samples ahead.
Convolved(f, taps, early) ==
    [p \in DOMAIN f |->
        LET sum[k \in 0..Len(taps)] ==
                IF k = 0 THEN Zero
                ELSE Add(sum[k - 1], Mul(taps[k], At(f, p + early - k + 1)))
        IN  sum[Len(taps)]]

Reals(f) == [p \in DOMAIN f |-> f[p][1]]
EfmSamples(f) == [p \in DOMAIN f |-> EfmSample(f[p])]

ChannelsOf(S, raw, clamped) ==
    LET video(i) == Reals(Convolved(clamped, VideoTaps[i], VideoOffsets[i]))
    IN  [demod |-> video(1), demod_05 |-> video(2), demod_burst |-> video(3),
         demod_raw |-> raw,
         efm |-> EfmSamples(Convolved(S, EfmTaps, 0)),
         rfhpf |-> Reals(Convolved(S, HpfTaps, 0))]

Clamped(raw) == [p \in DOMAIN raw |-> Real(Clamp(raw[p], ClampLo, ClampHi))]

OfRaw(S, raw) == ChannelsOf(S, raw, Clamped(raw))
OfHilbert(S, z) == OfRaw(S, [p \in DOMAIN S |-> Turned(z[p], At(z, p - 1))])

ResponseTo(S, level) ==
    LET hil[l \in 0..level] == IF l = 0 THEN Convolved(S, RfTaps, 0)
                               ELSE Convolved(hil[l - 1], MtfTaps, 0)
    IN  OfHilbert(S, hil[level])

Response ==
    [k \in UNION {{<<s.len, call.level>> : call \in CallsOf(s)} : s \in Scenarios} |->
        ResponseTo([p \in 0..Len(Stream[k[1]]) - 1 |-> Real(Stream[k[1]][p + 1])], k[2])]

\* `kept` is the stream's response from position `from` on.
Tiles(kept, resp, from) == \A j \in DOMAIN kept : kept[j] = resp[from + j - 1]

ButLast(s, k) == IF k > 0 THEN SubSeq(s, 1, Len(s) - k) ELSE s

-----------------------------------------------------------------------------

\* Every answered call has what the CPU kernel makes of its blocks.
Agreed ==
    \A c \in Callers :
        answer[c].out = CpuBlocks(scen, answer[c].blocks, answer[c].level)

\* Every answered call has, in order, what the CPU kernel makes of its blocks,
\* the analogue audio included: whatever else is in the device's queue, holds
\* its buffers or has failed before (demod_gpu.rs:3, mod.rs:525).  It says
\* nothing once a kernel or the host has worked on a buffer that a failed growth
\* left without memory, which a smaller batch does (opencl.rs:304, 310).
KernelsAgree == ~blind => Agreed

\* The blocks of a field, laid side by side, are the filters' response to the
\* stream: no kept sample knows where its block began or ended.  The last
\* samples of the burst channel are left to BurstTiles.
StreamTiles ==
    ~blind => \A c \in Callers : \A b \in DOMAIN answer[c].blocks :
        LET n    == scen.len
            v    == answer[c].out[b]
            resp == Response[<<n, answer[c].level>>]
            from == answer[c].blocks[b] * BlockSize(n) + BlockCut[n]
        IN  /\ Len(v.demod) = BlockSize(n)
            /\ Tiles(v.demod, resp.demod, from)
            /\ Tiles(v.demod_05, resp.demod_05, from)
            /\ Tiles(ButLast(v.demod_burst, VideoOffsets[3] - BlockCutEnd(n)), resp.demod_burst, from)
            /\ Tiles(v.demod_raw, resp.demod_raw, from)
            /\ Tiles(v.efm, resp.efm, from)
            /\ Tiles(v.rfhpf, resp.rfhpf, from - scen.rot)
            /\ Len(v.rfhpf) = BlockSize(n)
            /\ \A ch \in 1..2 : Len(v.audio[ch]) * Filters[n].audio_fdiv = BlockSize(n)

\* The same of the whole burst channel: the cut at a block's end hides the FIR
\* delay of its filter (spec.rs:1647, 2760).
BurstTiles ==
    ~blind => \A c \in Callers : \A b \in DOMAIN answer[c].blocks :
        LET n == scen.len
        IN  Tiles(answer[c].out[b].demod_burst, Response[<<n, answer[c].level>>].demod_burst,
                  answer[c].blocks[b] * BlockSize(n) + BlockCut[n])
=============================================================================
