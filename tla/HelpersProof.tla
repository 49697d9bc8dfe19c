---------------------------- MODULE HelpersProof ----------------------------
(***************************************************************************)
(* Proofs about the two helpers the decoder hands work to, in parallel with*)
(* its own and without a change of its results.                            *)
(*                                                                         *)
(* The speculative PLL is the serial one, for every machine, every set of  *)
(* slices and every bound.  TypeOK and SpeculationSound are together       *)
(* inductive; the refinement then only has to look at writeout.            *)
(*                                                                         *)
(* The GPU demodulator answers what the CPU's kernel gives.  First a batch *)
(* on its own: the sequence of its calls is sound, every call finds what it*)
(* needs (BatchSound, by a calculus of what a part of the sequence leads   *)
(* to).  Then the device: a command run on two memories that agree on what *)
(* it needs leaves them in agreement on what it gives (RunAgrees).  The    *)
(* invariant GpuInv says that the memory of the device agrees with that of *)
(* the chunk in hand, run on its own, up to the calls still in the queue.  *)
(***************************************************************************)
EXTENDS SpeculativePll, GpuDemod, SequenceTheorems, WellFoundedInduction, TLAPS

-----------------------------------------------------------------------------
(* The speculative PLL.                                                    *)


IInv == TypeOK /\ SpeculationSound

\* The elements of a sequence.
LEMMA Elements ==
  ASSUME NEW S, NEW s \in Seq(S)
  PROVE  \A k \in 1 .. Len(s) : s[k] \in S
OBVIOUS

\* The head and the tail of a queue.
LEMMA HeadAndTail ==
  ASSUME NEW S, NEW s \in Seq(S), s # << >>
  PROVE  /\ 1 \in 1 .. Len(s) /\ Head(s) = s[1] /\ Head(s) \in S
         /\ Tail(s) \in Seq(S)
         /\ \A k \in 1 .. Len(Tail(s)) : k + 1 \in 1 .. Len(s) /\ Tail(s)[k] = s[k + 1]
OBVIOUS

\* A queue with one more element.
LEMMA Appended ==
  ASSUME NEW S, NEW s \in Seq(S), NEW e \in S
  PROVE  /\ Append(s, e) \in Seq(S)
         /\ \A k \in 1 .. Len(Append(s, e)) :
                \/ k \in 1 .. Len(s) /\ Append(s, e)[k] = s[k]
                \/ Append(s, e)[k] = e
OBVIOUS

\* Jobs and results have tokens other than 0.
LEMMA ChannelTypes ==
  TypeOK => /\ \A k \in 1 .. Len(jobs) : jobs[k] \in Jobs
            /\ \A k \in 1 .. Len(done) : done[k] \in Results
            /\ \A k \in 1 .. Len(jobs) : jobs[k].token \in Nat \ {0} /\ jobs[k].gen \in Nat
            /\ \A k \in 1 .. Len(done) : done[k].token \in Nat \ {0} /\ done[k].gen \in Nat
<1> SUFFICES ASSUME TypeOK
             PROVE  /\ \A k \in 1 .. Len(jobs) : jobs[k] \in Jobs
                    /\ \A k \in 1 .. Len(done) : done[k] \in Results
  BY DEF Jobs, Results
<1> QED BY Elements DEF TypeOK

\* Every holder is a field.
LEMMA HoldersAreFields == TypeOK => Holders \subseteq Fields
<1> SUFFICES ASSUME TypeOK PROVE Holders \subseteq Fields
  OBVIOUS
<1>1. \A k \in 1 .. Len(towrite) : towrite[k] \in Fields
  BY Elements DEF TypeOK
<1>2. \A i \in Slots : lastvalidfield[i] # None => lastvalidfield[i] \in Fields
  BY DEF TypeOK
<1>3. pass > 0 => [efm_raw |-> field, token |-> pll_token] \in Fields
  BY DEF TypeOK, Fields
<1> QED BY <1>1, <1>2, <1>3 DEF Holders

\* The machine starts with nothing speculated.
LEMMA InitIInv == Init => IInv
<1> SUFFICES ASSUME Init PROVE IInv
  OBVIOUS
<1>1. TypeOK
  BY PllAssumption DEF Init, TypeOK, Jobs, Results, Fields
<1>2. Holders = {} /\ Len(jobs) = 0 /\ Len(done) = 0
  BY DEF Init, Holders
<1> QED BY <1>1, <1>2 DEF IInv, SpeculationSound, Issued

\* A pass over a field without EFM has no token.
LEMMA PassNoEfmIInv ==
  ASSUME IInv, Pass(NoEfm)
  PROVE  IInv'
<1> DEFINE new == [efm_raw |-> NoEfm, token |-> 0]
<1>1. /\ pll_token' = 0 /\ field' = NoEfm /\ pass' = pass + 1 /\ pass < 2
      /\ UNCHANGED <<efm_pll, pll_gen, next_token, jobs, done, helper,
                     lastvalidfield, towrite, written>>
  BY DEF Pass
<1>2. TypeOK'
  BY <1>1, PllAssumption DEF IInv, TypeOK
<1>3. Holders' \subseteq Holders \union {new}
  BY <1>1 DEF Holders
<1>4. /\ \A k \in 1 .. Len(jobs) : jobs[k].token # 0
      /\ \A k \in 1 .. Len(done) : done[k].token # 0
  BY ChannelTypes DEF IInv
<1>5. SpeculationSound'
  BY <1>1, <1>3, <1>4
  DEF IInv, TypeOK, SpeculationSound, Issued, JobSound, ResultSound
<1> QED BY <1>2, <1>5 DEF IInv

\* A pass over a field with EFM hands the helper the slice and the machine as
\* they are, under a token no other field has.
LEMMA PassIInv ==
  ASSUME NEW input \in Inputs, input # NoEfm, IInv, Pass(input)
  PROVE  IInv'
<1> DEFINE token == next_token + 1
           job   == Job(token, input)
           new   == [efm_raw |-> input, token |-> token]
<1>1. /\ next_token' = token /\ pll_token' = token
      /\ jobs' = jobs \/ jobs' = Append(jobs, job)
      /\ UNCHANGED <<efm_pll, pll_gen, done, helper, lastvalidfield, towrite, written>>
      /\ field' = input /\ pass' = pass + 1 /\ pass < 2
  BY DEF Pass, Submit
<1>2. token \in Nat \ {0}
  BY DEF IInv, TypeOK
<1>3. /\ job \in Jobs
      /\ job.token = token /\ job.gen = pll_gen /\ job.state = efm_pll /\ job.input = input
  BY <1>2 DEF IInv, TypeOK, Job, Jobs
<1>4. jobs' \in Seq(Jobs)
  <2> HIDE DEF job
  <2>1. jobs \in Seq(Jobs) /\ job \in Jobs
    BY <1>3 DEF IInv, TypeOK
  <2> QED BY <1>1, <2>1, Appended
<1>5. TypeOK'
  BY <1>1, <1>2, <1>4 DEF IInv, TypeOK
<1>6. \A k \in 1 .. Len(jobs') :
          \/ k \in 1 .. Len(jobs) /\ jobs'[k] = jobs[k]
          \/ jobs'[k] = job
  <2> HIDE DEF job
  <2>1. jobs \in Seq(Jobs) /\ job \in Jobs
    BY <1>3 DEF IInv, TypeOK
  <2>2. CASE jobs' = jobs
    BY <2>2
  <2>3. CASE jobs' = Append(jobs, job)
    BY <2>1, <2>3, Appended
  <2> QED BY <1>1, <2>2, <2>3
<1>7. Holders' \subseteq Holders \union {new}
  BY <1>1 DEF Holders
<1>8. \A h \in Holders : h.token \in Nat
  BY HoldersAreFields DEF IInv, Fields
<1>9. /\ \A k \in 1 .. Len(jobs) : jobs[k].token \in Nat /\ jobs[k].gen \in Nat
      /\ \A k \in 1 .. Len(done) : done[k].token \in Nat /\ done[k].gen \in Nat
  BY ChannelTypes DEF IInv
<1>10. Issued'
  <2>1. ASSUME NEW h \in Holders'
        PROVE  h.token <= next_token'
    <3>1. next_token \in Nat /\ next_token' = next_token + 1 /\ new.token = next_token + 1
      BY <1>1 DEF IInv, TypeOK
    <3>2. CASE h = new
      BY <3>1, <3>2
    <3>3. CASE h \in Holders
      <4>1. h.token \in Nat /\ h.token <= next_token
        BY <1>8, <3>3 DEF IInv, SpeculationSound, Issued
      <4> HIDE DEF new
      <4> QED BY ONLY <3>1, <4>1
    <3> QED BY <1>7, <3>2, <3>3
  <2>2. ASSUME NEW k \in 1 .. Len(jobs')
        PROVE  jobs'[k].token <= next_token' /\ jobs'[k].gen <= pll_gen'
    <3>1. next_token \in Nat /\ pll_gen \in Nat /\ pll_gen' = pll_gen
      BY <1>1 DEF IInv, TypeOK
    <3>2. CASE k \in 1 .. Len(jobs) /\ jobs'[k] = jobs[k]
      <4>1. /\ jobs[k].token \in Nat /\ jobs[k].gen \in Nat
            /\ jobs[k].token <= next_token /\ jobs[k].gen <= pll_gen
        BY <3>2, <1>9 DEF IInv, SpeculationSound, Issued
      <4> QED BY <4>1, <3>1, <3>2, <1>1
    <3>3. CASE jobs'[k] = job
      <4> HIDE DEF job
      <4> QED BY <3>1, <3>3, <1>1, <1>2, <1>3
    <3> QED BY <3>2, <3>3, <1>6
  <2>3. \A k \in 1 .. Len(done') : done'[k].token <= next_token' /\ done'[k].gen <= pll_gen'
    BY <1>1, <1>2, <1>9 DEF IInv, TypeOK, SpeculationSound, Issued
  <2> QED BY <2>1, <2>2, <2>3 DEF Issued
<1>11. ASSUME NEW h \in Holders'
       PROVE  /\ \A k \in 1 .. Len(jobs') : JobSound(jobs[k], h)'
              /\ \A k \in 1 .. Len(done') : ResultSound(done[k], h)'
  <2>1. CASE h \in Holders
    <3>1. h.token # token
      BY <1>8, <2>1 DEF IInv, TypeOK, SpeculationSound, Issued
    <3> QED BY <1>1, <1>3, <1>6, <2>1, <3>1
            DEF IInv, SpeculationSound, JobSound, ResultSound
  <2>2. CASE h = new
    <3>1. \A k \in 1 .. Len(jobs) : jobs[k].token # token
      <4>1. \A k \in 1 .. Len(jobs) : jobs[k].token <= next_token
        BY DEF IInv, SpeculationSound, Issued
      <4> QED BY <1>9, <4>1 DEF IInv, TypeOK
    <3>2. \A k \in 1 .. Len(done) : done[k].token # token
      <4>1. \A k \in 1 .. Len(done) : done[k].token <= next_token
        BY DEF IInv, SpeculationSound, Issued
      <4> QED BY <1>9, <4>1 DEF IInv, TypeOK
    <3> QED BY <1>1, <1>3, <1>6, <2>2, <3>1, <3>2 DEF JobSound, ResultSound
  <2> QED BY <1>7, <2>1, <2>2
<1> QED BY <1>5, <1>10, <1>11 DEF IInv, SpeculationSound

\* A step that leaves the channels and the machine alone keeps the soundness
\* of the fields that are left.
LEMMA FewerHolders ==
  ASSUME IInv, Holders' \subseteq Holders,
         UNCHANGED <<efm_pll, pll_gen, next_token, jobs, done>>
  PROVE  SpeculationSound'
BY DEF IInv, SpeculationSound, Issued, JobSound, ResultSound

\* A field that goes nowhere takes its claim with it (Abandon).
LEMMA AbandonIInv == IInv /\ Abandon => IInv'
<1> SUFFICES ASSUME IInv, Abandon PROVE IInv'
  OBVIOUS
<1>1. TypeOK'
  BY PllAssumption DEF IInv, TypeOK, Abandon
<1>2. Holders' \subseteq Holders
  BY DEF Abandon, Holders
<1> QED BY <1>1, <1>2, FewerHolders DEF IInv, Abandon

\* The claim moves a field and its token; no field gets another one's
\* (Claim).
LEMMA ClaimIInv ==
  ASSUME NEW idx \in Slots, NEW need_filler \in BOOLEAN, IInv, Claim(idx, need_filler)
  PROVE  IInv'
<1> DEFINE wf    == [efm_raw |-> field, token |-> pll_token]
           other == lastvalidfield[1 - idx]
<1>1. wf \in Holders /\ wf \in Fields
  BY DEF IInv, TypeOK, Claim, Holders, Fields
<1>2. 1 - idx \in Slots
  BY DEF Slots
<1>3. other \in Fields \union {None} /\ (other # None => other \in Holders)
  BY <1>2 DEF IInv, TypeOK, Holders
<1>4. /\ UNCHANGED <<efm_pll, pll_gen, next_token, jobs, done, helper, written>>
      /\ lastvalidfield' = [lastvalidfield EXCEPT ![idx] = wf]
      /\ \/ towrite' = <<wf>>
         \/ towrite' = << >>
         \/ other # None /\ towrite' = <<other, wf>>
      /\ pll_token' = 0 /\ field' = NoEfm /\ pass' = 0
  BY DEF Claim
<1>5. towrite' \in Seq(Fields) /\ (\A k \in 1 .. Len(towrite') : towrite'[k] \in Holders)
  <2>1. CASE towrite' = << >>
    BY <2>1
  <2>2. CASE towrite' = <<wf>>
    BY <1>1, <2>2
  <2>3. CASE other # None /\ towrite' = <<other, wf>>
    <3>1. other \in Fields
      BY <1>3, <2>3
    <3> HIDE DEF other, wf
    <3>2. Len(towrite') = 2 /\ towrite'[1] = other /\ towrite'[2] = wf
      BY <2>3
    <3>3. towrite' \in Seq(Fields)
      BY <1>1, <2>3, <3>1
    <3> QED BY <1>1, <1>3, <2>3, <3>2, <3>3
  <2> QED BY <1>4, <2>1, <2>2, <2>3
<1>6. lastvalidfield' \in [Slots -> Fields \union {None}]
  BY <1>1, <1>4 DEF IInv, TypeOK
<1>7. TypeOK'
  BY <1>4, <1>5, <1>6, PllAssumption DEF IInv, TypeOK
<1>8. \A i \in Slots : lastvalidfield'[i] # None => lastvalidfield'[i] \in Holders
  BY <1>1, <1>4 DEF IInv, TypeOK, Holders
<1>9. Holders' \subseteq Holders
  <2> HIDE DEF wf, other
  <2> QED BY <1>4, <1>5, <1>8 DEF Holders
<1> QED BY <1>4, <1>7, <1>9, FewerHolders DEF IInv

\* Writing a field, either way, advances the generation past every run still
\* in a channel (WriteSpeculated, WriteInline).
LEMMA WriteIInv ==
  ASSUME IInv, WriteSpeculated \/ WriteInline
  PROVE  IInv'
<1> DEFINE wf == Head(towrite)
<1>1. towrite # << >> /\ wf \in Fields /\ towrite' = Tail(towrite) /\ towrite' \in Seq(Fields)
  BY HeadAndTail DEF IInv, TypeOK, WriteSpeculated, WriteInline
<1>2. /\ pll_gen' = pll_gen + 1
      /\ done' = << >> \/ done' = done
      /\ UNCHANGED <<next_token, pll_token, jobs, helper, field, pass, lastvalidfield>>
  BY DEF WriteSpeculated, WriteInline, Drained
<1>3. \E t \in TValues : /\ efm_pll' \in States
                         /\ written' = Append(written, [efm_raw |-> wf.efm_raw, efm |-> t])
  <2>1. CASE WriteSpeculated
    <3>1. PICK k \in 1 .. Len(done) :
              efm_pll' = done[k].state /\ written' = Written(wf, done[k].out)
      BY <2>1 DEF WriteSpeculated
    <3>2. done[k] \in Results
      BY ChannelTypes DEF IInv
    <3> QED BY <3>1, <3>2 DEF Written, Results
  <2>2. CASE WriteInline
    <3>1. <<efm_pll, wf.efm_raw>> \in States \X Inputs
      BY <1>1 DEF IInv, TypeOK, Fields
    <3> QED BY <2>2, <3>1, PllAssumption DEF WriteInline, Written
  <2> QED BY <2>1, <2>2
<1>4. TypeOK'
  <2>1. wf.efm_raw \in Inputs
    BY <1>1 DEF Fields
  <2>2. \A t \in TValues : [efm_raw |-> wf.efm_raw, efm |-> t] \in [efm_raw : Inputs, efm : TValues]
    BY <2>1
  <2>3. written' \in Seq([efm_raw : Inputs, efm : TValues])
    <3> HIDE DEF wf
    <3> QED BY <1>3, <2>2 DEF IInv, TypeOK
  <2>4. done' \in Seq(Results)
    <3>1. << >> \in Seq(Results) /\ done \in Seq(Results)
      BY DEF IInv, TypeOK
    <3> QED BY <1>2, <3>1
  <2> QED BY <1>1, <1>2, <1>3, <2>3, <2>4 DEF IInv, TypeOK
<1>5. Holders' \subseteq Holders
  <2>1. \A k \in 1 .. Len(towrite') : \E m \in 1 .. Len(towrite) : towrite'[k] = towrite[m]
    BY <1>1, HeadAndTail DEF IInv, TypeOK
  <2> QED BY <1>2, <2>1 DEF Holders
<1>6. /\ \A k \in 1 .. Len(jobs) : jobs[k].gen \in Nat /\ jobs[k].gen <= pll_gen
      /\ \A k \in 1 .. Len(done') : k \in 1 .. Len(done) /\ done'[k] = done[k]
      /\ \A k \in 1 .. Len(done) : done[k].gen \in Nat /\ done[k].gen <= pll_gen
  BY <1>2, ChannelTypes DEF IInv, SpeculationSound, Issued
<1>7. /\ \A k \in 1 .. Len(jobs) : jobs[k].gen # pll_gen' /\ jobs[k].gen <= pll_gen'
      /\ \A k \in 1 .. Len(done') : done'[k].gen # pll_gen' /\ done'[k].gen <= pll_gen'
  <2>1. pll_gen \in Nat /\ pll_gen' = pll_gen + 1
    BY <1>2 DEF IInv, TypeOK
  <2>2. \A gen \in Nat : gen <= pll_gen => gen # pll_gen' /\ gen <= pll_gen'
    BY <2>1
  <2> QED BY <1>6, <2>2
<1>8. SpeculationSound'
  BY <1>2, <1>5, <1>6, <1>7 DEF IInv, SpeculationSound, Issued, JobSound, ResultSound
<1> QED BY <1>4, <1>8 DEF IInv

\* The helper turns a sound job into a sound result (HelperStep).
LEMMA HelperStepIInv == IInv /\ HelperStep => IInv'
<1> SUFFICES ASSUME IInv, HelperStep PROVE IInv'
  OBVIOUS
<1> DEFINE job    == Head(jobs)
           at     == <<job.state, job.input>>
           result == [token |-> job.token, gen |-> job.gen,
                      state |-> PllState[at], out |-> PllOut[at]]
<1>1. /\ jobs # << >> /\ jobs' = Tail(jobs) /\ done' = Append(done, result)
      /\ UNCHANGED <<efm_pll, pll_gen, next_token, pll_token, helper,
                     field, pass, lastvalidfield, towrite, written>>
  BY DEF HelperStep
<1>2. job = jobs[1] /\ 1 \in 1 .. Len(jobs) /\ job \in Jobs
  BY <1>1, HeadAndTail DEF IInv, TypeOK
<1>3. at \in States \X Inputs
  BY <1>2 DEF Jobs
<1>4. /\ result \in Results
      /\ result.token = job.token /\ result.gen = job.gen
      /\ result.state = PllState[at] /\ result.out = PllOut[at]
  BY <1>2, <1>3, PllAssumption DEF Jobs, Results
<1>5. TypeOK'
  <2>1. jobs' \in Seq(Jobs)
    BY <1>1, HeadAndTail DEF IInv, TypeOK
  <2>2. done' \in Seq(Results)
    <3> HIDE DEF result
    <3> QED BY <1>1, <1>4, Appended DEF IInv, TypeOK
  <2> QED BY <1>1, <2>1, <2>2 DEF IInv, TypeOK
<1>6. Holders' = Holders
  BY <1>1 DEF Holders
<1>7. \A k \in 1 .. Len(jobs') : \E m \in 1 .. Len(jobs) : jobs'[k] = jobs[m]
  BY <1>1, HeadAndTail DEF IInv, TypeOK
<1>8. \A k \in 1 .. Len(done') :
          \/ k \in 1 .. Len(done) /\ done'[k] = done[k]
          \/ done'[k] = result
  <2> HIDE DEF result
  <2>1. done \in Seq(Results) /\ result \in Results
    BY <1>4 DEF IInv, TypeOK
  <2> QED BY <1>1, <2>1, Appended
<1>9. \A h \in Holders : ResultSound(result, h)
  <2> SUFFICES ASSUME NEW h \in Holders, job.token = h.token, job.gen = pll_gen
               PROVE  ResultSound(result, h)
    BY <1>4 DEF ResultSound
  <2>1. JobSound(job, h)
    BY <1>2 DEF IInv, SpeculationSound
  <2>2. at = <<efm_pll, h.efm_raw>>
    BY <2>1 DEF JobSound
  <2> QED BY <1>4, <2>2 DEF ResultSound
<1>10. Issued'
  <2>1. result.token <= next_token /\ result.gen <= pll_gen
    BY <1>2, <1>4 DEF IInv, SpeculationSound, Issued
  <2> HIDE DEF result
  <2> QED BY <1>1, <1>6, <1>7, <1>8, <2>1 DEF IInv, SpeculationSound, Issued
<1>11. ASSUME NEW h \in Holders'
       PROVE  /\ \A k \in 1 .. Len(jobs') : JobSound(jobs[k], h)'
              /\ \A k \in 1 .. Len(done') : ResultSound(done[k], h)'
  <2> HIDE DEF result
  <2>1. \A k \in 1 .. Len(jobs') : JobSound(jobs[k], h)'
    BY <1>1, <1>6, <1>7 DEF IInv, SpeculationSound, JobSound
  <2>2. \A k \in 1 .. Len(done') : ResultSound(done[k], h)'
    BY <1>1, <1>6, <1>8, <1>9 DEF IInv, SpeculationSound, ResultSound
  <2> QED BY <2>1, <2>2
<1> QED BY <1>5, <1>10, <1>11 DEF IInv, SpeculationSound

\* A dead helper leaves its results behind (HelperDies).
LEMMA HelperDiesIInv == IInv /\ HelperDies => IInv'
<1> SUFFICES ASSUME IInv, HelperDies PROVE IInv'
  OBVIOUS
<1>1. TypeOK'
  BY DEF IInv, TypeOK, HelperDies
<1>2. Holders' = Holders
  BY DEF HelperDies, Holders
<1>3. SpeculationSound'
  BY <1>2 DEF IInv, SpeculationSound, Issued, JobSound, ResultSound, HelperDies
<1> QED BY <1>1, <1>3 DEF IInv

\* The invariant is kept by every step and by stuttering.
LEMMA NextIInv == IInv /\ [Next]_vars => IInv'
<1> SUFFICES ASSUME IInv, [Next]_vars PROVE IInv'
  OBVIOUS
<1>1. CASE UNCHANGED vars
  <2>1. TypeOK'
    BY <1>1 DEF IInv, TypeOK, vars
  <2>2. Holders' = Holders
    BY <1>1 DEF Holders, vars
  <2> QED BY <1>1, <2>1, <2>2, FewerHolders DEF IInv, vars
<1> QED BY <1>1, PassNoEfmIInv, PassIInv, AbandonIInv, ClaimIInv, WriteIInv,
           HelperStepIInv, HelperDiesIInv DEF Next

\* The speculation is sound in every reachable state, whatever the machine and
\* the schedule of the helper.
THEOREM SpeculationInvariant == Spec => [](TypeOK /\ SpeculationSound)
<1>1. Init => IInv
  BY InitIInv
<1>2. IInv /\ [Next]_vars => IInv'
  BY NextIInv
<1> QED BY <1>1, <1>2, PTL DEF Spec, IInv

-----------------------------------------------------------------------------

\* The next field written is one the invariant speaks of.
LEMMA HeadIsHolder ==
  ASSUME TypeOK, towrite # << >>
  PROVE  Head(towrite) \in Holders /\ Head(towrite).efm_raw \in Inputs
<1>1. Head(towrite) = towrite[1] /\ 1 \in 1 .. Len(towrite) /\ Head(towrite) \in Fields
  BY HeadAndTail DEF TypeOK
<1> QED BY <1>1 DEF Holders, Fields

\* Either way of writing a field is the serial writeout of its slice.
LEMMA WriteIsSerial ==
  ASSUME IInv, WriteSpeculated \/ WriteInline
  PROVE  Serial!Next
<1> DEFINE wf == Head(towrite)
<1>1. wf \in Holders /\ wf.efm_raw \in Inputs
  BY HeadIsHolder DEF IInv, WriteSpeculated, WriteInline
<1>2. CASE WriteSpeculated
  <2>1. PICK k \in 1 .. Len(done) :
            /\ Hit(k, wf)
            /\ efm_pll' = done[k].state
            /\ written' = Written(wf, done[k].out)
    BY <1>2 DEF WriteSpeculated
  <2>2. /\ done[k].state = PllState[<<efm_pll, wf.efm_raw>>]
        /\ done[k].out = PllOut[<<efm_pll, wf.efm_raw>>]
    BY <1>1, <2>1 DEF IInv, SpeculationSound, ResultSound, Hit, Matches
  <2>3. Serial!Writeout(wf.efm_raw)
    BY <2>1, <2>2 DEF Serial!Writeout, Written
  <2> QED BY <1>1, <2>3 DEF Serial!Next
<1>3. CASE WriteInline
  <2>1. Serial!Writeout(wf.efm_raw)
    BY <1>3 DEF WriteInline, Serial!Writeout, Written
  <2> QED BY <1>1, <2>1 DEF Serial!Next
<1> QED BY <1>2, <1>3

\* Every step of the speculative PLL is a serial writeout or changes nothing
\* that the serial one knows of.
LEMMA StepIsSerial == IInv /\ [Next]_vars => [Serial!Next]_Serial!serialVars
<1> SUFFICES ASSUME IInv, [Next]_vars, ~(WriteSpeculated \/ WriteInline)
             PROVE  UNCHANGED Serial!serialVars
  BY WriteIsSerial
<1> QED BY DEF Next, vars, Pass, Submit, Abandon, Claim, HelperStep, HelperDies, Serial!serialVars

\* Speculation changes no byte of the output: the speculative PLL implements
\* the serial one.
THEOREM SpeculativeIsSerial == Spec => ImplementsSerial
<1>1. Init => Serial!Init
  BY DEF Init, Serial!Init
<1>2. IInv /\ [Next]_vars => [Serial!Next]_Serial!serialVars
  BY StepIsSerial
<1>3. Spec => []IInv
  BY InitIInv, NextIInv, PTL DEF Spec
<1> QED BY <1>1, <1>2, <1>3, PTL DEF Spec, ImplementsSerial, Serial!SerialSpec

-----------------------------------------------------------------------------
(* The GPU demodulator: what the calls of a batch need and leave.          *)

Single == {"mtfpow", "starts"}
Blocked == Sized \ {"down"}
Parts == {"down.out", "down.bins"}
PartOf(arg) == IF arg = "out" THEN "down.out" ELSE "down.bins"

\* An enqueued command reads and writes what its kernel does.
KernelFormed(call) ==
    /\ Len(call.reads) \in Nat /\ DOMAIN call.reads = 1..Len(call.reads)
    /\ Len(call.writes) \in Nat /\ DOMAIN call.writes = 1..Len(call.writes)
    /\ call.kernel \in {"upload", "download", "load_u16", "load_real", "fft_pass",
           "rf_products", "gather_bins", "discriminate", "video_products", "extract"}
    /\ Range(call.reads) \subseteq Buffers
    /\ Range(call.writes) \subseteq Sized \ {"up"}
    /\ call.kernel = "download" =>
           /\ call.arg \in {"out", "bins"}
           /\ Len(call.reads) = 2 /\ call.reads[1] = call.arg /\ call.reads[2] = "down"
           /\ Len(call.writes) = 1 /\ call.writes[1] = "down"
    /\ call.kernel # "download" => "down" \notin Range(call.reads) \cup Range(call.writes)
    /\ call.kernel \in {"upload", "load_u16", "load_real", "fft_pass", "rf_products",
                        "gather_bins", "discriminate", "video_products"} =>
           Len(call.reads) >= 1 /\ call.reads[1] \in Blocked
    /\ call.kernel = "upload" => Len(call.writes) = 1
    /\ call.kernel = "rf_products" => Len(call.reads) = 2 /\ call.reads[2] = "mtfpow"
    /\ call.kernel = "gather_bins" => Len(call.reads) = 2 /\ call.reads[2] = "starts"
    /\ call.kernel = "extract" =>
           Len(call.reads) = 6 /\ \A i \in 1..6 : call.reads[i] \in Blocked

Formed(call, job) ==
    \/ /\ call.op = "ensure" /\ Range(call.names) \subseteq Sized
       /\ \A name \in Range(call.names) : call.units = job.size[name]
    \/ call.op = "stage" /\ DOMAIN call.data = 0..job.nb - 1
    \/ /\ call.op = "write" /\ call.name \in Single
       /\ call.name = "mtfpow" => call.value = job.level
    \/ call.op = "enqueue" /\ KernelFormed(call)
    \/ call.op = "finish"

\* What has to be in memory before a call, and what is there behind it.
NeedsOf(call) ==
    CASE call.op = "enqueue" -> IF call.kernel = "download" THEN {call.arg} ELSE Range(call.reads)
      [] call.op = "finish" -> Parts
      [] OTHER -> {}

GivesOf(call) ==
    CASE call.op = "stage" -> {"up"}
      [] call.op = "write" -> {call.name}
      [] call.op = "enqueue" ->
            IF call.kernel = "download" THEN {PartOf(call.arg)} ELSE Range(call.writes)
      [] OTHER -> {}

\* What it works on, and what must not have been worked on before it.
TouchesOf(call) ==
    CASE call.op = "stage" -> {"up"}
      [] call.op = "write" -> {"device"}
      [] call.op = "enqueue" -> Used(call) \cup {"device"}
      [] call.op = "finish" -> {"finish"}
      [] OTHER -> {}

ForbidsOf(call) ==
    {"finish"} \cup CASE call.op = "ensure" -> Range(call.names)
                      [] call.op = "stage" -> {"device"}
                      [] OTHER -> {}

\* The buffers it makes large enough, and those it takes to be.
EnsuresOf(call) == IF call.op = "ensure" THEN Range(call.names) ELSE {}
UsesOf(call) == IF call.op = "enqueue" THEN Used(call) \ Single ELSE {}

Given(s, k) == UNION {GivesOf(s[j]) : j \in 1..k}
Touched(s, k) == UNION {TouchesOf(s[j]) : j \in 1..k}
Ensured(s, k) == UNION {EnsuresOf(s[j]) : j \in 1..k}

InOrder(s, job, i, given, touched, ensured) ==
    /\ Formed(s[i], job)
    /\ NeedsOf(s[i]) \subseteq given \cup Given(s, i - 1)
    /\ ForbidsOf(s[i]) \cap (touched \cup Touched(s, i - 1)) = {}
    /\ UsesOf(s[i]) \subseteq ensured \cup Ensured(s, i - 1)

Sound(s, job, given, touched, ensured) ==
    /\ \E S : s \in Seq(S)
    /\ \A i \in 1..Len(s) : InOrder(s, job, i, given, touched, ensured)

\* The calls of a part of a batch before those of another.
LEMMA JoinedTotals ==
  ASSUME NEW S, NEW s \in Seq(S), NEW t \in Seq(S)
  PROVE  /\ s \o t \in Seq(S) /\ Len(s \o t) = Len(s) + Len(t)
         /\ \A k \in 0..Len(s) : /\ Given(s \o t, k) = Given(s, k)
                                 /\ Touched(s \o t, k) = Touched(s, k)
                                 /\ Ensured(s \o t, k) = Ensured(s, k)
         /\ \A k \in 0..Len(t) :
               /\ Given(s \o t, Len(s) + k) = Given(s, Len(s)) \cup Given(t, k)
               /\ Touched(s \o t, Len(s) + k) = Touched(s, Len(s)) \cup Touched(t, k)
               /\ Ensured(s \o t, Len(s) + k) = Ensured(s, Len(s)) \cup Ensured(t, k)
<1> DEFINE u == s \o t
<1>1. /\ u \in Seq(S) /\ Len(u) = Len(s) + Len(t)
      /\ \A j \in 1..Len(s) : u[j] = s[j]
      /\ \A j \in 1..Len(t) : u[Len(s) + j] = t[j]
  OBVIOUS
<1>0. Len(s) \in Nat /\ Len(t) \in Nat
  OBVIOUS
<1> HIDE DEF u
<1>2. ASSUME NEW k \in 0..Len(s)
      PROVE /\ Given(u, k) = Given(s, k) /\ Touched(u, k) = Touched(s, k)
            /\ Ensured(u, k) = Ensured(s, k)
  <2>1. \A j \in 1..k : u[j] = s[j]
    BY <1>0, <1>1
  <2> QED BY <2>1 DEF Given, Touched, Ensured
<1>3. ASSUME NEW k \in 0..Len(t)
      PROVE /\ Given(u, Len(s) + k) = Given(s, Len(s)) \cup Given(t, k)
            /\ Touched(u, Len(s) + k) = Touched(s, Len(s)) \cup Touched(t, k)
            /\ Ensured(u, Len(s) + k) = Ensured(s, Len(s)) \cup Ensured(t, k)
  <2>1. \A j \in 1..Len(s) : j \in 1..Len(s) + k /\ u[j] = s[j]
    BY <1>0, <1>1
  <2>2. \A j \in 1..k : Len(s) + j \in 1..Len(s) + k /\ u[Len(s) + j] = t[j]
    BY <1>0, <1>1
  <2>3. \A j \in 1..Len(s) + k : j \in 1..Len(s) \/ \E i \in 1..k : j = Len(s) + i
    <3> SUFFICES ASSUME NEW j \in 1..Len(s) + k, j \notin 1..Len(s)
                 PROVE  \E i \in 1..k : j = Len(s) + i
      OBVIOUS
    <3>1. j - Len(s) \in 1..k /\ j = Len(s) + (j - Len(s))
      BY <1>0
    <3> QED BY <3>1
  <2>4. Given(u, Len(s) + k) = Given(s, Len(s)) \cup Given(t, k)
    <3>1. ASSUME NEW x \in Given(u, Len(s) + k)
          PROVE  x \in Given(s, Len(s)) \cup Given(t, k)
      <4>1. PICK j \in 1..Len(s) + k : x \in GivesOf(u[j])
        BY <3>1 DEF Given
      <4>2. CASE j \in 1..Len(s)
        BY <4>1, <4>2, <2>1 DEF Given
      <4>3. CASE \E i \in 1..k : j = Len(s) + i
        BY <4>1, <4>3, <2>2 DEF Given
      <4> QED BY <4>2, <4>3, <2>3
    <3>2. \A x \in Given(s, Len(s)) : x \in Given(u, Len(s) + k)
      BY <2>1 DEF Given
    <3>3. \A x \in Given(t, k) : x \in Given(u, Len(s) + k)
      BY <2>2 DEF Given
    <3> QED BY <3>1, <3>2, <3>3
  <2>5. Touched(u, Len(s) + k) = Touched(s, Len(s)) \cup Touched(t, k)
    <3>1. ASSUME NEW x \in Touched(u, Len(s) + k)
          PROVE  x \in Touched(s, Len(s)) \cup Touched(t, k)
      <4>1. PICK j \in 1..Len(s) + k : x \in TouchesOf(u[j])
        BY <3>1 DEF Touched
      <4>2. CASE j \in 1..Len(s)
        BY <4>1, <4>2, <2>1 DEF Touched
      <4>3. CASE \E i \in 1..k : j = Len(s) + i
        BY <4>1, <4>3, <2>2 DEF Touched
      <4> QED BY <4>2, <4>3, <2>3
    <3>2. \A x \in Touched(s, Len(s)) : x \in Touched(u, Len(s) + k)
      BY <2>1 DEF Touched
    <3>3. \A x \in Touched(t, k) : x \in Touched(u, Len(s) + k)
      BY <2>2 DEF Touched
    <3> QED BY <3>1, <3>2, <3>3
  <2>6. Ensured(u, Len(s) + k) = Ensured(s, Len(s)) \cup Ensured(t, k)
    <3>1. ASSUME NEW x \in Ensured(u, Len(s) + k)
          PROVE  x \in Ensured(s, Len(s)) \cup Ensured(t, k)
      <4>1. PICK j \in 1..Len(s) + k : x \in EnsuresOf(u[j])
        BY <3>1 DEF Ensured
      <4>2. CASE j \in 1..Len(s)
        BY <4>1, <4>2, <2>1 DEF Ensured
      <4>3. CASE \E i \in 1..k : j = Len(s) + i
        BY <4>1, <4>3, <2>2 DEF Ensured
      <4> QED BY <4>2, <4>3, <2>3
    <3>2. \A x \in Ensured(s, Len(s)) : x \in Ensured(u, Len(s) + k)
      BY <2>1 DEF Ensured
    <3>3. \A x \in Ensured(t, k) : x \in Ensured(u, Len(s) + k)
      BY <2>2 DEF Ensured
    <3> QED BY <3>1, <3>2, <3>3
  <2> QED BY <2>4, <2>5, <2>6
<1> QED BY <1>1, <1>2, <1>3 DEF u

\* A sound part followed by one that is sound behind it.
LEMMA SoundJoined ==
  ASSUME NEW s, NEW t, NEW job, NEW given, NEW touched, NEW ensured,
         Sound(s, job, given, touched, ensured),
         Sound(t, job, given \cup Given(s, Len(s)), touched \cup Touched(s, Len(s)),
               ensured \cup Ensured(s, Len(s)))
  PROVE  /\ Sound(s \o t, job, given, touched, ensured)
         /\ Given(s \o t, Len(s \o t)) = Given(s, Len(s)) \cup Given(t, Len(t))
         /\ Touched(s \o t, Len(s \o t)) = Touched(s, Len(s)) \cup Touched(t, Len(t))
         /\ Ensured(s \o t, Len(s \o t)) = Ensured(s, Len(s)) \cup Ensured(t, Len(t))
<1>1. PICK S1, S2 : s \in Seq(S1) /\ t \in Seq(S2)
  BY DEF Sound
<1> DEFINE S == S1 \cup S2
           u == s \o t
<1>2. s \in Seq(S) /\ t \in Seq(S) /\ Len(s) \in Nat /\ Len(t) \in Nat
  BY <1>1
<1>3. /\ u \in Seq(S) /\ Len(u) = Len(s) + Len(t)
      /\ \A k \in 0..Len(s) : /\ Given(u, k) = Given(s, k)
                              /\ Touched(u, k) = Touched(s, k)
                              /\ Ensured(u, k) = Ensured(s, k)
      /\ \A k \in 0..Len(t) :
            /\ Given(u, Len(s) + k) = Given(s, Len(s)) \cup Given(t, k)
            /\ Touched(u, Len(s) + k) = Touched(s, Len(s)) \cup Touched(t, k)
            /\ Ensured(u, Len(s) + k) = Ensured(s, Len(s)) \cup Ensured(t, k)
  BY <1>2, JoinedTotals
<1>4. /\ \A j \in 1..Len(s) : u[j] = s[j]
      /\ \A j \in 1..Len(t) : u[Len(s) + j] = t[j]
  BY <1>2
<1> HIDE DEF u, S
<1>5. ASSUME NEW i \in 1..Len(u) PROVE InOrder(u, job, i, given, touched, ensured)
  <2>1. CASE i \in 1..Len(s)
    <3>1. i - 1 \in 0..Len(s) /\ u[i] = s[i]
      BY <2>1, <1>2, <1>4
    <3>2. InOrder(s, job, i, given, touched, ensured)
      BY <2>1 DEF Sound
    <3> QED BY <3>1, <3>2, <1>3 DEF InOrder
  <2>2. CASE i \notin 1..Len(s)
    <3> DEFINE j == i - Len(s)
    <3>1. j \in 1..Len(t) /\ j - 1 \in 0..Len(t) /\ i = Len(s) + j /\ i - 1 = Len(s) + (j - 1)
      BY <2>2, <1>2, <1>3
    <3> HIDE DEF j
    <3>2. InOrder(t, job, j, given \cup Given(s, Len(s)), touched \cup Touched(s, Len(s)),
                  ensured \cup Ensured(s, Len(s)))
      BY <3>1 DEF Sound
    <3>3. u[i] = t[j]
      BY <3>1, <1>4
    <3>4. /\ Given(u, i - 1) = Given(s, Len(s)) \cup Given(t, j - 1)
          /\ Touched(u, i - 1) = Touched(s, Len(s)) \cup Touched(t, j - 1)
          /\ Ensured(u, i - 1) = Ensured(s, Len(s)) \cup Ensured(t, j - 1)
      BY <3>1, <1>3
    <3> QED BY <3>2, <3>3, <3>4, Zenon DEF InOrder
  <2> QED BY <2>1, <2>2
<1>6. Len(t) \in 0..Len(t)
  BY <1>2
<1> QED BY <1>3, <1>5, <1>6 DEF Sound, u

\* More may be given and ensured, and less touched.
LEMMA SoundInMore ==
  ASSUME NEW s, NEW job, NEW given, NEW touched, NEW ensured, Sound(s, job, given, touched, ensured),
         NEW given2, NEW touched2, NEW ensured2,
         given \subseteq given2, touched2 \subseteq touched, ensured \subseteq ensured2
  PROVE  Sound(s, job, given2, touched2, ensured2)
<1>1. ASSUME NEW i \in 1..Len(s) PROVE InOrder(s, job, i, given2, touched2, ensured2)
  <2>1. InOrder(s, job, i, given, touched, ensured)
    BY DEF Sound
  <2> QED BY <2>1, Zenon DEF InOrder
<1> QED BY <1>1 DEF Sound

\* No call, and one.
LEMMA SoundNone ==
  ASSUME NEW job, NEW given, NEW touched, NEW ensured
  PROVE  /\ Sound(<<>>, job, given, touched, ensured)
         /\ Given(<<>>, Len(<<>>)) = {} /\ Touched(<<>>, Len(<<>>)) = {}
         /\ Ensured(<<>>, Len(<<>>)) = {}
<1>1. <<>> \in Seq({}) /\ Len(<<>>) = 0
  OBVIOUS
<1>2. 1..0 = {}
  OBVIOUS
<1> QED BY <1>1, <1>2 DEF Sound, Given, Touched, Ensured

\* A single call that is in order.
LEMMA SoundOne ==
  ASSUME NEW c, NEW job, NEW given, NEW touched, NEW ensured,
         Formed(c, job), NeedsOf(c) \subseteq given, ForbidsOf(c) \cap touched = {},
         UsesOf(c) \subseteq ensured
  PROVE  /\ Sound(<<c>>, job, given, touched, ensured)
         /\ Given(<<c>>, Len(<<c>>)) = GivesOf(c)
         /\ Touched(<<c>>, Len(<<c>>)) = TouchesOf(c)
         /\ Ensured(<<c>>, Len(<<c>>)) = EnsuresOf(c)
<1> DEFINE s == <<c>>
<1>1. s \in Seq({c}) /\ Len(s) = 1 /\ s[1] = c
  OBVIOUS
<1>2. 1..0 = {} /\ 1..1 = {1}
  OBVIOUS
<1> HIDE DEF s
<1>3. /\ Given(s, 1) = GivesOf(c) /\ Touched(s, 1) = TouchesOf(c) /\ Ensured(s, 1) = EnsuresOf(c)
      /\ Given(s, 0) = {} /\ Touched(s, 0) = {} /\ Ensured(s, 0) = {}
  BY <1>1, <1>2 DEF Given, Touched, Ensured
<1>4. \A i \in 1..1 : InOrder(s, job, i, given, touched, ensured)
  BY <1>1, <1>3 DEF InOrder
<1> QED BY <1>1, <1>3, <1>4 DEF Sound, s

\* What holds before a part of a batch and behind it.
Before(g, t, e) == [given |-> g, touched |-> t, ensured |-> e]

Leads(s, job, A, B) ==
    /\ Sound(s, job, A.given, A.touched, A.ensured)
    /\ B.given \subseteq A.given \cup Given(s, Len(s))
    /\ A.touched \cup Touched(s, Len(s)) \subseteq B.touched
    /\ B.ensured \subseteq A.ensured \cup Ensured(s, Len(s))

\* One part behind the other.
LEMMA LeadsJoined ==
  ASSUME NEW s, NEW t, NEW job, NEW A, NEW B, NEW C,
         Leads(s, job, A, B), Leads(t, job, B, C)
  PROVE  Leads(s \o t, job, A, C)
<1>1. Sound(s, job, A.given, A.touched, A.ensured)
  BY DEF Leads
<1>2. Sound(t, job, A.given \cup Given(s, Len(s)), A.touched \cup Touched(s, Len(s)),
            A.ensured \cup Ensured(s, Len(s)))
  <2>1. Sound(t, job, B.given, B.touched, B.ensured)
    BY DEF Leads
  <2>2. /\ B.given \subseteq A.given \cup Given(s, Len(s))
        /\ A.touched \cup Touched(s, Len(s)) \subseteq B.touched
        /\ B.ensured \subseteq A.ensured \cup Ensured(s, Len(s))
    BY DEF Leads
  <2> QED BY <2>1, <2>2, SoundInMore
<1>3. /\ Sound(s \o t, job, A.given, A.touched, A.ensured)
      /\ Given(s \o t, Len(s \o t)) = Given(s, Len(s)) \cup Given(t, Len(t))
      /\ Touched(s \o t, Len(s \o t)) = Touched(s, Len(s)) \cup Touched(t, Len(t))
      /\ Ensured(s \o t, Len(s \o t)) = Ensured(s, Len(s)) \cup Ensured(t, Len(t))
  BY <1>1, <1>2, SoundJoined
<1>4. /\ B.given \subseteq A.given \cup Given(s, Len(s))
      /\ A.touched \cup Touched(s, Len(s)) \subseteq B.touched
      /\ B.ensured \subseteq A.ensured \cup Ensured(s, Len(s))
      /\ C.given \subseteq B.given \cup Given(t, Len(t))
      /\ B.touched \cup Touched(t, Len(t)) \subseteq C.touched
      /\ C.ensured \subseteq B.ensured \cup Ensured(t, Len(t))
  BY DEF Leads
<1>5. /\ C.given \subseteq A.given \cup Given(s \o t, Len(s \o t))
      /\ A.touched \cup Touched(s \o t, Len(s \o t)) \subseteq C.touched
      /\ C.ensured \subseteq A.ensured \cup Ensured(s \o t, Len(s \o t))
  BY <1>3, <1>4
<1> QED BY <1>3, <1>5 DEF Leads

\* No call, and one.
LEMMA LeadsNone == ASSUME NEW job, NEW A PROVE Leads(<<>>, job, A, A)
BY SoundNone DEF Leads

\* A single call that leads from a state of the totals to another.
LEMMA LeadsOne ==
  ASSUME NEW c, NEW job, NEW A, NEW B,
         Formed(c, job), NeedsOf(c) \subseteq A.given, ForbidsOf(c) \cap A.touched = {},
         UsesOf(c) \subseteq A.ensured,
         B.given \subseteq A.given \cup GivesOf(c), A.touched \cup TouchesOf(c) \subseteq B.touched,
         B.ensured \subseteq A.ensured \cup EnsuresOf(c)
  PROVE  Leads(<<c>>, job, A, B)
<1>1. /\ Sound(<<c>>, job, A.given, A.touched, A.ensured)
      /\ Given(<<c>>, Len(<<c>>)) = GivesOf(c)
      /\ Touched(<<c>>, Len(<<c>>)) = TouchesOf(c)
      /\ Ensured(<<c>>, Len(<<c>>)) = EnsuresOf(c)
  BY SoundOne
<1> QED BY <1>1 DEF Leads

\* A tuple, call by call.
LEMMA TupleSplit ==
  ASSUME NEW a, NEW b, NEW c, NEW d, NEW e, NEW f
  PROVE  /\ <<a, b>> = <<a>> \o <<b>>
         /\ <<a, b, c>> = <<a>> \o <<b, c>>
         /\ <<a, b, c, d>> = <<a>> \o <<b, c, d>>
         /\ <<a, b, c, d, e>> = <<a>> \o <<b, c, d, e>>
         /\ <<a, b, c, d, e, f>> = <<a>> \o <<b, c, d, e, f>>
<1>1. <<a, b>> = <<a>> \o <<b>>
  <2>1. /\ <<a, b>> \in Seq({a, b}) /\ <<a>> \in Seq({a, b}) /\ <<b>> \in Seq({a, b})
        /\ Len(<<a>>) = 1 /\ Len(<<b>>) = 1 /\ Len(<<a, b>>) = 2
    OBVIOUS
  <2>2. Len(<<a>> \o <<b>>) = 2 /\ <<a>> \o <<b>> \in Seq({a, b})
    BY <2>1
  <2>3. (<<a>> \o <<b>>)[1] = a /\ (<<a>> \o <<b>>)[2] = b
    BY <2>1
  <2>4. \A i \in 1..2 : (<<a>> \o <<b>>)[i] = <<a, b>>[i]
    BY <2>3
  <2> QED BY <2>1, <2>2, <2>4, SeqEqual
<1>2. <<a, b, c>> = <<a>> \o <<b, c>>
  OBVIOUS
<1>3. <<a, b, c, d>> = <<a>> \o <<b, c, d>>
  OBVIOUS
<1>4. <<a, b, c, d, e>> = <<a>> \o <<b, c, d, e>>
  OBVIOUS
<1>5. <<a, b, c, d, e, f>> = <<a>> \o <<b, c, d, e, f>>
  OBVIOUS
<1> QED BY <1>1, <1>2, <1>3, <1>4, <1>5

\* A call before others, written as one tuple.
LEMMA LeadsTuple ==
  ASSUME NEW a, NEW b, NEW c, NEW d, NEW e, NEW f, NEW job, NEW A, NEW B, NEW C,
         Leads(<<a>>, job, A, B)
  PROVE  /\ Leads(<<b>>, job, B, C) => Leads(<<a, b>>, job, A, C)
         /\ Leads(<<b, c>>, job, B, C) => Leads(<<a, b, c>>, job, A, C)
         /\ Leads(<<b, c, d>>, job, B, C) => Leads(<<a, b, c, d>>, job, A, C)
         /\ Leads(<<b, c, d, e>>, job, B, C) => Leads(<<a, b, c, d, e>>, job, A, C)
         /\ Leads(<<b, c, d, e, f>>, job, B, C) => Leads(<<a, b, c, d, e, f>>, job, A, C)
<1>1. ASSUME NEW t, NEW u, Leads(t, job, B, C), u = <<a>> \o t PROVE Leads(u, job, A, C)
  BY <1>1, LeadsJoined
<1>2. Leads(<<b>>, job, B, C) => Leads(<<a, b>>, job, A, C)
  BY <1>1, TupleSplit, Zenon
<1>3. Leads(<<b, c>>, job, B, C) => Leads(<<a, b, c>>, job, A, C)
  <2>1. <<a, b, c>> = <<a>> \o <<b, c>>
    BY TupleSplit
  <2> QED BY <1>1, <2>1, Zenon
<1>4. Leads(<<b, c, d>>, job, B, C) => Leads(<<a, b, c, d>>, job, A, C)
  <2>1. <<a, b, c, d>> = <<a>> \o <<b, c, d>>
    BY TupleSplit
  <2> QED BY <1>1, <2>1, Zenon
<1>5. Leads(<<b, c, d, e>>, job, B, C) => Leads(<<a, b, c, d, e>>, job, A, C)
  <2>1. <<a, b, c, d, e>> = <<a>> \o <<b, c, d, e>>
    BY TupleSplit
  <2> QED BY <1>1, <2>1, Zenon
<1>6. Leads(<<b, c, d, e, f>>, job, B, C) => Leads(<<a, b, c, d, e, f>>, job, A, C)
  <2>1. <<a, b, c, d, e, f>> = <<a>> \o <<b, c, d, e, f>>
    BY TupleSplit
  <2> QED BY <1>1, <2>1, Zenon
<1> QED BY <1>2, <1>3, <1>4, <1>5, <1>6

\* The rows, and the roles they move through.
LEMMA RowNames ==
  /\ Row(0) = "r0" /\ Row(1) = "r1" /\ Row(2) = "r2"
  /\ Row(3) = "r3" /\ Row(4) = "r4" /\ Row(5) = "r5"
  /\ Rows = {"r0", "r1", "r2", "r3", "r4", "r5"}
  /\ \A i \in 0..5 : Row(i) \in Rows
<1>1. /\ Row(0) = "r0" /\ Row(1) = "r1" /\ Row(2) = "r2"
      /\ Row(3) = "r3" /\ Row(4) = "r4" /\ Row(5) = "r5"
  BY DEF Row
<1>2. 0..5 = {0, 1, 2, 3, 4, 5}
  OBVIOUS
<1>3. \A i \in 0..5 : Row(i) \in Rows
  BY DEF Rows
<1>4. Rows = {"r0", "r1", "r2", "r3", "r4", "r5"}
  <2>1. Rows \subseteq {"r0", "r1", "r2", "r3", "r4", "r5"}
    BY <1>1, <1>2 DEF Rows
  <2>2. {"r0", "r1", "r2", "r3", "r4", "r5"} \subseteq Rows
    BY <1>1, <1>2 DEF Rows
  <2> QED BY <2>1, <2>2
<1> QED BY <1>1, <1>3, <1>4

\* The two free rows are two rows, none of the four.
LEMMA FreeRowsAre ==
  FreeRows(2, 3, 1, 4) = <<0, 5>> /\ FreeRows(3, 4, 0, 2) = <<1, 5>>
<1>1. ASSUME NEW a \in Nat, NEW b \in Nat, a < b
      PROVE  Min({a, b}) = a /\ Min({a, b} \ {a}) = b
  <2>1. {a, b} \ {a} = {b}
    BY <1>1
  <2>2. Min({b}) = b
    BY DEF Min
  <2>3. Min({a, b}) = a
    BY <1>1 DEF Min
  <2> QED BY <2>1, <2>2, <2>3, Zenon
<1>2. Min({0, 5}) = 0 /\ Min({0, 5} \ {0}) = 5 /\ Min({1, 5}) = 1 /\ Min({1, 5} \ {1}) = 5
  BY <1>1
<1>3. (0..5) \ {2, 3, 1, 4} = {0, 5} /\ (0..5) \ {3, 4, 0, 2} = {1, 5}
  OBVIOUS
<1> QED BY <1>2, <1>3, Zenon DEF FreeRows

\* How many passes a transform has.
LEMMA PassCount ==
  ASSUME NEW n \in PowersOf8
  PROVE  Passes(n) \in 1..5 /\ (Passes(n) % 2 = 1 \/ Passes(n) % 2 = 0)
BY DEF Passes, PowersOf8

\* The row plan of `batch`: the six rows of every step are what it says, for an
\* odd and for an even number of passes.
LEMMA RowPlanIs ==
  ASSUME NEW n \in PowersOf8
  PROVE  RowPlan(n) =
           IF Passes(n) % 2 = 1
           THEN [x |-> 1, h |-> 1, spare |-> 2, e |-> 2, spare2 |-> 3, r |-> 3, d |-> 4, y |-> 1,
                 vrows |-> <<4, 0, 5>>, tmps |-> <<1, 4, 0>>, v_out |-> <<1, 4, 0>>]
           ELSE [x |-> 0, h |-> 2, spare |-> 0, e |-> 3, spare2 |-> 0, r |-> 4, d |-> 0, y |-> 0,
                 vrows |-> <<2, 1, 5>>, tmps |-> <<0, 0, 0>>, v_out |-> <<2, 1, 5>>]
<1> DEFINE x      == EndsIn(n, 0, 1)
           h      == EndsIn(n, 2, x)
           spare  == IF h = 2 THEN x ELSE 2
           e      == EndsIn(n, 3, spare)
           spare2 == IF e = 3 THEN spare ELSE 3
           r      == EndsIn(n, 4, spare2)
           spare3 == IF r = 4 THEN spare2 ELSE 4
           y      == EndsIn(n, spare3, h)
           other  == IF y = spare3 THEN h ELSE spare3
           free   == FreeRows(e, r, y, other)
           vrows  == <<other, free[1], free[2]>>
           v1     == EndsIn(n, vrows[1], y)
           tmp2   == IF v1 = vrows[1] THEN y ELSE vrows[1]
           v2     == EndsIn(n, vrows[2], tmp2)
           tmp3   == IF v2 = vrows[2] THEN tmp2 ELSE vrows[2]
<1>1. RowPlan(n) = [x |-> x, h |-> h, spare |-> spare, e |-> e, spare2 |-> spare2, r |-> r,
         d |-> spare3, y |-> y, vrows |-> vrows, tmps |-> <<y, tmp2, tmp3>>,
         v_out |-> <<v1, v2, EndsIn(n, vrows[3], tmp3)>>]
  BY DEF RowPlan
<1> HIDE DEF x, h, spare, e, spare2, r, spare3, y, other, free, vrows, v1, tmp2, v2, tmp3
<1>2. CASE Passes(n) % 2 = 1
  <2>1. \A src, tmp : EndsIn(n, src, tmp) = tmp
    BY <1>2 DEF EndsIn
  <2>2. x = 1 /\ h = 1
    BY <2>1 DEF x, h
  <2>3. spare = 2 /\ e = 2
    BY <2>1, <2>2 DEF spare, e
  <2>4. spare2 = 3 /\ r = 3
    BY <2>1, <2>3 DEF spare2, r
  <2>5. spare3 = 4 /\ y = 1 /\ other = 4
    BY <2>1, <2>2, <2>4 DEF spare3, y, other
  <2>6. free = <<0, 5>>
    BY FreeRowsAre, <2>3, <2>4, <2>5, Zenon DEF free
  <2>7. vrows = <<4, 0, 5>>
    BY <2>6, <2>5 DEF vrows
  <2>8. vrows[1] = 4 /\ vrows[2] = 0 /\ vrows[3] = 5
    BY <2>7
  <2>9. v1 = 1 /\ tmp2 = 4 /\ v2 = 4 /\ tmp3 = 0
    BY <2>1, <2>8, <2>5 DEF v1, tmp2, v2, tmp3
  <2> QED BY <1>1, <1>2, <2>1, <2>2, <2>3, <2>4, <2>5, <2>7, <2>8, <2>9
<1>3. CASE Passes(n) % 2 # 1
  <2>1. \A src, tmp : EndsIn(n, src, tmp) = src
    BY <1>3 DEF EndsIn
  <2>2. x = 0 /\ h = 2
    BY <2>1 DEF x, h
  <2>3. spare = 0 /\ e = 3
    BY <2>1, <2>2 DEF spare, e
  <2>4. spare2 = 0 /\ r = 4
    BY <2>1, <2>3 DEF spare2, r
  <2>5. spare3 = 0 /\ y = 0 /\ other = 2
    BY <2>1, <2>2, <2>4 DEF spare3, y, other
  <2>6. free = <<1, 5>>
    BY FreeRowsAre, <2>3, <2>4, <2>5, Zenon DEF free
  <2>7. vrows = <<2, 1, 5>>
    BY <2>6, <2>5 DEF vrows
  <2>8. vrows[1] = 2 /\ vrows[2] = 1 /\ vrows[3] = 5
    BY <2>7
  <2>9. v1 = 2 /\ tmp2 = 0 /\ v2 = 1 /\ tmp3 = 0
    BY <2>1, <2>8, <2>5 DEF v1, tmp2, v2, tmp3
  <2> QED BY <1>1, <1>3, <2>1, <2>2, <2>3, <2>4, <2>5, <2>7, <2>8, <2>9
<1> QED BY <1>2, <1>3

\* Each transform of the plan ends in its row.
LEMMA PlanEnds ==
  ASSUME NEW n \in PowersOf8, NEW w, w = RowPlan(n)
  PROVE  /\ w.x \in 0..5 /\ w.h \in 0..5 /\ w.spare \in 0..5 /\ w.e \in 0..5 /\ w.spare2 \in 0..5
         /\ w.r \in 0..5 /\ w.d \in 0..5 /\ w.y \in 0..5
         /\ \A i \in 1..3 : w.vrows[i] \in 0..5 /\ w.tmps[i] \in 0..5 /\ w.v_out[i] \in 0..5
         /\ w.x = EndsIn(n, 0, 1) /\ w.h = EndsIn(n, 2, w.x) /\ w.e = EndsIn(n, 3, w.spare)
         /\ w.r = EndsIn(n, 4, w.spare2) /\ w.y = EndsIn(n, w.d, w.h)
         /\ \A i \in 1..3 : w.v_out[i] = EndsIn(n, w.vrows[i], w.tmps[i])
<1>1. CASE Passes(n) % 2 = 1
  <2>1. \A src, tmp : EndsIn(n, src, tmp) = tmp
    BY <1>1 DEF EndsIn
  <2>2. /\ w.x = 1 /\ w.h = 1 /\ w.spare = 2 /\ w.e = 2 /\ w.spare2 = 3 /\ w.r = 3 /\ w.d = 4
        /\ w.y = 1 /\ w.vrows = <<4, 0, 5>> /\ w.tmps = <<1, 4, 0>> /\ w.v_out = <<1, 4, 0>>
    BY <1>1, RowPlanIs
  <2>3. \A i \in 1..3 : /\ w.vrows[i] \in 0..5 /\ w.tmps[i] \in 0..5 /\ w.v_out[i] \in 0..5
                         /\ w.v_out[i] = w.tmps[i]
    BY <2>2
  <2> QED BY <2>1, <2>2, <2>3
<1>2. CASE Passes(n) % 2 # 1
  <2>1. \A src, tmp : EndsIn(n, src, tmp) = src
    BY <1>2 DEF EndsIn
  <2>2. /\ w.x = 0 /\ w.h = 2 /\ w.spare = 0 /\ w.e = 3 /\ w.spare2 = 0 /\ w.r = 4 /\ w.d = 0
        /\ w.y = 0 /\ w.vrows = <<2, 1, 5>> /\ w.tmps = <<0, 0, 0>> /\ w.v_out = <<2, 1, 5>>
    BY <1>2, RowPlanIs
  <2>3. \A i \in 1..3 : /\ w.vrows[i] \in 0..5 /\ w.tmps[i] \in 0..5 /\ w.v_out[i] \in 0..5
                         /\ w.v_out[i] = w.vrows[i]
    BY <2>2
  <2> QED BY <2>1, <2>2, <2>3
<1> QED BY <1>1, <1>2

\* A command that is no download, and one that is.
LEMMA EnqueueLeads ==
  ASSUME NEW kernel, NEW reads, NEW writes, NEW arg, NEW job, NEW A, NEW B,
         KernelFormed(Enqueue(kernel, reads, writes, arg)), kernel # "download",
         Range(reads) \subseteq A.given, "finish" \notin A.touched,
         (Range(reads) \cup Range(writes)) \ Single \subseteq A.ensured,
         B.given \subseteq A.given \cup Range(writes),
         A.touched \cup Range(reads) \cup Range(writes) \cup {"device"} \subseteq B.touched,
         B.ensured \subseteq A.ensured
  PROVE  Leads(<<Enqueue(kernel, reads, writes, arg)>>, job, A, B)
<1> DEFINE c == Enqueue(kernel, reads, writes, arg)
<1>1. c.op = "enqueue" /\ c.kernel = kernel /\ c.reads = reads /\ c.writes = writes
  BY DEF Enqueue
<1> HIDE DEF c
<1>2. /\ NeedsOf(c) = Range(reads) /\ GivesOf(c) = Range(writes)
      /\ TouchesOf(c) = Range(reads) \cup Range(writes) \cup {"device"}
      /\ ForbidsOf(c) = {"finish"} /\ UsesOf(c) = (Range(reads) \cup Range(writes)) \ Single
      /\ EnsuresOf(c) = {}
  BY <1>1 DEF NeedsOf, GivesOf, TouchesOf, ForbidsOf, UsesOf, EnsuresOf, Used
<1>3. KernelFormed(c)
  BY DEF c
<1>4. Formed(c, job)
  BY <1>1, <1>3 DEF Formed
<1>5. Leads(<<c>>, job, A, B)
  BY <1>2, <1>4, LeadsOne
<1> QED BY <1>5 DEF c

\* A part of the staging memory is downloaded.
LEMMA DownloadLeads ==
  ASSUME NEW arg \in {"out", "bins"}, NEW job, NEW A, NEW B,
         arg \in A.given, "finish" \notin A.touched, {arg, "down"} \subseteq A.ensured,
         B.given \subseteq A.given \cup {PartOf(arg)},
         A.touched \cup {arg, "down", "device"} \subseteq B.touched, B.ensured \subseteq A.ensured
  PROVE  Leads(<<Enqueue("download", <<arg, "down">>, <<"down">>, arg)>>, job, A, B)
<1> DEFINE c == Enqueue("download", <<arg, "down">>, <<"down">>, arg)
<1>1. /\ c.op = "enqueue" /\ c.kernel = "download" /\ c.arg = arg
      /\ c.reads = <<arg, "down">> /\ c.writes = <<"down">>
  BY DEF Enqueue
<1>2. Range(<<arg, "down">>) = {arg, "down"} /\ Range(<<"down">>) = {"down"}
  BY DEF Range
<1> HIDE DEF c
<1>3. /\ NeedsOf(c) = {arg} /\ GivesOf(c) = {PartOf(arg)}
      /\ TouchesOf(c) = {arg, "down", "device"} /\ ForbidsOf(c) = {"finish"}
      /\ EnsuresOf(c) = {} /\ UsesOf(c) \subseteq {arg, "down"}
  BY <1>1, <1>2 DEF NeedsOf, GivesOf, TouchesOf, ForbidsOf, UsesOf, EnsuresOf, Used
<1>4. KernelFormed(c)
  BY <1>1, <1>2 DEF KernelFormed, Buffers, Sized
<1>5. Formed(c, job)
  BY <1>1, <1>4 DEF Formed
<1>6. Leads(<<c>>, job, A, B)
  BY <1>3, <1>5, LeadsOne
<1> QED BY <1>6 DEF c

\* The other calls.
LEMMA EnsureLeads ==
  ASSUME NEW names, NEW units, NEW job, NEW A, NEW B,
         Range(names) \subseteq Sized, \A name \in Range(names) : units = job.size[name],
         Range(names) \cap A.touched = {}, "finish" \notin A.touched,
         B.given \subseteq A.given, A.touched \subseteq B.touched,
         B.ensured \subseteq A.ensured \cup Range(names)
  PROVE  Leads(<<Ensure(names, units)>>, job, A, B)
<1> DEFINE c == Ensure(names, units)
<1>1. c.op = "ensure" /\ c.names = names /\ c.units = units
  BY DEF Ensure
<1> HIDE DEF c
<1>2. /\ NeedsOf(c) = {} /\ GivesOf(c) = {} /\ TouchesOf(c) = {} /\ UsesOf(c) = {}
      /\ ForbidsOf(c) = {"finish"} \cup Range(names) /\ EnsuresOf(c) = Range(names)
  BY <1>1 DEF NeedsOf, GivesOf, TouchesOf, ForbidsOf, UsesOf, EnsuresOf
<1>3. Formed(c, job)
  BY <1>1 DEF Formed
<1>4. Leads(<<c>>, job, A, B)
  BY <1>2, <1>3, LeadsOne
<1> QED BY <1>4 DEF c

\* The staging memory is filled before the device is touched.
LEMMA StageLeads ==
  ASSUME NEW data, NEW job, NEW A, NEW B, DOMAIN data = 0..job.nb - 1, {"device", "finish"} \cap A.touched = {},
         B.given \subseteq A.given \cup {"up"}, A.touched \cup {"up"} \subseteq B.touched,
         B.ensured \subseteq A.ensured
  PROVE  Leads(<<Stage(data)>>, job, A, B)
<1> DEFINE c == Stage(data)
<1>1. c.op = "stage" /\ c.data = data
  BY DEF Stage
<1> HIDE DEF c
<1>2. /\ NeedsOf(c) = {} /\ GivesOf(c) = {"up"} /\ TouchesOf(c) = {"up"} /\ UsesOf(c) = {}
      /\ ForbidsOf(c) = {"finish"} \cup {"device"} /\ EnsuresOf(c) = {} /\ Formed(c, job)
  BY <1>1 DEF NeedsOf, GivesOf, TouchesOf, ForbidsOf, UsesOf, EnsuresOf, Formed
<1>4. Leads(<<c>>, job, A, B)
  BY <1>2, LeadsOne
<1> QED BY <1>4 DEF c

\* A blocking write gives its buffer.
LEMMA WriteLeads ==
  ASSUME NEW name \in Single, NEW value, NEW job, name = "mtfpow" => value = job.level, NEW A, NEW B, "finish" \notin A.touched,
         B.given \subseteq A.given \cup {name}, A.touched \cup {"device"} \subseteq B.touched,
         B.ensured \subseteq A.ensured
  PROVE  Leads(<<Write(name, value)>>, job, A, B)
<1> DEFINE c == Write(name, value)
<1>1. c.op = "write" /\ c.name = name /\ c.value = value
  BY DEF Write
<1> HIDE DEF c
<1>2. /\ NeedsOf(c) = {} /\ GivesOf(c) = {name} /\ TouchesOf(c) = {"device"} /\ UsesOf(c) = {}
      /\ ForbidsOf(c) = {"finish"} /\ EnsuresOf(c) = {} /\ Formed(c, job)
  BY <1>1 DEF NeedsOf, GivesOf, TouchesOf, ForbidsOf, UsesOf, EnsuresOf, Formed
<1>4. Leads(<<c>>, job, A, B)
  BY <1>2, LeadsOne
<1> QED BY <1>4 DEF c

\* The last call needs both parts of the staging memory.
LEMMA FinishLeads ==
  ASSUME NEW job, NEW A, NEW B, "finish" \notin A.touched, Parts \subseteq A.given,
         B.given \subseteq A.given, A.touched \cup {"finish"} \subseteq B.touched,
         B.ensured \subseteq A.ensured
  PROVE  Leads(<<[op |-> "finish"]>>, job, A, B)
<1> DEFINE c == [op |-> "finish"]
<1>1. c.op = "finish"
  OBVIOUS
<1> HIDE DEF c
<1>2. /\ NeedsOf(c) = Parts /\ GivesOf(c) = {} /\ TouchesOf(c) = {"finish"} /\ UsesOf(c) = {}
      /\ ForbidsOf(c) = {"finish"} /\ EnsuresOf(c) = {} /\ Formed(c, job)
  BY <1>1 DEF NeedsOf, GivesOf, TouchesOf, ForbidsOf, UsesOf, EnsuresOf, Formed
<1>4. Leads(<<c>>, job, A, B)
  BY <1>2, LeadsOne
<1> QED BY <1>4 DEF c

\* A transform: each pass reads what the one before it wrote.
LEMMA FftLeads ==
  ASSUME NEW n \in PowersOf8, NEW src \in 0..5, NEW tmp \in 0..5, NEW sgn, NEW job,
         NEW g, NEW t, NEW e, NEW g2, NEW t2, NEW e2,
         Row(src) \in g, Rows \cup {"device"} \subseteq t, "finish" \notin t, Rows \subseteq e,
         g2 \subseteq g \cup {Row(EndsIn(n, src, tmp))}, t \subseteq t2, e2 \subseteq e
  PROVE  Leads(FftCalls(n, src, tmp, sgn), job, Before(g, t, e), Before(g2, t2, e2))
<1> DEFINE s == FftCalls(n, src, tmp, sgn)
           In(p) == Row(IF p % 2 = 1 THEN src ELSE tmp)
           Out(p) == Row(IF p % 2 = 1 THEN tmp ELSE src)
           S == {s[p] : p \in 1..Passes(n)}
<1>1. Passes(n) \in 1..5
  BY PassCount
<1>2. /\ DOMAIN s = 1..Passes(n) /\ s \in Seq(S) /\ Len(s) = Passes(n)
      /\ \A p \in 1..Passes(n) : /\ s[p].op = "enqueue" /\ s[p].kernel = "fft_pass"
                                 /\ s[p].reads = <<In(p)>> /\ s[p].writes = <<Out(p)>>
  <2>1. s = [p \in 1..Passes(n) |-> Enqueue("fft_pass", <<In(p)>>, <<Out(p)>>,
                                          [ns |-> 8^(p - 1), s |-> sgn])]
    BY DEF FftCalls
  <2>2. DOMAIN s = 1..Passes(n) /\ Passes(n) \in Nat /\ s \in Seq(S)
    <3>1. s \in [1..Passes(n) -> S]
      BY <2>1, Zenon
    <3> HIDE DEF s, S
    <3> QED BY <1>1, <3>1
  <2>3. Len(s) = Passes(n)
    BY <2>2
  <2>4. \A p \in 1..Passes(n) : s[p] = Enqueue("fft_pass", <<In(p)>>, <<Out(p)>>,
                                              [ns |-> 8^(p - 1), s |-> sgn])
    BY <2>1
  <2>5. ASSUME NEW p \in 1..Passes(n), NEW arg,
               s[p] = Enqueue("fft_pass", <<In(p)>>, <<Out(p)>>, arg)
        PROVE  /\ s[p].op = "enqueue" /\ s[p].kernel = "fft_pass"
               /\ s[p].reads = <<In(p)>> /\ s[p].writes = <<Out(p)>>
    BY <2>5 DEF Enqueue
  <2> QED BY <2>2, <2>3, <2>4, <2>5
<1>3. \A p \in 1..5 : In(p) \in Rows /\ Out(p) \in Rows
  BY RowNames
<1>4. \A p \in 2..5 : In(p) = Out(p - 1)
  OBVIOUS
<1>5. In(1) = Row(src)
  OBVIOUS
<1>6. Out(Passes(n)) = Row(EndsIn(n, src, tmp))
  BY <1>1 DEF EndsIn
<1> HIDE DEF s, In, Out, S
<1>7. ASSUME NEW p \in 1..Passes(n)
      PROVE  /\ Formed(s[p], job) /\ NeedsOf(s[p]) = {In(p)} /\ GivesOf(s[p]) = {Out(p)}
             /\ TouchesOf(s[p]) = {In(p), Out(p), "device"} /\ ForbidsOf(s[p]) = {"finish"}
             /\ UsesOf(s[p]) \subseteq Rows /\ EnsuresOf(s[p]) = {}
    <2>1. /\ s[p].op = "enqueue" /\ s[p].kernel = "fft_pass"
          /\ s[p].reads = <<In(p)>> /\ s[p].writes = <<Out(p)>>
      BY <1>2
    <2>2. Range(<<In(p)>>) = {In(p)} /\ Range(<<Out(p)>>) = {Out(p)}
      BY DEF Range
    <2>3. In(p) \in Rows /\ Out(p) \in Rows
      BY <1>1, <1>3
    <2>4. Rows \subseteq Sized \ {"up", "down"} /\ Rows \subseteq Buffers /\ Rows \subseteq Blocked
      BY RowNames DEF Sized, Buffers, Blocked
    <2>5. KernelFormed(s[p])
      BY <2>1, <2>2, <2>3, <2>4 DEF KernelFormed
    <2>6. Formed(s[p], job)
      BY <2>1, <2>5 DEF Formed
    <2> QED BY <2>1, <2>2, <2>3, <2>6 DEF NeedsOf, GivesOf, TouchesOf, ForbidsOf, UsesOf, EnsuresOf, Used
<1>8. \A k \in 0..Passes(n) : Touched(s, k) \subseteq t
  <2>1. \A p \in 1..Passes(n) : TouchesOf(s[p]) \subseteq t
    BY <1>1, <1>3, <1>7
  <2>2. \A k \in 0..Passes(n) : \A p \in 1..k : p \in 1..Passes(n)
    BY <1>1
  <2> QED BY <2>1, <2>2 DEF Touched
<1>9. \A p \in 1..Passes(n) : InOrder(s, job, p, g, t, e)
  <2> SUFFICES ASSUME NEW p \in 1..Passes(n) PROVE InOrder(s, job, p, g, t, e)
    OBVIOUS
  <2>1. In(p) \in g \cup Given(s, p - 1)
    <3>1. CASE p = 1
      BY <3>1, <1>5
    <3>2. CASE p # 1
      <4>1. p - 1 \in 1..Passes(n) /\ p - 1 \in 1..p - 1 /\ p \in 2..5
        BY <3>2, <1>1
      <4>2. In(p) \in GivesOf(s[p - 1])
        BY <4>1, <1>4, <1>7
      <4> QED BY <4>1, <4>2 DEF Given
    <3> QED BY <3>1, <3>2
  <2>2. Touched(s, p - 1) \subseteq t
    BY <1>1, <1>8
  <2> QED BY <1>7, <2>1, <2>2 DEF InOrder
<1>10. Sound(s, job, g, t, e)
  BY <1>2, <1>9 DEF Sound
<1>11. Row(EndsIn(n, src, tmp)) \in Given(s, Len(s))
  <2>1. Passes(n) \in 1..Passes(n)
    BY <1>1
  <2>2. Row(EndsIn(n, src, tmp)) \in GivesOf(s[Passes(n)])
    BY <2>1, <1>6, <1>7
  <2> QED BY <1>2, <2>1, <2>2 DEF Given
<1>12. Touched(s, Len(s)) \subseteq t
  BY <1>1, <1>2, <1>8
<1> QED BY <1>10, <1>11, <1>12 DEF Leads, Before, s

\* What the batch works on until its spectrum is gathered, and what it needs
\* to be large enough.
Worked == Rows \cup {"raw", "in16", "up", "device", "mtfpow", "starts"}
Base == Rows \cup {"raw"}

\* The input calls give the first row, by either way.
LEMMA InputLeads ==
  ASSUME NEW nb, NEW data, DOMAIN data = 0..nb - 1, NEW vals, NEW job, job.nb = nb,
         job.size["in16"] = nb,
         job.size["up"] = IF Integral(vals) THEN nb ELSE 2 * nb, NEW n
  PROVE  Leads(InputCalls(n, nb, data, vals), job, Before({"mtfpow"}, {}, Base),
               Before({"mtfpow", "r0"}, Worked, Base))
<1>1. /\ Row(0) = "r0" /\ Rows = {"r0", "r1", "r2", "r3", "r4", "r5"}
      /\ Sized = Rows \cup {"raw", "in16", "up", "down", "bins", "out"}
      /\ Buffers = Sized \cup {"mtfpow", "starts"} /\ Blocked = Sized \ {"down"}
  BY RowNames DEF Sized, Buffers, Blocked
<1>2. \A a : Range(<<a>>) = {a}
  BY DEF Range
<1>3. \A a : Len(<<a>>) = 1 /\ DOMAIN <<a>> = 1..1 /\ <<a>>[1] = a
  OBVIOUS
<1>4. CASE Integral(vals)
  <2> DEFINE c1 == Ensure(<<"up">>, nb)
             c2 == Stage(data)
             c3 == Ensure(<<"in16">>, nb)
             c4 == Enqueue("upload", <<"up">>, <<"in16">>, 0)
             c5 == Enqueue("load_u16", <<"in16">>, <<Row(0)>>, Min(vals))
             A0 == Before({"mtfpow"}, {}, Base)
             A1 == Before({"mtfpow"}, {}, Base \cup {"up"})
             A2 == Before({"mtfpow", "up"}, {"up"}, Base \cup {"up"})
             A3 == Before({"mtfpow", "up"}, {"up"}, Base \cup {"up", "in16"})
             A4 == Before({"mtfpow", "in16"}, {"up", "in16", "device"}, Base \cup {"up", "in16"})
             A5 == Before({"mtfpow", "r0"}, Worked, Base)
  <2>1. Leads(<<c1>>, job, A0, A1)
    <3>1. \A name \in Range(<<"up">>) : nb = job.size[name]
      BY <1>2, <1>4
    <3> QED BY <1>1, <1>2, <3>1, EnsureLeads DEF Before
  <2>2. Leads(<<c2>>, job, A1, A2)
    BY StageLeads DEF Before
  <2>3. Leads(<<c3>>, job, A2, A3)
    <3>1. \A name \in Range(<<"in16">>) : nb = job.size[name]
      BY <1>2
    <3> QED BY <1>1, <1>2, <3>1, EnsureLeads DEF Before
  <2>4. Leads(<<c4>>, job, A3, A4)
    <3>1. KernelFormed(c4)
      BY <1>1, <1>2, <1>3 DEF KernelFormed, Enqueue
    <3> QED BY <1>2, <3>1, EnqueueLeads DEF Before
  <2>5. Leads(<<c5>>, job, A4, A5)
    <3>1. KernelFormed(c5)
      BY <1>1, <1>2, <1>3 DEF KernelFormed, Enqueue
    <3> QED BY <1>1, <1>2, <3>1, EnqueueLeads DEF Before, Base, Worked
  <2>6. InputCalls(n, nb, data, vals) = <<c1, c2, c3, c4, c5>>
    BY <1>4 DEF InputCalls
  <2> HIDE DEF c1, c2, c3, c4, c5, A0, A1, A2, A3, A4, A5
  <2>7. Leads(<<c4, c5>>, job, A3, A5)
    BY <2>4, <2>5, LeadsTuple
  <2>8. Leads(<<c3, c4, c5>>, job, A2, A5)
    BY <2>3, <2>7, LeadsTuple
  <2>9. Leads(<<c2, c3, c4, c5>>, job, A1, A5)
    BY <2>2, <2>8, LeadsTuple
  <2>10. Leads(<<c1, c2, c3, c4, c5>>, job, A0, A5)
    BY <2>1, <2>9, LeadsTuple
  <2> QED BY <2>6, <2>10 DEF A0, A5
<1>5. CASE ~Integral(vals)
  <2> DEFINE c1 == Ensure(<<"up">>, 2 * nb)
             c2 == Stage(data)
             c3 == Enqueue("upload", <<"up">>, <<"raw">>, 0)
             c4 == Enqueue("load_real", <<"raw">>, <<Row(0)>>, 0)
             A0 == Before({"mtfpow"}, {}, Base)
             A1 == Before({"mtfpow"}, {}, Base \cup {"up"})
             A2 == Before({"mtfpow", "up"}, {"up"}, Base \cup {"up"})
             A3 == Before({"mtfpow", "raw"}, {"up", "raw", "device"}, Base \cup {"up"})
             A4 == Before({"mtfpow", "r0"}, Worked, Base)
  <2>1. Leads(<<c1>>, job, A0, A1)
    <3>1. \A name \in Range(<<"up">>) : 2 * nb = job.size[name]
      BY <1>2, <1>5
    <3> QED BY <1>1, <1>2, <3>1, EnsureLeads DEF Before
  <2>2. Leads(<<c2>>, job, A1, A2)
    BY StageLeads DEF Before
  <2>3. Leads(<<c3>>, job, A2, A3)
    <3>1. KernelFormed(c3)
      BY <1>1, <1>2, <1>3 DEF KernelFormed, Enqueue
    <3> QED BY <1>2, <3>1, EnqueueLeads DEF Before, Base
  <2>4. Leads(<<c4>>, job, A3, A4)
    <3>1. KernelFormed(c4)
      BY <1>1, <1>2, <1>3 DEF KernelFormed, Enqueue
    <3> QED BY <1>1, <1>2, <3>1, EnqueueLeads DEF Before, Base, Worked
  <2>5. InputCalls(n, nb, data, vals) = <<c1, c2, c3, c4>>
    BY <1>5 DEF InputCalls
  <2> HIDE DEF c1, c2, c3, c4, A0, A1, A2, A3, A4
  <2>6. Leads(<<c3, c4>>, job, A2, A4)
    BY <2>3, <2>4, LeadsTuple
  <2>7. Leads(<<c2, c3, c4>>, job, A1, A4)
    BY <2>2, <2>6, LeadsTuple
  <2>8. Leads(<<c1, c2, c3, c4>>, job, A0, A4)
    BY <2>1, <2>7, LeadsTuple
  <2> QED BY <2>5, <2>8 DEF A0, A4
<1> QED BY <1>4, <1>5

\* The buffers, name by name.
LEMMA Places ==
  /\ Row(0) = "r0" /\ Row(2) = "r2" /\ Row(3) = "r3" /\ Row(4) = "r4"
  /\ Rows = {"r0", "r1", "r2", "r3", "r4", "r5"}
  /\ Sized = Rows \cup {"raw", "in16", "up", "down", "bins", "out"}
  /\ Buffers = Sized \cup {"mtfpow", "starts"} /\ Blocked = Sized \ {"down"}
  /\ \A i \in 0..5 : Row(i) \in Rows
BY RowNames DEF Sized, Buffers, Blocked

\* The calls of the spectrum give the four products and the bins.
LEMMA SpectrumLeads ==
  ASSUME NEW n \in PowersOf8, NEW nb, NEW w, w = RowPlan(n), NEW level, NEW known, NEW job,
         job.size["bins"] = nb, job.level = level
  PROVE  Leads(SpectrumCalls(n, nb, w, level, known), job, Before({"mtfpow", "r0"}, Worked, Base),
               Before({Row(w.x), "r2", "r3", "r4", "bins"}, Worked \cup {"bins"}, Base \cup {"bins"}))
<1> DEFINE c1 == Enqueue("rf_products", <<Row(w.x), "mtfpow">>, <<Row(2), Row(3), Row(4)>>, level # 0)
           c2 == Ensure(<<"bins">>, nb)
           c3 == Write("starts", AudioStarts(n))
           c4 == Enqueue("gather_bins", <<Row(w.x), "starts">>, <<"bins">>, AudioRun(n))
           A0 == Before({"mtfpow", "r0"}, Worked, Base)
           A1 == Before({"mtfpow", Row(w.x)}, Worked, Base)
           A2 == Before({Row(w.x), "r2", "r3", "r4"}, Worked, Base)
           A3 == Before({Row(w.x), "r2", "r3", "r4"}, Worked, Base \cup {"bins"})
           A4 == Before({Row(w.x), "r2", "r3", "r4", "starts"}, Worked, Base \cup {"bins"})
           A5 == Before({Row(w.x), "r2", "r3", "r4", "bins"}, Worked \cup {"bins"},
                        Base \cup {"bins"})
<1>1. /\ w.x = EndsIn(n, 0, 1) /\ w.x \in 0..5 /\ Row(w.x) \in Rows
  BY PlanEnds, Places
<1>2. \A a, b, c : Range(<<a>>) = {a} /\ Range(<<a, b>>) = {a, b} /\ Range(<<a, b, c>>) = {a, b, c}
  BY DEF Range
<1>3. Leads(FftCalls(n, 0, 1, -1), job, A0, A1)
  BY <1>1, Places, FftLeads DEF Worked, Base
<1>4. Leads(PowCalls(level, known), job, A1, A1)
  <2>1. CASE level # 0 /\ known # level
    <3>1. Leads(<<Write("mtfpow", level)>>, job, A1, A1)
      BY Places, WriteLeads DEF Before, Worked, Single
    <3> QED BY <2>1, <3>1 DEF PowCalls
  <2>2. CASE ~(level # 0 /\ known # level)
    BY <2>2, LeadsNone DEF PowCalls
  <2> QED BY <2>1, <2>2
<1>5. Leads(<<c1>>, job, A1, A2)
  <2>1. KernelFormed(c1)
    <3>1. /\ Len(c1.reads) = 2 /\ DOMAIN c1.reads = 1..2 /\ c1.reads[1] = Row(w.x)
          /\ c1.reads[2] = "mtfpow" /\ Range(c1.reads) = {Row(w.x), "mtfpow"}
      BY <1>2 DEF Enqueue
    <3>2. /\ Len(c1.writes) = 3 /\ DOMAIN c1.writes = 1..3
          /\ Range(c1.writes) = {Row(2), Row(3), Row(4)}
      BY <1>2 DEF Enqueue
    <3>3. c1.kernel = "rf_products"
      BY DEF Enqueue
    <3> HIDE DEF c1
    <3> QED BY <1>1, <3>1, <3>2, <3>3, Places DEF KernelFormed
  <2> QED BY <1>1, <1>2, <2>1, Places, EnqueueLeads DEF Before, Base, Worked, Single
<1>6. Leads(<<c2>>, job, A2, A3)
  <2>1. \A name \in Range(<<"bins">>) : nb = job.size[name]
    BY <1>2
  <2> QED BY <1>2, <2>1, Places, EnsureLeads DEF Before, Worked
<1>7. Leads(<<c3>>, job, A3, A4)
  BY Places, WriteLeads DEF Before, Worked, Single
<1>8. Leads(<<c4>>, job, A4, A5)
  <2>1. KernelFormed(c4)
    <3>1. /\ Len(c4.reads) = 2 /\ DOMAIN c4.reads = 1..2 /\ c4.reads[1] = Row(w.x)
          /\ c4.reads[2] = "starts" /\ Range(c4.reads) = {Row(w.x), "starts"}
      BY <1>2 DEF Enqueue
    <3>2. Len(c4.writes) = 1 /\ DOMAIN c4.writes = 1..1 /\ Range(c4.writes) = {"bins"}
      BY <1>2 DEF Enqueue
    <3>3. c4.kernel = "gather_bins"
      BY DEF Enqueue
    <3> HIDE DEF c4
    <3> QED BY <1>1, <3>1, <3>2, <3>3, Places DEF KernelFormed
  <2> QED BY <1>1, <1>2, <2>1, Places, EnqueueLeads DEF Before, Base, Worked, Single
<1>9. SpectrumCalls(n, nb, w, level, known)
        = (FftCalls(n, 0, 1, -1) \o PowCalls(level, known)) \o <<c1, c2, c3, c4>>
  BY DEF SpectrumCalls
<1> HIDE DEF c1, c2, c3, c4, A0, A1, A2, A3, A4, A5
<1>10. Leads(<<c3, c4>>, job, A3, A5)
  BY <1>7, <1>8, LeadsTuple
<1>11. Leads(<<c2, c3, c4>>, job, A2, A5)
  BY <1>6, <1>10, LeadsTuple
<1>12. Leads(<<c1, c2, c3, c4>>, job, A1, A5)
  BY <1>5, <1>11, LeadsTuple
<1>13. Leads(FftCalls(n, 0, 1, -1) \o PowCalls(level, known), job, A0, A1)
  BY <1>3, <1>4, LeadsJoined
<1>14. Leads(SpectrumCalls(n, nb, w, level, known), job, A0, A5)
  BY <1>9, <1>12, <1>13, LeadsJoined
<1> QED BY <1>14 DEF A0, A5

\* The calls of the video channels give the three outputs and the raw channel.
LEMMA VideoLeads ==
  ASSUME NEW n \in PowersOf8, NEW w, w = RowPlan(n), NEW job, NEW t, NEW e,
         Worked \subseteq t, "finish" \notin t, Base \subseteq e
  PROVE  Leads(VideoCalls(n, w), job, Before({Row(w.x), "r2", "r3", "r4", "bins"}, t, e),
               Before({Row(w.v_out[1]), Row(w.v_out[2]), Row(w.v_out[3]), "raw", Row(w.r), Row(w.e),
                       "bins"}, t, e))
<1> DEFINE g0 == {Row(w.x), "r2", "r3", "r4", "bins"}
           g1 == {Row(w.h), "r3", "r4", "bins"}
           g2 == {Row(w.h), Row(w.e), "r4", "bins"}
           g3 == {Row(w.h), Row(w.e), Row(w.r), "bins"}
           g4 == {"raw", Row(w.d), Row(w.e), Row(w.r), "bins"}
           g5 == {"raw", Row(w.y), Row(w.e), Row(w.r), "bins"}
           g6 == {"raw", Row(w.vrows[1]), Row(w.vrows[2]), Row(w.vrows[3]), Row(w.e), Row(w.r), "bins"}
           g7 == {"raw", Row(w.v_out[1]), Row(w.vrows[2]), Row(w.vrows[3]), Row(w.e), Row(w.r), "bins"}
           g8 == {"raw", Row(w.v_out[1]), Row(w.v_out[2]), Row(w.vrows[3]), Row(w.e), Row(w.r), "bins"}
           g9 == {Row(w.v_out[1]), Row(w.v_out[2]), Row(w.v_out[3]), "raw", Row(w.r), Row(w.e), "bins"}
           f1 == FftCalls(n, 2, w.x, 1)
           f2 == FftCalls(n, 3, w.spare, 1)
           f3 == FftCalls(n, 4, w.spare2, 1)
           c4 == Enqueue("discriminate", <<Row(w.h)>>, <<"raw", Row(w.d)>>, 0)
           f5 == FftCalls(n, w.d, w.h, -1)
           c6 == Enqueue("video_products", <<Row(w.y)>>, [i \in 1..3 |-> Row(w.vrows[i])], 0)
           f7 == FftCalls(n, w.vrows[1], w.tmps[1], 1)
           f8 == FftCalls(n, w.vrows[2], w.tmps[2], 1)
           f9 == FftCalls(n, w.vrows[3], w.tmps[3], 1)
<1>0. /\ w.x \in 0..5 /\ w.h \in 0..5 /\ w.spare \in 0..5 /\ w.e \in 0..5 /\ w.spare2 \in 0..5
      /\ w.r \in 0..5 /\ w.d \in 0..5 /\ w.y \in 0..5
      /\ \A i \in 1..3 : w.vrows[i] \in 0..5 /\ w.tmps[i] \in 0..5 /\ w.v_out[i] \in 0..5
      /\ w.h = EndsIn(n, 2, w.x) /\ w.e = EndsIn(n, 3, w.spare)
      /\ w.r = EndsIn(n, 4, w.spare2) /\ w.y = EndsIn(n, w.d, w.h)
      /\ \A i \in 1..3 : w.v_out[i] = EndsIn(n, w.vrows[i], w.tmps[i])
  BY PlanEnds
<1>00. /\ Rows \cup {"device"} \subseteq t /\ "raw" \in t /\ "finish" \notin t
       /\ Rows \subseteq e /\ "raw" \in e
  BY DEF Worked, Base
<1>1. Leads(f1, job, Before(g0, t, e), Before(g1, t, e))
  BY <1>0, <1>00, Places, FftLeads
<1>2. Leads(f2, job, Before(g1, t, e), Before(g2, t, e))
  BY <1>0, <1>00, Places, FftLeads
<1>3. Leads(f3, job, Before(g2, t, e), Before(g3, t, e))
  BY <1>0, <1>00, Places, FftLeads
<1>4. Leads(<<c4>>, job, Before(g3, t, e), Before(g4, t, e))
  <2>1. Row(w.h) \in Rows /\ Row(w.d) \in Rows
    BY <1>0, Places
  <2>2. Range(<<Row(w.h)>>) = {Row(w.h)} /\ Range(<<"raw", Row(w.d)>>) = {"raw", Row(w.d)}
    BY DEF Range
  <2>3. /\ c4.kernel = "discriminate" /\ c4.reads = <<Row(w.h)>> /\ c4.writes = <<"raw", Row(w.d)>>
    BY DEF Enqueue
  <2>4. /\ Len(c4.reads) = 1 /\ DOMAIN c4.reads = 1..1 /\ c4.reads[1] = Row(w.h)
        /\ Len(c4.writes) = 2 /\ DOMAIN c4.writes = 1..2
    BY <2>3
  <2>5. KernelFormed(c4)
    <3> HIDE DEF c4
    <3> QED BY <2>1, <2>2, <2>3, <2>4, Places DEF KernelFormed
  <2> QED BY <1>00, <2>1, <2>2, <2>5, EnqueueLeads DEF Before
<1>5. Leads(f5, job, Before(g4, t, e), Before(g5, t, e))
  BY <1>0, <1>00, Places, FftLeads
<1>6. Leads(<<c6>>, job, Before(g5, t, e), Before(g6, t, e))
  <2> DEFINE out == [i \in 1..3 |-> Row(w.vrows[i])]
  <2>1. Row(w.y) \in Rows /\ \A i \in 1..3 : Row(w.vrows[i]) \in Rows
    BY <1>0, Places
  <2>2. /\ Range(<<Row(w.y)>>) = {Row(w.y)}
        /\ Range(out) = {Row(w.vrows[1]), Row(w.vrows[2]), Row(w.vrows[3])}
    BY DEF Range
  <2>3. c6.kernel = "video_products" /\ c6.reads = <<Row(w.y)>> /\ c6.writes = out
    BY DEF Enqueue
  <2>4. /\ Len(c6.reads) = 1 /\ DOMAIN c6.reads = 1..1 /\ c6.reads[1] = Row(w.y)
        /\ Len(c6.writes) = 3 /\ DOMAIN c6.writes = 1..3
    BY <2>3
  <2>5. KernelFormed(c6)
    <3> HIDE DEF c6, out
    <3> QED BY <2>1, <2>2, <2>3, <2>4, Places DEF KernelFormed
  <2> QED BY <1>00, <2>1, <2>2, <2>5, EnqueueLeads DEF Before
<1>7. Leads(f7, job, Before(g6, t, e), Before(g7, t, e))
  BY <1>0, <1>00, Places, FftLeads
<1>8. Leads(f8, job, Before(g7, t, e), Before(g8, t, e))
  BY <1>0, <1>00, Places, FftLeads
<1>9. Leads(f9, job, Before(g8, t, e), Before(g9, t, e))
  BY <1>0, <1>00, Places, FftLeads
<1>10. VideoCalls(n, w) = (((((((f1 \o f2) \o f3) \o <<c4>>) \o f5) \o <<c6>>) \o f7) \o f8) \o f9
  BY DEF VideoCalls
<1> HIDE DEF g0, g1, g2, g3, g4, g5, g6, g7, g8, g9, f1, f2, f3, c4, f5, c6, f7, f8, f9
<1>11. Leads((f1 \o f2) \o f3, job, Before(g0, t, e), Before(g3, t, e))
  BY <1>1, <1>2, <1>3, LeadsJoined
<1>12. Leads(((f1 \o f2) \o f3) \o <<c4>>, job, Before(g0, t, e), Before(g4, t, e))
  BY <1>4, <1>11, LeadsJoined
<1>13. Leads((((f1 \o f2) \o f3) \o <<c4>>) \o f5, job, Before(g0, t, e), Before(g5, t, e))
  BY <1>5, <1>12, LeadsJoined
<1>14. Leads(((((f1 \o f2) \o f3) \o <<c4>>) \o f5) \o <<c6>>, job,
             Before(g0, t, e), Before(g6, t, e))
  BY <1>6, <1>13, LeadsJoined
<1>15. Leads((((((f1 \o f2) \o f3) \o <<c4>>) \o f5) \o <<c6>>) \o f7, job,
             Before(g0, t, e), Before(g7, t, e))
  BY <1>7, <1>14, LeadsJoined
<1>16. Leads(VideoCalls(n, w), job, Before(g0, t, e), Before(g9, t, e))
  BY <1>8, <1>9, <1>10, <1>15, LeadsJoined
<1> QED BY <1>16 DEF g0, g9

\* Two triples, joined.
LEMMA JoinedThrees ==
  ASSUME NEW S, NEW s \in Seq(S), NEW t \in Seq(S), NEW u \in Seq(S), 
         Len(s) = 3, Len(t) = 3, Len(u) = 6,
         u[1] = s[1], u[2] = s[2], u[3] = s[3], u[4] = t[1], u[5] = t[2], u[6] = t[3]
  PROVE s \o t = u
<1> DEFINE v == s \o t
<1>1. v \in Seq(S) /\ Len(v) = Len(s) + Len(t)
      /\ \A i \in 1 .. Len(s) + Len(t) : v[i] = IF i <= Len(s) THEN s[i] ELSE t[i - Len(s)]
  BY ConcatProperties, Zenon
<1> HIDE DEF v
<1>11. Len(v) = 6
  BY <1>1
<1>2. v[1] = s[1] /\ v[2] = s[2] /\ v[3] = s[3]
  BY <1>1
<1>22. v[4] = t[1] /\ v[5] = t[2] /\ v[6] = t[3]
  BY <1>1
<1>3. \A i \in 1..6 : i = 1 \/ i = 2 \/ i = 3 \/ i = 4 \/ i = 5 \/ i = 6
  OBVIOUS
<1>4. \A i \in 1..6 : v[i] = u[i]
  BY <1>2, <1>3, <1>22
<1>5. v = u
  BY <1>1, <1>4, <1>11, SeqEqual
<1> QED BY <1>5 DEF v

\* A sequence of six, by its elements.
LEMMA TupleOfSix ==
  ASSUME NEW a, NEW b, NEW c, NEW d, NEW e, NEW f
  PROVE  <<a, b, c>> \o <<d, e, f>> = <<a, b, c, d, e, f>>
<1> DEFINE S == {a, b, c, d, e, f}
<1>1. <<a, b, c>> \in Seq(S) /\ <<d, e, f>> \in Seq(S) /\ <<a, b, c, d, e, f>> \in Seq(S)
  OBVIOUS
<1> HIDE DEF S
<1> QED BY <1>1, JoinedThrees

\* The last calls give both parts of the staging memory.
LEMMA OutputLeads ==
  ASSUME NEW n \in PowersOf8, NEW nb, NEW w, w = RowPlan(n), NEW rot, NEW job,
         job.size["out"] = nb, job.size["down"] = nb
  PROVE  Leads(OutputCalls(nb, w, rot), job,
               Before({Row(w.v_out[1]), Row(w.v_out[2]), Row(w.v_out[3]), "raw", Row(w.r), Row(w.e),
                       "bins"}, Worked \cup {"bins"}, Base \cup {"bins"}),
               Before(Parts, Worked \cup {"bins", "out", "down", "finish"}, Base))
<1> DEFINE from == [i \in 1..3 |-> Row(w.v_out[i])] \o <<"raw", Row(w.r), Row(w.e)>>
           g == {Row(w.v_out[1]), Row(w.v_out[2]), Row(w.v_out[3]), "raw", Row(w.r), Row(w.e)}
           t == Worked \cup {"bins"}
           e == Base \cup {"bins"}
           c1 == Ensure(<<"out">>, nb)
           c2 == Enqueue("extract", from, <<"out">>, rot)
           c3 == Ensure(<<"down">>, nb)
           c4 == Enqueue("download", <<"out", "down">>, <<"down">>, "out")
           c5 == Enqueue("download", <<"bins", "down">>, <<"down">>, "bins")
           c6 == [op |-> "finish"]
           A0 == Before(g \cup {"bins"}, t, e)
           A1 == Before(g \cup {"bins"}, t, e \cup {"out"})
           A2 == Before({"out", "bins"}, t \cup {"out"}, e \cup {"out"})
           A3 == Before({"out", "bins"}, t \cup {"out"}, e \cup {"out", "down"})
           A4 == Before({"down.out", "bins"}, t \cup {"out", "down"}, e \cup {"out", "down"})
           A5 == Before(Parts, t \cup {"out", "down"}, e)
           A6 == Before(Parts, Worked \cup {"bins", "out", "down", "finish"}, Base)
<1>1. /\ w.r \in 0..5 /\ w.e \in 0..5 /\ \A i \in 1..3 : w.v_out[i] \in 0..5
  BY PlanEnds
<1>2. /\ Len(from) = 6 /\ DOMAIN from = 1..6 /\ Range(from) = g
      /\ \A i \in 1..6 : from[i] \in Rows \cup {"raw"}
  <2> DEFINE r1 == Row(w.v_out[1])
             r2 == Row(w.v_out[2])
             r3 == Row(w.v_out[3])
             r4 == Row(w.r)
             r5 == Row(w.e)
             tuple == <<r1, r2, r3, "raw", r4, r5>>
  <2>1. r1 \in Rows /\ r2 \in Rows /\ r3 \in Rows /\ r4 \in Rows /\ r5 \in Rows
    BY <1>1, Places
  <2>2. [i \in 1..3 |-> Row(w.v_out[i])] = <<r1, r2, r3>>
    OBVIOUS
  <2>3. g = {r1, r2, r3, "raw", r4, r5}
    OBVIOUS
  <2>4. from = <<r1, r2, r3>> \o <<"raw", r4, r5>>
    BY <2>2
  <2> HIDE DEF r1, r2, r3, r4, r5, from, g
  <2>5. from = tuple
    <3>1. <<r1, r2, r3>> \o <<"raw", r4, r5>> = tuple
      BY TupleOfSix
    <3> QED BY <2>4, <3>1
  <2>6. /\ Len(tuple) = 6 /\ DOMAIN tuple = 1..6
        /\ tuple[1] = r1 /\ tuple[2] = r2 /\ tuple[3] = r3
        /\ tuple[4] = "raw" /\ tuple[5] = r4 /\ tuple[6] = r5
    OBVIOUS
  <2> HIDE DEF tuple
  <2>7. \A i \in 1..6 : i \in {1, 2, 3, 4, 5, 6}
    OBVIOUS
  <2>8. Range(tuple) = g
    <3>1. \A i \in 1..6 : tuple[i] \in g
      BY <2>3, <2>6, <2>7
    <3>2. \A x \in g : \E i \in 1..6 : tuple[i] = x
      BY <2>3, <2>6
    <3> QED BY <3>1, <3>2, <2>6 DEF Range
  <2>9. \A i \in 1..6 : tuple[i] \in Rows \cup {"raw"}
    BY <2>1, <2>6, <2>7
  <2> QED BY <2>5, <2>6, <2>8, <2>9
<1>3. Range(<<"out">>) = {"out"} /\ Range(<<"down">>) = {"down"}
  BY DEF Range
<1>4. g \subseteq Base /\ Base \subseteq Worked /\ "finish" \notin Worked /\ "out" \notin Worked
      /\ "down" \notin Worked /\ "device" \in Worked /\ Single \subseteq Worked
      /\ {"out", "down"} \subseteq Sized /\ Base \subseteq Blocked
  BY <1>1, Places DEF Base, Worked, Single
<1>5. Leads(<<c1>>, job, A0, A1)
  <2>1. \A name \in Range(<<"out">>) : nb = job.size[name]
    BY <1>3
  <2> QED BY <1>3, <1>4, <2>1, EnsureLeads DEF Before
<1>6. Leads(<<c2>>, job, A1, A2)
  <2>1. KernelFormed(c2)
    <3>1. c2.kernel = "extract" /\ c2.reads = from /\ c2.writes = <<"out">>
      BY DEF Enqueue
    <3>2. Len(c2.writes) = 1 /\ DOMAIN c2.writes = 1..1
      BY <3>1
    <3> HIDE DEF c2, from, g
    <3>3. /\ Len(c2.reads) = 6 /\ DOMAIN c2.reads = 1..6
          /\ Range(c2.reads) \subseteq Blocked /\ \A i \in 1..6 : c2.reads[i] \in Blocked
      BY <1>2, <1>4, <3>1 DEF Base
    <3>4. Range(c2.writes) = {"out"}
      BY <1>3, <3>1
    <3> QED BY <3>1, <3>2, <3>3, <3>4, Places DEF KernelFormed
  <2> HIDE DEF from, g
  <2> QED BY <1>2, <1>3, <1>4, <2>1, EnqueueLeads DEF Before
<1>7. Leads(<<c3>>, job, A2, A3)
  <2>1. \A name \in Range(<<"down">>) : nb = job.size[name]
    BY <1>3
  <2> QED BY <1>3, <1>4, <2>1, EnsureLeads DEF Before
<1>8. Leads(<<c4>>, job, A3, A4)
  BY <1>4, DownloadLeads DEF Before, PartOf
<1>9. Leads(<<c5>>, job, A4, A5)
  BY <1>4, DownloadLeads DEF Before, PartOf, Parts
<1>10. Leads(<<c6>>, job, A5, A6)
  BY <1>4, FinishLeads DEF Before
<1>11. OutputCalls(nb, w, rot) = <<c1, c2, c3, c4, c5, c6>>
  BY DEF OutputCalls
<1> HIDE DEF from, g, t, e, c1, c2, c3, c4, c5, c6, A0, A1, A2, A3, A4, A5, A6
<1>12. Leads(<<c5, c6>>, job, A4, A6)
  BY <1>9, <1>10, LeadsTuple
<1>13. Leads(<<c4, c5, c6>>, job, A3, A6)
  BY <1>8, <1>12, LeadsTuple
<1>14. Leads(<<c3, c4, c5, c6>>, job, A2, A6)
  BY <1>7, <1>13, LeadsTuple
<1>15. Leads(<<c2, c3, c4, c5, c6>>, job, A1, A6)
  BY <1>6, <1>14, LeadsTuple
<1>16. Leads(<<c1, c2, c3, c4, c5, c6>>, job, A0, A6)
  BY <1>5, <1>15, LeadsTuple
<1>17. g \cup {"bins"} = {Row(w.v_out[1]), Row(w.v_out[2]), Row(w.v_out[3]), "raw", Row(w.r), Row(w.e),
                       "bins"}
  BY DEF g
<1> QED BY <1>11, <1>16, <1>17, Zenon DEF A0, A6, t, e

\* The blocks each buffer is made large enough for, those of the batch, its level.
SizeOf(n, blocks) ==
    [name \in Sized |-> IF name = "up" /\ ~Integral(Samples(n, blocks)) THEN 2 * Len(blocks)
                        ELSE Len(blocks)]
JobOf(n, blocks, level) == [size |-> SizeOf(n, blocks), nb |-> Len(blocks), level |-> level]

\* Every call of a batch finds what it needs, whatever was on the device.
LEMMA BatchSound ==
  ASSUME NEW n \in PowersOf8, NEW blocks, NEW level, NEW rot, NEW known
  PROVE  Sound(Batch(n, blocks, level, rot, known), JobOf(n, blocks, level), {"mtfpow"}, {}, {})
<1> DEFINE nb   == Len(blocks)
           vals == Samples(n, blocks)
           w    == RowPlan(n)
           job == JobOf(n, blocks, level)
           names == <<"r0", "r1", "r2", "r3", "r4", "r5", "raw">>
           c0 == Ensure(names, nb)
           p1 == InputCalls(n, nb, Staged(n, blocks, vals), vals)
           p2 == SpectrumCalls(n, nb, w, level, known)
           p3 == VideoCalls(n, w)
           p4 == OutputCalls(nb, w, rot)
           A0 == Before({"mtfpow"}, {}, {})
           A1 == Before({"mtfpow"}, {}, Base)
           A2 == Before({"mtfpow", "r0"}, Worked, Base)
           A3 == Before({Row(w.x), "r2", "r3", "r4", "bins"}, Worked \cup {"bins"},
                        Base \cup {"bins"})
           A4 == Before({Row(w.v_out[1]), Row(w.v_out[2]), Row(w.v_out[3]), "raw", Row(w.r), Row(w.e),
                       "bins"}, Worked \cup {"bins"}, Base \cup {"bins"})
           A5 == Before(Parts, Worked \cup {"bins", "out", "down", "finish"}, Base)
<1>1. /\ job.size["in16"] = nb /\ job.size["bins"] = nb /\ job.size["out"] = nb /\ job.size["down"] = nb
      /\ job.size["up"] = IF Integral(vals) THEN nb ELSE 2 * nb
      /\ \A name \in Base : job.size[name] = nb
      /\ job.nb = nb /\ job.level = level
  <2>1. Base \subseteq Sized /\ "up" \notin Base /\ {"in16", "bins", "out", "down", "up"} \subseteq Sized
    BY Places DEF Base
  <2> QED BY <2>1 DEF SizeOf, JobOf
<1>2. Range(names) = Base
  <2>1. DOMAIN names = {1, 2, 3, 4, 5, 6, 7}
    BY 1..7 = {1, 2, 3, 4, 5, 6, 7}
  <2>2. Range(names) = {names[1], names[2], names[3], names[4], names[5], names[6], names[7]}
    <3> HIDE DEF names
    <3> QED BY <2>1 DEF Range
  <2> QED BY <2>2, Places DEF Base
<1> HIDE DEF job
<1>3. Leads(<<c0>>, job, A0, A1)
  <2>1. \A name \in Range(names) : nb = job.size[name]
    BY <1>1, <1>2
  <2>2. Base \subseteq Sized
    BY Places DEF Base
  <2> HIDE DEF names, nb
  <2> QED BY <1>2, <2>1, <2>2, EnsureLeads DEF Before
<1>4. Leads(p1, job, A1, A2)
  <2>1. DOMAIN Staged(n, blocks, vals) = 0..nb - 1
    BY DEF Staged
  <2> QED BY <1>1, <2>1, InputLeads
<1>5. Leads(p2, job, A2, A3)
  BY <1>1, SpectrumLeads
<1>6. Leads(p3, job, A3, A4)
  <2>1. "finish" \notin Worked \cup {"bins"}
    BY Places DEF Worked
  <2> QED BY <2>1, VideoLeads
<1>7. Leads(p4, job, A4, A5)
  BY <1>1, OutputLeads
<1>8. Batch(n, blocks, level, rot, known) = (((<<c0>> \o p1) \o p2) \o p3) \o p4
  BY DEF Batch
<1> HIDE DEF p1, p2, p3, p4, c0, A1, A2, A3, A4, A5
<1>9. Leads((<<c0>> \o p1) \o p2, job, A0, A3)
  BY <1>3, <1>4, <1>5, LeadsJoined
<1>10. Leads(Batch(n, blocks, level, rot, known), job, A0, A5)
  BY <1>6, <1>7, <1>8, <1>9, LeadsJoined
<1> QED BY <1>10 DEF Leads, Before, job

\* Every set of naturals has a least one; hence induction.
LEMMA Least == ASSUME NEW T, T \subseteq Nat, T # {} PROVE \E x \in T : \A y \in T : x <= y
<1> DEFINE R == OpToRel(<, Nat)
<1>1. IsWellFoundedOn(R, Nat)
  BY NatLessThanWellFounded
<1> HIDE DEF R
<1>2. \E x \in T : \A y \in T : ~ (<<y, x>> \in R)
  BY <1>1, WFMin
<1>3. \A x, y \in Nat : x < y => <<x, y>> \in R
  BY DEF R, OpToRel
<1>4. PICK x \in T : \A y \in T : ~ (<<y, x>> \in R)
  BY <1>2
<1>5. ASSUME NEW y \in T PROVE x <= y
  <2>1. ~ (<<y, x>> \in R) /\ x \in Nat /\ y \in Nat
    BY <1>4, <1>5
  <2>2. ~ (y < x)
    BY <2>1, <1>3
  <2> QED BY <2>1, <2>2
<1> QED BY <1>4, <1>5

\* Induction, as a statement about a set.
LEMMA Induction ==
  ASSUME NEW S, 0 \in S, \A n \in Nat : n \in S => n + 1 \in S
  PROVE  Nat \subseteq S
<1> SUFFICES ASSUME ~(Nat \subseteq S) PROVE FALSE
  OBVIOUS
<1>1. PICK x \in Nat \ S : \A y \in Nat \ S : x <= y
  BY Least
<1>2. x # 0 /\ x - 1 \in Nat
  BY <1>1
<1>3. x - 1 \in S
  BY <1>1, <1>2
<1> QED BY <1>1, <1>2, <1>3

\* The memory behind the calls of a batch on its own, call by call.
LEMMA SettledIs == ASSUME NEW v PROVE Settled(v) = v
BY DEF Settled

\* The memory after each call is what that call does to the memory before it.
LEMMA AfterIs ==
  ASSUME NEW n, NEW nb, NEW known, NEW calls, Len(calls) \in Nat
  PROVE  LET after == After(n, nb, known, calls)
         IN  /\ after[0] = Opened(n, known)
             /\ \A k \in 1..Len(calls) : after[k] = Done(n, nb, after[k - 1], calls[k])
<1> DEFINE Body(f, k) == IF k = 0 THEN Opened(n, known) ELSE Settled(Done(n, nb, f[k - 1], calls[k]))
           S == {m \in Nat : \E f : f = [k \in 0..m |-> Body(f, k)]}
<1>1. 0 \in S
  <2>1. [k \in 0..0 |-> Opened(n, known)] = [k \in 0..0 |-> Body([j \in 0..0 |-> Opened(n, known)], k)]
    OBVIOUS
  <2> QED BY <2>1
<1>2. ASSUME NEW m \in Nat, m \in S PROVE m + 1 \in S
  <2>1. PICK f : f = [k \in 0..m |-> Body(f, k)]
    BY <1>2
  <2> DEFINE g == [k \in 0..m + 1 |-> IF k = m + 1 THEN Settled(Done(n, nb, f[m], calls[m + 1])) ELSE f[k]]
  <2>2. g = [k \in 0..m + 1 |-> Body(g, k)]
    <3>1. ASSUME NEW k \in 0..m + 1 PROVE g[k] = Body(g, k)
      <4>1. CASE k = m + 1
        <5>1. g[k] = Settled(Done(n, nb, f[m], calls[m + 1])) /\ g[k - 1] = f[m] /\ k # 0
          BY <4>1
        <5> HIDE DEF g
        <5> QED BY <5>1, <4>1
      <4>2. CASE k # m + 1
        <5>1. g[k] = f[k] /\ k \in 0..m /\ (k # 0 => g[k - 1] = f[k - 1])
          BY <4>2
        <5>2. f[k] = Body(f, k)
          <6> HIDE DEF Body
          <6> QED BY <5>1, <2>1
        <5> HIDE DEF g
        <5> QED BY <5>1, <5>2
      <4> QED BY <4>1, <4>2
    <3>2. g = [k \in 0..m + 1 |-> g[k]]
      OBVIOUS
    <3> HIDE DEF g, Body
    <3> QED BY <3>1, <3>2
  <2> HIDE DEF g
  <2> QED BY <2>2
<1>3. Len(calls) \in S
  <2> HIDE DEF S
  <2> QED BY <1>1, <1>2, Induction
<1> DEFINE after == After(n, nb, known, calls)
<1>4. after = [k \in 0..Len(calls) |-> Body(after, k)]
  <2>1. PICK f : f = [k \in 0..Len(calls) |-> Body(f, k)]
    BY <1>3
  <2>2. after = CHOOSE h : h = [k \in 0..Len(calls) |-> Body(h, k)]
    BY DEF After
  <2> HIDE DEF after, Body
  <2> QED BY <2>1, <2>2, Zenon
<1> HIDE DEF after
<1>5. \A k \in 0..Len(calls) : after[k] = Body(after, k)
  <2> HIDE DEF Body
  <2> QED BY <1>4
<1>6. after[0] = Opened(n, known)
  BY <1>5
<1>7. \A k \in 1..Len(calls) : after[k] = Done(n, nb, after[k - 1], calls[k])
  BY <1>5, SettledIs
<1> QED BY <1>6, <1>7 DEF after

-----------------------------------------------------------------------------
(* Two memories of the device.                                             *)

BlockSlots == 0..MaxBatch - 1

\* Every buffer has a place for each block.
MemoryOK(m) ==
    /\ DOMAIN m = Buffers
    /\ \A name \in Blocked : DOMAIN m[name] = BlockSlots
    /\ DOMAIN m["down"] = {"out", "bins"}
    /\ DOMAIN m["down"].out = BlockSlots /\ DOMAIN m["down"].bins = BlockSlots

\* They hold the same at a place, for the blocks of a batch.
Same(m1, m2, place, nb) ==
    IF place \in Single THEN m1[place] = m2[place]
    ELSE \A b \in 0..nb - 1 :
            IF place = "down.out" THEN m1["down"].out[b] = m2["down"].out[b]
            ELSE IF place = "down.bins" THEN m1["down"].bins[b] = m2["down"].bins[b]
            ELSE m1[place][b] = m2[place][b]

Alike(m1, m2, places, nb) == \A place \in places : Same(m1, m2, place, nb)

AllPlaces == Single \cup Blocked \cup Parts

\* The buffers that hold one value, those with a place per block, the staging
\* memory and its parts are apart.
LEMMA PlaceKinds ==
  /\ Single \subseteq Buffers /\ Blocked \subseteq Buffers /\ "down" \in Buffers
  /\ "down" \notin Blocked /\ Single \cap Blocked = {} /\ "down" \notin Single
  /\ Parts \cap Buffers = {} /\ Buffers = Single \cup Blocked \cup {"down"}
  /\ "out" \in Blocked /\ "bins" \in Blocked /\ "up" \in Blocked /\ "up" \in Sized
  /\ Sized = Blocked \cup {"down"} /\ "mtfpow" \in Single /\ "starts" \in Single
BY Places DEF Single, Blocked, Parts

\* A fresh buffer has its places.
LEMMA JunkSlots ==
  ASSUME NEW n
  PROVE  /\ \A name \in Blocked : DOMAIN Junk(n, name) = BlockSlots
         /\ DOMAIN Junk(n, "down") = {"out", "bins"}
         /\ DOMAIN Junk(n, "down").out = BlockSlots /\ DOMAIN Junk(n, "down").bins = BlockSlots
<1>1. ASSUME NEW name \in Blocked PROVE DOMAIN Junk(n, name) = BlockSlots
  <2>1. CASE name \in Rows \cup {"bins"}
    <3>1. name \notin {"raw", "in16", "up", "out", "down", "mtfpow", "starts"}
      BY <2>1, Places
    <3> QED BY <2>1, <3>1 DEF Junk, BlockSlots
  <2>2. CASE name \in {"raw", "in16", "up"}
    <3>1. name \notin Rows \cup {"bins"}
      BY <2>2, Places
    <3> QED BY <2>2, <3>1 DEF Junk, BlockSlots
  <2>3. CASE name = "out"
    <3>1. name \notin Rows \cup {"bins"} /\ name \notin {"raw", "in16", "up"}
      BY <2>3, Places
    <3> QED BY <2>3, <3>1 DEF Junk, BlockSlots
  <2> QED BY <2>1, <2>2, <2>3, Places
<1>2. "down" \notin Rows \cup {"bins"} /\ "down" \notin {"raw", "in16", "up"}
  BY Places
<1>3. DOMAIN Junk(n, "down") = {"out", "bins"}
  BY <1>2 DEF Junk
<1>4. DOMAIN Junk(n, "down").out = BlockSlots /\ DOMAIN Junk(n, "down").bins = BlockSlots
  BY <1>2 DEF Junk, BlockSlots
<1> QED BY <1>1, <1>3, <1>4

\* A device that has just been opened is in shape.
LEMMA OpenedOK == ASSUME NEW n, NEW known PROVE MemoryOK(Opened(n, known))
<1>1. /\ DOMAIN Opened(n, known) = Buffers
      /\ \A name \in Buffers : name # "mtfpow" => Opened(n, known)[name] = Junk(n, name)
  BY DEF Opened
<1>2. "mtfpow" \notin Blocked
  BY PlaceKinds
<1> QED BY <1>1, <1>2, JunkSlots, PlaceKinds DEF MemoryOK

\* What a command may be given to read.
ReadOK(call, x) ==
    call.kernel = "download" =>
        /\ DOMAIN x[1] = BlockSlots /\ DOMAIN x[2] = {"out", "bins"}
        /\ DOMAIN x[2].out = BlockSlots /\ DOMAIN x[2].bins = BlockSlots

\* A name is at its position.
LEMMA PositionFound ==
  ASSUME NEW names, NEW name \in Range(names)
  PROVE  Position(names, name) \in DOMAIN names /\ names[Position(names, name)] = name
BY DEF Position, Range

\* A command that is run leaves the memory in shape and alone what it does
\* not write.
LEMMA StoredShape ==
  ASSUME NEW m, MemoryOK(m), NEW call, KernelFormed(call), NEW n, NEW nb, NEW x, ReadOK(call, x),
         NEW valid
  PROVE  LET after == Stored(call, Output(n, call, nb, x), m, valid)
         IN  /\ MemoryOK(after)
             /\ \A name \in Buffers : name \notin Range(call.writes) => after[name] = m[name]
<1> DEFINE out == Output(n, call, nb, x)
           after == Stored(call, out, m, valid)
<1>1. DOMAIN after = Buffers
  BY DEF Stored
<1>2. \A name \in Buffers : after[name] =
          IF name \in valid /\ name \in Range(call.writes)
          THEN Over(out[Position(call.writes, name)], m[name]) ELSE m[name]
  BY DEF Stored
<1> HIDE DEF out, after
<1>3. \A new, old : DOMAIN Over(new, old) = DOMAIN old
  BY DEF Over
<1>4. \A name \in Buffers : DOMAIN after[name] = DOMAIN m[name]
  BY <1>2, <1>3
<1>5. \A name \in Blocked : DOMAIN after[name] = BlockSlots
  BY <1>4, PlaceKinds DEF MemoryOK
<1>6. DOMAIN after["down"] = {"out", "bins"}
  BY <1>4, PlaceKinds DEF MemoryOK
<1>7. DOMAIN after["down"].out = BlockSlots /\ DOMAIN after["down"].bins = BlockSlots
  <2>1. CASE "down" \in valid /\ "down" \in Range(call.writes)
    <3>1. /\ call.kernel = "download" /\ call.arg \in {"out", "bins"} /\ Len(call.writes) = 1
          /\ DOMAIN call.writes = 1..1
      BY <2>1 DEF KernelFormed
    <3>2. Position(call.writes, "down") = 1
      BY <2>1, <3>1, PositionFound
    <3>3. out[1] = [x[2] EXCEPT ![call.arg] = x[1]]
      BY <3>1 DEF out, Output
    <3>4. after["down"] = Over(out[1], m["down"])
      BY <2>1, <1>2, <3>2, PlaceKinds
    <3> DEFINE new == [x[2] EXCEPT ![call.arg] = x[1]]
    <3>5. /\ DOMAIN x[1] = BlockSlots /\ DOMAIN x[2] = {"out", "bins"}
          /\ DOMAIN x[2].out = BlockSlots /\ DOMAIN x[2].bins = BlockSlots
      BY <3>1 DEF ReadOK
    <3>6. DOMAIN new = {"out", "bins"} /\ DOMAIN new.out = BlockSlots /\ DOMAIN new.bins = BlockSlots
      BY <3>1, <3>5
    <3> HIDE DEF new
    <3>7. DOMAIN m["down"] = {"out", "bins"}
      BY DEF MemoryOK
    <3>8. Over(new, m["down"]).out = new.out /\ Over(new, m["down"]).bins = new.bins
      BY <3>6, <3>7 DEF Over
    <3> QED BY <3>3, <3>4, <3>6, <3>8 DEF new
  <2>2. CASE ~("down" \in valid /\ "down" \in Range(call.writes))
    <3>1. after["down"] = m["down"]
      BY <2>2, <1>2, PlaceKinds
    <3> QED BY <3>1 DEF MemoryOK
  <2> QED BY <2>1, <2>2
<1>8. MemoryOK(after)
  BY <1>1, <1>5, <1>6, <1>7 DEF MemoryOK
<1>9. \A name \in Buffers : name \notin Range(call.writes) => after[name] = m[name]
  BY <1>2
<1> QED BY <1>8, <1>9 DEF after, out

ReadFrom(call, m) == [i \in DOMAIN call.reads |-> m[call.reads[i]]]

\* The kernels compute each block from that block and from what all share.
LEMMA BlocksAgree ==
  ASSUME NEW nb \in 1..MaxBatch, NEW n, NEW call, KernelFormed(call), call.op = "enqueue",
         call.kernel # "upload", call.kernel # "download",
         NEW m1, NEW m2, Alike(m1, m2, NeedsOf(call), nb), NEW b \in 0..nb - 1
  PROVE  BlockOutput(n, call, ReadFrom(call, m1), b) = BlockOutput(n, call, ReadFrom(call, m2), b)
<1> DEFINE x1 == ReadFrom(call, m1)
           x2 == ReadFrom(call, m2)
<1>1. NeedsOf(call) = Range(call.reads) /\ DOMAIN call.reads = 1..Len(call.reads)
  BY DEF NeedsOf, KernelFormed
<1>2. \A i \in 1..Len(call.reads) : x1[i] = m1[call.reads[i]] /\ x2[i] = m2[call.reads[i]]
  BY <1>1 DEF ReadFrom
<1> HIDE DEF x1, x2
<1>3. ASSUME NEW i \in 1..Len(call.reads), call.reads[i] \in Blocked
      PROVE  x1[i][b] = x2[i][b]
  <2>1. Same(m1, m2, call.reads[i], nb)
    BY <1>1 DEF Alike, Range
  <2>2. call.reads[i] \notin Single /\ call.reads[i] \notin Parts
    BY <1>3, PlaceKinds
  <2>3. m1[call.reads[i]][b] = m2[call.reads[i]][b]
    BY <2>1, <2>2 DEF Same, Parts
  <2> QED BY <1>2, <2>3
<1>4. ASSUME NEW i \in 1..Len(call.reads), call.reads[i] \in Single
      PROVE  x1[i] = x2[i]
  <2>1. Same(m1, m2, call.reads[i], nb)
    BY <1>1 DEF Alike, Range
  <2> QED BY <1>2, <1>4, <2>1 DEF Same
<1>5. CASE call.kernel \in {"load_u16", "load_real", "fft_pass", "discriminate", "video_products"}
  <2>1. 1 \in 1..Len(call.reads) /\ call.reads[1] \in Blocked
    BY <1>5 DEF KernelFormed
  <2>2. x1[1][b] = x2[1][b]
    BY <2>1, <1>3
  <2> QED BY <1>5, <2>2 DEF BlockOutput, x1, x2
<1>6. CASE call.kernel \in {"rf_products", "gather_bins"}
  <2>1. 1 \in 1..Len(call.reads) /\ call.reads[1] \in Blocked /\ 2 \in 1..Len(call.reads)
    BY <1>6 DEF KernelFormed
  <2>2. call.reads[2] \in Single
    BY <1>6 DEF KernelFormed, Single
  <2>3. x1[1][b] = x2[1][b] /\ x1[2] = x2[2]
    BY <2>1, <2>2, <1>3, <1>4
  <2> QED BY <1>6, <2>3 DEF BlockOutput, x1, x2
<1>7. CASE call.kernel = "extract"
  <2>1. \A i \in 1..6 : i \in 1..Len(call.reads) /\ call.reads[i] \in Blocked
    BY <1>7 DEF KernelFormed
  <2>2. \A i \in 1..6 : x1[i][b] = x2[i][b]
    BY <2>1, <1>3
  <2>3. [i \in 1..3 |-> x1[i][b]] = [i \in 1..3 |-> x2[i][b]]
    BY <2>2
  <2>4. x1[4][b] = x2[4][b] /\ x1[5][b] = x2[5][b] /\ x1[6][b] = x2[6][b]
    BY <2>2
  <2>5. /\ BlockOutput(n, call, x1, b) = <<ExtractArgs(n, [i \in 1..3 |-> x1[i][b]], x1[4][b], x1[5][b],
                                                      x1[6][b], call.arg)>>
        /\ BlockOutput(n, call, x2, b) = <<ExtractArgs(n, [i \in 1..3 |-> x2[i][b]], x2[4][b], x2[5][b],
                                                      x2[6][b], call.arg)>>
    BY <1>7 DEF BlockOutput
  <2> QED BY <2>3, <2>4, <2>5 DEF x1, x2
<1> QED BY <1>5, <1>6, <1>7 DEF KernelFormed

\* What a download leaves of the staging memory.
LEMMA Downloads ==
  ASSUME NEW n, NEW nb, NEW call, KernelFormed(call), call.kernel = "download",
         NEW m, MemoryOK(m), NEW valid, Range(call.writes) \subseteq valid
  PROVE  LET after == Stored(call, Output(n, call, nb, ReadFrom(call, m)), m, valid)
         IN  /\ after["down"].out = IF call.arg = "out" THEN m["out"] ELSE m["down"].out
             /\ after["down"].bins = IF call.arg = "bins" THEN m["bins"] ELSE m["down"].bins
<1> DEFINE x == ReadFrom(call, m)
           out == Output(n, call, nb, x)
           after == Stored(call, out, m, valid)
           new == [x[2] EXCEPT ![call.arg] = x[1]]
<1>1. /\ call.arg \in {"out", "bins"} /\ Len(call.writes) = 1 /\ call.writes[1] = "down"
      /\ DOMAIN call.writes = 1..1 /\ DOMAIN call.reads = 1..2
      /\ call.reads[1] = call.arg /\ call.reads[2] = "down"
  BY DEF KernelFormed
<1>2. "down" \in Range(call.writes)
  BY <1>1 DEF Range
<1>3. Position(call.writes, "down") = 1
  BY <1>1, <1>2, PositionFound
<1>4. x[1] = m[call.arg] /\ x[2] = m["down"]
  BY <1>1 DEF ReadFrom
<1>5. out[1] = new
  BY DEF Output
<1>6. after["down"] = Over(out[1], m["down"])
  BY <1>2, <1>3, PlaceKinds DEF Stored
<1>7. DOMAIN m["down"] = {"out", "bins"}
  BY DEF MemoryOK
<1>8. /\ DOMAIN new = {"out", "bins"}
      /\ new["out"] = IF call.arg = "out" THEN m["out"] ELSE m["down"]["out"]
      /\ new["bins"] = IF call.arg = "bins" THEN m["bins"] ELSE m["down"]["bins"]
  BY <1>1, <1>4, <1>7
<1> HIDE DEF new, out, after, x
<1>9. Over(new, m["down"])["out"] = new["out"] /\ Over(new, m["down"])["bins"] = new["bins"]
  BY <1>7, <1>8 DEF Over
<1> QED BY <1>5, <1>6, <1>8, <1>9 DEF after, out, x

\* A command run on two memories that agree on what it needs.
LEMMA RunAgrees ==
  ASSUME NEW nb \in 1..MaxBatch, NEW n, NEW call, KernelFormed(call), call.op = "enqueue",
         NEW m1, MemoryOK(m1), NEW m2, MemoryOK(m2), Alike(m1, m2, NeedsOf(call), nb),
         NEW places \in SUBSET AllPlaces, Alike(m1, m2, places, nb),
         NEW valid, Range(call.writes) \subseteq valid
  PROVE  Alike(Stored(call, Output(n, call, nb, ReadFrom(call, m1)), m1, valid),
               Stored(call, Output(n, call, nb, ReadFrom(call, m2)), m2, Buffers),
               places \cup GivesOf(call), nb)
<1> DEFINE x1 == ReadFrom(call, m1)
           x2 == ReadFrom(call, m2)
           out1 == Output(n, call, nb, x1)
           out2 == Output(n, call, nb, x2)
           a1 == Stored(call, out1, m1, valid)
           a2 == Stored(call, out2, m2, Buffers)
<1>1. Range(call.writes) \subseteq Sized \ {"up"} /\ Range(call.writes) \subseteq Buffers
  BY PlaceKinds DEF KernelFormed
<1>2. \A name \in Buffers :
        /\ a1[name] = IF name \in Range(call.writes)
                      THEN Over(out1[Position(call.writes, name)], m1[name]) ELSE m1[name]
        /\ a2[name] = IF name \in Range(call.writes)
                      THEN Over(out2[Position(call.writes, name)], m2[name]) ELSE m2[name]
  BY <1>1 DEF Stored
<1>3. \A b \in 0..nb - 1 : b \in BlockSlots
  BY BatchAssumption DEF BlockSlots
<1>4. CASE call.kernel = "download"
  <2>1. /\ call.arg \in {"out", "bins"} /\ Range(call.writes) = {"down"}
    BY <1>4 DEF KernelFormed, Range
  <2>2. /\ a1["down"].out = IF call.arg = "out" THEN m1["out"] ELSE m1["down"].out
        /\ a1["down"].bins = IF call.arg = "bins" THEN m1["bins"] ELSE m1["down"].bins
    BY <1>4, Downloads
  <2>3. /\ a2["down"].out = IF call.arg = "out" THEN m2["out"] ELSE m2["down"].out
        /\ a2["down"].bins = IF call.arg = "bins" THEN m2["bins"] ELSE m2["down"].bins
    BY <1>1, <1>4, Downloads
  <2> HIDE DEF a1, a2, out1, out2, x1, x2
  <2>4. NeedsOf(call) = {call.arg} /\ GivesOf(call) = {PartOf(call.arg)}
    BY <1>4 DEF NeedsOf, GivesOf
  <2>5. \A b \in 0..nb - 1 : m1[call.arg][b] = m2[call.arg][b]
    <3>1. Same(m1, m2, call.arg, nb)
      BY <2>4 DEF Alike
    <3>2. call.arg \notin Single /\ call.arg \notin Parts
      BY <2>1, PlaceKinds
    <3> QED BY <3>1, <3>2 DEF Same, Parts
  <2>6. ASSUME NEW place \in AllPlaces, place \in places \/ place = PartOf(call.arg)
        PROVE  Same(a1, a2, place, nb)
    <3>1. CASE place \in Parts
      <4>1. place \notin Single
        BY <3>1, PlaceKinds
      <4>2. place \in places => Same(m1, m2, place, nb)
        BY DEF Alike
      <4>3. CASE place = "down.out"
        <5>1. place \in places => \A b \in 0..nb - 1 : m1["down"].out[b] = m2["down"].out[b]
          BY <4>1, <4>2, <4>3 DEF Same
        <5>2. call.arg # "out" => place \in places
          BY <2>1, <2>6, <4>3 DEF PartOf
        <5>3. \A b \in 0..nb - 1 : a1["down"].out[b] = a2["down"].out[b]
          BY <2>2, <2>3, <2>5, <5>1, <5>2
        <5> QED BY <4>1, <4>3, <5>3 DEF Same
      <4>4. CASE place = "down.bins"
        <5>1. place \in places => \A b \in 0..nb - 1 : m1["down"].bins[b] = m2["down"].bins[b]
          BY <4>1, <4>2, <4>4 DEF Same
        <5>2. call.arg # "bins" => place \in places
          BY <2>1, <2>6, <4>4 DEF PartOf
        <5>3. \A b \in 0..nb - 1 : a1["down"].bins[b] = a2["down"].bins[b]
          BY <2>2, <2>3, <2>5, <5>1, <5>2
        <5> QED BY <4>1, <4>4, <5>3 DEF Same
      <4> QED BY <3>1, <4>3, <4>4 DEF Parts
    <3>2. CASE place \notin Parts
      <4>1. place \in Buffers /\ place # "down" /\ place \in places
        BY <2>6, <3>2, PlaceKinds DEF AllPlaces, PartOf, Parts
      <4>2. a1[place] = m1[place] /\ a2[place] = m2[place]
        BY <4>1, <1>2, <2>1
      <4>3. Same(m1, m2, place, nb)
        BY <4>1 DEF Alike
      <4> QED BY <3>2, <4>2, <4>3 DEF Same, Parts
    <3> QED BY <3>1, <3>2
  <2>7. PartOf(call.arg) \in AllPlaces
    BY DEF PartOf, AllPlaces, Parts
  <2> QED BY <2>4, <2>6, <2>7 DEF Alike, a1, a2, out1, out2, x1, x2
<1>5. CASE call.kernel # "download"
  <2>1. NeedsOf(call) = Range(call.reads) /\ GivesOf(call) = Range(call.writes)
    BY <1>5 DEF NeedsOf, GivesOf
  <2>2. "down" \notin Range(call.writes)
    BY <1>5 DEF KernelFormed
  <2>3. ASSUME NEW name \in Range(call.writes), NEW b \in 0..nb - 1
        PROVE  a1[name][b] = a2[name][b]
    <3> DEFINE at == Position(call.writes, name)
    <3>1. name \in Blocked /\ name \in Buffers
      BY <1>1, <2>2, PlaceKinds
    <3>2. at \in 1..Len(call.writes) /\ DOMAIN call.writes = 1..Len(call.writes)
      BY PositionFound DEF KernelFormed
    <3>3. DOMAIN m1[name] = BlockSlots /\ DOMAIN m2[name] = BlockSlots
      BY <3>1 DEF MemoryOK
    <3>4. /\ b \in DOMAIN out1[at] /\ b \in DOMAIN out2[at] /\ out1[at][b] = out2[at][b]
      <4>1. CASE call.kernel = "upload"
        <5>1. /\ Len(call.writes) = 1 /\ call.reads[1] \in Blocked /\ 1 \in DOMAIN call.reads
          BY <4>1 DEF KernelFormed
        <5>2. out1 = <<x1[1]>> /\ out2 = <<x2[1]>>
          BY <4>1 DEF Output
        <5>3. x1[1] = m1[call.reads[1]] /\ x2[1] = m2[call.reads[1]]
          BY <5>1 DEF ReadFrom
        <5>4. at = 1
          BY <3>2, <5>1
        <5> HIDE DEF out1, out2, x1, x2, at
        <5>5. out1[at] = m1[call.reads[1]] /\ out2[at] = m2[call.reads[1]]
          BY <5>2, <5>3, <5>4
        <5>6. Same(m1, m2, call.reads[1], nb)
          BY <2>1, <5>1 DEF Alike, Range
        <5>7. call.reads[1] \notin Single /\ call.reads[1] \notin Parts
          BY <5>1, PlaceKinds
        <5>8. m1[call.reads[1]][b] = m2[call.reads[1]][b]
          BY <5>6, <5>7 DEF Same, Parts
        <5>9. DOMAIN m1[call.reads[1]] = BlockSlots /\ DOMAIN m2[call.reads[1]] = BlockSlots
          BY <5>1 DEF MemoryOK
        <5> QED BY <1>3, <5>5, <5>8, <5>9
      <4>2. CASE call.kernel # "upload"
        <5>1. \A k \in 0..nb - 1 : BlockOutput(n, call, x1, k) = BlockOutput(n, call, x2, k)
          BY <4>2, <1>5, BlocksAgree
        <5> DEFINE o1 == [k \in 0..nb - 1 |-> BlockOutput(n, call, x1, k)]
                   o2 == [k \in 0..nb - 1 |-> BlockOutput(n, call, x2, k)]
        <5>2. o1 = o2
          BY <5>1
        <5>3. out1 = PerBlock(o1, nb, Len(call.writes)) /\ out2 = PerBlock(o2, nb, Len(call.writes))
          BY <4>2, <1>5 DEF Output
        <5> HIDE DEF o1, o2, out1, out2, at
        <5>4. \A o : PerBlock(o, nb, Len(call.writes))[at] = [k \in 0..nb - 1 |-> o[k][at]]
          BY <3>2 DEF PerBlock
        <5> QED BY <5>2, <5>3, <5>4
      <4> QED BY <4>1, <4>2
    <3> HIDE DEF at, out1, out2
    <3>5. Over(out1[at], m1[name])[b] = out1[at][b] /\ Over(out2[at], m2[name])[b] = out2[at][b]
      BY <1>3, <3>3, <3>4 DEF Over
    <3> QED BY <1>2, <3>1, <3>4, <3>5 DEF at
  <2> HIDE DEF a1, a2, out1, out2, x1, x2
  <2>4. ASSUME NEW place \in AllPlaces, place \in places \/ place \in Range(call.writes)
        PROVE  Same(a1, a2, place, nb)
    <3>1. CASE place \in Range(call.writes)
      <4>1. place \notin Single /\ place \notin Parts
        BY <3>1, <1>1, <2>2, PlaceKinds
      <4> QED BY <3>1, <4>1, <2>3 DEF Same, Parts
    <3>2. CASE place \notin Range(call.writes)
      <4>1. Same(m1, m2, place, nb)
        BY <2>4, <3>2 DEF Alike
      <4>2. a1["down"] = m1["down"] /\ a2["down"] = m2["down"]
        BY <1>2, <2>2, PlaceKinds
      <4>3. place \in Buffers => a1[place] = m1[place] /\ a2[place] = m2[place]
        BY <1>2, <3>2
      <4>4. place \in Buffers \/ place = "down.out" \/ place = "down.bins"
        BY PlaceKinds DEF AllPlaces, Parts
      <4>5. "down.out" \notin Single /\ "down.bins" \notin Single
        BY DEF Single
      <4> QED BY <4>1, <4>2, <4>3, <4>4, <4>5 DEF Same
    <3> QED BY <3>1, <3>2
  <2>5. Range(call.writes) \subseteq AllPlaces
    BY <1>1, <2>2, PlaceKinds DEF AllPlaces
  <2> QED BY <2>1, <2>4, <2>5 DEF Alike, a1, a2, out1, out2, x1, x2
<1> QED BY <1>4, <1>5

-----------------------------------------------------------------------------
(* A batch, its calls B and the memory `after` each of them on its own.    *)

Planned(B, n, nb, known, job, after) ==
    /\ Sound(B, job, {"mtfpow"}, {}, {}) /\ nb \in 1..MaxBatch /\ job.nb = nb
    /\ after[0] = Opened(n, known)
    /\ \A k \in 1..Len(B) : after[k] = Done(n, nb, after[k - 1], B[k])

\* A command that reads a memory in shape is given what it may be.
LEMMA ReadShape ==
  ASSUME NEW m, MemoryOK(m), NEW call, KernelFormed(call)
  PROVE  ReadOK(call, ReadFrom(call, m))
<1> SUFFICES ASSUME call.kernel = "download"
             PROVE  /\ DOMAIN ReadFrom(call, m)[1] = BlockSlots
                    /\ DOMAIN ReadFrom(call, m)[2] = {"out", "bins"}
                    /\ DOMAIN ReadFrom(call, m)[2].out = BlockSlots
                    /\ DOMAIN ReadFrom(call, m)[2].bins = BlockSlots
  BY DEF ReadOK
<1>1. /\ DOMAIN call.reads = 1..2 /\ call.reads[1] \in {"out", "bins"} /\ call.reads[2] = "down"
  BY DEF KernelFormed
<1>2. ReadFrom(call, m)[1] = m[call.reads[1]] /\ ReadFrom(call, m)[2] = m["down"]
  BY <1>1 DEF ReadFrom
<1> QED BY <1>1, <1>2, PlaceKinds DEF MemoryOK

\* A call leaves a memory in shape.
LEMMA DoneShape ==
  ASSUME NEW n, NEW nb, NEW m, MemoryOK(m), NEW call, NEW job, Formed(call, job)
  PROVE  MemoryOK(Done(n, nb, m, call))
<1>1. CASE call.op = "ensure" \/ call.op = "finish"
  BY <1>1 DEF Done
<1>2. CASE call.op = "stage"
  <2>1. Done(n, nb, m, call) = [m EXCEPT !["up"] = Over(call.data, m["up"])]
    BY <1>2 DEF Done
  <2>2. DOMAIN Over(call.data, m["up"]) = DOMAIN m["up"]
    BY DEF Over
  <2> QED BY <2>1, <2>2, PlaceKinds DEF MemoryOK
<1>3. CASE call.op = "write"
  <2>1. Done(n, nb, m, call) = [m EXCEPT ![call.name] = call.value]
    BY <1>3 DEF Done
  <2>2. call.name \notin Blocked /\ call.name # "down"
    BY <1>3, PlaceKinds DEF Formed
  <2> QED BY <2>1, <2>2 DEF MemoryOK
<1>4. CASE call.op = "enqueue"
  <2>1. KernelFormed(call)
    BY <1>4 DEF Formed
  <2>2. Done(n, nb, m, call)
          = Stored(call, Output(n, call, nb, ReadFrom(call, m)), m, Buffers)
    BY <1>4 DEF Done, ReadFrom
  <2> QED BY <2>1, <2>2, ReadShape, StoredShape
<1> QED BY <1>1, <1>2, <1>3, <1>4 DEF Formed

\* Every memory of a batch on its own is in shape, every call of it in order.
LEMMA PlanShape ==
  ASSUME NEW B, NEW n, NEW nb, NEW known, NEW job, NEW after, Planned(B, n, nb, known, job, after)
  PROVE  /\ \E S : B \in Seq(S)
         /\ Len(B) \in Nat
         /\ \A k \in 0..Len(B) : MemoryOK(after[k])
         /\ \A k \in 1..Len(B) : InOrder(B, job, k, {"mtfpow"}, {}, {})
<1>1. /\ \E S : B \in Seq(S)
      /\ \A k \in 1..Len(B) : InOrder(B, job, k, {"mtfpow"}, {}, {})
  BY DEF Planned, Sound
<1>2. Len(B) \in Nat
  BY <1>1
<1> DEFINE S == {k \in Nat : k <= Len(B) => MemoryOK(after[k])}
<1>3. 0 \in S
  BY OpenedOK DEF Planned
<1>4. ASSUME NEW k \in Nat, k \in S PROVE k + 1 \in S
  <2> SUFFICES ASSUME k + 1 <= Len(B) PROVE MemoryOK(after[k + 1])
    OBVIOUS
  <2>1. MemoryOK(after[k])
    BY <1>2, <1>4
  <2>2. k + 1 \in 1..Len(B) /\ (k + 1) - 1 = k
    BY <1>2
  <2>3. after[k + 1] = Done(n, nb, after[k], B[k + 1])
    BY <2>2 DEF Planned
  <2>4. Formed(B[k + 1], job)
    BY <1>1, <2>2 DEF InOrder
  <2> QED BY <2>1, <2>3, <2>4, DoneShape
<1> HIDE DEF S
<1>5. Nat \subseteq S
  BY <1>3, <1>4, Induction
<1>6. \A k \in 0..Len(B) : MemoryOK(after[k])
  BY <1>2, <1>5 DEF S
<1> QED BY <1>1, <1>2, <1>6

\* What a further call adds to the totals.
LEMMA TotalsNext ==
  ASSUME NEW s, NEW k \in Nat
  PROVE  /\ Given(s, k + 1) = Given(s, k) \cup GivesOf(s[k + 1])
         /\ Touched(s, k + 1) = Touched(s, k) \cup TouchesOf(s[k + 1])
         /\ Ensured(s, k + 1) = Ensured(s, k) \cup EnsuresOf(s[k + 1])
<1>1. 1..(k + 1) = (1..k) \cup {k + 1}
  OBVIOUS
<1>2. Given(s, k + 1) = Given(s, k) \cup GivesOf(s[k + 1])
  BY <1>1, Zenon DEF Given
<1>3. Touched(s, k + 1) = Touched(s, k) \cup TouchesOf(s[k + 1])
  BY <1>1, Zenon DEF Touched
<1>4. Ensured(s, k + 1) = Ensured(s, k) \cup EnsuresOf(s[k + 1])
  BY <1>1, Zenon DEF Ensured
<1> QED BY <1>2, <1>3, <1>4

\* The totals grow.
LEMMA TotalsGrow ==
  ASSUME NEW s, NEW j \in Nat, NEW k \in Nat, j <= k
  PROVE  Given(s, j) \subseteq Given(s, k) /\ Touched(s, j) \subseteq Touched(s, k)
<1>1. \A i \in 1..j : i \in 1..k
  OBVIOUS
<1> QED BY <1>1 DEF Given, Touched

\* Making buffers large enough changes nothing in memory.
LEMMA Quiet ==
  ASSUME NEW B, NEW n, NEW nb, NEW known, NEW job, NEW after, Planned(B, n, nb, known, job, after),
         NEW j \in 0..Len(B), NEW e \in 0..j, \A k \in e + 1..j : B[k].op = "ensure"
  PROVE  after[j] = after[e] /\ Given(B, j) = Given(B, e)
<1>0. Len(B) \in Nat
  BY PlanShape
<1> DEFINE S == {d \in Nat : e + d <= j => after[e + d] = after[e] /\ Given(B, e + d) = Given(B, e)}
<1>1. 0 \in S
  BY <1>0
<1>2. ASSUME NEW d \in Nat, d \in S PROVE d + 1 \in S
  <2> SUFFICES ASSUME e + (d + 1) <= j
               PROVE  after[e + (d + 1)] = after[e] /\ Given(B, e + (d + 1)) = Given(B, e)
    OBVIOUS
  <2> DEFINE k == e + d
  <2>1. after[k] = after[e] /\ Given(B, k) = Given(B, e)
    BY <1>0, <1>2
  <2>2. k \in Nat /\ k + 1 \in 1..Len(B) /\ k + 1 \in e + 1..j /\ e + (d + 1) = k + 1 /\ (k + 1) - 1 = k
    BY <1>0
  <2> HIDE DEF k
  <2>3. B[k + 1].op = "ensure"
    BY <2>2
  <2>4. after[k + 1] = Done(n, nb, after[k], B[k + 1])
    BY <2>2 DEF Planned
  <2>5. Done(n, nb, after[k], B[k + 1]) = after[k] /\ GivesOf(B[k + 1]) = {}
    BY <2>3 DEF Done, GivesOf
  <2>6. Given(B, k + 1) = Given(B, k) \cup GivesOf(B[k + 1])
    BY <2>2, TotalsNext
  <2> QED BY <2>1, <2>2, <2>4, <2>5, <2>6
<1> HIDE DEF S
<1>3. Nat \subseteq S
  BY <1>1, <1>2, Induction
<1>4. j - e \in S /\ e + (j - e) = j
  BY <1>0, <1>3
<1> QED BY <1>4 DEF S

\* What is given was worked on.
LEMMA GivenTouched ==
  ASSUME NEW B, NEW job, NEW g0, NEW t0, NEW e0, Sound(B, job, g0, t0, e0), NEW k \in 0..Len(B),
         Len(B) \in Nat, NEW place \in Given(B, k)
  PROVE  /\ place \in AllPlaces
         /\ \/ place \in Single
            \/ place \in Parts /\ "down" \in Touched(B, k)
            \/ place \in Blocked /\ place \in Touched(B, k)
<1>1. PICK j \in 1..k : place \in GivesOf(B[j])
  BY DEF Given
<1>2. j \in 1..Len(B)
  OBVIOUS
<1>3. Formed(B[j], job)
  BY <1>2 DEF Sound, InOrder
<1>4. TouchesOf(B[j]) \subseteq Touched(B, k)
  BY DEF Touched
<1> DEFINE call == B[j]
<1> HIDE DEF call
<1>5. CASE call.op = "stage"
  BY <1>1, <1>4, <1>5, PlaceKinds DEF GivesOf, TouchesOf, call, AllPlaces
<1>6. CASE call.op = "write"
  BY <1>1, <1>3, <1>6 DEF GivesOf, Formed, call, AllPlaces
<1>7. CASE call.op = "enqueue" /\ call.kernel = "download"
  <2>1. KernelFormed(call) /\ Used(call) \subseteq Touched(B, k)
    BY <1>3, <1>4, <1>7 DEF Formed, TouchesOf, call
  <2>2. "down" \in Used(call)
    BY <1>7, <2>1 DEF KernelFormed, Used, Range
  <2>3. place \in Parts
    BY <1>1, <1>7 DEF GivesOf, call, PartOf, Parts
  <2> QED BY <2>1, <2>2, <2>3 DEF AllPlaces
<1>8. CASE call.op = "enqueue" /\ call.kernel # "download"
  <2>1. KernelFormed(call) /\ Used(call) \subseteq Touched(B, k) /\ place \in Range(call.writes)
    BY <1>1, <1>3, <1>4, <1>8 DEF Formed, TouchesOf, GivesOf, call
  <2>2. place \in Used(call) /\ place \in Sized /\ place # "down"
    BY <1>8, <2>1 DEF KernelFormed, Used
  <2> QED BY <2>1, <2>2, PlaceKinds DEF AllPlaces
<1>9. call.op \in {"stage", "write", "enqueue"}
  BY <1>1 DEF GivesOf, call
<1> QED BY <1>5, <1>6, <1>7, <1>8, <1>9

-----------------------------------------------------------------------------
(* The state while a thread holds the mutex.                               *)

\* A command of its own: nothing it works on was made anew since.
Mine(cmd, call, nb) ==
    /\ cmd.call = call /\ cmd.nb = nb /\ DOMAIN cmd.handle = Used(call)
    /\ \A name \in Used(call) : Current(cmd, name)

\* It has made the first i calls of B.  What the first e of them do is done,
\* the last q commands of the queue are those behind, at g[1] < .. < g[q], and
\* the device's memory agrees with the batch's on its own where it matters.
Holder(B, nb, after, i, e, q, g) ==
    /\ i \in 0..Len(B) /\ e \in 0..i /\ todo = SubSeq(B, i + 1, Len(B))
    /\ q \in 0..Len(queue) /\ g \in [1..q -> e + 1..i]
    /\ \A j, k \in 1..q : j < k => g[j] < g[k]
    /\ \A k \in e + 1..i : (\A j \in 1..q : g[j] # k) => B[k].op = "ensure"
    /\ \A j \in 1..q : B[g[j]].op = "enqueue" /\ Mine(queue[Len(queue) - q + j], B[g[j]], nb)
    /\ q < Len(queue) => Given(B, e) \subseteq {"up"}
    /\ Alike(mem, after[e], {"mtfpow"} \cup Given(B, e), nb)

CommandOK(cmd) == KernelFormed(cmd.call) /\ DOMAIN cmd.handle = Used(cmd.call)

DeviceOK ==
    /\ MemoryOK(mem) /\ mem["mtfpow"] = pow_level
    /\ \E S : queue \in Seq(S)
    /\ \A k \in 1..Len(queue) : CommandOK(queue[k])

BuffersOK == buf \in [Buffers -> [cap : Nat, handle : Nat]]

\* The chunks a scenario has.
Pieces(s) ==
    UNION {{Piece(call.blocks, k) : k \in 0..Len(call.blocks) - 1} : call \in CallsOf(s)}

\* The first of the calls still to be made, and the others.
LEMMA NextCall ==
  ASSUME NEW B, NEW S, B \in Seq(S), NEW i \in 0..Len(B), NEW t, t = SubSeq(B, i + 1, Len(B)), t # <<>>
  PROVE  /\ i + 1 \in 1..Len(B) /\ t[1] = B[i + 1] /\ Tail(t) = SubSeq(B, (i + 1) + 1, Len(B))
<1>1. Len(B) \in Nat
  OBVIOUS
<1>2. i < Len(B)
  <2> SUFFICES ASSUME ~(i < Len(B)) PROVE FALSE
    OBVIOUS
  <2>1. i + 1 > Len(B)
    BY <1>1
  <2> QED BY <1>1, <2>1
<1>3. t \in Seq(S) /\ Len(t) = Len(B) - i /\ \A k \in 1..Len(t) : t[k] = B[i + k]
  BY <1>1, <1>2
<1>4. t[1] = B[i + 1]
  BY <1>1, <1>2, <1>3
<1> DEFINE u == SubSeq(B, (i + 1) + 1, Len(B))
           v == Tail(t)
<1>5. v \in Seq(S) /\ Len(v) = Len(B) - i - 1 /\ \A k \in 1..Len(v) : v[k] = B[i + 1 + k]
  <2>1. /\ v \in Seq(S) /\ Len(v) = Len(t) - 1
        /\ \A k \in 1..Len(v) : v[k] = t[k + 1]
    BY <1>3, HeadTailProperties
  <2> HIDE DEF v
  <2>2. \A k \in 1..Len(v) : k + 1 \in 1..Len(t) /\ i + (k + 1) = i + 1 + k
    BY <1>1, <1>3, <2>1
  <2> QED BY <1>1, <1>3, <2>1, <2>2
<1>6. u \in Seq(S) /\ Len(u) = Len(B) - i - 1 /\ \A k \in 1..Len(u) : u[k] = B[i + 1 + k]
  BY <1>1, <1>2
<1> HIDE DEF u, v
<1>7. u = v
  BY <1>5, <1>6, SeqEqual
<1> QED BY <1>1, <1>2, <1>4, <1>7 DEF u, v

\* Calls that are not commands find none of its own in the queue.
LEMMA NoneBehind ==
  ASSUME NEW B, NEW n, NEW nb, NEW known, NEW job, NEW after, Planned(B, n, nb, known, job, after),
         NEW i, NEW e, NEW q, NEW g, Holder(B, nb, after, i, e, q, g),
         q = 0
  PROVE  after[i] = after[e] /\ Given(B, i) = Given(B, e) /\ i \in 0..Len(B) /\ Len(B) \in Nat
<1>1. Len(B) \in Nat
  BY PlanShape
<1>2. i \in 0..Len(B) /\ e \in 0..i
  BY DEF Holder
<1>3. \A k \in e + 1..i : B[k].op = "ensure"
  BY DEF Holder
<1> QED BY <1>1, <1>2, <1>3, Quiet

\* The upcoming call is that of the plan.
LEMMA UpcomingCall ==
  ASSUME NEW B, NEW n, NEW nb, NEW known, NEW job, NEW after, Planned(B, n, nb, known, job, after),
         NEW i, NEW e, NEW q, NEW g, Holder(B, nb, after, i, e, q, g), todo # <<>>
  PROVE  /\ i \in Nat /\ i + 1 \in 1..Len(B) /\ (i + 1) - 1 = i /\ e \in Nat /\ e <= i /\ Len(B) \in Nat
         /\ todo[1] = B[i + 1] /\ Tail(todo) = SubSeq(B, (i + 1) + 1, Len(B))
         /\ InOrder(B, job, i + 1, {"mtfpow"}, {}, {})
         /\ after[i + 1] = Done(n, nb, after[i], B[i + 1])
         /\ MemoryOK(after[i]) /\ MemoryOK(after[e]) /\ MemoryOK(after[i + 1])
<1>1. /\ Len(B) \in Nat /\ i \in 0..Len(B) /\ e \in 0..i
      /\ todo = SubSeq(B, i + 1, Len(B))
  BY PlanShape DEF Holder
<1>2. PICK S : B \in Seq(S)
  BY PlanShape
<1>3. i + 1 \in 1..Len(B) /\ todo[1] = B[i + 1] /\ Tail(todo) = SubSeq(B, (i + 1) + 1, Len(B))
  BY <1>1, <1>2, NextCall
<1>4. (i + 1) - 1 = i /\ i \in Nat /\ e \in Nat /\ e <= i /\ e \in 0..Len(B) /\ i + 1 \in 0..Len(B)
  BY <1>1, <1>3
<1>5. InOrder(B, job, i + 1, {"mtfpow"}, {}, {})
  BY <1>3, PlanShape
<1>6. after[i + 1] = Done(n, nb, after[i], B[i + 1])
  BY <1>3, <1>4 DEF Planned
<1>7. MemoryOK(after[i]) /\ MemoryOK(after[e]) /\ MemoryOK(after[i + 1])
  BY <1>1, <1>4, PlanShape
<1> QED BY <1>1, <1>3, <1>4, <1>5, <1>6, <1>7

\* What is among the commands of its own was touched.
LEMMA MineTouched ==
  ASSUME NEW B, NEW n, NEW nb, NEW known, NEW job, NEW after, Planned(B, n, nb, known, job, after),
         NEW i, NEW e, NEW q, NEW g, Holder(B, nb, after, i, e, q, g), NEW j \in 1..q
  PROVE  /\ g[j] \in 1..i /\ g[j] \in 1..Len(B) /\ KernelFormed(B[g[j]])
         /\ Used(B[g[j]]) \cup {"device"} \subseteq Touched(B, i)
<1>1. Len(B) \in Nat /\ i \in 0..Len(B) /\ e \in 0..i /\ g[j] \in e + 1..i
  BY PlanShape DEF Holder
<1>2. g[j] \in 1..i /\ g[j] \in 1..Len(B)
  BY <1>1
<1>3. B[g[j]].op = "enqueue"
  BY DEF Holder
<1>4. TouchesOf(B[g[j]]) \subseteq Touched(B, i)
  BY <1>2 DEF Touched
<1>5. Formed(B[g[j]], job)
  BY <1>2, PlanShape DEF InOrder
<1> QED BY <1>2, <1>3, <1>4, <1>5 DEF TouchesOf, Formed

\* A power of two there is.
LEMMA GrownIs ==
  ASSUME NEW u \in 1..128
  PROVE  Grown(u).cap \in Nat /\ Grown(u).handle \in Nat /\ Grown(u).handle # 0
         /\ Grown(u) \in [cap : Nat, handle : Nat]
<1> DEFINE T == {1, 2, 4, 8, 16, 32, 64, 128}
<1>1. \E x \in T : x >= u /\ x \div 2 < u
  <2>1. CASE u = 1
    BY <2>1
  <2>2. CASE u = 2
    BY <2>2
  <2>3. CASE u \in 3..4
    BY <2>3
  <2>4. CASE u \in 5..8
    BY <2>4
  <2>5. CASE u \in 9..16
    BY <2>5
  <2>6. CASE u \in 17..32
    BY <2>6
  <2>7. CASE u \in 33..64
    BY <2>7
  <2>8. CASE u \in 65..128
    BY <2>8
  <2> QED BY <2>1, <2>2, <2>3, <2>4, <2>5, <2>6, <2>7, <2>8
<1>2. NextPowerOfTwo(u) \in T
  BY <1>1 DEF NextPowerOfTwo
<1>3. NextPowerOfTwo(u) \in Nat
  BY <1>2
<1> QED BY <1>3 DEF Grown

\* A chunk of a call's blocks.
LEMMA PieceIs ==
  ASSUME NEW blocks \in Seq(Nat), NEW k \in 0..Len(blocks) - 1
  PROVE  /\ Piece(blocks, k) \in Seq(Nat) /\ Len(Piece(blocks, k)) \in 1..MaxBatch
         /\ k + Len(Piece(blocks, k)) \in 1..Len(blocks)
         /\ \A b \in 1..Len(Piece(blocks, k)) : Piece(blocks, k)[b] = blocks[k + b]
<1> DEFINE top == Min({k + MaxBatch, Len(blocks)})
<1>1. Len(blocks) \in Nat /\ MaxBatch \in 1..64
  BY BatchAssumption
<1>2. top \in k + 1..Len(blocks) /\ top <= k + MaxBatch
  <2>1. \E x \in {k + MaxBatch, Len(blocks)} : \A y \in {k + MaxBatch, Len(blocks)} : x <= y
    BY <1>1
  <2>2. top \in {k + MaxBatch, Len(blocks)} /\ \A y \in {k + MaxBatch, Len(blocks)} : top <= y
    BY <2>1 DEF Min
  <2> HIDE DEF top
  <2> QED BY <1>1, <2>2
<1>3. Piece(blocks, k) = SubSeq(blocks, k + 1, top)
  BY DEF Piece
<1> HIDE DEF top
<1>4. /\ SubSeq(blocks, k + 1, top) \in Seq(Nat) /\ Len(SubSeq(blocks, k + 1, top)) = top - k
      /\ \A b \in 1..top - k : SubSeq(blocks, k + 1, top)[b] = blocks[k + b]
  <2>1. \A b \in k + 1..top : blocks[b] \in Nat
    BY <1>1, <1>2
  <2>2. k + 1 \in Int /\ top \in Int /\ k + 1 <= top
    BY <1>1, <1>2
  <2>3. /\ SubSeq(blocks, k + 1, top) \in Seq(Nat)
        /\ Len(SubSeq(blocks, k + 1, top)) = IF k + 1 <= top THEN top - (k + 1) + 1 ELSE 0
        /\ \A b \in 1..top - (k + 1) + 1 : SubSeq(blocks, k + 1, top)[b] = blocks[(k + 1) + b - 1]
    BY <2>1, <2>2, SubSeqProperties
  <2> DEFINE u == SubSeq(blocks, k + 1, top)
  <2> HIDE DEF u
  <2>4. u \in Seq(Nat) /\ Len(u) = top - k
    BY <1>1, <2>2, <2>3 DEF u
  <2>5. \A b \in 1..top - k : b \in 1..top - (k + 1) + 1 /\ (k + 1) + b - 1 = k + b
    BY <1>1, <2>2
  <2>6. \A b \in 1..top - k : u[b] = blocks[k + b]
    BY <2>3, <2>5 DEF u
  <2> QED BY <2>4, <2>6 DEF u
<1> DEFINE p == Piece(blocks, k)
<1> HIDE DEF p
<1>5. p \in Seq(Nat) /\ Len(p) = top - k /\ \A b \in 1..top - k : p[b] = blocks[k + b]
  BY <1>3, <1>4 DEF p
<1>6. Len(p) \in 1..MaxBatch /\ k + Len(p) \in 1..Len(blocks)
  BY <1>1, <1>2, <1>5
<1> QED BY <1>5, <1>6 DEF p

\* A call of a scenario has blocks and a level.
LEMMA CallTyped ==
  ASSUME NEW s \in Scenarios, NEW call \in CallsOf(s)
  PROVE  call.blocks \in Seq(Nat) /\ Len(call.blocks) \in Nat \ {0} /\ call.level \in Nat
<1>1. s.calls \in [Callers -> Seq([blocks : Seq(Nat) \ {<<>>}, level : Nat])]
  BY ScenarioAssumption
<1>2. PICK c \in Callers : call \in Range(s.calls[c])
  BY DEF CallsOf
<1> DEFINE R == [blocks : Seq(Nat) \ {<<>>}, level : Nat]
           t == s.calls[c]
<1>5. t \in Seq(R)
  BY <1>1
<1>3. call \in R
  <2> HIDE DEF R
  <2>1. PICK j \in DOMAIN t : call = t[j]
    BY <1>2 DEF Range
  <2> HIDE DEF t
  <2> QED BY <1>5, <2>1
<1>4. call.blocks \in Seq(Nat) /\ call.blocks # <<>> /\ call.level \in Nat
  BY <1>3
<1> QED BY <1>4

\* No buffer is asked for more than twice the largest batch.
LEMMA SizeRange ==
  ASSUME NEW s \in Scenarios, NEW p \in Pieces(s), NEW name \in Sized
  PROVE  SizeOf(s.len, p)[name] \in 1..128
<1>1. PICK call \in CallsOf(s) : p \in {Piece(call.blocks, k) : k \in 0..Len(call.blocks) - 1}
  BY DEF Pieces
<1>2. Len(p) \in 1..MaxBatch
  BY <1>1, CallTyped, PieceIs
<1>3. SizeOf(s.len, p)[name] = Len(p) \/ SizeOf(s.len, p)[name] = 2 * Len(p)
  BY DEF SizeOf
<1> DEFINE m == Len(p)
<1> HIDE DEF m
<1>4. MaxBatch \in 1..64 /\ m \in 1..MaxBatch
  BY <1>2, BatchAssumption DEF m
<1>5. m \in 1..128 /\ 2 * m \in 1..128
  BY <1>4
<1> QED BY <1>3, <1>5 DEF m

\* Making buffers large enough.
LEMMA EnsureStep ==
  ASSUME scen \in Scenarios, NEW p \in Pieces(scen),
         NEW B, NEW n, NEW nb, NEW known, NEW job, NEW after, Planned(B, n, nb, known, job, after),
         job.size = SizeOf(scen.len, p),
         NEW i, NEW e, NEW q, NEW g, Holder(B, nb, after, i, e, q, g),
         DeviceOK, BuffersOK, EnsureBuffers
  PROVE  Holder(B, nb, after, i + 1, e, q, g)' /\ DeviceOK' /\ BuffersOK'
<1> DEFINE names == Range(todo[1].names)
           units == todo[1].units
           grown == {name \in names : Grows(name, units)}
<1>1. /\ todo # <<>> /\ todo[1].op = "ensure" /\ todo' = Tail(todo)
      /\ buf' = [name \in Buffers |-> IF name \in grown THEN Grown(units) ELSE buf[name]]
      /\ mem' = [name \in Buffers |-> IF name \in grown THEN Junk(scen.len, name) ELSE mem[name]]
      /\ UNCHANGED <<scen, queue, pow_level>>
  BY DEF EnsureBuffers, Upcoming, Past
<1>2. /\ i \in Nat /\ i + 1 \in 1..Len(B) /\ (i + 1) - 1 = i /\ e \in Nat /\ e <= i /\ Len(B) \in Nat
      /\ todo[1] = B[i + 1] /\ Tail(todo) = SubSeq(B, (i + 1) + 1, Len(B))
      /\ InOrder(B, job, i + 1, {"mtfpow"}, {}, {})
  <2>1. todo # <<>>
    BY <1>1
  <2> QED BY <2>1, UpcomingCall
<1>3. names \subseteq Sized /\ \A name \in names : units = SizeOf(scen.len, p)[name]
  BY <1>1, <1>2 DEF InOrder, Formed
<1>4. names \cap Touched(B, i) = {}
  BY <1>1, <1>2 DEF InOrder, ForbidsOf
<1> HIDE DEF names, units
<1>5. \A name \in grown : Grown(units) \in [cap : Nat, handle : Nat]
  BY <1>3, SizeRange, GrownIs
<1>6. grown \subseteq Sized /\ grown \subseteq Buffers /\ Sized \subseteq Buffers /\ grown \subseteq names
  BY <1>3, PlaceKinds
<1>7. \A name \in grown : buf'[name] = Grown(units) /\ mem'[name] = Junk(scen.len, name)
  BY <1>1, <1>6
<1>8. \A name \in Buffers : name \notin grown => buf'[name] = buf[name] /\ mem'[name] = mem[name]
  BY <1>1
<1>9. DOMAIN buf' = Buffers /\ DOMAIN mem' = Buffers
  BY <1>1
<1> HIDE DEF grown
<1>11. BuffersOK'
  <2>1. \A name \in Buffers : buf'[name] \in [cap : Nat, handle : Nat]
    BY <1>5, <1>7, <1>8 DEF BuffersOK
  <2>2. buf' = [name \in Buffers |-> buf'[name]]
    BY <1>1
  <2> QED BY <2>1, <2>2 DEF BuffersOK
<1>12. DeviceOK'
  <2>1. MemoryOK(mem')
    <3>1. ASSUME NEW name \in Blocked PROVE DOMAIN mem'[name] = BlockSlots
      <4>1. mem'[name] = Junk(scen.len, name) \/ mem'[name] = mem[name]
        BY <1>7, <1>8, PlaceKinds
      <4> QED BY <4>1, JunkSlots DEF DeviceOK, MemoryOK
    <3>2. /\ DOMAIN mem'["down"] = {"out", "bins"}
          /\ DOMAIN mem'["down"].out = BlockSlots /\ DOMAIN mem'["down"].bins = BlockSlots
      <4>1. mem'["down"] = Junk(scen.len, "down") \/ mem'["down"] = mem["down"]
        BY <1>7, <1>8, PlaceKinds
      <4> QED BY <4>1, JunkSlots DEF DeviceOK, MemoryOK
    <3> QED BY <1>9, <3>1, <3>2 DEF MemoryOK
  <2>2. mem'["mtfpow"] = mem["mtfpow"]
    BY <1>6, <1>8, PlaceKinds
  <2> QED BY <1>1, <2>1, <2>2 DEF DeviceOK, CommandOK
<1>13. Holder(B, nb, after, i + 1, e, q, g)'
  <2>1. i + 1 \in 0..Len(B) /\ e \in 0..i + 1
    BY <1>2
  <2>2. q \in 0..Len(queue') /\ g \in [1..q -> e + 1..i + 1]
    <3>1. q \in 0..Len(queue) /\ g \in [1..q -> e + 1..i]
      BY DEF Holder
    <3>2. \A x \in e + 1..i : x \in e + 1..i + 1
      BY <1>2
    <3>3. g \in [1..q -> e + 1..i + 1]
      BY <3>1, <3>2
    <3> QED BY <1>1, <3>1, <3>3
  <2>3. \A k \in e + 1..i + 1 : (\A j \in 1..q : g[j] # k) => B[k].op = "ensure"
    <3>1. \A k \in e + 1..i + 1 : k \in e + 1..i \/ k = i + 1
      BY <1>2
    <3> QED BY <1>1, <1>2, <3>1 DEF Holder
  <2>4. ASSUME NEW j \in 1..q
        PROVE  B[g[j]].op = "enqueue" /\ Mine(queue[Len(queue) - q + j], B[g[j]], nb)'
    <3>1. B[g[j]].op = "enqueue" /\ Mine(queue[Len(queue) - q + j], B[g[j]], nb)
      BY DEF Holder
    <3>2. Used(B[g[j]]) \subseteq Touched(B, i) /\ Used(B[g[j]]) \subseteq Buffers
      BY MineTouched, PlaceKinds DEF KernelFormed, Used
    <3>3. \A name \in Used(B[g[j]]) : buf'[name] = buf[name]
      BY <1>4, <1>6, <1>8, <3>2
    <3> QED BY <1>1, <3>1, <3>3 DEF Mine, Current
  <2>5. \A place \in {"mtfpow"} \cup Given(B, e) : Same(mem', after[e], place, nb)
    <3> SUFFICES ASSUME NEW place \in {"mtfpow"} \cup Given(B, e)
                 PROVE  Same(mem', after[e], place, nb)
      OBVIOUS
    <3>1. Same(mem, after[e], place, nb)
      BY DEF Holder, Alike
    <3>2. Touched(B, e) \subseteq Touched(B, i) /\ e \in 0..Len(B)
      BY <1>2, TotalsGrow
    <3>3. \/ place \in Single
          \/ place \in Parts /\ "down" \in Touched(B, i)
          \/ place \in Blocked /\ place \in Touched(B, i)
      <4>1. CASE place = "mtfpow"
        BY <4>1, PlaceKinds
      <4>2. CASE place \in Given(B, e)
        BY <4>2, <1>2, <3>2, GivenTouched DEF Planned
      <4> QED BY <4>1, <4>2
    <3>4. CASE place \in Single
      <4>1. mem'[place] = mem[place]
        BY <3>4, <1>6, <1>8, PlaceKinds
      <4> QED BY <3>1, <3>4, <4>1 DEF Same
    <3>5. CASE place \in Parts /\ "down" \in Touched(B, i)
      <4>1. mem'["down"] = mem["down"]
        BY <3>5, <1>4, <1>6, <1>8, PlaceKinds
      <4>2. place \notin Single
        BY <3>5, PlaceKinds
      <4>3. place = "down.out" \/ place = "down.bins"
        BY <3>5 DEF Parts
      <4> QED BY <3>1, <4>1, <4>2, <4>3 DEF Same
    <3>6. CASE place \in Blocked /\ place \in Touched(B, i)
      <4>1. mem'[place] = mem[place]
        BY <3>6, <1>4, <1>6, <1>8, PlaceKinds
      <4>2. place \notin Parts
        BY <3>6, PlaceKinds
      <4> QED BY <3>1, <4>1, <4>2 DEF Same, Parts
    <3> QED BY <3>3, <3>4, <3>5, <3>6
  <2> QED BY <1>1, <1>2, <2>1, <2>2, <2>3, <2>4, <2>5 DEF Holder, Alike
<1> QED BY <1>11, <1>12, <1>13

\* The buffer a place is in, and a change elsewhere.
Home(place) == IF place \in Parts THEN "down" ELSE place

\* A place whose buffer did not change holds the same as before.
LEMMA SameElsewhere ==
  ASSUME NEW m1, NEW m2, NEW k1, NEW k2, NEW nb, NEW place \in AllPlaces, Same(m1, m2, place, nb),
         k1[Home(place)] = m1[Home(place)], k2[Home(place)] = m2[Home(place)]
  PROVE  Same(k1, k2, place, nb)
<1>1. CASE place \in Parts
  <2>1. k1["down"] = m1["down"] /\ k2["down"] = m2["down"]
    BY <1>1 DEF Home
  <2>2. place \notin Single
    BY <1>1, PlaceKinds
  <2>3. place = "down.out" \/ place = "down.bins"
    BY <1>1 DEF Parts
  <2> QED BY <2>1, <2>2, <2>3 DEF Same
<1>2. CASE place \notin Parts
  <2>1. k1[place] = m1[place] /\ k2[place] = m2[place]
    BY <1>2 DEF Home
  <2>2. place # "down.out" /\ place # "down.bins"
    BY <1>2 DEF Parts
  <2> QED BY <2>1, <2>2 DEF Same
<1> QED BY <1>1, <1>2

\* Where a place is.
LEMMA Homes ==
  ASSUME NEW place \in AllPlaces
  PROVE  /\ Home(place) \in Buffers /\ (Home(place) = "up" => place = "up")
         /\ Home(place) \in Single => place = Home(place)
<1>1. CASE place \in Parts
  BY <1>1, PlaceKinds DEF Home
<1>2. CASE place \notin Parts
  BY <1>2, PlaceKinds DEF Home, AllPlaces
<1> QED BY <1>1, <1>2

\* The places in hand.
LEMMA PlacesInHand ==
  ASSUME NEW B, NEW n, NEW nb, NEW known, NEW job, NEW after, Planned(B, n, nb, known, job, after),
         NEW k \in 0..Len(B)
  PROVE  {"mtfpow"} \cup Given(B, k) \subseteq AllPlaces
<1>1. Len(B) \in Nat
  BY PlanShape
<1>2. \A place \in Given(B, k) : place \in AllPlaces
  BY <1>1, GivenTouched DEF Planned
<1>3. "mtfpow" \in AllPlaces
  BY PlaceKinds DEF AllPlaces
<1> QED BY <1>2, <1>3

\* Filling the staging memory.
LEMMA StageStep ==
  ASSUME NEW B, NEW n, NEW nb, NEW known, NEW job, NEW after, Planned(B, n, nb, known, job, after),
         NEW i, NEW e, NEW q, NEW g, Holder(B, nb, after, i, e, q, g),
         DeviceOK, BuffersOK, StageInput
  PROVE  Holder(B, nb, after, i + 1, i + 1, 0, g)' /\ DeviceOK' /\ BuffersOK'
<1> DEFINE data == todo[1].data
<1>1. /\ todo # <<>> /\ todo[1].op = "stage" /\ todo' = Tail(todo)
      /\ mem' = [mem EXCEPT !["up"] = Over(data, mem["up"])]
      /\ UNCHANGED <<scen, buf, queue, pow_level>>
  BY DEF StageInput, Upcoming, Past
<1>2. /\ i \in Nat /\ i + 1 \in 1..Len(B) /\ (i + 1) - 1 = i /\ e \in Nat /\ e <= i /\ Len(B) \in Nat
      /\ todo[1] = B[i + 1] /\ Tail(todo) = SubSeq(B, (i + 1) + 1, Len(B))
      /\ InOrder(B, job, i + 1, {"mtfpow"}, {}, {})
      /\ after[i + 1] = Done(n, nb, after[i], B[i + 1]) /\ MemoryOK(after[i])
  <2>1. todo # <<>>
    BY <1>1
  <2> QED BY <2>1, UpcomingCall
<1>3. q = 0
  <2>1. "device" \notin Touched(B, i)
    BY <1>1, <1>2 DEF InOrder, ForbidsOf
  <2>2. q \in Nat
    BY DEF Holder, DeviceOK
  <2>3. ~(1 \in 1..q)
    BY <2>1, MineTouched
  <2> QED BY <2>2, <2>3
<1>4. after[i] = after[e] /\ Given(B, i) = Given(B, e)
  BY <1>3, NoneBehind
<1>5. DOMAIN data = 0..nb - 1
  BY <1>1, <1>2 DEF InOrder, Formed, Planned
<1> HIDE DEF data
<1>6. DOMAIN mem = Buffers /\ "up" \in Buffers /\ DOMAIN mem["up"] = BlockSlots /\ DOMAIN after[i]["up"] = BlockSlots
  BY <1>2, PlaceKinds DEF DeviceOK, MemoryOK
<1>7. /\ mem'["up"] = Over(data, mem["up"]) /\ DOMAIN mem' = Buffers
      /\ \A name \in Buffers : name # "up" => mem'[name] = mem[name]
  BY <1>1, <1>6
<1>8. after[i + 1] = [after[i] EXCEPT !["up"] = Over(data, after[i]["up"])]
  BY <1>1, <1>2 DEF Done, data
<1>9. /\ after[i + 1]["up"] = Over(data, after[i]["up"])
      /\ \A name \in Buffers : name # "up" => after[i + 1][name] = after[i][name]
  BY <1>2, <1>6, <1>8 DEF MemoryOK
<1>10. Given(B, i + 1) = Given(B, i) \cup {"up"}
  <2>1. GivesOf(B[i + 1]) = {"up"}
    BY <1>1, <1>2 DEF GivesOf
  <2>2. Given(B, i + 1) = Given(B, i) \cup GivesOf(B[i + 1])
    BY <1>2, TotalsNext
  <2> QED BY <2>1, <2>2
<1>11. DeviceOK'
  <2>1. MemoryOK(mem')
    <3>1. DOMAIN mem'["up"] = BlockSlots
      BY <1>6, <1>7 DEF Over
    <3>2. \A name \in Blocked : DOMAIN mem'[name] = BlockSlots
      BY <1>7, <3>1, PlaceKinds DEF DeviceOK, MemoryOK
    <3>3. mem'["down"] = mem["down"]
      BY <1>7, PlaceKinds
    <3> QED BY <1>7, <3>2, <3>3 DEF MemoryOK, DeviceOK
  <2>2. mem'["mtfpow"] = mem["mtfpow"]
    BY <1>7, PlaceKinds
  <2> QED BY <1>1, <2>1, <2>2 DEF DeviceOK, CommandOK
<1>12. BuffersOK'
  BY <1>1 DEF BuffersOK
<1>13. Alike(mem', after[i + 1], {"mtfpow"} \cup Given(B, i + 1), nb)
  <2> SUFFICES ASSUME NEW place \in {"mtfpow"} \cup Given(B, i + 1)
               PROVE  Same(mem', after[i + 1], place, nb)
    BY DEF Alike
  <2>1. CASE place = "up"
    <3>1. \A b \in 0..nb - 1 : b \in BlockSlots
      BY BatchAssumption DEF BlockSlots, Planned
    <3>2. \A b \in 0..nb - 1 : mem'["up"][b] = after[i + 1]["up"][b]
      BY <1>5, <1>6, <1>7, <1>9, <3>1 DEF Over
    <3>3. place \notin Single /\ place \notin Parts
      BY <2>1, PlaceKinds
    <3> QED BY <2>1, <3>2, <3>3 DEF Same, Parts
  <2>2. CASE place # "up"
    <3>1. place \in {"mtfpow"} \cup Given(B, e)
      BY <2>2, <1>4, <1>10
    <3>2. Same(mem, after[i], place, nb)
      BY <1>4, <3>1 DEF Holder, Alike
    <3>3. place \in AllPlaces
      BY <1>2, PlacesInHand
    <3>4. Home(place) \in Buffers /\ Home(place) # "up"
      BY <2>2, <3>3, Homes
    <3> QED BY <1>7, <1>9, <3>2, <3>3, <3>4, SameElsewhere
  <2> QED BY <2>1, <2>2
<1>14. Holder(B, nb, after, i + 1, i + 1, 0, g)'
  <2>1. i + 1 \in 0..Len(B) /\ i + 1 \in 0..i + 1
    BY <1>2
  <2>2. 0 \in 0..Len(queue') /\ g \in [1..0 -> (i + 1) + 1..i + 1]
    <3>1. g \in [1..0 -> e + 1..i] /\ Len(queue) \in Nat
      BY <1>3 DEF Holder, DeviceOK
    <3>2. 1..0 = {}
      OBVIOUS
    <3> QED BY <1>1, <3>1, <3>2
  <2>3. 0 < Len(queue') => Given(B, i + 1) \subseteq {"up"}
    BY <1>1, <1>3, <1>4, <1>10 DEF Holder
  <2>5. \A k \in (i + 1) + 1..i + 1 : FALSE
    BY <1>2
  <2>6. \A j \in 1..0 : FALSE
    OBVIOUS
  <2> QED BY <1>1, <1>2, <1>13, <2>1, <2>2, <2>3, <2>5, <2>6 DEF Holder
<1> QED BY <1>11, <1>12, <1>14

\* Enqueuing a command, all of whose buffers have memory.
LEMMA EnqueueStep ==
  ASSUME NEW B, NEW n, NEW nb, NEW known, NEW job, NEW after, Planned(B, n, nb, known, job, after),
         NEW i, NEW e, NEW q, NEW g, Holder(B, nb, after, i, e, q, g), nb = Len(Chunk(lock)),
         DeviceOK, BuffersOK, EnqueueCommand, ~blind'
  PROVE  (\E h : Holder(B, nb, after, i + 1, e, q + 1, h)') /\ DeviceOK' /\ BuffersOK'
<1> DEFINE call == todo[1]
           cmd == [call |-> call, handle |-> Held(call), nb |-> nb]
           h == [j \in 1..q + 1 |-> IF j <= q THEN g[j] ELSE i + 1]
<1>1. /\ todo # <<>> /\ call.op = "enqueue" /\ todo' = Tail(todo) /\ queue' = Append(queue, cmd)
      /\ UNCHANGED <<scen, buf, mem, pow_level>>
  BY DEF EnqueueCommand, Upcoming, Past
<1>2. /\ i \in Nat /\ i + 1 \in 1..Len(B) /\ (i + 1) - 1 = i /\ e \in Nat /\ e <= i /\ Len(B) \in Nat
      /\ call = B[i + 1] /\ Tail(todo) = SubSeq(B, (i + 1) + 1, Len(B))
      /\ InOrder(B, job, i + 1, {"mtfpow"}, {}, {})
  <2>1. todo # <<>>
    BY <1>1
  <2> QED BY <2>1, UpcomingCall DEF call
<1>3. KernelFormed(call)
  BY <1>1, <1>2 DEF InOrder, Formed
<1>5. \A name \in Used(call) : buf[name].handle # 0
  BY DEF EnqueueCommand, Lost
<1> HIDE DEF call
<1>6. Mine(cmd, call, nb)
  <2>1. cmd.call = call /\ cmd.nb = nb /\ cmd.handle = Held(call)
    OBVIOUS
  <2>2. DOMAIN Held(call) = Used(call) /\ \A name \in Used(call) : Held(call)[name] = buf[name].handle
    BY DEF Held
  <2> QED BY <1>5, <2>1, <2>2 DEF Mine, Current
<1>7. CommandOK(cmd)
  BY <1>3, <1>6 DEF CommandOK, Mine
<1> HIDE DEF cmd
<1>8. PICK S : queue \in Seq(S)
  BY DEF DeviceOK
<1> DEFINE len == Len(queue)
<1>9. /\ queue' \in Seq(S \cup {cmd}) /\ len \in Nat /\ Len(queue') = len + 1
      /\ \A k \in 1..len : queue'[k] = queue[k]
      /\ queue'[len + 1] = cmd
  <2>1. queue \in Seq(S \cup {cmd}) /\ len \in Nat
    BY <1>8
  <2> QED BY <1>1, <2>1
<1> HIDE DEF len
<1>10. DeviceOK'
  <2>1. \A k \in 1..Len(queue') : CommandOK(queue'[k])
    <3> SUFFICES ASSUME NEW k \in 1..Len(queue') PROVE CommandOK(queue'[k])
      OBVIOUS
    <3>1. k \in 1..len \/ k = len + 1
      BY <1>9
    <3> QED BY <1>7, <1>9, <3>1 DEF DeviceOK, len
  <2> QED BY <1>1, <1>9, <2>1 DEF DeviceOK, CommandOK
<1>11. BuffersOK'
  BY <1>1 DEF BuffersOK
<1>12. /\ q \in 0..len /\ g \in [1..q -> e + 1..i]
       /\ \A j, k \in 1..q : j < k => g[j] < g[k]
       /\ \A k \in e + 1..i : (\A j \in 1..q : g[j] # k) => B[k].op = "ensure"
       /\ \A j \in 1..q : B[g[j]].op = "enqueue" /\ Mine(queue[len - q + j], B[g[j]], nb)
       /\ q < len => Given(B, e) \subseteq {"up"}
  BY DEF Holder, len
<1>13. /\ h \in [1..q + 1 -> e + 1..i + 1] /\ h[q + 1] = i + 1
       /\ \A j \in 1..q : h[j] = g[j] /\ j \in 1..q + 1 /\ g[j] \in e + 1..i
  <2>1. q \in Nat /\ g \in [1..q -> e + 1..i]
    BY <1>9, <1>12
  <2>2. i + 1 \in e + 1..i + 1 /\ \A x \in e + 1..i : x \in e + 1..i + 1
    BY <1>2
  <2>3. h[q + 1] = i + 1
    BY <2>1
  <2>4. ASSUME NEW j \in 1..q PROVE h[j] = g[j] /\ j \in 1..q + 1 /\ g[j] \in e + 1..i
    BY <2>1
  <2>5. ASSUME NEW j \in 1..q + 1 PROVE h[j] \in e + 1..i + 1
    <3>1. j \in 1..q \/ j = q + 1
      BY <2>1
    <3> QED BY <2>2, <2>3, <2>4, <3>1
  <2>6. h \in [1..q + 1 -> e + 1..i + 1]
    BY <2>5
  <2> QED BY <2>3, <2>4, <2>6
<1> HIDE DEF h
<1>14. ASSUME NEW j \in 1..q + 1, NEW k \in 1..q + 1, j < k PROVE h[j] < h[k]
  <2>1. j \in 1..q /\ (k \in 1..q \/ k = q + 1)
    <3>1. q \in Nat
      BY <1>9, <1>12
    <3> QED BY <1>14, <3>1
  <2>2. CASE k \in 1..q
    <3>1. g[j] < g[k]
      BY <1>12, <1>14, <2>1, <2>2
    <3> QED BY <1>13, <2>1, <2>2, <3>1
  <2>3. CASE k = q + 1
    <3>1. h[j] \in e + 1..i /\ h[k] = i + 1
      BY <1>13, <2>1, <2>3
    <3> QED BY <1>2, <3>1
  <2> QED BY <2>1, <2>2, <2>3
<1>15. ASSUME NEW k \in e + 1..i + 1, \A j \in 1..q + 1 : h[j] # k PROVE B[k].op = "ensure"
  <2>1. k # i + 1
    BY <1>9, <1>12, <1>13, <1>15
  <2>2. k \in e + 1..i
    BY <1>2, <2>1
  <2>3. \A j \in 1..q : g[j] # k
    BY <1>13, <1>15
  <2> QED BY <1>12, <2>2, <2>3
<1>16. ASSUME NEW j \in 1..q + 1
       PROVE  B[h[j]].op = "enqueue" /\ Mine(queue'[Len(queue') - (q + 1) + j], B[h[j]], nb)
  <2>1. CASE j \in 1..q
    <3>1. Len(queue') - (q + 1) + j = len - q + j /\ len - q + j \in 1..len
      <4>1. len \in Nat /\ Len(queue') = len + 1 /\ q \in 0..len
        BY <1>9, <1>12
      <4> QED BY <2>1, <4>1
    <3>2. queue'[len - q + j] = queue[len - q + j] /\ h[j] = g[j]
      BY <1>9, <1>13, <2>1, <3>1
    <3> QED BY <1>12, <2>1, <3>1, <3>2
  <2>2. CASE j = q + 1
    <3>1. Len(queue') - (q + 1) + j = len + 1
      BY <1>9, <1>12, <2>2
    <3> QED BY <1>1, <1>2, <1>6, <1>9, <1>13, <2>2, <3>1
  <2> QED BY <1>12, <1>9, <2>1, <2>2
<1>17. \A j \in 1..q + 1 : Mine(queue[Len(queue) - (q + 1) + j], B[h[j]], nb)'
  BY <1>1, <1>16 DEF Mine, Current
<1>18. Alike(mem', after[e], {"mtfpow"} \cup Given(B, e), nb)
  BY <1>1 DEF Holder
<1>20. i + 1 \in 0..Len(B) /\ e \in 0..i + 1 /\ q + 1 \in 0..Len(queue')
  <2>1. i + 1 \in 0..Len(B) /\ e \in 0..i + 1
    BY <1>2
  <2>2. q + 1 \in 0..Len(queue')
    BY <1>9, <1>12
  <2> QED BY <2>1, <2>2
<1>21. q + 1 < Len(queue') => Given(B, e) \subseteq {"up"}
  BY <1>9, <1>12
<1>22. Holder(B, nb, after, i + 1, e, q + 1, h)'
  BY <1>1, <1>2, <1>13, <1>14, <1>15, <1>16, <1>17, <1>18, <1>20, <1>21 DEF Holder
<1> QED BY <1>10, <1>11, <1>22

\* A blocking write.
LEMMA WriteStep ==
  ASSUME NEW B, NEW n, NEW nb, NEW known, NEW job, NEW after, Planned(B, n, nb, known, job, after),
         NEW i, NEW e, NEW q, NEW g, Holder(B, nb, after, i, e, q, g),
         DeviceOK, BuffersOK, BlockingWrite
  PROVE  /\ Holder(B, nb, after, i + 1, i + 1, 0, g)' /\ DeviceOK' /\ BuffersOK'
         /\ pow_level' \in {pow_level, job.level}
<1> DEFINE name == todo[1].name
           value == todo[1].value
<1>1. /\ todo # <<>> /\ todo[1].op = "write" /\ todo' = Tail(todo) /\ queue = <<>>
      /\ mem' = [mem EXCEPT ![name] = value]
      /\ pow_level' = IF name = "mtfpow" THEN value ELSE pow_level
      /\ UNCHANGED <<scen, buf, queue>>
  BY DEF BlockingWrite, Upcoming, Past
<1>2. /\ i \in Nat /\ i + 1 \in 1..Len(B) /\ (i + 1) - 1 = i /\ e \in Nat /\ e <= i /\ Len(B) \in Nat
      /\ todo[1] = B[i + 1] /\ Tail(todo) = SubSeq(B, (i + 1) + 1, Len(B))
      /\ InOrder(B, job, i + 1, {"mtfpow"}, {}, {})
      /\ after[i + 1] = Done(n, nb, after[i], B[i + 1]) /\ MemoryOK(after[i])
  <2>1. todo # <<>>
    BY <1>1
  <2> QED BY <2>1, UpcomingCall
<1>3. Len(queue) = 0 /\ q = 0
  BY <1>1 DEF Holder
<1>4. after[i] = after[e] /\ Given(B, i) = Given(B, e)
  BY <1>3, NoneBehind
<1>5. name \in Single /\ (name = "mtfpow" => value = job.level)
  BY <1>1, <1>2 DEF InOrder, Formed
<1>6. after[i + 1] = [after[i] EXCEPT ![name] = value]
  BY <1>1, <1>2 DEF Done
<1>7. Given(B, i + 1) = Given(B, i) \cup {name}
  <2>1. GivesOf(B[i + 1]) = {name}
    BY <1>1, <1>2 DEF GivesOf
  <2>2. Given(B, i + 1) = Given(B, i) \cup GivesOf(B[i + 1])
    BY <1>2, TotalsNext
  <2> QED BY <2>1, <2>2
<1> HIDE DEF name, value
<1>8. DOMAIN mem = Buffers /\ DOMAIN after[i] = Buffers /\ name \in Buffers
  BY <1>2, <1>5, PlaceKinds DEF DeviceOK, MemoryOK
<1>9. /\ mem'[name] = value /\ DOMAIN mem' = Buffers
      /\ \A x \in Buffers : x # name => mem'[x] = mem[x]
  BY <1>1, <1>8
<1>10. /\ after[i + 1][name] = value
       /\ \A x \in Buffers : x # name => after[i + 1][x] = after[i][x]
  BY <1>6, <1>8
<1>11. DeviceOK'
  <2>1. MemoryOK(mem')
    <3>1. \A x \in Blocked \cup {"down"} : mem'[x] = mem[x]
      BY <1>5, <1>9, PlaceKinds
    <3> QED BY <1>9, <3>1 DEF MemoryOK, DeviceOK
  <2>2. mem'["mtfpow"] = pow_level'
    <3>1. CASE name = "mtfpow"
      BY <1>1, <1>9, <3>1
    <3>2. CASE name # "mtfpow"
      BY <1>1, <1>9, <3>2, PlaceKinds DEF DeviceOK
    <3> QED BY <3>1, <3>2
  <2> QED BY <1>1, <2>1, <2>2 DEF DeviceOK, CommandOK
<1>12. BuffersOK'
  BY <1>1 DEF BuffersOK
<1>13. Alike(mem', after[i + 1], {"mtfpow"} \cup Given(B, i + 1), nb)
  <2> SUFFICES ASSUME NEW place \in {"mtfpow"} \cup Given(B, i + 1)
               PROVE  Same(mem', after[i + 1], place, nb)
    BY DEF Alike
  <2>1. CASE place = name
    BY <1>5, <1>9, <1>10, <2>1 DEF Same
  <2>2. CASE place # name
    <3>1. place \in {"mtfpow"} \cup Given(B, e)
      BY <2>2, <1>4, <1>7
    <3>2. Same(mem, after[i], place, nb)
      BY <1>4, <3>1 DEF Holder, Alike
    <3>3. place \in AllPlaces
      BY <1>2, PlacesInHand
    <3>4. Home(place) \in Buffers /\ Home(place) # name
      BY <1>5, <2>2, <3>3, Homes
    <3> QED BY <1>9, <1>10, <3>2, <3>3, <3>4, SameElsewhere
  <2> QED BY <2>1, <2>2
<1>14. Holder(B, nb, after, i + 1, i + 1, 0, g)'
  <2>1. i + 1 \in 0..Len(B) /\ i + 1 \in 0..i + 1
    BY <1>2
  <2>2. 0 \in 0..Len(queue') /\ g \in [1..0 -> (i + 1) + 1..i + 1]
    <3>1. g \in [1..0 -> e + 1..i]
      BY <1>3 DEF Holder
    <3>2. 1..0 = {}
      OBVIOUS
    <3> QED BY <1>1, <1>3, <3>1, <3>2
  <2>3. ~(0 < Len(queue'))
    BY <1>1, <1>3
  <2>5. \A k \in (i + 1) + 1..i + 1 : FALSE
    BY <1>2
  <2>6. \A j \in 1..0 : FALSE
    OBVIOUS
  <2> QED BY <1>1, <1>2, <1>13, <2>1, <2>2, <2>3, <2>5, <2>6 DEF Holder
<1> QED BY <1>1, <1>5, <1>11, <1>12, <1>14

\* Whatever command the device runs: what is left of the memory.
LEMMA DeviceRunsIs ==
  ASSUME DeviceOK, DeviceRuns
  PROVE  /\ DeviceOK' /\ Len(queue) \in Nat \ {0} /\ Len(queue') = Len(queue) - 1
         /\ \A k \in 1..Len(queue) - 1 : queue'[k] = queue[k + 1]
         /\ \A name \in Buffers : name \notin Range(queue[1].call.writes) => mem'[name] = mem[name]
         /\ Range(queue[1].call.writes) \subseteq Sized \ {"up"}
<1> DEFINE cmd == queue[1]
           call == queue[1].call
           len == Len(queue)
           x == Fetched(cmd)
<1>1. /\ queue # <<>>
      /\ mem' = Stored(call, Output(scen.len, call, cmd.nb, x), mem, Valid(cmd))
      /\ queue' = Tail(queue) /\ UNCHANGED <<scen, buf, pow_level>>
  BY DEF DeviceRuns
<1>2. PICK S : queue \in Seq(S)
  BY DEF DeviceOK
<1>3. /\ len \in Nat \ {0} /\ queue' \in Seq(S) /\ Len(queue') = len - 1
      /\ \A k \in 1..len - 1 : queue'[k] = queue[k + 1] /\ k + 1 \in 1..len
  BY <1>1, <1>2
<1>4. CommandOK(cmd) /\ KernelFormed(call)
  <2>1. 1 \in 1..len
    BY <1>3
  <2> QED BY <2>1 DEF DeviceOK, CommandOK
<1> HIDE DEF cmd, call, x, len
<1>5. ReadOK(call, x)
  <2> SUFFICES ASSUME call.kernel = "download"
               PROVE  /\ DOMAIN x[1] = BlockSlots /\ DOMAIN x[2] = {"out", "bins"}
                      /\ DOMAIN x[2].out = BlockSlots /\ DOMAIN x[2].bins = BlockSlots
    BY DEF ReadOK
  <2>1. /\ DOMAIN call.reads = 1..2 /\ call.reads[1] \in {"out", "bins"} /\ call.reads[2] = "down"
    BY <1>4 DEF KernelFormed
  <2>2. /\ x[1] = mem[call.reads[1]] \/ x[1] = Junk(scen.len, call.reads[1])
        /\ x[2] = mem["down"] \/ x[2] = Junk(scen.len, "down")
    BY <2>1 DEF x, Fetched, call, cmd
  <2>3. call.reads[1] \in Blocked
    BY <2>1, PlaceKinds
  <2>4. DOMAIN x[1] = BlockSlots
    BY <2>2, <2>3, JunkSlots DEF DeviceOK, MemoryOK
  <2>5. DOMAIN x[2] = {"out", "bins"} /\ DOMAIN x[2].out = BlockSlots /\ DOMAIN x[2].bins = BlockSlots
    BY <2>2, JunkSlots DEF DeviceOK, MemoryOK
  <2> QED BY <2>4, <2>5
<1>6. /\ MemoryOK(mem')
      /\ \A name \in Buffers : name \notin Range(call.writes) => mem'[name] = mem[name]
  BY <1>1, <1>4, <1>5, StoredShape DEF DeviceOK
<1>7. Range(call.writes) \subseteq Sized \ {"up"}
  BY <1>4 DEF KernelFormed
<1>8. DeviceOK'
  <2>1. mem'["mtfpow"] = mem["mtfpow"]
    BY <1>6, <1>7, PlaceKinds
  <2>2. \A k \in 1..Len(queue') : CommandOK(queue'[k])
    BY <1>3 DEF DeviceOK, len
  <2> QED BY <1>1, <1>3, <1>6, <2>1, <2>2 DEF DeviceOK, CommandOK
<1> QED BY <1>3, <1>6, <1>7, <1>8 DEF call, len

\* The device runs a command that was left in the queue.
LEMMA DeviceRunsOther ==
  ASSUME NEW B, NEW n, NEW nb, NEW known, NEW job, NEW after, Planned(B, n, nb, known, job, after),
         NEW i, NEW e, NEW q, NEW g, Holder(B, nb, after, i, e, q, g), q < Len(queue),
         DeviceOK, DeviceRuns
  PROVE  Holder(B, nb, after, i, e, q, g)'
<1> DEFINE len == Len(queue)
<1>1. /\ len \in Nat \ {0} /\ Len(queue') = len - 1
      /\ \A k \in 1..len - 1 : queue'[k] = queue[k + 1]
      /\ \A name \in Buffers : name \notin Range(queue[1].call.writes) => mem'[name] = mem[name]
      /\ Range(queue[1].call.writes) \subseteq Sized \ {"up"}
  BY DeviceRunsIs
<1>2. UNCHANGED <<todo, buf>>
  BY DEF DeviceRuns
<1>3. /\ i \in 0..Len(B) /\ e \in 0..i /\ q \in 0..len /\ Len(B) \in Nat
      /\ \A j \in 1..q : B[g[j]].op = "enqueue" /\ Mine(queue[len - q + j], B[g[j]], nb)
      /\ Given(B, e) \subseteq {"up"}
  BY PlanShape DEF Holder
<1> HIDE DEF len
<1>4. ASSUME NEW j \in 1..q PROVE Mine(queue[Len(queue) - q + j], B[g[j]], nb)'
  <2>1. Len(queue') - q + j \in 1..len - 1 /\ (Len(queue') - q + j) + 1 = len - q + j
    BY <1>1, <1>3 DEF len
  <2>2. queue'[Len(queue') - q + j] = queue[len - q + j]
    BY <1>1, <2>1
  <2> QED BY <1>2, <1>3, <2>2 DEF Mine, Current
<1>5. Alike(mem', after[e], {"mtfpow"} \cup Given(B, e), nb)
  <2> SUFFICES ASSUME NEW place \in {"mtfpow"} \cup Given(B, e)
               PROVE  Same(mem', after[e], place, nb)
    BY DEF Alike
  <2>1. Same(mem, after[e], place, nb)
    BY DEF Holder, Alike
  <2>2. place \in {"mtfpow", "up"}
    BY <1>3
  <2>3. Home(place) = place /\ place \in Buffers /\ place \notin Sized \ {"up"} /\ place \in AllPlaces
    BY <2>2, PlaceKinds DEF Home, AllPlaces
  <2>4. mem'[place] = mem[place]
    BY <1>1, <2>3
  <2> QED BY <2>1, <2>3, <2>4, SameElsewhere
<1>6. q \in 0..Len(queue')
  BY <1>1, <1>3 DEF len
<1> QED BY <1>2, <1>3, <1>4, <1>5, <1>6 DEF Holder

\* The device runs a command of the chunk's own.
LEMMA DeviceRunsOwn ==
  ASSUME NEW B, NEW nb, NEW known, NEW job, NEW after, Planned(B, scen.len, nb, known, job, after),
         NEW i, NEW e, NEW q, NEW g, Holder(B, nb, after, i, e, q, g), q = Len(queue),
         DeviceOK, DeviceRuns
  PROVE  Holder(B, nb, after, i, g[1], q - 1, [j \in 1..q - 1 |-> g[j + 1]])'
<1> DEFINE cmd == queue[1]
           k == g[1]
           call == B[k]
           h == [j \in 1..q - 1 |-> g[j + 1]]
<1>1. /\ q \in Nat \ {0} /\ Len(queue') = q - 1
      /\ \A j \in 1..q - 1 : queue'[j] = queue[j + 1]
  BY DeviceRunsIs
<1>2. UNCHANGED <<todo, buf>>
  BY DEF DeviceRuns
<1>3. /\ i \in 0..Len(B) /\ e \in 0..i /\ Len(B) \in Nat /\ g \in [1..q -> e + 1..i]
      /\ \A j, l \in 1..q : j < l => g[j] < g[l]
      /\ \A l \in e + 1..i : (\A j \in 1..q : g[j] # l) => B[l].op = "ensure"
      /\ \A j \in 1..q : B[g[j]].op = "enqueue" /\ Mine(queue[j], B[g[j]], nb)
  <2>1. \A j \in 1..q : Len(queue) - q + j = j
    BY <1>1
  <2> QED BY <2>1, PlanShape DEF Holder
<1>4. 1 \in 1..q /\ k \in e + 1..i /\ k \in 1..Len(B) /\ k - 1 \in 0..Len(B) /\ e \in 0..k - 1 /\ k - 1 \in Nat
      /\ (k - 1) + 1 = k
  <2>1. 1 \in 1..q
    BY <1>1
  <2>2. k \in e + 1..i
    BY <1>3, <2>1
  <2> HIDE DEF k
  <2> QED BY <1>3, <2>1, <2>2
<1>5. call.op = "enqueue" /\ Mine(cmd, call, nb)
  BY <1>3, <1>4
<1>6. InOrder(B, job, k, {"mtfpow"}, {}, {}) /\ MemoryOK(after[e])
  BY <1>3, <1>4, PlanShape
<1>7. KernelFormed(call)
  BY <1>5, <1>6 DEF InOrder, Formed
<1>8. after[k - 1] = after[e] /\ Given(B, k - 1) = Given(B, e)
  <2>1. ASSUME NEW l \in e + 1..k - 1 PROVE B[l].op = "ensure"
    <3>1. l \in e + 1..i /\ l < k
      BY <1>3, <1>4
    <3>2. \A j \in 1..q : g[j] # l
      <4> SUFFICES ASSUME NEW j \in 1..q, g[j] = l PROVE FALSE
        OBVIOUS
      <4>1. j = 1 \/ 1 < j
        BY <1>1
      <4>2. 1 < j => g[1] < g[j]
        BY <1>3, <1>4
      <4> QED BY <1>3, <1>4, <3>1, <4>1, <4>2
    <3> QED BY <1>3, <3>1, <3>2
  <2> HIDE DEF k
  <2> QED BY <1>4, <2>1, Quiet
<1>9. NeedsOf(call) \subseteq {"mtfpow"} \cup Given(B, e)
  BY <1>6, <1>8 DEF InOrder
<1>10. after[k] = Stored(call, Output(scen.len, call, nb, ReadFrom(call, after[e])), after[e], Buffers)
  <2>1. after[k] = Done(scen.len, nb, after[k - 1], call)
    BY <1>4 DEF Planned
  <2> HIDE DEF k, call
  <2> QED BY <1>5, <1>8, <2>1 DEF Done, ReadFrom
<1>11. mem' = Stored(call, Output(scen.len, call, nb, ReadFrom(call, mem)), mem, Used(call))
  <2>1. cmd.call = call /\ cmd.nb = nb /\ DOMAIN cmd.handle = Used(call)
        /\ \A name \in Used(call) : Current(cmd, name)
    BY <1>5 DEF Mine
  <2>2. mem' = Stored(cmd.call, Output(scen.len, cmd.call, cmd.nb, Fetched(cmd)), mem, Valid(cmd))
    BY DEF DeviceRuns
  <2> HIDE DEF cmd, call
  <2>3. Valid(cmd) = Used(call)
    BY <2>1 DEF Valid
  <2>4. \A j \in DOMAIN call.reads : call.reads[j] \in Used(call)
    BY DEF Used, Range
  <2>5. Fetched(cmd) = ReadFrom(call, mem)
    BY <2>1, <2>4 DEF Fetched, ReadFrom
  <2> QED BY <2>1, <2>2, <2>3, <2>5
<1> HIDE DEF cmd, call, h, k
<1>12. Alike(mem', after[k], ({"mtfpow"} \cup Given(B, e)) \cup GivesOf(call), nb)
  <2>1. Range(call.writes) \subseteq Used(call)
    BY DEF Used
  <2>2. e \in 0..Len(B)
    BY <1>3
  <2>3. {"mtfpow"} \cup Given(B, e) \in SUBSET AllPlaces
    BY <2>2, PlacesInHand
  <2>4. Alike(mem, after[e], {"mtfpow"} \cup Given(B, e), nb)
    BY DEF Holder
  <2>5. Alike(mem, after[e], NeedsOf(call), nb)
    BY <1>9, <2>4 DEF Alike
  <2>6. nb \in 1..MaxBatch /\ MemoryOK(mem)
    BY DEF Planned, DeviceOK
  <2> QED BY <1>5, <1>6, <1>7, <1>10, <1>11, <2>1, <2>3, <2>4, <2>5, <2>6, RunAgrees
<1>13. Given(B, k) = Given(B, e) \cup GivesOf(call)
  <2>1. Given(B, (k - 1) + 1) = Given(B, k - 1) \cup GivesOf(B[(k - 1) + 1])
    BY <1>4, TotalsNext
  <2> QED BY <1>4, <1>8, <2>1 DEF call
<1>14. Alike(mem', after[k], {"mtfpow"} \cup Given(B, k), nb)
  BY <1>12, <1>13 DEF Alike
<1>15. \A j \in 1..q - 1 : h[j] = g[j + 1] /\ j + 1 \in 1..q /\ h[j] \in k + 1..i
  <2> SUFFICES ASSUME NEW j \in 1..q - 1 PROVE h[j] = g[j + 1] /\ j + 1 \in 1..q /\ h[j] \in k + 1..i
    OBVIOUS
  <2>1. h[j] = g[j + 1] /\ j + 1 \in 1..q /\ 1 < j + 1
    BY <1>1 DEF h
  <2>2. g[j + 1] \in e + 1..i /\ k < g[j + 1]
    BY <1>3, <1>4, <2>1 DEF k
  <2> QED BY <1>3, <1>4, <2>1, <2>2
<1>16. h \in [1..q - 1 -> k + 1..i]
  BY <1>15 DEF h
<1>17. ASSUME NEW j \in 1..q - 1, NEW l \in 1..q - 1, j < l PROVE h[j] < h[l]
  <2>1. j + 1 \in 1..q /\ l + 1 \in 1..q /\ j + 1 < l + 1
    BY <1>1, <1>17
  <2> QED BY <1>3, <1>15, <2>1
<1>18. ASSUME NEW l \in k + 1..i, \A j \in 1..q - 1 : h[j] # l PROVE B[l].op = "ensure"
  <2>1. l \in e + 1..i /\ l # k
    BY <1>3, <1>4
  <2>2. \A j \in 1..q : g[j] # l
    <3> SUFFICES ASSUME NEW j \in 1..q, g[j] = l PROVE FALSE
      OBVIOUS
    <3>1. CASE j = 1
      BY <2>1, <3>1 DEF k
    <3>2. CASE j # 1
      <4>1. j - 1 \in 1..q - 1 /\ (j - 1) + 1 = j
        BY <1>1, <3>2
      <4> QED BY <1>15, <1>18, <4>1
    <3> QED BY <3>1, <3>2
  <2> QED BY <1>3, <2>1, <2>2
<1>19. ASSUME NEW j \in 1..q - 1
       PROVE  B[h[j]].op = "enqueue" /\ Mine(queue[Len(queue) - (q - 1) + j], B[h[j]], nb)'
  <2>1. Len(queue') - (q - 1) + j = j
    BY <1>1
  <2>2. queue'[j] = queue[j + 1] /\ B[g[j + 1]].op = "enqueue" /\ Mine(queue[j + 1], B[g[j + 1]], nb)
    BY <1>1, <1>3, <1>15
  <2>3. queue'[Len(queue') - (q - 1) + j] = queue[j + 1]
    BY <2>1, <2>2
  <2> QED BY <1>2, <1>15, <2>2, <2>3 DEF Mine, Current
<1>20. k \in 0..i /\ q - 1 \in 0..Len(queue') /\ ~(q - 1 < Len(queue'))
  BY <1>1, <1>3, <1>4
<1>22. todo' = SubSeq(B, i + 1, Len(B))
  BY <1>2 DEF Holder
<1>23. Holder(B, nb, after, i, k, q - 1, h)'
  BY <1>3, <1>14, <1>16, <1>17, <1>18, <1>19, <1>20, <1>22 DEF Holder
<1> QED BY <1>23 DEF k, h

\* The queue is empty behind the last call: what is in the staging memory is
\* what the batch leaves there on its own.
LEMMA FinishStep ==
  ASSUME NEW B, NEW n, NEW nb, NEW known, NEW job, NEW after, Planned(B, n, nb, known, job, after),
         NEW i, NEW e, NEW q, NEW g, Holder(B, nb, after, i, e, q, g),
         DeviceOK, Upcoming("finish"), queue = <<>>, NEW p, Len(p) = nb, DOMAIN p = 1..nb
  PROVE  Downloaded(n, p, mem) = Downloaded(n, p, after[Len(B)])
<1>1. todo # <<>> /\ todo[1].op = "finish"
  BY DEF Upcoming
<1>2. /\ i \in Nat /\ i + 1 \in 1..Len(B) /\ (i + 1) - 1 = i /\ e \in Nat /\ e <= i /\ Len(B) \in Nat
      /\ todo[1] = B[i + 1]
      /\ InOrder(B, job, i + 1, {"mtfpow"}, {}, {})
      /\ after[i + 1] = Done(n, nb, after[i], B[i + 1])
  <2>1. todo # <<>>
    BY <1>1
  <2> QED BY <2>1, UpcomingCall
<1>3. q = 0
  BY DEF Holder
<1>4. after[i] = after[e] /\ Given(B, i) = Given(B, e)
  BY <1>3, NoneBehind
<1>5. Parts \subseteq Given(B, e)
  <2>1. Parts \subseteq {"mtfpow"} \cup Given(B, i)
    BY <1>1, <1>2 DEF InOrder, NeedsOf
  <2>2. "mtfpow" \notin Parts
    BY PlaceKinds
  <2> QED BY <1>4, <2>1, <2>2
<1>6. after[i + 1] = after[i]
  BY <1>1, <1>2 DEF Done
<1>7. i + 1 = Len(B)
  <2> SUFFICES ASSUME i + 1 # Len(B) PROVE FALSE
    OBVIOUS
  <2>1. (i + 1) + 1 \in 1..Len(B) /\ ((i + 1) + 1) - 1 = i + 1
    BY <1>2
  <2>2. InOrder(B, job, (i + 1) + 1, {"mtfpow"}, {}, {})
    BY <2>1, PlanShape
  <2>3. "finish" \in ForbidsOf(B[(i + 1) + 1])
    BY DEF ForbidsOf
  <2>4. "finish" \in Touched(B, i + 1)
    <3>1. "finish" \in TouchesOf(B[i + 1])
      BY <1>1, <1>2 DEF TouchesOf
    <3>2. Touched(B, i + 1) = Touched(B, i) \cup TouchesOf(B[i + 1])
      BY <1>2, TotalsNext
    <3> QED BY <3>1, <3>2
  <2> QED BY <2>1, <2>2, <2>3, <2>4 DEF InOrder
<1> DEFINE m == after[Len(B)]
<1>8. \A place \in Parts : Same(mem, m, place, nb)
  BY <1>4, <1>5, <1>6, <1>7 DEF Holder, Alike
<1> HIDE DEF m
<1>9. \A b \in 0..nb - 1 : mem["down"].out[b] = m["down"].out[b] /\ mem["down"].bins[b] = m["down"].bins[b]
  <2>1. "down.out" \in Parts /\ "down.bins" \in Parts /\ "down.out" \notin Single /\ "down.bins" \notin Single
    BY DEF Parts, Single
  <2> QED BY <1>8, <2>1 DEF Same
<1>10. \A b \in 1..nb : b - 1 \in 0..nb - 1
  BY DEF Planned
<1>11. \A b \in DOMAIN p : /\ mem.down.out[b - 1] = m.down.out[b - 1]
                           /\ mem.down.bins[b - 1] = m.down.bins[b - 1]
  BY <1>9, <1>10
<1>12. Downloaded(n, p, mem) = Downloaded(n, p, m)
  BY <1>11 DEF Downloaded
<1> QED BY <1>12 DEF m

\* An allocation that fails leaves the device, and the buffers but for a handle.
LEMMA EnsureFailsStep ==
  ASSUME scen \in Scenarios, NEW p \in Pieces(scen),
         NEW B, NEW n, NEW nb, NEW known, NEW job, NEW after, Planned(B, n, nb, known, job, after),
         job.size = SizeOf(scen.len, p),
         NEW i, NEW e, NEW q, NEW g, Holder(B, nb, after, i, e, q, g),
         DeviceOK, BuffersOK, EnsureFails
  PROVE  DeviceOK' /\ BuffersOK'
<1> DEFINE names == todo[1].names
           units == todo[1].units
<1>1. /\ todo # <<>> /\ todo[1].op = "ensure"
      /\ UNCHANGED <<scen, queue, pow_level>>
  BY DEF EnsureFails, Upcoming
<1>2. PICK at \in DOMAIN names :
          LET name   == names[at]
              before == {names[j] : j \in {k \in DOMAIN names : k < at}}
              grown  == {x \in before : Grows(x, units)}
          IN  /\ Grows(name, units)
              /\ buf' = [x \in Buffers |->
                            IF x \in grown THEN Grown(units)
                            ELSE IF x = name THEN [buf[x] EXCEPT !.handle = 0] ELSE buf[x]]
              /\ mem' = [x \in Buffers |->
                            IF x \in grown \cup {name} THEN Junk(scen.len, x) ELSE mem[x]]
  BY DEF EnsureFails
<1> DEFINE name == names[at]
           before == {names[j] : j \in {k \in DOMAIN names : k < at}}
           grown  == {x \in before : Grows(x, units)}
<1>3. todo[1] = B[i + 1] /\ InOrder(B, job, i + 1, {"mtfpow"}, {}, {})
  <2>1. todo # <<>>
    BY <1>1
  <2> QED BY <2>1, UpcomingCall
<1>4. Range(names) \subseteq Sized /\ \A x \in Range(names) : units = SizeOf(scen.len, p)[x]
  BY <1>1, <1>3 DEF InOrder, Formed
<1>5. name \in Range(names)
  BY <1>2 DEF Range
<1>7. /\ buf' = [x \in Buffers |->
                    IF x \in grown THEN Grown(units)
                    ELSE IF x = name THEN [buf[x] EXCEPT !.handle = 0] ELSE buf[x]]
      /\ mem' = [x \in Buffers |-> IF x \in grown \cup {name} THEN Junk(scen.len, x) ELSE mem[x]]
  BY <1>2
<1>8. units \in 1..128
  BY <1>4, <1>5, SizeRange
<1> HIDE DEF names, units, name, grown
<1>9. /\ Grown(units) \in [cap : Nat, handle : Nat]
      /\ name \in Sized /\ Sized \subseteq Buffers
  BY <1>4, <1>5, <1>8, GrownIs, PlaceKinds
<1>10. buf \in [Buffers -> [cap : Nat, handle : Nat]]
  BY DEF BuffersOK
<1>11. \A x \in Buffers :
          /\ x \in grown => buf'[x] = Grown(units)
          /\ x \notin grown /\ x # name => buf'[x] = buf[x]
          /\ x \notin grown /\ x = name => buf'[x].cap = buf[x].cap /\ buf'[x] \in [cap : Nat, handle : Nat]
  BY <1>7, <1>10
<1>12. grown \subseteq Sized
  <2>1. ASSUME NEW x \in grown PROVE x \in Range(names)
    <3>1. PICK j \in DOMAIN names : x = names[j]
      BY DEF grown
    <3> QED BY <3>1 DEF Range
  <2> QED BY <1>4, <2>1
<1>14. BuffersOK'
  <2>1. \A x \in Buffers : buf'[x] \in [cap : Nat, handle : Nat]
    BY <1>9, <1>10, <1>11
  <2>2. buf' = [x \in Buffers |-> buf'[x]]
    BY <1>7
  <2> QED BY <2>1, <2>2 DEF BuffersOK
<1>15. DeviceOK'
  <2>1. \A x \in Buffers : \/ x \in Sized /\ mem'[x] = Junk(scen.len, x)
                           \/ mem'[x] = mem[x]
    BY <1>7, <1>9, <1>12
  <2>2. mem'["mtfpow"] = mem["mtfpow"]
    BY <2>1, PlaceKinds
  <2>3. MemoryOK(mem')
    <3>1. DOMAIN mem' = Buffers
      BY <1>7
    <3>2. \A x \in Blocked : DOMAIN mem'[x] = BlockSlots
      BY <2>1, JunkSlots, PlaceKinds DEF DeviceOK, MemoryOK
    <3>3. /\ DOMAIN mem'["down"] = {"out", "bins"}
          /\ DOMAIN mem'["down"].out = BlockSlots /\ DOMAIN mem'["down"].bins = BlockSlots
      BY <2>1, JunkSlots, PlaceKinds DEF DeviceOK, MemoryOK
    <3> QED BY <3>1, <3>2, <3>3 DEF MemoryOK
  <2> QED BY <1>1, <2>2, <2>3 DEF DeviceOK, CommandOK
<1> QED BY <1>14, <1>15

-----------------------------------------------------------------------------
(* The calls of the threads.                                               *)

LevelsOf(s) == {0} \cup {other.level : other \in CallsOf(s)}

SetupOK ==
    /\ scen \in Scenarios /\ allocs \in Nat /\ pow_level \in LevelsOf(scen)
    /\ gpu = "on" => scen.len \in PowersOf8
    /\ lock \in Callers \cup {"free"}
    /\ lock # "free" => gpu = "on"
    /\ lock = "free" => todo = <<>>

\* The first k blocks of a call, from the CPU's kernel.
CpuFirst(s, call, k) == [b \in 1..k |-> CpuTable[<<s.len, call.blocks[b], call.level, s.rot>>]]

GotOK(c) ==
    \E k \in Nat : /\ k > 0 => Busy(c) /\ k < Len(Asked(c).blocks)
                   /\ work[c].got = CpuFirst(scen, Asked(c), k)

WorkOK ==
    /\ DOMAIN work = Callers /\ DOMAIN answer = Callers
    /\ \A c \in Callers : /\ DOMAIN work[c] = {"done", "got"} /\ work[c].done \in Nat
                          /\ GotOK(c)

\* What a caller asks for, and the chunk it is at.
LEMMA ChunkIs ==
  ASSUME SetupOK, WorkOK, NEW c \in Callers, Busy(c)
  PROVE  /\ Asked(c) \in CallsOf(scen) /\ Asked(c).level \in LevelsOf(scen)
         /\ Asked(c).blocks \in Seq(Nat)
         /\ \E k \in 0..Len(Asked(c).blocks) - 1 :
               /\ work[c].got = CpuFirst(scen, Asked(c), k)
               /\ Chunk(c) = Piece(Asked(c).blocks, k)
         /\ Chunk(c) \in Pieces(scen)
         /\ Len(Chunk(c)) \in 1..MaxBatch /\ DOMAIN Chunk(c) = 1..Len(Chunk(c))
<1> DEFINE R == [blocks : Seq(Nat) \ {<<>>}, level : Nat]
           t == scen.calls[c]
           count == work[c].done
           call == Asked(c)
<1>1. t \in Seq(R)
  BY ScenarioAssumption DEF SetupOK
<1>2. count \in Nat /\ count < Len(t)
  BY DEF WorkOK, Busy
<1>3. call = t[count + 1]
  BY DEF Asked
<1> HIDE DEF t, count, call, R
<1>4. count + 1 \in 1..Len(t) /\ DOMAIN t = 1..Len(t)
  BY <1>1, <1>2
<1>5. call \in Range(t)
  BY <1>3, <1>4 DEF Range
<1>6. call \in CallsOf(scen)
  BY <1>5 DEF CallsOf, t
<1>7. call.blocks \in Seq(Nat) /\ Len(call.blocks) \in Nat \ {0} /\ call.level \in Nat
  BY <1>6, CallTyped DEF SetupOK
<1>8. PICK k \in Nat : (k > 0 => k < Len(call.blocks)) /\ work[c].got = CpuFirst(scen, call, k)
  BY DEF WorkOK, GotOK, call
<1>9. k \in 0..Len(call.blocks) - 1
  BY <1>7, <1>8
<1>10. Len(CpuFirst(scen, call, k)) = k
  <2>1. DOMAIN CpuFirst(scen, call, k) = 1..k
    BY DEF CpuFirst
  <2> QED BY <1>8, <2>1, LenProperties DEF CpuFirst
<1>11. Chunk(c) = Piece(call.blocks, k)
  BY <1>8, <1>10 DEF Chunk, call
<1>12. Chunk(c) \in Pieces(scen)
  BY <1>6, <1>9, <1>11 DEF Pieces
<1>13. Chunk(c) \in Seq(Nat) /\ Len(Chunk(c)) \in 1..MaxBatch
  BY <1>7, <1>9, <1>11, PieceIs
<1>14. DOMAIN Chunk(c) = 1..Len(Chunk(c))
  BY <1>13
<1>15. call.level \in LevelsOf(scen)
  BY <1>6 DEF LevelsOf
<1> QED BY <1>6, <1>7, <1>8, <1>9, <1>11, <1>12, <1>13, <1>14, <1>15 DEF call

\* The blocks of a chunk behind those gathered.
LEMMA Gathering ==
  ASSUME NEW s, NEW call, call.blocks \in Seq(Nat), NEW k \in 0..Len(call.blocks) - 1
  PROVE  LET p   == Piece(call.blocks, k)
             all == CpuFirst(s, call, k) \o CpuBlocks(s, p, call.level)
         IN  /\ all = CpuFirst(s, call, k + Len(p)) /\ Len(all) = k + Len(p)
             /\ k + Len(p) \in 1..Len(call.blocks)
<1> DEFINE p == Piece(call.blocks, k)
           T == {CpuTable[<<s.len, call.blocks[b], call.level, s.rot>>] : b \in 1..Len(call.blocks)}
           f == CpuFirst(s, call, k)
           h == CpuBlocks(s, p, call.level)
           m == k + Len(p)
           r == CpuFirst(s, call, m)
           all == f \o h
<1>1. /\ p \in Seq(Nat) /\ Len(p) \in 1..MaxBatch /\ m \in 1..Len(call.blocks)
      /\ \A b \in 1..Len(p) : p[b] = call.blocks[k + b]
  BY PieceIs
<1>2. Len(call.blocks) \in Nat /\ k \in Nat /\ Len(p) \in Nat /\ DOMAIN p = 1..Len(p) /\ m \in Nat
  BY <1>1, BatchAssumption
<1> HIDE DEF p, T, m
<1>3. f \in [1..k -> T]
  <2>1. \A b \in 1..k : b \in 1..Len(call.blocks)
    BY <1>2
  <2> QED BY <2>1 DEF CpuFirst, T
<1>4. h \in [1..Len(p) -> T] /\ \A b \in 1..Len(p) : h[b] = CpuTable[<<s.len, call.blocks[k + b], call.level, s.rot>>]
  <2>1. \A b \in 1..Len(p) : k + b \in 1..Len(call.blocks) /\ p[b] = call.blocks[k + b]
    BY <1>1, <1>2 DEF m
  <2>2. h = [b \in 1..Len(p) |-> CpuTable[<<s.len, p[b], call.level, s.rot>>]]
    BY <1>2 DEF CpuBlocks
  <2> HIDE DEF h
  <2> QED BY <2>1, <2>2 DEF T
<1>5. r \in [1..m -> T] /\ \A b \in 1..m : r[b] = CpuTable[<<s.len, call.blocks[b], call.level, s.rot>>]
  <2>1. \A b \in 1..m : b \in 1..Len(call.blocks)
    BY <1>1, <1>2
  <2> QED BY <2>1 DEF CpuFirst, T
<1>6. \A b \in 1..k : f[b] = CpuTable[<<s.len, call.blocks[b], call.level, s.rot>>]
  BY DEF CpuFirst
<1> HIDE DEF f, h, r
<1>7. f \in Seq(T) /\ Len(f) = k /\ h \in Seq(T) /\ Len(h) = Len(p) /\ r \in Seq(T) /\ Len(r) = m
  <2>1. f \in Seq(T) /\ Len(f) = k
    BY <1>2, <1>3
  <2>2. h \in Seq(T) /\ Len(h) = Len(p)
    BY <1>2, <1>4
  <2>3. r \in Seq(T) /\ Len(r) = m
    BY <1>2, <1>5
  <2> QED BY <2>1, <2>2, <2>3
<1>8. all \in Seq(T) /\ Len(all) = k + Len(p)
  <2>1. f \o h \in Seq(T) /\ Len(f \o h) = Len(f) + Len(h)
    BY <1>7, ConcatProperties, Zenon
  <2> QED BY <1>7, <2>1, Zenon
<1>9. \A b \in 1..m : all[b] = r[b]
  <2> SUFFICES ASSUME NEW b \in 1..m PROVE all[b] = r[b]
    OBVIOUS
  <2>1. all[b] = IF b <= k THEN f[b] ELSE h[b - k]
    BY <1>7, ConcatProperties DEF m
  <2>2. CASE b <= k
    <3>1. b \in 1..k
      BY <1>2, <2>2
    <3> HIDE DEF all
    <3> QED BY <1>5, <1>6, <2>1, <2>2, <3>1
  <2>3. CASE ~(b <= k)
    <3>1. b - k \in 1..Len(p) /\ k + (b - k) = b
      BY <1>2, <2>3 DEF m
    <3> HIDE DEF all
    <3> QED BY <1>4, <1>5, <2>1, <2>3, <3>1
  <2> QED BY <2>2, <2>3
<1> HIDE DEF all
<1>10. all = r
  BY <1>7, <1>8, <1>9, SeqEqual DEF m
<1> QED BY <1>1, <1>8, <1>10 DEF all, f, h, r, p, m

\* A call is answered with what the CPU's kernel gives.
LEMMA Answered ==
  ASSUME WorkOK, Agreed, NEW c \in Callers, NEW out,
         out = CpuBlocks(scen, Asked(c).blocks, Asked(c).level), Answer(c, out), scen' = scen
  PROVE  WorkOK' /\ Agreed'
<1>1. /\ answer' = [answer EXCEPT ![c] = [blocks |-> Asked(c).blocks, level |-> Asked(c).level,
                                          out |-> out]]
      /\ work' = [work EXCEPT ![c] = [done |-> work[c].done + 1, got |-> <<>>]]
  BY DEF Answer
<1>2. DOMAIN work = Callers /\ DOMAIN answer = Callers
  BY DEF WorkOK
<1>3. DOMAIN work' = Callers /\ DOMAIN answer' = Callers
  BY <1>1, <1>2
<1>4. /\ work'[c] = [done |-> work[c].done + 1, got |-> <<>>]
      /\ answer'[c] = [blocks |-> Asked(c).blocks, level |-> Asked(c).level, out |-> out]
      /\ \A d \in Callers : d # c => work'[d] = work[d] /\ answer'[d] = answer[d]
  BY <1>1, <1>2
<1>5. ASSUME NEW d \in Callers
      PROVE  DOMAIN work'[d] = {"done", "got"} /\ work'[d].done \in Nat /\ GotOK(d)'
  <2>1. CASE d = c
    <3>1. CpuFirst(scen, Asked(d), 0)' = <<>>
      <4>1. 1..0 = {}
        OBVIOUS
      <4> QED BY <4>1 DEF CpuFirst
    <3>2. work'[d].done \in Nat /\ DOMAIN work'[d] = {"done", "got"} /\ work'[d].got = <<>>
      BY <1>4, <2>1 DEF WorkOK
    <3> QED BY <3>1, <3>2 DEF GotOK
  <2>2. CASE d # c
    <3>1. work'[d] = work[d]
      BY <1>4, <2>2
    <3>2. Asked(d)' = Asked(d) /\ Busy(d)' = Busy(d)
      BY <3>1 DEF Asked, Busy
    <3>3. PICK k \in Nat : /\ k > 0 => Busy(d) /\ k < Len(Asked(d).blocks)
                           /\ work[d].got = CpuFirst(scen, Asked(d), k)
      BY DEF WorkOK, GotOK
    <3>4. /\ k > 0 => Busy(d)' /\ k < Len(Asked(d)'.blocks)
          /\ work'[d].got = CpuFirst(scen', Asked(d)', k)
      BY <3>1, <3>2, <3>3
    <3> HIDE DEF Busy, Asked
    <3> QED BY <3>1, <3>4 DEF WorkOK, GotOK
  <2> QED BY <2>1, <2>2
<1>6. ASSUME NEW d \in Callers
      PROVE  answer'[d].out = CpuBlocks(scen', answer'[d].blocks, answer'[d].level)
  <2>1. CASE d = c
    BY <1>4, <2>1
  <2>2. CASE d # c
    BY <1>4, <2>2 DEF Agreed
  <2> QED BY <2>1, <2>2
<1> QED BY <1>3, <1>5, <1>6 DEF WorkOK, Agreed

\* The chunk in hand.
InHand ==
    lock # "free" =>
        /\ Busy(lock)
        /\ \E n, p, level, B, job, after : \E known \in LevelsOf(scen) : \E i, e, q, g :
              /\ n = scen.len /\ p = Chunk(lock) /\ level = Asked(lock).level
              /\ B = Batch(n, p, level, scen.rot, known) /\ after = After(n, Len(p), known, B)
              /\ job = JobOf(n, p, level)
              /\ Planned(B, n, Len(p), known, job, after)
              /\ Holder(B, Len(p), after, i, e, q, g)

GpuSound == SetupOK /\ WorkOK /\ Agreed /\ DeviceOK /\ BuffersOK /\ InHand

\* Nothing is claimed once a buffer without memory has been worked on.
GpuInv == ~blind => GpuSound

\* The mutex is free when there is no call to make.
LEMMA HolderThread ==
  ASSUME SetupOK, todo # <<>>
  PROVE  lock \in Callers /\ lock # "free" /\ gpu = "on"
BY BatchAssumption DEF SetupOK

\* The invariant holds at the start.
LEMMA GpuInitOK == GpuInit => GpuSound
<1> SUFFICES ASSUME GpuInit PROVE GpuSound
  OBVIOUS
<1>1. SetupOK
  <2>1. scen \in Scenarios /\ allocs = 0 /\ pow_level = 0 /\ gpu \in {"asked", "none"} /\ lock = "free" /\ todo = <<>>
    BY DEF GpuInit
  <2>2. 0 \in LevelsOf(scen)
    BY DEF LevelsOf
  <2> QED BY <2>1, <2>2 DEF SetupOK
<1>2. WorkOK
  <2>1. /\ work = [c \in Callers |-> [done |-> 0, got |-> <<>>]]
        /\ answer = [c \in Callers |-> [blocks |-> <<>>, level |-> 0, out |-> <<>>]]
    BY DEF GpuInit
  <2>2. ASSUME NEW c \in Callers PROVE GotOK(c)
    <3>1. CpuFirst(scen, Asked(c), 0) = <<>>
      <4>1. 1..0 = {}
        OBVIOUS
      <4> QED BY <4>1 DEF CpuFirst
    <3> QED BY <2>1, <3>1 DEF GotOK
  <2> QED BY <2>1, <2>2 DEF WorkOK
<1>3. Agreed
  <2> SUFFICES ASSUME NEW c \in Callers
               PROVE  answer[c].out = CpuBlocks(scen, answer[c].blocks, answer[c].level)
    BY DEF Agreed
  <2>1. answer[c] = [blocks |-> <<>>, level |-> 0, out |-> <<>>]
    BY DEF GpuInit
  <2>2. CpuBlocks(scen, <<>>, 0) = <<>>
    BY DEF CpuBlocks
  <2> QED BY <2>1, <2>2
<1>4. DeviceOK
  <2>1. /\ mem = [name \in Buffers |-> Junk(scen.len, name)] /\ queue = <<>> /\ pow_level = 0
    BY DEF GpuInit
  <2>2. MemoryOK(mem)
    BY <2>1, JunkSlots, PlaceKinds DEF MemoryOK
  <2>3. mem["mtfpow"] = 0
    <3>1. "mtfpow" \notin Rows \cup {"bins"} /\ "mtfpow" \notin {"raw", "in16", "up"} /\ "mtfpow" \in Buffers
      BY Places DEF Single
    <3>2. Junk(scen.len, "mtfpow") = 0
      BY <3>1 DEF Junk
    <3> QED BY <2>1, <3>1, <3>2
  <2>4. \E S : queue \in Seq(S)
    <3>1. queue \in Seq({})
      BY <2>1
    <3> QED BY <3>1
  <2> QED BY <2>1, <2>2, <2>3, <2>4 DEF DeviceOK
<1>5. BuffersOK
  <2>1. buf = [name \in Buffers |-> [cap |-> 0, handle |-> 1]]
    BY DEF GpuInit
  <2> QED BY <2>1, PlaceKinds DEF BuffersOK
<1>6. InHand
  BY DEF GpuInit, InHand
<1> QED BY <1>1, <1>2, <1>3, <1>4, <1>5, <1>6 DEF GpuSound

\* A thread takes the mutex.
LEMMA TakeLockOK ==
  ASSUME GpuSound, NEW c \in Callers, TakeLock(c)
  PROVE  GpuSound'
<1>1. /\ gpu = "on" /\ lock = "free" /\ Busy(c) /\ lock' = c
      /\ todo' = Batch(scen.len, Chunk(c), Asked(c).level, scen.rot, pow_level)
      /\ UNCHANGED <<scen, gpu, work, answer, buf, mem, queue, pow_level, faults, allocs>>
  BY DEF TakeLock
<1>2. SetupOK'
  <2>1. c # "free"
    BY BatchAssumption
  <2> QED BY <1>1, <2>1 DEF GpuSound, SetupOK
<1>3. WorkOK' /\ Agreed' /\ DeviceOK' /\ BuffersOK'
  BY <1>1 DEF GpuSound, WorkOK, GotOK, Agreed, DeviceOK, CommandOK, BuffersOK, Busy, Asked
<1>4. PICK n, p, level, known : n = scen.len /\ p = Chunk(c) /\ level = Asked(c).level /\ known = pow_level
  OBVIOUS
<1>5. PICK B : B = Batch(n, p, level, scen.rot, known)
  OBVIOUS
<1>6. PICK after, job : after = After(n, Len(p), known, B) /\ job = JobOf(n, p, level)
  OBVIOUS
<1>7. n \in PowersOf8 /\ known \in LevelsOf(scen)
  BY <1>1, <1>4 DEF GpuSound, SetupOK
<1>8. Len(p) \in 1..MaxBatch
  BY <1>1, <1>4, ChunkIs DEF GpuSound
<1>9. Planned(B, n, Len(p), known, job, after)
  <2>1. Sound(B, job, {"mtfpow"}, {}, {})
    BY <1>5, <1>6, <1>7, BatchSound
  <2>2. Len(B) \in Nat
    BY <2>1 DEF Sound
  <2>3. after[0] = Opened(n, known) /\ \A k \in 1..Len(B) : after[k] = Done(n, Len(p), after[k - 1], B[k])
    BY <1>6, <2>2, AfterIs
  <2>4. job.nb = Len(p)
    BY <1>6 DEF JobOf
  <2> QED BY <1>8, <2>1, <2>3, <2>4 DEF Planned
<1>10. Holder(B, Len(p), after, 0, 0, 0, [j \in 1..0 |-> 0])'
  <2> DEFINE g == [j \in 1..0 |-> 0]
  <2>1. PICK S : B \in Seq(S)
    BY <1>9, PlanShape
  <2>2. Len(B) \in Nat
    BY <2>1
  <2>3. todo' = SubSeq(B, 0 + 1, Len(B))
    <3>1. todo' = B
      BY <1>1, <1>4, <1>5
    <3>2. SubSeq(B, 1, Len(B)) = B
      BY <2>1, Zenon, SubSeqFull
    <3> QED BY <3>1, <3>2
  <2>4. 1..0 = {} /\ (0 + 1)..0 = {}
    OBVIOUS
  <2>5. Given(B, 0) = {}
    BY <2>4 DEF Given
  <2>6. Alike(mem', after[0], {"mtfpow"} \cup Given(B, 0), Len(p))
    <3>1. mem'["mtfpow"] = after[0]["mtfpow"]
      <4>1. after[0]["mtfpow"] = known
        BY <1>9, PlaceKinds DEF Planned, Opened
      <4> QED BY <1>1, <1>4, <4>1 DEF GpuSound, DeviceOK
    <3> QED BY <2>5, <3>1, PlaceKinds DEF Alike, Same
  <2>7. g \in [1..0 -> 0 + 1..0]
    BY <2>4
  <2>8. 0 \in 0..Len(B) /\ 0 \in 0..0 /\ 0 \in 0..Len(queue')
    <3>1. Len(queue) \in Nat
      BY DEF GpuSound, DeviceOK
    <3> QED BY <1>1, <2>2, <3>1
  <2> HIDE DEF g
  <2>9. Holder(B, Len(p), after, 0, 0, 0, g)'
    BY <2>3, <2>4, <2>5, <2>6, <2>7, <2>8 DEF Holder
  <2> QED BY <2>9 DEF g
<1>11. InHand'
  <2>1. Busy(lock)' /\ Chunk(lock)' = p /\ Asked(lock)'.level = level /\ scen' = scen
    BY <1>1, <1>4 DEF Busy, Chunk, Asked
  <2> QED BY <1>4, <1>5, <1>6, <1>7, <1>9, <1>10, <2>1 DEF InHand
<1> QED BY <1>2, <1>3, <1>11 DEF GpuSound

\* What the holder of the mutex has in hand, by names.
InHandAs(n, p, level, B, job, after, known, i, e, q, g) ==
    /\ n = scen.len /\ p = Chunk(lock) /\ level = Asked(lock).level
    /\ B = Batch(n, p, level, scen.rot, known) /\ after = After(n, Len(p), known, B)
    /\ job = JobOf(n, p, level) /\ known \in LevelsOf(scen)
    /\ Planned(B, n, Len(p), known, job, after)
    /\ Holder(B, Len(p), after, i, e, q, g)

\* The invariant, with its names chosen.
LEMMA InHandIs ==
  ASSUME GpuSound, lock # "free"
  PROVE  /\ Busy(lock) /\ lock \in Callers
         /\ \E n, p, level, B, job, after, known, i, e, q, g :
               InHandAs(n, p, level, B, job, after, known, i, e, q, g)
BY DEF GpuSound, InHand, InHandAs, SetupOK

\* It has made a call, or the device has run a command.
LEMMA StillInHand ==
  ASSUME GpuSound, lock # "free",
         NEW n, NEW p, NEW level, NEW B, NEW job, NEW after, NEW known, NEW i, NEW e, NEW q, NEW g,
         InHandAs(n, p, level, B, job, after, known, i, e, q, g),
         NEW i2, NEW e2, NEW q2, NEW g2, Holder(B, Len(p), after, i2, e2, q2, g2)',
         UNCHANGED <<scen, gpu, lock, work, answer, allocs>>, pow_level' \in LevelsOf(scen),
         DeviceOK', BuffersOK'
  PROVE  GpuSound'
<1>1. SetupOK'
  BY DEF GpuSound, SetupOK
<1>2. WorkOK' /\ Agreed'
  BY DEF GpuSound, WorkOK, GotOK, Agreed, Busy, Asked
<1>3. InHand'
  <2>1. Busy(lock)' /\ Chunk(lock)' = Chunk(lock) /\ Asked(lock)' = Asked(lock) /\ Busy(lock)
    BY DEF GpuSound, InHand, Busy, Chunk, Asked
  <2> QED BY <2>1 DEF InHand, InHandAs
<1> QED BY <1>1, <1>2, <1>3 DEF GpuSound

\* The holder gives up or is done.
LEMMA Unlocked ==
  ASSUME GpuSound, Unlock, UNCHANGED <<scen, gpu, pow_level>>, allocs' \in Nat,
         WorkOK', Agreed', DeviceOK', BuffersOK'
  PROVE  GpuSound'
<1>1. SetupOK'
  BY DEF GpuSound, SetupOK, Unlock
<1>2. InHand'
  BY DEF InHand, Unlock
<1> QED BY <1>1, <1>2 DEF GpuSound

\* The last call of a chunk adds its blocks to those the caller has.
LEMMA FinishOK ==
  ASSUME GpuSound, Finish
  PROVE  GpuSound'
<1> DEFINE got == work[lock].got \o Downloaded(scen.len, Chunk(lock), mem)
           call == Asked(lock)
<1>1. /\ todo # <<>> /\ Upcoming("finish") /\ queue = <<>> /\ Unlock
      /\ IF Len(got) = Len(call.blocks)
         THEN Answer(lock, got)
         ELSE work' = [work EXCEPT ![lock].got = got] /\ UNCHANGED answer
      /\ UNCHANGED <<scen, gpu, buf, mem, queue, pow_level, faults, allocs>>
  BY DEF Finish, Upcoming
<1>2. lock \in Callers /\ lock # "free"
  BY <1>1, HolderThread DEF GpuSound
<1>3. PICK n, p, level, B, job, after, known, i, e, q, g :
          InHandAs(n, p, level, B, job, after, known, i, e, q, g)
  BY <1>2, InHandIs
<1>4. Busy(lock)
  BY <1>2, InHandIs
<1>5. /\ call \in CallsOf(scen) /\ call.blocks \in Seq(Nat)
      /\ DOMAIN p = 1..Len(p)
      /\ \E k \in 0..Len(call.blocks) - 1 :
            work[lock].got = CpuFirst(scen, call, k) /\ p = Piece(call.blocks, k)
  <2>1. p = Chunk(lock)
    BY <1>3 DEF InHandAs
  <2> QED BY <1>2, <1>4, <2>1, ChunkIs DEF GpuSound
<1>6. PICK k \in 0..Len(call.blocks) - 1 :
            work[lock].got = CpuFirst(scen, call, k) /\ p = Piece(call.blocks, k)
  BY <1>5
<1> HIDE DEF call
<1>7. Downloaded(scen.len, Chunk(lock), mem) = CpuBlocks(scen, p, call.level)
  <2>1. /\ n = scen.len /\ p = Chunk(lock) /\ level = call.level /\ known \in LevelsOf(scen)
        /\ B = Batch(n, p, level, scen.rot, known) /\ after = After(n, Len(p), known, B)
        /\ Planned(B, n, Len(p), known, job, after) /\ Holder(B, Len(p), after, i, e, q, g)
    BY <1>3 DEF InHandAs, call
  <2>2. Downloaded(n, p, mem) = Downloaded(n, p, after[Len(B)])
    BY <1>1, <1>5, <2>1, FinishStep DEF GpuSound
  <2>3. Downloaded(n, p, after[Len(B)]) = Alone(n, p, level, scen.rot, known)
    BY <2>1 DEF Alone
  <2>4. Alone(scen.len, p, call.level, scen.rot, known) = CpuBlocks(scen, p, call.level)
    <3>1. scen \in Scenarios
      BY DEF GpuSound, SetupOK
    <3>2. known \in {0} \cup {other.level : other \in CallsOf(scen)}
      BY <2>1 DEF LevelsOf
    <3> QED BY <1>5, <1>6, <3>1, <3>2, KernelAssumption
  <2> QED BY <2>1, <2>2, <2>3, <2>4
<1>8. /\ got = CpuFirst(scen, call, k + Len(p)) /\ Len(got) = k + Len(p)
      /\ k + Len(p) \in 1..Len(call.blocks)
  <2>1. got = CpuFirst(scen, call, k) \o CpuBlocks(scen, p, call.level)
    BY <1>6, <1>7
  <2> HIDE DEF got
  <2> QED BY <1>5, <1>6, <2>1, Gathering
<1> HIDE DEF got
<1>9. WorkOK' /\ Agreed'
  <2>1. CASE Len(got) = Len(call.blocks)
    <3>1. got = CpuBlocks(scen, call.blocks, call.level)
      <4>1. DOMAIN call.blocks = 1..Len(call.blocks)
        BY <1>5
      <4>2. got = CpuFirst(scen, call, Len(call.blocks))
        BY <1>8, <2>1
      <4> QED BY <4>1, <4>2 DEF CpuFirst, CpuBlocks
    <3>2. Answer(lock, got)
      BY <1>1, <2>1
    <3>3. PICK out : out = got
      OBVIOUS
    <3> QED BY <1>1, <1>2, <3>1, <3>2, Answered DEF GpuSound, call
  <2>2. CASE Len(got) # Len(call.blocks)
    <3>1. work' = [work EXCEPT ![lock].got = got] /\ answer' = answer
      BY <1>1, <2>2
    <3>2. /\ DOMAIN work = Callers /\ DOMAIN work[lock] = {"done", "got"} /\ work[lock].done \in Nat
      BY <1>2 DEF GpuSound, WorkOK
    <3>3. /\ DOMAIN work' = Callers /\ DOMAIN work'[lock] = {"done", "got"}
          /\ work'[lock].done = work[lock].done /\ work'[lock].got = got
          /\ \A d \in Callers : d # lock => work'[d] = work[d]
      BY <1>2, <3>1, <3>2
    <3>4. \A d \in Callers : Asked(d)' = Asked(d) /\ Busy(d)' = Busy(d)
      BY <1>1, <3>3 DEF Asked, Busy
    <3>5. ASSUME NEW d \in Callers PROVE GotOK(d)'
      <4>1. CASE d = lock
        <5>1. PICK m \in Nat : m = k + Len(p)
          BY <1>8
        <5>2. m < Len(call.blocks)
          BY <1>8, <2>2, <5>1
        <5>3. Busy(d)' /\ Asked(d)' = call /\ work'[d].got = CpuFirst(scen', Asked(d)', m)
          BY <1>1, <1>4, <1>8, <3>3, <3>4, <4>1, <5>1 DEF call
        <5> QED BY <5>2, <5>3 DEF GotOK
      <4>2. CASE d # lock
        <5>1. PICK m \in Nat : /\ m > 0 => Busy(d) /\ m < Len(Asked(d).blocks)
                               /\ work[d].got = CpuFirst(scen, Asked(d), m)
          BY DEF GpuSound, WorkOK, GotOK
        <5>2. /\ m > 0 => Busy(d)' /\ m < Len(Asked(d)'.blocks)
              /\ work'[d].got = CpuFirst(scen', Asked(d)', m)
          BY <1>1, <3>3, <3>4, <4>2, <5>1
        <5> QED BY <5>2 DEF GotOK
      <4> QED BY <4>1, <4>2
    <3>6. Agreed'
      BY <1>1, <3>1 DEF GpuSound, Agreed
    <3>7. \A d \in Callers : DOMAIN work'[d] = {"done", "got"} /\ work'[d].done \in Nat
      BY <3>2, <3>3 DEF GpuSound, WorkOK
    <3> QED BY <3>1, <3>3, <3>5, <3>6, <3>7 DEF GpuSound, WorkOK
  <2> QED BY <2>1, <2>2
<1>10. DeviceOK' /\ BuffersOK'
  BY <1>1 DEF GpuSound, DeviceOK, CommandOK, BuffersOK
<1> QED BY <1>1, <1>9, <1>10, Unlocked DEF GpuSound, SetupOK

\* A call that is not made.
LEMMA CallFailsOK ==
  ASSUME GpuSound, CallFails
  PROVE  GpuSound'
<1>1. /\ todo # <<>> /\ Answer(lock, Cpu(Asked(lock))) /\ Unlock
      /\ UNCHANGED <<scen, gpu, buf, mem, queue, pow_level, allocs>>
  BY DEF CallFails
<1>2. lock \in Callers
  BY <1>1, HolderThread DEF GpuSound
<1>3. WorkOK' /\ Agreed'
  BY <1>1, <1>2, Answered DEF GpuSound, Cpu
<1>4. DeviceOK' /\ BuffersOK'
  BY <1>1 DEF GpuSound, DeviceOK, CommandOK, BuffersOK
<1> QED BY <1>1, <1>3, <1>4, Unlocked DEF GpuSound, SetupOK

\* An allocation fails.
LEMMA EnsureFailsOK ==
  ASSUME GpuSound, EnsureFails
  PROVE  GpuSound'
<1>1. /\ todo # <<>> /\ Answer(lock, Cpu(Asked(lock))) /\ Unlock
      /\ allocs' = allocs + 1 /\ UNCHANGED <<scen, gpu, queue, pow_level>>
  BY DEF EnsureFails, Upcoming
<1>2. lock \in Callers /\ lock # "free"
  BY <1>1, HolderThread DEF GpuSound
<1>3. WorkOK' /\ Agreed'
  BY <1>1, <1>2, Answered DEF GpuSound, Cpu
<1>4. PICK n, p, level, B, job, after, known, i, e, q, g :
          InHandAs(n, p, level, B, job, after, known, i, e, q, g)
  BY <1>2, InHandIs
<1>5. p \in Pieces(scen)
  BY <1>2, <1>4, InHandIs, ChunkIs DEF GpuSound, InHandAs
<1>6. /\ Planned(B, n, Len(p), known, job, after) /\ Holder(B, Len(p), after, i, e, q, g)
      /\ job.size = SizeOf(scen.len, p)
  BY <1>4 DEF InHandAs, JobOf
<1>7. DeviceOK' /\ BuffersOK'
  BY <1>5, <1>6, EnsureFailsStep DEF GpuSound, SetupOK
<1> QED BY <1>1, <1>3, <1>7, Unlocked DEF GpuSound, SetupOK

\* A call that is made.
LEMMA CallMadeOK ==
  ASSUME GpuSound, EnsureBuffers \/ StageInput \/ EnqueueCommand \/ BlockingWrite, ~blind'
  PROVE  GpuSound'
<1>1. /\ todo # <<>> /\ UNCHANGED <<scen, gpu, lock, work, answer, allocs>>
  BY DEF EnsureBuffers, StageInput, EnqueueCommand, BlockingWrite, Upcoming
<1>2. lock \in Callers /\ lock # "free"
  BY <1>1, HolderThread DEF GpuSound
<1>3. PICK n, p, level, B, job, after, known, i, e, q, g :
          InHandAs(n, p, level, B, job, after, known, i, e, q, g)
  BY <1>2, InHandIs
<1>4. p \in Pieces(scen) /\ level \in LevelsOf(scen)
  BY <1>2, <1>3, InHandIs, ChunkIs DEF GpuSound, InHandAs
<1>5. /\ Planned(B, n, Len(p), known, job, after) /\ Holder(B, Len(p), after, i, e, q, g)
      /\ job.size = SizeOf(scen.len, p) /\ job.level = level /\ Len(p) = Len(Chunk(lock))
  BY <1>3 DEF InHandAs, JobOf
<1>6. DeviceOK /\ BuffersOK /\ scen \in Scenarios /\ pow_level \in LevelsOf(scen)
  BY DEF GpuSound, SetupOK
<1>7. CASE EnsureBuffers
  <2>1. Holder(B, Len(p), after, i + 1, e, q, g)' /\ DeviceOK' /\ BuffersOK'
    BY <1>4, <1>5, <1>6, <1>7, EnsureStep
  <2>2. pow_level' \in LevelsOf(scen)
    BY <1>6, <1>7 DEF EnsureBuffers
  <2> QED BY <1>1, <1>2, <1>3, <2>1, <2>2, StillInHand
<1>8. CASE StageInput
  <2>1. Holder(B, Len(p), after, i + 1, i + 1, 0, g)' /\ DeviceOK' /\ BuffersOK'
    BY <1>5, <1>6, <1>8, StageStep
  <2>2. pow_level' \in LevelsOf(scen)
    BY <1>6, <1>8 DEF StageInput
  <2> QED BY <1>1, <1>2, <1>3, <2>1, <2>2, StillInHand
<1>9. CASE EnqueueCommand
  <2>1. (\E h : Holder(B, Len(p), after, i + 1, e, q + 1, h)') /\ DeviceOK' /\ BuffersOK'
    BY <1>5, <1>6, <1>9, EnqueueStep
  <2>3. PICK h : Holder(B, Len(p), after, i + 1, e, q + 1, h)'
    BY <2>1
  <2>2. pow_level' \in LevelsOf(scen)
    BY <1>6, <1>9 DEF EnqueueCommand
  <2> QED BY <1>1, <1>2, <1>3, <2>1, <2>2, <2>3, StillInHand
<1>10. CASE BlockingWrite
  <2>1. /\ Holder(B, Len(p), after, i + 1, i + 1, 0, g)' /\ DeviceOK' /\ BuffersOK'
        /\ pow_level' \in {pow_level, job.level}
    BY <1>5, <1>6, <1>10, WriteStep
  <2>2. pow_level' \in LevelsOf(scen)
    BY <1>4, <1>5, <1>6, <2>1
  <2> QED BY <1>1, <1>2, <1>3, <2>1, <2>2, StillInHand
<1> QED BY <1>7, <1>8, <1>9, <1>10

\* The device runs a command, of the chunk in hand or left by another.
LEMMA DeviceRunsOK ==
  ASSUME GpuSound, DeviceRuns
  PROVE  GpuSound'
<1>1. /\ UNCHANGED <<scen, gpu, lock, todo, work, answer, buf, pow_level, faults, allocs>>
  BY DEF DeviceRuns
<1>2. DeviceOK' /\ BuffersOK'
  BY <1>1, DeviceRunsIs DEF GpuSound, BuffersOK
<1>3. CASE lock = "free"
  <2>1. SetupOK'
    BY <1>1 DEF GpuSound, SetupOK
  <2>2. WorkOK' /\ Agreed'
    BY <1>1 DEF GpuSound, WorkOK, GotOK, Agreed, Busy, Asked
  <2>3. InHand'
    BY <1>1, <1>3 DEF InHand
  <2> QED BY <1>2, <2>1, <2>2, <2>3 DEF GpuSound
<1>4. CASE lock # "free"
  <2>1. PICK n, p, level, B, job, after, known, i, e, q, g :
            InHandAs(n, p, level, B, job, after, known, i, e, q, g)
    BY <1>4, InHandIs
  <2>2. /\ Planned(B, n, Len(p), known, job, after) /\ Holder(B, Len(p), after, i, e, q, g)
        /\ n = scen.len /\ q \in 0..Len(queue)
    BY <2>1 DEF InHandAs, Holder
  <2>3. DeviceOK /\ pow_level' \in LevelsOf(scen)
    BY <1>1 DEF GpuSound, SetupOK
  <2>4. CASE q = Len(queue)
    <3> DEFINE h == [j \in 1..q - 1 |-> g[j + 1]]
    <3>1. Holder(B, Len(p), after, i, g[1], q - 1, h)'
      BY <2>2, <2>3, <2>4, DeviceRunsOwn
    <3> HIDE DEF h
    <3> QED BY <1>1, <1>2, <1>4, <2>1, <2>3, <3>1, StillInHand
  <2>5. CASE q # Len(queue)
    <3>1. q < Len(queue)
      <4>1. Len(queue) \in Nat
        BY <2>3 DEF DeviceOK
      <4> QED BY <2>2, <2>5, <4>1
    <3>2. Holder(B, Len(p), after, i, e, q, g)'
      BY <2>2, <2>3, <3>1, DeviceRunsOther
    <3> QED BY <1>1, <1>2, <1>4, <2>1, <2>3, <3>2, StillInHand
  <2> QED BY <2>4, <2>5
<1> QED BY <1>3, <1>4

\* A call without --gpu.
LEMMA CpuCallOK ==
  ASSUME GpuSound, NEW c \in Callers, CpuCall(c)
  PROVE  GpuSound'
<1>1. /\ gpu = "none" /\ Answer(c, Cpu(Asked(c)))
      /\ UNCHANGED <<scen, gpu, lock, todo, buf, mem, queue, pow_level, faults, allocs>>
  BY DEF CpuCall
<1>2. WorkOK' /\ Agreed'
  BY <1>1, Answered DEF GpuSound, Cpu
<1>3. SetupOK' /\ DeviceOK' /\ BuffersOK'
  BY <1>1 DEF GpuSound, SetupOK, DeviceOK, CommandOK, BuffersOK
<1>4. InHand'
  BY <1>1 DEF GpuSound, SetupOK, InHand
<1> QED BY <1>2, <1>3, <1>4 DEF GpuSound

\* The device is opened.
LEMMA EnableGpuOK ==
  ASSUME GpuSound, EnableGpu
  PROVE  GpuSound'
<1>1. /\ gpu = "asked" /\ gpu' = IF New(scen.host, scen.len) THEN "on" ELSE "refused"
      /\ UNCHANGED <<scen, lock, todo, work, answer, buf, mem, queue, pow_level, faults, allocs>>
  BY DEF EnableGpu
<1>2. lock = "free"
  BY <1>1 DEF GpuSound, SetupOK
<1>3. SetupOK'
  BY <1>1, <1>2 DEF GpuSound, SetupOK, New
<1>4. WorkOK' /\ Agreed' /\ DeviceOK' /\ BuffersOK'
  BY <1>1 DEF GpuSound, WorkOK, GotOK, Agreed, DeviceOK, CommandOK, BuffersOK, Busy, Asked
<1>5. InHand'
  BY <1>1, <1>2 DEF InHand
<1> QED BY <1>3, <1>4, <1>5 DEF GpuSound

\* Nothing happens.
LEMMA IdleOK ==
  ASSUME GpuSound, UNCHANGED gpuVars
  PROVE  GpuSound'
<1>1. UNCHANGED <<scen, gpu, lock, todo, work, answer, buf, mem, queue, pow_level, faults, allocs>>
  BY DEF gpuVars
<1>2. SetupOK'
  BY <1>1 DEF GpuSound, SetupOK
<1>3. WorkOK' /\ Agreed' /\ DeviceOK' /\ BuffersOK'
  BY <1>1 DEF GpuSound, WorkOK, GotOK, Agreed, DeviceOK, CommandOK, BuffersOK, Busy, Asked
<1>4. CASE lock = "free"
  <2>1. InHand'
    BY <1>1, <1>4 DEF InHand
  <2> QED BY <1>2, <1>3, <2>1 DEF GpuSound
<1>5. CASE lock # "free"
  <2>1. PICK n, p, level, B, job, after, known, i, e, q, g :
            InHandAs(n, p, level, B, job, after, known, i, e, q, g)
    BY <1>5, InHandIs
  <2>2. Holder(B, Len(p), after, i, e, q, g)'
    <3>1. Holder(B, Len(p), after, i, e, q, g)
      BY <2>1 DEF InHandAs
    <3>2. ASSUME NEW j \in 1..q PROVE Mine(queue[Len(queue) - q + j], B[g[j]], Len(p))'
      <4>1. Mine(queue[Len(queue) - q + j], B[g[j]], Len(p))
        BY <3>1 DEF Holder
      <4> QED BY <1>1, <4>1 DEF Mine, Current
    <3> QED BY <1>1, <3>1, <3>2 DEF Holder
  <2>3. pow_level' \in LevelsOf(scen)
    BY <1>1 DEF GpuSound, SetupOK
  <2> QED BY <1>1, <1>3, <1>5, <2>1, <2>2, <2>3, StillInHand
<1> QED BY <1>4, <1>5

\* What has once been worked on stays so.
LEMMA BlindStays ==
  ASSUME [GpuNext]_gpuVars, ~blind'
  PROVE  ~blind
<1>1. CASE StageInput
  BY <1>1 DEF StageInput
<1>2. CASE EnqueueCommand
  BY <1>2 DEF EnqueueCommand
<1>3. CASE UNCHANGED blind
  BY <1>3
<1>4. StageInput \/ EnqueueCommand \/ UNCHANGED blind
  <2>1. ASSUME NEW c \in Callers, CpuCall(c) \/ TakeLock(c) PROVE UNCHANGED blind
    BY <2>1 DEF CpuCall, TakeLock
  <2>2. CASE EnableGpu \/ EnsureBuffers \/ BlockingWrite \/ Finish \/ CallFails \/ EnsureFails \/ DeviceRuns
    BY <2>2 DEF EnableGpu, EnsureBuffers, BlockingWrite, Finish, CallFails, EnsureFails, DeviceRuns
  <2>3. CASE Finished \/ UNCHANGED gpuVars
    BY <2>3 DEF Finished, gpuVars
  <2> QED BY <2>1, <2>2, <2>3 DEF GpuNext
<1> QED BY <1>1, <1>2, <1>3, <1>4

\* Every step keeps the invariant.
LEMMA GpuInductive == GpuInv /\ [GpuNext]_gpuVars => GpuInv'
<1> SUFFICES ASSUME GpuInv, [GpuNext]_gpuVars, ~blind' PROVE GpuSound'
  BY DEF GpuInv
<1> GpuSound
  BY BlindStays DEF GpuInv
<1>1. CASE EnableGpu
  BY <1>1, EnableGpuOK
<1>2. ASSUME NEW c \in Callers, CpuCall(c) PROVE GpuSound'
  BY <1>2, CpuCallOK
<1>3. ASSUME NEW c \in Callers, TakeLock(c) PROVE GpuSound'
  BY <1>3, TakeLockOK
<1>4. CASE EnsureBuffers \/ StageInput \/ EnqueueCommand \/ BlockingWrite
  BY <1>4, CallMadeOK
<1>5. CASE Finish
  BY <1>5, FinishOK
<1>6. CASE CallFails
  BY <1>6, CallFailsOK
<1>7. CASE EnsureFails
  BY <1>7, EnsureFailsOK
<1>8. CASE DeviceRuns
  BY <1>8, DeviceRunsOK
<1>9. CASE Finished \/ UNCHANGED gpuVars
  BY <1>9, IdleOK DEF Finished
<1> QED BY <1>1, <1>2, <1>3, <1>4, <1>5, <1>6, <1>7, <1>8, <1>9 DEF GpuNext

\* Every answered call has, in order, what the CPU kernel makes of its blocks:
\* whatever a failed chunk left in the device's queue, whichever buffers were made
\* anew, whatever power was on the device and however the two threads' chunks
\* follow each other (demod_gpu.rs:3, mod.rs:525), unless a kernel or the host
\* has worked on a buffer that a failed growth left without memory
\* (opencl.rs:304, 310).
THEOREM KernelsAlwaysAgree == GpuSpec => []KernelsAgree
<1>1. GpuInit => GpuInv
  BY GpuInitOK DEF GpuInv
<1>2. GpuInv => KernelsAgree
  BY DEF GpuInv, GpuSound, KernelsAgree
<1> QED BY <1>1, <1>2, GpuInductive, PTL DEF GpuSpec
=============================================================================
