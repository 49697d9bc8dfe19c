--------------------------- MODULE SpeculativePll ---------------------------
(***************************************************************************)
(* The EFM phase-locked loop with its helper thread.  As soon as a field   *)
(* is demodulated, decode() sends its EFM slice to the helper with a       *)
(* snapshot of the machine; writeout takes the helper's result instead of  *)
(* running the machine when the result is there, is this field's (token)   *)
(* and started from the state the machine still has (generation).          *)
(*                                                                         *)
(* In between, the driver may decode the field again (a redo), drop it, or *)
(* keep it in lastvalidfield and write it twice, and another field may     *)
(* advance the machine; the helper may be late, or die of a panic.         *)
(***************************************************************************)
EXTENDS PllMachine, Naturals, Sequences

CONSTANTS
    MaxTokens,    \* bound: speculative runs in a decode
    MaxWritten    \* bound: fields written in a decode

ASSUME BoundAssumption == MaxTokens \in Nat /\ MaxWritten \in Nat

VARIABLES
    efm_pll,         \* the machine's state
    pll_gen,         \* bumped on every advance of the machine
    next_token,      \* of PllSpec: the last token handed out
    pll_token,       \* the token of the field being decoded, 0 for none
    jobs,            \* channel to the helper
    done,            \* channel back
    helper,          \* "running" or "dead"
    field,           \* the EFM slice of the field being decoded
    pass,            \* passes made over that field
    lastvalidfield,  \* the last field of either parity
    towrite,         \* the fields decode() has still to write, in order
    written          \* the fields written so far: their EFM slice and T-values

vars == <<efm_pll, pll_gen, next_token, pll_token, jobs, done, helper,
          field, pass, lastvalidfield, towrite, written>>

Slots == {0, 1}     \* usize::from(is_first_field)
None == [efm_raw |-> "none"]

Init ==
    /\ efm_pll = PowerOn
    /\ pll_gen = 0
    /\ next_token = 0
    /\ pll_token = 0
    /\ jobs = << >>
    /\ done = << >>
    /\ helper = "running"
    /\ field = NoEfm
    /\ pass = 0
    /\ lastvalidfield = [idx \in Slots |-> None]
    /\ towrite = << >>
    /\ written = << >>

-----------------------------------------------------------------------------
(* The decode loop.                                                        *)

Job(token, input) ==
    [token |-> token, gen |-> pll_gen, state |-> efm_pll, input |-> input]

\* PllSpec::submit: a send to a dead helper is ignored.
Submit(input) ==
    /\ next_token < MaxTokens
    /\ next_token' = next_token + 1
    /\ pll_token' = next_token'
    /\ jobs' = IF helper = "running" THEN Append(jobs, Job(next_token', input)) ELSE jobs

\* A pass yields a valid field: the first pass over it, or the redo.  The
\* speculation of an earlier pass is forgotten, a new one is made if the
\* field has EFM.
Pass(input) ==
    /\ towrite = << >>
    /\ pass < 2
    /\ pass' = pass + 1
    /\ field' = input
    /\ \/ input # NoEfm /\ Submit(input)
       \/ input = NoEfm /\ pll_token' = 0 /\ UNCHANGED <<next_token, jobs>>
    /\ UNCHANGED <<efm_pll, pll_gen, done, helper, lastvalidfield, towrite, written>>

\* The field goes nowhere: it cannot be the first one written, or its redo
\* found no valid field.  Its token stays behind.
Abandon ==
    /\ pass > 0
    /\ pass' = 0
    /\ field' = NoEfm
    /\ UNCHANGED <<efm_pll, pll_gen, next_token, pll_token, jobs, done, helper,
                   lastvalidfield, towrite, written>>

\* The field takes over its speculation, becomes the last valid one of its
\* parity and is written.  To fill a gap the last field of the other parity
\* is written again before it; if there is none, neither is written.
Claim(idx, need_filler) ==
    LET wf    == [efm_raw |-> field, token |-> pll_token]
        other == lastvalidfield[1 - idx]
    IN  /\ pass > 0
        /\ Len(written) + 2 <= MaxWritten
        /\ lastvalidfield' = [lastvalidfield EXCEPT ![idx] = wf]
        /\ towrite' = IF ~need_filler THEN <<wf>>
                      ELSE IF other = None THEN << >>
                      ELSE <<other, wf>>
        /\ pll_token' = 0
        /\ field' = NoEfm
        /\ pass' = 0
        /\ UNCHANGED <<efm_pll, pll_gen, next_token, jobs, done, helper, written>>

-----------------------------------------------------------------------------
(* writeout.                                                               *)

\* Mutant: the generation is not looked at.
MatchesToken(result, wf) == result.token = wf.token

\* PllSpec::take accepts the first result that is of this field and of this
\* generation.
Matches(result, wf) == result.token = wf.token /\ result.gen = pll_gen

Hit(k, wf) ==
    /\ wf.token # 0
    /\ Matches(done[k], wf)
    /\ \A m \in 1 .. k - 1 : ~Matches(done[m], wf)

\* Take drains the channel, whatever it finds; a field without a token does
\* not look.
Drained(wf) == IF wf.token # 0 THEN << >> ELSE done

Written(wf, efm) == Append(written, [efm_raw |-> wf.efm_raw, efm |-> efm])

\* The helper's result is installed.
WriteSpeculated ==
    /\ towrite # << >>
    /\ \E k \in 1 .. Len(done) :
           /\ Hit(k, Head(towrite))
           /\ efm_pll' = done[k].state
           /\ written' = Written(Head(towrite), done[k].out)
    /\ pll_gen' = pll_gen + 1
    /\ done' = Drained(Head(towrite))
    /\ towrite' = Tail(towrite)
    /\ UNCHANGED <<next_token, pll_token, jobs, helper, field, pass, lastvalidfield>>

\* Mutant: an inline run does not bump the generation.
WriteInlineSameGen ==
    LET at == <<efm_pll, Head(towrite).efm_raw>>
    IN  /\ towrite # << >>
        /\ \A k \in 1 .. Len(done) : ~Hit(k, Head(towrite))
        /\ efm_pll' = PllState[at]
        /\ written' = Written(Head(towrite), PllOut[at])
        /\ done' = Drained(Head(towrite))
        /\ towrite' = Tail(towrite)
        /\ UNCHANGED <<pll_gen, next_token, pll_token, jobs, helper, field, pass, lastvalidfield>>

\* The machine is run in line.
WriteInline ==
    LET at == <<efm_pll, Head(towrite).efm_raw>>
    IN  /\ towrite # << >>
        /\ \A k \in 1 .. Len(done) : ~Hit(k, Head(towrite))
        /\ efm_pll' = PllState[at]
        /\ written' = Written(Head(towrite), PllOut[at])
        /\ pll_gen' = pll_gen + 1
        /\ done' = Drained(Head(towrite))
        /\ towrite' = Tail(towrite)
        /\ UNCHANGED <<next_token, pll_token, jobs, helper, field, pass, lastvalidfield>>

-----------------------------------------------------------------------------
(* The helper thread.                                                      *)

HelperStep ==
    /\ helper = "running"
    /\ jobs # << >>
    /\ jobs' = Tail(jobs)
    /\ done' = LET job == Head(jobs)
                   at  == <<job.state, job.input>>
               IN  Append(done, [token |-> job.token, gen |-> job.gen,
                                 state |-> PllState[at], out |-> PllOut[at]])
    /\ UNCHANGED <<efm_pll, pll_gen, next_token, pll_token, helper,
                   field, pass, lastvalidfield, towrite, written>>

\* A panic ends the helper thread alone; what was queued for it is lost, what
\* it has sent can still be received.
HelperDies ==
    /\ helper = "running"
    /\ jobs # << >>
    /\ helper' = "dead"
    /\ jobs' = << >>
    /\ UNCHANGED <<efm_pll, pll_gen, next_token, pll_token, done,
                   field, pass, lastvalidfield, towrite, written>>

Next ==
    \/ \E input \in Inputs : Pass(input)
    \/ Abandon
    \/ \E idx \in Slots, need_filler \in BOOLEAN : Claim(idx, need_filler)
    \/ WriteSpeculated
    \/ WriteInline
    \/ HelperStep
    \/ HelperDies

Spec == Init /\ [][Next]_vars

-----------------------------------------------------------------------------
(* What the speculative EFM phase-locked loop promises.                    *)

Jobs == [token : Nat \ {0}, gen : Nat, state : States, input : Inputs]
Results == [token : Nat \ {0}, gen : Nat, state : States, out : TValues]
Fields == [efm_raw : Inputs, token : Nat]

\* Types of the variables (PllSpec, PllJob and the PLL fields of Decoder).
TypeOK ==
    /\ efm_pll \in States
    /\ pll_gen \in Nat
    /\ next_token \in Nat
    /\ pll_token \in Nat
    /\ jobs \in Seq(Jobs)
    /\ done \in Seq(Results)
    /\ helper \in {"running", "dead"}
    /\ field \in Inputs
    /\ pass \in 0 .. 2
    /\ lastvalidfield \in [Slots -> Fields \union {None}]
    /\ towrite \in Seq(Fields)
    /\ written \in Seq([efm_raw : Inputs, efm : TValues])

\* The fields that could ask for a speculative result: the one being decoded,
\* the kept ones and the ones about to be written.
Holders ==
    {lastvalidfield[idx] : idx \in {i \in Slots : lastvalidfield[i] # None}}
        \union {towrite[k] : k \in 1 .. Len(towrite)}
        \union (IF pass > 0 THEN {[efm_raw |-> field, token |-> pll_token]} ELSE {})

\* Tokens were handed out and generations were reached.
Issued ==
    /\ \A h \in Holders : h.token <= next_token
    /\ \A k \in 1 .. Len(jobs) : jobs[k].token <= next_token /\ jobs[k].gen <= pll_gen
    /\ \A k \in 1 .. Len(done) : done[k].token <= next_token /\ done[k].gen <= pll_gen

\* The helper has been asked, and has answered, for this field what the inline
\* call would do now.
JobSound(job, h) ==
    job.token = h.token => /\ job.input = h.efm_raw
                           /\ job.gen = pll_gen => job.state = efm_pll

ResultSound(result, h) ==
    (result.token = h.token /\ result.gen = pll_gen) =>
        /\ result.state = PllState[<<efm_pll, h.efm_raw>>]
        /\ result.out = PllOut[<<efm_pll, h.efm_raw>>]

\* A token and a generation are all writeout looks at, and they are enough: a
\* run that has a field's token was given that field's samples, and if its
\* generation is still the current one it started from the state the machine
\* has now, so what it found is what the inline call would find.
SpeculationSound ==
    /\ Issued
    /\ \A h \in Holders :
           /\ \A k \in 1 .. Len(jobs) : JobSound(jobs[k], h)
           /\ \A k \in 1 .. Len(done) : ResultSound(done[k], h)

\* Speculation changes no byte of the output: whatever the helper does and
\* whenever it does it, the T-values of every field written are those of one
\* machine run over the written fields in their order.
Serial == INSTANCE SerialPll

ImplementsSerial == Serial!SerialSpec
=============================================================================
