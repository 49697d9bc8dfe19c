------------------------------ MODULE SerialPll ------------------------------
(***************************************************************************)
(* The EFM phase-locked loop as `writeout` uses it without a helper        *)
(* thread: one machine for the whole decode (the EFM track is continuous), *)
(* advanced by every field that is written, in the order of the writes.    *)
(***************************************************************************)
EXTENDS PllMachine, Sequences

VARIABLES
    efm_pll,    \* the machine's state
    written     \* the fields written so far: their EFM slice and T-values

serialVars == <<efm_pll, written>>

Init == efm_pll = PowerOn /\ written = << >>

Writeout(raw) ==
    /\ efm_pll' = PllState[<<efm_pll, raw>>]
    /\ written' = Append(written, [efm_raw |-> raw, efm |-> PllOut[<<efm_pll, raw>>]])

Next == \E raw \in Inputs : Writeout(raw)

SerialSpec == Init /\ [][Next]_serialVars
=============================================================================
