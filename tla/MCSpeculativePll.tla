-------------------------- MODULE MCSpeculativePll --------------------------
(***************************************************************************)
(* Instances of the speculative PLL for TLC.  The machine's state is the   *)
(* list of the slices it has been run over and the T-values name both the  *)
(* state and the slice, so that a run from another state, of another field *)
(* or in another order cannot go unnoticed.  An empty slice leaves the     *)
(* machine as it is.                                                       *)
(***************************************************************************)
EXTENDS SpeculativePll

Slices == Inputs \ {NoEfm}

MCStates == UNION {[1 .. n -> Slices] : n \in 0 .. MaxWritten}

MCPowerOn == << >>

MCPllState ==
    [at \in MCStates \X Inputs |->
        IF at[2] = NoEfm \/ Len(at[1]) = MaxWritten THEN at[1] ELSE Append(at[1], at[2])]

MCTValues == MCStates \X Inputs

MCPllOut == [at \in MCStates \X Inputs |-> at]
=============================================================================
