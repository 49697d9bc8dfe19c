----------------------------- MODULE PllMachine -----------------------------
(***************************************************************************)
(* The EFM phase-locked loop as a function.  What the machine makes of a   *)
(* buffer of samples is left open: EfmPll::process is deterministic in the *)
(* machine's state (EfmPllState) and the buffer, and that is all that the  *)
(* code around it relies on.                                               *)
(***************************************************************************)
CONSTANTS
    States,       \* EfmPllState
    PowerOn,      \* EfmPll::new
    Inputs,       \* the EFM slice of a field
    NoEfm,        \* the slice of a field without EFM: no samples
    TValues,      \* what the machine emits for a slice
    PllState,     \* PllState[<<state, slice>>]: the state after process
    PllOut        \* PllOut[<<state, slice>>]: what process returns

ASSUME PllAssumption ==
    /\ PowerOn \in States
    /\ NoEfm \in Inputs
    /\ PllState \in [States \X Inputs -> States]
    /\ PllOut \in [States \X Inputs -> TValues]
=============================================================================
