---------------------------- MODULE MCDemodCache ----------------------------
(***************************************************************************)
(* Instances of the block cache for TLC.  BlockSize 4 and BlockLen 5 keep  *)
(* the two grids different, as 31712 and 32768 do.                         *)
(***************************************************************************)
EXTENDS DemodCache

CONSTANTS CaptureLen,   \* samples in the input
          ReadEnd       \* where a window that is not the final one ends

\* The windows decode_all offers: one with more input to come, the final one,
\* and the final one after its head has been trimmed.
MCWindows ==
    {[start |-> 0, end |-> ReadEnd, final |-> FALSE],
     [start |-> 0, end |-> CaptureLen, final |-> TRUE],
     [start |-> BlockSize, end |-> CaptureLen, final |-> TRUE]}
=============================================================================
