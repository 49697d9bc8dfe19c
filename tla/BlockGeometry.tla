---------------------------- MODULE BlockGeometry ----------------------------
(***************************************************************************)
(* The geometry of one field read (Decoder::assemble_field and             *)
(* prefetch_plan in decode/mod.rs).                                        *)
(*                                                                         *)
(* The input is cut into demodulation blocks: block b starts at sample     *)
(* b * BlockSize and is BlockLen samples long, so neighbouring blocks      *)
(* overlap by BlockLen - BlockSize samples.  A field read names its start  *)
(* by a block of the other grid (`readloc_block`, BlockLen samples each).  *)
(* A window is what the caller offers of the input: the samples from start *)
(* up to end, final if nothing comes behind them.                          *)
(***************************************************************************)
EXTENDS Naturals

CONSTANTS
    BlockLen,        \* spec.blocklen
    BlockSize,       \* spec.blocksize = blocklen - blockcut - blockcut_end
    ReadLen,         \* self.readlen
    PrefetchBlocks   \* prefetch_blocks

ASSUME GeometryAssumption ==
    /\ BlockSize \in Nat \ {0}
    /\ BlockLen \in Nat
    /\ BlockSize <= BlockLen
    /\ ReadLen \in Nat
    /\ PrefetchBlocks \in Nat

FirstBlock(rb) == (rb * BlockLen) \div BlockSize

BlockBegin(rb) == FirstBlock(rb) * BlockSize

\* One past the last block the field reads.
BlockEnd(rb) ==
    LET numblocks == ReadLen \div BlockLen + 2
    IN  (rb * BlockLen + numblocks * BlockLen) \div BlockSize + 1

WindowBlocks(rb) == FirstBlock(rb) .. BlockEnd(rb) - 1

\* The whole input slice of block b lies inside the window.
InWindow(b, win) == b * BlockSize + BlockLen <= win.end

\* The last window block and the blocks behind it, up to the first that the
\* window does not hold.
PrefetchPlan(rb, win) ==
    IF BlockBegin(rb) < win.start
    THEN {}
    ELSE {b \in BlockEnd(rb) - 1 .. BlockEnd(rb) + PrefetchBlocks - 2 :
              InWindow(b, win)}

\* The read needs data behind the window and the input has not ended.
RunsPastWindow(rb, win) ==
    /\ (BlockEnd(rb) + PrefetchBlocks) * BlockSize > win.end
    /\ ~win.final

\* The window does not reach back to the first block.
StartsBeforeWindow(rb, win) == BlockBegin(rb) < win.start

\* The requested blocks extend past the end of the input.
ReachesEof(rb, win) == BlockEnd(rb) * BlockSize > win.end
=============================================================================
