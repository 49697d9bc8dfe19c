--------------------------- MODULE MCFieldDriver ---------------------------
(* Small instance: the level is the sum of the ratios kept, and the levels *)
(* 0 and 1 are close to each other.                                        *)
EXTENDS FieldDriver, SequencesExt

MCMtfLevel(ratios) == FoldSeq(LAMBDA r, sum : r + sum, 0, ratios)
MCNearLevels == {<<a, b>> \in (0 .. 9) \X (0 .. 9) : a - b \in -1 .. 1}
=============================================================================
