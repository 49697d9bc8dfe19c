-------------------------- MODULE MCOutputPipeline --------------------------
(***************************************************************************)
(* Instances of the output pipeline for TLC.                               *)
(***************************************************************************)
EXTENDS OutputPipeline

MCStreams == <<"tbc", "pcm">>
=============================================================================
