--------------------------- MODULE MCStreamPipeline ---------------------------
(***************************************************************************)
(* StreamPipeline with two events, one of which has a table of its own, and *)
(* a topic of every sequence of up to MaxMessages messages about them:      *)
(* repeated, defective and corrected, in order and behind the watermark.    *)
(***************************************************************************)
EXTENDS StreamPipeline
=============================================================================
