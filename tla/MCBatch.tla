------------------------------- MODULE MCBatch -------------------------------
(* Two candidates, who share the scale under two permits and queue under one. *)
EXTENDS Batch

=============================================================================
