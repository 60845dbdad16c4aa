---------------------------- MODULE MCMediaPlugins ----------------------------
(* MediaPlugins for TLC, with the inductive invariant of its proofs. *)
EXTENDS MediaProofs

=============================================================================
