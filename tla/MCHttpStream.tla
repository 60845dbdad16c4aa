----------------------------- MODULE MCHttpStream -----------------------------
(* HttpStream for TLC, with the inductive invariant of its proofs.             *)
EXTENDS HttpProofs

=============================================================================
