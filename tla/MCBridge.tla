------------------------------- MODULE MCBridge -------------------------------
(* Bridge on a handful of calls.                                             *)
EXTENDS BridgeProofs, TLC

CONSTANTS c1, c2

MCCalls == {c1, c2}

MCOneCall == {c1}

\* Calls are interchangeable: sound for the safety properties.
MCSymmetry == Permutations(MCCalls)

=============================================================================
