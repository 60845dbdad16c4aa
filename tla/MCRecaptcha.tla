------------------------------ MODULE MCRecaptcha ------------------------------
(***************************************************************************)
(* Small instances of Recaptcha for TLC.                                     *)
(***************************************************************************)
EXTENDS Recaptcha, TLC

CONSTANTS r1, r2, f1, f2

MCRequests == {r1, r2}
MCGenuine == {r1}
MCTwoFds == {f1, f2}
MCOneFd == {f1}

=============================================================================
