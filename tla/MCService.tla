-------------------------------- MODULE MCService --------------------------------
(***************************************************************************)
(* One click-to-call transport and the reCAPTCHA transport register, activate *)
(* and use one address.                                                      *)
(***************************************************************************)
EXTENDS ServiceProofs

=============================================================================
