---------------------------- MODULE MCMailTransport ----------------------------
(***************************************************************************)
(* Small instances of MailTransport for TLC.                                 *)
(***************************************************************************)
EXTENDS MailTransport, TLC

CONSTANTS m1, m2, m3

MCMails == {m1, m2, m3}
MCTwoMails == {m1, m2}

=============================================================================
