---------------------------- MODULE MCMobileSync ----------------------------
(* MobileSync for TLC: two ballots on one proposal and a contribution. *)
EXTENDS MobileSync

MCBallots == {1, 2}
=============================================================================
