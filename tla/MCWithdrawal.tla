---------------------------- MODULE MCWithdrawal ----------------------------
(* Instances of Withdrawal for TLC: who may exchange places, and what the
   surroundings do in each run. *)
EXTENDS WithdrawalRefinement, TLC

(* Users who begin alike are interchangeable, and so are handlers and references;
   only runs without a liveness property use this. *)
Symmetry ==
    Permutations(Contributors) \cup Permutations(Members \ Contributors)
        \cup Permutations(Handlers) \cup Permutations(Attempts)

(* A stable electorate, and failures and restarts anywhere.  An error after a
   booking is left to the other runs: an interim webhook reopens the vote of a
   booked request as well.  So is an error of the booking: a lost reply leaves
   the same, an accepted order and a failed request. *)
StableSurroundings ==
    {"listener", "processingError", "refusal", "lostReply", "catchError", "interimWebhook",
     "restart"}

(* All that the provider and the steps that follow its answer can do to an order,
   the listener and the lock. *)
SettlingSurroundings ==
    {"listener", "lock", "refusal", "lostReply", "bookingError", "errorAfterCommit",
     "interimWebhook"}

(* An electorate that grows and shrinks, and every failure of the server's own steps
   but two: that of the catch block leaves a request behind, and that of the answer a
   ballot that can be cast again. *)
FailingSteps ==
    {"contribution", "membership", "rollback", "processingError", "refusal",
     "bookingError", "errorAfterCommit"}
=============================================================================
