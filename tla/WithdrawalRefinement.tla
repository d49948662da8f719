------------------------ MODULE WithdrawalRefinement ------------------------
(* Withdrawal does what Disbursement promises. *)
EXTENDS Withdrawal

Promise == INSTANCE Disbursement WITH
    Withdrawals <- Requests,
    Orders <- Attempts,
    NoOne <- None,
    agreed <- {w \in Requests : WithdrawalVerdict(w) = "approved"},
    purpose <- [a \in Attempts |-> IF order[a] = None THEN None ELSE order[a].req],
    accepted <- {a \in Attempts : transfer[a] # "none"},
    booked <- {w \in Requests : debits[w] > 0}

(* With a stable electorate all that handlers, webhooks, the listener, errors
   and restarts do to a withdrawal comes down to the steps that members expect,
   in their order and without a way back: the vote agrees, the transfer is
   ordered, the provider accepts, the balance is debited (VotesService.cast,
   WithdrawalsService, DisbursementService). *)
ImplementsDisbursement == Promise!Spec
=============================================================================
