------------------------- MODULE PaymentsRefinement -------------------------
(* Payments does what Collections promises. *)
EXTENDS Payments

Promise == INSTANCE Collections WITH
    Payers <- Keys,
    Unpaid <- Direct,
    Worth <- Amount,
    collected <- {k \in Keys : "paid" \in answers[k]},
    recorded <- {k \in Keys : contribution[k] # "absent"},
    tally <- counted,
    total <- balance

(* Webhooks, polls, failed and repeated initiations, repeated prompts, lost replies
   and restarts come down to four things that happen to a contribution, each
   after the one before and none undone: collected (unless it is made directly),
   recorded, counted once, booked (PaymentsService, ContributionsService). *)
ImplementsCollections == Promise!Spec
=============================================================================
