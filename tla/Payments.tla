------------------------------ MODULE Payments ------------------------------
(***************************************************************************)
(* Collections: a member pays a contribution by mobile money through       *)
(* CamPay (PaymentsService), and the payment becomes a contribution that   *)
(* is relayed to the vault and booked (ContributionsService).              *)
(*                                                                         *)
(* A contribution can also be made directly (POST /contributions, which    *)
(* the offline queue of the phone uses): it goes the same way to the vault *)
(* and into the balance, with no payment and no collection.                *)
(*                                                                         *)
(* handler[h] is an HTTP request being handled: the member's initiation or *)
(* direct contribution, a webhook of CamPay, or the member's poll of the   *)
(* payment.  All are of one member and one amount, which is all that the   *)
(* event listener has to tell contributions apart.                         *)
(***************************************************************************)
EXTENDS Integers, FiniteSets

CONSTANTS
    Keys,        \* contributions, each by the idempotency key of its payment ...
    Direct,      \* ... or by the request that makes it directly
    Handlers,    \* requests that the server can be handling at one time
    Amount,      \* of every contribution
    Attempts,    \* CAMPAY_MAX_ATTEMPTS, calls of CamPay before an initiation gives up
    Environment  \* what the surroundings may do, a subset of EnvironmentKinds

EnvironmentKinds ==
    {"listener",    \* the event listener confirms contributions as well
     "refusal",     \* CamPay refuses the collection
     "lostReply",   \* no reply arrives, whether CamPay started the collection or not
     "relayError",  \* the relay throws, whether the vault counted or not
     "relayMissed", \* the relay returns though the vault did not count
     "dbError",     \* a step of ContributionsService.create or of the listener throws
     "queryError",  \* the listener's query of the chain fails
     "restart"}     \* the server stops and its handlers are lost

ASSUME KeysAssumption == IsFiniteSet(Keys) /\ Direct \subseteq Keys
ASSUME AmountAssumption == Amount \in Nat
ASSUME AttemptsAssumption == Attempts \in Nat \ {0}
ASSUME EnvironmentAssumption == Environment \subseteq EnvironmentKinds

VARIABLES
    payment,      \* Payment.status
    contribution, \* status of the Contribution with this paymentId, or made directly
    hashed,       \* those that have a txHash
    balance,      \* Cooperative.confirmedBalanceXAF
    counted,      \* times that the vault counted the contribution
    prompts,      \* times that CamPay asked the member for the payment
    answers,      \* what the member has answered
    acknowledged, \* payments whose success CamPay reported and saw accepted
    handler

db == <<payment, contribution, hashed, balance>>
campay == <<prompts, answers>>
vars == <<payment, contribution, hashed, balance, counted, prompts, answers, acknowledged,
          handler>>

Idle == [pc |-> "idle"]
Points == {"create", "collect", "initiateFailed", "check", "success", "failure",
           "record", "relay", "confirm", "mark"}
Active == [pc : Points, key : Keys, hook : BOOLEAN, seen : BOOLEAN, tries : Nat]

TypeOK ==
    /\ payment \in [Keys -> {"absent", "PENDING", "SUCCESS", "FAILED"}]
    /\ contribution \in [Keys -> {"absent", "PENDING", "CONFIRMED", "FAILED"}]
    /\ hashed \in SUBSET Keys
    /\ balance \in Nat
    /\ counted \in [Keys -> Nat]
    /\ prompts \in [Keys -> Nat]
    /\ answers \in [Keys -> SUBSET {"paid", "refused"}]
    /\ acknowledged \in SUBSET Keys
    /\ handler \in [Handlers -> Active \cup {Idle}]

Init ==
    /\ payment = [k \in Keys |-> "absent"]
    /\ contribution = [k \in Keys |-> "absent"]
    /\ hashed = {}
    /\ balance = 0
    /\ counted = [k \in Keys |-> 0]
    /\ prompts = [k \in Keys |-> 0]
    /\ answers = [k \in Keys |-> {}]
    /\ acknowledged = {}
    /\ handler = [h \in Handlers |-> Idle]

Enter(h, k, hook, point) ==
    handler' = [handler EXCEPT ![h] =
                  [pc |-> point, key |-> k, hook |-> hook,
                   seen |-> contribution[k] # "absent", tries |-> 0]]
Goto(h, point) == handler' = [handler EXCEPT ![h].pc = point]
Done(h) == handler' = [handler EXCEPT ![h] = Idle]

(* A webhook that is answered without an error has been acknowledged. *)
Answer(h) ==
    /\ Done(h)
    /\ acknowledged' = IF handler[h].hook THEN acknowledged \cup {handler[h].key}
                       ELSE acknowledged

-----------------------------------------------------------------------------
(* PaymentsService.initiate. *)

(* No payment is found under the key; when one is, it is the answer. *)
InitiateBegin(h, k) ==
    /\ handler[h] = Idle
    /\ k \notin Direct
    /\ payment[k] = "absent"
    /\ Enter(h, k, FALSE, "create")
    /\ UNCHANGED <<db, counted, campay, acknowledged>>

(* Mutant of InitiateCreate: the key is not unique. *)
InitiateCreateAgain(h) ==
    /\ handler[h].pc = "create"
    /\ payment' = [payment EXCEPT ![handler[h].key] = "PENDING"]
    /\ Goto(h, "collect")
    /\ UNCHANGED <<contribution, hashed, balance, counted, campay, acknowledged>>

(* The key is unique: the second of two creations answers with the first. *)
InitiateCreate(h) ==
    LET k == handler[h].key
    IN  /\ handler[h].pc = "create"
        /\ \/ /\ payment[k] = "absent"
              /\ payment' = [payment EXCEPT ![k] = "PENDING"]
              /\ Goto(h, "collect")
           \/ /\ payment[k] # "absent"
              /\ Done(h)
              /\ UNCHANGED payment
        /\ UNCHANGED <<contribution, hashed, balance, counted, campay, acknowledged>>

(* CampayService.request calls again after a time-out or a status that may pass,
   and gives up after any other status and when it has tried Attempts times.  A call
   without a reply can have reached CamPay, which asks the member once more. *)
InitiateCollect(h) ==
    LET ask == prompts' = [prompts EXCEPT ![handler[h].key] = @ + 1]
        tries == handler[h].tries + 1
    IN  /\ handler[h].pc = "collect"
        /\ \/ ask /\ Done(h)
           \/ "refusal" \in Environment /\ Goto(h, "initiateFailed") /\ UNCHANGED prompts
           \/ /\ "lostReply" \in Environment
              /\ ask \/ UNCHANGED prompts
              /\ \/ Goto(h, "initiateFailed")
                 \/ tries < Attempts /\ handler' = [handler EXCEPT ![h].tries = tries]
        /\ UNCHANGED <<db, counted, answers, acknowledged>>

(* The catch block, whatever a webhook has written meanwhile. *)
InitiateFailed(h) ==
    /\ handler[h].pc = "initiateFailed"
    /\ payment' = [payment EXCEPT ![handler[h].key] = "FAILED"]
    /\ Done(h)
    /\ UNCHANGED <<contribution, hashed, balance, counted, campay, acknowledged>>

(* The member confirms a prompt on the phone, or not. *)
Settle(k) ==
    /\ Cardinality(answers[k]) < prompts[k]
    /\ \E answer \in {"paid", "refused"} : answers' = [answers EXCEPT ![k] = @ \cup {answer}]
    /\ UNCHANGED <<db, counted, prompts, acknowledged, handler>>

-----------------------------------------------------------------------------
(* PaymentsService.handleWebhook and tryResolvePendingPaymentStatus. *)

(* A webhook tells a final outcome (any other is acknowledged and ignored), at
   any time after it and any number of times.  A payment that is read as
   SUCCESS only needs its contribution. *)
HookBegin(h, k) ==
    /\ handler[h] = Idle
    /\ payment[k] # "absent"
    /\ answers[k] # {}
    /\ \/ /\ payment[k] = "SUCCESS" /\ contribution[k] = "absent"
          /\ Enter(h, k, TRUE, "record")
          /\ UNCHANGED acknowledged
       \/ /\ payment[k] = "SUCCESS" /\ contribution[k] # "absent"
          /\ acknowledged' = acknowledged \cup {k}
          /\ UNCHANGED handler
       \/ /\ payment[k] # "SUCCESS"
          /\ \/ "paid" \in answers[k] /\ Enter(h, k, TRUE, "success")
             \/ "refused" \in answers[k] /\ Enter(h, k, TRUE, "failure")
          /\ UNCHANGED acknowledged
    /\ UNCHANGED <<db, counted, campay>>

(* The member polls a pending payment, and CamPay is asked for its status. *)
PollBegin(h, k) ==
    /\ handler[h] = Idle
    /\ payment[k] = "PENDING"
    /\ Enter(h, k, FALSE, "check")
    /\ UNCHANGED <<db, counted, campay, acknowledged>>

(* Mutant of PollCheck: what is not refused is taken as paid. *)
PollCheckOptimistic(h) ==
    LET answer == answers[handler[h].key]
    IN  /\ handler[h].pc = "check"
        /\ \/ "refused" \notin answer /\ Goto(h, "success")
           \/ "refused" \in answer /\ Goto(h, "failure")
        /\ UNCHANGED <<db, counted, campay, acknowledged>>

PollCheck(h) ==
    LET answer == answers[handler[h].key]
    IN  /\ handler[h].pc = "check"
        /\ \/ "paid" \in answer /\ Goto(h, "success")
           \/ "refused" \in answer /\ Goto(h, "failure")
           \/ Done(h)  \* still pending, or no answer
        /\ UNCHANGED <<db, counted, campay, acknowledged>>

(* Both write the outcome over whatever the status is by now; the
   contribution is the one read at the beginning. *)
WriteSuccess(h) ==
    /\ handler[h].pc = "success"
    /\ payment' = [payment EXCEPT ![handler[h].key] = "SUCCESS"]
    /\ \/ handler[h].seen /\ Answer(h)
       \/ ~handler[h].seen /\ Goto(h, "record") /\ UNCHANGED acknowledged
    /\ UNCHANGED <<contribution, hashed, balance, counted, campay>>

(* Mutant of WriteFailure: the status is stored as CamPay calls it. *)
WriteFailureRaw(h) ==
    /\ handler[h].pc = "failure"
    /\ payment' = [payment EXCEPT ![handler[h].key] = "EXPIRED"]
    /\ Done(h)
    /\ UNCHANGED <<contribution, hashed, balance, counted, campay, acknowledged>>

WriteFailure(h) ==
    /\ handler[h].pc = "failure"
    /\ payment' = [payment EXCEPT ![handler[h].key] = "FAILED"]
    /\ Done(h)
    /\ UNCHANGED <<contribution, hashed, balance, counted, campay, acknowledged>>

-----------------------------------------------------------------------------
(* ContributionsService.create. *)

(* POST /contributions: a row of its own for each request, of no payment. *)
ContributeDirectly(h, k) ==
    /\ handler[h] = Idle
    /\ k \in Direct
    /\ contribution[k] = "absent"
    /\ \A g \in Handlers : handler[g] # Idle => handler[g].key # k
    /\ Enter(h, k, FALSE, "record")
    /\ UNCHANGED <<db, counted, campay, acknowledged>>

(* Mutant of Record: paymentId is not unique. *)
RecordAgain(h) ==
    /\ handler[h].pc = "record"
    /\ contribution' = [contribution EXCEPT ![handler[h].key] = "PENDING"]
    /\ Goto(h, "relay")
    /\ UNCHANGED <<payment, hashed, balance, counted, campay, acknowledged>>

(* The row; paymentId is unique, and a second creation throws. *)
Record(h) ==
    LET k == handler[h].key
    IN  /\ handler[h].pc = "record"
        /\ \/ /\ contribution[k] = "absent"
              /\ contribution' = [contribution EXCEPT ![k] = "PENDING"]
              /\ Goto(h, "relay")
           \/ /\ contribution[k] # "absent" \/ "dbError" \in Environment
              /\ Done(h)
              /\ UNCHANGED contribution
        /\ UNCHANGED <<payment, hashed, balance, counted, campay, acknowledged>>

(* relayContribution: see Relay for how a relay can return or throw whatever
   the vault did. *)
RelayContribution(h) ==
    LET count == counted' = [counted EXCEPT ![handler[h].key] = @ + 1]
    IN  /\ handler[h].pc = "relay"
        /\ \/ count /\ Goto(h, "confirm")
           \/ "relayMissed" \in Environment /\ Goto(h, "confirm") /\ UNCHANGED counted
           \/ /\ "relayError" \in Environment
              /\ Goto(h, "mark")
              /\ count \/ UNCHANGED counted
        /\ UNCHANGED <<db, campay, acknowledged>>

(* confirmContribution books the contribution in one transaction.  The ledger
   row and the notifications that follow may throw: that is past the catch. *)
Confirm(h) ==
    /\ handler[h].pc = "confirm"
    /\ \/ /\ contribution' = [contribution EXCEPT ![handler[h].key] = "CONFIRMED"]
          /\ hashed' = hashed \cup {handler[h].key}
          /\ balance' = balance + Amount
          /\ \/ Answer(h)
             \/ "dbError" \in Environment /\ Done(h) /\ UNCHANGED acknowledged
       \/ /\ "dbError" \in Environment
          /\ Goto(h, "mark")
          /\ UNCHANGED <<contribution, hashed, balance, acknowledged>>
    /\ UNCHANGED <<payment, counted, campay>>

(* markContributionFailed, and the error goes up to the webhook's answer. *)
MarkFailed(h) ==
    /\ handler[h].pc = "mark"
    /\ contribution' = [contribution EXCEPT ![handler[h].key] = "FAILED"]
    /\ Done(h)
    /\ UNCHANGED <<payment, hashed, balance, counted, campay, acknowledged>>

-----------------------------------------------------------------------------
(* syncContributionRecord, as the requests see it: for every ContributionMade
   event that it polls, the listener confirms one of the member's contributions
   of that amount that has no txHash.  It books nothing, and an event may be
   polled again.  EventListener is the listener itself. *)
SyncContribution(k) ==
    /\ "listener" \in Environment
    /\ \E event \in Keys : counted[event] > 0
    /\ contribution[k] # "absent" /\ k \notin hashed
    /\ contribution' = [contribution EXCEPT ![k] = "CONFIRMED"]
    /\ hashed' = hashed \cup {k}
    /\ UNCHANGED <<payment, balance, counted, campay, acknowledged, handler>>

Restart ==
    /\ "restart" \in Environment
    /\ handler' = [h \in Handlers |-> Idle]
    /\ UNCHANGED <<db, counted, campay, acknowledged>>

(* The steps that touch neither the chain nor the ledger. *)
PlainStep(h) ==
    \/ InitiateCreate(h) \/ InitiateCollect(h) \/ InitiateFailed(h)
    \/ PollCheck(h) \/ WriteSuccess(h) \/ WriteFailure(h)
    \/ Record(h) \/ MarkFailed(h)

Step(h) == PlainStep(h) \/ RelayContribution(h) \/ Confirm(h)

Begin(h, k) ==
    InitiateBegin(h, k) \/ HookBegin(h, k) \/ PollBegin(h, k) \/ ContributeDirectly(h, k)

Next ==
    \/ \E h \in Handlers : Step(h) \/ \E k \in Keys : Begin(h, k)
    \/ \E k \in Keys : Settle(k) \/ SyncContribution(k)
    \/ Restart

Spec == Init /\ [][Next]_vars

-----------------------------------------------------------------------------
(* No payment is taken for granted: it is successful, and has a contribution, only
   when the member has paid for it, though webhooks, polls, failed initiations
   and repeated keys write over one another, and CamPay may report a refused
   prompt of a payment that was paid by another.  (What is contributed directly
   has no payment, and enters the balance with no money behind it.) *)
PaymentWasCollected ==
    \A k \in Keys \ Direct :
        payment[k] = "SUCCESS" \/ contribution[k] # "absent" => "paid" \in answers[k]

(* The calls that are repeated have a limit: however often its key is submitted,
   at one time or again after a failure, the member is asked no more often than
   one initiation may call CamPay (the unique idempotencyKey, CampayService.request). *)
PromptsAreBounded == \A k \in Keys : prompts[k] <= Attempts

(* The vault counts a contribution at most once, however often the member is asked
   and pays, its webhook comes, a poll finds it and the server restarts
   (paymentId is unique, and a contribution is relayed by nobody but its creator). *)
CountedOnce == \A k \in Keys : counted[k] <= 1

(* The balance holds only confirmed contributions, each booked once: neither a
   failure that follows the booking nor the listener takes a contribution back
   or books it again.  (It may hold less: what the listener confirms after a
   relay that threw is never booked.) *)
BalanceIsConfirmed ==
    balance <= Amount * Cardinality({k \in Keys : contribution[k] = "CONFIRMED"})

(* The backend receives the webhook, updates the payment to SUCCESS and creates
   a contribution that is CONFIRMED (Addendum 3.2, step 5): a success that it
   has acknowledged, so that CamPay does not repeat it, has not failed. *)
AcknowledgedIsNotFailed == \A k \in acknowledged : contribution[k] # "FAILED"
=============================================================================
