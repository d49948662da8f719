----------------------------- MODULE Withdrawal -----------------------------
(***************************************************************************)
(* Withdrawals of one cooperative: the vote, the decision, the transfer by *)
(* the payment provider (CamPay) and its webhook.                          *)
(*                                                                         *)
(* Every HTTP request is a handler that yields at each await, so each      *)
(* database statement (or transaction) is one action and other handlers    *)
(* run in between.  cast[h] is the handler of a ballot (VotesService.cast  *)
(* with the withdrawal processing it calls), hook[k] the handler of a      *)
(* webhook.  The provider is external: transfer[a] is what it did with the *)
(* transfer order that carries reference a.                                *)
(***************************************************************************)
EXTENDS Governance, FiniteSets

CONSTANTS
    Users,         \* those who may be members of the cooperative
    Members,       \* those who are at the start
    Contributors,  \* those with a confirmed contribution at the start
    Requests,      \* withdrawal requests, each with its proposal
    Attempts,      \* references of transfer orders (COOP-WD-<id>-<Date.now()>)
    Handlers,      \* ballots that the server can be handling at one time
    Hooks,         \* webhooks that the server can be handling at one time
    InitialBalance, Amount, Share, \* balance, size of a withdrawal and of a contribution
    MaxDebits,     \* bound: bookings of a request after which no webhook is read
    Environment,   \* what the surroundings may do, a subset of EnvironmentKinds
    None

EnvironmentKinds ==
    {"contribution",     \* members who had not contributed do so
     "membership",       \* members are removed or leave, others join
     "listener",         \* the event listener writes the chain's view of proposals
     "lock",             \* the platform admin locks and unlocks withdrawals
     "rollback",         \* a step of cast fails and its ballot is deleted
     "answerError",      \* one that follows the withdrawal processing fails, with the same effect
     "processingError",  \* a step of the withdrawal processing fails
     "refusal",          \* the provider refuses an order
     "lostReply",        \* the order arrives, its reply does not
     "bookingError",     \* the transaction that books a transfer fails
     "errorAfterCommit", \* a step that follows the booking of a transfer fails
     "catchError",       \* the transaction that records a failure fails
     "interimWebhook",   \* the provider reports a status that is not final
     "restart"}          \* the server stops and its handlers are lost

ASSUME MembersAssumption ==
    IsFiniteSet(Users) /\ Members \subseteq Users /\ Contributors \subseteq Users
ASSUME AmountAssumption == InitialBalance \in Nat /\ Amount \in Nat /\ Share \in Nat
ASSUME BoundAssumption == MaxDebits \in Nat
ASSUME EnvironmentAssumption == Environment \subseteq EnvironmentKinds

VARIABLES
    proposal,     \* Proposal.status of each request's proposal
    request,      \* WithdrawalRequest.status
    reference,    \* WithdrawalRequest.campayReference
    vote,         \* Vote rows: the choice of each user on each proposal
    contributors, \* users with a CONFIRMED contribution
    members,      \* users with a Membership
    balance,      \* Cooperative.confirmedBalanceXAF
    debits,       \* bookings of each request (its disbursed audit rows)
    unbooked,     \* history: orders that were accepted and whose booking failed
    locked,       \* Cooperative.withdrawalsLocked
    order,        \* the request and the ballot that each order was made for
    transfer,     \* what the provider did with each order
    cast, hook    \* handlers in progress

db == <<proposal, request, reference, vote, contributors, members, balance, debits,
        unbooked, locked>>
vars == <<proposal, request, reference, vote, contributors, members, balance, debits, unbooked,
          locked, order, transfer, cast, hook>>

ProposalStatus == {"PENDING", "APPROVED", "REJECTED"}
RequestStatus == {"PENDING_VOTE", "APPROVED", "REJECTED", "DISBURSING", "DISBURSED", "FAILED"}
Ballot == {"yes", "no"}

(* A reference is ours, the provider's, or the operator's that a webhook
   brings: campayReference is overwritten from one to the next. *)
Reference == [kind : {"ours", "provider", "operator"}, attempt : Attempts]
Order == [req : Requests, by : Users]
Count == [choice : Ballot, number : Nat]

ASSUME NoneAssumption == None \notin Requests \cup Attempts \cup Reference \cup Order \cup Count

Idle == [pc |-> "idle"]
CastPoints == {"insert", "tally", "write", "evaluate", "members", "count", "decide",
               "approve", "reject", "order", "call", "commit", "after", "fail", "finish"}
ActiveCast ==
    {c \in [pc : CastPoints, user : Users, req : Requests, choice : Ballot,
            computed : ProposalStatus, eligible : SUBSET Users,
            first : Count \cup {None}, attempt : Attempts \cup {None}] :
        /\ c.pc = "decide" => c.first \in Count
        /\ c.pc \in {"call", "commit"} => c.attempt \in Attempts}
ActiveHook == [pc : {"apply"}, req : Requests, key : Reference,
               success : BOOLEAN, already : BOOLEAN]

TypeOK ==
    /\ proposal \in [Requests -> ProposalStatus \cup {"absent"}]
    /\ request \in [Requests -> RequestStatus \cup {"absent"}]
    /\ reference \in [Requests -> Reference \cup {None}]
    /\ vote \in [Requests -> [Users -> Ballot \cup {"none"}]]
    /\ contributors \in SUBSET Users
    /\ members \in SUBSET Users
    /\ balance \in Int
    /\ debits \in [Requests -> Nat]
    /\ unbooked \in SUBSET Attempts
    /\ locked \in BOOLEAN
    /\ order \in [Attempts -> Order \cup {None}]
    /\ transfer \in [Attempts -> {"none", "accepted", "paid", "failed"}]
    /\ cast \in [Handlers -> ActiveCast \cup {Idle}]
    /\ hook \in [Hooks -> ActiveHook \cup {Idle}]

Init ==
    /\ proposal = [w \in Requests |-> "absent"]
    /\ request = [w \in Requests |-> "absent"]
    /\ reference = [w \in Requests |-> None]
    /\ vote = [w \in Requests |-> [u \in Users |-> "none"]]
    /\ contributors = Contributors
    /\ members = Members
    /\ balance = InitialBalance
    /\ debits = [w \in Requests |-> 0]
    /\ unbooked = {}
    /\ locked = FALSE
    /\ order = [a \in Attempts |-> None]
    /\ transfer = [a \in Attempts |-> "none"]
    /\ cast = [h \in Handlers |-> Idle]
    /\ hook = [k \in Hooks |-> Idle]

-----------------------------------------------------------------------------
(* The tallies of a request: cast counts every ballot against all members, the
   processing the ballots of the members who have contributed. *)

Said(w, choice, voters) == {u \in voters : vote[w][u] = choice}

MemberTally(w) ==
    ComputedStatus(Cardinality(members),
                   Cardinality(Said(w, "yes", Users)),
                   Cardinality(Said(w, "no", Users)))

Electorate == contributors \cap members

WithdrawalVerdict(w) ==
    Verdict(Cardinality(Electorate),
            Cardinality(Said(w, "yes", Electorate)),
            Cardinality(Said(w, "no", Electorate)))

-----------------------------------------------------------------------------
(* Requests of the cooperative's admin, its members and the platform admin, and
   the event listener. *)

(* createWithdrawalProposal.  The lock and the balance are read some statements
   before the rows are created, as if both were done at the reading: nothing
   refers to the rows in between.  The rows stay when the relay to the chain
   that follows fails, so its failure is not told apart. *)
CreateWithdrawalProposal(w) ==
    /\ request[w] = "absent"
    /\ ~locked
    /\ balance >= Amount
    /\ proposal' = [proposal EXCEPT ![w] = "PENDING"]
    /\ request' = [request EXCEPT ![w] = "PENDING_VOTE"]
    /\ UNCHANGED <<reference, vote, contributors, members, balance, debits, unbooked, locked,
                   order, transfer, cast, hook>>

(* A member's first contribution is confirmed: by confirmContribution, or by
   the event listener, which does not add it to the balance. *)
ConfirmContribution(u) ==
    /\ "contribution" \in Environment
    /\ u \notin contributors
    /\ contributors' = contributors \cup {u}
    /\ balance' \in {balance, balance + Share}
    /\ UNCHANGED <<proposal, request, reference, vote, members, debits, unbooked,
                   locked, order, transfer, cast, hook>>

(* A member is removed or leaves (MembershipsService), which no vote prevents, or a
   user joins (InvitationsService).  Ballots and contributions stay. *)
ChangeMembership(u) ==
    /\ "membership" \in Environment
    /\ members' = IF u \in members THEN members \ {u} ELSE members \cup {u}
    /\ UNCHANGED <<proposal, request, reference, vote, contributors, balance, debits,
                   unbooked, locked, order, transfer, cast, hook>>

(* syncVoteRecord: for a VoteCast event the listener writes the status that the
   vault has for a proposal, long after the ballot; the proposal is found by its
   title, "Retrait: <amount> FCFA", so any of one amount.  With five ballots or
   fewer the vault has not resolved it, and the status is PENDING. *)
SyncVote(w) ==
    /\ "listener" \in Environment
    /\ proposal[w] # "absent"
    /\ \E status \in IF Cardinality(Users) > 5 THEN ProposalStatus ELSE {"PENDING"} :
          proposal' = [proposal EXCEPT ![w] = status]
    /\ UNCHANGED <<request, reference, vote, contributors, members, balance, debits, unbooked,
                   locked, order, transfer, cast, hook>>

SetWithdrawalLock ==
    /\ "lock" \in Environment
    /\ locked' = ~locked
    /\ UNCHANGED <<proposal, request, reference, vote, contributors, members, balance,
                   debits, unbooked, order, transfer, cast, hook>>

-----------------------------------------------------------------------------
(* VotesService.cast. *)

Goto(h, point) == cast' = [cast EXCEPT ![h].pc = point]
Done(h) == cast' = [cast EXCEPT ![h] = Idle]

(* The checks: the proposal is read as pending, and the user is a member without
   a ballot. *)
CastBegin(h, u, w, choice) ==
    /\ cast[h] = Idle
    /\ proposal[w] = "PENDING"
    /\ vote[w][u] = "none"
    /\ u \in members
    /\ cast' = [cast EXCEPT ![h] =
                  [pc |-> "insert", user |-> u, req |-> w, choice |-> choice,
                   computed |-> "PENDING", eligible |-> {}, first |-> None,
                   attempt |-> None]]
    /\ UNCHANGED <<db, order, transfer, hook>>

(* Mutant of CastInsert: Vote has no unique index. *)
CastInsertAgain(h) ==
    /\ cast[h].pc = "insert"
    /\ vote' = [vote EXCEPT ![cast[h].req][cast[h].user] = cast[h].choice]
    /\ Goto(h, "tally")
    /\ UNCHANGED <<proposal, request, reference, contributors, members, balance,
                   debits, unbooked, locked, order, transfer, hook>>

(* vote.create: a second ballot of the user hits the unique index. *)
CastInsert(h) ==
    LET w == cast[h].req
        u == cast[h].user
    IN  /\ cast[h].pc = "insert"
        /\ \/ /\ vote[w][u] = "none"
              /\ vote' = [vote EXCEPT ![w][u] = cast[h].choice]
              /\ Goto(h, "tally")
           \/ /\ vote[w][u] # "none"
              /\ Done(h)
              /\ UNCHANGED vote
        /\ UNCHANGED <<proposal, request, reference, contributors, members, balance,
                       debits, unbooked, locked, order, transfer, hook>>

(* The proposal is read again with its ballots, the members are counted and its
   status computed, as if at one time... *)
CastTally(h) ==
    /\ cast[h].pc = "tally"
    /\ cast' = [cast EXCEPT ![h].pc = "write",
                            ![h].computed = MemberTally(cast[h].req)]
    /\ UNCHANGED <<db, order, transfer, hook>>

(* ... and written in a later statement, whatever the status is by then. *)
CastWriteStatus(h) ==
    /\ cast[h].pc = "write"
    /\ proposal' = [proposal EXCEPT ![cast[h].req] = cast[h].computed]
    /\ cast' = [cast EXCEPT ![h].pc = "evaluate", ![h].computed = "PENDING"]
    /\ UNCHANGED <<request, reference, vote, contributors, members, balance, debits, unbooked,
                   locked, order, transfer, hook>>

(* The ledger event and the answer. *)
CastFinish(h) ==
    /\ cast[h].pc = "finish"
    /\ Done(h)
    /\ UNCHANGED <<db, order, transfer, hook>>

(* Mutant of CastRollback: findById for the answer follows the processing. *)
CastRollbackLate(h) ==
    /\ cast[h].pc = "finish"
    /\ cast[h].user \notin members
    /\ vote' = [vote EXCEPT ![cast[h].req][cast[h].user] = "none"]
    /\ Done(h)
    /\ UNCHANGED <<proposal, request, reference, contributors, members, balance,
                   debits, unbooked, locked, order, transfer, hook>>

(* An error anywhere in cast, outside the withdrawal processing, deletes the
   ballot and nothing else: before it a query or a notification, of which findById
   throws for a voter who is no longer a member; after it the ledger event. *)
CastRollback(h) ==
    /\ \/ "rollback" \in Environment /\ cast[h].pc \in {"tally", "write", "evaluate"}
       \/ "answerError" \in Environment /\ cast[h].pc = "finish"
       \/ /\ "membership" \in Environment
          /\ cast[h].pc = "evaluate"
          /\ cast[h].user \notin members
    /\ vote' = [vote EXCEPT ![cast[h].req][cast[h].user] = "none"]
    /\ Done(h)
    /\ UNCHANGED <<proposal, request, reference, contributors, members, balance,
                   debits, unbooked, locked, order, transfer, hook>>

-----------------------------------------------------------------------------
(* WithdrawalsService.processWithdrawalOnVote. *)

(* getEligibleVoters reads who has contributed... *)
ReadContributors(h) ==
    /\ cast[h].pc = "evaluate"
    /\ \/ contributors = {} /\ Goto(h, "reject")
       \/ /\ contributors # {}
          /\ cast' = [cast EXCEPT ![h].pc = "members", ![h].eligible = contributors]
    /\ UNCHANGED <<db, order, transfer, hook>>

(* ... and then which of them are members, evaluateWithdrawalThreshold... *)
ReadElectorate(h) ==
    LET eligible == cast[h].eligible \cap members
    IN  /\ cast[h].pc = "members"
        /\ cast' = [cast EXCEPT ![h].pc = IF eligible = {} THEN "reject" ELSE "count",
                                ![h].eligible = eligible]
        /\ UNCHANGED <<db, order, transfer, hook>>

CountOf(h, choice) == Cardinality(Said(cast[h].req, choice, cast[h].eligible))

(* ... counts their ballots by two queries, answered in either order... *)
CountFirst(h) ==
    /\ cast[h].pc = "count"
    /\ \E choice \in Ballot :
          cast' = [cast EXCEPT ![h].pc = "decide",
                     ![h].first = [choice |-> choice, number |-> CountOf(h, choice)]]
    /\ UNCHANGED <<db, order, transfer, hook>>

(* What a decision leads to. *)
Conclude(h, verdict) ==
    cast' = [cast EXCEPT ![h].eligible = {}, ![h].first = None,
               ![h].pc = CASE verdict = "approved" -> "approve"
                           [] verdict = "rejected" -> "reject"
                           [] verdict = "open" -> "finish"]

(* Mutant of Evaluate: the ballots of passive members count as well. *)
EvaluateEveryBallot(h) ==
    LET said(choice) == Cardinality(Said(cast[h].req, choice, Users))
    IN  /\ cast[h].pc = "decide"
        /\ Conclude(h, Verdict(Cardinality(cast[h].eligible), said("yes"), said("no")))
        /\ UNCHANGED <<db, order, transfer, hook>>

(* ... and decides on the counts that it has. *)
Evaluate(h) ==
    LET counted(choice) == IF cast[h].first.choice = choice THEN cast[h].first.number
                           ELSE CountOf(h, choice)
    IN  /\ cast[h].pc = "decide"
        /\ Conclude(h, Verdict(Cardinality(cast[h].eligible), counted("yes"), counted("no")))
        /\ UNCHANGED <<db, order, transfer, hook>>

(* The transaction that approves looks at neither status. *)
Approve(h) ==
    /\ cast[h].pc = "approve"
    /\ proposal' = [proposal EXCEPT ![cast[h].req] = "APPROVED"]
    /\ request' = [request EXCEPT ![cast[h].req] = "APPROVED"]
    /\ Goto(h, "order")
    /\ UNCHANGED <<reference, vote, contributors, members, balance, debits, unbooked, locked,
                   order, transfer, hook>>

Reject(h) ==
    /\ cast[h].pc = "reject"
    /\ proposal' = [proposal EXCEPT ![cast[h].req] = "REJECTED"]
    /\ request' = [request EXCEPT ![cast[h].req] = "REJECTED"]
    /\ Goto(h, "finish")
    /\ UNCHANGED <<reference, vote, contributors, members, balance, debits, unbooked, locked,
                   order, transfer, hook>>

(* cast logs an error of the processing (a query, a transaction, the
   notification before the disbursement) and goes on. *)
ProcessingError(h) ==
    /\ "processingError" \in Environment
    /\ cast[h].pc \in {"evaluate", "members", "count", "decide", "approve", "reject", "order"}
    /\ cast' = [cast EXCEPT ![h].pc = "finish", ![h].eligible = {}, ![h].first = None]
    /\ UNCHANGED <<db, order, transfer, hook>>

-----------------------------------------------------------------------------
(* DisbursementService.disburse. *)

(* A new reference is stored with DISBURSING, whatever the status was. *)
StartDisbursement(h) ==
    /\ cast[h].pc = "order"
    /\ \E a \in Attempts :
        /\ order[a] = None
        /\ order' = [order EXCEPT ![a] = [req |-> cast[h].req, by |-> cast[h].user]]
        /\ reference' = [reference EXCEPT ![cast[h].req] = [kind |-> "ours", attempt |-> a]]
        /\ cast' = [cast EXCEPT ![h].pc = "call", ![h].attempt = a]
    /\ request' = [request EXCEPT ![cast[h].req] = "DISBURSING"]
    /\ UNCHANGED <<proposal, vote, contributors, members, balance, debits, unbooked, locked,
                   transfer, hook>>

(* Mutant of CallTransfer: the provider's answer is not looked at. *)
CallTransferUnchecked(h) ==
    /\ cast[h].pc = "call"
    /\ transfer' \in {transfer, [transfer EXCEPT ![cast[h].attempt] = "accepted"]}
    /\ Goto(h, "commit")
    /\ UNCHANGED <<db, order, hook>>

(* Mutant of CallTransfer: an error of the provider is not caught. *)
CallTransferUncaught(h) ==
    /\ cast[h].pc = "call"
    /\ \/ transfer' = [transfer EXCEPT ![cast[h].attempt] = "accepted"] /\ Goto(h, "commit")
       \/ UNCHANGED transfer /\ Goto(h, "finish")
    /\ UNCHANGED <<db, order, hook>>

(* callCampayTransfer: the order is accepted, refused, or accepted without
   the server learning of it. *)
CallTransfer(h) ==
    LET accept == transfer' = [transfer EXCEPT ![cast[h].attempt] = "accepted"]
    IN  /\ cast[h].pc = "call"
        /\ \/ accept /\ Goto(h, "commit")
           \/ "refusal" \in Environment /\ Goto(h, "fail") /\ UNCHANGED transfer
           \/ "lostReply" \in Environment /\ accept /\ Goto(h, "fail")
        /\ UNCHANGED <<db, order, hook>>

(* The booking: status, the provider's reference when the reply has one, the
   balance and the audit row, in one transaction... *)
BookTransfer(h) ==
    LET w == cast[h].req
    IN  /\ request' = [request EXCEPT ![w] = "DISBURSED"]
        /\ \E kind \in {"ours", "provider"} :
              reference' = [reference EXCEPT ![w] =
                              [kind |-> kind, attempt |-> cast[h].attempt]]
        /\ balance' = balance - Amount
        /\ debits' = [debits EXCEPT ![w] = @ + 1]
        /\ Goto(h, "after")
        /\ UNCHANGED unbooked

(* ... which is inside the try: when it fails the order, accepted, is not booked,
   and the catch block takes it for a failed transfer. *)
CommitDisbursed(h) ==
    /\ cast[h].pc = "commit"
    /\ \/ BookTransfer(h)
       \/ /\ "bookingError" \in Environment
          /\ unbooked' = unbooked \cup {cast[h].attempt}
          /\ Goto(h, "fail")
          /\ UNCHANGED <<request, reference, balance, debits>>
    /\ UNCHANGED <<proposal, vote, contributors, members, locked, order, transfer, hook>>

(* The release on the chain, the event and the notifications come after the
   booking but inside the same try. *)
AfterCommit(h) ==
    /\ cast[h].pc = "after"
    /\ \/ Goto(h, "finish")
       \/ "errorAfterCommit" \in Environment /\ Goto(h, "fail")
    /\ UNCHANGED <<db, order, transfer, hook>>

(* Mutant of FailDisbursement: the proposal is failed with the request. *)
FailDisbursementAndProposal(h) ==
    /\ cast[h].pc = "fail"
    /\ request' = [request EXCEPT ![cast[h].req] = "FAILED"]
    /\ proposal' = [proposal EXCEPT ![cast[h].req] = "FAILED"]
    /\ Goto(h, "finish")
    /\ UNCHANGED <<reference, vote, contributors, members, balance, debits, unbooked, locked,
                   order, transfer, hook>>

(* The catch block, whose own transaction can fail. *)
FailDisbursement(h) ==
    /\ cast[h].pc = "fail"
    /\ \/ /\ request' = [request EXCEPT ![cast[h].req] = "FAILED"]
          /\ proposal' = [proposal EXCEPT ![cast[h].req] = "PENDING"]
       \/ "catchError" \in Environment /\ UNCHANGED <<request, proposal>>
    /\ Goto(h, "finish")
    /\ UNCHANGED <<reference, vote, contributors, members, balance, debits, unbooked, locked,
                   order, transfer, hook>>

-----------------------------------------------------------------------------
(* DisbursementService.handleWebhook and the provider. *)

(* The provider settles an order it accepted. *)
Settle(a) ==
    /\ transfer[a] = "accepted"
    /\ \E outcome \in {"paid", "failed"} : transfer' = [transfer EXCEPT ![a] = outcome]
    /\ UNCHANGED <<db, order, cast, hook>>

(* A webhook tells the outcome of an order, at any time after it, as often
   as the provider likes; its key is our reference or the provider's. *)
Reports(a, success) ==
    IF success THEN transfer[a] = "paid"
    ELSE \/ transfer[a] = "failed"
         \/ transfer[a] # "none" /\ "interimWebhook" \in Environment

(* The request is looked up by the key and its status read... *)
HookRead(k, w, key, success) ==
    /\ hook[k] = Idle
    /\ debits[w] < MaxDebits
    /\ reference[w] = key
    /\ Reports(key.attempt, success)
    /\ hook' = [hook EXCEPT ![k] =
                  [pc |-> "apply", req |-> w, key |-> key, success |-> success,
                   already |-> request[w] = "DISBURSED"]]
    /\ UNCHANGED <<db, order, transfer, cast>>

(* ... and a success is booked on the strength of that earlier read. *)
HookSuccess(k) ==
    LET w == hook[k].req
    IN  /\ hook[k].pc = "apply" /\ hook[k].success
        /\ request' = [request EXCEPT ![w] = "DISBURSED"]
        /\ \E kind \in {hook[k].key.kind, "operator"} :
              reference' = [reference EXCEPT ![w] =
                              [kind |-> kind, attempt |-> hook[k].key.attempt]]
        /\ balance' = IF hook[k].already THEN balance ELSE balance - Amount
        /\ debits' = IF hook[k].already THEN debits ELSE [debits EXCEPT ![w] = @ + 1]
        /\ hook' = [hook EXCEPT ![k] = Idle]
        /\ UNCHANGED <<proposal, vote, contributors, members, unbooked, locked, order,
                       transfer, cast>>

(* Every other status fails the request and reopens the vote. *)
HookFailure(k) ==
    LET w == hook[k].req
    IN  /\ hook[k].pc = "apply" /\ ~hook[k].success
        /\ request' = [request EXCEPT ![w] = "FAILED"]
        /\ proposal' = [proposal EXCEPT ![w] = "PENDING"]
        /\ hook' = [hook EXCEPT ![k] = Idle]
        /\ UNCHANGED <<reference, vote, contributors, members, balance, debits, unbooked, locked,
                       order, transfer, cast>>

-----------------------------------------------------------------------------
(* The server stops: its handlers are lost, nothing resumes them. *)
Restart ==
    /\ "restart" \in Environment
    /\ cast' = [h \in Handlers |-> Idle]
    /\ hook' = [k \in Hooks |-> Idle]
    /\ UNCHANGED <<db, order, transfer>>

CastStep(h) ==
    \/ CastInsert(h) \/ CastTally(h) \/ CastWriteStatus(h) \/ CastFinish(h)
    \/ ReadContributors(h) \/ ReadElectorate(h) \/ CountFirst(h) \/ Evaluate(h)
    \/ Approve(h) \/ Reject(h)
    \/ StartDisbursement(h) \/ CallTransfer(h) \/ CommitDisbursed(h)
    \/ AfterCommit(h) \/ FailDisbursement(h)

Next ==
    \/ \E w \in Requests : CreateWithdrawalProposal(w) \/ SyncVote(w)
    \/ \E u \in Users : ConfirmContribution(u) \/ ChangeMembership(u)
    \/ SetWithdrawalLock
    \/ \E h \in Handlers :
        \/ \E u \in Users, w \in Requests, choice \in Ballot : CastBegin(h, u, w, choice)
        \/ CastStep(h) \/ CastRollback(h) \/ ProcessingError(h)
    \/ \E a \in Attempts : Settle(a)
    \/ \E k \in Hooks :
        \/ \E w \in Requests, key \in Reference, success \in BOOLEAN : HookRead(k, w, key, success)
        \/ HookSuccess(k) \/ HookFailure(k)
    \/ Restart

Spec == Init /\ [][Next]_vars

(* A handler that has started goes on: the event loop runs every promise whose
   await has been answered, and fetch gives up by itself when CamPay does not
   answer.  Nothing obliges a user, the provider or a webhook to act. *)
FairSpec == Spec /\ \A h \in Handlers : WF_vars(CastStep(h))

-----------------------------------------------------------------------------
(* The ballots that count are final: nobody gains or loses a say during the vote
   and no ballot is deleted. *)
StableElectorate ==
    {"contribution", "membership", "rollback", "answerError"} \cap Environment = {}

OrdersOf(w) == {a \in Attempts : order[a] # None /\ order[a].req = w}
AcceptedOrders(w) == {a \in OrdersOf(w) : transfer[a] # "none"}

(* No transfer is ever ordered without the mandate of the vote: the eligible
   ballots stored at any later time still reach the quorum and the threshold,
   whatever handlers, webhooks, failures and restarts did in between
   (evaluateWithdrawalThreshold, processWithdrawalOnVote, disburse). *)
Mandate ==
    StableElectorate => \A w \in Requests : OrdersOf(w) # {} => WithdrawalVerdict(w) = "approved"

(* A request recorded as rejected has never been ordered for payment, though
   the two transactions of processWithdrawalOnVote look at no status. *)
RejectedNeverOrdered ==
    StableElectorate => \A w \in Requests : request[w] = "REJECTED" => OrdersOf(w) = {}

(* Short of an error that deletes a ballot after it was processed, a ballot orders at
   most one transfer, whoever joins, leaves, is removed or contributes during the
   vote and whichever ballots are deleted and cast again: a withdrawal can be ordered
   again only by somebody else's ballot, so the voters bound the orders (the unique
   index on Vote, disburse having no caller but cast, and cast throwing for a voter
   who has left before it processes the ballot and not after). *)
OneOrderPerBallot ==
    "answerError" \notin Environment =>
        \A a, b \in Attempts :
            order[a] # None /\ order[a] = order[b] => a = b

(* A withdrawal is booked (balance and audit row) only when the provider
   accepted an order made for it, by whichever of the reply and the webhook
   comes first (disburse, handleWebhook). *)
BookedMeansAccepted ==
    \A w \in Requests : debits[w] > 0 => AcceptedOrders(w) # {}

(* Without webhooks, lost replies and restarts the books match the provider: each
   order it accepted is booked once, or its handler is about to, or the transaction
   that should have booked it is the one that failed (disburse). *)
BooksMatchTransfers ==
    \A w \in Requests :
        debits[w] + Cardinality(unbooked \cap OrdersOf(w))
                  + Cardinality({h \in Handlers : cast[h].pc = "commit" /\ cast[h].req = w})
            = Cardinality(AcceptedOrders(w))

(* Short of a restart and of an error in the catch block itself, a request in
   DISBURSING has a handler that is waiting for the provider or recording what it
   answered: the status is not left behind by handlers that overtake one another. *)
DisbursingIsHandled ==
    \A w \in Requests : request[w] = "DISBURSING" =>
        \E h \in Handlers : cast[h].pc \in {"call", "commit", "fail"} /\ cast[h].req = w

(* A disbursement that has started reaches an outcome. *)
DisbursementSettles ==
    \A w \in Requests : request[w] = "DISBURSING" ~> request[w] # "DISBURSING"

(* The provider transfers the approved amount of a withdrawal once
   (Addendum 3.2, steps 7-8). *)
TransferredOnce ==
    \A w \in Requests : Cardinality(AcceptedOrders(w)) <= 1

(* Members who never contributed cannot block a disbursement (Addendum 4.1):
   once no handler is at work, a proposal closed as rejected is one that the
   eligible ballots still missing could not approve. *)
PassiveMembersCannotBlock ==
    \A w \in Requests :
        /\ proposal[w] = "REJECTED"
        /\ \A h \in Handlers : cast[h] = Idle
        => Verdict(Cardinality(Electorate),
                   Cardinality(Electorate \ Said(w, "no", Electorate)),
                   Cardinality(Said(w, "no", Electorate))) # "approved"
=============================================================================
