-------------------------- MODULE WithdrawalProofs --------------------------
(* What holds of Withdrawal for every value of its constants, and that it keeps
   the promises of Disbursement. *)
EXTENDS WithdrawalRefinement, FiniteSetTheorems, TLAPS

-----------------------------------------------------------------------------
(* The records that handlers are. *)

(* A handler that is not idle has all the fields of a ballot in progress. *)
LEMMA CastIsActive ==
    ASSUME TypeOK, NEW h \in Handlers, cast[h].pc # "idle"
    PROVE  cast[h] \in ActiveCast
  BY DEF TypeOK, Idle

(* Moving a ballot in progress to another point keeps its type. *)
LEMMA GotoType ==
    ASSUME TypeOK, NEW h \in Handlers, cast[h].pc # "idle",
           NEW point \in CastPoints \ {"decide"}, Goto(h, point),
           point \in {"call", "commit"} => cast[h].attempt \in Attempts
    PROVE  cast' \in [Handlers -> ActiveCast \cup {Idle}]
  <1>1. cast[h] \in ActiveCast
    BY CastIsActive
  <1>2. [cast[h] EXCEPT !.pc = point] \in ActiveCast
    BY <1>1 DEF ActiveCast
  <1>3. QED
    BY <1>2 DEF Goto, TypeOK

LEMMA DoneType ==
    ASSUME TypeOK, NEW h \in Handlers, Done(h)
    PROVE  cast' \in [Handlers -> ActiveCast \cup {Idle}]
  BY DEF Done, TypeOK

(* The status computed from the ballots is one that a proposal can have. *)
LEMMA ComputedStatusType ==
    ASSUME NEW w
    PROVE  MemberTally(w) \in ProposalStatus
  BY DEF MemberTally, ComputedStatus, ProposalStatus

(* A count of ballots is a number, and a verdict one of three. *)
LEMMA CountType ==
    ASSUME NEW h, NEW choice, cast[h].eligible \subseteq Users
    PROVE  CountOf(h, choice) \in Nat
  <1>1. Said(cast[h].req, choice, cast[h].eligible) \subseteq Users
    BY DEF Said
  <1>2. QED
    BY <1>1, MembersAssumption, FS_Subset, FS_CardinalityType DEF CountOf

Verdicts == {"approved", "rejected", "open"}

LEMMA VerdictType ==
    ASSUME NEW eligible, NEW yes, NEW no
    PROVE  Verdict(eligible, yes, no) \in Verdicts
  BY DEF Verdict, Verdicts

LEMMA ConcludeGoes ==
    ASSUME NEW h, NEW verdict \in Verdicts, Conclude(h, verdict)
    PROVE  \E point \in {"approve", "reject", "finish"} :
              /\ cast' = [cast EXCEPT ![h].eligible = {}, ![h].first = None, ![h].pc = point]
              /\ point = "approve" => verdict = "approved"
              /\ point = "reject" => verdict = "rejected"
  <1>1. CASE verdict = "approved"
    BY <1>1 DEF Conclude
  <1>2. CASE verdict = "rejected"
    BY <1>2 DEF Conclude
  <1>3. CASE verdict = "open"
    BY <1>3 DEF Conclude
  <1>4. QED
    BY <1>1, <1>2, <1>3 DEF Verdicts

-----------------------------------------------------------------------------
LEMMA InitType == Init => TypeOK
  <1> SUFFICES ASSUME Init PROVE TypeOK
    OBVIOUS
  <1>1. balance \in Int /\ contributors \in SUBSET Users /\ members \in SUBSET Users
    BY AmountAssumption, MembersAssumption DEF Init
  <1>2. /\ cast \in [Handlers -> ActiveCast \cup {Idle}]
        /\ hook \in [Hooks -> ActiveHook \cup {Idle}]
    BY DEF Init
  <1>3. QED
    BY <1>1, <1>2 DEF Init, TypeOK

(* Each action keeps the type of every variable. *)
LEMMA NextType == TypeOK /\ [Next]_vars => TypeOK'
  <1> SUFFICES ASSUME TypeOK, [Next]_vars PROVE TypeOK'
    OBVIOUS
  <1> USE DEF TypeOK, db, ProposalStatus, RequestStatus
  <1>1. ASSUME NEW w \in Requests, CreateWithdrawalProposal(w) \/ SyncVote(w) PROVE TypeOK'
    <2>1. CASE CreateWithdrawalProposal(w)
      BY <2>1 DEF CreateWithdrawalProposal
    <2>2. CASE SyncVote(w)
      BY <2>2 DEF SyncVote
    <2>3. QED
      BY <1>1, <2>1, <2>2
  <1>2. ASSUME NEW u \in Users, ConfirmContribution(u) PROVE TypeOK'
    BY <1>2, AmountAssumption DEF ConfirmContribution
  <1>m. ASSUME NEW u \in Users, ChangeMembership(u) PROVE TypeOK'
    BY <1>m DEF ChangeMembership
  <1>3. CASE SetWithdrawalLock
    BY <1>3 DEF SetWithdrawalLock
  <1>4. ASSUME NEW h \in Handlers, NEW u \in Users, NEW w \in Requests,
               NEW choice \in Ballot, CastBegin(h, u, w, choice)
        PROVE  TypeOK'
    BY <1>4 DEF CastBegin, ActiveCast, CastPoints
  <1>5. ASSUME NEW h \in Handlers, CastStep(h) \/ CastRollback(h) \/ ProcessingError(h)
        PROVE  TypeOK'
    <2>0. cast[h].pc # "idle"
      BY <1>5 DEF CastStep, CastInsert, CastTally, CastWriteStatus, CastFinish,
                  ReadContributors, ReadElectorate, CountFirst, Evaluate, Approve, Reject,
                  StartDisbursement, CallTransfer, CommitDisbursed, AfterCommit,
                  FailDisbursement, CastRollback, ProcessingError
    <2>a. cast[h] \in ActiveCast
      BY <2>0, CastIsActive
    <2>b. \A point \in CastPoints \ {"decide", "call", "commit"} :
              Goto(h, point) => cast' \in [Handlers -> ActiveCast \cup {Idle}]
      BY <2>0, GotoType
    <2>c. Done(h) => cast' \in [Handlers -> ActiveCast \cup {Idle}]
      BY DoneType
    <2>1. CASE CastInsert(h)
      <3>1. cast' \in [Handlers -> ActiveCast \cup {Idle}]
        BY <2>1, <2>b, <2>c DEF CastInsert, CastPoints
      <3>2. vote' \in [Requests -> [Users -> Ballot \cup {"none"}]]
        <4>1. /\ cast[h].req \in Requests /\ cast[h].user \in Users
              /\ cast[h].choice \in Ballot
          BY <2>a DEF ActiveCast
        <4>2. [vote EXCEPT ![cast[h].req][cast[h].user] = cast[h].choice]
                  \in [Requests -> [Users -> Ballot \cup {"none"}]]
          BY <4>1
        <4>3. QED
          BY <2>1, <4>2 DEF CastInsert
      <3>3. QED
        BY <2>1, <3>1, <3>2 DEF CastInsert
    <2>2. CASE CastTally(h)
      <3>1. MemberTally(cast[h].req) \in ProposalStatus
        BY ComputedStatusType
      <3>2. [cast[h] EXCEPT !.pc = "write", !.computed = MemberTally(cast[h].req)] \in ActiveCast
        BY <2>a, <3>1 DEF ActiveCast, CastPoints
      <3>3. QED
        BY <2>2, <3>2 DEF CastTally
    <2>3. CASE CastWriteStatus(h)
      <3>1. [cast[h] EXCEPT !.pc = "evaluate", !.computed = "PENDING"] \in ActiveCast
        BY <2>a DEF ActiveCast, CastPoints
      <3>2. QED
        BY <2>3, <2>a, <3>1 DEF CastWriteStatus, ActiveCast
    <2>4. CASE CastFinish(h)
      BY <2>4, <2>c DEF CastFinish
    <2>5. CASE CastRollback(h)
      BY <2>5, <2>c, <2>a DEF CastRollback, ActiveCast
    <2>6. CASE ReadContributors(h) \/ ReadElectorate(h) \/ CountFirst(h) \/ Evaluate(h)
      <3>0. CASE ReadContributors(h)
        <4>1. [cast[h] EXCEPT !.pc = "members", !.eligible = contributors] \in ActiveCast
          BY <2>a DEF ActiveCast, CastPoints
        <4>2. QED
          BY <3>0, <4>1, <2>b DEF ReadContributors, CastPoints
      <3>1. CASE ReadElectorate(h)
        <4>1. PICK point \in {"reject", "count"} :
                cast' = [cast EXCEPT ![h].pc = point,
                                     ![h].eligible = cast[h].eligible \cap members]
          BY <3>1 DEF ReadElectorate
        <4>2. [cast[h] EXCEPT !.pc = point, !.eligible = cast[h].eligible \cap members]
                  \in ActiveCast
          BY <2>a DEF ActiveCast, CastPoints
        <4>3. QED
          BY <3>1, <4>1, <4>2 DEF ReadElectorate
      <3>2. CASE CountFirst(h)
        <4>1. PICK choice \in Ballot :
                cast' = [cast EXCEPT ![h].pc = "decide",
                           ![h].first = [choice |-> choice, number |-> CountOf(h, choice)]]
          BY <3>2 DEF CountFirst
        <4>2. [choice |-> choice, number |-> CountOf(h, choice)] \in Count
          BY <2>a, CountType DEF ActiveCast, Count
        <4>3. [cast[h] EXCEPT !.pc = "decide",
                  !.first = [choice |-> choice, number |-> CountOf(h, choice)]] \in ActiveCast
          BY <2>a, <4>2 DEF ActiveCast, CastPoints
        <4>4. QED
          BY <3>2, <4>1, <4>3 DEF CountFirst
      <3>3. CASE Evaluate(h)
        <4>1. PICK verdict \in Verdicts : Conclude(h, verdict)
          BY <3>3, VerdictType DEF Evaluate
        <4>2. PICK point \in {"approve", "reject", "finish"} :
                cast' = [cast EXCEPT ![h].eligible = {}, ![h].first = None, ![h].pc = point]
          BY <4>1, ConcludeGoes
        <4>3. [cast[h] EXCEPT !.eligible = {}, !.first = None, !.pc = point] \in ActiveCast
          BY <2>a, <4>2 DEF ActiveCast, CastPoints
        <4>4. QED
          BY <3>3, <4>2, <4>3 DEF Evaluate
      <3>4. QED
        BY <2>6, <3>0, <3>1, <3>2, <3>3
    <2>7. CASE Approve(h)
      BY <2>7, <2>b DEF Approve, CastPoints
    <2>8. CASE Reject(h)
      BY <2>8, <2>b DEF Reject, CastPoints
    <2>9. CASE ProcessingError(h)
      <3>1. [cast[h] EXCEPT !.pc = "finish", !.eligible = {}, !.first = None] \in ActiveCast
        BY <2>a DEF ActiveCast, CastPoints
      <3>2. QED
        BY <2>9, <3>1 DEF ProcessingError
    <2>10. CASE StartDisbursement(h)
      <3>1. PICK a \in Attempts :
              /\ order' = [order EXCEPT ![a] = [req |-> cast[h].req, by |-> cast[h].user]]
              /\ reference' = [reference EXCEPT ![cast[h].req] = [kind |-> "ours", attempt |-> a]]
              /\ cast' = [cast EXCEPT ![h].pc = "call", ![h].attempt = a]
        BY <2>10 DEF StartDisbursement
      <3>2. [cast[h] EXCEPT !.pc = "call", !.attempt = a] \in ActiveCast
        BY <2>a DEF ActiveCast, CastPoints
      <3>3. [req |-> cast[h].req, by |-> cast[h].user] \in Order
        BY <2>a DEF ActiveCast, Order
      <3>4. [kind |-> "ours", attempt |-> a] \in Reference
        BY DEF Reference
      <3>5. QED
        BY <2>10, <3>1, <3>2, <3>3, <3>4 DEF StartDisbursement
    <2>11. CASE CallTransfer(h)
      <3>1. cast[h].attempt \in Attempts
        BY <2>11, <2>a DEF CallTransfer, ActiveCast
      <3>2. Goto(h, "commit") => cast' \in [Handlers -> ActiveCast \cup {Idle}]
        BY <2>0, <3>1, GotoType DEF CastPoints
      <3>3. QED
        BY <2>11, <2>b, <3>2 DEF CallTransfer, CastPoints
    <2>12. CASE CommitDisbursed(h)
      <3>1. cast[h].req \in Requests /\ cast[h].attempt \in Attempts
        BY <2>12, <2>a DEF CommitDisbursed, ActiveCast
      <3>2. CASE BookTransfer(h)
        <4>1. reference' \in [Requests -> Reference \cup {None}]
          BY <3>2, <3>1 DEF BookTransfer, Reference
        <4>2. QED
          BY <2>12, <2>b, <3>1, <3>2, <4>1, AmountAssumption
          DEF CommitDisbursed, BookTransfer, CastPoints
      <3>3. CASE ~BookTransfer(h)
        BY <2>12, <2>b, <3>1, <3>3 DEF CommitDisbursed, CastPoints
      <3>4. QED
        BY <3>2, <3>3
    <2>13. CASE AfterCommit(h)
      BY <2>13, <2>b DEF AfterCommit, CastPoints
    <2>14. CASE FailDisbursement(h)
      BY <2>14, <2>b DEF FailDisbursement, CastPoints
    <2>15. QED
      BY <1>5, <2>1, <2>2, <2>3, <2>4, <2>5, <2>6, <2>7, <2>8, <2>9, <2>10, <2>11,
         <2>12, <2>13, <2>14 DEF CastStep
  <1>6. ASSUME NEW a \in Attempts, Settle(a) PROVE TypeOK'
    BY <1>6 DEF Settle
  <1>7. ASSUME NEW k \in Hooks, NEW w \in Requests, NEW key \in Reference,
               NEW success \in BOOLEAN, HookRead(k, w, key, success)
        PROVE  TypeOK'
    BY <1>7 DEF HookRead, ActiveHook
  <1>8. ASSUME NEW k \in Hooks, HookSuccess(k) PROVE TypeOK'
    <2>1. hook[k] \in ActiveHook
      BY <1>8 DEF HookSuccess, Idle
    <2>2. hook[k].req \in Requests /\ hook[k].key.attempt \in Attempts
          /\ hook[k].key.kind \in {"ours", "provider", "operator"}
      BY <2>1 DEF ActiveHook, Reference
    <2>3. PICK kind \in {hook[k].key.kind, "operator"} :
            reference' = [reference EXCEPT ![hook[k].req] =
                            [kind |-> kind, attempt |-> hook[k].key.attempt]]
      BY <1>8 DEF HookSuccess
    <2>4. reference' \in [Requests -> Reference \cup {None}]
      BY <2>2, <2>3 DEF Reference
    <2>5. QED
      BY <1>8, <2>2, <2>4, AmountAssumption DEF HookSuccess
  <1>9. ASSUME NEW k \in Hooks, HookFailure(k) PROVE TypeOK'
    <2>1. hook[k] \in ActiveHook
      BY <1>9 DEF HookFailure, Idle
    <2>2. QED
      BY <1>9, <2>1 DEF HookFailure, ActiveHook
  <1>10. CASE Restart
    BY <1>10 DEF Restart
  <1>11. CASE UNCHANGED vars
    BY <1>11 DEF vars
  <1>12. QED
    BY <1>1, <1>2, <1>m, <1>3, <1>4, <1>5, <1>6, <1>7, <1>8, <1>9, <1>10, <1>11 DEF Next

(* Every variable keeps its type: in particular no interleaving of handlers
   leaves a proposal, a request or a reference with a value that is none of
   those the schema knows. *)
THEOREM TypeCorrect == Spec => []TypeOK
  BY InitType, NextType, PTL DEF Spec

-----------------------------------------------------------------------------
(* Bookings.  The strengthening follows the reference of an order: from the
   handler that made it, or from the request's row to a webhook's lookup. *)

Ordered(a, w) == order[a] # None /\ order[a].req = w

BookingInv ==
    /\ \A h \in Handlers :
          cast[h].pc \in {"call", "commit"} => Ordered(cast[h].attempt, cast[h].req)
    /\ \A h \in Handlers : cast[h].pc = "commit" => transfer[cast[h].attempt] # "none"
    /\ \A w \in Requests : reference[w] # None => Ordered(reference[w].attempt, w)
    /\ \A k \in Hooks : hook[k].pc = "apply" =>
          /\ Ordered(hook[k].key.attempt, hook[k].req)
          /\ transfer[hook[k].key.attempt] # "none"
    /\ BookedMeansAccepted

(* An order is made once and for all, and what the provider knows it keeps. *)
LEMMA OrdersKept ==
    ASSUME TypeOK, [Next]_vars, NEW a \in Attempts
    PROVE  /\ order[a] # None => order'[a] = order[a]
           /\ transfer[a] # "none" => transfer'[a] # "none"
  <1> USE DEF TypeOK
  <1>1. ASSUME NEW h \in Handlers, StartDisbursement(h)
        PROVE  (order[a] # None => order'[a] = order[a]) /\ UNCHANGED transfer
    BY <1>1 DEF StartDisbursement
  <1>2. ASSUME NEW h \in Handlers, CallTransfer(h)
        PROVE  (transfer[a] # "none" => transfer'[a] # "none") /\ UNCHANGED order
    BY <1>2 DEF CallTransfer, db
  <1>3. ASSUME NEW b \in Attempts, Settle(b)
        PROVE  (transfer[a] # "none" => transfer'[a] # "none") /\ UNCHANGED order
    BY <1>3 DEF Settle
  <1>4. CASE UNCHANGED <<order, transfer>>
    BY <1>4
  <1>5. QED
    BY <1>1, <1>2, <1>3, <1>4
    DEF Next, vars, db, CreateWithdrawalProposal, SyncVote, ConfirmContribution,
        ChangeMembership, SetWithdrawalLock, CastBegin, CastStep, CastInsert, CastTally,
        CastWriteStatus, CastFinish, CastRollback, ProcessingError, ReadContributors,
        ReadElectorate, CountFirst, Evaluate, Conclude, Approve, Reject, CommitDisbursed,
        BookTransfer, AfterCommit, FailDisbursement, HookRead, HookSuccess, HookFailure,
        Restart

LEMMA OrderedKept ==
    ASSUME TypeOK, [Next]_vars
    PROVE  /\ \A a \in Attempts, w \in Requests : Ordered(a, w) => Ordered(a, w)'
           /\ \A w \in Requests : AcceptedOrders(w) # {} => AcceptedOrders(w)' # {}
  <1>1. \A a \in Attempts, w \in Requests : Ordered(a, w) => Ordered(a, w)'
    BY OrdersKept DEF Ordered
  <1>2. QED
    BY <1>1, OrdersKept DEF Ordered, AcceptedOrders, OrdersOf

LEMMA BookingInit == Init => BookingInv
  BY DEF Init, BookingInv, Idle, BookedMeansAccepted

(* Only a booking adds to the debits of a request, for an accepted order. *)
LEMMA BookingNext == TypeOK /\ BookingInv /\ [Next]_vars => BookingInv'
  <1> SUFFICES ASSUME TypeOK, BookingInv, [Next]_vars PROVE BookingInv'
    OBVIOUS
  <1> DEFINE
        Made(h) == cast[h].pc \in {"call", "commit"} => Ordered(cast[h].attempt, cast[h].req)
        Taken(h) == cast[h].pc = "commit" => transfer[cast[h].attempt] # "none"
        Named(w) == reference[w] # None => Ordered(reference[w].attempt, w)
        Told(k) == hook[k].pc = "apply" =>
                      /\ Ordered(hook[k].key.attempt, hook[k].req)
                      /\ transfer[hook[k].key.attempt] # "none"
        Booked(w) == debits[w] > 0 => AcceptedOrders(w) # {}
  <1>k. /\ \A a \in Attempts : transfer[a] # "none" => transfer'[a] # "none"
        /\ \A a \in Attempts, w \in Requests : Ordered(a, w) => Ordered(a, w)'
        /\ \A w \in Requests : AcceptedOrders(w) # {} => AcceptedOrders(w)' # {}
    BY OrdersKept, OrderedKept
  <1>u1. ASSUME NEW h \in Handlers, cast'[h] = cast[h]
         PROVE  Made(h)' /\ Taken(h)'
    BY <1>u1, <1>k DEF BookingInv, TypeOK, ActiveCast, Idle
  <1>u2. ASSUME UNCHANGED reference, NEW w \in Requests PROVE Named(w)'
    BY <1>u2, <1>k DEF BookingInv, TypeOK, Reference
  <1>u3. ASSUME NEW k \in Hooks, hook'[k] = hook[k] PROVE Told(k)'
    BY <1>u3, <1>k DEF BookingInv, TypeOK, ActiveHook, Reference, Idle
  <1>u4. ASSUME UNCHANGED debits, NEW w \in Requests PROVE Booked(w)'
    BY <1>u4, <1>k DEF BookingInv, BookedMeansAccepted
  <1>q. ASSUME \A h \in Handlers : Made(h)' /\ Taken(h)',
               \A w \in Requests : Named(w)' /\ Booked(w)', \A k \in Hooks : Told(k)'
        PROVE  BookingInv'
    BY <1>q DEF BookingInv, BookedMeansAccepted
  <1>1. CASE UNCHANGED <<reference, debits, cast, hook>>
    BY <1>1, <1>u1, <1>u2, <1>u3, <1>u4, <1>q
  <1>2. ASSUME NEW h \in Handlers, UNCHANGED <<reference, debits, hook>>,
               \A g \in Handlers \ {h} : cast'[g] = cast[g],
               cast'[h].pc \notin {"call", "commit"}
        PROVE  BookingInv'
    <2>1. \A g \in Handlers : Made(g)' /\ Taken(g)'
      BY <1>2, <1>u1
    <2>2. QED
      BY <1>2, <2>1, <1>u2, <1>u3, <1>u4, <1>q
  <1>3. ASSUME NEW h \in Handlers, StartDisbursement(h) PROVE BookingInv'
    <2>1. cast[h] \in ActiveCast
      BY <1>3, CastIsActive DEF StartDisbursement
    <2>2. PICK a \in Attempts :
            /\ order[a] = None
            /\ order' = [order EXCEPT ![a] = [req |-> cast[h].req, by |-> cast[h].user]]
            /\ reference' = [reference EXCEPT ![cast[h].req] = [kind |-> "ours", attempt |-> a]]
            /\ cast' = [cast EXCEPT ![h].pc = "call", ![h].attempt = a]
      BY <1>3 DEF StartDisbursement
    <2>3. cast[h].req \in Requests /\ [req |-> cast[h].req, by |-> cast[h].user] \in Order
      BY <2>1 DEF ActiveCast, Order
    <2>4. Ordered(a, cast[h].req)'
      BY <2>2, <2>3, NoneAssumption DEF Ordered, TypeOK
    <2>5. cast'[h].pc = "call" /\ cast'[h].attempt = a /\ cast'[h].req = cast[h].req
      BY <2>1, <2>2 DEF TypeOK, ActiveCast
    <2>6. \A g \in Handlers : Made(g)' /\ Taken(g)'
      BY <2>2, <2>4, <2>5, <1>u1 DEF TypeOK
    <2>7. \A w \in Requests : Named(w)'
      <3> SUFFICES ASSUME NEW w \in Requests PROVE Named(w)'
        OBVIOUS
      <3>1. CASE w = cast[h].req
        BY <3>1, <2>2, <2>3, <2>4 DEF TypeOK
      <3>2. CASE w # cast[h].req
        BY <3>2, <2>2, <2>3, <1>k DEF TypeOK, BookingInv, Reference
      <3>3. QED
        BY <3>1, <3>2
    <2>8. QED
      BY <1>3, <2>6, <2>7, <1>u3, <1>u4, <1>q DEF StartDisbursement
  <1>4. ASSUME NEW h \in Handlers, CallTransfer(h) PROVE BookingInv'
    <2>1. cast[h] \in ActiveCast /\ Made(h)
      BY <1>4, CastIsActive DEF CallTransfer, BookingInv
    <2>2. cast[h].attempt \in Attempts /\ cast[h].req \in Requests
          /\ Ordered(cast[h].attempt, cast[h].req)
      BY <1>4, <2>1 DEF CallTransfer, ActiveCast
    <2>3. /\ cast'[h].attempt = cast[h].attempt /\ cast'[h].req = cast[h].req
          /\ cast'[h].pc \in {"commit", "fail"}
          /\ \A g \in Handlers \ {h} : cast'[g] = cast[g]
      BY <1>4, <2>1 DEF CallTransfer, Goto, TypeOK, ActiveCast
    <2>4. cast'[h].pc = "commit" => transfer'[cast[h].attempt] # "none"
      BY <1>4, <2>2, <2>1 DEF CallTransfer, Goto, TypeOK, ActiveCast
    <2>5. \A g \in Handlers : Made(g)' /\ Taken(g)'
      BY <2>2, <2>3, <2>4, <1>k, <1>u1
    <2>6. QED
      BY <1>4, <2>5, <1>u2, <1>u3, <1>u4, <1>q DEF CallTransfer, db
  <1>5. ASSUME NEW h \in Handlers, CommitDisbursed(h) PROVE BookingInv'
    <2>1. cast[h] \in ActiveCast
      BY <1>5, CastIsActive DEF CommitDisbursed
    <2>2. /\ cast[h].attempt \in Attempts /\ cast[h].req \in Requests
          /\ Ordered(cast[h].attempt, cast[h].req) /\ transfer[cast[h].attempt] # "none"
      BY <1>5, <2>1 DEF CommitDisbursed, ActiveCast, BookingInv
    <2>3. \A g \in Handlers : Made(g)' /\ Taken(g)'
      BY <1>5, <2>1, <1>u1 DEF CommitDisbursed, BookTransfer, Goto, TypeOK, ActiveCast
    <2>4. AcceptedOrders(cast[h].req) # {}
      BY <2>2 DEF AcceptedOrders, OrdersOf, Ordered
    <2>5. \A w \in Requests : Booked(w)'
      <3>1. CASE UNCHANGED debits
        BY <3>1, <1>u4
      <3>2. CASE debits' = [debits EXCEPT ![cast[h].req] = @ + 1]
        BY <3>2, <2>2, <2>4, <1>k DEF BookingInv, BookedMeansAccepted, TypeOK
      <3>3. QED
        BY <1>5, <3>1, <3>2 DEF CommitDisbursed, BookTransfer
    <2>7. \A w \in Requests : Named(w)'
      <3>1. CASE UNCHANGED reference
        BY <3>1, <1>u2
      <3>2. CASE \E kind \in {"ours", "provider"} :
                    reference' = [reference EXCEPT ![cast[h].req] =
                                    [kind |-> kind, attempt |-> cast[h].attempt]]
        BY <3>2, <2>2, <1>k DEF TypeOK, BookingInv, Reference
      <3>3. QED
        BY <1>5, <3>1, <3>2 DEF CommitDisbursed, BookTransfer
    <2>8. QED
      BY <1>5, <2>3, <2>5, <2>7, <1>u3, <1>q DEF CommitDisbursed
  <1>6. ASSUME NEW k \in Hooks, NEW w \in Requests, NEW key \in Reference,
               NEW success \in BOOLEAN, HookRead(k, w, key, success)
        PROVE  BookingInv'
    <2>1. Ordered(key.attempt, w)
      BY <1>6, NoneAssumption DEF HookRead, BookingInv
    <2>2. key.attempt \in Attempts /\ transfer[key.attempt] # "none"
      BY <1>6 DEF HookRead, Reports, Reference
    <2>3. \A j \in Hooks : Told(j)'
      BY <1>6, <2>1, <2>2, <1>k, <1>u3 DEF HookRead, TypeOK
    <2>4. QED
      BY <1>6, <2>3, <1>u1, <1>u2, <1>u4, <1>q DEF HookRead, db
  <1>7. ASSUME NEW k \in Hooks, HookSuccess(k) PROVE BookingInv'
    <2>1. hook[k] \in ActiveHook /\ hook[k].pc = "apply"
      BY <1>7 DEF HookSuccess, TypeOK, Idle
    <2>2. /\ hook[k].key.attempt \in Attempts /\ hook[k].req \in Requests
          /\ Ordered(hook[k].key.attempt, hook[k].req)
          /\ transfer[hook[k].key.attempt] # "none"
      BY <2>1 DEF ActiveHook, Reference, BookingInv
    <2>3. AcceptedOrders(hook[k].req) # {}
      BY <2>2 DEF AcceptedOrders, OrdersOf, Ordered
    <2>4. \A w \in Requests : Booked(w)'
      BY <1>7, <2>2, <2>3, <1>k DEF HookSuccess, BookingInv, BookedMeansAccepted, TypeOK
    <2>5. PICK kind \in {hook[k].key.kind, "operator"} :
            reference' = [reference EXCEPT ![hook[k].req] =
                            [kind |-> kind, attempt |-> hook[k].key.attempt]]
      BY <1>7 DEF HookSuccess
    <2>6. \A w \in Requests : Named(w)'
      BY <2>2, <2>5, <1>k DEF TypeOK, BookingInv, Reference
    <2>7. \A j \in Hooks : Told(j)'
      BY <1>7, <1>u3 DEF HookSuccess, TypeOK, Idle
    <2>8. QED
      BY <1>7, <2>4, <2>6, <2>7, <1>u1, <1>q DEF HookSuccess
  <1>8. ASSUME NEW k \in Hooks, HookFailure(k) PROVE BookingInv'
    <2>1. \A j \in Hooks : Told(j)'
      BY <1>8, <1>u3 DEF HookFailure, TypeOK, Idle
    <2>2. QED
      BY <1>8, <2>1, <1>u1, <1>u2, <1>u4, <1>q DEF HookFailure
  <1>9. CASE Restart
    <2>1. /\ \A h \in Handlers : Made(h)' /\ Taken(h)'
          /\ \A k \in Hooks : Told(k)'
      BY <1>9 DEF Restart, Idle
    <2>2. QED
      BY <1>9, <2>1, <1>u2, <1>u4, <1>q DEF Restart, db
  <1>10. ASSUME NEW h \in Handlers,
               \/ \E u \in Users, w \in Requests, choice \in Ballot : CastBegin(h, u, w, choice)
               \/ CastRollback(h) \/ ProcessingError(h)
               \/ CastInsert(h) \/ CastTally(h) \/ CastWriteStatus(h) \/ CastFinish(h)
               \/ ReadContributors(h) \/ ReadElectorate(h) \/ CountFirst(h) \/ Evaluate(h)
               \/ Approve(h) \/ Reject(h) \/ AfterCommit(h) \/ FailDisbursement(h)
         PROVE  BookingInv'
    <2>1. cast[h] \in ActiveCast \/ cast[h] = Idle
      BY DEF TypeOK
    <2>2. UNCHANGED <<reference, debits, hook>>
      BY <1>10 DEF CastBegin, CastInsert, CastTally, CastWriteStatus, CastFinish,
                   CastRollback, ProcessingError, ReadContributors, ReadElectorate,
                   CountFirst, Evaluate, Approve, Reject, AfterCommit, FailDisbursement, db
    <2>3. /\ \A g \in Handlers \ {h} : cast'[g] = cast[g]
          /\ cast'[h].pc \notin {"call", "commit"}
      BY <1>10, <2>1
      DEF CastBegin, CastInsert, CastTally, CastWriteStatus, CastFinish, CastRollback,
          ProcessingError, ReadContributors, ReadElectorate, CountFirst, Evaluate, Conclude,
          Approve, Reject, AfterCommit, FailDisbursement, Goto, Done, Idle, TypeOK,
          ActiveCast
    <2>4. QED
      BY <2>2, <2>3, <1>2
  <1>11. QED
    BY <1>1, <1>3, <1>4, <1>5, <1>6, <1>7, <1>8, <1>9, <1>10
    DEF Next, vars, db, CastStep, CreateWithdrawalProposal, SyncVote, ConfirmContribution,
        ChangeMembership, SetWithdrawalLock, Settle

(* A withdrawal is booked only when the provider accepted an order for it. *)
THEOREM BookingsAreAccepted == Spec => []BookedMeansAccepted
  <1>1. BookingInv => BookedMeansAccepted
    BY DEF BookingInv
  <1>2. QED
    BY BookingInit, BookingNext, TypeCorrect, <1>1, PTL DEF Spec

-----------------------------------------------------------------------------
(* Ballots.  Short of the errors that delete one, a stored ballot stays until its
   handler starts to process the withdrawal, so each handler past the insertion owns
   its ballot, and none of those that have still to order shares it with an order
   that exists. *)

Past(h) == cast[h].pc \notin {"idle", "insert"}
BeforeOrder == {"tally", "write", "evaluate", "members", "count", "decide", "approve", "order"}

BallotInv ==
    /\ \A h \in Handlers : Past(h) => vote[cast[h].req][cast[h].user] # "none"
    /\ \A g, h \in Handlers :
          Past(g) /\ Past(h) /\ cast[g].req = cast[h].req /\ cast[g].user = cast[h].user => g = h
    /\ \A a \in Attempts : order[a] # None => vote[order[a].req][order[a].by] # "none"
    /\ \A h \in Handlers, a \in Attempts :
          cast[h].pc \in BeforeOrder =>
              order[a] = None \/ order[a].req # cast[h].req \/ order[a].by # cast[h].user
    /\ \A a, b \in Attempts : order[a] # None /\ order[a] = order[b] => a = b

(* Only the deletion of a ballot changes one that is stored. *)
LEMMA BallotsKept ==
    ASSUME \A h \in Handlers : ~CastRollback(h), TypeOK, [Next]_vars,
           NEW w \in Requests, NEW u \in Users, vote[w][u] # "none"
    PROVE  vote'[w][u] = vote[w][u]
  <1>1. ASSUME NEW h \in Handlers, CastInsert(h) PROVE vote'[w][u] = vote[w][u]
    <2>1. cast[h] \in ActiveCast
      BY <1>1, CastIsActive DEF CastInsert
    <2>2. CASE UNCHANGED vote
      BY <2>2
    <2>3. CASE /\ vote[cast[h].req][cast[h].user] = "none"
               /\ vote' = [vote EXCEPT ![cast[h].req][cast[h].user] = cast[h].choice]
      BY <2>1, <2>3 DEF TypeOK, ActiveCast
    <2>4. QED
      BY <1>1, <2>2, <2>3 DEF CastInsert
  <1>2. CASE UNCHANGED vote
    BY <1>2
  <1>3. QED
    BY <1>1, <1>2
    DEF Next, vars, db, CreateWithdrawalProposal, SyncVote, ConfirmContribution,
        ChangeMembership, SetWithdrawalLock, CastBegin, CastStep, CastTally,
        CastWriteStatus, CastFinish, ProcessingError, ReadContributors, ReadElectorate,
        CountFirst, Evaluate, Approve, Reject, StartDisbursement, CallTransfer,
        CommitDisbursed, AfterCommit, FailDisbursement, HookRead, HookSuccess, HookFailure,
        Settle, Restart

(* A handler goes on, and changes neither the ballots nor the orders. *)
Moves(h) ==
    /\ UNCHANGED <<vote, order>>
    /\ \A g \in Handlers \ {h} : cast'[g] = cast[g]
    /\ Past(h)' => /\ Past(h)
                   /\ cast'[h].req = cast[h].req /\ cast'[h].user = cast[h].user
                   /\ cast'[h].pc \in BeforeOrder => cast[h].pc \in BeforeOrder

(* The steps that do neither, nor approve, reject or order anything. *)
QuietStep(h) ==
    \/ \E u \in Users, w \in Requests, choice \in Ballot : CastBegin(h, u, w, choice)
    \/ ProcessingError(h) \/ CastTally(h) \/ CastWriteStatus(h) \/ CastFinish(h)
    \/ ReadContributors(h) \/ ReadElectorate(h) \/ CountFirst(h) \/ Evaluate(h)
    \/ Approve(h) \/ Reject(h)
    \/ CallTransfer(h) \/ CommitDisbursed(h) \/ AfterCommit(h) \/ FailDisbursement(h)

LEMMA QuietStepMoves ==
    ASSUME TypeOK, NEW h \in Handlers, QuietStep(h)
    PROVE  Moves(h)
  <1> USE DEF Moves, Past, BeforeOrder
  <1>1. CASE \E u \in Users, w \in Requests, choice \in Ballot : CastBegin(h, u, w, choice)
    BY <1>1 DEF CastBegin, db, TypeOK
  <1>2. ASSUME cast[h].pc # "idle", UNCHANGED <<vote, order>>,
               \/ /\ \E point \in CastPoints \ BeforeOrder : Goto(h, point)
                  /\ cast[h].pc # "insert"
               \/ Goto(h, "order") /\ cast[h].pc = "approve"
               \/ Done(h)
        PROVE  Moves(h)
    <2>1. cast[h] \in ActiveCast
      BY <1>2, CastIsActive
    <2>2. QED
      BY <1>2, <2>1 DEF Goto, Done, TypeOK, ActiveCast, Idle
  <1>3. CASE CastTally(h)
    <2>1. cast[h] \in ActiveCast
      BY <1>3, CastIsActive DEF CastTally
    <2>2. QED
      BY <1>3, <2>1 DEF CastTally, db, TypeOK, ActiveCast
  <1>4. CASE CastWriteStatus(h)
    <2>1. cast[h] \in ActiveCast
      BY <1>4, CastIsActive DEF CastWriteStatus
    <2>2. QED
      BY <1>4, <2>1 DEF CastWriteStatus, TypeOK, ActiveCast
  <1>5. CASE ReadContributors(h) \/ ReadElectorate(h) \/ CountFirst(h)
    <2>1. cast[h] \in ActiveCast /\ cast[h].pc \in {"evaluate", "members", "count"}
      BY <1>5, CastIsActive DEF ReadContributors, ReadElectorate, CountFirst
    <2>2. QED
      BY <1>5, <2>1 DEF ReadContributors, ReadElectorate, CountFirst, Goto, db, TypeOK,
                        ActiveCast
  <1>6. CASE Evaluate(h) \/ ProcessingError(h)
    <2>1. cast[h] \in ActiveCast /\ cast[h].pc \in BeforeOrder \cup {"reject"}
      BY <1>6, CastIsActive DEF Evaluate, ProcessingError
    <2>2. PICK point \in {"approve", "reject", "finish"} :
            /\ cast' = [cast EXCEPT ![h].eligible = {}, ![h].first = None, ![h].pc = point]
               \/ cast' = [cast EXCEPT ![h].pc = point, ![h].eligible = {}, ![h].first = None]
            /\ point = "approve" => cast[h].pc = "decide"
      BY <1>6, VerdictType, ConcludeGoes DEF Evaluate, ProcessingError
    <2>3. UNCHANGED <<vote, order>>
      BY <1>6 DEF Evaluate, ProcessingError, db
    <2>4. /\ \A g \in Handlers \ {h} : cast'[g] = cast[g]
          /\ cast'[h].req = cast[h].req /\ cast'[h].user = cast[h].user
          /\ cast'[h].pc = point
      BY <2>1, <2>2 DEF TypeOK, ActiveCast
    <2>5. QED
      BY <2>1, <2>2, <2>3, <2>4
  <1>7. QED
    BY <1>1, <1>2, <1>3, <1>4, <1>5, <1>6
    DEF QuietStep, CastFinish, Approve, Reject, CallTransfer,
        CommitDisbursed, BookTransfer, AfterCommit, FailDisbursement, db, CastPoints

LEMMA BallotInit == Init => BallotInv
  BY DEF Init, BallotInv, Past, BeforeOrder, Idle

LEMMA BallotMoves ==
    ASSUME TypeOK, BallotInv, NEW h \in Handlers, Moves(h)
    PROVE  BallotInv'
  BY DEF BallotInv, Moves, Past, BeforeOrder

(* A ballot that is deleted has not been processed: nothing was ordered on it. *)
LEMMA BallotNext ==
    ASSUME "answerError" \notin Environment, TypeOK, BallotInv, [Next]_vars
    PROVE  BallotInv'
  <1>1. ASSUME NEW h \in Handlers, CastInsert(h) PROVE BallotInv'
    <2>1. cast[h] \in ActiveCast
      BY <1>1, CastIsActive DEF CastInsert
    <2>2. CASE UNCHANGED vote /\ Done(h)
      BY <1>1, <2>2, BallotMoves DEF CastInsert, Moves, Done, Past, Idle, TypeOK
    <2>3. CASE /\ vote[cast[h].req][cast[h].user] = "none"
               /\ vote' = [vote EXCEPT ![cast[h].req][cast[h].user] = cast[h].choice]
               /\ Goto(h, "tally")
      <3> DEFINE w == cast[h].req
                 u == cast[h].user
      <3>1. w \in Requests /\ u \in Users /\ vote'[w][u] # "none"
        BY <2>1, <2>3 DEF ActiveCast, TypeOK, Ballot
      <3>2. /\ cast'[h].req = w /\ cast'[h].user = u
            /\ \A g \in Handlers \ {h} : cast'[g] = cast[g]
        BY <2>1, <2>3 DEF Goto, TypeOK, ActiveCast
      <3>3. \A g \in Handlers \ {h} : Past(g) => ~(cast[g].req = w /\ cast[g].user = u)
        BY <2>3 DEF BallotInv
      <3>4. \A a \in Attempts : order[a] # None => ~(order[a].req = w /\ order[a].by = u)
        BY <2>3 DEF BallotInv
      <3>k. \A v \in Requests, x \in Users : vote[v][x] # "none" => vote'[v][x] # "none"
        BY <2>1, <2>3 DEF TypeOK, ActiveCast, Ballot
      <3>5. \A g \in Handlers : Past(g)' => vote'[cast'[g].req][cast'[g].user] # "none"
        <4> SUFFICES ASSUME NEW g \in Handlers \ {h}, Past(g)
                     PROVE  vote'[cast[g].req][cast[g].user] # "none"
          BY <3>1, <3>2 DEF Past
        <4>1. cast[g].req \in Requests /\ cast[g].user \in Users
          BY CastIsActive DEF Past, ActiveCast
        <4>2. QED
          BY <4>1, <3>k DEF BallotInv
      <3>6. \A a \in Attempts : order[a] # None => vote'[order[a].req][order[a].by] # "none"
        <4> SUFFICES ASSUME NEW a \in Attempts, order[a] # None
                     PROVE  vote'[order[a].req][order[a].by] # "none"
          OBVIOUS
        <4>1. order[a].req \in Requests /\ order[a].by \in Users
          BY DEF TypeOK, Order
        <4>2. QED
          BY <4>1, <3>k DEF BallotInv
      <3>7. UNCHANGED order
        BY <1>1 DEF CastInsert
      <3>8. QED
        BY <3>2, <3>3, <3>4, <3>5, <3>6, <3>7 DEF BallotInv, Past, BeforeOrder
    <2>4. QED
      BY <1>1, <2>2, <2>3 DEF CastInsert
  <1>2. ASSUME NEW h \in Handlers, StartDisbursement(h) PROVE BallotInv'
    <2>1. cast[h] \in ActiveCast /\ cast[h].pc = "order" /\ UNCHANGED vote
      BY <1>2, CastIsActive DEF StartDisbursement
    <2> DEFINE w == cast[h].req
               u == cast[h].user
    <2>2. PICK a \in Attempts :
            /\ order[a] = None
            /\ order' = [order EXCEPT ![a] = [req |-> w, by |-> u]]
            /\ cast' = [cast EXCEPT ![h].pc = "call", ![h].attempt = a]
      BY <1>2 DEF StartDisbursement
    <2>3. /\ cast'[h].pc = "call" /\ cast'[h].req = w /\ cast'[h].user = u
          /\ \A g \in Handlers \ {h} : cast'[g] = cast[g]
      BY <2>1, <2>2 DEF TypeOK, ActiveCast
    <2>4. /\ order'[a].req = w /\ order'[a].by = u /\ order'[a] = [req |-> w, by |-> u]
          /\ \A b \in Attempts \ {a} : order'[b] = order[b]
      BY <2>2 DEF TypeOK
    <2>5. Past(h) /\ cast[h].pc \in BeforeOrder
      BY <2>1 DEF Past, BeforeOrder
    <2>6. \A b \in Attempts \ {a} : order[b] # None => order[b] # [req |-> w, by |-> u]
      BY <2>5 DEF BallotInv
    <2>7. \A g \in Handlers \ {h} : Past(g) => ~(cast[g].req = w /\ cast[g].user = u)
      BY <2>5 DEF BallotInv
    <2>8. /\ \A g \in Handlers : Past(g)' => vote'[cast'[g].req][cast'[g].user] # "none"
          /\ \A b \in Attempts : order'[b] # None => vote'[order'[b].req][order'[b].by] # "none"
      BY <2>1, <2>3, <2>4, <2>5 DEF BallotInv, Past
    <2>9. \A f, g \in Handlers :
             Past(f)' /\ Past(g)' /\ cast'[f].req = cast'[g].req /\ cast'[f].user = cast'[g].user
                => f = g
      BY <2>3, <2>5 DEF BallotInv, Past
    <2>10. \A g \in Handlers, b \in Attempts :
              cast'[g].pc \in BeforeOrder =>
                 order'[b] = None \/ order'[b].req # cast'[g].req \/ order'[b].by # cast'[g].user
      BY <2>3, <2>4, <2>7 DEF BallotInv, Past, BeforeOrder
    <2>11. \A b, c \in Attempts : order'[b] # None /\ order'[b] = order'[c] => b = c
      BY <2>4, <2>6 DEF BallotInv
    <2>12. QED
      BY <2>8, <2>9, <2>10, <2>11 DEF BallotInv
  <1>3. ASSUME NEW h \in Handlers, QuietStep(h) PROVE BallotInv'
    BY <1>3, QuietStepMoves, BallotMoves
  <1>4. CASE UNCHANGED <<vote, order, cast>>
    BY <1>4 DEF BallotInv, Past, BeforeOrder
  <1>5. CASE Restart
    BY <1>5 DEF Restart, BallotInv, Past, BeforeOrder, Idle, db
  <1>6. ASSUME NEW h \in Handlers, CastRollback(h) PROVE BallotInv'
    <2>1. cast[h] \in ActiveCast /\ cast[h].pc \in {"tally", "write", "evaluate"}
      BY <1>6, CastIsActive DEF CastRollback
    <2> DEFINE w == cast[h].req
               u == cast[h].user
    <2>2. /\ UNCHANGED order
          /\ \A g \in Handlers \ {h} : cast'[g] = cast[g]
          /\ cast'[h].pc = "idle"
      BY <1>6 DEF CastRollback, Done, TypeOK, Idle
    <2>3. /\ w \in Requests /\ u \in Users
          /\ vote' = [vote EXCEPT ![w][u] = "none"]
      BY <1>6, <2>1 DEF CastRollback, ActiveCast
    <2>4. \A v \in Requests, x \in Users : v # w \/ x # u => vote'[v][x] = vote[v][x]
      BY <2>3 DEF TypeOK
    <2>5. Past(h) /\ cast[h].pc \in BeforeOrder
      BY <2>1 DEF Past, BeforeOrder
    <2>6. \A g \in Handlers \ {h} : Past(g) => ~(cast[g].req = w /\ cast[g].user = u)
      BY <2>5 DEF BallotInv
    <2>7. \A a \in Attempts : order[a] # None => ~(order[a].req = w /\ order[a].by = u)
      BY <2>5 DEF BallotInv
    <2>8. \A g \in Handlers : Past(g)' =>
             g # h /\ Past(g) /\ vote'[cast'[g].req][cast'[g].user] # "none"
      <3> SUFFICES ASSUME NEW g \in Handlers \ {h}, Past(g)
                   PROVE  vote'[cast[g].req][cast[g].user] # "none"
        BY <2>2 DEF Past
      <3>1. cast[g].req \in Requests /\ cast[g].user \in Users
        BY CastIsActive DEF Past, ActiveCast
      <3>2. QED
        BY <3>1, <2>4, <2>6 DEF BallotInv
    <2>9. \A a \in Attempts : order[a] # None => vote'[order[a].req][order[a].by] # "none"
      <3> SUFFICES ASSUME NEW a \in Attempts, order[a] # None
                   PROVE  vote'[order[a].req][order[a].by] # "none"
        OBVIOUS
      <3>1. order[a].req \in Requests /\ order[a].by \in Users
        BY DEF TypeOK, Order
      <3>2. QED
        BY <3>1, <2>4, <2>7 DEF BallotInv
    <2>10. QED
      BY <2>2, <2>8, <2>9 DEF BallotInv, Past, BeforeOrder
  <1>7. QED
    BY <1>1, <1>2, <1>3, <1>4, <1>5, <1>6
    DEF Next, vars, db, QuietStep, CastStep, CreateWithdrawalProposal, SyncVote,
        ConfirmContribution, ChangeMembership, SetWithdrawalLock, HookRead, HookSuccess,
        HookFailure, Settle

(* Short of an error that deletes a ballot after it was processed, each ballot orders
   at most one transfer, however the membership and the contributions change during
   the vote and whichever other ballots are deleted. *)
THEOREM BallotsOrderOnce == Spec => []OneOrderPerBallot
  <1>1. CASE "answerError" \notin Environment
    <2>1. BallotInv => OneOrderPerBallot
      BY DEF BallotInv, OneOrderPerBallot
    <2>2. TypeOK /\ BallotInv /\ [Next]_vars => BallotInv'
      BY <1>1, BallotNext
    <2>3. QED
      BY BallotInit, <2>2, TypeCorrect, <2>1, PTL DEF Spec
  <1>2. CASE ~("answerError" \notin Environment)
    <2>1. OneOrderPerBallot
      BY <1>2 DEF OneOrderPerBallot
    <2>2. QED
      BY <2>1, PTL
  <1>3. QED
    BY <1>1, <1>2

-----------------------------------------------------------------------------
(* Verdicts.  Whatever a handler is about to do about a request, and whatever
   has been done, was decided by a verdict that later ballots cannot change. *)

VerdictInv ==
    /\ \A h \in Handlers :
          /\ cast[h].pc \in {"approve", "order"} => WithdrawalVerdict(cast[h].req) = "approved"
          /\ cast[h].pc = "reject" => WithdrawalVerdict(cast[h].req) = "rejected"
    /\ \A h \in Handlers :
          /\ cast[h].pc = "members" => cast[h].eligible = contributors
          /\ cast[h].pc \in {"count", "decide"} => cast[h].eligible = Electorate
          /\ cast[h].pc = "decide" =>
                cast[h].first.number
                    <= Cardinality(Said(cast[h].req, cast[h].first.choice, Electorate))
    /\ \A w \in Requests : OrdersOf(w) # {} => WithdrawalVerdict(w) = "approved"
    /\ \A w \in Requests : request[w] = "REJECTED" => WithdrawalVerdict(w) = "rejected"

(* As ballots are added, an approval stays an approval and a rejection stays a
   rejection: the code counts every ballot still missing as a yes before it
   rejects. *)
LEMMA VerdictIsFinal ==
    ASSUME NEW n \in Nat, NEW yes \in Nat, NEW no \in Nat, NEW yes2 \in Nat, NEW no2 \in Nat,
           yes <= yes2, no <= no2, yes2 + no2 <= n
    PROVE  /\ Verdict(n, yes, no) = "approved" => Verdict(n, yes2, no2) = "approved"
           /\ Verdict(n, yes, no) = "rejected" => Verdict(n, yes2, no2) = "rejected"
  <1>1. Threshold \in Nat /\ QuorumMin \in Nat
    BY ThresholdAssumption, QuorumAssumption
  <1>2. PICK bar \in Int : bar = Threshold * n
    BY <1>1
  <1>3. QED
    BY <1>1, <1>2 DEF Verdict, ReachesThreshold

(* Two sides of one electorate are together no more than the electorate. *)
LEMMA Tally ==
    ASSUME NEW voters, IsFiniteSet(voters), NEW yes, NEW no,
           yes \subseteq voters, no \subseteq voters, yes \cap no = {}
    PROVE  /\ Cardinality(voters) \in Nat
           /\ Cardinality(yes) \in Nat /\ Cardinality(no) \in Nat
           /\ Cardinality(yes) + Cardinality(no) <= Cardinality(voters)
  <1>1. /\ IsFiniteSet(yes) /\ IsFiniteSet(no)
        /\ Cardinality(yes) \in Nat /\ Cardinality(no) \in Nat
        /\ Cardinality(voters) \in Nat
    BY FS_Subset, FS_CardinalityType
  <1>2. Cardinality(yes \cup no) = Cardinality(yes) + Cardinality(no)
    <2>1. Cardinality(yes \cup no)
              = Cardinality(yes) + Cardinality(no) - Cardinality(yes \cap no)
      BY <1>1, FS_Union
    <2>2. Cardinality(yes \cap no) = 0
      BY FS_EmptySet
    <2>3. QED
      BY <1>1, <2>1, <2>2
  <1>3. Cardinality(yes \cup no) <= Cardinality(voters)
    BY FS_Subset
  <1>4. QED
    BY <1>1, <1>2, <1>3

(* The eligible members who said yes, or no, are as many as any. *)
LEMMA SaidType ==
    ASSUME TypeOK, NEW w
    PROVE  /\ Cardinality(Electorate) \in Nat
           /\ \A c \in Ballot : Cardinality(Said(w, c, Electorate)) \in Nat
           /\ Cardinality(Said(w, "yes", Electorate)) + Cardinality(Said(w, "no", Electorate))
                 <= Cardinality(Electorate)
  <1>1. IsFiniteSet(Electorate)
    BY MembersAssumption, FS_Subset DEF TypeOK, Electorate
  <1>2. /\ \A c : Said(w, c, Electorate) \subseteq Electorate
        /\ Said(w, "yes", Electorate) \cap Said(w, "no", Electorate) = {}
    BY DEF Said
  <1>3. QED
    BY <1>1, <1>2, Tally DEF Ballot

(* A step of a stable electorate changes neither who is eligible nor a ballot. *)
LEMMA CountsGrow ==
    ASSUME StableElectorate, TypeOK, TypeOK', [Next]_vars
    PROVE  /\ UNCHANGED <<contributors, members, Electorate>>
           /\ \A w \in Requests, c \in Ballot :
                 Cardinality(Said(w, c, Electorate)) <= Cardinality(Said(w, c, Electorate)')
  <1>0. \A h \in Handlers : ~CastRollback(h)
    BY DEF StableElectorate, CastRollback
  <1>1. UNCHANGED <<contributors, members, Electorate>>
    <2>1. \A u \in Users : ~ConfirmContribution(u) /\ ~ChangeMembership(u)
      BY DEF StableElectorate, ConfirmContribution, ChangeMembership
    <2>2. UNCHANGED <<contributors, members>>
      BY <2>1
      DEF Next, vars, db, CreateWithdrawalProposal, SyncVote, SetWithdrawalLock, CastBegin,
          CastStep, CastInsert, CastTally, CastWriteStatus, CastFinish, CastRollback,
          ProcessingError, ReadContributors, ReadElectorate, CountFirst, Evaluate, Approve,
          Reject, StartDisbursement, CallTransfer, CommitDisbursed, BookTransfer,
          AfterCommit, FailDisbursement, HookRead, HookSuccess, HookFailure, Settle, Restart
    <2>3. QED
      BY <2>2 DEF Electorate
  <1>2. ASSUME NEW w \in Requests, NEW c \in Ballot
        PROVE  Cardinality(Said(w, c, Electorate)) <= Cardinality(Said(w, c, Electorate)')
    <2>1. Said(w, c, Electorate) \subseteq Said(w, c, Electorate)'
      <3> SUFFICES ASSUME NEW u \in Said(w, c, Electorate)
                   PROVE  u \in Said(w, c, Electorate)'
        OBVIOUS
      <3>1. u \in Electorate /\ u \in Users /\ vote[w][u] = c /\ c # "none"
        BY DEF Said, TypeOK, Ballot, Electorate
      <3>2. vote'[w][u] = c
        BY <3>1, <1>0, BallotsKept
      <3>3. QED
        BY <1>1, <3>1, <3>2 DEF Said
    <2>2. IsFiniteSet(Said(w, c, Electorate)')
      <3>1. Said(w, c, Electorate)' \subseteq Electorate'
        BY DEF Said
      <3>2. IsFiniteSet(Electorate')
        BY MembersAssumption, FS_Subset DEF TypeOK, Electorate
      <3>3. QED
        BY <3>1, <3>2, FS_Subset
    <2>3. QED
      BY <2>1, <2>2, FS_Subset
  <1>3. QED
    BY <1>1, <1>2

(* A step of a stable electorate never takes a verdict back. *)
LEMMA VerdictsKept ==
    ASSUME StableElectorate, TypeOK, TypeOK', [Next]_vars, NEW w \in Requests
    PROVE  /\ WithdrawalVerdict(w) = "approved" => WithdrawalVerdict(w)' = "approved"
           /\ WithdrawalVerdict(w) = "rejected" => WithdrawalVerdict(w)' = "rejected"
  <1> DEFINE said(c) == Said(w, c, Electorate)
  <1>1. UNCHANGED Electorate
    BY CountsGrow
  <1>2. \A c \in Ballot : Cardinality(said(c)) <= Cardinality(said(c)')
    BY CountsGrow
  <1>3. /\ Cardinality(Electorate) \in Nat
        /\ Cardinality(said("yes")) \in Nat /\ Cardinality(said("no")) \in Nat
    BY SaidType DEF Ballot
  <1>4. /\ Cardinality(said("yes")') \in Nat /\ Cardinality(said("no")') \in Nat
        /\ Cardinality(said("yes")') + Cardinality(said("no")') <= Cardinality(Electorate)
    <2>1. TypeOK'
          => /\ \A c \in Ballot : Cardinality(said(c)') \in Nat
             /\ Cardinality(said("yes")') + Cardinality(said("no")') <= Cardinality(Electorate')
      <3>1. IsFiniteSet(Electorate')
        BY MembersAssumption, FS_Subset DEF TypeOK, Electorate
      <3>2. /\ \A c : said(c)' \subseteq Electorate'
            /\ said("yes")' \cap said("no")' = {}
        BY DEF Said
      <3>3. QED
        BY <3>1, <3>2, Tally DEF Ballot
    <2>2. QED
      BY <2>1, <1>1 DEF Ballot
  <1>5. QED
    BY <1>1, <1>2, <1>3, <1>4, VerdictIsFinal DEF WithdrawalVerdict, Ballot

LEMMA VerdictInit == Init => VerdictInv
  BY DEF Init, VerdictInv, Idle, OrdersOf

(* A handler decides by the verdict it reads; what it then does is covered by
   that verdict, which later steps keep. *)
LEMMA VerdictNext ==
    StableElectorate /\ TypeOK /\ TypeOK' /\ VerdictInv /\ [Next]_vars => VerdictInv'
  <1> SUFFICES ASSUME StableElectorate, TypeOK, TypeOK', VerdictInv, [Next]_vars
               PROVE  VerdictInv'
    OBVIOUS
  <1> DEFINE
        Decided(h) ==
            /\ cast[h].pc \in {"approve", "order"} => WithdrawalVerdict(cast[h].req) = "approved"
            /\ cast[h].pc = "reject" => WithdrawalVerdict(cast[h].req) = "rejected"
            /\ cast[h].pc = "members" => cast[h].eligible = contributors
            /\ cast[h].pc \in {"count", "decide"} => cast[h].eligible = Electorate
            /\ cast[h].pc = "decide" =>
                  cast[h].first.number
                      <= Cardinality(Said(cast[h].req, cast[h].first.choice, Electorate))
        Mandated(w) == OrdersOf(w) # {} => WithdrawalVerdict(w) = "approved"
        Refused(w) == request[w] = "REJECTED" => WithdrawalVerdict(w) = "rejected"
  <1>k. \A w \in Requests :
           /\ WithdrawalVerdict(w) = "approved" => WithdrawalVerdict(w)' = "approved"
           /\ WithdrawalVerdict(w) = "rejected" => WithdrawalVerdict(w)' = "rejected"
    BY VerdictsKept
  <1>c. /\ UNCHANGED <<contributors, members, Electorate>>
        /\ \A w \in Requests, c \in Ballot :
              /\ Cardinality(Said(w, c, Electorate)) \in Nat
              /\ Cardinality(Said(w, c, Electorate)') \in Nat
              /\ Cardinality(Said(w, c, Electorate)) <= Cardinality(Said(w, c, Electorate)')
    <2>1. \A w \in Requests, c \in Ballot : Cardinality(Said(w, c, Electorate)') \in Nat
      <3>1. \A w, c : Said(w, c, Electorate)' \subseteq Electorate'
        BY DEF Said
      <3>2. IsFiniteSet(Electorate')
        BY MembersAssumption, FS_Subset DEF TypeOK, Electorate
      <3>3. QED
        BY <3>1, <3>2, FS_Subset, FS_CardinalityType
    <2>2. QED
      BY <2>1, CountsGrow, SaidType
  <1>u1. ASSUME NEW h \in Handlers, cast'[h] = cast[h] PROVE Decided(h)'
    <2>1. cast[h].pc # "idle" => cast[h] \in ActiveCast /\ cast[h].req \in Requests
      BY CastIsActive DEF ActiveCast
    <2>2. /\ cast[h].pc = "members" => cast'[h].eligible = contributors'
          /\ cast[h].pc \in {"count", "decide"} => cast'[h].eligible = Electorate'
      BY <1>u1, <1>c DEF VerdictInv
    <2>3. CASE cast[h].pc = "decide"
      <3>1. /\ cast[h].req \in Requests /\ cast[h].first.choice \in Ballot
            /\ cast[h].first.number \in Nat
        BY <2>3, <2>1 DEF ActiveCast, Count
      <3>2. PICK w \in Requests, c \in Ballot, n \in Nat :
              w = cast[h].req /\ c = cast[h].first.choice /\ n = cast[h].first.number
        BY <3>1
      <3>3. n <= Cardinality(Said(w, c, Electorate))
        BY <2>3, <3>2 DEF VerdictInv
      <3>4. n <= Cardinality(Said(w, c, Electorate)')
        BY <3>3, <1>c
      <3>5. w = cast'[h].req /\ c = cast'[h].first.choice /\ n = cast'[h].first.number
        BY <3>2, <1>u1
      <3>6. cast'[h].first.number
               <= Cardinality(Said(cast[h].req, cast[h].first.choice, Electorate)')
        BY <3>4, <3>5 DEF Said
      <3>7. QED
        BY <1>u1, <2>3, <2>2, <3>6
    <2>4. CASE cast[h].pc # "decide"
      BY <1>u1, <1>k, <2>1, <2>2, <2>4 DEF VerdictInv
    <2>5. QED
      BY <2>3, <2>4
  <1>u2. ASSUME UNCHANGED order, NEW w \in Requests PROVE Mandated(w)'
    BY <1>u2, <1>k DEF VerdictInv, OrdersOf
  <1>u3. ASSUME NEW w \in Requests, request'[w] = request[w] \/ request'[w] # "REJECTED"
         PROVE  Refused(w)'
    BY <1>u3, <1>k DEF VerdictInv
  <1>q. ASSUME \A h \in Handlers : Decided(h)', \A w \in Requests : Mandated(w)' /\ Refused(w)'
        PROVE  VerdictInv'
    BY <1>q DEF VerdictInv
  <1>0. ASSUME NEW h \in Handlers, UNCHANGED <<vote, request, order>>,
               \A g \in Handlers \ {h} : cast'[g] = cast[g], Decided(h)'
        PROVE  VerdictInv'
    BY <1>0, <1>u1, <1>u2, <1>u3, <1>q
  <1>1. ASSUME NEW h \in Handlers, Evaluate(h) PROVE VerdictInv'
    <2>1. cast[h] \in ActiveCast /\ cast[h].pc = "decide"
      BY <1>1, CastIsActive DEF Evaluate
    <2> DEFINE w == cast[h].req
               counted(choice) == IF cast[h].first.choice = choice THEN cast[h].first.number
                                  ELSE CountOf(h, choice)
               said(choice) == Cardinality(Said(w, choice, Electorate))
               verdict == Verdict(Cardinality(Electorate), counted("yes"), counted("no"))
    <2>2. /\ w \in Requests /\ cast[h].first.choice \in Ballot
          /\ cast[h].first.number \in Nat
          /\ cast[h].first.number <= said(cast[h].first.choice)
          /\ cast[h].eligible = Electorate
      BY <2>1 DEF ActiveCast, Count, VerdictInv
    <2>3. \A c \in Ballot : counted(c) \in Nat /\ counted(c) <= said(c)
      <3>1. \A c \in Ballot : CountOf(h, c) = said(c) /\ said(c) \in Nat
        BY <2>2, SaidType DEF CountOf
      <3>2. QED
        BY <2>2, <3>1
    <2>4. /\ verdict = "approved" => WithdrawalVerdict(w) = "approved"
          /\ verdict = "rejected" => WithdrawalVerdict(w) = "rejected"
      <3>1. /\ Cardinality(Electorate) \in Nat /\ said("yes") \in Nat /\ said("no") \in Nat
            /\ said("yes") + said("no") <= Cardinality(Electorate)
        BY SaidType DEF Ballot
      <3>2. /\ counted("yes") \in Nat /\ counted("yes") <= said("yes")
            /\ counted("no") \in Nat /\ counted("no") <= said("no")
        BY <2>3 DEF Ballot
      <3>3. QED
        BY <3>1, <3>2, VerdictIsFinal DEF WithdrawalVerdict
    <2>5. Conclude(h, verdict)
      BY <1>1, <2>2 DEF Evaluate
    <2>v. PICK v \in Verdicts : v = verdict
      BY VerdictType
    <2>6. PICK point \in {"approve", "reject", "finish"} :
            /\ cast' = [cast EXCEPT ![h].eligible = {}, ![h].first = None, ![h].pc = point]
            /\ point = "approve" => v = "approved"
            /\ point = "reject" => v = "rejected"
      <3>1. Conclude(h, v)
        BY <2>5, <2>v
      <3>2. QED
        BY <3>1, ConcludeGoes
    <2>7. /\ cast'[h].req = w /\ cast'[h].pc = point
          /\ \A g \in Handlers \ {h} : cast'[g] = cast[g]
      BY <2>1, <2>6 DEF TypeOK, ActiveCast
    <2>8. Decided(h)'
      BY <2>2, <2>4, <2>v, <2>6, <2>7, <1>k
    <2>9. QED
      BY <1>1, <2>7, <2>8, <1>0 DEF Evaluate, db
  \* Nobody is eligible: the verdict is a rejection.
  <1>e. ASSUME Electorate = {} PROVE \A w : WithdrawalVerdict(w) = "rejected"
    BY <1>e, FS_EmptySet DEF WithdrawalVerdict, Verdict
  <1>r. ASSUME NEW h \in Handlers, ReadContributors(h) PROVE VerdictInv'
    <2>1. cast[h] \in ActiveCast
      BY <1>r, CastIsActive DEF ReadContributors
    <2>2. \A g \in Handlers \ {h} : cast'[g] = cast[g]
      BY <1>r DEF ReadContributors, Goto, TypeOK
    <2>3. cast'[h].req = cast[h].req /\ cast[h].req \in Requests
      BY <1>r, <2>1 DEF ReadContributors, Goto, TypeOK, ActiveCast
    <2>4. CASE contributors = {} /\ Goto(h, "reject")
      <3>1. \A w : WithdrawalVerdict(w) = "rejected"
        BY <2>4, <1>e DEF Electorate
      <3>2. cast'[h].pc = "reject"
        BY <2>1, <2>4 DEF Goto, TypeOK, ActiveCast
      <3>3. QED
        BY <1>r, <2>2, <2>3, <3>1, <3>2, <1>k, <1>0 DEF ReadContributors, db
    <2>5. CASE cast' = [cast EXCEPT ![h].pc = "members", ![h].eligible = contributors]
      <3>1. cast'[h].pc = "members" /\ cast'[h].eligible = contributors
        BY <2>1, <2>5 DEF TypeOK, ActiveCast
      <3>2. QED
        BY <1>r, <2>2, <3>1, <1>c, <1>0 DEF ReadContributors, db
    <2>6. QED
      BY <1>r, <2>4, <2>5 DEF ReadContributors
  <1>a. ASSUME NEW h \in Handlers, ReadElectorate(h) PROVE VerdictInv'
    <2>1. cast[h] \in ActiveCast /\ cast[h].eligible \cap members = Electorate
      BY <1>a, CastIsActive DEF ReadElectorate, VerdictInv, Electorate
    <2>2. /\ \A g \in Handlers \ {h} : cast'[g] = cast[g]
          /\ cast'[h].req = cast[h].req /\ cast[h].req \in Requests
          /\ cast'[h].eligible = Electorate
          /\ cast'[h].pc = IF Electorate = {} THEN "reject" ELSE "count"
      BY <1>a, <2>1 DEF ReadElectorate, TypeOK, ActiveCast
    <2>3. Decided(h)'
      <3>1. CASE Electorate = {}
        BY <3>1, <2>2, <1>e, <1>k
      <3>2. CASE Electorate # {}
        BY <3>2, <2>2, <1>c
      <3>3. QED
        BY <3>1, <3>2
    <2>4. QED
      BY <1>a, <2>2, <2>3, <1>0 DEF ReadElectorate, db
  <1>b. ASSUME NEW h \in Handlers, CountFirst(h) PROVE VerdictInv'
    <2>1. cast[h] \in ActiveCast /\ cast[h].pc = "count" /\ cast[h].eligible = Electorate
      BY <1>b, CastIsActive DEF CountFirst, VerdictInv
    <2>2. PICK choice \in Ballot :
            cast' = [cast EXCEPT ![h].pc = "decide",
                       ![h].first = [choice |-> choice, number |-> CountOf(h, choice)]]
      BY <1>b DEF CountFirst
    <2>3. /\ \A g \in Handlers \ {h} : cast'[g] = cast[g]
          /\ cast'[h].pc = "decide" /\ cast'[h].eligible = Electorate
          /\ cast'[h].req = cast[h].req /\ cast[h].req \in Requests
          /\ cast'[h].first.choice = choice /\ cast'[h].first.number = CountOf(h, choice)
      BY <2>1, <2>2 DEF TypeOK, ActiveCast
    <2>4. /\ CountOf(h, choice) = Cardinality(Said(cast[h].req, choice, Electorate))
          /\ Cardinality(Said(cast[h].req, choice, Electorate))
                <= Cardinality(Said(cast[h].req, choice, Electorate)')
      BY <2>1, <2>3, <1>c DEF CountOf
    <2>5. Decided(h)'
      BY <2>3, <2>4, <1>c
    <2>6. QED
      BY <1>b, <2>3, <2>5, <1>0 DEF CountFirst, db
  <1>2. ASSUME NEW h \in Handlers, Approve(h) PROVE VerdictInv'
    <2>1. cast[h] \in ActiveCast /\ cast[h].pc = "approve"
      BY <1>2, CastIsActive DEF Approve
    <2>2. /\ cast'[h].req = cast[h].req /\ cast[h].req \in Requests /\ cast'[h].pc = "order"
          /\ \A g \in Handlers \ {h} : cast'[g] = cast[g]
      BY <1>2, <2>1 DEF Approve, Goto, TypeOK, ActiveCast
    <2>3. \A g \in Handlers : Decided(g)'
      BY <2>1, <2>2, <1>k, <1>u1 DEF VerdictInv
    <2>4. \A w \in Requests : request'[w] = request[w] \/ request'[w] # "REJECTED"
      BY <1>2, <2>2 DEF Approve, TypeOK
    <2>5. QED
      BY <1>2, <2>3, <2>4, <1>u2, <1>u3, <1>q DEF Approve
  <1>3. ASSUME NEW h \in Handlers, Reject(h) PROVE VerdictInv'
    <2>1. cast[h] \in ActiveCast /\ cast[h].pc = "reject"
      BY <1>3, CastIsActive DEF Reject
    <2>2. /\ cast[h].req \in Requests /\ cast'[h].pc = "finish"
          /\ \A g \in Handlers \ {h} : cast'[g] = cast[g]
      BY <1>3, <2>1 DEF Reject, Goto, TypeOK, ActiveCast
    <2>3. \A g \in Handlers : Decided(g)'
      BY <2>2, <1>u1
    <2>4. WithdrawalVerdict(cast[h].req) = "rejected"
      BY <2>1 DEF VerdictInv
    <2>5. \A w \in Requests \ {cast[h].req} : request'[w] = request[w]
      BY <1>3, <2>2 DEF Reject, TypeOK
    <2>6. \A w \in Requests : Refused(w)'
      BY <2>2, <2>4, <2>5, <1>k, <1>u3
    <2>7. QED
      BY <1>3, <2>3, <2>6, <1>u2, <1>q DEF Reject
  <1>4. ASSUME NEW h \in Handlers, StartDisbursement(h) PROVE VerdictInv'
    <2>1. cast[h] \in ActiveCast /\ cast[h].pc = "order"
      BY <1>4, CastIsActive DEF StartDisbursement
    <2>2. PICK a \in Attempts :
            /\ order' = [order EXCEPT ![a] = [req |-> cast[h].req, by |-> cast[h].user]]
            /\ cast' = [cast EXCEPT ![h].pc = "call", ![h].attempt = a]
      BY <1>4 DEF StartDisbursement
    <2>3. /\ cast[h].req \in Requests /\ cast'[h].pc = "call"
          /\ \A g \in Handlers \ {h} : cast'[g] = cast[g]
      BY <2>1, <2>2 DEF TypeOK, ActiveCast
    <2>4. \A g \in Handlers : Decided(g)'
      BY <2>3, <1>u1
    <2>5. \A w \in Requests : w = cast[h].req => WithdrawalVerdict(w)' = "approved"
      <3>1. WithdrawalVerdict(cast[h].req) = "approved"
        BY <2>1 DEF VerdictInv
      <3>2. QED
        BY <3>1, <1>k
    <2>6. ASSUME NEW w \in Requests \ {cast[h].req}
          PROVE  OrdersOf(w)' \subseteq OrdersOf(w)
      <3>1. order'[a] = [req |-> cast[h].req, by |-> cast[h].user]
        BY <2>2 DEF TypeOK
      <3>2. a \notin OrdersOf(w)'
        BY <3>1 DEF OrdersOf
      <3>3. \A b \in Attempts \ {a} : order'[b] = order[b]
        BY <2>2 DEF TypeOK
      <3>4. QED
        BY <3>2, <3>3 DEF OrdersOf
    <2>7. ASSUME NEW w \in Requests PROVE Mandated(w)'
      <3>1. CASE w = cast[h].req
        BY <3>1, <2>5
      <3>2. CASE w # cast[h].req
        <4>1. OrdersOf(w)' # {} => WithdrawalVerdict(w) = "approved"
          BY <3>2, <2>6 DEF VerdictInv
        <4>2. QED
          BY <4>1, <1>k
      <3>3. QED
        BY <3>1, <3>2
    <2>8. \A w \in Requests : request'[w] = request[w] \/ request'[w] # "REJECTED"
      <3>1. request' = [request EXCEPT ![cast[h].req] = "DISBURSING"]
        BY <1>4 DEF StartDisbursement
      <3>2. QED
        BY <2>3, <3>1 DEF TypeOK
    <2>9. QED
      BY <2>4, <2>7, <2>8, <1>u3, <1>q
  <1>5. ASSUME NEW h \in Handlers,
               \/ \E u \in Users, w \in Requests, choice \in Ballot : CastBegin(h, u, w, choice)
               \/ CastInsert(h) \/ CastTally(h) \/ CastWriteStatus(h) \/ CastFinish(h)
               \/ CastRollback(h) \/ ProcessingError(h) \/ CallTransfer(h)
               \/ CommitDisbursed(h) \/ AfterCommit(h) \/ FailDisbursement(h)
        PROVE  VerdictInv'
    <2>1. cast[h] \in ActiveCast \/ cast[h] = Idle
      BY DEF TypeOK
    <2>2. /\ \A g \in Handlers \ {h} : cast'[g] = cast[g]
          /\ cast'[h].pc \notin {"members", "count", "decide", "approve", "order", "reject"}
      BY <1>5, <2>1
      DEF CastBegin, CastInsert, CastTally, CastWriteStatus, CastFinish, CastRollback,
          ProcessingError, CallTransfer, CommitDisbursed, BookTransfer, AfterCommit,
          FailDisbursement,
          Goto, Done, Idle, TypeOK, ActiveCast
    <2>3. UNCHANGED order
      BY <1>5
      DEF CastBegin, CastInsert, CastTally, CastWriteStatus, CastFinish, CastRollback,
          ProcessingError, CallTransfer, CommitDisbursed, BookTransfer, AfterCommit,
          FailDisbursement
    <2>4. \A w \in Requests : request'[w] = request[w] \/ request'[w] # "REJECTED"
      BY <1>5, <2>1
      DEF CastBegin, CastInsert, CastTally, CastWriteStatus, CastFinish, CastRollback,
          ProcessingError, CallTransfer, CommitDisbursed, BookTransfer, AfterCommit,
          FailDisbursement,
          db, TypeOK, ActiveCast
    <2>5. \A g \in Handlers : Decided(g)'
      BY <2>2, <1>u1
    <2>6. QED
      BY <2>3, <2>4, <2>5, <1>u2, <1>u3, <1>q
  <1>6. ASSUME UNCHANGED <<cast, order>>,
               \A w \in Requests : request'[w] = request[w] \/ request'[w] # "REJECTED"
        PROVE  VerdictInv'
    BY <1>6, <1>u1, <1>u2, <1>u3, <1>q
  <1>7. ASSUME NEW w \in Requests, CreateWithdrawalProposal(w) PROVE VerdictInv'
    BY <1>7, <1>6 DEF CreateWithdrawalProposal, TypeOK
  <1>8. ASSUME NEW k \in Hooks, HookSuccess(k) \/ HookFailure(k) PROVE VerdictInv'
    <2>1. \A w \in Requests : request'[w] = request[w] \/ request'[w] # "REJECTED"
      BY <1>8 DEF HookSuccess, HookFailure, TypeOK
    <2>2. UNCHANGED <<cast, order>>
      BY <1>8 DEF HookSuccess, HookFailure
    <2>3. QED
      BY <2>1, <2>2, <1>6
  <1>9. CASE UNCHANGED <<request, cast, order>>
    BY <1>9, <1>6
  <1>10. CASE Restart
    <2>1. \A h \in Handlers : Decided(h)'
      BY <1>10 DEF Restart, Idle
    <2>2. QED
      BY <1>10, <2>1, <1>u2, <1>u3, <1>q DEF Restart, db
  <1>11. QED
    BY <1>1, <1>r, <1>a, <1>b, <1>2, <1>3, <1>4, <1>5, <1>7, <1>8, <1>9, <1>10
    DEF Next, vars, db, CastStep, SyncVote, ConfirmContribution, ChangeMembership,
        SetWithdrawalLock, HookRead,
        Settle

LEMMA VerdictsHold == StableElectorate => (Spec => []VerdictInv)
  <1> SUFFICES ASSUME StableElectorate PROVE Spec => []VerdictInv
    OBVIOUS
  <1>1. TypeOK /\ TypeOK' /\ VerdictInv /\ [Next]_vars => VerdictInv'
    BY VerdictNext
  <1>2. QED
    BY VerdictInit, <1>1, TypeCorrect, PTL DEF Spec

(* No transfer is ever ordered without the mandate of the vote. *)
THEOREM OrdersAreMandated == Spec => []Mandate
  <1>1. CASE StableElectorate
    <2>1. VerdictInv => Mandate
      BY DEF VerdictInv, Mandate
    <2>2. Spec => []VerdictInv
      BY <1>1, VerdictsHold
    <2>3. QED
      BY <2>1, <2>2, PTL
  <1>2. CASE ~StableElectorate
    <2>1. Mandate
      BY <1>2 DEF Mandate
    <2>2. QED
      BY <2>1, PTL
  <1>3. QED
    BY <1>1, <1>2

(* A request recorded as rejected has never been ordered for payment: two
   handlers cannot decide it differently. *)
THEOREM RejectionsAreNeverOrdered == Spec => []RejectedNeverOrdered
  <1>1. CASE StableElectorate
    <2>1. VerdictInv => RejectedNeverOrdered
      BY DEF VerdictInv, RejectedNeverOrdered
    <2>2. Spec => []VerdictInv
      BY <1>1, VerdictsHold
    <2>3. QED
      BY <2>1, <2>2, PTL
  <1>2. CASE ~StableElectorate
    <2>1. RejectedNeverOrdered
      BY <1>2 DEF RejectedNeverOrdered
    <2>2. QED
      BY <2>1, PTL
  <1>3. QED
    BY <1>1, <1>2

-----------------------------------------------------------------------------
(* Disbursement, step by step. *)

Agreed == {w \in Requests : WithdrawalVerdict(w) = "approved"}
Purpose == [a \in Attempts |-> IF order[a] = None THEN None ELSE order[a].req]
Accepted == {a \in Attempts : transfer[a] # "none"}
Booked == {w \in Requests : debits[w] > 0}

LEMMA PromiseInit == Init => Promise!Init
  <1> SUFFICES ASSUME Init PROVE Promise!Init
    OBVIOUS
  <1>1. ASSUME NEW w \in Requests PROVE WithdrawalVerdict(w) # "approved"
    <2>1. Said(w, "yes", Electorate) = {} /\ Said(w, "no", Electorate) = {}
      BY <1>1, MembersAssumption DEF Init, Said, Electorate
    <2>2. Cardinality({}) = 0
      BY FS_EmptySet
    <2>3. QED
      BY <2>1, <2>2, QuorumAssumption DEF WithdrawalVerdict, Verdict
  <1>2. QED
    BY <1>1 DEF Init, Promise!Init

(* What the steps of a disbursement are in terms of Withdrawal. *)
LEMMA PromiseMoves ==
    ASSUME \/ UNCHANGED <<Agreed, Purpose, Accepted, Booked>>
           \/ \E w \in Requests : /\ Agreed' = Agreed \cup {w}
                                  /\ UNCHANGED <<Purpose, Accepted, Booked>>
           \/ \E w \in Agreed, a \in Attempts :
                 /\ Purpose[a] = None /\ Purpose' = [Purpose EXCEPT ![a] = w]
                 /\ UNCHANGED <<Agreed, Accepted, Booked>>
           \/ \E a \in Attempts : /\ Purpose[a] # None /\ Accepted' = Accepted \cup {a}
                                  /\ UNCHANGED <<Agreed, Purpose, Booked>>
           \/ \E w \in Requests : /\ \E a \in Accepted : Purpose[a] = w
                                  /\ Booked' = Booked \cup {w}
                                  /\ UNCHANGED <<Agreed, Purpose, Accepted>>
    PROVE  [Promise!Next]_(Promise!vars)
  <1> USE DEF Agreed, Purpose, Accepted, Booked
  <1>1. CASE UNCHANGED <<Agreed, Purpose, Accepted, Booked>>
    BY <1>1 DEF Promise!vars
  <1>2. ASSUME NEW w \in Requests, Agreed' = Agreed \cup {w},
               UNCHANGED <<Purpose, Accepted, Booked>>
        PROVE  Promise!Next
    <2>1. Promise!Agree(w)
      BY <1>2 DEF Promise!Agree
    <2>2. QED
      BY <2>1 DEF Promise!Next
  <1>3. ASSUME NEW w \in Agreed, NEW a \in Attempts, Purpose[a] = None,
               Purpose' = [Purpose EXCEPT ![a] = w], UNCHANGED <<Agreed, Accepted, Booked>>
        PROVE  Promise!Next
    <2>1. w \in Requests /\ Promise!Order(w, a)
      BY <1>3 DEF Promise!Order
    <2>2. QED
      BY <2>1 DEF Promise!Next
  <1>4. ASSUME NEW a \in Attempts, Purpose[a] # None, Accepted' = Accepted \cup {a},
               UNCHANGED <<Agreed, Purpose, Booked>>
        PROVE  Promise!Next
    <2>1. Promise!Accept(a)
      BY <1>4 DEF Promise!Accept
    <2>2. QED
      BY <2>1 DEF Promise!Next
  <1>5. ASSUME NEW w \in Requests, NEW a \in Accepted, Purpose[a] = w,
               Booked' = Booked \cup {w}, UNCHANGED <<Agreed, Purpose, Accepted>>
        PROVE  Promise!Next
    <2>1. Promise!Book(w)
      BY <1>5 DEF Promise!Book
    <2>2. QED
      BY <2>1 DEF Promise!Next
  <1>6. QED
    BY <1>1, <1>2, <1>3, <1>4, <1>5

(* A ballot is one of one request: it changes the verdict of no other. *)
LEMMA BallotAgrees ==
    ASSUME StableElectorate, TypeOK, TypeOK', [Next]_vars, NEW h \in Handlers, CastInsert(h)
    PROVE  \/ UNCHANGED Agreed
           \/ \E w \in Requests : Agreed' = Agreed \cup {w}
  <1>1. cast[h] \in ActiveCast
    BY CastIsActive DEF CastInsert
  <1>2. PICK w \in Requests : w = cast[h].req
    BY <1>1 DEF ActiveCast
  <1>3. \A v \in Requests \ {w} : vote'[v] = vote[v]
    BY <1>1, <1>2 DEF CastInsert, TypeOK
  <1>4. UNCHANGED Electorate
    BY DEF CastInsert, Electorate
  <1>5. ASSUME NEW v \in Requests \ {w} PROVE WithdrawalVerdict(v)' = WithdrawalVerdict(v)
    <2>1. \A c : Said(v, c, Electorate)' = Said(v, c, Electorate)
      BY <1>3, <1>4 DEF Said
    <2>2. QED
      BY <1>4, <2>1 DEF WithdrawalVerdict
  <1>6. WithdrawalVerdict(w) = "approved" => WithdrawalVerdict(w)' = "approved"
    BY VerdictsKept
  <1>7. QED
    BY <1>5, <1>6 DEF Agreed

LEMMA PromiseNext ==
    ASSUME StableElectorate, TypeOK, TypeOK', VerdictInv, BookingInv, [Next]_vars
    PROVE  [Promise!Next]_(Promise!vars)
  <1>a. UNCHANGED <<vote, contributors, members>> => UNCHANGED Agreed
    BY DEF Agreed, WithdrawalVerdict, Said, Electorate
  <1>p. UNCHANGED order => UNCHANGED Purpose
    BY DEF Purpose
  <1>t. UNCHANGED transfer => UNCHANGED Accepted
    BY DEF Accepted
  <1>b. UNCHANGED debits => UNCHANGED Booked
    BY DEF Booked
  <1>o. ASSUME NEW a \in Attempts, NEW w \in Requests, Ordered(a, w)
        PROVE  Purpose[a] = w /\ Purpose[a] # None
    BY <1>o, NoneAssumption DEF Ordered, Purpose
  <1>1. ASSUME NEW h \in Handlers, CastInsert(h) PROVE [Promise!Next]_(Promise!vars)
    <2>1. UNCHANGED <<Purpose, Accepted, Booked>>
      BY <1>1, <1>p, <1>t, <1>b DEF CastInsert
    <2>2. QED
      BY <1>1, <2>1, BallotAgrees, PromiseMoves
  <1>2. ASSUME NEW h \in Handlers, StartDisbursement(h) PROVE [Promise!Next]_(Promise!vars)
    <2>1. cast[h].req \in Agreed
      BY <1>2, CastIsActive DEF StartDisbursement, VerdictInv, Agreed, ActiveCast
    <2>2. UNCHANGED <<Agreed, Accepted, Booked>>
      BY <1>2, <1>a, <1>t, <1>b DEF StartDisbursement
    <2>3. PICK a \in Attempts :
            /\ order[a] = None
            /\ order' = [order EXCEPT ![a] = [req |-> cast[h].req, by |-> cast[h].user]]
      BY <1>2 DEF StartDisbursement
    <2>4. [req |-> cast[h].req, by |-> cast[h].user] # None
      BY <1>2, CastIsActive, NoneAssumption DEF StartDisbursement, ActiveCast, Order
    <2>5. Purpose[a] = None /\ Purpose' = [Purpose EXCEPT ![a] = cast[h].req]
      BY <2>3, <2>4 DEF Purpose, TypeOK
    <2>6. QED
      BY <2>1, <2>2, <2>5, PromiseMoves
  <1>3. ASSUME NEW h \in Handlers, CallTransfer(h) PROVE [Promise!Next]_(Promise!vars)
    <2>1. /\ cast[h].attempt \in Attempts /\ cast[h].req \in Requests
          /\ Ordered(cast[h].attempt, cast[h].req)
      BY <1>3, CastIsActive DEF CallTransfer, BookingInv, ActiveCast
    <2>2. PICK a \in Attempts : a = cast[h].attempt /\ Purpose[a] # None
      BY <2>1, <1>o
    <2>3. UNCHANGED <<Agreed, Purpose, Booked>>
      BY <1>3, <1>a, <1>p, <1>b DEF CallTransfer, db
    <2>4. transfer' \in {transfer, [transfer EXCEPT ![a] = "accepted"]}
      BY <1>3, <2>2 DEF CallTransfer
    <2>5. Accepted' \in {Accepted, Accepted \cup {a}}
      BY <2>4 DEF Accepted, TypeOK
    <2>6. QED
      BY <2>2, <2>3, <2>5, PromiseMoves
  \* Either booking.
  <1>k. ASSUME NEW a \in Attempts, NEW w \in Requests, Ordered(a, w), transfer[a] # "none",
               debits' \in {debits, [debits EXCEPT ![w] = @ + 1]},
               UNCHANGED <<vote, contributors, members, order, transfer>>
        PROVE  [Promise!Next]_(Promise!vars)
    <2>1. a \in Accepted /\ Purpose[a] = w
      BY <1>k, <1>o DEF Accepted
    <2>2. UNCHANGED <<Agreed, Purpose, Accepted>>
      BY <1>k, <1>a, <1>p, <1>t
    <2>3. Booked' \in {Booked, Booked \cup {w}}
      BY <1>k DEF Booked, TypeOK
    <2>4. QED
      BY <2>1, <2>2, <2>3, PromiseMoves
  <1>4. ASSUME NEW h \in Handlers, CommitDisbursed(h) PROVE [Promise!Next]_(Promise!vars)
    <2>1. /\ cast[h].attempt \in Attempts /\ cast[h].req \in Requests
          /\ Ordered(cast[h].attempt, cast[h].req) /\ transfer[cast[h].attempt] # "none"
      BY <1>4, CastIsActive DEF CommitDisbursed, BookingInv, ActiveCast
    <2>2. debits' \in {debits, [debits EXCEPT ![cast[h].req] = @ + 1]}
      BY <1>4 DEF CommitDisbursed, BookTransfer
    <2>3. QED
      BY <1>4, <2>1, <2>2, <1>k DEF CommitDisbursed
  <1>5. ASSUME NEW k \in Hooks, HookSuccess(k) PROVE [Promise!Next]_(Promise!vars)
    <2>1. /\ hook[k].key.attempt \in Attempts /\ hook[k].req \in Requests
          /\ Ordered(hook[k].key.attempt, hook[k].req)
          /\ transfer[hook[k].key.attempt] # "none"
      BY <1>5 DEF HookSuccess, BookingInv, TypeOK, ActiveHook, Reference, Idle
    <2>2. debits' \in {debits, [debits EXCEPT ![hook[k].req] = @ + 1]}
      BY <1>5 DEF HookSuccess
    <2>3. QED
      BY <1>5, <2>1, <2>2, <1>k DEF HookSuccess
  <1>6. ASSUME NEW a \in Attempts, Settle(a) PROVE [Promise!Next]_(Promise!vars)
    <2>1. UNCHANGED Accepted
      BY <1>6 DEF Settle, Accepted, TypeOK
    <2>2. UNCHANGED <<Agreed, Purpose, Booked>>
      BY <1>6, <1>a, <1>p, <1>b DEF Settle, db
    <2>3. QED
      BY <2>1, <2>2, PromiseMoves
  <1>7. ASSUME UNCHANGED <<vote, contributors, members, order, transfer, debits>>
        PROVE  [Promise!Next]_(Promise!vars)
    BY <1>7, <1>a, <1>p, <1>t, <1>b, PromiseMoves
  <1>8. /\ \A h \in Handlers : ~CastRollback(h)
        /\ \A u \in Users : ~ConfirmContribution(u) /\ ~ChangeMembership(u)
    BY DEF StableElectorate, CastRollback, ConfirmContribution, ChangeMembership
  <1>9. QED
    BY <1>1, <1>2, <1>3, <1>4, <1>5, <1>6, <1>7, <1>8
    DEF Next, vars, db, CreateWithdrawalProposal, SyncVote, SetWithdrawalLock, CastBegin,
        CastStep, CastTally, CastWriteStatus, CastFinish, ProcessingError, ReadContributors,
        ReadElectorate, CountFirst, Evaluate, Conclude, Approve, Reject, AfterCommit,
        FailDisbursement, HookRead, HookFailure, Restart

(* With a stable electorate the vote agrees first, a transfer is ordered only
   then, the provider accepts what was ordered, and the balance is debited only
   for an accepted order: whatever handlers, webhooks, errors and restarts do. *)
THEOREM DisbursementsAreImplemented == StableElectorate => (Spec => ImplementsDisbursement)
  <1> SUFFICES ASSUME StableElectorate PROVE Spec => ImplementsDisbursement
    OBVIOUS
  <1>1. TypeOK /\ TypeOK' /\ VerdictInv /\ BookingInv /\ [Next]_vars
            => [Promise!Next]_(Promise!vars)
    BY PromiseNext
  <1>2. Spec => []VerdictInv
    BY VerdictsHold
  <1>3. Spec => []BookingInv
    BY BookingInit, BookingNext, TypeCorrect, PTL DEF Spec
  <1>4. QED
    BY <1>1, <1>2, <1>3, PromiseInit, TypeCorrect, PTL
    DEF Spec, ImplementsDisbursement, Promise!Spec

-----------------------------------------------------------------------------
(* Handlers that overtake one another.  A handler leaves a disbursement only
   together with the status DISBURSING. *)

Disburses(h) == cast[h].pc \in {"call", "commit", "fail"}

LEMMA DisbursingInit == Init => DisbursingIsHandled
  BY DEF Init, DisbursingIsHandled

LEMMA DisbursingNext ==
    ASSUME {"restart", "catchError"} \cap Environment = {}, TypeOK, DisbursingIsHandled,
           [Next]_vars
    PROVE  DisbursingIsHandled'
  \* No handler of a disbursement is touched, and no request enters DISBURSING.
  <1>n. ASSUME \A w \in Requests : request'[w] = "DISBURSING" => request[w] = "DISBURSING",
               \A g \in Handlers : Disburses(g) => cast'[g] = cast[g]
        PROVE  DisbursingIsHandled'
    BY <1>n DEF DisbursingIsHandled, Disburses
  \* One handler moves.
  <1>s. ASSUME NEW h \in Handlers, \A g \in Handlers \ {h} : cast'[g] = cast[g],
               \A w \in Requests : request'[w] = "DISBURSING" =>
                  \/ request[w] = "DISBURSING" /\ (Disburses(h) => cast[h].req # w)
                  \/ cast'[h].pc \in {"call", "commit", "fail"} /\ cast'[h].req = w
        PROVE  DisbursingIsHandled'
    BY <1>s DEF DisbursingIsHandled, Disburses
  <1>1. ASSUME NEW h \in Handlers, StartDisbursement(h) PROVE DisbursingIsHandled'
    <2>1. cast[h] \in ActiveCast /\ cast[h].req \in Requests
      BY <1>1, CastIsActive DEF StartDisbursement, ActiveCast
    <2>2. /\ \A g \in Handlers \ {h} : cast'[g] = cast[g]
          /\ cast'[h].pc = "call" /\ cast'[h].req = cast[h].req
      BY <1>1, <2>1 DEF StartDisbursement, TypeOK, ActiveCast
    <2>3. request' = [request EXCEPT ![cast[h].req] = "DISBURSING"] /\ ~Disburses(h)
      BY <1>1 DEF StartDisbursement, Disburses
    <2>4. QED
      BY <2>1, <2>2, <2>3, <1>s DEF TypeOK
  <1>2. ASSUME NEW h \in Handlers, CallTransfer(h) PROVE DisbursingIsHandled'
    <2>1. cast[h] \in ActiveCast
      BY <1>2, CastIsActive DEF CallTransfer
    <2>2. /\ \A g \in Handlers \ {h} : cast'[g] = cast[g]
          /\ cast'[h].pc \in {"commit", "fail"} /\ cast'[h].req = cast[h].req
      BY <1>2, <2>1 DEF CallTransfer, Goto, TypeOK, ActiveCast
    <2>3. UNCHANGED request
      BY <1>2 DEF CallTransfer, db
    <2>4. QED
      BY <2>2, <2>3, <1>s
  <1>3. ASSUME NEW h \in Handlers, CommitDisbursed(h) \/ FailDisbursement(h)
        PROVE  DisbursingIsHandled'
    <2>1. cast[h] \in ActiveCast /\ cast[h].req \in Requests
      BY <1>3, CastIsActive DEF CommitDisbursed, FailDisbursement, ActiveCast
    <2>2. \A g \in Handlers \ {h} : cast'[g] = cast[g]
      BY <1>3 DEF CommitDisbursed, BookTransfer, FailDisbursement, Goto, TypeOK
    <2>3. CASE \E status \in {"DISBURSED", "FAILED"} :
                  request' = [request EXCEPT ![cast[h].req] = status]
      BY <2>1, <2>2, <2>3, <1>s DEF TypeOK
    <2>4. CASE UNCHANGED request /\ Goto(h, "fail")
      <3>1. cast'[h].pc = "fail" /\ cast'[h].req = cast[h].req
        BY <2>1, <2>4 DEF Goto, TypeOK, ActiveCast
      <3>2. QED
        BY <2>2, <2>4, <3>1, <1>s
    <2>5. QED
      BY <1>3, <2>3, <2>4 DEF CommitDisbursed, BookTransfer, FailDisbursement
  <1>4. ASSUME NEW h \in Handlers, ~Disburses(h), \A g \in Handlers \ {h} : cast'[g] = cast[g],
               \A w \in Requests : request'[w] = "DISBURSING" => request[w] = "DISBURSING"
        PROVE  DisbursingIsHandled'
    BY <1>4, <1>n
  <1>5. ASSUME NEW h \in Handlers, Approve(h) \/ Reject(h) PROVE DisbursingIsHandled'
    <2>1. ~Disburses(h) /\ \A g \in Handlers \ {h} : cast'[g] = cast[g]
      BY <1>5 DEF Approve, Reject, Disburses, Goto, TypeOK
    <2>2. \E status \in {"APPROVED", "REJECTED"} :
             request' = [request EXCEPT ![cast[h].req] = status]
      BY <1>5 DEF Approve, Reject
    <2>3. QED
      BY <2>1, <2>2, <1>4 DEF TypeOK
  <1>6. ASSUME NEW h \in Handlers,
               \/ CastInsert(h) \/ CastTally(h) \/ CastWriteStatus(h) \/ CastFinish(h)
               \/ ReadContributors(h) \/ ReadElectorate(h) \/ CountFirst(h) \/ Evaluate(h)
               \/ AfterCommit(h)
               \/ CastRollback(h) \/ ProcessingError(h)
               \/ \E u \in Users, w \in Requests, choice \in Ballot : CastBegin(h, u, w, choice)
        PROVE  DisbursingIsHandled'
    <2>1. ~Disburses(h) /\ UNCHANGED request
      BY <1>6 DEF CastInsert, CastTally, CastWriteStatus, CastFinish, ReadContributors,
                  ReadElectorate, CountFirst, Evaluate, AfterCommit, CastRollback,
                  ProcessingError, CastBegin, Idle, Disburses, db
    <2>2. \A g \in Handlers \ {h} : cast'[g] = cast[g]
      BY <1>6 DEF CastInsert, CastTally, CastWriteStatus, CastFinish, ReadContributors,
                  ReadElectorate, CountFirst, Evaluate, Conclude, AfterCommit, CastRollback,
                  ProcessingError, CastBegin, Goto, Done, TypeOK
    <2>3. QED
      BY <2>1, <2>2, <1>4
  <1>7. ASSUME NEW w \in Requests, CreateWithdrawalProposal(w) PROVE DisbursingIsHandled'
    <2>1. request' = [request EXCEPT ![w] = "PENDING_VOTE"] /\ UNCHANGED cast
      BY <1>7 DEF CreateWithdrawalProposal
    <2>2. QED
      BY <2>1, <1>n DEF TypeOK
  <1>8. ASSUME NEW k \in Hooks, HookSuccess(k) \/ HookFailure(k) PROVE DisbursingIsHandled'
    <2>1. /\ UNCHANGED cast
          /\ \E status \in {"DISBURSED", "FAILED"} :
                request' = [request EXCEPT ![hook[k].req] = status]
      BY <1>8 DEF HookSuccess, HookFailure
    <2>2. QED
      BY <2>1, <1>n DEF TypeOK
  <1>9. UNCHANGED <<request, cast>> => DisbursingIsHandled'
    BY <1>n
  <1>10. ~Restart
    BY DEF Restart
  <1>11. QED
    BY <1>1, <1>2, <1>3, <1>5, <1>6, <1>7, <1>8, <1>9, <1>10
    DEF Next, vars, db, CastStep, SyncVote, ConfirmContribution, ChangeMembership,
        SetWithdrawalLock, HookRead,
        Settle

(* While the server does not stop and the catch block does not fail, a request in
   DISBURSING has a handler that is waiting for the provider or recording its answer,
   however many ballots and webhooks disburse, book and fail the same request. *)
THEOREM DisbursementsAreHandled ==
    {"restart", "catchError"} \cap Environment = {} => (Spec => []DisbursingIsHandled)
  <1> SUFFICES ASSUME {"restart", "catchError"} \cap Environment = {}
               PROVE  Spec => []DisbursingIsHandled
    OBVIOUS
  <1>1. TypeOK /\ DisbursingIsHandled /\ [Next]_vars => DisbursingIsHandled'
    BY DisbursingNext
  <1>2. QED
    BY <1>1, DisbursingInit, TypeCorrect, PTL DEF Spec

-----------------------------------------------------------------------------
(* The books.  A handler at the call or at the booking has an order of its own, which
   the provider does not know of before the call and has accepted after it; so each
   acceptance is one booking to come, and a booking fails for one order. *)

Paying(w) == {h \in Handlers : cast[h].pc = "commit" /\ cast[h].req = w}
Missed(w) == unbooked \cap OrdersOf(w)
AnswersOnly == Hooks = {} /\ {"lostReply", "restart"} \cap Environment = {}

BooksInv ==
    /\ \A a \in Attempts : order[a] = None => transfer[a] = "none"
    /\ \A h \in Handlers : cast[h].pc = "call" =>
          Ordered(cast[h].attempt, cast[h].req) /\ transfer[cast[h].attempt] = "none"
    /\ \A h \in Handlers : cast[h].pc = "commit" =>
          /\ Ordered(cast[h].attempt, cast[h].req) /\ transfer[cast[h].attempt] # "none"
          /\ cast[h].attempt \notin unbooked
    /\ \A g, h \in Handlers :
          g # h /\ cast[g].pc \in {"call", "commit"} /\ cast[h].pc \in {"call", "commit"}
             => cast[g].attempt # cast[h].attempt
    /\ \A a \in unbooked : transfer[a] # "none"
    /\ \A w \in Requests : IsFiniteSet(Paying(w)) /\ IsFiniteSet(AcceptedOrders(w))
    /\ BooksMatchTransfers

LEMMA BooksInit == Init => BooksInv
  <1> SUFFICES ASSUME Init PROVE BooksInv
    OBVIOUS
  <1>1. /\ \A w \in Requests : /\ Paying(w) = {} /\ AcceptedOrders(w) = {} /\ Missed(w) = {}
                                /\ debits[w] = 0
        /\ unbooked = {}
        /\ \A h \in Handlers : cast[h].pc = "idle"
        /\ \A a \in Attempts : transfer[a] = "none"
    BY DEF Init, Idle, Paying, AcceptedOrders, OrdersOf, Missed
  <1>2. IsFiniteSet({}) /\ Cardinality({}) = 0
    BY FS_EmptySet
  <1>3. BooksMatchTransfers
    <2>1. ASSUME NEW w \in Requests
          PROVE  debits[w] + Cardinality(Missed(w)) + Cardinality(Paying(w))
                     = Cardinality(AcceptedOrders(w))
      <3>1. /\ Cardinality(Paying(w)) = 0 /\ Cardinality(AcceptedOrders(w)) = 0
            /\ Cardinality(Missed(w)) = 0 /\ debits[w] = 0
        BY <1>1, <1>2
      <3>2. QED
        BY <3>1
    <2>2. QED
      BY <2>1 DEF BooksMatchTransfers, Paying, Missed
  <1>4. QED
    BY <1>1, <1>2, <1>3 DEF BooksInv

LEMMA BooksNext ==
    ASSUME AnswersOnly, TypeOK, BooksInv, [Next]_vars
    PROVE  BooksInv'
  <1> DEFINE
        Balanced(w) == debits[w] + Cardinality(Missed(w)) + Cardinality(Paying(w))
                           = Cardinality(AcceptedOrders(w))
        Finite(w) == IsFiniteSet(Paying(w)) /\ IsFiniteSet(AcceptedOrders(w))
        Calls(h) == cast[h].pc = "call" =>
                        Ordered(cast[h].attempt, cast[h].req) /\ transfer[cast[h].attempt] = "none"
        Commits(h) == cast[h].pc = "commit" =>
                        /\ Ordered(cast[h].attempt, cast[h].req)
                        /\ transfer[cast[h].attempt] # "none"
                        /\ cast[h].attempt \notin unbooked
        Apart(g, h) == g # h /\ cast[g].pc \in {"call", "commit"} /\ cast[h].pc \in {"call", "commit"}
                           => cast[g].attempt # cast[h].attempt
        Known == \A a \in Attempts : order[a] = None => transfer[a] = "none"
        Taken == \A a \in unbooked : transfer[a] # "none"
  <1>a. /\ \A w \in Requests : Balanced(w) /\ Finite(w)
        /\ \A w \in Requests : /\ Cardinality(Paying(w)) \in Nat /\ debits[w] \in Nat
                                /\ IsFiniteSet(Missed(w)) /\ Cardinality(Missed(w)) \in Nat
    <2>1. ASSUME NEW w \in Requests PROVE IsFiniteSet(Missed(w))
      <3>1. Missed(w) \subseteq AcceptedOrders(w) /\ IsFiniteSet(AcceptedOrders(w))
        BY DEF BooksInv, Missed, AcceptedOrders
      <3>2. QED
        BY <3>1, FS_Subset
    <2>2. QED
      BY <2>1, FS_CardinalityType DEF BooksInv, BooksMatchTransfers, Paying, Missed, TypeOK
  <1>q. ASSUME \A w \in Requests : Balanced(w)' /\ Finite(w)', Known', Taken',
               \A h \in Handlers : Calls(h)' /\ Commits(h)',
               \A g, h \in Handlers : Apart(g, h)'
        PROVE  BooksInv'
    <2>1. BooksMatchTransfers'
      BY <1>q DEF BooksMatchTransfers, Paying, Missed
    <2>2. QED
      BY <1>q, <2>1 DEF BooksInv
  \* No handler enters or leaves the call or the booking.
  <1>n. ASSUME UNCHANGED <<order, transfer, debits, unbooked>>,
               \A g \in Handlers : \/ cast'[g] = cast[g]
                                   \/ /\ cast[g].pc \notin {"call", "commit"}
                                      /\ cast'[g].pc \notin {"call", "commit"}
        PROVE  BooksInv'
    <2>1. \A w \in Requests : /\ Paying(w)' = Paying(w) /\ AcceptedOrders(w)' = AcceptedOrders(w)
                              /\ Missed(w)' = Missed(w)
      BY <1>n DEF Paying, AcceptedOrders, OrdersOf, Missed
    <2>2. \A g \in Handlers : cast'[g].pc \in {"call", "commit"} => cast'[g] = cast[g]
      BY <1>n
    <2>3. \A w \in Requests : Balanced(w)' /\ Finite(w)'
      BY <1>n, <1>a, <2>1
    <2>4. /\ \A g \in Handlers : Calls(g)' /\ Commits(g)'
          /\ \A g, h \in Handlers : Apart(g, h)'
      BY <1>n, <2>2 DEF BooksInv, Ordered
    <2>5. QED
      BY <1>n, <2>3, <2>4, <1>q DEF BooksInv
  <1>1. ASSUME NEW h \in Handlers, StartDisbursement(h) PROVE BooksInv'
    <2>1. cast[h] \in ActiveCast /\ cast[h].req \in Requests /\ cast[h].pc = "order"
      BY <1>1, CastIsActive DEF StartDisbursement, ActiveCast
    <2>2. PICK a \in Attempts :
            /\ order[a] = None
            /\ order' = [order EXCEPT ![a] = [req |-> cast[h].req, by |-> cast[h].user]]
            /\ cast' = [cast EXCEPT ![h].pc = "call", ![h].attempt = a]
      BY <1>1 DEF StartDisbursement
    <2>3. UNCHANGED <<transfer, debits, unbooked>>
      BY <1>1 DEF StartDisbursement
    <2>4. /\ \A g \in Handlers \ {h} : cast'[g] = cast[g]
          /\ cast'[h].pc = "call" /\ cast'[h].attempt = a /\ cast'[h].req = cast[h].req
      BY <2>1, <2>2 DEF TypeOK, ActiveCast
    <2>5. transfer[a] = "none"
      BY <2>2 DEF BooksInv
    <2>6. /\ \A b \in Attempts \ {a} : order'[b] = order[b]
          /\ order'[a] = [req |-> cast[h].req, by |-> cast[h].user]
          /\ order'[a] # None
      BY <2>1, <2>2, NoneAssumption DEF TypeOK, ActiveCast, Order
    <2>7. \A w \in Requests : Paying(w)' = Paying(w)
      BY <2>1, <2>4 DEF Paying
    <2>8. \A w \in Requests : AcceptedOrders(w)' = AcceptedOrders(w) /\ Missed(w)' = Missed(w)
      <3>1. \A b \in unbooked : transfer[b] # "none"
        BY DEF BooksInv
      <3>2. QED
        BY <2>3, <2>5, <2>2, <2>6, <3>1 DEF AcceptedOrders, OrdersOf, Missed
    <2>9. \A g \in Handlers \ {h} : cast[g].pc \in {"call", "commit"} =>
             cast[g].attempt # a /\ cast[g].attempt \in Attempts
      BY <2>2, CastIsActive DEF BooksInv, Ordered, ActiveCast
    <2>10. ASSUME NEW g \in Handlers PROVE Calls(g)' /\ Commits(g)'
      <3>1. CASE g = h
        BY <3>1, <2>3, <2>4, <2>5, <2>6 DEF Ordered
      <3>2. CASE g # h
        BY <3>2, <2>3, <2>4, <2>6, <2>9 DEF BooksInv, Ordered
      <3>3. QED
        BY <3>1, <3>2
    <2>11. \A f, g \in Handlers : Apart(f, g)'
      BY <2>4, <2>9 DEF BooksInv
    <2>12. Known' /\ Taken'
      BY <2>3, <2>6 DEF BooksInv
    <2>13. \A w \in Requests : Balanced(w)' /\ Finite(w)'
      BY <2>3, <1>a, <2>7, <2>8
    <2>14. QED
      BY <2>10, <2>11, <2>12, <2>13, <1>q
  <1>2. ASSUME NEW h \in Handlers, CallTransfer(h) PROVE BooksInv'
    <2>1. PICK w \in Requests, a \in Attempts :
            /\ cast[h].req = w /\ cast[h].attempt = a /\ cast[h].pc = "call"
            /\ Ordered(a, w) /\ transfer[a] = "none"
      BY <1>2, CastIsActive DEF CallTransfer, ActiveCast, BooksInv
    <2>2. /\ UNCHANGED <<order, debits, unbooked>>
          /\ \A v \in Requests : Missed(v)' = Missed(v)
      BY <1>2 DEF CallTransfer, db, Missed, OrdersOf
    <2>3. \A point \in {"commit", "fail"} : Goto(h, point) =>
            /\ \A g \in Handlers \ {h} : cast'[g] = cast[g]
            /\ cast'[h].pc = point /\ cast'[h].req = w /\ cast'[h].attempt = a
      <3>1. cast[h] \in ActiveCast
        BY <2>1, CastIsActive
      <3>2. QED
        BY <2>1, <3>1 DEF Goto, TypeOK, ActiveCast
    <2>4. CASE transfer' = [transfer EXCEPT ![a] = "accepted"] /\ Goto(h, "commit")
      <3>1. /\ \A b \in Attempts \ {a} : transfer'[b] = transfer[b]
            /\ transfer'[a] = "accepted"
        BY <2>4 DEF TypeOK
      <3>2. /\ AcceptedOrders(w)' = AcceptedOrders(w) \cup {a} /\ a \notin AcceptedOrders(w)
            /\ \A v \in Requests \ {w} : AcceptedOrders(v)' = AcceptedOrders(v)
        BY <2>1, <2>2, <3>1 DEF AcceptedOrders, OrdersOf, Ordered
      <3>3. /\ Paying(w)' = Paying(w) \cup {h} /\ h \notin Paying(w)
            /\ \A v \in Requests \ {w} : Paying(v)' = Paying(v)
        BY <2>1, <2>3, <2>4 DEF Paying
      <3>4. /\ IsFiniteSet(Paying(w)') /\ IsFiniteSet(AcceptedOrders(w)')
            /\ Cardinality(Paying(w)') = Cardinality(Paying(w)) + 1
            /\ Cardinality(AcceptedOrders(w)') = Cardinality(AcceptedOrders(w)) + 1
        BY <1>a, <3>2, <3>3, FS_AddElement
      <3>5. Balanced(w)'
        BY <1>a, <2>2, <3>4
      <3>6. \A v \in Requests : Balanced(v)' /\ Finite(v)'
        BY <1>a, <2>2, <3>2, <3>3, <3>4, <3>5
      <3>7. Known' /\ Taken'
        BY <2>1, <2>2, <3>1 DEF BooksInv, Ordered, TypeOK
      <3>8. \A g \in Handlers \ {h} : cast[g].pc \in {"call", "commit"} =>
               cast[g].attempt \in Attempts \ {a}
        BY <2>1, CastIsActive DEF BooksInv, ActiveCast
      <3>9. a \notin unbooked
        BY <2>1 DEF BooksInv
      <3>10. ASSUME NEW g \in Handlers PROVE Calls(g)' /\ Commits(g)'
        <4>1. CASE g = h
          BY <4>1, <2>1, <2>2, <2>3, <2>4, <3>1, <3>9 DEF Ordered
        <4>2. CASE g # h
          BY <4>2, <2>2, <2>3, <2>4, <3>1, <3>8 DEF BooksInv, Ordered
        <4>3. QED
          BY <4>1, <4>2
      <3>11. \A f, g \in Handlers : Apart(f, g)'
        BY <2>3, <2>4, <3>8 DEF BooksInv
      <3>12. QED
        BY <3>6, <3>7, <3>10, <3>11, <1>q
    <2>5. CASE UNCHANGED transfer /\ Goto(h, "fail")
      <3>1. /\ \A v \in Requests : Paying(v)' = Paying(v)
            /\ \A v \in Requests : AcceptedOrders(v)' = AcceptedOrders(v)
        BY <2>1, <2>2, <2>3, <2>5 DEF Paying, AcceptedOrders, OrdersOf
      <3>2. \A g \in Handlers : cast'[g].pc \in {"call", "commit"} => cast'[g] = cast[g]
        BY <2>3, <2>5
      <3>3. \A v \in Requests : Balanced(v)' /\ Finite(v)'
        BY <1>a, <2>2, <3>1
      <3>4. /\ \A g \in Handlers : Calls(g)' /\ Commits(g)'
            /\ \A f, g \in Handlers : Apart(f, g)'
        BY <2>2, <2>5, <3>2 DEF BooksInv, Ordered
      <3>5. QED
        BY <2>2, <2>5, <3>3, <3>4, <1>q DEF BooksInv
    <2>6. QED
      BY <1>2, <2>1, <2>4, <2>5 DEF CallTransfer, AnswersOnly
  <1>3. ASSUME NEW h \in Handlers, CommitDisbursed(h) PROVE BooksInv'
    <2>1. PICK w \in Requests, a \in Attempts :
            /\ cast[h].req = w /\ cast[h].attempt = a /\ cast[h].pc = "commit"
            /\ Ordered(a, w) /\ transfer[a] # "none" /\ a \notin unbooked
      BY <1>3, CastIsActive DEF CommitDisbursed, ActiveCast, BooksInv
    <2>2. UNCHANGED <<order, transfer>>
      BY <1>3, <2>1 DEF CommitDisbursed
    <2>3. /\ \A g \in Handlers \ {h} : cast'[g] = cast[g]
          /\ cast'[h].pc \notin {"call", "commit"}
      BY <1>3, <2>1, CastIsActive
      DEF CommitDisbursed, BookTransfer, Goto, TypeOK, ActiveCast
    <2>4. \A v \in Requests : AcceptedOrders(v)' = AcceptedOrders(v) /\ OrdersOf(v)' = OrdersOf(v)
      BY <2>2 DEF AcceptedOrders, OrdersOf
    <2>5. /\ Paying(w)' = Paying(w) \ {h} /\ h \in Paying(w)
          /\ \A v \in Requests \ {w} : Paying(v)' = Paying(v)
      BY <2>1, <2>3 DEF Paying
    <2>6. /\ IsFiniteSet(Paying(w)')
          /\ Cardinality(Paying(w)') = Cardinality(Paying(w)) - 1
      BY <1>a, <2>5, FS_RemoveElement
    <2>7. \A v \in Requests : Finite(v)'
      BY <1>a, <2>4, <2>5, <2>6
    \* Either the debits of the request or its missed bookings go up by one.
    <2>8. ASSUME \A v \in Requests : Balanced(v)', unbooked' \in {unbooked, unbooked \cup {a}}
          PROVE  BooksInv'
      <3>1. \A g \in Handlers \ {h} : cast[g].pc \in {"call", "commit"} =>
               cast[g].attempt \in Attempts \ {a}
        BY <2>1, CastIsActive DEF BooksInv, ActiveCast
      <3>2. \A g \in Handlers : Calls(g)' /\ Commits(g)'
        BY <2>2, <2>3, <2>8, <3>1 DEF BooksInv, Ordered
      <3>3. \A f, g \in Handlers : Apart(f, g)'
        BY <2>3 DEF BooksInv
      <3>4. Known' /\ Taken'
        BY <2>1, <2>2, <2>8 DEF BooksInv
      <3>5. QED
        BY <2>7, <2>8, <3>2, <3>3, <3>4, <1>q
    <2>9. CASE BookTransfer(h)
      <3>1. /\ debits'[w] = debits[w] + 1 /\ \A v \in Requests \ {w} : debits'[v] = debits[v]
            /\ UNCHANGED unbooked
        BY <2>9, <2>1 DEF BookTransfer, TypeOK
      <3>2. \A v \in Requests : Missed(v)' = Missed(v)
        BY <3>1, <2>4 DEF Missed
      <3>3. Balanced(w)'
        BY <1>a, <2>4, <2>6, <3>1, <3>2
      <3>4. \A v \in Requests : Balanced(v)'
        BY <1>a, <2>4, <2>5, <3>1, <3>2, <3>3
      <3>5. QED
        BY <3>1, <3>4, <2>8
    <2>10. CASE unbooked' = unbooked \cup {a} /\ UNCHANGED debits
      <3>1. /\ Missed(w)' = Missed(w) \cup {a} /\ a \notin Missed(w)
            /\ \A v \in Requests \ {w} : Missed(v)' = Missed(v)
        BY <2>10, <2>1, <2>4 DEF Missed, OrdersOf, Ordered
      <3>2. Cardinality(Missed(w)') = Cardinality(Missed(w)) + 1
        BY <1>a, <3>1, FS_AddElement
      <3>3. Balanced(w)'
        BY <1>a, <2>4, <2>6, <2>10, <3>2
      <3>4. \A v \in Requests : Balanced(v)'
        BY <1>a, <2>4, <2>5, <2>10, <3>1, <3>3
      <3>5. QED
        BY <2>10, <3>4, <2>8
    <2>11. QED
      BY <1>3, <2>1, <2>9, <2>10 DEF CommitDisbursed
  <1>4. ASSUME NEW a \in Attempts, Settle(a) PROVE BooksInv'
    <2>1. UNCHANGED <<order, debits, unbooked, cast>>
      BY <1>4 DEF Settle, db
    <2>2. /\ transfer[a] = "accepted"
          /\ \A b \in Attempts : (transfer'[b] = "none" <=> transfer[b] = "none")
      BY <1>4 DEF Settle, TypeOK
    <2>3. \A v \in Requests : /\ AcceptedOrders(v)' = AcceptedOrders(v) /\ Paying(v)' = Paying(v)
                              /\ Missed(v)' = Missed(v)
      BY <2>1, <2>2 DEF AcceptedOrders, OrdersOf, Paying, Missed
    <2>4. \A v \in Requests : Balanced(v)' /\ Finite(v)'
      BY <1>a, <2>1, <2>3
    <2>5. \A h \in Handlers : cast[h].pc \in {"call", "commit"} => cast[h].attempt \in Attempts
      BY CastIsActive DEF ActiveCast
    <2>6. /\ \A h \in Handlers : Calls(h)' /\ Commits(h)'
          /\ \A g, h \in Handlers : Apart(g, h)'
      BY <2>1, <2>2, <2>5 DEF BooksInv, Ordered
    <2>7. Known' /\ Taken'
      BY <2>1, <2>2 DEF BooksInv, TypeOK
    <2>8. QED
      BY <2>4, <2>6, <2>7, <1>q
  <1>5. ASSUME NEW h \in Handlers,
               \/ CastInsert(h) \/ CastTally(h) \/ CastWriteStatus(h) \/ CastFinish(h)
               \/ ReadContributors(h) \/ ReadElectorate(h) \/ CountFirst(h) \/ Evaluate(h)
               \/ Approve(h) \/ Reject(h)
               \/ AfterCommit(h) \/ FailDisbursement(h) \/ CastRollback(h) \/ ProcessingError(h)
               \/ \E u \in Users, w \in Requests, choice \in Ballot : CastBegin(h, u, w, choice)
        PROVE  BooksInv'
    <2>1. cast[h].pc \notin {"call", "commit"} /\ UNCHANGED <<order, transfer, debits, unbooked>>
      BY <1>5 DEF CastInsert, CastTally, CastWriteStatus, CastFinish, ReadContributors,
                  ReadElectorate, CountFirst, Evaluate, Approve, Reject, AfterCommit,
                  FailDisbursement, CastRollback, ProcessingError, CastBegin, Idle, db
    <2>2. \A g \in Handlers \ {h} : cast'[g] = cast[g]
      BY <1>5 DEF CastInsert, CastTally, CastWriteStatus, CastFinish, ReadContributors,
                  ReadElectorate, CountFirst, Evaluate, Conclude, Approve, Reject,
                  AfterCommit, FailDisbursement, CastRollback, ProcessingError, CastBegin,
                  Goto, Done, TypeOK
    <2>3. cast'[h].pc \notin {"call", "commit"}
      <3>1. CASE \E u \in Users, w \in Requests, choice \in Ballot : CastBegin(h, u, w, choice)
        BY <3>1 DEF CastBegin, TypeOK
      <3>2. CASE Evaluate(h)
        <4>1. PICK yes, no : Conclude(h, Verdict(Cardinality(cast[h].eligible), yes, no))
          BY <3>2 DEF Evaluate
        <4>2. cast[h] \in ActiveCast
          BY <3>2, CastIsActive DEF Evaluate
        <4>3. PICK verdict \in {"approved", "rejected", "open"} : Conclude(h, verdict)
          BY <4>1 DEF Verdict
        <4>4. QED
          BY <4>2, <4>3 DEF Conclude, TypeOK, ActiveCast
      <3>3. CASE \/ CastInsert(h) \/ CastTally(h) \/ CastWriteStatus(h) \/ CastFinish(h)
                 \/ ReadContributors(h) \/ ReadElectorate(h) \/ CountFirst(h) \/ Approve(h) \/ Reject(h)
                 \/ AfterCommit(h) \/ FailDisbursement(h) \/ CastRollback(h)
                 \/ ProcessingError(h)
        <4>1. cast[h] \in ActiveCast
          BY <3>3, CastIsActive DEF CastInsert, CastTally, CastWriteStatus, CastFinish,
             ReadContributors, ReadElectorate, CountFirst, Approve, Reject, AfterCommit,
             FailDisbursement, CastRollback, ProcessingError
        <4>2. QED
          BY <3>3, <4>1 DEF CastInsert, CastTally, CastWriteStatus, CastFinish,
             ReadContributors, ReadElectorate, CountFirst, Approve, Reject, AfterCommit,
             FailDisbursement, CastRollback, ProcessingError, Goto, Done, Idle, TypeOK,
             ActiveCast
      <3>4. QED
        BY <1>5, <3>1, <3>2, <3>3
    <2>4. QED
      BY <1>n, <2>1, <2>2, <2>3
  <1>6. ASSUME UNCHANGED <<order, transfer, debits, unbooked, cast>> PROVE BooksInv'
    BY <1>6, <1>n
  <1>7. ~Restart /\ Hooks = {}
    BY DEF Restart, AnswersOnly
  <1>8. QED
    BY <1>1, <1>2, <1>3, <1>4, <1>5, <1>6, <1>7
    DEF Next, vars, db, CastStep, CreateWithdrawalProposal, SyncVote, ConfirmContribution,
        ChangeMembership, SetWithdrawalLock

(* When the provider answers every order and sends no webhook, and the server
   does not stop, each order that the provider accepted is booked once, or its
   handler is about to, or its booking is the one that failed: ballots deleted on
   errors, members who come and go, errors before and after the booking and
   disbursements that are repeated after a failure lose or repeat none. *)
THEOREM BooksAreMatched ==
    Hooks = {} /\ {"lostReply", "restart"} \cap Environment = {}
        => (Spec => []BooksMatchTransfers)
  <1> SUFFICES ASSUME AnswersOnly PROVE Spec => []BooksMatchTransfers
    BY DEF AnswersOnly
  <1>1. TypeOK /\ BooksInv /\ [Next]_vars => BooksInv'
    BY BooksNext
  <1>2. BooksInv => BooksMatchTransfers
    BY DEF BooksInv
  <1>3. QED
    BY <1>1, <1>2, BooksInit, TypeCorrect, PTL DEF Spec

=============================================================================
