--------------------------- MODULE PaymentsProofs ---------------------------
(* What holds of Payments for every value of its constants. *)
EXTENDS PaymentsRefinement, FiniteSetTheorems, TLAPS

-----------------------------------------------------------------------------
(* How a request moves: it stays the request of its payment until it is over,
   and no step of one request touches another. *)

Alone(h) == \A g \in Handlers \ {h} : handler'[g] = handler[g]

MovesTo(h, point) ==
    /\ handler'[h] \in Active
    /\ handler'[h].pc = point
    /\ handler'[h].key = handler[h].key

LEMMA BusyIsActive ==
    ASSUME TypeOK, NEW h \in Handlers, handler[h].pc # "idle"
    PROVE  handler[h] \in Active /\ handler[h].key \in Keys
  BY DEF TypeOK, Idle, Active

LEMMA GotoMoves ==
    ASSUME TypeOK, NEW h \in Handlers, handler[h].pc # "idle", NEW point \in Points,
           Goto(h, point)
    PROVE  /\ handler' \in [Handlers -> Active \cup {Idle}]
           /\ MovesTo(h, point) /\ Alone(h)
           /\ handler'[h].tries = handler[h].tries
  <1>1. handler[h] \in Active
    BY BusyIsActive
  <1>2. [handler[h] EXCEPT !.pc = point] \in Active
    BY <1>1 DEF Active
  <1>3. handler'[h] = [handler[h] EXCEPT !.pc = point]
    BY DEF Goto, TypeOK
  <1>4. /\ handler'[h].pc = point /\ handler'[h].key = handler[h].key
        /\ handler'[h].tries = handler[h].tries
    BY <1>1, <1>3 DEF Active
  <1>5. handler' \in [Handlers -> Active \cup {Idle}] /\ Alone(h)
    BY <1>2 DEF Goto, TypeOK, Alone
  <1>6. QED
    BY <1>2, <1>3, <1>4, <1>5 DEF MovesTo

LEMMA RetryMoves ==
    ASSUME TypeOK, NEW h \in Handlers, handler[h].pc # "idle", NEW tries \in Nat,
           handler' = [handler EXCEPT ![h].tries = tries]
    PROVE  /\ handler' \in [Handlers -> Active \cup {Idle}]
           /\ MovesTo(h, handler[h].pc) /\ Alone(h)
           /\ handler'[h].tries = tries
  <1>1. handler[h] \in Active
    BY BusyIsActive
  <1>2. handler'[h] = [handler[h] EXCEPT !.tries = tries]
    BY DEF TypeOK
  <1>3. handler'[h] \in Active
    BY <1>1, <1>2 DEF Active
  <1>4. /\ handler'[h].pc = handler[h].pc /\ handler'[h].key = handler[h].key
        /\ handler'[h].tries = tries
    BY <1>1, <1>2 DEF Active
  <1>5. handler' \in [Handlers -> Active \cup {Idle}] /\ Alone(h)
    BY <1>2, <1>3 DEF TypeOK, Alone
  <1>6. QED
    BY <1>3, <1>4, <1>5 DEF MovesTo

LEMMA DoneMoves ==
    ASSUME TypeOK, NEW h \in Handlers, Done(h)
    PROVE  /\ handler' \in [Handlers -> Active \cup {Idle}]
           /\ handler'[h] = Idle /\ Alone(h)
  BY DEF Done, TypeOK, Alone

LEMMA EnterMoves ==
    ASSUME TypeOK, NEW h \in Handlers, NEW k \in Keys, NEW hook \in BOOLEAN,
           NEW point \in Points, Enter(h, k, hook, point)
    PROVE  /\ handler' \in [Handlers -> Active \cup {Idle}]
           /\ handler'[h].pc = point /\ handler'[h].key = k /\ handler'[h].tries = 0
           /\ Alone(h)
  BY DEF Enter, TypeOK, Active, Alone

(* An initiation asks, fails or tries again. *)
LEMMA AskMoves ==
    ASSUME TypeOK, NEW h \in Handlers, InitiateCollect(h)
    PROVE  /\ handler' \in [Handlers -> Active \cup {Idle}] /\ Alone(h)
           /\ \/ handler'[h] = Idle \/ MovesTo(h, "initiateFailed")
              \/ /\ MovesTo(h, "collect") /\ handler'[h].tries = handler[h].tries + 1
                 /\ handler[h].tries + 1 < Attempts
  <1>1. handler[h].pc = "collect" /\ handler[h].tries + 1 \in Nat
    BY BusyIsActive DEF InitiateCollect, Active
  <1>2. CASE Done(h)
    BY <1>2, DoneMoves
  <1>3. CASE Goto(h, "initiateFailed")
    BY <1>1, <1>3, GotoMoves DEF Points
  <1>4. CASE /\ handler[h].tries + 1 < Attempts
             /\ handler' = [handler EXCEPT ![h].tries = handler[h].tries + 1]
    BY <1>1, <1>4, RetryMoves
  <1>5. QED
    BY <1>2, <1>3, <1>4 DEF InitiateCollect

-----------------------------------------------------------------------------
LEMMA InitType == Init => TypeOK
  <1> SUFFICES ASSUME Init PROVE TypeOK
    OBVIOUS
  <1>1. handler \in [Handlers -> Active \cup {Idle}]
    BY DEF Init
  <1>2. QED
    BY <1>1 DEF Init, TypeOK

(* Each action keeps the type of every variable. *)
LEMMA NextType == TypeOK /\ [Next]_vars => TypeOK'
  <1> SUFFICES ASSUME TypeOK, [Next]_vars PROVE TypeOK'
    OBVIOUS
  <1> DEFINE Handling == handler \in [Handlers -> Active \cup {Idle}]
  <1>1. ASSUME NEW h \in Handlers, Step(h) PROVE TypeOK'
    <2>0. handler[h].pc # "idle"
      BY <1>1 DEF Step, PlainStep, InitiateCreate, InitiateCollect, InitiateFailed,
                  PollCheck, WriteSuccess, WriteFailure, Record, MarkFailed,
                  RelayContribution, Confirm
    <2>1. handler[h].key \in Keys
      BY <2>0, BusyIsActive
    <2>2. \A point \in Points : Goto(h, point) => Handling'
      BY <2>0, GotoMoves
    <2>3. Done(h) => Handling'
      BY DoneMoves
    <2>4. Answer(h) => Handling' /\ acknowledged' \in SUBSET Keys
      BY <2>1, <2>3 DEF Answer, TypeOK
    <2>a. InitiateCollect(h) => Handling'
      BY AskMoves
    <2>5. Handling'
      BY <1>1, <2>2, <2>3, <2>4, <2>a
      DEF Step, PlainStep, InitiateCreate, InitiateFailed, PollCheck,
          WriteSuccess, WriteFailure, Record, MarkFailed, RelayContribution, Confirm, Points
    <2>6. acknowledged' \in SUBSET Keys
      BY <1>1, <2>4
      DEF Step, PlainStep, InitiateCreate, InitiateCollect, InitiateFailed, PollCheck,
          WriteSuccess, WriteFailure, Record, MarkFailed, RelayContribution, Confirm, TypeOK
    <2>7. /\ payment' \in [Keys -> {"absent", "PENDING", "SUCCESS", "FAILED"}]
          /\ contribution' \in [Keys -> {"absent", "PENDING", "CONFIRMED", "FAILED"}]
      BY <1>1, <2>1
      DEF Step, PlainStep, InitiateCreate, InitiateCollect, InitiateFailed, PollCheck,
          WriteSuccess, WriteFailure, Record, MarkFailed, RelayContribution, Confirm,
          TypeOK, db
    <2>8. hashed' \in SUBSET Keys /\ balance' \in Nat
      BY <1>1, <2>1, AmountAssumption
      DEF Step, PlainStep, InitiateCreate, InitiateCollect, InitiateFailed, PollCheck,
          WriteSuccess, WriteFailure, Record, MarkFailed, RelayContribution, Confirm,
          TypeOK, db
    <2>9. /\ counted' \in [Keys -> Nat] /\ prompts' \in [Keys -> Nat]
          /\ answers' \in [Keys -> SUBSET {"paid", "refused"}]
      BY <1>1, <2>1
      DEF Step, PlainStep, InitiateCreate, InitiateCollect, InitiateFailed, PollCheck,
          WriteSuccess, WriteFailure, Record, MarkFailed, RelayContribution, Confirm,
          TypeOK, campay
    <2>10. QED
      BY <2>5, <2>6, <2>7, <2>8, <2>9 DEF TypeOK
  <1>2. ASSUME NEW h \in Handlers, NEW k \in Keys, Begin(h, k) PROVE TypeOK'
    <2>1. CASE InitiateBegin(h, k)
      BY <2>1, EnterMoves DEF InitiateBegin, TypeOK, Points, db, campay
    <2>2. CASE HookBegin(h, k)
      <3>1. \A point \in {"record", "success", "failure"} : Enter(h, k, TRUE, point) => Handling'
        BY EnterMoves DEF Points
      <3>2. Handling'
        BY <2>2, <3>1 DEF HookBegin, TypeOK
      <3>3. QED
        BY <2>2, <3>2 DEF HookBegin, TypeOK, db, campay
    <2>3. CASE PollBegin(h, k)
      BY <2>3, EnterMoves DEF PollBegin, TypeOK, Points, db, campay
    <2>4. CASE ContributeDirectly(h, k)
      BY <2>4, EnterMoves DEF ContributeDirectly, TypeOK, Points, db, campay
    <2>5. QED
      BY <1>2, <2>1, <2>2, <2>3, <2>4 DEF Begin
  <1>3. ASSUME NEW k \in Keys, Settle(k) PROVE TypeOK'
    BY <1>3 DEF Settle, TypeOK, db
  <1>4. ASSUME NEW k \in Keys, SyncContribution(k) PROVE TypeOK'
    BY <1>4 DEF SyncContribution, TypeOK, campay
  <1>5. CASE Restart
    BY <1>5 DEF Restart, TypeOK, db, campay
  <1>6. CASE UNCHANGED vars
    BY <1>6 DEF vars, db, TypeOK
  <1>7. QED
    BY <1>1, <1>2, <1>3, <1>4, <1>5, <1>6 DEF Next

(* Every variable keeps its type: whatever webhooks, polls and initiations write
   over one another, a payment and a contribution have a status of the schema. *)
THEOREM TypeCorrect == Spec => []TypeOK
  BY InitType, NextType, PTL DEF Spec

-----------------------------------------------------------------------------
(* Money.  A request that is about to write a success or a contribution has
   CamPay's word for it, unless the contribution is made directly; no answer of
   the member is taken back. *)

Creating == {"relay", "confirm", "mark"}  \* the contribution has been created
Told == {"success", "record"} \cup Creating
Backed(k) == k \in Direct \/ "paid" \in answers[k]

MoneyInv ==
    /\ \A h \in Handlers : handler[h].pc \in Told => Backed(handler[h].key)
    /\ PaymentWasCollected

(* Asking.  Only the request that created a payment asks CamPay to collect it, so
   it is asked by one request, and no more often than that one has tried. *)
PromptInv ==
    /\ \A k \in Keys : payment[k] = "absent" => prompts[k] = 0
    /\ \A h \in Handlers : handler[h].pc = "create" => handler[h].tries = 0
    /\ \A h \in Handlers : handler[h].pc = "collect" =>
          /\ payment[handler[h].key] # "absent"
          /\ prompts[handler[h].key] <= handler[h].tries /\ handler[h].tries < Attempts
    /\ \A g, h \in Handlers :
          g # h /\ handler[g].pc = "collect" /\ handler[h].pc = "collect" =>
              handler[g].key # handler[h].key
    /\ PromptsAreBounded

(* Counting.  The contribution of a payment has one creator, who relays it once. *)
CountInv ==
    /\ \A k \in Keys : contribution[k] = "absent" => counted[k] = 0
    /\ \A h \in Handlers : handler[h].pc \in Creating => contribution[handler[h].key] # "absent"
    /\ \A h \in Handlers : handler[h].pc = "relay" => counted[handler[h].key] = 0
    /\ \A g, h \in Handlers :
          g # h /\ handler[g].pc \in Creating /\ handler[h].pc \in Creating =>
              handler[g].key # handler[h].key
    /\ CountedOnce

(* Booking.  The balance counts none that a request may still book or fail. *)
InCreation(k) == \E h \in Handlers : handler[h].pc \in Creating /\ handler[h].key = k
Settled == {k \in Keys : contribution[k] = "CONFIRMED" /\ ~InCreation(k)}
BookInv == balance <= Amount * Cardinality(Settled)

LEMMA MoneyInit == Init => MoneyInv
  BY DEF Init, MoneyInv, Idle, Told, Creating, PaymentWasCollected

LEMMA MoneyNext == TypeOK /\ MoneyInv /\ [Next]_vars => MoneyInv'
  <1> SUFFICES ASSUME TypeOK, MoneyInv, [Next]_vars PROVE MoneyInv'
    OBVIOUS
  <1> DEFINE
        Knows(h) == handler[h].pc \in Told => Backed(handler[h].key)
        Sound(k) == payment[k] = "SUCCESS" \/ contribution[k] # "absent" => Backed(k)
  <1>a. (\A k \in Keys : Sound(k)) /\ \A h \in Handlers : Knows(h)
    BY DEF MoneyInv, PaymentWasCollected, Backed
  <1>q. ASSUME \A k \in Keys : Sound(k)', \A h \in Handlers : Knows(h)'
        PROVE  MoneyInv'
    BY <1>q DEF MoneyInv, PaymentWasCollected, Backed
  \* Requests that write of no other payment than their own, and only what they know.
  <1>n. ASSUME NEW h \in Handlers, UNCHANGED answers, Alone(h),
               \A k \in Keys : \/ payment'[k] = payment[k] \/ payment'[k] # "SUCCESS"
                              \/ Backed(k),
               \A k \in Keys : contribution'[k] = contribution[k] \/ Backed(k),
               handler'[h].pc \in Told => Backed(handler'[h].key)
        PROVE  MoneyInv'
    <2>1. \A k \in Keys : Sound(k)'
      BY <1>n, <1>a DEF Backed
    <2>2. \A g \in Handlers : Knows(g)'
      BY <1>n, <1>a DEF Backed, Alone
    <2>3. QED
      BY <2>1, <2>2, <1>q
  <1>1. ASSUME NEW h \in Handlers,
               \/ InitiateCreate(h) \/ InitiateCollect(h) \/ InitiateFailed(h) \/ WriteFailure(h)
        PROVE  MoneyInv'
    <2>0. handler[h].key \in Keys
      BY <1>1, BusyIsActive DEF InitiateCreate, InitiateCollect, InitiateFailed, WriteFailure
    <2>1. UNCHANGED <<contribution, answers>>
      BY <1>1 DEF InitiateCreate, InitiateCollect, InitiateFailed, WriteFailure, db, campay
    <2>2. \A k \in Keys : payment'[k] = payment[k] \/ payment'[k] # "SUCCESS"
      BY <1>1, <2>0 DEF InitiateCreate, InitiateCollect, InitiateFailed, WriteFailure, db, TypeOK
    <2>3. /\ Alone(h)
          /\ handler'[h] = Idle \/ MovesTo(h, "collect") \/ MovesTo(h, "initiateFailed")
      BY <1>1, AskMoves, DoneMoves, GotoMoves
      DEF InitiateCreate, InitiateFailed, WriteFailure, Points
    <2>4. QED
      BY <2>1, <2>2, <2>3, <1>n DEF MovesTo, Idle, Told, Creating
  <1>2. ASSUME NEW h \in Handlers, WriteSuccess(h) PROVE MoneyInv'
    <2>1. handler[h].key \in Keys /\ Backed(handler[h].key)
      BY <1>2, <1>a, BusyIsActive DEF WriteSuccess, Told
    <2>2. Alone(h) /\ (handler'[h] = Idle \/ MovesTo(h, "record"))
      BY <1>2, DoneMoves, GotoMoves DEF WriteSuccess, Answer, Points
    <2>3. handler'[h].pc \in Told => Backed(handler'[h].key)
      BY <2>1, <2>2 DEF MovesTo, Idle, Told, Creating
    <2>4. /\ payment' = [payment EXCEPT ![handler[h].key] = "SUCCESS"]
          /\ UNCHANGED <<contribution, answers>>
      BY <1>2 DEF WriteSuccess, campay
    <2>5. \A k \in Keys : payment'[k] = payment[k] \/ Backed(k)
      BY <2>1, <2>4 DEF TypeOK
    <2>6. QED
      BY <2>2, <2>3, <2>4, <2>5, <1>n
  <1>3. ASSUME NEW h \in Handlers, PollCheck(h) PROVE MoneyInv'
    <2>1. UNCHANGED <<payment, contribution, answers>>
      BY <1>3 DEF PollCheck, db, campay
    <2>2. /\ Alone(h)
          /\ \/ handler'[h] = Idle \/ MovesTo(h, "failure")
             \/ MovesTo(h, "success") /\ Backed(handler[h].key)
      BY <1>3, DoneMoves, GotoMoves DEF PollCheck, Points, Backed
    <2>3. QED
      BY <2>1, <2>2, <1>n DEF MovesTo, Idle, Told, Creating
  <1>4. ASSUME NEW h \in Handlers, Record(h) \/ RelayContribution(h) \/ Confirm(h) \/ MarkFailed(h)
        PROVE  MoneyInv'
    <2>1. handler[h].key \in Keys /\ Backed(handler[h].key)
      BY <1>4, <1>a, BusyIsActive DEF Record, RelayContribution, Confirm, MarkFailed, Told, Creating
    <2>2. /\ Alone(h)
          /\ handler'[h] = Idle \/ \E point \in Creating : MovesTo(h, point)
      BY <1>4, DoneMoves, GotoMoves
      DEF Record, RelayContribution, Confirm, MarkFailed, Answer, Points, Creating
    <2>3. handler'[h].pc \in Told => Backed(handler'[h].key)
      BY <2>1, <2>2 DEF MovesTo, Idle, Told, Creating
    <2>4. PICK status : contribution' \in {contribution,
                            [contribution EXCEPT ![handler[h].key] = status]}
      BY <1>4 DEF Record, RelayContribution, Confirm, MarkFailed, db
    <2>5. UNCHANGED <<payment, answers>>
      BY <1>4 DEF Record, RelayContribution, Confirm, MarkFailed, db, campay
    <2>6. \A k \in Keys : contribution'[k] = contribution[k] \/ Backed(k)
      BY <2>1, <2>4 DEF TypeOK
    <2>7. QED
      BY <2>2, <2>3, <2>5, <2>6, <1>n
  <1>5. ASSUME NEW h \in Handlers, NEW k \in Keys, Begin(h, k) PROVE MoneyInv'
    <2>1. UNCHANGED <<payment, contribution, answers>>
      BY <1>5 DEF Begin, InitiateBegin, HookBegin, PollBegin, ContributeDirectly, db, campay
    <2>2. CASE UNCHANGED handler
      BY <2>1, <2>2, <1>a, <1>q DEF Backed
    <2>3. CASE \E hook \in BOOLEAN, point \in {"create", "failure", "check"} :
                  Enter(h, k, hook, point)
      BY <2>1, <2>3, EnterMoves, <1>n DEF Points, Told, Creating
    <2>4. CASE \E hook \in BOOLEAN, point \in {"record", "success"} :
                  Enter(h, k, hook, point) /\ Backed(k)
      BY <2>1, <2>4, EnterMoves, <1>n DEF Points
    <2>5. payment[k] = "SUCCESS" => Backed(k)
      BY <1>a
    <2>6. QED
      BY <1>5, <2>2, <2>3, <2>4, <2>5
      DEF Begin, InitiateBegin, HookBegin, PollBegin, ContributeDirectly, Backed
  <1>6. ASSUME NEW k \in Keys, Settle(k) PROVE MoneyInv'
    <2>1. UNCHANGED <<payment, contribution, handler>>
      BY <1>6 DEF Settle, db
    <2>2. \A j \in Keys : Backed(j) => Backed(j)'
      BY <1>6 DEF Settle, TypeOK, Backed
    <2>3. \A g \in Handlers : handler[g].pc \in Told => handler[g].key \in Keys
      BY BusyIsActive DEF Told, Creating
    <2>4. QED
      BY <2>1, <2>2, <2>3, <1>a, <1>q
  <1>7. ASSUME NEW k \in Keys, SyncContribution(k) PROVE MoneyInv'
    <2>1. /\ UNCHANGED <<payment, answers, handler>> /\ contribution[k] # "absent"
          /\ contribution' = [contribution EXCEPT ![k] = "CONFIRMED"]
      BY <1>7 DEF SyncContribution, campay
    <2>2. QED
      BY <2>1, <1>a, <1>q DEF TypeOK, Backed
  <1>8. CASE Restart
    BY <1>8, <1>a, <1>q DEF Restart, db, campay, Idle, Told, Creating, Backed
  <1>9. CASE UNCHANGED vars
    BY <1>9, <1>a, <1>q DEF vars, db, Backed
  <1>10. QED
    BY <1>1, <1>2, <1>3, <1>4, <1>5, <1>6, <1>7, <1>8, <1>9 DEF Next, Step, PlainStep

(* No payment is taken for granted: it is successful, and has a contribution, only
   when the member has paid for it, whatever webhooks, polls, failed initiations
   and repeated keys write over one another. *)
THEOREM PaymentsAreCollected == Spec => []PaymentWasCollected
  <1>1. MoneyInv => PaymentWasCollected
    BY DEF MoneyInv
  <1>2. QED
    BY <1>1, MoneyInit, MoneyNext, TypeCorrect, PTL DEF Spec

-----------------------------------------------------------------------------
LEMMA PromptInit == Init => PromptInv
  BY AttemptsAssumption DEF Init, PromptInv, Idle, PromptsAreBounded

LEMMA PromptNext == TypeOK /\ PromptInv /\ [Next]_vars => PromptInv'
  <1> SUFFICES ASSUME TypeOK, PromptInv, [Next]_vars PROVE PromptInv'
    OBVIOUS
  <1> DEFINE
        Fresh(k) == payment[k] = "absent" => prompts[k] = 0
        Bounded(k) == prompts[k] <= Attempts
        Begins(h) == handler[h].pc = "create" => handler[h].tries = 0
        Asks(h) == handler[h].pc = "collect" =>
                      /\ payment[handler[h].key] # "absent"
                      /\ prompts[handler[h].key] <= handler[h].tries
                      /\ handler[h].tries < Attempts
        Apart(g, h) == g # h /\ handler[g].pc = "collect" /\ handler[h].pc = "collect" =>
                          handler[g].key # handler[h].key
  <1>a. /\ \A k \in Keys : Fresh(k) /\ Bounded(k)
        /\ \A h \in Handlers : Begins(h) /\ Asks(h)
        /\ \A g, h \in Handlers : Apart(g, h)
    BY DEF PromptInv, PromptsAreBounded
  <1>q. ASSUME \A k \in Keys : Fresh(k)' /\ Bounded(k)',
               \A h \in Handlers : Begins(h)' /\ Asks(h)',
               \A g, h \in Handlers : Apart(g, h)'
        PROVE  PromptInv'
    BY <1>q DEF PromptInv, PromptsAreBounded
  <1>b. \A h \in Handlers : handler[h].pc = "collect" => handler[h].key \in Keys
    BY BusyIsActive
  \* Requests that neither create a payment nor ask for it.
  <1>n. ASSUME NEW h \in Handlers, UNCHANGED prompts, Alone(h),
               \A k \in Keys : payment[k] # "absent" => payment'[k] # "absent",
               handler'[h].pc # "collect",
               handler'[h].pc = "create" => handler'[h].tries = 0
        PROVE  PromptInv'
    <2>1. \A k \in Keys : Fresh(k)' /\ Bounded(k)'
      BY <1>n, <1>a
    <2>2. \A g \in Handlers : Begins(g)' /\ Asks(g)'
      BY <1>n, <1>a, <1>b DEF Alone
    <2>3. \A g, f \in Handlers : Apart(g, f)'
      BY <1>n, <1>a DEF Alone
    <2>4. QED
      BY <2>1, <2>2, <2>3, <1>q
  <1>1. ASSUME NEW h \in Handlers, InitiateCreate(h) PROVE PromptInv'
    <2>1. /\ handler[h].pc = "create" /\ handler[h].key \in Keys /\ handler[h].tries = 0
          /\ UNCHANGED prompts
      BY <1>1, <1>a, BusyIsActive DEF InitiateCreate, campay
    <2>2. CASE payment[handler[h].key] = "absent"
      <3>1. /\ payment' = [payment EXCEPT ![handler[h].key] = "PENDING"]
            /\ Goto(h, "collect")
        BY <1>1, <2>2 DEF InitiateCreate
      <3>2. MovesTo(h, "collect") /\ Alone(h) /\ handler'[h].tries = 0
        BY <2>1, <3>1, GotoMoves DEF Points
      <3>3. prompts[handler[h].key] = 0
        BY <2>1, <2>2, <1>a
      <3>4. \A g \in Handlers : handler[g].pc = "collect" => handler[g].key # handler[h].key
        BY <2>2, <1>a
      <3>5. \A k \in Keys : Fresh(k)' /\ Bounded(k)'
        BY <2>1, <3>1, <3>3, <1>a DEF TypeOK
      <3>6. \A g \in Handlers : Begins(g)' /\ Asks(g)'
        BY <2>1, <3>1, <3>2, <3>3, <1>a, <1>b, AttemptsAssumption DEF TypeOK, MovesTo, Alone
      <3>7. \A g, f \in Handlers : Apart(g, f)'
        BY <3>2, <3>4, <1>a DEF MovesTo, Alone
      <3>8. QED
        BY <3>5, <3>6, <3>7, <1>q
    <2>3. CASE payment[handler[h].key] # "absent"
      BY <1>1, <2>1, <2>3, DoneMoves, <1>n DEF InitiateCreate, Idle
    <2>4. QED
      BY <2>2, <2>3
  <1>2. ASSUME NEW h \in Handlers, InitiateCollect(h) PROVE PromptInv'
    <2> DEFINE k == handler[h].key
               n == handler[h].tries
    <2>1. /\ handler[h].pc = "collect" /\ k \in Keys /\ n \in Nat
          /\ payment[k] # "absent" /\ prompts[k] <= n /\ n < Attempts
      BY <1>2, <1>a, BusyIsActive DEF InitiateCollect, Active
    <2>2. prompts' \in {prompts, [prompts EXCEPT ![k] = @ + 1]} /\ UNCHANGED payment
      BY <1>2 DEF InitiateCollect, db
    <2>3. /\ Alone(h)
          /\ \/ handler'[h].pc \in {"idle", "initiateFailed"}
             \/ /\ MovesTo(h, "collect") /\ handler'[h].tries = n + 1 /\ n + 1 < Attempts
      BY <1>2, AskMoves DEF MovesTo, Idle
    <2>4. /\ prompts'[k] \in Nat /\ prompts'[k] <= n + 1
          /\ \A j \in Keys \ {k} : prompts'[j] = prompts[j]
      BY <2>1, <2>2 DEF TypeOK
    <2>5. \A g \in Handlers \ {h} : handler[g].pc = "collect" => handler[g].key # k
      BY <2>1, <1>a
    <2>6. \A j \in Keys : Fresh(j)' /\ Bounded(j)'
      BY <2>1, <2>2, <2>4, <1>a, AttemptsAssumption
    <2>7. Begins(h)' /\ Asks(h)'
      BY <2>1, <2>2, <2>3, <2>4 DEF MovesTo
    <2>8. \A g \in Handlers \ {h} : Begins(g)' /\ Asks(g)'
      BY <2>2, <2>3, <2>4, <2>5, <1>a, <1>b DEF Alone
    <2>9. \A g, f \in Handlers : Apart(g, f)'
      BY <2>3, <2>5, <1>a DEF Alone, MovesTo
    <2>10. QED
      BY <2>6, <2>7, <2>8, <2>9, <1>q
  <1>3. ASSUME NEW h \in Handlers, InitiateFailed(h) \/ WriteSuccess(h) \/ WriteFailure(h)
        PROVE  PromptInv'
    <2>1. handler[h].key \in Keys
      BY <1>3, BusyIsActive DEF InitiateFailed, WriteSuccess, WriteFailure
    <2>2. /\ Alone(h)
          /\ handler'[h] = Idle \/ MovesTo(h, "record")
      BY <1>3, DoneMoves, GotoMoves DEF InitiateFailed, WriteSuccess, WriteFailure, Answer, Points
    <2>3. UNCHANGED prompts
      BY <1>3 DEF InitiateFailed, WriteSuccess, WriteFailure, campay
    <2>4. \A j \in Keys : payment[j] # "absent" => payment'[j] # "absent"
      BY <1>3, <2>1 DEF InitiateFailed, WriteSuccess, WriteFailure, TypeOK
    <2>5. QED
      BY <2>2, <2>3, <2>4, <1>n DEF MovesTo, Idle
  <1>4. ASSUME NEW h \in Handlers,
               \/ PollCheck(h) \/ Record(h) \/ RelayContribution(h) \/ Confirm(h) \/ MarkFailed(h)
        PROVE  PromptInv'
    <2>1. UNCHANGED <<payment, prompts>>
      BY <1>4 DEF PollCheck, Record, RelayContribution, Confirm, MarkFailed, db, campay
    <2>2. /\ Alone(h)
          /\ \/ handler'[h] = Idle
             \/ \E point \in Points \ {"create", "collect"} : MovesTo(h, point)
      BY <1>4, DoneMoves, GotoMoves
      DEF PollCheck, Record, RelayContribution, Confirm, MarkFailed, Answer, Points
    <2>3. QED
      BY <2>1, <2>2, <1>n DEF MovesTo, Idle
  <1>5. ASSUME NEW h \in Handlers, NEW k \in Keys, Begin(h, k) PROVE PromptInv'
    <2>1. UNCHANGED <<payment, prompts>>
      BY <1>5 DEF Begin, InitiateBegin, HookBegin, PollBegin, ContributeDirectly, db, campay
    <2>2. CASE UNCHANGED handler
      BY <2>1, <2>2, <1>a, <1>q
    <2>3. CASE \E hook \in BOOLEAN, point \in Points \ {"collect"} : Enter(h, k, hook, point)
      BY <2>1, <2>3, EnterMoves, <1>n
    <2>4. QED
      BY <1>5, <2>2, <2>3
      DEF Begin, InitiateBegin, HookBegin, PollBegin, ContributeDirectly, Points
  <1>6. ASSUME NEW k \in Keys, Settle(k) \/ SyncContribution(k) PROVE PromptInv'
    BY <1>6, <1>a, <1>q DEF Settle, SyncContribution, db, campay
  <1>7. CASE Restart
    BY <1>7, <1>a, <1>q DEF Restart, db, campay, Idle
  <1>8. CASE UNCHANGED vars
    BY <1>8, <1>a, <1>q DEF vars, db
  <1>9. QED
    BY <1>1, <1>2, <1>3, <1>4, <1>5, <1>6, <1>7, <1>8 DEF Next, Step, PlainStep

(* The calls that are repeated have a limit: the member is asked for a payment no
   more often than one initiation may call CamPay, however often its key is
   submitted, at one time or again after a failure. *)
THEOREM PromptsHaveALimit == Spec => []PromptsAreBounded
  <1>1. PromptInv => PromptsAreBounded
    BY DEF PromptInv
  <1>2. QED
    BY <1>1, PromptInit, PromptNext, TypeCorrect, PTL DEF Spec

-----------------------------------------------------------------------------
LEMMA CountInit == Init => CountInv
  BY DEF Init, CountInv, Idle, Creating, CountedOnce

LEMMA CountNext == TypeOK /\ CountInv /\ [Next]_vars => CountInv'
  <1> SUFFICES ASSUME TypeOK, CountInv, [Next]_vars PROVE CountInv'
    OBVIOUS
  <1> DEFINE
        New(k) == contribution[k] = "absent" => counted[k] = 0
        Created(h) == handler[h].pc \in Creating => contribution[handler[h].key] # "absent"
        Relays(h) == handler[h].pc = "relay" => counted[handler[h].key] = 0
        Apart(g, h) == g # h /\ handler[g].pc \in Creating /\ handler[h].pc \in Creating =>
                          handler[g].key # handler[h].key
        Once(k) == counted[k] <= 1
  <1>a. /\ \A k \in Keys : New(k) /\ Once(k)
        /\ \A h \in Handlers : Created(h) /\ Relays(h)
        /\ \A g, h \in Handlers : Apart(g, h)
    BY DEF CountInv, CountedOnce
  <1>q. ASSUME \A k \in Keys : New(k)' /\ Once(k)',
               \A h \in Handlers : Created(h)' /\ Relays(h)',
               \A g, h \in Handlers : Apart(g, h)'
        PROVE  CountInv'
    BY <1>q DEF CountInv, CountedOnce
  <1>b. \A h \in Handlers : handler[h].pc \in Creating => handler[h].key \in Keys
    BY BusyIsActive DEF Creating
  \* Requests that create no contribution; none is ever deleted.
  <1>n. ASSUME NEW h \in Handlers, Alone(h), handler'[h].pc \notin Creating, UNCHANGED counted,
               \A k \in Keys : contribution[k] # "absent" => contribution'[k] # "absent"
        PROVE  CountInv'
    <2>1. \A g \in Handlers : Created(g)' /\ Relays(g)'
      BY <1>n, <1>a, <1>b DEF Alone, Creating
    <2>2. QED
      BY <2>1, <1>n, <1>a, <1>q DEF Alone
  <1>1. ASSUME NEW h \in Handlers,
               \/ InitiateCreate(h) \/ InitiateCollect(h) \/ InitiateFailed(h)
               \/ PollCheck(h) \/ WriteSuccess(h) \/ WriteFailure(h)
        PROVE  CountInv'
    <2>1. UNCHANGED <<contribution, counted>>
      BY <1>1 DEF InitiateCreate, InitiateCollect, InitiateFailed, PollCheck, WriteSuccess,
                  WriteFailure, db
    <2>2. /\ Alone(h)
          /\ \/ handler'[h] = Idle
             \/ \E point \in Points \ Creating : MovesTo(h, point)
      BY <1>1, DoneMoves, GotoMoves, AskMoves
      DEF InitiateCreate, InitiateFailed, PollCheck, WriteSuccess, WriteFailure, Answer,
          Points, Creating
    <2>3. handler'[h].pc \notin Creating
      BY <2>2 DEF MovesTo, Idle, Creating
    <2>4. QED
      BY <2>1, <2>2, <2>3, <1>n
  <1>2. ASSUME NEW h \in Handlers, Record(h) PROVE CountInv'
    <2>1. handler[h].pc = "record" /\ handler[h].key \in Keys
      BY <1>2, BusyIsActive DEF Record
    <2>2. CASE Done(h) /\ UNCHANGED contribution
      BY <1>2, <2>2, DoneMoves, <1>n DEF Record, Idle, Creating
    <2>3. CASE /\ contribution[handler[h].key] = "absent"
               /\ contribution' = [contribution EXCEPT ![handler[h].key] = "PENDING"]
               /\ Goto(h, "relay")
      <3>1. MovesTo(h, "relay") /\ Alone(h) /\ UNCHANGED counted
        BY <1>2, <2>1, <2>3, GotoMoves DEF Record, Points
      <3>2. \A g \in Handlers : handler[g].pc \in Creating => handler[g].key # handler[h].key
        BY <2>3, <1>a
      <3>3. \A k \in Keys : New(k)' /\ Once(k)'
        BY <2>3, <3>1, <1>a DEF TypeOK
      <3>4. \A g \in Handlers : Created(g)' /\ Relays(g)'
        BY <2>1, <2>3, <3>1, <1>a, <1>b DEF TypeOK, MovesTo, Alone
      <3>5. \A g, f \in Handlers : Apart(g, f)'
        BY <3>1, <3>2, <1>a DEF MovesTo, Alone
      <3>6. QED
        BY <3>3, <3>4, <3>5, <1>q
    <2>4. QED
      BY <1>2, <2>2, <2>3 DEF Record
  <1>3. ASSUME NEW h \in Handlers, RelayContribution(h) PROVE CountInv'
    <2>1. handler[h].pc = "relay" /\ handler[h].key \in Keys /\ counted[handler[h].key] = 0
          /\ contribution[handler[h].key] # "absent" /\ UNCHANGED contribution
      BY <1>3, <1>a, <1>b DEF RelayContribution, Creating, db
    <2>2. counted' \in {counted, [counted EXCEPT ![handler[h].key] = @ + 1]}
      BY <1>3 DEF RelayContribution
    <2>3. Alone(h) /\ \E point \in {"confirm", "mark"} : MovesTo(h, point)
      BY <1>3, GotoMoves DEF RelayContribution, Points
    <2>4. \A k \in Keys : New(k)' /\ Once(k)'
      BY <2>1, <2>2, <1>a DEF TypeOK
    <2>5. \A g \in Handlers \ {h} : handler[g].pc = "relay" => handler[g].key # handler[h].key
      BY <2>1, <1>a DEF Creating
    <2>6. \A g \in Handlers : Created(g)' /\ Relays(g)'
      BY <2>1, <2>2, <2>3, <2>5, <1>a, <1>b DEF TypeOK, MovesTo, Alone, Creating
    <2>7. \A g, f \in Handlers : Apart(g, f)'
      BY <2>1, <2>3, <1>a DEF MovesTo, Alone, Creating
    <2>8. QED
      BY <2>4, <2>6, <2>7, <1>q
  <1>4. ASSUME NEW h \in Handlers, Confirm(h) PROVE CountInv'
    <2>1. handler[h].pc = "confirm" /\ handler[h].key \in Keys /\ UNCHANGED counted
      BY <1>4, BusyIsActive DEF Confirm
    <2>2. CASE Done(h) /\ contribution' = [contribution EXCEPT ![handler[h].key] = "CONFIRMED"]
      BY <2>1, <2>2, DoneMoves, <1>n DEF TypeOK, Idle, Creating
    <2>3. CASE Goto(h, "mark") /\ UNCHANGED contribution
      <3>1. MovesTo(h, "mark") /\ Alone(h)
        BY <2>1, <2>3, GotoMoves DEF Points
      <3>2. \A g \in Handlers : Created(g)' /\ Relays(g)'
        BY <2>1, <2>3, <3>1, <1>a DEF MovesTo, Alone, Creating
      <3>3. \A g, f \in Handlers : Apart(g, f)'
        BY <2>1, <3>1, <1>a DEF MovesTo, Alone, Creating
      <3>4. QED
        BY <2>1, <2>3, <3>2, <3>3, <1>a, <1>q
    <2>4. QED
      BY <1>4, <2>2, <2>3 DEF Confirm, Answer
  <1>5. ASSUME NEW h \in Handlers, MarkFailed(h) PROVE CountInv'
    <2>1. handler[h].key \in Keys /\ UNCHANGED counted
          /\ contribution' = [contribution EXCEPT ![handler[h].key] = "FAILED"]
      BY <1>5, BusyIsActive DEF MarkFailed
    <2>2. QED
      BY <1>5, <2>1, DoneMoves, <1>n DEF MarkFailed, TypeOK, Idle, Creating
  <1>6. ASSUME NEW h \in Handlers, NEW k \in Keys, Begin(h, k) PROVE CountInv'
    <2>1. UNCHANGED <<contribution, counted>>
      BY <1>6 DEF Begin, InitiateBegin, HookBegin, PollBegin, ContributeDirectly, db
    <2>2. CASE UNCHANGED handler
      BY <2>1, <2>2, <1>a, <1>q
    <2>3. CASE \E hook \in BOOLEAN, point \in Points \ Creating : Enter(h, k, hook, point)
      BY <2>1, <2>3, EnterMoves, <1>n
    <2>4. QED
      BY <1>6, <2>2, <2>3
      DEF Begin, InitiateBegin, HookBegin, PollBegin, ContributeDirectly, Points, Creating
  <1>7. ASSUME NEW k \in Keys, Settle(k) PROVE CountInv'
    BY <1>7, <1>a, <1>q DEF Settle, db
  <1>8. ASSUME NEW k \in Keys, SyncContribution(k) PROVE CountInv'
    <2>1. /\ UNCHANGED <<counted, handler>> /\ contribution[k] # "absent"
          /\ contribution' = [contribution EXCEPT ![k] = "CONFIRMED"]
      BY <1>8 DEF SyncContribution
    <2>2. QED
      BY <2>1, <1>a, <1>b, <1>q DEF TypeOK
  <1>9. CASE Restart
    BY <1>9, <1>a, <1>q DEF Restart, db, Idle, Creating
  <1>10. CASE UNCHANGED vars
    BY <1>10, <1>a, <1>q DEF vars, db
  <1>11. QED
    BY <1>1, <1>2, <1>3, <1>4, <1>5, <1>6, <1>7, <1>8, <1>9, <1>10 DEF Next, Step, PlainStep

(* The vault counts a payment at most once, however often its webhook comes, a
   poll finds it and the server restarts. *)
THEOREM PaymentsCountOnce == Spec => []CountedOnce
  <1>1. CountInv => CountedOnce
    BY DEF CountInv
  <1>2. QED
    BY <1>1, CountInit, CountNext, TypeCorrect, PTL DEF Spec

-----------------------------------------------------------------------------
LEMMA SettledType == IsFiniteSet(Settled) /\ Cardinality(Settled) \in Nat
  BY KeysAssumption, FS_Subset, FS_CardinalityType DEF Settled

(* More contributions are worth no less. *)
LEMMA WorthGrows ==
    ASSUME NEW m \in Nat, NEW n \in Nat, m <= n
    PROVE  Amount * m <= Amount * n /\ Amount * (m + 1) = Amount * m + Amount
  BY AmountAssumption

(* A booking settles its contribution: its creator, the only one, is done. *)
LEMMA ConfirmSettles ==
    ASSUME TypeOK, CountInv, NEW h \in Handlers, Confirm(h)
    PROVE  \/ UNCHANGED <<balance, hashed>> /\ Settled \subseteq Settled'
           \/ \E k \in Keys \ Settled :
                 /\ balance' = balance + Amount
                 /\ hashed' = hashed \cup {k}
                 /\ Settled \cup {k} \subseteq Settled'
  <1>1. handler[h].key \in Keys /\ handler[h].key \notin Settled /\ handler[h].pc = "confirm"
    BY BusyIsActive DEF Confirm, Settled, InCreation, Creating
  <1>2. CASE Goto(h, "mark") /\ UNCHANGED <<contribution, hashed, balance>>
    <2>1. MovesTo(h, "mark") /\ Alone(h)
      BY <1>1, <1>2, GotoMoves DEF Points
    <2>2. \A k \in Keys : InCreation(k)' => InCreation(k)
      BY <1>1, <2>1 DEF InCreation, MovesTo, Alone, Creating
    <2>3. QED
      BY <1>2, <2>2 DEF Settled
  <1>3. CASE /\ Done(h) /\ balance' = balance + Amount
             /\ hashed' = hashed \cup {handler[h].key}
             /\ contribution' = [contribution EXCEPT ![handler[h].key] = "CONFIRMED"]
    <2>1. handler'[h] = Idle /\ Alone(h)
      BY <1>3, DoneMoves
    <2>2. \A g \in Handlers \ {h} :
            handler[g].pc \in Creating => handler[g].key # handler[h].key
      BY <1>1 DEF CountInv, Creating
    <2>3. PICK k \in Keys : k = handler[h].key
      BY <1>1
    <2>4. \A j \in Keys : ~InCreation(j) \/ j = k => ~InCreation(j)'
      BY <2>1, <2>2, <2>3 DEF Alone, InCreation, Idle, Creating
    <2>5. Settled \cup {k} \subseteq Settled'
      BY <1>1, <1>3, <2>3, <2>4 DEF TypeOK, Settled
    <2>6. QED
      BY <1>1, <1>3, <2>3, <2>5
  <1>4. QED
    BY <1>2, <1>3 DEF Confirm, Answer

(* A contribution that is settled stays so; only a booking adds to the balance,
   and it settles one. *)
LEMMA SettledGrows ==
    ASSUME TypeOK, CountInv, [Next]_vars
    PROVE  \/ UNCHANGED balance /\ Settled \subseteq Settled'
           \/ \E k \in Keys \ Settled :
                 balance' = balance + Amount /\ Settled \cup {k} \subseteq Settled'
  <1> DEFINE Kept == UNCHANGED balance /\ Settled \subseteq Settled'
  \* Requests that were not creating a contribution, and do not begin to create a
  \* settled one.
  <1>n. ASSUME NEW h \in Handlers, Alone(h), UNCHANGED balance,
               \A k \in Settled : contribution'[k] = contribution[k],
               handler'[h].pc \in Creating => handler'[h].key \notin Settled
        PROVE  Kept
    BY <1>n DEF Settled, InCreation, Alone
  <1>1. ASSUME NEW h \in Handlers,
               \/ InitiateCreate(h) \/ InitiateCollect(h) \/ InitiateFailed(h)
               \/ PollCheck(h) \/ WriteSuccess(h) \/ WriteFailure(h)
        PROVE  Kept
    <2>1. UNCHANGED <<contribution, balance>>
      BY <1>1 DEF InitiateCreate, InitiateCollect, InitiateFailed, PollCheck, WriteSuccess,
                  WriteFailure, db
    <2>2. /\ Alone(h)
          /\ \/ handler'[h] = Idle
             \/ \E point \in Points \ Creating : MovesTo(h, point)
      BY <1>1, DoneMoves, GotoMoves, AskMoves
      DEF InitiateCreate, InitiateFailed, PollCheck, WriteSuccess, WriteFailure, Answer,
          Points, Creating
    <2>3. QED
      BY <2>1, <2>2, <1>n DEF MovesTo, Idle, Creating
  <1>2. ASSUME NEW h \in Handlers, Record(h) \/ RelayContribution(h) \/ MarkFailed(h)
        PROVE  Kept
    <2>1. handler[h].key \in Keys /\ UNCHANGED balance
      BY <1>2, BusyIsActive DEF Record, RelayContribution, MarkFailed, db
    <2>2. /\ Alone(h)
          /\ handler'[h] = Idle \/ \E point \in Creating : MovesTo(h, point)
      BY <1>2, DoneMoves, GotoMoves DEF Record, RelayContribution, MarkFailed, Points, Creating
    <2>3. CASE handler[h].key \notin Settled
      <3>1. \A k \in Keys \ {handler[h].key} : contribution'[k] = contribution[k]
        BY <1>2 DEF Record, RelayContribution, MarkFailed, db, TypeOK
      <3>2. QED
        BY <2>1, <2>2, <2>3, <3>1, <1>n DEF MovesTo, Idle, Creating, Settled
    <2>4. CASE handler[h].key \in Settled
      <3>1. handler[h].pc = "record" /\ contribution[handler[h].key] = "CONFIRMED"
        BY <1>2, <2>4 DEF Record, RelayContribution, MarkFailed, Settled, InCreation, Creating
      <3>2. Done(h) /\ UNCHANGED contribution
        BY <1>2, <3>1 DEF Record, RelayContribution, MarkFailed
      <3>3. QED
        BY <2>1, <3>2, DoneMoves, <1>n DEF Idle, Creating
    <2>5. QED
      BY <2>3, <2>4
  <1>3. ASSUME NEW h \in Handlers, Confirm(h)
        PROVE  Kept \/ \E k \in Keys \ Settled :
                   balance' = balance + Amount /\ Settled \cup {k} \subseteq Settled'
    BY <1>3, ConfirmSettles
  <1>4. ASSUME NEW h \in Handlers, NEW k \in Keys, Begin(h, k) PROVE Kept
    <2>1. UNCHANGED <<contribution, balance>>
      BY <1>4 DEF Begin, InitiateBegin, HookBegin, PollBegin, ContributeDirectly, db
    <2>2. CASE UNCHANGED handler
      BY <2>1, <2>2 DEF Settled, InCreation
    <2>3. CASE \E hook \in BOOLEAN, point \in Points \ Creating : Enter(h, k, hook, point)
      BY <2>1, <2>3, EnterMoves, <1>n
    <2>4. QED
      BY <1>4, <2>2, <2>3
      DEF Begin, InitiateBegin, HookBegin, PollBegin, ContributeDirectly, Points, Creating
  <1>5. ASSUME NEW k \in Keys, Settle(k) PROVE Kept
    BY <1>5 DEF Settle, db, Settled, InCreation
  <1>6. ASSUME NEW k \in Keys, SyncContribution(k) PROVE Kept
    BY <1>6 DEF SyncContribution, Settled, InCreation, TypeOK
  <1>7. CASE Restart
    BY <1>7 DEF Restart, db, Settled, InCreation, Idle, Creating
  <1>8. CASE UNCHANGED vars
    BY <1>8 DEF vars, db, Settled, InCreation
  <1>9. QED
    BY <1>1, <1>2, <1>3, <1>4, <1>5, <1>6, <1>7, <1>8 DEF Next, Step, PlainStep

LEMMA BookInit == Init => BookInv
  <1> SUFFICES ASSUME Init PROVE BookInv
    OBVIOUS
  <1>1. balance = 0 /\ Amount * Cardinality(Settled) >= 0
    BY SettledType, AmountAssumption DEF Init
  <1>2. QED
    BY <1>1, SettledType, AmountAssumption DEF BookInv

LEMMA BookNext == TypeOK /\ CountInv /\ BookInv /\ TypeOK' /\ [Next]_vars => BookInv'
  <1> SUFFICES ASSUME TypeOK, CountInv, BookInv, TypeOK', [Next]_vars PROVE BookInv'
    OBVIOUS
  <1> DEFINE m == Cardinality(Settled)
             n == Cardinality(Settled')
  <1>1. IsFiniteSet(Settled') /\ n \in Nat
    BY KeysAssumption, FS_Subset, FS_CardinalityType DEF Settled
  <1>2. IsFiniteSet(Settled) /\ m \in Nat /\ balance \in Nat /\ balance <= Amount * m
    BY SettledType DEF TypeOK, BookInv
  <1>3. CASE UNCHANGED balance /\ Settled \subseteq Settled'
    <2>1. m <= n
      BY <1>1, <1>3, FS_Subset
    <2>2. Amount * m <= Amount * n
      BY <1>1, <1>2, <2>1, WorthGrows
    <2>3. QED
      BY <1>1, <1>2, <1>3, <2>2, AmountAssumption DEF BookInv
  <1>4. ASSUME NEW k \in Keys \ Settled, balance' = balance + Amount,
               Settled \cup {k} \subseteq Settled'
        PROVE  BookInv'
    <2>1. m + 1 <= n
      BY <1>1, <1>2, <1>4, FS_Subset, FS_AddElement
    <2>2. Amount * (m + 1) <= Amount * n /\ Amount * (m + 1) = Amount * m + Amount
      BY <1>1, <1>2, <2>1, WorthGrows
    <2>3. QED
      BY <1>1, <1>2, <1>4, <2>2, AmountAssumption DEF BookInv
  <1>5. QED
    BY <1>3, <1>4, SettledGrows

LEMMA BookingsHold == Spec => [](TypeOK /\ MoneyInv /\ CountInv /\ BookInv)
  BY InitType, NextType, MoneyInit, MoneyNext, CountInit, CountNext, BookInit, BookNext,
     PTL DEF Spec

(* The balance holds only confirmed contributions, each booked once: neither a
   failure that follows the booking nor the listener takes one back or books it
   again. *)
THEOREM BalancesAreConfirmed == Spec => []BalanceIsConfirmed
  <1>1. TypeOK /\ BookInv => BalanceIsConfirmed
    <2> SUFFICES ASSUME TypeOK, BookInv PROVE BalanceIsConfirmed
      OBVIOUS
    <2> DEFINE Confirmed == {k \in Keys : contribution[k] = "CONFIRMED"}
    <2>1. IsFiniteSet(Confirmed) /\ Cardinality(Confirmed) \in Nat
      BY KeysAssumption, FS_Subset, FS_CardinalityType
    <2>2. Cardinality(Settled) <= Cardinality(Confirmed)
      BY <2>1, FS_Subset DEF Settled
    <2>3. Amount * Cardinality(Settled) <= Amount * Cardinality(Confirmed)
      BY <2>1, <2>2, SettledType, WorthGrows
    <2>4. balance <= Amount * Cardinality(Confirmed)
      BY <2>1, <2>3, SettledType, AmountAssumption DEF TypeOK, BookInv
    <2>5. QED
      BY <2>4 DEF BalanceIsConfirmed
  <1>2. QED
    BY <1>1, BookingsHold, PTL

-----------------------------------------------------------------------------
(* Payments implements Collections, step by step. *)

PaidFor == {k \in Keys : "paid" \in answers[k]}
Recorded == {k \in Keys : contribution[k] # "absent"}

LEMMA PromiseInit == Init => Promise!Init
  BY DEF Init, Promise!Init

LEMMA SameCardinality == ASSUME NEW S PROVE Promise!Cardinality(S) = Cardinality(S)
  BY Zenon DEF Promise!Cardinality, Cardinality

(* What the four steps of a collection are in terms of Payments. *)
LEMMA PromiseMoves ==
    ASSUME \/ UNCHANGED <<PaidFor, Recorded, counted, balance>>
           \/ \E k \in Keys : PaidFor' = PaidFor \cup {k} /\ UNCHANGED <<Recorded, counted, balance>>
           \/ \E k \in {j \in Keys : Backed(j)} :
                 Recorded' = Recorded \cup {k} /\ UNCHANGED <<PaidFor, counted, balance>>
           \/ \E k \in Recorded : /\ counted[k] = 0 /\ counted' = [counted EXCEPT ![k] = 1]
                                  /\ UNCHANGED <<PaidFor, Recorded, balance>>
           \/ /\ balance + Amount <= Amount * Cardinality(Recorded)
              /\ balance' = balance + Amount
              /\ UNCHANGED <<PaidFor, Recorded, counted>>
    PROVE  [Promise!Next]_(Promise!vars)
  <1>1. CASE UNCHANGED <<PaidFor, Recorded, counted, balance>>
    BY <1>1 DEF Promise!vars, PaidFor, Recorded
  <1>2. ASSUME NEW k \in Keys, PaidFor' = PaidFor \cup {k},
               UNCHANGED <<Recorded, counted, balance>>
        PROVE  Promise!Next
    <2>1. Promise!Collect(k)
      BY <1>2 DEF Promise!Collect, PaidFor, Recorded
    <2>2. QED
      BY <2>1 DEF Promise!Next
  <1>3. ASSUME NEW k \in Keys, Backed(k), Recorded' = Recorded \cup {k},
               UNCHANGED <<PaidFor, counted, balance>>
        PROVE  Promise!Next
    <2>1. k \in Keys /\ Promise!Record(k)
      BY <1>3 DEF Promise!Record, PaidFor, Recorded, Backed
    <2>2. QED
      BY <2>1 DEF Promise!Next
  <1>4. ASSUME NEW k \in Recorded, counted[k] = 0, counted' = [counted EXCEPT ![k] = 1],
               UNCHANGED <<PaidFor, Recorded, balance>>
        PROVE  Promise!Next
    <2>1. k \in Keys /\ Promise!Count(k)
      BY <1>4 DEF Promise!Count, PaidFor, Recorded
    <2>2. QED
      BY <2>1 DEF Promise!Next
  <1>5. CASE /\ balance + Amount <= Amount * Cardinality(Recorded)
             /\ balance' = balance + Amount
             /\ UNCHANGED <<PaidFor, Recorded, counted>>
    <2>1. Promise!Book
      BY <1>5, SameCardinality DEF Promise!Book, PaidFor, Recorded
    <2>2. QED
      BY <2>1 DEF Promise!Next
  <1>6. QED
    BY <1>1, <1>2, <1>3, <1>4, <1>5

LEMMA PromiseNext ==
    ASSUME TypeOK, MoneyInv, CountInv, [Next]_vars, TypeOK', BookInv'
    PROVE  [Promise!Next]_(Promise!vars)
  <1>1. ASSUME NEW h \in Handlers,
               \/ InitiateCreate(h) \/ InitiateFailed(h) \/ PollCheck(h)
               \/ WriteSuccess(h) \/ WriteFailure(h)
        PROVE  UNCHANGED <<PaidFor, Recorded, counted, balance>>
    BY <1>1 DEF InitiateCreate, InitiateFailed, PollCheck, WriteSuccess, WriteFailure, db,
                campay, PaidFor, Recorded
  <1>2. ASSUME NEW h \in Handlers, InitiateCollect(h)
        PROVE  UNCHANGED <<PaidFor, Recorded, counted, balance>>
    BY <1>2 DEF InitiateCollect, db, PaidFor, Recorded
  <1>3. ASSUME NEW h \in Handlers, Record(h)
        PROVE  \/ UNCHANGED <<PaidFor, Recorded, counted, balance>>
               \/ \E k \in {j \in Keys : Backed(j)} :
                     Recorded' = Recorded \cup {k} /\ UNCHANGED <<PaidFor, counted, balance>>
    <2>1. handler[h].key \in Keys /\ Backed(handler[h].key)
      BY <1>3, BusyIsActive DEF Record, MoneyInv, Told
    <2>2. UNCHANGED <<PaidFor, counted, balance>>
      BY <1>3 DEF Record, PaidFor, campay
    <2>3. CASE UNCHANGED contribution
      BY <2>2, <2>3 DEF Recorded
    <2>4. CASE contribution' = [contribution EXCEPT ![handler[h].key] = "PENDING"]
      <3>1. Recorded' = Recorded \cup {handler[h].key}
        BY <2>1, <2>4 DEF Recorded, TypeOK
      <3>2. QED
        BY <2>1, <2>2, <3>1
    <2>5. QED
      BY <1>3, <2>3, <2>4 DEF Record
  <1>4. ASSUME NEW h \in Handlers, RelayContribution(h)
        PROVE  \/ UNCHANGED <<PaidFor, Recorded, counted, balance>>
               \/ \E k \in Recorded : /\ counted[k] = 0 /\ counted' = [counted EXCEPT ![k] = 1]
                                      /\ UNCHANGED <<PaidFor, Recorded, balance>>
    <2>1. handler[h].key \in Recorded /\ counted[handler[h].key] = 0
      BY <1>4, BusyIsActive DEF RelayContribution, CountInv, Creating, Recorded
    <2>2. UNCHANGED <<PaidFor, Recorded, balance>>
      BY <1>4 DEF RelayContribution, db, campay, PaidFor, Recorded
    <2>3. counted' \in {counted, [counted EXCEPT ![handler[h].key] = @ + 1]}
      BY <1>4 DEF RelayContribution
    <2>4. counted' \in {counted, [counted EXCEPT ![handler[h].key] = 1]}
      BY <2>1, <2>3
    <2>5. QED
      BY <2>1, <2>2, <2>4
  <1>5. ASSUME NEW h \in Handlers, Confirm(h)
        PROVE  \/ UNCHANGED <<PaidFor, Recorded, counted, balance>>
               \/ /\ balance + Amount <= Amount * Cardinality(Recorded)
                  /\ balance' = balance + Amount
                  /\ UNCHANGED <<PaidFor, Recorded, counted>>
    <2>1. handler[h].key \in Keys /\ contribution[handler[h].key] # "absent"
      BY <1>5, BusyIsActive DEF Confirm, CountInv, Creating
    <2>2. UNCHANGED <<PaidFor, counted>>
      BY <1>5 DEF Confirm, PaidFor, campay
    <2>3. CASE UNCHANGED <<contribution, balance>>
      BY <2>2, <2>3 DEF Recorded
    <2>4. CASE /\ balance' = balance + Amount
               /\ contribution' = [contribution EXCEPT ![handler[h].key] = "CONFIRMED"]
      <3>1. UNCHANGED Recorded
        BY <2>1, <2>4 DEF Recorded, TypeOK
      <3>2. IsFiniteSet(Recorded) /\ Cardinality(Recorded) \in Nat
        BY KeysAssumption, FS_Subset, FS_CardinalityType DEF Recorded
      <3>3. Settled' \subseteq Recorded
        BY <3>1 DEF Settled, Recorded
      <3>4. /\ Cardinality(Settled') \in Nat
            /\ Cardinality(Settled') <= Cardinality(Recorded)
        BY <3>2, <3>3, FS_Subset, FS_CardinalityType
      <3>5. Amount * Cardinality(Settled') <= Amount * Cardinality(Recorded)
        BY <3>2, <3>4, WorthGrows
      <3>6. balance + Amount <= Amount * Cardinality(Recorded)
        <4> DEFINE p == Amount * Cardinality(Settled')
                   q == Amount * Cardinality(Recorded)
        <4>1. p \in Nat /\ q \in Nat
          BY <3>2, <3>4, AmountAssumption
        <4>2. balance + Amount <= p
          BY <2>4 DEF BookInv
        <4>3. QED
          BY <3>5, <4>1, <4>2, AmountAssumption DEF TypeOK
      <3>7. QED
        BY <2>2, <2>4, <3>1, <3>6
    <2>5. QED
      BY <1>5, <2>3, <2>4 DEF Confirm
  <1>6. ASSUME NEW h \in Handlers, MarkFailed(h)
        PROVE  UNCHANGED <<PaidFor, Recorded, counted, balance>>
    <2>1. handler[h].key \in Keys /\ contribution[handler[h].key] # "absent"
      BY <1>6, BusyIsActive DEF MarkFailed, CountInv, Creating
    <2>2. QED
      BY <1>6, <2>1 DEF MarkFailed, PaidFor, Recorded, TypeOK, campay
  <1>7. ASSUME NEW h \in Handlers, NEW k \in Keys, Begin(h, k)
        PROVE  UNCHANGED <<PaidFor, Recorded, counted, balance>>
    BY <1>7 DEF Begin, InitiateBegin, HookBegin, PollBegin, ContributeDirectly, db, campay,
                PaidFor, Recorded
  <1>8. ASSUME NEW k \in Keys, Settle(k)
        PROVE  \/ UNCHANGED <<PaidFor, Recorded, counted, balance>>
               \/ \E j \in Keys : PaidFor' = PaidFor \cup {j}
                                  /\ UNCHANGED <<Recorded, counted, balance>>
    <2>1. UNCHANGED <<Recorded, counted, balance>>
      BY <1>8 DEF Settle, db, Recorded
    <2>2. PICK answer \in {"paid", "refused"} :
             answers' = [answers EXCEPT ![k] = @ \cup {answer}]
      BY <1>8 DEF Settle
    <2>3. CASE answer = "paid"
      <3>1. PaidFor' = PaidFor \cup {k}
        BY <2>2, <2>3 DEF PaidFor, TypeOK
      <3>2. QED
        BY <2>1, <3>1
    <2>4. CASE answer = "refused"
      <3>1. UNCHANGED PaidFor
        BY <2>2, <2>4 DEF PaidFor, TypeOK
      <3>2. QED
        BY <2>1, <3>1
    <2>5. QED
      BY <2>3, <2>4
  <1>9. ASSUME NEW k \in Keys, SyncContribution(k)
        PROVE  UNCHANGED <<PaidFor, Recorded, counted, balance>>
    BY <1>9 DEF SyncContribution, PaidFor, Recorded, TypeOK, campay
  <1>10. Restart \/ UNCHANGED vars => UNCHANGED <<PaidFor, Recorded, counted, balance>>
    BY DEF Restart, vars, db, campay, PaidFor, Recorded
  <1>11. QED
    BY <1>1, <1>2, <1>3, <1>4, <1>5, <1>6, <1>7, <1>8, <1>9, <1>10, PromiseMoves
    DEF Next, Step, PlainStep

(* All that webhooks, polls, failed and repeated initiations, repeated prompts, lost
   replies and restarts do comes down to the four things that happen to a
   contribution, each after the one before and none undone: collected (unless it is
   made directly, POST /contributions), recorded, counted once, booked. *)
THEOREM CollectionsAreImplemented == Spec => ImplementsCollections
  <1>1. TypeOK /\ MoneyInv /\ CountInv /\ TypeOK' /\ BookInv' /\ [Next]_vars
            => [Promise!Next]_(Promise!vars)
    BY PromiseNext
  <1>2. QED
    BY <1>1, PromiseInit, BookingsHold, PTL DEF Spec, ImplementsCollections, Promise!Spec

=============================================================================
