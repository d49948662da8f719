---------------------- MODULE VendorSubscriptionsProofs ----------------------
(* What holds of VendorSubscriptions for every value of the constants. *)
EXTENDS VendorSubscriptions, FiniteSetTheorems, TLAPS

-----------------------------------------------------------------------------
(* The requests in progress. *)

Handling == Initiation \cup Exchange \cup {Idle}

LEMMA HandlingCases ==
    ASSUME NEW request \in Handling
    PROVE  /\ request.pc \in {"waive", "reference", "grant", "subscribe"} => request \in Initiation
           /\ request.pc \in {"collect", "activate", "cancel", "register"} => request \in Exchange
  BY DEF Handling, Initiation, Exchange, Idle

LEMMA HandlerCases ==
    ASSUME TypeOK, NEW h \in Handlers
    PROVE  /\ handler[h] \in Handling
           /\ handler[h].pc \in {"waive", "reference", "grant", "subscribe"} =>
                 handler[h] \in Initiation
           /\ handler[h].pc \in {"collect", "activate", "cancel", "register"} =>
                 handler[h] \in Exchange
  <1>1. handler[h] \in Handling
    BY DEF TypeOK, Handling
  <1>2. QED
    BY <1>1, HandlingCases

LEMMA GotoType ==
    ASSUME TypeOK, NEW h \in Handlers, NEW next \in Handling, Goto(h, next)
    PROVE  /\ handler' \in [Handlers -> Handling]
           /\ handler'[h] = next
           /\ \A g \in Handlers \ {h} : handler'[g] = handler[g]
  BY DEF TypeOK, Goto, Handling

LEMMA DoneType ==
    ASSUME TypeOK, NEW h \in Handlers, Done(h)
    PROVE  /\ handler' \in [Handlers -> Handling]
           /\ handler'[h] = Idle
           /\ \A g \in Handlers \ {h} : handler'[g] = handler[g]
  BY GotoType DEF Done, Handling

LEMMA TimeType == Time \subseteq Nat
  BY BoundsAssumption DEF Time

-----------------------------------------------------------------------------
(* What a request has read or written and relies on. *)
Holds(request) ==
    /\ request.pc \in {"waive", "reference"} => model[request.vendor] = "ONE_TIME"
    /\ request.pc \in {"grant", "subscribe"} =>
          model[request.vendor] = "SUBSCRIPTION" /\ request.cycle \in Cycles
    /\ request.pc \in {"collect", "activate", "cancel", "register"} =>
          payer[request.ref] = request.vendor
    /\ request.pc = "collect" => prompts[request.ref] = 0
    /\ request.pc \in {"activate", "register"} => "paid" \in answers[request.ref]
    /\ request.pc = "cancel" => "refused" \in answers[request.ref]
    /\ request.pc \in {"activate", "cancel"} => record[request.ref] # None
    /\ request.pc = "register" => record[request.ref] = None

(* One request asks CamPay under a reference. *)
Collects(request, r) == request.pc = "collect" /\ request.ref = r

HandlerInv ==
    /\ \A h \in Handlers : Holds(handler[h])
    /\ \A r \in Refs : \A g, h \in Handlers :
          Collects(handler[g], r) /\ Collects(handler[h], r) => g = h

(* A record is of a subscriber; one that is or was active is free or paid. *)
RecordInv ==
    \A r \in Refs : record[r] # None =>
        /\ model[record[r].vendor] = "SUBSCRIPTION"
        /\ record[r].free => payer[r] = None /\ record[r].vendor \in waived
        /\ ~record[r].free => payer[r] = record[r].vendor
        /\ record[r].status \in {"ACTIVE", "EXPIRED"} => record[r].free \/ "paid" \in answers[r]

(* What was active is paid, when it is not free, and stays so when it is cancelled. *)
Reversed(r) == record[r].status = "CANCELLED" /\ "paid" \in answers[r]

(* Any other reference is of a registration. *)
RefInv ==
    \A r \in Refs :
        /\ payer[r] = None => prompts[r] = 0
        /\ prompts[r] = 0 => answers[r] = {}
        /\ payer[r] # None /\ record[r] = None => model[payer[r]] = "ONE_TIME"
        /\ r \in todo => /\ record[r] # None
                         /\ record[r].status \in {"ACTIVE", "EXPIRED"} \/ Reversed(r)

VendorInv ==
    \A v \in Vendors :
        /\ status[v] = "absent" <=> model[v] = None
        /\ registrationRef[v] # None =>
              payer[registrationRef[v]] = v /\ record[registrationRef[v]] = None

IInv == TypeOK /\ HandlerInv /\ RecordInv /\ RefInv /\ VendorInv

LEMMA InitInv == Init => IInv
  <1> SUFFICES ASSUME Init PROVE IInv
    OBVIOUS
  <1>1. TypeOK
    BY BoundsAssumption DEF Init, TypeOK, Statuses, Time
  <1>2. HandlerInv
    BY DEF Init, HandlerInv, Holds, Collects, Idle
  <1>3. RecordInv /\ RefInv /\ VendorInv
    BY DEF Init, RecordInv, RefInv, VendorInv
  <1>4. QED
    BY <1>1, <1>2, <1>3 DEF IInv

-----------------------------------------------------------------------------
(* What each action does to where the requests are. *)

LEMMA NewRecordType ==
    ASSUME TypeOK, NEW h \in Handlers, handler[h].pc \in {"grant", "subscribe"},
           Holds(handler[h]), NEW state \in {"PENDING", "ACTIVE"}, NEW expiry \in Nat
    PROVE  \E s \in Record :
              /\ s = NewRecord(h, state, expiry)
              /\ s.vendor = handler[h].vendor /\ s.status = state /\ s.expiresAt = expiry
              /\ state = "ACTIVE" => s.free
              /\ state = "PENDING" => ~s.free
  <1>1. PICK v \in Vendors : v = handler[h].vendor
    BY HandlerCases DEF Initiation
  <1>2. PICK cycle \in Cycles : cycle = handler[h].cycle
    BY DEF Holds
  <1>3. PICK free \in BOOLEAN : free = (state = "ACTIVE")
    OBVIOUS
  <1> DEFINE s == [vendor |-> v, cycle |-> cycle, free |-> free, expiresAt |-> expiry,
                   status |-> state]
  <1>4. s = NewRecord(h, state, expiry)
    BY <1>1, <1>2, <1>3 DEF NewRecord
  <1>5. s \in Record /\ s.vendor = v /\ s.status = state /\ s.expiresAt = expiry /\ s.free = free
    BY DEF Record
  <1> HIDE DEF s
  <1>6. QED
    BY <1>1, <1>3, <1>4, <1>5

-----------------------------------------------------------------------------
(* What no step takes back: the model of a vendor, whom CamPay asks under a
   reference, what was paid or refused, and whose a record is. *)
Kept ==
    /\ \A v \in Vendors : model[v] # None => model'[v] = model[v]
    /\ waived \subseteq waived'
    /\ \A r \in Refs : payer[r] # None => payer'[r] = payer[r]
    /\ \A r \in Refs : payer[r] # None => (record'[r] = None) = (record[r] = None)
    /\ \A r \in Refs : answers[r] \subseteq answers'[r]

KeptRecord(s, next) == next.vendor = s.vendor /\ next.free = s.free

(* The three changes of a record that is there. *)
LEMMA ChangedRecord ==
    ASSUME NEW s \in Record, NEW state \in {"ACTIVE", "CANCELLED", "EXPIRED"}, NEW expiry \in Nat
    PROVE  /\ [s EXCEPT !.status = state] \in Record
           /\ [s EXCEPT !.status = state].status = state
           /\ [s EXCEPT !.status = state].expiresAt = s.expiresAt
           /\ KeptRecord(s, [s EXCEPT !.status = state])
           /\ [s EXCEPT !.status = state, !.expiresAt = expiry] \in Record
           /\ [s EXCEPT !.status = state, !.expiresAt = expiry].status = state
           /\ KeptRecord(s, [s EXCEPT !.status = state, !.expiresAt = expiry])
  BY DEF Record, KeptRecord

LEMMA ActivateEffect ==
    ASSUME IInv, NEW h \in Handlers, Activate(h)
    PROVE  \E r \in Refs, v \in Vendors, next \in Record :
              /\ handler[h].ref = r /\ handler[h].pc = "activate"
              /\ payer[r] = v /\ "paid" \in answers[r]
              /\ record[r] \in Record /\ record[r].vendor = v /\ ~record[r].free
              /\ model[v] = "SUBSCRIPTION"
              /\ next.status = "ACTIVE" /\ KeptRecord(record[r], next)
              /\ record' = [record EXCEPT ![r] = next]
              /\ status' = [status EXCEPT ![v] = "ACTIVE"]
              /\ Done(h)
              /\ UNCHANGED <<model, registrationRef, waived, campay, now, todo>>
  <1>1. handler[h] \in Exchange /\ Holds(handler[h]) /\ handler[h].pc = "activate"
    BY HandlerCases DEF IInv, HandlerInv, Activate
  <1>2. PICK r \in Refs, v \in Vendors : r = handler[h].ref /\ v = handler[h].vendor
    BY <1>1 DEF Exchange
  <1>3. payer[r] = v /\ "paid" \in answers[r] /\ record[r] # None
    BY <1>1, <1>2 DEF Holds
  <1>4. record[r] \in Record
    BY <1>3 DEF IInv, TypeOK
  <1>5. ~record[r].free /\ record[r].vendor = v /\ model[v] = "SUBSCRIPTION"
    BY <1>3, NoneAssumption DEF IInv, RecordInv
  <1>6. PICK expiry \in Nat : expiry = handler[h].since + record[r].cycle
    <2>1. handler[h].since \in Nat /\ record[r].cycle \in Nat
      BY <1>1, <1>4, TimeType, CyclesAssumption DEF Exchange, Record
    <2>2. QED
      BY <2>1
  <1>7. record' = [record EXCEPT ![r] =
                     [record[r] EXCEPT !.status = "ACTIVE", !.expiresAt = expiry]]
    BY <1>2, <1>6 DEF Activate, IInv, TypeOK
  <1>8. PICK next \in Record : /\ next = [record[r] EXCEPT !.status = "ACTIVE", !.expiresAt = expiry]
                               /\ next.status = "ACTIVE" /\ KeptRecord(record[r], next)
    BY <1>4, ChangedRecord
  <1>9. status' = [status EXCEPT ![v] = "ACTIVE"]
    BY <1>2 DEF Activate
  <1>10. QED
    BY <1>1, <1>2, <1>3, <1>4, <1>5, <1>7, <1>8, <1>9 DEF Activate

LEMMA CancelEffect ==
    ASSUME IInv, NEW h \in Handlers, Cancel(h)
    PROVE  \E r \in Refs, next \in Record :
              /\ handler[h].ref = r /\ handler[h].pc = "cancel"
              /\ payer[r] # None /\ "refused" \in answers[r]
              /\ record[r] \in Record /\ ~record[r].free
              /\ next.status = "CANCELLED" /\ KeptRecord(record[r], next)
              /\ record' = [record EXCEPT ![r] = next]
              /\ Done(h)
              /\ UNCHANGED <<account, campay, now, todo>>
  <1>1. handler[h] \in Exchange /\ Holds(handler[h]) /\ handler[h].pc = "cancel"
    BY HandlerCases DEF IInv, HandlerInv, Cancel
  <1>2. PICK r \in Refs, v \in Vendors : r = handler[h].ref /\ v = handler[h].vendor
    BY <1>1 DEF Exchange
  <1>3. payer[r] = v /\ "refused" \in answers[r] /\ record[r] # None
    BY <1>1, <1>2 DEF Holds
  <1>4. record[r] \in Record
    BY <1>3 DEF IInv, TypeOK
  <1>5. payer[r] # None
    BY <1>3, NoneAssumption
  <1>6. ~record[r].free
    BY <1>3, <1>5 DEF IInv, RecordInv
  <1>7. record' = [record EXCEPT ![r] = [record[r] EXCEPT !.status = "CANCELLED"]]
    BY <1>2 DEF Cancel, IInv, TypeOK
  <1>8. PICK next \in Record : /\ next = [record[r] EXCEPT !.status = "CANCELLED"]
                               /\ next.status = "CANCELLED" /\ KeptRecord(record[r], next)
    BY <1>4, ChangedRecord
  <1>9. QED
    BY <1>1, <1>2, <1>3, <1>4, <1>5, <1>6, <1>7, <1>8 DEF Cancel

LEMMA ExpireEffect ==
    ASSUME IInv, NEW r \in Refs, ExpireOne(r)
    PROVE  \E v \in Vendors, next \in Record :
              /\ r \in todo /\ todo' \subseteq todo
              /\ record[r] \in Record /\ record[r].vendor = v
              /\ model[v] = "SUBSCRIPTION"
              /\ next.status = "EXPIRED" /\ next.expiresAt = record[r].expiresAt
              /\ KeptRecord(record[r], next)
              /\ record' = [record EXCEPT ![r] = next]
              /\ status' = [status EXCEPT ![v] = "SUBSCRIPTION_EXPIRED"]
              /\ UNCHANGED <<model, registrationRef, waived, campay, now, handler>>
  <1>1. r \in todo /\ record[r] # None
    BY DEF ExpireOne, IInv, RefInv
  <1>2. record[r] \in Record
    BY <1>1 DEF IInv, TypeOK
  <1>3. PICK v \in Vendors : v = record[r].vendor
    BY <1>2 DEF Record
  <1>4. model[v] = "SUBSCRIPTION"
    BY <1>1, <1>3 DEF IInv, RecordInv
  <1>5. record' = [record EXCEPT ![r] = [record[r] EXCEPT !.status = "EXPIRED"]]
    BY DEF ExpireOne, IInv, TypeOK
  <1>6. PICK next \in Record : /\ next = [record[r] EXCEPT !.status = "EXPIRED"]
                               /\ next.status = "EXPIRED" /\ KeptRecord(record[r], next)
                               /\ next.expiresAt = record[r].expiresAt
    <2>1. 0 \in Nat
      OBVIOUS
    <2>2. QED
      BY <1>2, <2>1, ChangedRecord
  <1>7. status' = [status EXCEPT ![v] = "SUBSCRIPTION_EXPIRED"] /\ todo' \subseteq todo
    BY <1>3 DEF ExpireOne
  <1>8. QED
    BY <1>1, <1>2, <1>3, <1>4, <1>5, <1>6, <1>7 DEF ExpireOne

LEMMA InitiateEffect ==
    ASSUME IInv, NEW h \in Handlers,
           \/ \E v \in Vendors : InitiateRegistration(h, v)
           \/ \E v \in Vendors, cycle \in Cycles : InitiateSubscription(h, v, cycle)
    PROVE  \E next \in Initiation :
              /\ Holds(next) /\ Goto(h, next)
              /\ UNCHANGED <<account, record, campay, now, todo>>
  <1>1. ASSUME NEW v \in Vendors, InitiateRegistration(h, v)
        PROVE  \E next \in Initiation : Holds(next) /\ Goto(h, next)
    <2>1. PICK point \in {"waive", "reference"} :
             Goto(h, [pc |-> point, vendor |-> v, cycle |-> None, since |-> now])
      BY <1>1 DEF InitiateRegistration
    <2> DEFINE next == [pc |-> point, vendor |-> v, cycle |-> None, since |-> now]
    <2>2. next \in Initiation /\ next.pc = point /\ next.vendor = v
      BY DEF Initiation, IInv, TypeOK
    <2>3. model[v] = "ONE_TIME" /\ Goto(h, next)
      BY <1>1, <2>1 DEF InitiateRegistration
    <2> HIDE DEF next
    <2>4. QED
      BY <2>2, <2>3 DEF Holds
  <1>2. ASSUME NEW v \in Vendors, NEW cycle \in Cycles, InitiateSubscription(h, v, cycle)
        PROVE  \E next \in Initiation : Holds(next) /\ Goto(h, next)
    <2>1. PICK point \in {"grant", "subscribe"} :
             Goto(h, [pc |-> point, vendor |-> v, cycle |-> cycle, since |-> now])
      BY <1>2 DEF InitiateSubscription
    <2> DEFINE next == [pc |-> point, vendor |-> v, cycle |-> cycle, since |-> now]
    <2>2. next \in Initiation /\ next.pc = point /\ next.vendor = v /\ next.cycle = cycle
      BY DEF Initiation, IInv, TypeOK
    <2>3. model[v] = "SUBSCRIPTION" /\ Goto(h, next)
      BY <1>2, <2>1 DEF InitiateSubscription
    <2> HIDE DEF next
    <2>4. QED
      BY <2>2, <2>3 DEF Holds
  <1>3. UNCHANGED <<account, record, campay, now, todo>>
    BY DEF InitiateRegistration, InitiateSubscription
  <1>4. QED
    BY <1>1, <1>2, <1>3

LEMMA WaiveEffect ==
    ASSUME IInv, NEW h \in Handlers, Waive(h)
    PROVE  \E v \in Vendors :
              /\ model[v] = "ONE_TIME"
              /\ status' = [status EXCEPT ![v] = "ACTIVE"]
              /\ registrationRef' = [registrationRef EXCEPT ![v] = None]
              /\ waived' = waived \cup {v}
              /\ Done(h)
              /\ UNCHANGED <<model, record, campay, now, todo>>
  <1>1. handler[h] \in Initiation /\ Holds(handler[h]) /\ handler[h].pc = "waive"
    BY HandlerCases DEF IInv, HandlerInv, Waive
  <1>2. PICK v \in Vendors : v = handler[h].vendor
    BY <1>1 DEF Initiation
  <1>3. model[v] = "ONE_TIME"
    BY <1>1, <1>2 DEF Holds
  <1>4. QED
    BY <1>2, <1>3 DEF Waive

LEMMA RegisterEffect ==
    ASSUME IInv, NEW h \in Handlers, Register(h)
    PROVE  \E v \in Vendors, r \in Refs :
              /\ handler[h].pc = "register" /\ handler[h].ref = r
              /\ payer[r] = v /\ "paid" \in answers[r] /\ record[r] = None
              /\ model[v] = "ONE_TIME"
              /\ status' = [status EXCEPT ![v] = "ACTIVE"]
              /\ registrationRef' = [registrationRef EXCEPT ![v] = None]
              /\ Done(h)
              /\ UNCHANGED <<model, record, waived, campay, now, todo>>
  <1>1. handler[h] \in Exchange /\ Holds(handler[h]) /\ handler[h].pc = "register"
    BY HandlerCases DEF IInv, HandlerInv, Register
  <1>2. PICK v \in Vendors, r \in Refs : v = handler[h].vendor /\ r = handler[h].ref
    BY <1>1 DEF Exchange
  <1>3. payer[r] = v /\ "paid" \in answers[r] /\ record[r] = None
    BY <1>1, <1>2 DEF Holds
  <1>4. model[v] = "ONE_TIME"
    BY <1>3, NoneAssumption DEF IInv, RefInv
  <1>5. QED
    BY <1>1, <1>2, <1>3, <1>4 DEF Register

(* A reference that was not used is asked under by the request that takes it. *)
Asking(next, r) ==
    /\ next \in Exchange
    /\ next.pc = "collect" /\ next.ref = r

LEMMA StoreReferenceEffect ==
    ASSUME IInv, NEW h \in Handlers, StoreReference(h)
    PROVE  \E v \in Vendors, r \in Refs, next \in Exchange :
              /\ model[v] = "ONE_TIME" /\ Unused(r)
              /\ registrationRef' = [registrationRef EXCEPT ![v] = r]
              /\ payer' = [payer EXCEPT ![r] = v]
              /\ Asking(next, r) /\ next.vendor = v /\ Goto(h, next)
              /\ UNCHANGED <<status, model, record, waived, prompts, answers, deliveries, now, todo>>
  <1>1. handler[h] \in Initiation /\ Holds(handler[h]) /\ handler[h].pc = "reference"
    BY HandlerCases DEF IInv, HandlerInv, StoreReference
  <1>2. PICK v \in Vendors, since \in Time : v = handler[h].vendor /\ since = handler[h].since
    BY <1>1 DEF Initiation
  <1>3. model[v] = "ONE_TIME"
    BY <1>1, <1>2 DEF Holds
  <1>4. PICK r \in Refs :
            /\ Unused(r)
            /\ registrationRef' = [registrationRef EXCEPT ![v] = r]
            /\ payer' = [payer EXCEPT ![r] = v]
            /\ Goto(h, [pc |-> "collect", vendor |-> v, ref |-> r, since |-> since])
    BY <1>2 DEF StoreReference
  <1>5. PICK next \in Exchange : /\ next = [pc |-> "collect", vendor |-> v, ref |-> r, since |-> since]
                                 /\ Asking(next, r) /\ next.vendor = v
    <2>1. [pc |-> "collect", vendor |-> v, ref |-> r, since |-> since] \in Exchange
      BY DEF Exchange
    <2>2. QED
      BY <2>1 DEF Asking
  <1>6. QED
    BY <1>3, <1>4, <1>5 DEF StoreReference

LEMMA SubscribeEffect ==
    ASSUME IInv, NEW h \in Handlers, Subscribe(h)
    PROVE  \E v \in Vendors, r \in Refs, s \in Record, next \in Exchange :
              /\ model[v] = "SUBSCRIPTION" /\ Unused(r)
              /\ s.vendor = v /\ s.status = "PENDING" /\ ~s.free
              /\ record' = [record EXCEPT ![r] = s]
              /\ payer' = [payer EXCEPT ![r] = v]
              /\ Asking(next, r) /\ next.vendor = v /\ Goto(h, next)
              /\ UNCHANGED <<account, prompts, answers, deliveries, now, todo>>
  <1>1. handler[h] \in Initiation /\ Holds(handler[h]) /\ handler[h].pc = "subscribe"
    BY HandlerCases DEF IInv, HandlerInv, Subscribe
  <1>2. PICK v \in Vendors, since \in Time : v = handler[h].vendor /\ since = handler[h].since
    BY <1>1 DEF Initiation
  <1>3. model[v] = "SUBSCRIPTION"
    BY <1>1, <1>2 DEF Holds
  <1>4. PICK r \in Refs :
            /\ Unused(r)
            /\ record' = [record EXCEPT ![r] = NewRecord(h, "PENDING", 0)]
            /\ payer' = [payer EXCEPT ![r] = v]
            /\ Goto(h, [pc |-> "collect", vendor |-> v, ref |-> r, since |-> since])
    BY <1>2 DEF Subscribe
  <1>5. PICK next \in Exchange : /\ next = [pc |-> "collect", vendor |-> v, ref |-> r, since |-> since]
                                 /\ Asking(next, r) /\ next.vendor = v
    <2>1. [pc |-> "collect", vendor |-> v, ref |-> r, since |-> since] \in Exchange
      BY DEF Exchange
    <2>2. QED
      BY <2>1 DEF Asking
  <1>6. PICK s \in Record : /\ s = NewRecord(h, "PENDING", 0)
                            /\ s.vendor = v /\ s.status = "PENDING" /\ ~s.free
    <2>1. 0 \in Nat
      OBVIOUS
    <2>2. TypeOK /\ handler[h].pc \in {"grant", "subscribe"} /\ "PENDING" \in {"PENDING", "ACTIVE"}
      BY <1>1 DEF IInv
    <2>3. QED
      BY <1>1, <1>2, <2>1, <2>2, NewRecordType
  <1>7. QED
    BY <1>3, <1>4, <1>5, <1>6 DEF Subscribe

LEMMA GrantEffect ==
    ASSUME IInv, NEW h \in Handlers, Grant(h)
    PROVE  \E v \in Vendors, r \in Refs, s \in Record :
              /\ model[v] = "SUBSCRIPTION" /\ Unused(r)
              /\ s.vendor = v /\ s.status = "ACTIVE" /\ s.free
              /\ record' = [record EXCEPT ![r] = s]
              /\ status' = [status EXCEPT ![v] = "ACTIVE"]
              /\ waived' = waived \cup {v}
              /\ Done(h)
              /\ UNCHANGED <<model, registrationRef, campay, now, todo>>
  <1>1. handler[h] \in Initiation /\ Holds(handler[h]) /\ handler[h].pc = "grant"
    BY HandlerCases DEF IInv, HandlerInv, Grant
  <1>2. PICK v \in Vendors : v = handler[h].vendor
    BY <1>1 DEF Initiation
  <1>3. model[v] = "SUBSCRIPTION" /\ handler[h].cycle \in Cycles
    BY <1>1, <1>2 DEF Holds
  <1>4. PICK expiry \in Nat : expiry = handler[h].since + handler[h].cycle
    <2>1. handler[h].since \in Nat /\ handler[h].cycle \in Nat
      BY <1>1, <1>3, TimeType, CyclesAssumption DEF Initiation
    <2>2. QED
      BY <2>1
  <1>5. PICK r \in Refs :
            /\ Unused(r)
            /\ record' = [record EXCEPT ![r] = NewRecord(h, "ACTIVE", expiry)]
    BY <1>4 DEF Grant
  <1>6. PICK s \in Record : /\ s = NewRecord(h, "ACTIVE", expiry)
                            /\ s.vendor = v /\ s.status = "ACTIVE" /\ s.free
    <2>1. TypeOK /\ handler[h].pc \in {"grant", "subscribe"} /\ "ACTIVE" \in {"PENDING", "ACTIVE"}
      BY <1>1 DEF IInv
    <2>2. QED
      BY <1>1, <1>2, <2>1, NewRecordType
  <1>7. QED
    BY <1>2, <1>3, <1>5, <1>6 DEF Grant

LEMMA CollectEffect ==
    ASSUME IInv, NEW h \in Handlers, Collect(h)
    PROVE  \E r \in Refs, asked \in Nat :
              /\ Collects(handler[h], r) /\ payer[r] # None /\ prompts[r] = 0
              /\ prompts' = [prompts EXCEPT ![r] = asked]
              /\ Done(h)
              /\ UNCHANGED <<account, record, payer, answers, deliveries, now, todo>>
  <1>1. handler[h] \in Exchange /\ Holds(handler[h]) /\ handler[h].pc = "collect"
    BY HandlerCases DEF IInv, HandlerInv, Collect
  <1>2. PICK r \in Refs, v \in Vendors : r = handler[h].ref /\ v = handler[h].vendor
    BY <1>1 DEF Exchange
  <1>3. payer[r] # None /\ prompts[r] = 0
    BY <1>1, <1>2, NoneAssumption DEF Holds
  <1>4. 0..Attempts \subseteq Nat
    BY BoundsAssumption
  <1>5. QED
    BY <1>1, <1>2, <1>3, <1>4 DEF Collect, Collects

(* A webhook leads to an exchange for which its reference is as it says. *)
LEMMA HookEffect ==
    ASSUME IInv, NEW h \in Handlers, NEW r \in Refs,
           NEW said \in {"SUCCESSFUL", "FAILED", "PENDING"}, HookRead(h, r, said)
    PROVE  /\ handler[h] = Idle
           /\ payer[r] # None
           /\ deliveries' = [deliveries EXCEPT ![r] = @ + 1]
           /\ \E next \in Exchange : /\ Goto(h, next) /\ Holds(next) /\ next.ref = r
                                     /\ next.pc \in {"activate", "cancel", "register"}
           /\ UNCHANGED <<account, record, payer, prompts, answers, now, todo>>
  <1>1. answers[r] # {} \/ prompts[r] # 0
    <2>1. "paid" \in answers[r] \/ "refused" \in answers[r] \/ prompts[r] > 0
      BY DEF HookRead, Reports
    <2>2. prompts[r] \in Nat
      BY DEF IInv, TypeOK
    <2>3. prompts[r] > 0 => prompts[r] # 0
      BY <2>2
    <2>4. QED
      BY <2>1, <2>3
  <1>2. payer[r] # None
    BY <1>1 DEF IInv, RefInv
  <1>3. payer[r] \in Vendors /\ now \in Time
    BY <1>2 DEF IInv, TypeOK
  <1>4. \E point \in {OfSubscription(r, said), OfRegistration(r, said)} \ {"none"} :
           Goto(h, [pc |-> point, vendor |-> payer[r], ref |-> r, since |-> now])
    BY DEF HookRead
  <1>5. ASSUME NEW point \in {OfSubscription(r, said), OfRegistration(r, said)} \ {"none"},
               Goto(h, [pc |-> point, vendor |-> payer[r], ref |-> r, since |-> now])
        PROVE  \E next \in Exchange : /\ Goto(h, next) /\ Holds(next) /\ next.ref = r
                                      /\ next.pc \in {"activate", "cancel", "register"}
    <2>1. \/ point = "activate" /\ record[r] # None /\ said = "SUCCESSFUL"
          \/ point = "cancel" /\ record[r] # None /\ said = "FAILED"
          \/ point = "register" /\ record[r] = None /\ said = "SUCCESSFUL"
      BY DEF OfSubscription, OfRegistration
    <2>2. \/ point \in {"activate", "register"} /\ "paid" \in answers[r]
          \/ point = "cancel" /\ "refused" \in answers[r]
      BY <2>1 DEF HookRead, Reports
    <2>3. PICK v \in Vendors, since \in Time : v = payer[r] /\ since = now
      BY <1>3
    <2> DEFINE next == [pc |-> point, vendor |-> v, ref |-> r, since |-> since]
    <2>4. /\ next \in Exchange /\ next.pc = point /\ next.vendor = v /\ next.ref = r
          /\ point \in {"activate", "cancel", "register"}
      BY <2>1 DEF Exchange
    <2>5. Goto(h, next)
      BY <1>5, <2>3
    <2> HIDE DEF next
    <2>6. Holds(next)
      BY <2>1, <2>2, <2>3, <2>4 DEF Holds
    <2>7. QED
      BY <2>4, <2>5, <2>6
  <1>6. QED
    BY <1>1, <1>2, <1>4, <1>5 DEF HookRead

-----------------------------------------------------------------------------
(* What one step can do: to a record, ... *)
RecordStep(r) ==
    \/ record'[r] = record[r]
    \/ /\ Unused(r)
       /\ record'[r] \in Record /\ model[record'[r].vendor] = "SUBSCRIPTION"
       /\ \/ /\ record'[r].status = "ACTIVE" /\ record'[r].free
             /\ payer'[r] = None /\ record'[r].vendor \in waived'
             /\ status'[record'[r].vendor] = "ACTIVE"
          \/ /\ record'[r].status = "PENDING" /\ ~record'[r].free
             /\ payer'[r] = record'[r].vendor
    \/ /\ record[r] \in Record /\ record'[r] \in Record /\ KeptRecord(record[r], record'[r])
       /\ \/ /\ record'[r].status = "ACTIVE"
             /\ ~record[r].free /\ "paid" \in answers[r]
             /\ status'[record[r].vendor] = "ACTIVE"
          \/ /\ record'[r].status = "CANCELLED"
             /\ ~record[r].free /\ "refused" \in answers[r]
          \/ /\ record'[r].status = "EXPIRED" /\ r \in todo
             /\ record'[r].expiresAt = record[r].expiresAt
             /\ status'[record[r].vendor] = "SUBSCRIPTION_EXPIRED"

(* ... to whom CamPay asks under a reference, ... *)
PayerStep(r) ==
    \/ payer'[r] = payer[r]
    \/ /\ Unused(r) /\ prompts'[r] = prompts[r] /\ payer'[r] \in Vendors
       /\ record'[r] = None =>
             model[payer'[r]] = "ONE_TIME" /\ registrationRef'[payer'[r]] = r

(* ... to what CamPay did about it, ... *)
CollectionStep(r) ==
    \/ prompts'[r] = prompts[r] /\ answers'[r] = answers[r]
    \/ /\ payer[r] # None /\ prompts[r] # 0
       /\ prompts'[r] = prompts[r] /\ answers[r] \subseteq answers'[r]
    \/ /\ payer[r] # None /\ prompts[r] = 0 /\ answers'[r] = answers[r]
       /\ \E h \in Handlers : Collects(handler[h], r) /\ handler'[h] = Idle

(* ... to the nightly task, ... *)
TodoStep(r) == r \in todo' => r \in todo \/ (Overdue(r) /\ UNCHANGED <<record, now, deliveries>>)

(* ... to a vendor ... *)
StatusStep(v) ==
    \/ status'[v] = status[v] /\ model'[v] = model[v]
    \/ status[v] = "absent" /\ status'[v] = "PENDING_PAYMENT" /\ model'[v] \in Models
    \/ /\ model[v] = "ONE_TIME" /\ model'[v] = model[v] /\ status'[v] = "ACTIVE"
       /\ v \in waived' \/ \E r \in Refs : payer[r] = v /\ "paid" \in answers[r]
    \/ /\ model[v] = "SUBSCRIPTION" /\ model'[v] = model[v]
       /\ \E r \in Refs :
             /\ record'[r] # None /\ record'[r].vendor = v
             /\ \/ /\ status'[v] = "ACTIVE" /\ record'[r].status = "ACTIVE"
                   /\ v \in waived' \/ (payer[r] = v /\ "paid" \in answers[r])
                \/ /\ status'[v] = "SUBSCRIPTION_EXPIRED" /\ record'[r].status = "EXPIRED"
                   /\ r \in todo

(* ... and to the reference of its registration. *)
ReferenceStep(v) ==
    \/ registrationRef'[v] = registrationRef[v]
    \/ registrationRef'[v] = None /\ model[v] = "ONE_TIME" /\ status'[v] = "ACTIVE"
    \/ \E r \in Refs : /\ registrationRef'[v] = r /\ Unused(r) /\ record'[r] = None
                       /\ payer'[r] = v /\ model[v] = "ONE_TIME"

Steps ==
    /\ \A r \in Refs : RecordStep(r) /\ PayerStep(r) /\ CollectionStep(r) /\ TodoStep(r)
    /\ \A v \in Vendors : StatusStep(v) /\ ReferenceStep(v)
    /\ waived \subseteq waived'
    /\ now' \in Time /\ now <= now'

(* A step that leaves all these alone. *)
LEMMA IdleSteps ==
    ASSUME IInv, UNCHANGED <<account, record, payer, prompts, answers, now>>, todo' \subseteq todo
    PROVE  Steps
  <1>1. now' \in Time /\ now <= now'
    BY TimeType DEF IInv, TypeOK
  <1>2. QED
    BY <1>1 DEF Steps, RecordStep, PayerStep, CollectionStep, TodoStep, StatusStep,
                ReferenceStep, account

LEMMA NextSteps == IInv /\ [Next]_vars => Steps
  <1> SUFFICES ASSUME IInv, [Next]_vars PROVE Steps
    OBVIOUS
  <1>t. TypeOK /\ (UNCHANGED now => now' \in Time /\ now <= now')
    BY TimeType DEF IInv, TypeOK
  <1>1. ASSUME NEW v \in Vendors, RegisterVendor(v) PROVE Steps
    <2>1. PICK m \in Models :
             /\ status[v] = "absent"
             /\ status' = [status EXCEPT ![v] = "PENDING_PAYMENT"]
             /\ model' = [model EXCEPT ![v] = m]
      BY <1>1 DEF RegisterVendor
    <2>2. UNCHANGED <<registrationRef, record, waived, payer, prompts, answers, deliveries, now, todo>>
      BY <1>1 DEF RegisterVendor, campay
    <2>3. \A r \in Refs : RecordStep(r) /\ PayerStep(r) /\ CollectionStep(r) /\ TodoStep(r)
      BY <2>2 DEF RecordStep, PayerStep, CollectionStep, TodoStep
    <2>4. \A u \in Vendors : StatusStep(u) /\ ReferenceStep(u)
      BY <1>t, <2>1, <2>2 DEF StatusStep, ReferenceStep, TypeOK
    <2>5. QED
      BY <1>t, <2>2, <2>3, <2>4 DEF Steps
  <1>2. ASSUME NEW h \in Handlers, Waive(h) PROVE Steps
    <2>1. PICK v \in Vendors :
              /\ model[v] = "ONE_TIME"
              /\ status' = [status EXCEPT ![v] = "ACTIVE"]
              /\ registrationRef' = [registrationRef EXCEPT ![v] = None]
              /\ waived' = waived \cup {v}
              /\ UNCHANGED <<model, record, payer, prompts, answers, deliveries, now, todo>>
      BY <1>2, WaiveEffect DEF campay
    <2>2. \A r \in Refs : RecordStep(r) /\ PayerStep(r) /\ CollectionStep(r) /\ TodoStep(r)
      BY <2>1 DEF RecordStep, PayerStep, CollectionStep, TodoStep
    <2>3. \A u \in Vendors : StatusStep(u) /\ ReferenceStep(u)
      BY <1>t, <2>1 DEF StatusStep, ReferenceStep, TypeOK
    <2>4. QED
      BY <1>t, <2>1, <2>2, <2>3 DEF Steps
  <1>3. ASSUME NEW h \in Handlers, Register(h) PROVE Steps
    <2>1. PICK v \in Vendors, q \in Refs :
              /\ payer[q] = v /\ "paid" \in answers[q] /\ model[v] = "ONE_TIME"
              /\ status' = [status EXCEPT ![v] = "ACTIVE"]
              /\ registrationRef' = [registrationRef EXCEPT ![v] = None]
              /\ UNCHANGED <<model, record, waived, payer, prompts, answers, deliveries, now, todo>>
      BY <1>3, RegisterEffect DEF campay
    <2>2. \A r \in Refs : RecordStep(r) /\ PayerStep(r) /\ CollectionStep(r) /\ TodoStep(r)
      BY <2>1 DEF RecordStep, PayerStep, CollectionStep, TodoStep
    <2>3. \A u \in Vendors : StatusStep(u) /\ ReferenceStep(u)
      BY <1>t, <2>1 DEF StatusStep, ReferenceStep, TypeOK
    <2>4. QED
      BY <1>t, <2>1, <2>2, <2>3 DEF Steps
  <1>4. ASSUME NEW h \in Handlers, StoreReference(h) PROVE Steps
    <2>1. PICK v \in Vendors, q \in Refs :
              /\ model[v] = "ONE_TIME" /\ Unused(q)
              /\ registrationRef' = [registrationRef EXCEPT ![v] = q]
              /\ payer' = [payer EXCEPT ![q] = v]
              /\ UNCHANGED <<status, model, record, waived, prompts, answers, deliveries, now, todo>>
      BY <1>4, StoreReferenceEffect
    <2>2. record'[q] = None /\ payer'[q] = v /\ registrationRef'[v] = q
      BY <1>t, <2>1 DEF Unused, TypeOK
    <2>3. \A r \in Refs : RecordStep(r) /\ PayerStep(r) /\ CollectionStep(r) /\ TodoStep(r)
      BY <1>t, <2>1, <2>2 DEF RecordStep, PayerStep, CollectionStep, TodoStep, TypeOK
    <2>4. \A u \in Vendors : StatusStep(u) /\ ReferenceStep(u)
      BY <1>t, <2>1, <2>2 DEF StatusStep, ReferenceStep, TypeOK
    <2>5. QED
      BY <1>t, <2>1, <2>3, <2>4 DEF Steps
  <1>5. ASSUME NEW h \in Handlers, Subscribe(h) PROVE Steps
    <2>1. PICK v \in Vendors, q \in Refs, s \in Record :
              /\ model[v] = "SUBSCRIPTION" /\ Unused(q)
              /\ s.vendor = v /\ s.status = "PENDING" /\ ~s.free
              /\ record' = [record EXCEPT ![q] = s]
              /\ payer' = [payer EXCEPT ![q] = v]
              /\ UNCHANGED <<status, model, registrationRef, waived, prompts, answers, deliveries,
                             now, todo>>
      BY <1>5, SubscribeEffect DEF account
    <2>2. record'[q] = s /\ payer'[q] = v /\ s # None
      BY <1>t, <2>1, NoneAssumption DEF TypeOK
    <2>3. \A r \in Refs : RecordStep(r)
      BY <1>t, <2>1, <2>2 DEF RecordStep, TypeOK
    <2>4. \A r \in Refs : PayerStep(r) /\ CollectionStep(r) /\ TodoStep(r)
      BY <1>t, <2>1, <2>2 DEF PayerStep, CollectionStep, TodoStep, TypeOK
    <2>5. \A u \in Vendors : StatusStep(u) /\ ReferenceStep(u)
      BY <2>1 DEF StatusStep, ReferenceStep
    <2>6. QED
      BY <1>t, <2>1, <2>3, <2>4, <2>5 DEF Steps
  <1>6. ASSUME NEW h \in Handlers, Grant(h) PROVE Steps
    <2>1. PICK v \in Vendors, q \in Refs, s \in Record :
              /\ model[v] = "SUBSCRIPTION" /\ Unused(q)
              /\ s.vendor = v /\ s.status = "ACTIVE" /\ s.free
              /\ record' = [record EXCEPT ![q] = s]
              /\ status' = [status EXCEPT ![v] = "ACTIVE"]
              /\ waived' = waived \cup {v}
              /\ UNCHANGED <<model, registrationRef, payer, prompts, answers, deliveries, now, todo>>
      BY <1>6, GrantEffect DEF campay
    <2>2. /\ record'[q] = s /\ payer'[q] = None /\ s # None
          /\ status'[v] = "ACTIVE" /\ v \in waived'
      BY <1>t, <2>1, NoneAssumption DEF Unused, TypeOK
    <2>3. \A r \in Refs : RecordStep(r)
      BY <1>t, <2>1, <2>2 DEF RecordStep, TypeOK
    <2>4. \A r \in Refs : PayerStep(r) /\ CollectionStep(r) /\ TodoStep(r)
      BY <2>1 DEF PayerStep, CollectionStep, TodoStep
    <2>5. \A u \in Vendors : StatusStep(u) /\ ReferenceStep(u)
      BY <1>t, <2>1, <2>2 DEF StatusStep, ReferenceStep, TypeOK
    <2>6. QED
      BY <1>t, <2>1, <2>3, <2>4, <2>5 DEF Steps
  <1>7. ASSUME NEW h \in Handlers, Activate(h) PROVE Steps
    <2>1. PICK q \in Refs, v \in Vendors, next \in Record :
              /\ payer[q] = v /\ "paid" \in answers[q]
              /\ record[q] \in Record /\ record[q].vendor = v /\ ~record[q].free
              /\ model[v] = "SUBSCRIPTION"
              /\ next.status = "ACTIVE" /\ KeptRecord(record[q], next)
              /\ record' = [record EXCEPT ![q] = next]
              /\ status' = [status EXCEPT ![v] = "ACTIVE"]
              /\ UNCHANGED <<model, registrationRef, waived, payer, prompts, answers, deliveries,
                             now, todo>>
      BY <1>7, ActivateEffect DEF campay
    <2>2. /\ record'[q] = next /\ next # None /\ next.vendor = v
          /\ status'[v] = "ACTIVE"
      BY <1>t, <2>1, NoneAssumption DEF TypeOK, KeptRecord
    <2>3. \A r \in Refs : RecordStep(r)
      BY <1>t, <2>1, <2>2 DEF RecordStep, TypeOK
    <2>4. \A r \in Refs : PayerStep(r) /\ CollectionStep(r) /\ TodoStep(r)
      BY <2>1 DEF PayerStep, CollectionStep, TodoStep
    <2>5. \A u \in Vendors : StatusStep(u) /\ ReferenceStep(u)
      BY <1>t, <2>1, <2>2 DEF StatusStep, ReferenceStep, TypeOK
    <2>6. QED
      BY <1>t, <2>1, <2>3, <2>4, <2>5 DEF Steps
  <1>8. ASSUME NEW h \in Handlers, Cancel(h) PROVE Steps
    <2>1. PICK q \in Refs, next \in Record :
              /\ "refused" \in answers[q]
              /\ record[q] \in Record /\ ~record[q].free
              /\ next.status = "CANCELLED" /\ KeptRecord(record[q], next)
              /\ record' = [record EXCEPT ![q] = next]
              /\ UNCHANGED <<status, model, registrationRef, waived, payer, prompts, answers, deliveries,
                             now, todo>>
      BY <1>8, CancelEffect DEF account, campay
    <2>2. \A r \in Refs : RecordStep(r)
      BY <1>t, <2>1 DEF RecordStep, TypeOK
    <2>3. \A r \in Refs : PayerStep(r) /\ CollectionStep(r) /\ TodoStep(r)
      BY <2>1 DEF PayerStep, CollectionStep, TodoStep
    <2>4. \A u \in Vendors : StatusStep(u) /\ ReferenceStep(u)
      BY <2>1 DEF StatusStep, ReferenceStep
    <2>5. QED
      BY <1>t, <2>1, <2>2, <2>3, <2>4 DEF Steps
  <1>9. ASSUME NEW q \in Refs, ExpireOne(q) PROVE Steps
    <2>1. PICK v \in Vendors, next \in Record :
              /\ q \in todo /\ todo' \subseteq todo
              /\ record[q] \in Record /\ record[q].vendor = v
              /\ model[v] = "SUBSCRIPTION"
              /\ next.status = "EXPIRED" /\ next.expiresAt = record[q].expiresAt
              /\ KeptRecord(record[q], next)
              /\ record' = [record EXCEPT ![q] = next]
              /\ status' = [status EXCEPT ![v] = "SUBSCRIPTION_EXPIRED"]
              /\ UNCHANGED <<model, registrationRef, waived, payer, prompts, answers, deliveries, now>>
      BY <1>9, ExpireEffect DEF campay
    <2>2. /\ record'[q] = next /\ next # None /\ next.vendor = v
          /\ status'[v] = "SUBSCRIPTION_EXPIRED"
      BY <1>t, <2>1, NoneAssumption DEF TypeOK, KeptRecord
    <2>3. \A r \in Refs : RecordStep(r)
      BY <1>t, <2>1, <2>2 DEF RecordStep, TypeOK
    <2>4. \A r \in Refs : PayerStep(r) /\ CollectionStep(r) /\ TodoStep(r)
      BY <2>1 DEF PayerStep, CollectionStep, TodoStep
    <2>5. \A u \in Vendors : StatusStep(u) /\ ReferenceStep(u)
      BY <1>t, <2>1, <2>2 DEF StatusStep, ReferenceStep, TypeOK
    <2>6. QED
      BY <1>t, <2>1, <2>3, <2>4, <2>5 DEF Steps
  <1>10. ASSUME NEW h \in Handlers, Collect(h) PROVE Steps
    <2>1. PICK q \in Refs, asked \in Nat :
              /\ Collects(handler[h], q) /\ payer[q] # None /\ prompts[q] = 0
              /\ prompts' = [prompts EXCEPT ![q] = asked]
              /\ Done(h)
              /\ UNCHANGED <<status, model, registrationRef, waived, record, payer, answers,
                             deliveries, now, todo>>
      BY <1>10, CollectEffect DEF account
    <2>2. handler'[h] = Idle
      BY <1>t, <2>1, DoneType
    <2>3. \A r \in Refs : CollectionStep(r)
      BY <1>t, <2>1, <2>2 DEF CollectionStep, TypeOK
    <2>4. \A r \in Refs : RecordStep(r) /\ PayerStep(r) /\ TodoStep(r)
      <3>1. \A r \in Refs : payer[r] = payer'[r] /\ record[r] = record'[r]
        BY <2>1
      <3>2. QED
        BY <2>1, <3>1 DEF RecordStep, PayerStep, TodoStep
    <2>5. \A u \in Vendors : StatusStep(u) /\ ReferenceStep(u)
      BY <2>1 DEF StatusStep, ReferenceStep
    <2>6. QED
      BY <1>t, <2>1, <2>3, <2>4, <2>5 DEF Steps
  <1>11. ASSUME NEW q \in Refs, Settle(q) PROVE Steps
    <2>1. PICK answer \in {"paid", "refused"} :
              /\ answers' = [answers EXCEPT ![q] = @ \cup {answer}]
              /\ UNCHANGED <<status, model, registrationRef, waived, record, payer, prompts,
                             deliveries, now, todo>>
      BY <1>11 DEF Settle, account
    <2>p. prompts[q] # 0 /\ payer[q] # None
      <3>1. Cardinality(answers[q]) < prompts[q]
        BY <1>11 DEF Settle
      <3>2. prompts[q] = 0 => Cardinality(answers[q]) = 0
        BY FS_EmptySet DEF IInv, RefInv
      <3>3. QED
        BY <3>1, <3>2 DEF IInv, RefInv
    <2>2. \A r \in Refs : CollectionStep(r)
      <3>1. \A r \in Refs : answers[r] \subseteq answers'[r]
        BY <1>t, <2>1 DEF TypeOK
      <3>2. \A r \in Refs \ {q} : answers'[r] = answers[r]
        BY <1>t, <2>1 DEF TypeOK
      <3>3. QED
        BY <2>1, <2>p, <3>1, <3>2 DEF CollectionStep
    <2>3. \A r \in Refs : RecordStep(r) /\ PayerStep(r) /\ TodoStep(r)
      <3>1. \A r \in Refs : payer[r] = payer'[r] /\ record[r] = record'[r]
        BY <2>1
      <3>2. QED
        BY <2>1, <3>1 DEF RecordStep, PayerStep, TodoStep
    <2>4. \A u \in Vendors : StatusStep(u) /\ ReferenceStep(u)
      BY <2>1 DEF StatusStep, ReferenceStep
    <2>5. QED
      BY <1>t, <2>1, <2>2, <2>3, <2>4 DEF Steps
  <1>12. CASE ExpiryBegin
    <2>1. UNCHANGED <<status, model, registrationRef, waived, record, payer, prompts,
                      answers, deliveries, now>>
      BY <1>12 DEF ExpiryBegin, account, campay
    <2>2. todo' = {r \in Refs : Overdue(r)}
      BY <1>12 DEF ExpiryBegin
    <2>3. \A r \in Refs : RecordStep(r) /\ PayerStep(r) /\ CollectionStep(r) /\ TodoStep(r)
      BY <2>1, <2>2 DEF RecordStep, PayerStep, CollectionStep, TodoStep
    <2>4. \A u \in Vendors : StatusStep(u) /\ ReferenceStep(u)
      BY <2>1 DEF StatusStep, ReferenceStep
    <2>5. QED
      BY <1>t, <2>1, <2>3, <2>4 DEF Steps
  <1>13. CASE Tick
    <2>1. UNCHANGED <<status, model, registrationRef, waived, record, payer, prompts,
                      answers, deliveries, todo>>
      BY <1>13 DEF Tick, account, campay
    <2>2. now' \in Time /\ now <= now'
      <3>1. \A t \in Time : t < MaxTime => t + 1 \in Time /\ t <= t + 1
        BY BoundsAssumption DEF Time
      <3>2. QED
        BY <1>13, <1>t, <3>1 DEF Tick, TypeOK
    <2>3. \A r \in Refs : RecordStep(r) /\ PayerStep(r) /\ CollectionStep(r) /\ TodoStep(r)
      BY <2>1 DEF RecordStep, PayerStep, CollectionStep, TodoStep
    <2>4. \A u \in Vendors : StatusStep(u) /\ ReferenceStep(u)
      BY <2>1 DEF StatusStep, ReferenceStep
    <2>5. QED
      BY <2>1, <2>2, <2>3, <2>4 DEF Steps
  <1>14. ASSUME NEW h \in Handlers,
                \/ \E v \in Vendors : InitiateRegistration(h, v)
                \/ \E v \in Vendors, cycle \in Cycles : InitiateSubscription(h, v, cycle)
         PROVE  Steps
    BY <1>14, InitiateEffect, IdleSteps DEF campay
  <1>15. ASSUME NEW h \in Handlers, NEW r \in Refs,
                NEW said \in {"SUCCESSFUL", "FAILED", "PENDING"}, HookRead(h, r, said)
         PROVE  Steps
    BY <1>15, HookEffect, IdleSteps
  <1>16. CASE Restart \/ UNCHANGED vars
    BY <1>16, IdleSteps DEF Restart, vars, account, campay
  <1>17. QED
    BY <1>1, <1>2, <1>3, <1>4, <1>5, <1>6, <1>7, <1>8, <1>9, <1>10, <1>11, <1>12, <1>13, <1>14,
       <1>15, <1>16 DEF Next

-----------------------------------------------------------------------------
(* What one step can do to the requests: one goes on, or some end. *)
Begins(next) ==
    next \in Initiation /\ Holds(next) /\ UNCHANGED <<account, record, campay>>

Asks(next) ==
    \E r \in Refs : /\ Asking(next, r) /\ Unused(r)
                    /\ payer'[r] = next.vendor /\ UNCHANGED <<prompts, answers, deliveries>>

IsTold(next) ==
    /\ next \in Exchange /\ Holds(next) /\ next.pc \in {"activate", "cancel", "register"}
    /\ UNCHANGED <<account, record, payer, prompts, answers>>
    /\ deliveries' = [deliveries EXCEPT ![next.ref] = @ + 1]

HandlerStep ==
    \/ \A g \in Handlers : handler'[g] \in {handler[g], Idle}
    \/ \E h \in Handlers, next \in Handling :
          /\ handler'[h] = next
          /\ \A g \in Handlers \ {h} : handler'[g] = handler[g]
          /\ Begins(next) \/ Asks(next) \/ IsTold(next)

LEMMA NextHandlers ==
    ASSUME IInv, [Next]_vars
    PROVE  handler' \in [Handlers -> Handling] /\ HandlerStep
  <1>t. TypeOK /\ handler \in [Handlers -> Handling]
    BY DEF IInv, TypeOK, Handling
  <1>1. ASSUME NEW h \in Handlers, Done(h)
        PROVE  handler' \in [Handlers -> Handling] /\ HandlerStep
    BY <1>t, <1>1, DoneType DEF HandlerStep
  <1>2. ASSUME NEW h \in Handlers,
               \/ Waive(h) \/ Grant(h) \/ Collect(h) \/ Activate(h) \/ Cancel(h) \/ Register(h)
        PROVE  Done(h)
    BY <1>2 DEF Waive, Grant, Collect, Activate, Cancel, Register
  <1>3. CASE UNCHANGED handler
    BY <1>t, <1>3 DEF HandlerStep
  <1>4. ASSUME \/ \E v \in Vendors : RegisterVendor(v)
               \/ \E r \in Refs : Settle(r) \/ ExpireOne(r)
               \/ ExpiryBegin \/ Tick \/ UNCHANGED vars
        PROVE  UNCHANGED handler
    BY <1>4 DEF RegisterVendor, Settle, ExpireOne, ExpiryBegin, Tick, vars
  <1>5. CASE Restart
    BY <1>5 DEF Restart, HandlerStep, Handling
  <1>6. ASSUME NEW h \in Handlers,
               \/ \E v \in Vendors : InitiateRegistration(h, v)
               \/ \E v \in Vendors, cycle \in Cycles : InitiateSubscription(h, v, cycle)
        PROVE  handler' \in [Handlers -> Handling] /\ HandlerStep
    <2>1. PICK next \in Initiation : /\ Holds(next) /\ Goto(h, next)
                                     /\ UNCHANGED <<account, record, campay, now, todo>>
      BY <1>6, InitiateEffect
    <2>2. next \in Handling /\ Begins(next)
      BY <2>1 DEF Handling, Begins
    <2>3. QED
      BY <1>t, <2>1, <2>2, GotoType DEF HandlerStep
  <1>7. ASSUME NEW h \in Handlers, StoreReference(h) \/ Subscribe(h)
        PROVE  handler' \in [Handlers -> Handling] /\ HandlerStep
    <2>1. \E r \in Refs, v \in Vendors, next \in Exchange :
             /\ Asking(next, r) /\ Unused(r) /\ next.vendor = v
             /\ payer' = [payer EXCEPT ![r] = v]
             /\ UNCHANGED <<prompts, answers, deliveries>> /\ Goto(h, next)
      <3>1. CASE StoreReference(h)
        BY <3>1, StoreReferenceEffect
      <3>2. CASE Subscribe(h)
        BY <3>2, SubscribeEffect
      <3>3. QED
        BY <1>7, <3>1, <3>2
    <2>2. PICK r \in Refs, v \in Vendors, next \in Exchange :
             /\ Asking(next, r) /\ Unused(r) /\ next.vendor = v
             /\ payer' = [payer EXCEPT ![r] = v]
             /\ UNCHANGED <<prompts, answers, deliveries>> /\ Goto(h, next)
      BY <2>1
    <2>3. payer'[r] = v
      BY <1>t, <2>2 DEF TypeOK
    <2>4. next \in Handling /\ Asks(next)
      BY <2>2, <2>3 DEF Handling, Asks
    <2>5. QED
      BY <1>t, <2>2, <2>4, GotoType DEF HandlerStep
  <1>8. ASSUME NEW h \in Handlers, NEW r \in Refs,
               NEW said \in {"SUCCESSFUL", "FAILED", "PENDING"}, HookRead(h, r, said)
        PROVE  handler' \in [Handlers -> Handling] /\ HandlerStep
    <2>1. PICK next \in Exchange : /\ Goto(h, next) /\ Holds(next) /\ next.ref = r
                                   /\ next.pc \in {"activate", "cancel", "register"}
      BY <1>8, HookEffect
    <2>2. next \in Handling /\ IsTold(next)
      BY <1>8, <2>1, HookEffect DEF Handling, IsTold
    <2>3. QED
      BY <1>t, <2>1, <2>2, GotoType DEF HandlerStep
  <1>9. CASE \/ \E v \in Vendors : RegisterVendor(v)
             \/ \E r \in Refs : Settle(r) \/ ExpireOne(r)
             \/ ExpiryBegin \/ Tick \/ UNCHANGED vars
    BY <1>3, <1>4, <1>9
  <1>10. ASSUME NEW h \in Handlers,
                \/ Waive(h) \/ Grant(h) \/ Collect(h) \/ Activate(h) \/ Cancel(h) \/ Register(h)
         PROVE  handler' \in [Handlers -> Handling] /\ HandlerStep
    BY <1>1, <1>2, <1>10
  <1>11. QED
    BY <1>5, <1>6, <1>7, <1>8, <1>9, <1>10 DEF Next

-----------------------------------------------------------------------------
(* The inductive invariant. *)

LEMMA NextType == IInv /\ [Next]_vars => TypeOK'
  <1> SUFFICES ASSUME IInv, [Next]_vars PROVE TypeOK'
    OBVIOUS
  <1>t. TypeOK
    BY DEF IInv
  <1>h. handler' \in [Handlers -> Initiation \cup Exchange \cup {Idle}]
    BY NextHandlers DEF Handling
  <1>n. now' \in Time
    BY NextSteps DEF Steps
  <1>1. ASSUME NEW v \in Vendors, RegisterVendor(v) PROVE TypeOK'
    BY <1>t, <1>h, <1>1 DEF RegisterVendor, campay, TypeOK, Statuses
  <1>2. ASSUME NEW h \in Handlers, Waive(h) PROVE TypeOK'
    BY <1>t, <1>h, <1>2, WaiveEffect DEF campay, TypeOK, Statuses
  <1>3. ASSUME NEW h \in Handlers, Register(h) PROVE TypeOK'
    BY <1>t, <1>h, <1>3, RegisterEffect DEF campay, TypeOK, Statuses
  <1>4. ASSUME NEW h \in Handlers, StoreReference(h) PROVE TypeOK'
    BY <1>t, <1>h, <1>4, StoreReferenceEffect DEF TypeOK
  <1>5. ASSUME NEW h \in Handlers, Subscribe(h) PROVE TypeOK'
    BY <1>t, <1>h, <1>5, SubscribeEffect DEF account, TypeOK
  <1>6. ASSUME NEW h \in Handlers, Grant(h) PROVE TypeOK'
    BY <1>t, <1>h, <1>6, GrantEffect DEF campay, TypeOK, Statuses
  <1>7. ASSUME NEW h \in Handlers, Activate(h) PROVE TypeOK'
    <2>1. PICK q \in Refs, v \in Vendors, next \in Record :
              /\ record' = [record EXCEPT ![q] = next]
              /\ status' = [status EXCEPT ![v] = "ACTIVE"]
              /\ UNCHANGED <<model, registrationRef, waived, campay, now, todo>>
      BY <1>7, ActivateEffect
    <2>2. QED
      BY <1>t, <1>h, <2>1 DEF campay, TypeOK, Statuses
  <1>8. ASSUME NEW h \in Handlers, Cancel(h) PROVE TypeOK'
    <2>1. PICK q \in Refs, next \in Record :
              /\ record' = [record EXCEPT ![q] = next]
              /\ UNCHANGED <<account, campay, now, todo>>
      BY <1>8, CancelEffect
    <2>2. QED
      BY <1>t, <1>h, <2>1 DEF account, campay, TypeOK
  <1>9. ASSUME NEW q \in Refs, ExpireOne(q) PROVE TypeOK'
    <2>1. PICK v \in Vendors, next \in Record :
              /\ todo' \subseteq todo
              /\ record' = [record EXCEPT ![q] = next]
              /\ status' = [status EXCEPT ![v] = "SUBSCRIPTION_EXPIRED"]
              /\ UNCHANGED <<model, registrationRef, waived, campay, now, handler>>
      BY <1>9, ExpireEffect
    <2>2. QED
      BY <1>t, <1>h, <2>1 DEF campay, TypeOK, Statuses
  <1>10. ASSUME NEW h \in Handlers, Collect(h) PROVE TypeOK'
    BY <1>t, <1>h, <1>10, CollectEffect DEF account, TypeOK
  <1>11. ASSUME NEW q \in Refs, Settle(q) PROVE TypeOK'
    BY <1>t, <1>11 DEF Settle, account, TypeOK
  <1>12. CASE ExpiryBegin
    BY <1>t, <1>12 DEF ExpiryBegin, account, campay, TypeOK
  <1>13. CASE Tick
    BY <1>t, <1>n, <1>13 DEF Tick, account, campay, TypeOK
  <1>14. ASSUME NEW h \in Handlers,
                \/ \E v \in Vendors : InitiateRegistration(h, v)
                \/ \E v \in Vendors, cycle \in Cycles : InitiateSubscription(h, v, cycle)
         PROVE  TypeOK'
    BY <1>t, <1>h, <1>14, InitiateEffect DEF account, campay, TypeOK
  <1>15. ASSUME NEW h \in Handlers, NEW r \in Refs,
                NEW said \in {"SUCCESSFUL", "FAILED", "PENDING"}, HookRead(h, r, said)
         PROVE  TypeOK'
    <2>1. deliveries' \in [Refs -> Nat]
      BY <1>t, <1>15, HookEffect DEF TypeOK
    <2>2. UNCHANGED <<account, record, payer, prompts, answers, now, todo>>
      BY <1>15, HookEffect
    <2>3. QED
      BY <1>t, <1>h, <2>1, <2>2 DEF account, TypeOK
  <1>16. CASE Restart \/ UNCHANGED vars
    BY <1>t, <1>h, <1>16 DEF Restart, vars, account, campay, TypeOK
  <1>17. QED
    BY <1>1, <1>2, <1>3, <1>4, <1>5, <1>6, <1>7, <1>8, <1>9, <1>10, <1>11, <1>12, <1>13, <1>14,
       <1>15, <1>16 DEF Next

LEMMA NextKept ==
    ASSUME IInv, Steps
    PROVE  /\ Kept
           /\ \A r \in Refs : record[r] # None =>
                 record'[r] # None /\ payer'[r] = payer[r] /\ KeptRecord(record[r], record'[r])
  <1>1. \A v \in Vendors : model[v] # None => model'[v] = model[v]
    BY DEF Steps, StatusStep, IInv, VendorInv
  <1>2. \A r \in Refs : payer[r] # None => payer'[r] = payer[r]
    BY DEF Steps, PayerStep, Unused
  <1>3. \A r \in Refs : payer[r] # None => (record'[r] = None) = (record[r] = None)
    BY NoneAssumption DEF Steps, RecordStep, Unused
  <1>4. \A r \in Refs : answers[r] \subseteq answers'[r]
    BY DEF Steps, CollectionStep
  <1>5. \A r \in Refs : record[r] # None =>
           record'[r] # None /\ payer'[r] = payer[r] /\ KeptRecord(record[r], record'[r])
    BY NoneAssumption DEF Steps, RecordStep, PayerStep, Unused, KeptRecord
  <1>6. QED
    BY <1>1, <1>2, <1>3, <1>4, <1>5 DEF Kept, Steps

LEMMA NextRecords == IInv /\ Steps => RecordInv'
  <1> SUFFICES ASSUME IInv, Steps, NEW r \in Refs, record'[r] # None
               PROVE  /\ model'[record'[r].vendor] = "SUBSCRIPTION"
                      /\ record'[r].free => payer'[r] = None /\ record'[r].vendor \in waived'
                      /\ ~record'[r].free => payer'[r] = record'[r].vendor
                      /\ record'[r].status \in {"ACTIVE", "EXPIRED"} =>
                            record'[r].free \/ "paid" \in answers'[r]
    BY DEF RecordInv
  <1>1. CASE record[r] # None
    <2>1. /\ payer'[r] = payer[r] /\ record'[r].vendor = record[r].vendor
          /\ record'[r].free = record[r].free
      BY <1>1, NextKept DEF KeptRecord
    <2>2. /\ model[record[r].vendor] = "SUBSCRIPTION"
          /\ record[r].free => payer[r] = None /\ record[r].vendor \in waived
          /\ ~record[r].free => payer[r] = record[r].vendor
          /\ record[r].status \in {"ACTIVE", "EXPIRED"} => record[r].free \/ "paid" \in answers[r]
      BY <1>1 DEF IInv, RecordInv
    <2>3. model'[record[r].vendor] = "SUBSCRIPTION"
      <3>1. record[r].vendor \in Vendors
        BY <1>1 DEF IInv, TypeOK, Record
      <3>2. QED
        BY <2>2, <3>1, NextKept, NoneAssumption DEF Kept, Models
    <2>4. record[r].vendor \in waived => record[r].vendor \in waived'
      BY DEF Steps
    <2>5. record'[r].status \in {"ACTIVE", "EXPIRED"} => record[r].free \/ "paid" \in answers[r]
      <3>1. CASE record'[r] = record[r]
        BY <2>2, <3>1
      <3>2. CASE record'[r].status = "ACTIVE" /\ "paid" \in answers[r]
        BY <3>2
      <3>3. CASE record'[r].status = "CANCELLED"
        BY <3>3
      <3>4. CASE record'[r].status = "EXPIRED" /\ r \in todo
        BY <2>2, <3>4 DEF IInv, RefInv, Reversed
      <3>5. QED
        BY <1>1, <3>1, <3>2, <3>3, <3>4 DEF Steps, RecordStep, Unused
    <2>6. "paid" \in answers[r] => "paid" \in answers'[r]
      BY NextKept DEF Kept
    <2>7. QED
      BY <2>1, <2>2, <2>3, <2>4, <2>5, <2>6
  <1>2. CASE record[r] = None
    <2>1. /\ record'[r] \in Record /\ model[record'[r].vendor] = "SUBSCRIPTION"
          /\ \/ /\ record'[r].status = "ACTIVE" /\ record'[r].free
                /\ payer'[r] = None /\ record'[r].vendor \in waived'
             \/ /\ record'[r].status = "PENDING" /\ ~record'[r].free
                /\ payer'[r] = record'[r].vendor
      BY <1>2, NoneAssumption DEF Steps, RecordStep
    <2>2. model'[record'[r].vendor] = "SUBSCRIPTION"
      <3>1. record'[r].vendor \in Vendors
        BY <2>1 DEF Record
      <3>2. QED
        BY <2>1, <3>1, NextKept, NoneAssumption DEF Kept, Models
    <2>3. QED
      BY <2>1, <2>2
  <1>3. QED
    BY <1>1, <1>2

LEMMA NextRefs == IInv /\ Steps => RefInv'
  <1> SUFFICES ASSUME IInv, Steps, NEW r \in Refs
               PROVE  /\ payer'[r] = None => prompts'[r] = 0
                      /\ prompts'[r] = 0 => answers'[r] = {}
                      /\ payer'[r] # None /\ record'[r] = None => model'[payer'[r]] = "ONE_TIME"
                      /\ r \in todo' =>
                            /\ record'[r] # None
                            /\ record'[r].status \in {"ACTIVE", "EXPIRED"} \/ Reversed(r)'
    BY DEF RefInv
  <1>1. payer'[r] = None => prompts'[r] = 0
    BY NextKept, NoneAssumption DEF Steps, PayerStep, CollectionStep, Kept, IInv, RefInv
  <1>0. prompts'[r] = 0 => answers'[r] = {}
    BY DEF Steps, CollectionStep, IInv, RefInv
  <1>2. ASSUME payer'[r] # None, record'[r] = None PROVE model'[payer'[r]] = "ONE_TIME"
    <2>1. record[r] = None
      BY <1>2, NextKept
    <2>2. payer'[r] \in Vendors /\ model[payer'[r]] = "ONE_TIME"
      <3>1. CASE payer'[r] = payer[r]
        BY <1>2, <2>1, <3>1 DEF IInv, RefInv, TypeOK
      <3>2. CASE payer'[r] # payer[r]
        BY <1>2, <3>2 DEF Steps, PayerStep
      <3>3. QED
        BY <3>1, <3>2
    <2>3. QED
      BY <2>2, NextKept, NoneAssumption DEF Kept, Models
  <1>3. ASSUME r \in todo'
        PROVE  /\ record'[r] # None
               /\ record'[r].status \in {"ACTIVE", "EXPIRED"} \/ Reversed(r)'
    <2>1. CASE r \in todo
      <3>1. record[r] # None /\ (record[r].status \in {"ACTIVE", "EXPIRED"} \/ Reversed(r))
        BY <2>1 DEF IInv, RefInv
      <3>2. "paid" \in answers[r] => "paid" \in answers'[r]
        BY NextKept DEF Kept
      <3>3. ~record[r].free => "paid" \in answers[r]
        BY <3>1 DEF IInv, RecordInv, Reversed
      <3>4. record'[r].status \in {"ACTIVE", "EXPIRED"} \/ Reversed(r)'
        BY <3>1, <3>2, <3>3 DEF Steps, RecordStep, Unused, Reversed
      <3>5. QED
        BY <3>1, <3>4, NextKept
    <2>2. CASE Overdue(r) /\ UNCHANGED <<record, now, deliveries>>
      BY <2>2 DEF Overdue
    <2>3. QED
      BY <1>3, <2>1, <2>2 DEF Steps, TodoStep
  <1>4. QED
    BY <1>0, <1>1, <1>2, <1>3

LEMMA NextVendors == IInv /\ Steps => VendorInv'
  <1> SUFFICES ASSUME IInv, Steps, NEW v \in Vendors
               PROVE  /\ status'[v] = "absent" <=> model'[v] = None
                      /\ registrationRef'[v] # None =>
                            /\ payer'[registrationRef'[v]] = v
                            /\ record'[registrationRef'[v]] = None
    BY DEF VendorInv
  <1>1. status'[v] = "absent" <=> model'[v] = None
    <2>1. status[v] = "absent" <=> model[v] = None
      BY DEF IInv, VendorInv
    <2>2. \A m \in Models : m # None
      BY NoneAssumption
    <2>3. "ONE_TIME" # None /\ "SUBSCRIPTION" # None
      BY <2>2 DEF Models
    <2>4. QED
      BY <2>1, <2>2, <2>3 DEF Steps, StatusStep
  <1>2. ASSUME registrationRef'[v] # None
        PROVE  payer'[registrationRef'[v]] = v /\ record'[registrationRef'[v]] = None
    <2>1. CASE registrationRef'[v] = registrationRef[v]
      <3>1. PICK r \in Refs : r = registrationRef[v]
        BY <1>2, <2>1 DEF IInv, TypeOK
      <3>2. payer[r] = v /\ record[r] = None /\ v # None
        BY <1>2, <2>1, <3>1, NoneAssumption DEF IInv, VendorInv
      <3>3. payer'[r] = v /\ record'[r] = None
        BY <3>2, NextKept DEF Kept
      <3>4. QED
        BY <2>1, <3>1, <3>3
    <2>2. QED
      BY <1>2, <2>1 DEF Steps, ReferenceStep
  <1>3. QED
    BY <1>1, <1>2

(* What a request relies on, no step of another takes away. *)
LEMMA HoldsKept ==
    ASSUME IInv, [Next]_vars, NEW h \in Handlers, handler'[h] = handler[h]
    PROVE  Holds(handler[h])'
  <1>1. Steps /\ Kept
    BY NextSteps, NextKept
  <1>2. Holds(handler[h]) /\ handler[h] \in Handling
    BY HandlerCases DEF IInv, HandlerInv
  <1>3. PICK request \in Handling : request = handler[h]
    BY <1>2
  <1>4. Holds(request) /\ TypeOK
    BY <1>2, <1>3 DEF IInv
  <1>5. CASE request \in Initiation
    <2>1. PICK v \in Vendors : v = request.vendor
      BY <1>5 DEF Initiation
    <2>2. model[v] \in {"ONE_TIME", "SUBSCRIPTION"} => model'[v] = model[v]
      BY <1>1, NoneAssumption DEF Kept, Models
    <2>3. request.pc \notin {"collect", "activate", "cancel", "register"}
      BY <1>5 DEF Initiation
    <2>4. /\ request.pc \in {"waive", "reference"} => model'[v] = "ONE_TIME"
          /\ request.pc \in {"grant", "subscribe"} =>
                model'[v] = "SUBSCRIPTION" /\ request.cycle \in Cycles
      BY <1>4, <2>1, <2>2 DEF Holds
    <2>5. QED
      BY <1>3, <2>1, <2>3, <2>4 DEF Holds
  <1>6. CASE request \in Exchange
    <2>1. PICK r \in Refs, v \in Vendors : r = request.ref /\ v = request.vendor
      BY <1>6 DEF Exchange
    <2>2. request.pc \in {"collect", "activate", "cancel", "register"}
      BY <1>6 DEF Exchange
    <2>3. payer[r] = v /\ v # None
      BY <1>4, <2>1, <2>2, NoneAssumption DEF Holds
    <2>4. payer'[r] = v /\ ((record'[r] = None) = (record[r] = None))
      BY <1>1, <2>3 DEF Kept
    <2>5. answers[r] \subseteq answers'[r]
      BY <1>1 DEF Kept
    <2>6. request.pc = "collect" => prompts'[r] = 0
      <3>1. SUFFICES ASSUME request.pc = "collect", prompts'[r] # 0 PROVE FALSE
        OBVIOUS
      <3>2. prompts[r] = 0 /\ Collects(handler[h], r)
        BY <1>3, <1>4, <2>1, <3>1 DEF Holds, Collects
      <3>3. PICK g \in Handlers : Collects(handler[g], r) /\ handler'[g] = Idle
        BY <1>1, <3>1, <3>2 DEF Steps, CollectionStep
      <3>4. g = h
        BY <3>2, <3>3 DEF IInv, HandlerInv
      <3>5. QED
        BY <1>3, <3>1, <3>3, <3>4 DEF Idle
    <2>7. /\ request.pc \in {"activate", "register"} => "paid" \in answers'[r]
          /\ request.pc = "cancel" => "refused" \in answers'[r]
      BY <1>4, <2>1, <2>5 DEF Holds
    <2>8. /\ request.pc \in {"activate", "cancel"} => record'[r] # None
          /\ request.pc = "register" => record'[r] = None
      BY <1>4, <2>1, <2>4 DEF Holds
    <2>9. QED
      BY <1>3, <2>1, <2>2, <2>4, <2>6, <2>7, <2>8 DEF Holds
  <1>7. CASE request = Idle
    BY <1>3, <1>7 DEF Idle, Holds
  <1>8. QED
    BY <1>3, <1>5, <1>6, <1>7 DEF Handling

(* A request that begins or goes on finds what it relies on. *)
LEMMA HoldsNext ==
    ASSUME IInv, [Next]_vars, NEW h \in Handlers, handler'[h] \in Handling,
           LET next == handler'[h] IN Begins(next) \/ Asks(next) \/ IsTold(next)
    PROVE  Holds(handler[h])'
  <1>1. PICK next \in Handling : next = handler'[h]
    OBVIOUS
  <1>2. CASE Begins(next)
    BY <1>1, <1>2 DEF Begins, Holds, account, campay
  <1>3. CASE IsTold(next)
    BY <1>1, <1>3 DEF IsTold, Holds, account
  <1>4. CASE Asks(next)
    <2>1. PICK r \in Refs : /\ Asking(next, r) /\ Unused(r)
                            /\ payer'[r] = next.vendor /\ UNCHANGED <<prompts, answers, deliveries>>
      BY <1>4 DEF Asks
    <2>2. prompts'[r] = 0
      BY <2>1 DEF Unused, IInv, RefInv
    <2>3. QED
      BY <1>1, <2>1, <2>2 DEF Asking, Holds
  <1>5. QED
    BY <1>1, <1>2, <1>3, <1>4

LEMMA NextRequests == IInv /\ [Next]_vars => HandlerInv'
  <1> SUFFICES ASSUME IInv, [Next]_vars PROVE HandlerInv'
    OBVIOUS
  <1>1. handler' \in [Handlers -> Handling] /\ HandlerStep
    BY NextHandlers
  <1>2. ASSUME NEW h \in Handlers, handler'[h] = Idle
        PROVE  Holds(handler[h])' /\ \A r \in Refs : ~Collects(handler[h], r)'
    BY <1>2 DEF Idle, Holds, Collects
  <1>3. CASE \A g \in Handlers : handler'[g] \in {handler[g], Idle}
    <2>1. \A h \in Handlers : Holds(handler[h])'
      BY <1>2, <1>3, HoldsKept
    <2>2. \A r \in Refs : \A g \in Handlers :
             Collects(handler[g], r)' => Collects(handler[g], r)
      BY <1>2, <1>3 DEF Collects
    <2>3. QED
      BY <2>1, <2>2 DEF IInv, HandlerInv
  <1>4. CASE \E h \in Handlers, next \in Handling :
                /\ handler'[h] = next
                /\ \A g \in Handlers \ {h} : handler'[g] = handler[g]
                /\ Begins(next) \/ Asks(next) \/ IsTold(next)
    <2>1. PICK h \in Handlers, next \in Handling :
                /\ handler'[h] = next
                /\ \A g \in Handlers \ {h} : handler'[g] = handler[g]
                /\ Begins(next) \/ Asks(next) \/ IsTold(next)
      BY <1>4
    <2>2. \A g \in Handlers : Holds(handler[g])'
      BY <2>1, HoldsKept, HoldsNext
    <2>3. ASSUME NEW r \in Refs, NEW g \in Handlers \ {h}, Collects(next, r)
          PROVE  ~Collects(handler[g], r)
      <3>1. Asks(next)
        BY <2>1, <2>3 DEF Begins, IsTold, Initiation, Collects
      <3>2. Unused(r)
        BY <2>3, <3>1 DEF Asks, Asking, Collects
      <3>3. SUFFICES ASSUME Collects(handler[g], r) PROVE FALSE
        OBVIOUS
      <3>4. /\ handler[g] \in Exchange /\ handler[g].pc = "collect" /\ handler[g].ref = r
            /\ Holds(handler[g])
        BY <3>3, HandlerCases DEF IInv, HandlerInv, Collects
      <3>5. payer[r] \in Vendors
        BY <3>4 DEF Holds, Exchange
      <3>6. QED
        BY <3>2, <3>5, NoneAssumption DEF Unused
    <2>4. \A r \in Refs : \A g \in Handlers \ {h} :
             Collects(handler[g], r)' => Collects(handler[g], r)
      BY <2>1 DEF Collects
    <2>5. \A r \in Refs : Collects(handler[h], r)' => Collects(next, r)
      BY <2>1 DEF Collects
    <2>6. QED
      BY <2>2, <2>3, <2>4, <2>5 DEF IInv, HandlerInv
  <1>5. QED
    BY <1>1, <1>3, <1>4 DEF HandlerStep

LEMMA NextInv == IInv /\ [Next]_vars => IInv'
  <1> SUFFICES ASSUME IInv, [Next]_vars PROVE IInv'
    OBVIOUS
  <1>1. Steps
    BY NextSteps
  <1>2. TypeOK' /\ HandlerInv'
    BY NextType, NextRequests
  <1>3. RecordInv' /\ RefInv' /\ VendorInv'
    BY <1>1, NextRecords, NextRefs, NextVendors
  <1>4. QED
    BY <1>2, <1>3 DEF IInv

LEMMA InvHolds == Spec => []IInv
  <1>1. IInv /\ [Next]_vars => IInv'
    BY NextInv
  <1>2. QED
    BY <1>1, InitInv, PTL DEF Spec

(* Every variable keeps its type, whichever requests and webhooks overlap. *)
THEOREM TypeCorrect == Spec => []TypeOK
  <1>1. IInv => TypeOK
    BY DEF IInv
  <1>2. QED
    BY <1>1, InvHolds, PTL

-----------------------------------------------------------------------------
(* Money and status. *)

LEMMA InitSafe ==
    Init => ActivatedMeansPaid /\ StatusFollowsRecords /\ WaitingVendorHasReference /\ ExpiredWhenDue
  <1> SUFFICES ASSUME Init
               PROVE  /\ ActivatedMeansPaid /\ StatusFollowsRecords
                      /\ WaitingVendorHasReference /\ ExpiredWhenDue
    OBVIOUS
  <1>1. /\ \A v \in Vendors : status[v] = "absent" /\ model[v] = None
        /\ \A r \in Refs : record[r] = None /\ payer[r] = None
    BY DEF Init
  <1>2. "SUBSCRIPTION" # None
    BY NoneAssumption DEF Models
  <1>3. QED
    BY <1>1, <1>2 DEF ActivatedMeansPaid, StatusFollowsRecords, WaitingVendorHasReference,
                      ExpiredWhenDue

LEMMA NextPaid == IInv /\ Steps /\ ActivatedMeansPaid => ActivatedMeansPaid'
  <1> SUFFICES ASSUME IInv, Steps, ActivatedMeansPaid, NEW v \in Vendors,
                      status'[v] \in {"ACTIVE", "SUBSCRIPTION_EXPIRED"}
               PROVE  v \in waived' \/ \E r \in Refs : payer'[r] = v /\ "paid" \in answers'[r]
    BY DEF ActivatedMeansPaid
  <1>1. v \in waived => v \in waived'
    BY DEF Steps
  <1>2. \A r \in Refs : payer[r] = v /\ "paid" \in answers[r] =>
                           payer'[r] = v /\ "paid" \in answers'[r]
    BY NextKept, NoneAssumption DEF Kept
  <1>3. v \in waived' \/ v \in waived \/ \E r \in Refs : payer[r] = v /\ "paid" \in answers[r]
    <2>1. CASE status'[v] = status[v]
      BY <2>1 DEF ActivatedMeansPaid
    <2>2. CASE /\ model[v] = "ONE_TIME" /\ status'[v] = "ACTIVE"
               /\ v \in waived' \/ \E r \in Refs : payer[r] = v /\ "paid" \in answers[r]
      BY <2>2
    <2>3. ASSUME NEW r \in Refs, record'[r] # None, record'[r].vendor = v,
                 v \in waived' \/ (payer[r] = v /\ "paid" \in answers[r])
          PROVE  v \in waived' \/ \E q \in Refs : payer[q] = v /\ "paid" \in answers[q]
      BY <2>3
    <2>4. ASSUME NEW r \in Refs, record'[r] # None, record'[r].vendor = v, r \in todo
          PROVE  v \in waived \/ (payer[r] = v /\ "paid" \in answers[r])
      <3>1. record[r] # None /\ (record[r].status \in {"ACTIVE", "EXPIRED"} \/ Reversed(r))
        BY <2>4 DEF IInv, RefInv
      <3>2. record[r].vendor = v
        BY <2>4, <3>1, NextKept DEF KeptRecord
      <3>3. QED
        BY <3>1, <3>2 DEF IInv, RecordInv, Reversed
    <2>5. QED
      BY <2>1, <2>2, <2>3, <2>4 DEF Steps, StatusStep
  <1>4. QED
    BY <1>1, <1>2, <1>3

(* Whatever webhooks say of references that were replaced, repeated or never
   answered, a vendor whose account is open, or whose subscription is over, was
   given it by a waiver or has a payment that CamPay collected for that vendor:
   the webhook handler and the no-fee branches of VendorPaymentsService are the
   only ways past PENDING_PAYMENT. *)
THEOREM AccountsArePaid == Spec => []ActivatedMeansPaid
  <1>1. IInv /\ ActivatedMeansPaid /\ [Next]_vars => ActivatedMeansPaid'
    BY NextSteps, NextPaid
  <1>2. QED
    BY <1>1, InitSafe, InvHolds, PTL DEF Spec

LEMMA RecordVendor ==
    ASSUME IInv, Steps, NEW r \in Refs, record'[r] # None
    PROVE  /\ record'[r].vendor \in Vendors /\ model[record'[r].vendor] = "SUBSCRIPTION"
           /\ record[r] # None => record'[r].vendor = record[r].vendor
  <1>1. CASE record[r] = None
    BY <1>1, NoneAssumption DEF Steps, RecordStep, Record
  <1>2. CASE record[r] # None
    <2>1. record'[r].vendor = record[r].vendor
      BY <1>2, NextKept DEF KeptRecord
    <2>2. record[r].vendor \in Vendors
      BY <1>2 DEF IInv, TypeOK, Record
    <2>3. QED
      BY <1>2, <2>1, <2>2 DEF IInv, RecordInv
  <1>3. QED
    BY <1>1, <1>2

Lost(r) == record[r].status = "CANCELLED" /\ {"paid", "refused"} \subseteq answers[r]

LEMMA NextFollows == IInv /\ Steps /\ StatusFollowsRecords => StatusFollowsRecords'
  <1> SUFFICES ASSUME IInv, Steps, StatusFollowsRecords, NEW v \in Vendors,
                      model'[v] = "SUBSCRIPTION"
               PROVE  /\ status'[v] = "ACTIVE" =>
                            \E r \in Refs : /\ record'[r] # None /\ record'[r].vendor = v
                                            /\ record'[r].status = "ACTIVE" \/ Lost(r)'
                      /\ status'[v] = "SUBSCRIPTION_EXPIRED" =>
                            \E r \in Refs : /\ record'[r] # None /\ record'[r].vendor = v
                                            /\ record'[r].status = "EXPIRED" \/ Lost(r)'
                      /\ status'[v] = "PENDING_PAYMENT" =>
                            \A r \in Refs : record'[r] # None /\ record'[r].vendor = v =>
                                record'[r].status \notin {"ACTIVE", "EXPIRED"}
    BY DEF StatusFollowsRecords, RecordsOf, Overturned, Lost
  <1> DEFINE Of(r) == record[r] # None /\ record[r].vendor = v
  <1>1. CASE status'[v] = status[v] /\ model'[v] = model[v]
    <2>1. /\ status[v] = "ACTIVE" =>
                \E r \in Refs : Of(r) /\ (record[r].status = "ACTIVE" \/ Lost(r))
          /\ status[v] = "SUBSCRIPTION_EXPIRED" =>
                \E r \in Refs : Of(r) /\ (record[r].status = "EXPIRED" \/ Lost(r))
          /\ status[v] = "PENDING_PAYMENT" =>
                \A r \in Refs : Of(r) => record[r].status \notin {"ACTIVE", "EXPIRED"}
      BY <1>1 DEF StatusFollowsRecords, RecordsOf, Overturned, Lost
    <2>2. ASSUME NEW r \in Refs, Of(r)
          PROVE  /\ record'[r] # None /\ record'[r].vendor = v
                 /\ status[v] = "ACTIVE" /\ (record[r].status = "ACTIVE" \/ Lost(r)) =>
                       record'[r].status = "ACTIVE" \/ Lost(r)'
                 /\ status[v] = "SUBSCRIPTION_EXPIRED"
                       /\ (record[r].status = "EXPIRED" \/ Lost(r)) =>
                       record'[r].status = "EXPIRED" \/ Lost(r)'
      <3>1. record'[r] # None /\ record'[r].vendor = v
        BY <2>2, NextKept DEF KeptRecord
      <3>2. answers[r] \subseteq answers'[r]
        BY NextKept DEF Kept
      <3>3. record[r].status \in {"ACTIVE", "EXPIRED"} => record[r].free \/ "paid" \in answers[r]
        BY <2>2 DEF IInv, RecordInv
      <3>4. \/ record'[r] = record[r]
            \/ record'[r].status = "ACTIVE" /\ status'[v] = "ACTIVE"
            \/ record'[r].status = "CANCELLED" /\ ~record[r].free /\ "refused" \in answers[r]
            \/ record'[r].status = "EXPIRED" /\ status'[v] = "SUBSCRIPTION_EXPIRED"
        BY <2>2 DEF Steps, RecordStep, Unused
      <3>5. QED
        BY <1>1, <3>1, <3>2, <3>3, <3>4 DEF Lost
    <2>3. ASSUME NEW r \in Refs, status[v] = "PENDING_PAYMENT", record'[r] # None,
                 record'[r].vendor = v, record'[r].status \in {"ACTIVE", "EXPIRED"}
          PROVE  FALSE
      <3>1. CASE record[r] = None
        <4>1. RecordStep(r) /\ record[r] \notin Record /\ record'[r] # record[r]
          BY <2>3, <3>1, NoneAssumption DEF Steps
        <4>2. record'[r].status = "ACTIVE" /\ status'[v] = "ACTIVE"
          BY <2>3, <4>1 DEF RecordStep
        <4>3. QED
          BY <1>1, <2>3, <4>2
      <3>2. CASE record[r] # None
        <4>1. Of(r)
          BY <2>3, <3>2, RecordVendor
        <4>2. record[r].status \notin {"ACTIVE", "EXPIRED"}
          BY <2>1, <2>3, <4>1
        <4>3. RecordStep(r) /\ ~Unused(r) /\ record'[r] # record[r] /\ record[r].vendor = v
          BY <2>3, <3>2, <4>1, <4>2 DEF Steps, Unused
        <4>4. status'[v] \in {"ACTIVE", "SUBSCRIPTION_EXPIRED"}
          BY <2>3, <4>3 DEF RecordStep
        <4>5. QED
          BY <1>1, <2>3, <4>4
      <3>3. QED
        BY <3>1, <3>2
    <2>4. QED
      BY <1>1, <2>1, <2>2, <2>3
  <1>2. CASE status[v] = "absent" /\ status'[v] = "PENDING_PAYMENT"
    <2>1. model[v] = None /\ "SUBSCRIPTION" # None
      BY <1>2, NoneAssumption DEF IInv, VendorInv, Models
    <2>2. \A r \in Refs : record'[r] # None => record'[r].vendor # v
      BY <2>1, RecordVendor
    <2>3. QED
      BY <1>2, <2>2
  <1>3. QED
    BY <1>1, <1>2 DEF Steps, StatusStep

(* The status of a subscriber is one that the records explain, although
   handleVendorPaymentWebhook, initiateSubscription and the nightly task write
   both over one another: ACTIVE has an active record, SUBSCRIPTION_EXPIRED an
   expired one, and PENDING_PAYMENT neither; what is missing was paid, and was
   cancelled by a webhook that told of another prompt. *)
THEOREM RecordsExplainStatus == Spec => []StatusFollowsRecords
  <1>1. IInv /\ StatusFollowsRecords /\ [Next]_vars => StatusFollowsRecords'
    BY NextSteps, NextFollows
  <1>2. QED
    BY <1>1, InitSafe, InvHolds, PTL DEF Spec

-----------------------------------------------------------------------------
LEMMA NextReferences ==
    IInv /\ Steps /\ WaitingVendorHasReference => WaitingVendorHasReference'
  <1> SUFFICES ASSUME IInv, Steps, WaitingVendorHasReference, NEW v \in Vendors,
                      model'[v] = "ONE_TIME", status'[v] = "PENDING_PAYMENT",
                      NEW r \in Refs, payer'[r] = v
               PROVE  \E q \in Refs : registrationRef'[v] = q /\ payer'[q] = v
    BY DEF WaitingVendorHasReference
  <1>1. CASE payer[r] = v
    <2>1. v # None /\ "ONE_TIME" # None /\ "SUBSCRIPTION" # None
      BY NoneAssumption DEF Models
    <2>2. model[v] # None
      BY <1>1, <2>1 DEF IInv, RefInv, RecordInv
    <2>3. model[v] = "ONE_TIME" /\ status[v] = "PENDING_PAYMENT"
      BY <2>2 DEF IInv, VendorInv, Steps, StatusStep
    <2>4. PICK q \in Refs : registrationRef[v] = q /\ payer[q] = v
      BY <1>1, <2>3 DEF WaitingVendorHasReference
    <2>5. payer'[q] = v
      BY <2>1, <2>4, NextKept DEF Kept
    <2>6. QED
      BY <2>4, <2>5 DEF Steps, ReferenceStep
  <1>2. CASE payer[r] # v
    <2>1. Unused(r) /\ (record'[r] = None => registrationRef'[v] = r)
      BY <1>2 DEF Steps, PayerStep
    <2>3. record'[r] = None
      <3>1. SUFFICES ASSUME record'[r] # None PROVE FALSE
        OBVIOUS
      <3>2. RecordInv'
        BY NextRecords
      <3>3. payer'[r] # None
        BY NoneAssumption
      <3>4. record'[r].vendor = v /\ model'[v] = "SUBSCRIPTION"
        BY <3>1, <3>2, <3>3 DEF RecordInv
      <3>5. QED
        BY <3>4
    <2>4. QED
      BY <2>1, <2>3
  <1>3. QED
    BY <1>1, <1>2

(* No vendor is stranded by the reference that a webhook clears: whatever
   initiations and webhooks overlap, one who was to be asked for the registration
   fee and whose account is not open has a reference stored, under which CamPay was
   to ask this vendor. *)
THEOREM WaitingVendorsHaveReferences == Spec => []WaitingVendorHasReference
  <1>1. IInv /\ WaitingVendorHasReference /\ [Next]_vars => WaitingVendorHasReference'
    BY NextSteps, NextReferences
  <1>2. QED
    BY <1>1, InitSafe, InvHolds, PTL DEF Spec

-----------------------------------------------------------------------------
(* What the webhooks about a reference lead to, as long as there is at most one:
   the record is changed by its transaction and by the nightly task, never by
   one after the other has begun. *)

Applies(request, r) == request.pc \in {"activate", "cancel"} /\ request.ref = r

DeliveryInv ==
    \A r \in Refs :
        /\ deliveries[r] = 0 =>
              /\ \A h \in Handlers : ~Applies(handler[h], r)
              /\ record[r] # None => record[r].status = "PENDING" \/ record[r].free
        /\ deliveries[r] <= 1 =>
              /\ \A g, h \in Handlers :
                    Applies(handler[g], r) /\ Applies(handler[h], r) => g = h
              /\ \A h \in Handlers : Applies(handler[h], r) => record[r].status = "PENDING"
              /\ r \in todo => record[r].expiresAt < now

Applied(h, r) ==
    /\ Applies(handler[h], r) /\ handler'[h] = Idle
    /\ \A g \in Handlers \ {h} : handler'[g] = handler[g]
    /\ UNCHANGED deliveries

ChangeStep(r) ==
    \/ record'[r] = record[r]
    \/ /\ record[r] = None /\ UNCHANGED deliveries
       /\ record'[r].status = "PENDING" \/ (record'[r].status = "ACTIVE" /\ record'[r].free)
    \/ /\ record'[r].status = "EXPIRED" /\ r \in todo
       /\ record'[r].expiresAt = record[r].expiresAt
       /\ UNCHANGED <<handler, deliveries, now>>
    \/ /\ record'[r].status \in {"ACTIVE", "CANCELLED"}
       /\ \E h \in Handlers : Applied(h, r)

LEMMA NextChanges == IInv /\ [Next]_vars => \A r \in Refs : ChangeStep(r)
  <1> SUFFICES ASSUME IInv, [Next]_vars, NEW r \in Refs PROVE ChangeStep(r)
    OBVIOUS
  <1>t. TypeOK
    BY DEF IInv
  <1>1. CASE UNCHANGED record
    BY <1>1 DEF ChangeStep
  <1>2. ASSUME NEW h \in Handlers, Grant(h) \/ Subscribe(h) PROVE ChangeStep(r)
    <2>1. CASE Grant(h)
      <3>1. PICK v \in Vendors, q \in Refs, s \in Record :
              /\ Unused(q) /\ s.status = "ACTIVE" /\ s.free
              /\ record' = [record EXCEPT ![q] = s]
              /\ UNCHANGED <<model, registrationRef, campay, now, todo>>
        BY <2>1, GrantEffect
      <3>2. QED
        BY <1>t, <3>1 DEF ChangeStep, TypeOK, Unused, campay
    <2>2. CASE Subscribe(h)
      <3>1. PICK v \in Vendors, q \in Refs, s \in Record :
              /\ Unused(q) /\ s.status = "PENDING"
              /\ record' = [record EXCEPT ![q] = s]
              /\ UNCHANGED <<account, prompts, answers, deliveries, now, todo>>
        BY <2>2, SubscribeEffect
      <3>2. QED
        BY <1>t, <3>1 DEF ChangeStep, TypeOK, Unused
    <2>3. QED
      BY <1>2, <2>1, <2>2
  <1>3. ASSUME NEW h \in Handlers, Activate(h) \/ Cancel(h) PROVE ChangeStep(r)
    <2>1. \E q \in Refs, next \in Record :
             /\ Applies(handler[h], q) /\ next.status \in {"ACTIVE", "CANCELLED"}
             /\ record' = [record EXCEPT ![q] = next]
             /\ Done(h) /\ UNCHANGED deliveries
      <3>1. CASE Activate(h)
        BY <3>1, ActivateEffect DEF Applies, campay
      <3>2. CASE Cancel(h)
        BY <3>2, CancelEffect DEF Applies, campay
      <3>3. QED
        BY <1>3, <3>1, <3>2
    <2>2. PICK q \in Refs, next \in Record :
             /\ Applies(handler[h], q) /\ next.status \in {"ACTIVE", "CANCELLED"}
             /\ record' = [record EXCEPT ![q] = next]
             /\ Done(h) /\ UNCHANGED deliveries
      BY <2>1
    <2>3. Applied(h, q)
      BY <1>t, <2>2, DoneType DEF Applied
    <2>4. CASE q = r
      BY <1>t, <2>2, <2>3, <2>4 DEF ChangeStep, TypeOK
    <2>5. CASE q # r
      BY <1>t, <2>2, <2>5 DEF ChangeStep, TypeOK
    <2>6. QED
      BY <2>4, <2>5
  <1>4. ASSUME NEW q \in Refs, ExpireOne(q) PROVE ChangeStep(r)
    <2>1. PICK next \in Record :
              /\ q \in todo
              /\ next.status = "EXPIRED" /\ next.expiresAt = record[q].expiresAt
              /\ record' = [record EXCEPT ![q] = next]
              /\ UNCHANGED <<campay, now, handler>>
      BY <1>4, ExpireEffect
    <2>2. QED
      BY <1>t, <2>1 DEF ChangeStep, TypeOK, campay
  <1>5. ASSUME \/ \E v \in Vendors : RegisterVendor(v)
               \/ ExpiryBegin \/ Tick \/ Restart \/ UNCHANGED vars
        PROVE  UNCHANGED record
    BY <1>5 DEF RegisterVendor, ExpiryBegin, Tick, Restart, vars
  <1>6. ASSUME NEW h \in Handlers,
               \/ \E v \in Vendors : InitiateRegistration(h, v)
               \/ \E v \in Vendors, cycle \in Cycles : InitiateSubscription(h, v, cycle)
               \/ \E q \in Refs, said \in {"SUCCESSFUL", "FAILED", "PENDING"} : HookRead(h, q, said)
               \/ Waive(h) \/ StoreReference(h) \/ Collect(h) \/ Register(h)
        PROVE  UNCHANGED record
    BY <1>6 DEF InitiateRegistration, InitiateSubscription, HookRead, Waive, StoreReference,
                Collect, Register
  <1>7. ASSUME NEW q \in Refs, Settle(q) PROVE UNCHANGED record
    BY <1>7 DEF Settle
  <1>8. QED
    BY <1>1, <1>2, <1>3, <1>4, <1>5, <1>6, <1>7 DEF Next

(* A webhook about a reference is counted when a request begins that applies it. *)
TellStep ==
    \/ \A g \in Handlers : handler'[g] \in {handler[g], Idle}
    \/ \E h \in Handlers :
          /\ \A g \in Handlers \ {h} : handler'[g] = handler[g]
          /\ \A r \in Refs : Applies(handler'[h], r) =>
                /\ deliveries'[r] = deliveries[r] + 1
                /\ payer[r] # None /\ record[r] # None /\ UNCHANGED record

LEMMA NextTold ==
    ASSUME IInv, [Next]_vars
    PROVE  TellStep /\ \A r \in Refs : deliveries'[r] \in Nat /\ deliveries[r] <= deliveries'[r]
  <1>t. TypeOK /\ deliveries \in [Refs -> Nat]
    BY DEF IInv, TypeOK
  <1>1. TellStep
    <2>1. CASE \A g \in Handlers : handler'[g] \in {handler[g], Idle}
      BY <2>1 DEF TellStep
    <2>2. ASSUME NEW h \in Handlers, NEW next \in Handling, handler'[h] = next,
                 \A g \in Handlers \ {h} : handler'[g] = handler[g],
                 Begins(next) \/ Asks(next)
          PROVE  TellStep
      <3>1. \A r \in Refs : ~Applies(next, r)
        BY <2>2 DEF Begins, Asks, Asking, Applies, Initiation
      <3>2. QED
        BY <2>2, <3>1 DEF TellStep
    <2>3. ASSUME NEW h \in Handlers, NEW next \in Handling, handler'[h] = next,
                 \A g \in Handlers \ {h} : handler'[g] = handler[g], IsTold(next)
          PROVE  TellStep
      <3>1. ASSUME NEW r \in Refs, Applies(next, r)
            PROVE  /\ deliveries'[r] = deliveries[r] + 1
                   /\ payer[r] # None /\ record[r] # None /\ UNCHANGED record
        <4>1. payer[r] = next.vendor /\ record[r] # None /\ next.vendor \in Vendors
          BY <2>3, <3>1 DEF IsTold, Holds, Applies, Exchange
        <4>2. deliveries'[r] = deliveries[r] + 1
          BY <1>t, <2>3, <3>1 DEF IsTold, Applies
        <4>3. QED
          BY <2>3, <4>1, <4>2, NoneAssumption DEF IsTold
      <3>2. QED
        BY <2>3, <3>1 DEF TellStep
    <2>4. QED
      BY <2>1, <2>2, <2>3, NextHandlers DEF HandlerStep
  <1>2. UNCHANGED deliveries \/ \E q \in Refs : deliveries' = [deliveries EXCEPT ![q] = @ + 1]
    <2>1. ASSUME NEW h \in Handlers,
                 \E q \in Refs, said \in {"SUCCESSFUL", "FAILED", "PENDING"} : HookRead(h, q, said)
          PROVE  \E q \in Refs : deliveries' = [deliveries EXCEPT ![q] = @ + 1]
      BY <2>1 DEF HookRead
    <2>2. ASSUME \/ \E v \in Vendors : RegisterVendor(v)
                 \/ ExpiryBegin \/ Tick \/ Restart \/ UNCHANGED vars
                 \/ \E q \in Refs : Settle(q) \/ ExpireOne(q)
          PROVE  UNCHANGED deliveries
      BY <2>2 DEF RegisterVendor, ExpiryBegin, Tick, Restart, vars, Settle, ExpireOne,
                  campay
    <2>3. ASSUME NEW h \in Handlers,
                 \/ \E v \in Vendors : InitiateRegistration(h, v)
                 \/ \E v \in Vendors, cycle \in Cycles : InitiateSubscription(h, v, cycle)
                 \/ Waive(h) \/ StoreReference(h) \/ Grant(h) \/ Subscribe(h) \/ Collect(h)
                 \/ Activate(h) \/ Cancel(h) \/ Register(h)
          PROVE  UNCHANGED deliveries
      BY <2>3 DEF InitiateRegistration, InitiateSubscription, Waive, StoreReference, Grant,
                  Subscribe, Collect, Activate, Cancel, Register, campay
    <2>4. QED
      BY <2>1, <2>2, <2>3 DEF Next
  <1>3. \A r \in Refs : deliveries'[r] \in Nat /\ deliveries[r] <= deliveries'[r]
    BY <1>t, <1>2
  <1>4. QED
    BY <1>1, <1>3

LEMMA NextDeliveries ==
    IInv /\ [Next]_vars /\ DeliveryInv /\ ExpiredWhenDue => DeliveryInv' /\ ExpiredWhenDue'
  <1> SUFFICES ASSUME IInv, [Next]_vars, DeliveryInv, ExpiredWhenDue, NEW r \in Refs
               PROVE  /\ deliveries'[r] = 0 =>
                            /\ \A h \in Handlers : ~Applies(handler'[h], r)
                            /\ record'[r] # None => record'[r].status = "PENDING" \/ record'[r].free
                      /\ deliveries'[r] <= 1 =>
                            /\ \A g, h \in Handlers :
                                  Applies(handler'[g], r) /\ Applies(handler'[h], r) => g = h
                            /\ \A h \in Handlers :
                                  Applies(handler'[h], r) => record'[r].status = "PENDING"
                            /\ r \in todo' => record'[r].expiresAt < now'
                      /\ record'[r] # None /\ record'[r].status = "EXPIRED" /\ deliveries'[r] <= 1 =>
                            record'[r].expiresAt < now'
    BY DEF DeliveryInv, ExpiredWhenDue, Applies
  <1> USE DEF DeliveryInv, ExpiredWhenDue
  <1>s. Steps /\ ChangeStep(r) /\ TodoStep(r)
    BY NextSteps, NextChanges DEF Steps
  <1>d. /\ deliveries[r] \in Nat /\ deliveries'[r] \in Nat /\ deliveries[r] <= deliveries'[r]
        /\ now \in Nat /\ now' \in Nat /\ now <= now'
    BY <1>s, NextTold, TimeType DEF Steps, IInv, TypeOK
  <1>l. \A h \in Handlers : handler'[h] = Idle => ~Applies(handler'[h], r)
    BY DEF Applies, Idle
  <1>r. r \in todo => record[r] # None /\ record[r].status \in {"ACTIVE", "EXPIRED", "CANCELLED"}
    BY DEF IInv, RefInv, Reversed
  <1>e. record[r] # None => record[r].expiresAt \in Nat
    BY DEF IInv, TypeOK, Record
  <1>n. record[r] # None /\ record[r].expiresAt < now => record[r].expiresAt < now'
    BY <1>d, <1>e
  <1>1. CASE deliveries'[r] # deliveries[r]
    <2>1. record'[r] = record[r]
      BY <1>1, <1>s DEF ChangeStep, Applied
    <2>2. r \in todo' => r \in todo
      BY <1>1, <1>s DEF TodoStep
    <2>3. deliveries'[r] # 0 /\ (deliveries'[r] <= 1 => deliveries[r] = 0)
      BY <1>1, <1>d
    <2>4. ASSUME deliveries[r] = 0
          PROVE  /\ \A g, h \in Handlers :
                       Applies(handler'[g], r) /\ Applies(handler'[h], r) => g = h
                 /\ \A h \in Handlers :
                       Applies(handler'[h], r) => record[r].status = "PENDING"
      <3>1. \A h \in Handlers : ~Applies(handler[h], r)
        BY <2>4
      <3>2. CASE \A g \in Handlers : handler'[g] \in {handler[g], Idle}
        BY <1>l, <3>1, <3>2
      <3>3. ASSUME NEW h \in Handlers, \A g \in Handlers \ {h} : handler'[g] = handler[g],
                   Applies(handler'[h], r) => payer[r] # None /\ record[r] # None
            PROVE  /\ \A f, g \in Handlers :
                         Applies(handler'[f], r) /\ Applies(handler'[g], r) => f = g
                   /\ \A g \in Handlers :
                         Applies(handler'[g], r) => record[r].status = "PENDING"
        <4>1. \A g \in Handlers : Applies(handler'[g], r) => g = h
          BY <3>1, <3>3
        <4>2. Applies(handler'[h], r) => record[r].status = "PENDING"
          BY <2>4, <3>3 DEF IInv, RecordInv
        <4>3. QED
          BY <4>1, <4>2
      <3>4. QED
        BY <3>2, <3>3, NextTold DEF TellStep
    <2>5. deliveries'[r] <= 1 => deliveries[r] <= 1
      BY <1>d
    <2>6. QED
      BY <1>n, <1>r, <2>1, <2>2, <2>3, <2>4, <2>5
  <1>2. CASE deliveries'[r] = deliveries[r]
    <2>1. \A h \in Handlers : Applies(handler'[h], r) => Applies(handler[h], r)
      <3>1. deliveries'[r] # deliveries[r] + 1
        BY <1>2, <1>d
      <3>2. CASE \A g \in Handlers : handler'[g] \in {handler[g], Idle}
        BY <1>l, <3>2
      <3>3. QED
        BY <3>1, <3>2, NextTold DEF TellStep
    <2>2. deliveries[r] = 0 => deliveries[r] <= 1
      OBVIOUS
    <2>3. CASE record'[r] = record[r]
      <3>1. r \in todo' /\ deliveries[r] <= 1 => record[r].expiresAt < now'
        BY <1>n, <1>r, <1>s DEF TodoStep, Overdue
      <3>2. QED
        BY <1>2, <1>n, <2>1, <2>3, <3>1
    <2>4. CASE record[r] = None /\ (record'[r].status = "PENDING"
                                      \/ (record'[r].status = "ACTIVE" /\ record'[r].free))
      <3>1. \A h \in Handlers : ~Applies(handler[h], r)
        BY <2>4 DEF Applies, IInv, HandlerInv, Holds
      <3>2. r \notin todo'
        BY <1>r, <1>s, <2>4 DEF TodoStep, Overdue
      <3>3. QED
        BY <1>2, <2>1, <2>4, <3>1, <3>2
    <2>5. CASE /\ record'[r].status = "EXPIRED" /\ r \in todo
               /\ record'[r].expiresAt = record[r].expiresAt /\ UNCHANGED <<handler, deliveries, now>>
      <3>1. record[r] # None /\ record[r].status # "PENDING"
        BY <1>r, <2>5
      <3>2. deliveries[r] <= 1 => \A h \in Handlers : ~Applies(handler[h], r)
        BY <3>1
      <3>3. deliveries[r] = 0 => record'[r].free
        BY <1>s, <3>1, NextKept DEF KeptRecord
      <3>4. deliveries[r] <= 1 => record'[r].expiresAt < now'
        BY <2>5
      <3>5. QED
        BY <1>2, <2>1, <2>2, <3>2, <3>3, <3>4
    <2>6. ASSUME record'[r].status \in {"ACTIVE", "CANCELLED"}, NEW h \in Handlers, Applied(h, r),
                 deliveries[r] <= 1
          PROVE  /\ deliveries[r] # 0 /\ r \notin todo'
                 /\ \A g \in Handlers : ~Applies(handler'[g], r)
      <3>1. Applies(handler[h], r) /\ handler'[h] = Idle
        BY <2>6 DEF Applied
      <3>2. deliveries[r] # 0 /\ record[r].status = "PENDING"
        BY <2>6, <3>1
      <3>3. r \notin todo'
        BY <1>r, <1>s, <3>2 DEF TodoStep, Overdue
      <3>4. \A g \in Handlers : Applies(handler[g], r) => g = h
        BY <2>6, <3>1
      <3>5. QED
        BY <1>l, <2>1, <3>1, <3>2, <3>3, <3>4
    <2>7. CASE record'[r].status \in {"ACTIVE", "CANCELLED"} /\ \E h \in Handlers : Applied(h, r)
      BY <1>2, <2>2, <2>6, <2>7
    <2>8. QED
      BY <1>s, <2>3, <2>4, <2>5, <2>7 DEF ChangeStep
  <1>3. QED
    BY <1>1, <1>2

(* A subscription that the nightly task ended was overdue when it was: only a
   webhook that CamPay sent again can put a payment between the task's query
   and its transaction, which looks at no date. *)
THEOREM ExpiriesAreDue == Spec => []ExpiredWhenDue
  <1>1. Init => DeliveryInv
    BY DEF Init, DeliveryInv, Applies, Idle
  <1>2. IInv /\ DeliveryInv /\ ExpiredWhenDue /\ [Next]_vars => DeliveryInv' /\ ExpiredWhenDue'
    BY NextDeliveries
  <1>3. QED
    BY <1>1, <1>2, InitSafe, InvHolds, PTL DEF Spec

=============================================================================
