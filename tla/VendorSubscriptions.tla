------------------------- MODULE VendorSubscriptions -------------------------
(***************************************************************************)
(* Vendors pay for their account through CamPay: one registration fee, or  *)
(* subscriptions that expire.  handler[h] is an HTTP request being handled *)
(* (an initiation of the vendor or a webhook of CamPay); todo is what the  *)
(* nightly VendorExpiryTask still has to expire.  Each action is one       *)
(* statement, one transaction or one call of CamPay; handlers and the task *)
(* run in between.                                                         *)
(*                                                                         *)
(* The fees and the payment model of the platform may change at any time,  *)
(* so that each request finds them as they happen to be.                   *)
(***************************************************************************)
EXTENDS Integers, FiniteSets

CONSTANTS
    Vendors,
    Refs,          \* campayReference, VENDOR-<prefix>-<vendor>-<Date.now()>
    Handlers,      \* requests that the server can be handling at one time
    Cycles,        \* lengths of the billing cycles
    Attempts,      \* CAMPAY_MAX_ATTEMPTS, calls of CamPay before an initiation gives up
    MaxTime,       \* bound: the clock stops there
    MaxDeliveries, \* bound: webhooks about one reference that find something to do
    None

ASSUME CyclesAssumption == Cycles \subseteq Nat \ {0}
ASSUME BoundsAssumption == MaxTime \in Nat /\ MaxDeliveries \in Nat /\ Attempts \in Nat
ASSUME FiniteAssumption == IsFiniteSet(Refs)

VARIABLES
    status,          \* Vendor.status
    model,           \* Vendor.paymentModel
    registrationRef, \* Vendor.campayRegistrationRef
    record,          \* VendorSubscriptionRecord by its campayReference
    waived,          \* vendors with a no-fee activation in the audit log
    payer,           \* the vendor whom CamPay was to ask under a reference
    prompts,         \* times that it asked the vendor under the reference
    answers,         \* what the vendor has answered
    deliveries,      \* webhooks about the reference that found something to do
    now,
    todo,
    handler

account == <<status, model, registrationRef, waived>>
campay == <<payer, prompts, answers, deliveries>>
vars == <<status, model, registrationRef, record, waived, payer, prompts, answers,
          deliveries, now, todo, handler>>

Models == {"ONE_TIME", "SUBSCRIPTION"}
Statuses == {"absent", "PENDING_PAYMENT", "ACTIVE", "SUBSCRIPTION_EXPIRED"}
Time == 0..MaxTime
Record == [vendor : Vendors, cycle : Cycles, free : BOOLEAN, expiresAt : Nat,
           status : {"PENDING", "ACTIVE", "CANCELLED", "EXPIRED"}]
Idle == [pc |-> "idle"]
Initiation == [pc : {"waive", "reference", "grant", "subscribe"}, vendor : Vendors,
               cycle : Cycles \cup {None}, since : Time]
Exchange == [pc : {"collect", "activate", "cancel", "register"}, vendor : Vendors,
             ref : Refs, since : Time]

ASSUME NoneAssumption == None \notin Vendors \cup Refs \cup Cycles \cup Record \cup Models

TypeOK ==
    /\ status \in [Vendors -> Statuses]
    /\ model \in [Vendors -> Models \cup {None}]
    /\ registrationRef \in [Vendors -> Refs \cup {None}]
    /\ record \in [Refs -> Record \cup {None}]
    /\ waived \in SUBSET Vendors
    /\ payer \in [Refs -> Vendors \cup {None}]
    /\ prompts \in [Refs -> Nat]
    /\ answers \in [Refs -> SUBSET {"paid", "refused"}]
    /\ deliveries \in [Refs -> Nat]
    /\ now \in Time
    /\ todo \in SUBSET Refs
    /\ handler \in [Handlers -> Initiation \cup Exchange \cup {Idle}]

Init ==
    /\ status = [v \in Vendors |-> "absent"]
    /\ model = [v \in Vendors |-> None]
    /\ registrationRef = [v \in Vendors |-> None]
    /\ record = [r \in Refs |-> None]
    /\ waived = {}
    /\ payer = [r \in Refs |-> None]
    /\ prompts = [r \in Refs |-> 0]
    /\ answers = [r \in Refs |-> {}]
    /\ deliveries = [r \in Refs |-> 0]
    /\ now = 0
    /\ todo = {}
    /\ handler = [h \in Handlers |-> Idle]

Goto(h, next) == handler' = [handler EXCEPT ![h] = next]
Done(h) == Goto(h, Idle)

(* VendorAuthService.registerVendor: a user and the vendor, in one transaction. *)
RegisterVendor(v) ==
    /\ status[v] = "absent"
    /\ status' = [status EXCEPT ![v] = "PENDING_PAYMENT"]
    /\ \E m \in Models : model' = [model EXCEPT ![v] = m]
    /\ UNCHANGED <<registrationRef, record, waived, campay, now, todo, handler>>

-----------------------------------------------------------------------------
(* VendorPaymentsService.initiateOneTimeRegistrationPayment. *)

(* The vendor and then the fee are read; a fee of zero is waived. *)
InitiateRegistration(h, v) ==
    /\ handler[h] = Idle
    /\ status[v] = "PENDING_PAYMENT"
    /\ model[v] = "ONE_TIME"
    /\ \E point \in {"waive", "reference"} :
          Goto(h, [pc |-> point, vendor |-> v, cycle |-> None, since |-> now])
    /\ UNCHANGED <<account, record, campay, now, todo>>

Waive(h) ==
    LET v == handler[h].vendor
    IN  /\ handler[h].pc = "waive"
        /\ status' = [status EXCEPT ![v] = "ACTIVE"]
        /\ registrationRef' = [registrationRef EXCEPT ![v] = None]
        /\ waived' = waived \cup {v}
        /\ Done(h)
        /\ UNCHANGED <<model, record, campay, now, todo>>

Unused(r) == payer[r] = None /\ record[r] = None

(* The new reference takes the place of one that CamPay may still be asking
   the vendor about, whatever the status is by now. *)
StoreReference(h) ==
    LET v == handler[h].vendor
    IN  /\ handler[h].pc = "reference"
        /\ \E r \in Refs :
            /\ Unused(r)
            /\ registrationRef' = [registrationRef EXCEPT ![v] = r]
            /\ payer' = [payer EXCEPT ![r] = v]
            /\ Goto(h, [pc |-> "collect", vendor |-> v, ref |-> r, since |-> handler[h].since])
        /\ UNCHANGED <<status, model, record, waived, prompts, answers, deliveries, now,
                       todo>>

(* CampayService calls CamPay again after a time-out or a status that may pass, so
   that the vendor can be asked several times, or never; the request ends either
   way, and an error changes nothing that is stored. *)
Collect(h) ==
    /\ handler[h].pc = "collect"
    /\ \E asked \in 0..Attempts : prompts' = [prompts EXCEPT ![handler[h].ref] = asked]
    /\ Done(h)
    /\ UNCHANGED <<account, record, payer, answers, deliveries, now, todo>>

-----------------------------------------------------------------------------
(* VendorPaymentsService.initiateSubscription. *)

InitiateSubscription(h, v, cycle) ==
    /\ handler[h] = Idle
    /\ status[v] \in {"PENDING_PAYMENT", "ACTIVE", "SUBSCRIPTION_EXPIRED"}
    /\ model[v] = "SUBSCRIPTION"
    /\ \E point \in {"grant", "subscribe"} :
          Goto(h, [pc |-> point, vendor |-> v, cycle |-> cycle, since |-> now])
    /\ UNCHANGED <<account, record, campay, now, todo>>

NewRecord(h, state, expiry) ==
    [vendor |-> handler[h].vendor, cycle |-> handler[h].cycle, free |-> state = "ACTIVE",
     expiresAt |-> expiry, status |-> state]

(* A price of zero: record and vendor are active at once. *)
Grant(h) ==
    LET v == handler[h].vendor
    IN  /\ handler[h].pc = "grant"
        /\ \E r \in Refs :
            /\ Unused(r)
            /\ record' = [record EXCEPT ![r] =
                            NewRecord(h, "ACTIVE", handler[h].since + handler[h].cycle)]
        /\ status' = [status EXCEPT ![v] = "ACTIVE"]
        /\ waived' = waived \cup {v}
        /\ Done(h)
        /\ UNCHANGED <<model, registrationRef, campay, now, todo>>

Subscribe(h) ==
    LET v == handler[h].vendor
    IN  /\ handler[h].pc = "subscribe"
        /\ \E r \in Refs :
            /\ Unused(r)
            /\ record' = [record EXCEPT ![r] = NewRecord(h, "PENDING", 0)]
            /\ payer' = [payer EXCEPT ![r] = v]
            /\ Goto(h, [pc |-> "collect", vendor |-> v, ref |-> r, since |-> handler[h].since])
        /\ UNCHANGED <<account, prompts, answers, deliveries, now, todo>>

-----------------------------------------------------------------------------
(* CamPay and VendorPaymentsService.handleVendorPaymentWebhook. *)

(* The vendor confirms a prompt on the phone, or not. *)
Settle(r) ==
    /\ Cardinality(answers[r]) < prompts[r]
    /\ \E answer \in {"paid", "refused"} : answers' = [answers EXCEPT ![r] = @ \cup {answer}]
    /\ UNCHANGED <<account, record, payer, prompts, deliveries, now, todo, handler>>

(* A webhook tells of one prompt, is late or comes again; it may also tell that
   the vendor has not answered yet.  When the vendor was asked twice, the refusal
   of one prompt can be told after the payment of the other. *)
Reports(r, said) ==
    CASE said = "SUCCESSFUL" -> "paid" \in answers[r]
      [] said = "FAILED" -> "refused" \in answers[r]
      [] said = "PENDING" -> prompts[r] > 0

(* Mutant of OfSubscription: what has not failed is taken as paid. *)
OfSubscriptionOptimistic(r, said) ==
    IF record[r] = None THEN "none" ELSE IF said = "FAILED" THEN "cancel" ELSE "activate"

(* A subscription is looked for under the reference first... *)
OfSubscription(r, said) ==
    IF record[r] = None THEN "none"
    ELSE CASE said = "SUCCESSFUL" -> "activate" [] said = "FAILED" -> "cancel"
           [] said = "PENDING" -> "none"

(* ... and then the vendor who has it as the registration reference. *)
OfRegistration(r, said) ==
    IF record[r] = None /\ said = "SUCCESSFUL"
       /\ (\E v \in Vendors : registrationRef[v] = r)
    THEN "register" ELSE "none"

(* The payload is looked up by its field reference, and by external_reference only
   without one: a payload that has CamPay's own identifier as its reference finds
   nobody.  Such a webhook is answered with an error and changes nothing, as one that
   never comes, and so does one that tells of a refused registration or of a
   pending payment: the action is a webhook that finds something to do, and none of
   them has to come. *)
HookRead(h, r, said) ==
    LET points == {OfSubscription(r, said), OfRegistration(r, said)} \ {"none"}
    IN  /\ handler[h] = Idle
        /\ Reports(r, said)
        /\ deliveries[r] < MaxDeliveries
        /\ deliveries' = [deliveries EXCEPT ![r] = @ + 1]
        /\ \E point \in points :
              Goto(h, [pc |-> point, vendor |-> payer[r], ref |-> r, since |-> now])
        /\ UNCHANGED <<account, record, payer, prompts, answers, now, todo>>

(* The transaction of a success looks at no status: the record can have been
   active, expired or cancelled. *)
Activate(h) ==
    LET r == handler[h].ref
    IN  /\ handler[h].pc = "activate"
        /\ record' = [record EXCEPT ![r].status = "ACTIVE",
                                    ![r].expiresAt = handler[h].since + record[r].cycle]
        /\ status' = [status EXCEPT ![handler[h].vendor] = "ACTIVE"]
        /\ Done(h)
        /\ UNCHANGED <<model, registrationRef, waived, campay, now, todo>>

(* Mutant of Cancel: the status is stored as CamPay calls it. *)
CancelRaw(h) ==
    /\ handler[h].pc = "cancel"
    /\ record' = [record EXCEPT ![handler[h].ref].status = "FAILED"]
    /\ Done(h)
    /\ UNCHANGED <<account, campay, now, todo>>

Cancel(h) ==
    /\ handler[h].pc = "cancel"
    /\ record' = [record EXCEPT ![handler[h].ref].status = "CANCELLED"]
    /\ Done(h)
    /\ UNCHANGED <<account, campay, now, todo>>

(* Mutant of Register: the reference is cleared and the status forgotten. *)
RegisterSilently(h) ==
    /\ handler[h].pc = "register"
    /\ registrationRef' = [registrationRef EXCEPT ![handler[h].vendor] = None]
    /\ Done(h)
    /\ UNCHANGED <<status, model, record, waived, campay, now, todo>>

(* The reference is cleared, be it another one by now. *)
Register(h) ==
    LET v == handler[h].vendor
    IN  /\ handler[h].pc = "register"
        /\ status' = [status EXCEPT ![v] = "ACTIVE"]
        /\ registrationRef' = [registrationRef EXCEPT ![v] = None]
        /\ Done(h)
        /\ UNCHANGED <<model, record, waived, campay, now, todo>>

-----------------------------------------------------------------------------
(* VendorExpiryTask.expireOverdueSubscriptions. *)

(* Mutant of Overdue: the last day is not granted. *)
OverdueEarly(r) ==
    record[r] # None /\ record[r].status = "ACTIVE" /\ record[r].expiresAt <= now

Overdue(r) == record[r] # None /\ record[r].status = "ACTIVE" /\ record[r].expiresAt < now

(* The nightly query (a night on which it finds nothing changes nothing)... *)
ExpiryBegin ==
    /\ todo = {}
    /\ \E r \in Refs : Overdue(r)
    /\ todo' = {r \in Refs : Overdue(r)}
    /\ UNCHANGED <<account, record, campay, now, handler>>

(* Mutant of ExpireOne: the vendor's status is not written. *)
ExpireRecordOnly(r) ==
    /\ r \in todo
    /\ record' = [record EXCEPT ![r].status = "EXPIRED"]
    /\ todo' \in {todo \ {r}, {}}
    /\ UNCHANGED <<account, campay, now, handler>>

(* ... and one transaction for each record it found, whatever was paid since.
   The mail that follows may throw, and then the task is over. *)
ExpireOne(r) ==
    /\ r \in todo
    /\ record' = [record EXCEPT ![r].status = "EXPIRED"]
    /\ status' = [status EXCEPT ![record[r].vendor] = "SUBSCRIPTION_EXPIRED"]
    /\ todo' \in {todo \ {r}, {}}
    /\ UNCHANGED <<model, registrationRef, waived, campay, now, handler>>

-----------------------------------------------------------------------------
Tick ==
    /\ now < MaxTime
    /\ now' = now + 1
    /\ UNCHANGED <<account, record, campay, todo, handler>>

Restart ==
    /\ todo' = {}
    /\ handler' = [h \in Handlers |-> Idle]
    /\ UNCHANGED <<account, record, campay, now>>

Next ==
    \/ \E v \in Vendors : RegisterVendor(v)
    \/ \E h \in Handlers :
        \/ \E v \in Vendors : InitiateRegistration(h, v)
        \/ \E v \in Vendors, cycle \in Cycles : InitiateSubscription(h, v, cycle)
        \/ \E r \in Refs, said \in {"SUCCESSFUL", "FAILED", "PENDING"} : HookRead(h, r, said)
        \/ Waive(h) \/ StoreReference(h) \/ Grant(h) \/ Subscribe(h) \/ Collect(h)
        \/ Activate(h) \/ Cancel(h) \/ Register(h)
    \/ \E r \in Refs : Settle(r) \/ ExpireOne(r)
    \/ ExpiryBegin \/ Tick \/ Restart

Spec == Init /\ [][Next]_vars

(* The scheduler starts the task every night, and the server does not stop in
   every one of its runs before the first transaction. *)
FairSpec ==
    /\ Spec
    /\ WF_vars(ExpiryBegin)
    /\ SF_vars(\E r \in Refs : ExpireOne(r))

-----------------------------------------------------------------------------
RecordsOf(v, state) ==
    {r \in Refs : record[r] # None /\ record[r].vendor = v /\ record[r].status = state}

(* An account is opened only for money or by a waiver: whatever webhooks say of
   references that were replaced, repeated or never answered, a vendor past
   PENDING_PAYMENT has a payment that CamPay collected for that vendor. *)
ActivatedMeansPaid ==
    \A v \in Vendors :
        status[v] \in {"ACTIVE", "SUBSCRIPTION_EXPIRED"} =>
            v \in waived \/ \E r \in Refs : payer[r] = v /\ "paid" \in answers[r]

(* Subscriptions that were paid, and cancelled for another prompt that was refused. *)
Overturned(v) == {r \in RecordsOf(v, "CANCELLED") : {"paid", "refused"} \subseteq answers[r]}

(* The status of a subscriber is one that the records explain, although the
   webhooks and the nightly task write both over one another: ACTIVE needs an
   active record, SUBSCRIPTION_EXPIRED an expired one, and before the first
   payment there is neither.  Only a late FAILED webhook takes such a record
   away, as it leaves the vendor as it is. *)
StatusFollowsRecords ==
    \A v \in Vendors : model[v] = "SUBSCRIPTION" =>
        /\ status[v] = "ACTIVE" => RecordsOf(v, "ACTIVE") \cup Overturned(v) # {}
        /\ status[v] = "SUBSCRIPTION_EXPIRED" => RecordsOf(v, "EXPIRED") \cup Overturned(v) # {}
        /\ status[v] = "PENDING_PAYMENT" =>
              RecordsOf(v, "ACTIVE") \cup RecordsOf(v, "EXPIRED") = {}

(* A subscription that is expired was overdue.  Only a webhook that came again
   between the query of the task and its transaction can put the end of an
   expired record into the future. *)
ExpiredWhenDue ==
    \A r \in Refs :
        record[r] # None /\ record[r].status = "EXPIRED" /\ deliveries[r] <= 1 =>
            record[r].expiresAt < now

(* No vendor is stranded by the reference that a webhook clears: one who was to be
   asked for the registration fee and whose account is not open has a reference
   stored, and it is one under which CamPay was to ask this vendor.  (Which of several
   it is, and whether a webhook names it, is not promised: the latest initiation
   replaces it, and a payload with CamPay's own reference finds nobody.) *)
WaitingVendorHasReference ==
    \A v \in Vendors :
        /\ model[v] = "ONE_TIME" /\ status[v] = "PENDING_PAYMENT"
        /\ \E r \in Refs : payer[r] = v
        => \E r \in Refs : registrationRef[v] = r /\ payer[r] = v

(* A subscriber for whom nothing current is paid... *)
Lapsed(v) ==
    /\ model[v] = "SUBSCRIPTION" /\ status[v] = "ACTIVE"
    /\ \A r \in RecordsOf(v, "ACTIVE") : Overdue(r)

(* ... does not stay ACTIVE, even if each night's run ends with an error after its
   first record, except in one case: a late FAILED webhook cancelled the last record
   that the task would have found, and left the vendor. *)
LapsedVendorsExpire ==
    \A v \in Vendors :
        Lapsed(v) ~> ~Lapsed(v) \/ (RecordsOf(v, "ACTIVE") = {} /\ Overturned(v) # {})
=============================================================================
