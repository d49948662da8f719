---------------------------- MODULE Disbursement ----------------------------
(***************************************************************************)
(* What a disbursement promises to the members: the vote agrees first, a   *)
(* transfer is ordered only then, the provider accepts what was ordered,   *)
(* and a withdrawal is booked only when one of its orders was accepted.    *)
(* None of these is ever undone.                                           *)
(***************************************************************************)
CONSTANTS Withdrawals, Orders, NoOne

VARIABLES
    agreed,   \* withdrawals that the vote agreed to
    purpose,  \* the withdrawal that an order was made for
    accepted, \* orders that the provider accepted
    booked    \* withdrawals taken from the balance

vars == <<agreed, purpose, accepted, booked>>

Init ==
    /\ agreed = {} /\ accepted = {} /\ booked = {}
    /\ purpose = [o \in Orders |-> NoOne]

Agree(w) ==
    /\ agreed' = agreed \cup {w}
    /\ UNCHANGED <<purpose, accepted, booked>>

Order(w, o) ==
    /\ w \in agreed
    /\ purpose[o] = NoOne
    /\ purpose' = [purpose EXCEPT ![o] = w]
    /\ UNCHANGED <<agreed, accepted, booked>>

Accept(o) ==
    /\ purpose[o] # NoOne
    /\ accepted' = accepted \cup {o}
    /\ UNCHANGED <<agreed, purpose, booked>>

Book(w) ==
    /\ \E o \in accepted : purpose[o] = w
    /\ booked' = booked \cup {w}
    /\ UNCHANGED <<agreed, purpose, accepted>>

Next ==
    \/ \E w \in Withdrawals : Agree(w) \/ Book(w) \/ \E o \in Orders : Order(w, o)
    \/ \E o \in Orders : Accept(o)

Spec == Init /\ [][Next]_vars
=============================================================================
