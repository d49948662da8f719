----------------------------- MODULE Collections -----------------------------
(***************************************************************************)
(* What the collection of contributions promises, whatever it takes to     *)
(* keep it: a payment becomes a contribution only after its money came,    *)
(* only a contribution made directly does without, the vault counts each   *)
(* once, and the balance grows only by contributions.  None of these is    *)
(* ever undone.                                                            *)
(***************************************************************************)
EXTENDS Integers, FiniteSets

CONSTANTS
    Payers, \* contributions that can be made
    Unpaid, \* those of them that are made directly, without a payment
    Worth   \* of each contribution

VARIABLES
    collected, \* those for which the provider has the money
    recorded,  \* those that are recorded
    tally,     \* times that the vault counted each
    total      \* the cooperative's balance

vars == <<collected, recorded, tally, total>>

Init ==
    /\ collected = {} /\ recorded = {}
    /\ tally = [p \in Payers |-> 0]
    /\ total = 0

Collect(p) ==
    /\ collected' = collected \cup {p}
    /\ UNCHANGED <<recorded, tally, total>>

Record(p) ==
    /\ p \in collected \cup Unpaid
    /\ recorded' = recorded \cup {p}
    /\ UNCHANGED <<collected, tally, total>>

Count(p) ==
    /\ p \in recorded
    /\ tally[p] = 0
    /\ tally' = [tally EXCEPT ![p] = 1]
    /\ UNCHANGED <<collected, recorded, total>>

Book ==
    /\ total + Worth <= Worth * Cardinality(recorded)
    /\ total' = total + Worth
    /\ UNCHANGED <<collected, recorded, tally>>

Next == Book \/ \E p \in Payers : Collect(p) \/ Record(p) \/ Count(p)

Spec == Init /\ [][Next]_vars
=============================================================================
