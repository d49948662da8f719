----------------------------- MODULE Governance -----------------------------
(***************************************************************************)
(* The two tallies of the backend, as pure operators over counts.          *)
(*                                                                         *)
(* A proposal is tallied twice.  votes.service.ts counts every ballot over *)
(* every member (proposals.service.ts, computeStatus); for a withdrawal,   *)
(* withdrawals.service.ts then counts the ballots of the members who have  *)
(* a confirmed contribution (evaluateWithdrawalThreshold).  Both read the  *)
(* same percentage, but only the second has a quorum.                      *)
(*                                                                         *)
(* The code divides and multiplies by 100 in floating point.  The operator *)
(* compares exactly: the two agree for every integer percentage and every  *)
(* electorate of fewer than 50 people.                                     *)
(***************************************************************************)
EXTENDS Integers

CONSTANTS
    Threshold,  \* percentage of yes that approves (withdrawalThreshold)
    QuorumMin   \* ballots needed before a withdrawal is decided

ASSUME ThresholdAssumption == Threshold \in 1..100
ASSUME QuorumAssumption == QuorumMin \in Nat \ {0}

ReachesThreshold(yes, electorate) == yes * 100 >= Threshold * electorate

(* computeStatus: the status written on the proposal after every ballot. *)
ComputedStatus(members, yes, no) ==
    IF members = 0 THEN "PENDING"
    ELSE IF ReachesThreshold(yes, members) THEN "APPROVED"
    ELSE IF ~ReachesThreshold(members - no, members) THEN "REJECTED"
    ELSE "PENDING"

(* Mutant of Verdict: the members who have not voted yet are forgotten. *)
VerdictOfCast(eligible, yes, no) ==
    IF eligible = 0 THEN "rejected"
    ELSE IF yes + no < QuorumMin THEN "open"
    ELSE IF ReachesThreshold(yes, eligible) THEN "approved"
    ELSE "rejected"

(* evaluateWithdrawalThreshold: the decision on a withdrawal. *)
Verdict(eligible, yes, no) ==
    IF eligible = 0 THEN "rejected"
    ELSE IF yes + no < QuorumMin THEN "open"
    ELSE IF ReachesThreshold(yes, eligible) THEN "approved"
    ELSE IF ~ReachesThreshold(eligible - no, eligible) THEN "rejected"
    ELSE "open"
=============================================================================
