-------------------------- MODULE CooperativeVault --------------------------
(***************************************************************************)
(* The contract that keeps the accounts and the votes of one cooperative.  *)
(* A vault is a record; each function of the contract is a guard (what it  *)
(* requires, else the call reverts and changes nothing) and the vault that *)
(* it leaves.  Members sign what they ask for: the member of contribute,   *)
(* the creator of createProposal and the voter of vote are the signer.     *)
(***************************************************************************)
EXTENDS Integers, Sequences, FiniteSets

CONSTANTS
    Members,     \* addresses of the members
    BallotFloor  \* a proposal needs more ballots than this (5 in the source)

ASSUME VaultMembersAssumption == IsFiniteSet(Members)
ASSUME BallotFloorAssumption == BallotFloor \in Nat

Proposal == [yes : Nat, no : Nat, resolved : BOOLEAN, approved : BOOLEAN,
             voters : SUBSET Members]

Vault == [total : Nat, contributed : [Members -> Nat], proposals : Seq(Proposal)]

EmptyVault ==
    [total |-> 0, contributed |-> [m \in Members |-> 0], proposals |-> <<>>]

(* Mutant of Contribute: the total is forgotten. *)
ContributeToMember(vault, member, amount) ==
    [vault EXCEPT !.contributed[member] = @ + amount]

Contribute(vault, member, amount) ==
    [vault EXCEPT !.total = @ + amount,
                  !.contributed[member] = @ + amount]

NewProposal == [yes |-> 0, no |-> 0, resolved |-> FALSE, approved |-> FALSE,
                voters |-> {}]

CreateProposal(vault) ==
    [vault EXCEPT !.proposals = Append(@, NewProposal)]

(* The count that the contract calls proposalCount. *)
ProposalCount(vault) == Len(vault.proposals)

(* Mutant of CanVote: a resolved proposal still takes ballots. *)
CanVoteLate(vault, voter, id) ==
    /\ id \in 1..ProposalCount(vault)
    /\ voter \notin vault.proposals[id].voters

CanVote(vault, voter, id) ==
    /\ id \in 1..ProposalCount(vault)
    /\ voter \notin vault.proposals[id].voters
    /\ ~vault.proposals[id].resolved

(* A ballot that brings the count above the floor resolves the proposal,
   unless the two sides are even. *)
Resolves(yes, no) == yes + no > BallotFloor /\ yes # no

(* Mutant of Counted: hasVoted is set for msg.sender, which is the relayer. *)
CountedForSender(proposal, voter, choice) ==
    LET yes == proposal.yes + (IF choice THEN 1 ELSE 0)
        no == proposal.no + (IF choice THEN 0 ELSE 1)
    IN  [yes |-> yes, no |-> no,
         resolved |-> Resolves(yes, no),
         approved |-> Resolves(yes, no) /\ yes > no,
         voters |-> proposal.voters]

Counted(proposal, voter, choice) ==
    LET yes == proposal.yes + (IF choice THEN 1 ELSE 0)
        no == proposal.no + (IF choice THEN 0 ELSE 1)
    IN  [yes |-> yes, no |-> no,
         resolved |-> Resolves(yes, no),
         approved |-> Resolves(yes, no) /\ yes > no,
         voters |-> proposal.voters \cup {voter}]

Vote(vault, voter, id, choice) ==
    [vault EXCEPT !.proposals[id] = Counted(@, voter, choice)]

(* releaseFunds changes nothing: it only checks, and emits an event. *)
CanRelease(vault, id) ==
    /\ id \in 1..ProposalCount(vault)
    /\ vault.proposals[id].resolved
    /\ vault.proposals[id].approved
=============================================================================
