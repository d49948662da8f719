------------------------------ MODULE MCRelay -------------------------------
(* Instances of Relay for TLC. *)
EXTENDS Relay, TLC

(* Members, and the calls of the relayer, are interchangeable. *)
Symmetry == Permutations(Members) \cup Permutations(Relays)
=============================================================================
