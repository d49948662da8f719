---------------------------- MODULE MCMemberships ----------------------------
(* Memberships for TLC.  Users, invitations and handlers are interchangeable. *)
EXTENDS Memberships, TLC

Symmetry == Permutations(Users) \cup Permutations(Invitations) \cup Permutations(Handlers)
=============================================================================
