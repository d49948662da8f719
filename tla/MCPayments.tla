----------------------------- MODULE MCPayments -----------------------------
(* Instances of Payments for TLC. *)
EXTENDS Payments, TLC

(* Contributions of one kind are interchangeable, and so are the requests being
   handled. *)
Symmetry == Permutations(Keys \ Direct) \cup Permutations(Direct) \cup Permutations(Handlers)
=============================================================================
