--------------------------- MODULE MCEventListener ---------------------------
(* Payments with the event listener for TLC, and what both refine. *)
EXTENDS EventListener, PaymentsRefinement, TLC

(* Contributions of one kind are interchangeable, and so are the requests being
   handled. *)
Symmetry == Permutations(Keys \ Direct) \cup Permutations(Direct) \cup Permutations(Handlers)
=============================================================================
