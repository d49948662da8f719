------------------------ MODULE MCVendorSubscriptions ------------------------
(* VendorSubscriptions for TLC.  Liveness is checked, so no symmetry. *)
EXTENDS VendorSubscriptions

MCCycles == {1}
=============================================================================
