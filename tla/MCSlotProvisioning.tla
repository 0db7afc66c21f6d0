------------------------- MODULE MCSlotProvisioning -------------------------
(* SlotProvisioning on a small instance: one tenant served before, two calls. *)
EXTENDS SlotProvisioning, TLC

Symmetry == Permutations(Calls \ Seeds) \cup Permutations(Tenants)
=============================================================================
