--------------------------- MODULE MCKeyLifecycle ---------------------------
(* KeyLifecycle on a small instance: two goroutines, two tenants, two keys. *)
EXTENDS KeyLifecycle, TLC

Symmetry == Permutations(Keys) \cup Permutations(Tenants) \cup Permutations(Workers)
=============================================================================
