---------------------------- MODULE MCHsmClient -----------------------------
(* HsmClient on a small instance: two labels, two goroutines. *)
EXTENDS HsmClient
=============================================================================
