---------------------------- MODULE MCJwksCache -----------------------------
(* JwksCache on a small instance: two keys, two goroutines. *)
EXTENDS JwksCache
=============================================================================
