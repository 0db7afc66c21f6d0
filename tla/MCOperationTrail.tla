-------------------------- MODULE MCOperationTrail --------------------------
(* OperationTrail on a small instance: two requests, two tenants and a key.   *)
(* The tenants are alike, so that the first request may have a fixed one.     *)
EXTENDS OperationTrail

CONSTANTS r1, t1

MCTokens == [r \in Requests |-> IF r = r1 THEN {t1} ELSE Tenants]
=============================================================================
