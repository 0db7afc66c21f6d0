---------------------------- MODULE MCAuditTrail ----------------------------
(* AuditTrail on a small instance: more requests than the buffer holds. *)
EXTENDS AuditTrail
=============================================================================
