------------------------------ MODULE AuditLog ------------------------------
(***************************************************************************)
(* What the audit trail promises: an event that is raised is kept or lost,  *)
(* once and for good.  It promises no more: a raised event may be lost.     *)
(***************************************************************************)
CONSTANT Events

VARIABLE fate       \* what became of each event

Init == fate = [e \in Events |-> "none"]

Raise(e) ==
    /\ fate[e] = "none"
    /\ fate' = [fate EXCEPT ![e] = "raised"]

Keep(e) ==
    /\ fate[e] = "raised"
    /\ fate' = [fate EXCEPT ![e] = "kept"]

\* A shutdown may give up several events in one step.
Lose ==
    \E S \in SUBSET {e \in Events : fate[e] = "raised"} :
        fate' = [e \in Events |-> IF e \in S THEN "lost" ELSE fate[e]]

Next == Lose \/ \E e \in Events : Raise(e) \/ Keep(e)

Spec == Init /\ [][Next]_fate
=============================================================================
