------------------------------ MODULE KeyStore ------------------------------
(***************************************************************************)
(* What the key service promises its callers, as one atomic store: a key is *)
(* minted once for one tenant and one usage, it signs for that tenant and   *)
(* usage while it lives, and once retired it never signs again.  The two    *)
(* stores, the order of the steps and the failures are KeyLifecycle's.      *)
(***************************************************************************)
CONSTANTS Keys, Tenants, Usages, Workers, NoAnswer

VARIABLES
    minted,     \* the keys that exist or existed: id -> [tenant, usage]
    retired,    \* the minted keys that no longer sign
    answer      \* the signature each caller is being given

vars == <<minted, retired, answer>>

Init ==
    /\ minted = [k \in {} |-> NoAnswer]
    /\ retired = {}
    /\ answer = [w \in Workers |-> NoAnswer]

Mint(k) ==
    /\ k \notin DOMAIN minted
    /\ \E t \in Tenants, u \in Usages :
           minted' = [i \in DOMAIN minted \cup {k} |->
                         IF i = k THEN [tenant |-> t, usage |-> u] ELSE minted[i]]
    /\ UNCHANGED <<retired, answer>>

Retire(k) ==
    /\ k \in DOMAIN minted \ retired
    /\ retired' = retired \cup {k}
    /\ UNCHANGED <<minted, answer>>

Sign(w, k) ==
    /\ k \in DOMAIN minted \ retired
    /\ minted[k].usage \in {"SIGNING", "BOTH"}
    /\ answer[w] = NoAnswer
    /\ answer' = [answer EXCEPT ![w] = [key |-> k, tenant |-> minted[k].tenant]]
    /\ UNCHANGED <<minted, retired>>

Deliver(w) ==
    /\ answer' = [answer EXCEPT ![w] = NoAnswer]
    /\ UNCHANGED <<minted, retired>>

LoseAnswers ==
    /\ answer' = [w \in Workers |-> NoAnswer]
    /\ UNCHANGED <<minted, retired>>

Next ==
    \/ \E k \in Keys : Mint(k) \/ Retire(k)
    \/ \E w \in Workers : Deliver(w) \/ \E k \in Keys : Sign(w, k)
    \/ LoseAnswers

Spec == Init /\ [][Next]_vars
=============================================================================
