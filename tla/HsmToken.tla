------------------------------ MODULE HsmToken ------------------------------
(***************************************************************************)
(* What a SoftHSMClient promises its callers: every call takes effect on    *)
(* the token in one instant between its start and its return, or returns an *)
(* error and has none, but for the litter of a generation that could not be *)
(* undone; and none succeeds once the client is closed.                     *)
(* Deletion promises little: it removes one object of the label, which one  *)
(* is left open.                                                            *)
(***************************************************************************)
EXTENDS FiniteSets

CONSTANTS Labels, Workers

VARIABLES
    objects,    \* the token's objects, as <<label, class>>
    closed,     \* the client is closed
    call,       \* what each caller asked for last
    result      \* what it got: "none" while the call runs

vars == <<objects, closed, call, result>>

Pair(l) == {<<l, "priv">>, <<l, "pub">>}

Init ==
    /\ objects = {} /\ closed = FALSE
    /\ call = [w \in Workers |-> [op |-> "none", label |-> "none"]]
    /\ result = [w \in Workers |-> "ok"]

Ask(w) ==
    /\ result[w] # "none"
    /\ \E l \in Labels \cup {"none"},
         op \in {"generate", "delete", "sign", "verify", "encrypt", "decrypt", "public",
                 "list", "close"} :
           call' = [call EXCEPT ![w] = [op |-> op, label |-> l]]
    /\ result' = [result EXCEPT ![w] = "none"]
    /\ UNCHANGED <<objects, closed>>

Answer(w, r) ==
    /\ result[w] = "none"
    /\ result' = [result EXCEPT ![w] = r]
    /\ UNCHANGED call

Fail(w) == Answer(w, "error") /\ UNCHANGED <<objects, closed>>

Generate(w) ==
    /\ call[w].op = "generate" /\ ~closed
    /\ Answer(w, "ok")
    /\ objects' = objects \cup Pair(call[w].label)
    /\ UNCHANGED closed

\* A generation that fails may leave objects of its label behind.
Litter(w) ==
    /\ call[w].op = "generate" /\ ~closed
    /\ Answer(w, "error")
    /\ \E left \in SUBSET Pair(call[w].label) : objects' = objects \cup left
    /\ UNCHANGED closed

Delete(w) ==
    /\ call[w].op = "delete" /\ ~closed
    /\ Answer(w, "ok")
    /\ \E o \in objects \cap Pair(call[w].label) : objects' = objects \ {o}
    /\ UNCHANGED closed

\* A signature or a decryption shows the private key was there, a verification
\* or an encryption the public one.
Use(w) ==
    /\ \/ call[w].op \in {"sign", "decrypt"} /\ <<call[w].label, "priv">> \in objects
       \/ call[w].op \in {"verify", "encrypt", "public"} /\ <<call[w].label, "pub">> \in objects
    /\ ~closed
    /\ Answer(w, "ok")
    /\ UNCHANGED <<objects, closed>>

List(w) ==
    /\ call[w].op = "list" /\ ~closed
    /\ Answer(w, "ok")
    /\ UNCHANGED <<objects, closed>>

Close(w) ==
    /\ call[w].op = "close"
    /\ Answer(w, "ok")
    /\ closed' = TRUE
    /\ UNCHANGED objects

Next ==
    \E w \in Workers :
        \/ Ask(w) \/ Fail(w)
        \/ Generate(w) \/ Litter(w) \/ Delete(w) \/ Use(w) \/ List(w) \/ Close(w)

Spec == Init /\ [][Next]_vars
=============================================================================
