---------------------------- MODULE KeyLifecycle ----------------------------
(***************************************************************************)
(* The life of a signing key across its two stores: the token objects the   *)
(* HSM holds under the key's label, and the row of crypto_keys that names   *)
(* the label.  keyService creates, rotates and deletes keys and             *)
(* signingService signs with them; each call is a goroutine that touches    *)
(* the two stores one statement at a time, without a transaction across     *)
(* them and without a lock.  A step of a request below is one such          *)
(* statement, so requests interleave between any two of them.               *)
(*                                                                          *)
(* A key k stands for the row's uuid and for the label "tenant_name_uuid8"  *)
(* it was generated under: both are drawn fresh per creation.               *)
(*                                                                          *)
(* Faults lists what may go wrong: "db" a statement fails and does nothing  *)
(* (also what a cancelled request context does), "commit" a statement takes *)
(* effect and its reply is lost, "hsm" a PKCS#11 call fails, "busy" the     *)
(* search for a private key fails because another goroutine's operation is  *)
(* active on the shared session, "crash" the process dies and restarts.     *)
(***************************************************************************)
EXTENDS FiniteSets

CONSTANTS
    Keys,       \* uuids (and labels) a creation may draw
    Tenants,
    Workers,    \* request goroutines
    Usages,     \* the KeyUsage values callers ask for
    Faults,     \* the kinds of failure the environment may inject
    NoKey, NoTenant

ASSUME NoKeyAssumption == NoKey \notin Keys
ASSUME NoTenantAssumption == NoTenant \notin Tenants
ASSUME UsagesAssumption == Usages \subseteq {"SIGNING", "ENCRYPTION", "BOTH"}
ASSUME FaultsAssumption == Faults \subseteq {"db", "commit", "hsm", "busy", "crash"}

VARIABLES
    priv,       \* labels whose private-key object is on the token
    pub,        \* labels whose public-key object is on the token
    rows,       \* crypto_keys: id -> [tenant, usage, active]
    pc,         \* what each goroutine does next
    req,        \* the locals of each goroutine
    born,       \* history: labels the HSM generated a pair for
    minted,     \* history: tenant and usage of every id that ever had a row
    told,       \* history: ids a create or a rotation returned to its caller
    deleted,    \* history: ids whose DeleteKey returned nil
    leaked,     \* history: ids a failure left without a row but with a private key
    hollow,     \* history: ids a failure left with a row but without a private key
    untold      \* history: ids a failure left with a row nobody was told of

hsmVars == <<priv, pub>>
faultVars == <<leaked, hollow, untold>>
history == <<born, minted, told, deleted>>
vars == <<priv, pub, rows, pc, req, born, minted, told, deleted,
          leaked, hollow, untold>>

Row == [tenant : Tenants, usage : Usages, active : BOOLEAN]
Mint == [tenant : Tenants, usage : Usages]

Request == [op     : {"none", "create", "rotate", "delete", "sign"},
            tenant : Tenants \cup {NoTenant},
            key    : Keys \cup {NoKey},     \* the key the caller names
            new    : Keys \cup {NoKey},     \* the key a creation draws
            usage  : Usages \cup {"none"},
            named  : BOOLEAN,               \* the key's name is not empty
            late   : BOOLEAN]               \* history: begun after key was deleted

Steps == {"idle", "find", "slot", "generate", "save", "unwind", "slot2",
          "deactivate", "unwindHSM", "unwindRow", "hsmDelete", "deleteRow",
          "sign", "signed"}

NoRequest == [op |-> "none", tenant |-> NoTenant, key |-> NoKey, new |-> NoKey,
              usage |-> "none", named |-> TRUE, late |-> FALSE]

TypeOK ==
    /\ priv \subseteq Keys
    /\ pub \subseteq Keys
    /\ DOMAIN rows \subseteq Keys
    /\ rows \in [DOMAIN rows -> Row]
    /\ pc \in [Workers -> Steps]
    /\ req \in [Workers -> Request]
    /\ born \subseteq Keys
    /\ DOMAIN minted \subseteq Keys
    /\ minted \in [DOMAIN minted -> Mint]
    /\ told \subseteq Keys
    /\ deleted \subseteq Keys
    /\ leaked \subseteq Keys
    /\ hollow \subseteq Keys
    /\ untold \subseteq Keys

Init ==
    /\ priv = {} /\ pub = {}
    /\ rows = [k \in {} |-> NoRequest]
    /\ pc = [w \in Workers |-> "idle"]
    /\ req = [w \in Workers |-> NoRequest]
    /\ born = {} /\ told = {} /\ deleted = {}
    /\ minted = [k \in {} |-> NoRequest]
    /\ leaked = {} /\ hollow = {} /\ untold = {}

----------------------------------------------------------------------------
(* Shared steps. *)

Goto(w, from, to) ==
    /\ pc[w] = from
    /\ pc' = [pc EXCEPT ![w] = to]

\* The request returns: its goroutine and its locals are gone.
Return(w, from) ==
    /\ Goto(w, from, "idle")
    /\ req' = [req EXCEPT ![w] = NoRequest]

Fresh(k) == k \notin born /\ \A w \in Workers : req[w].new # k

Insert(k, row) ==
    rows' = [i \in DOMAIN rows \cup {k} |-> IF i = k THEN row ELSE rows[i]]

Remove(k) == rows' = [i \in DOMAIN rows \ {k} |-> rows[i]]

\* SoftHSMClient.DeleteKey destroys ONE object: the private key or, when the
\* search for it failed for any reason, the public key.
DestroyObject(k) ==
    \/ k \in priv /\ priv' = priv \ {k} /\ UNCHANGED pub
    \/ k \in pub /\ (k \notin priv \/ "busy" \in Faults)
       /\ pub' = pub \ {k} /\ UNCHANGED priv

DestroyFails(k) ==
    /\ k \notin priv \cup pub \/ "hsm" \in Faults
    /\ UNCHANGED hsmVars

\* What a HSM deletion followed by the deletion of the row leaves behind.
LeakIfAlive(k) == leaked' = leaked \cup ({k} \cap priv')

----------------------------------------------------------------------------
(* Requests arrive. *)

Begin(w, first, r) ==
    /\ Goto(w, "idle", first)
    /\ req' = [req EXCEPT ![w] = r]
    /\ UNCHANGED <<hsmVars, rows, history, faultVars>>

CreateKey(w) ==
    \E t \in Tenants, u \in Usages, k \in Keys, n \in BOOLEAN :
        /\ Fresh(k)
        /\ Begin(w, "slot", [NoRequest EXCEPT !.op = "create", !.tenant = t,
                                !.new = k, !.usage = u, !.named = n])

\* Slip: the rotation reuses the caller's key and draws no id for the new one.
RotateKeyDrawsNothing(w) ==
    \E t \in Tenants, k \in Keys :
        Begin(w, "find", [NoRequest EXCEPT !.op = "rotate", !.tenant = t, !.key = k])

RotateKey(w) ==
    \E t \in Tenants, k \in Keys, n \in Keys :
        /\ Fresh(n)
        /\ Begin(w, "find", [NoRequest EXCEPT !.op = "rotate", !.tenant = t,
                                !.key = k, !.new = n])

DeleteKey(w) ==
    \E t \in Tenants, k \in Keys :
        Begin(w, "find", [NoRequest EXCEPT !.op = "delete", !.tenant = t, !.key = k])

SignHash(w) ==
    \E t \in Tenants, k \in Keys :
        Begin(w, "find", [NoRequest EXCEPT !.op = "sign", !.tenant = t, !.key = k,
                             !.late = k \in deleted])

----------------------------------------------------------------------------
(* The lookups every operation starts with. *)

\* Slip: the select forgets "AND tenant_id = ?", as FindByID's does.
VisibleToAnyone(w, k) == k \in DOMAIN rows

\* The row FindByIDAndTenant selects, with the checks of validateKeyAndGetSlot
\* for a signature.
Visible(w, k) == k \in DOMAIN rows /\ rows[k].tenant = req[w].tenant

Admitted(w, k) ==
    /\ Visible(w, k)
    /\ req[w].op = "sign" => /\ rows[k].active
                             /\ rows[k].usage \in {"SIGNING", "BOTH"}

FindKey(w) ==
    LET k == req[w].key IN
    /\ Admitted(w, k)
    /\ Goto(w, "find", "slot")
    /\ req' = [req EXCEPT ![w].usage = rows[k].usage]
    /\ UNCHANGED <<hsmVars, rows, history, faultVars>>

FindKeyFails(w) ==
    /\ ~Admitted(w, req[w].key) \/ "db" \in Faults
    /\ Return(w, "find")
    /\ UNCHANGED <<hsmVars, rows, history, faultVars>>

AfterSlot(op) ==
    CASE op \in {"create", "rotate"} -> "generate"
      [] op = "delete"               -> "hsmDelete"
      [] OTHER                       -> "sign"

GetTenantSlot(w) ==
    /\ Goto(w, "slot", AfterSlot(req[w].op))
    /\ UNCHANGED <<req, hsmVars, rows, history, faultVars>>

GetTenantSlotFails(w) ==
    /\ "db" \in Faults
    /\ Return(w, "slot")
    /\ UNCHANGED <<hsmVars, rows, history, faultVars>>

----------------------------------------------------------------------------
(* Creation: generate on the token, validate, insert the row, and undo the   *)
(* generation when a later step fails.                                       *)

GenerateKeyPair(w) ==
    LET k == req[w].new IN
    /\ Goto(w, "generate", "save")
    /\ priv' = priv \cup {k}
    /\ pub' = pub \cup {k}
    /\ born' = born \cup {k}
    /\ UNCHANGED <<req, rows, minted, told, deleted, faultVars>>

GenerateKeyPairFails(w) ==
    /\ "hsm" \in Faults
    /\ Return(w, "generate")
    /\ UNCHANGED <<hsmVars, rows, history, faultVars>>

\* The public key could not be exported and the client's own rollback of the
\* pair failed, which it ignores.
GenerateKeyPairLeaks(w) ==
    LET k == req[w].new IN
    /\ "hsm" \in Faults
    /\ Return(w, "generate")
    /\ priv' \in {priv, priv \cup {k}}
    /\ pub' \in {pub, pub \cup {k}}
    /\ born' = born \cup {k}
    /\ LeakIfAlive(k)
    /\ UNCHANGED <<rows, minted, told, deleted, hollow, untold>>

ValidateFails(w) ==
    /\ ~req[w].named
    /\ Goto(w, "save", "unwind")
    /\ UNCHANGED <<req, hsmVars, rows, history, faultVars>>

NewRow(w) == [tenant |-> req[w].tenant, usage |-> req[w].usage, active |-> TRUE]

RecordMint(w, k) ==
    minted' = [i \in DOMAIN minted \cup {k} |->
                  IF i = k THEN [tenant |-> req[w].tenant, usage |-> req[w].usage]
                           ELSE minted[i]]

SaveKey(w) ==
    LET k == req[w].new IN
    /\ req[w].named
    /\ k \notin DOMAIN rows
    /\ Insert(k, NewRow(w))
    /\ RecordMint(w, k)
    /\ \/ /\ req[w].op = "create"
          /\ Return(w, "save")
          /\ told' = told \cup {k}
       \/ /\ req[w].op = "rotate"
          /\ Goto(w, "save", "slot2")
          /\ UNCHANGED <<req, told>>
    /\ UNCHANGED <<hsmVars, born, deleted, faultVars>>

\* Slip: a failed Save returns without its rollback.
SaveKeyFailsNoRollback(w) ==
    /\ req[w].named
    /\ "db" \in Faults
    /\ Return(w, "save")
    /\ UNCHANGED <<hsmVars, rows, history, faultVars>>

SaveKeyFails(w) ==
    /\ req[w].named
    /\ "db" \in Faults
    /\ Goto(w, "save", "unwind")
    /\ UNCHANGED <<req, hsmVars, rows, history, faultVars>>

\* The INSERT committed and its reply was lost: the caller's rollback destroys
\* the private key under a row that stays.
SaveKeyReplyLost(w) ==
    LET k == req[w].new IN
    /\ req[w].named
    /\ "commit" \in Faults
    /\ k \notin DOMAIN rows
    /\ Goto(w, "save", "unwind")
    /\ Insert(k, NewRow(w))
    /\ RecordMint(w, k)
    /\ hollow' = hollow \cup {k}
    /\ untold' = untold \cup {k}
    /\ UNCHANGED <<req, hsmVars, born, told, deleted, leaked>>

\* "Rollback: delete key from HSM", whose own error is ignored.
Unwind(w) ==
    LET k == req[w].new IN
    /\ Return(w, "unwind")
    /\ DestroyObject(k) \/ DestroyFails(k)
    /\ LeakIfAlive(k)
    /\ UNCHANGED <<rows, history, hollow, untold>>

----------------------------------------------------------------------------
(* Rotation: after the new key is stored, the tenant and the slot are looked *)
(* up again and the old key, deactivated in memory, is saved.  Save is an    *)
(* INSERT: it is refused while the old row is there.                         *)

RecheckTenantSlot(w) ==
    /\ Goto(w, "slot2", "deactivate")
    /\ UNCHANGED <<req, hsmVars, rows, history, faultVars>>

RecheckTenantSlotFails(w) ==
    /\ "db" \in Faults
    /\ Return(w, "slot2")
    /\ untold' = untold \cup {req[w].new}
    /\ UNCHANGED <<hsmVars, rows, history, leaked, hollow>>

Deactivated(w) == [tenant |-> req[w].tenant, usage |-> req[w].usage, active |-> FALSE]

\* The old row was deleted meanwhile: the INSERT brings it back, inactive.
SaveDeactivated(w) ==
    LET k == req[w].key IN
    /\ k \notin DOMAIN rows
    /\ Insert(k, Deactivated(w))
    /\ hollow' = hollow \cup {k}
    /\ untold' = untold \cup {k}
    /\ \/ /\ Return(w, "deactivate")
          /\ told' = told \cup {req[w].new}
       \/ /\ "commit" \in Faults
          /\ Goto(w, "deactivate", "unwindHSM")
          /\ UNCHANGED <<req, told>>
    /\ UNCHANGED <<hsmVars, born, minted, deleted, leaked>>

\* Slip: the refused Save returns without its rollback.
SaveDeactivatedFailsNoRollback(w) ==
    /\ req[w].key \in DOMAIN rows \/ "db" \in Faults
    /\ Return(w, "deactivate")
    /\ UNCHANGED <<hsmVars, rows, history, faultVars>>

SaveDeactivatedFails(w) ==
    /\ req[w].key \in DOMAIN rows \/ "db" \in Faults
    /\ Goto(w, "deactivate", "unwindHSM")
    /\ UNCHANGED <<req, hsmVars, rows, history, faultVars>>

\* "Rollback: eliminar nueva clave": both results are ignored.
UnwindNewHSM(w) ==
    LET k == req[w].new IN
    /\ Goto(w, "unwindHSM", "unwindRow")
    /\ DestroyObject(k) \/ DestroyFails(k)
    /\ LeakIfAlive(k)
    /\ UNCHANGED <<req, rows, history, hollow, untold>>

\* Slip: the rollback deletes the token object and not the row.
UnwindNewRowSkipped(w) ==
    /\ Return(w, "unwindRow")
    /\ UNCHANGED <<hsmVars, rows, history, faultVars>>

UnwindNewRow(w) ==
    /\ Return(w, "unwindRow")
    /\ Remove(req[w].new)
    /\ UNCHANGED <<hsmVars, history, faultVars>>

UnwindNewRowFails(w) ==
    /\ "db" \in Faults
    /\ Return(w, "unwindRow")
    /\ hollow' = hollow \cup {req[w].new}
    /\ untold' = untold \cup {req[w].new}
    /\ UNCHANGED <<hsmVars, rows, history, leaked>>

----------------------------------------------------------------------------
(* Deletion: the token object first, then the row. *)

DeleteFromHSM(w) ==
    /\ Goto(w, "hsmDelete", "deleteRow")
    /\ DestroyObject(req[w].key)
    /\ LeakIfAlive(req[w].key)
    /\ UNCHANGED <<req, rows, history, hollow, untold>>

DeleteFromHSMFails(w) ==
    /\ Return(w, "hsmDelete")
    /\ DestroyFails(req[w].key)
    /\ UNCHANGED <<rows, history, faultVars>>

DeleteRow(w) ==
    LET k == req[w].key IN
    /\ Return(w, "deleteRow")
    /\ Remove(k)
    /\ deleted' = IF k \in DOMAIN rows THEN deleted \cup {k} ELSE deleted
    /\ UNCHANGED <<hsmVars, born, minted, told, faultVars>>

DeleteRowFails(w) ==
    LET k == req[w].key IN
    /\ Return(w, "deleteRow")
    /\ \/ "db" \in Faults /\ hollow' = hollow \cup {k} /\ UNCHANGED rows
       \/ "commit" \in Faults /\ Remove(k) /\ UNCHANGED hollow
    /\ UNCHANGED <<hsmVars, history, leaked, untold>>

----------------------------------------------------------------------------
(* Signing: the HSM looks the label up on the token. *)

SignOnHSM(w) ==
    /\ req[w].key \in priv
    /\ Goto(w, "sign", "signed")
    /\ UNCHANGED <<req, hsmVars, rows, history, faultVars>>

SignOnHSMFails(w) ==
    /\ req[w].key \notin priv \/ "hsm" \in Faults
    /\ Return(w, "sign")
    /\ UNCHANGED <<hsmVars, rows, history, faultVars>>

ReturnSignature(w) ==
    /\ Return(w, "signed")
    /\ UNCHANGED <<hsmVars, rows, history, faultVars>>

----------------------------------------------------------------------------
\* The process dies with its goroutines; the token and the database stay.
\* What is half done then stays half done.
Crash ==
    /\ "crash" \in Faults
    /\ \E w \in Workers : pc[w] # "idle"
    /\ pc' = [w \in Workers |-> "idle"]
    /\ req' = [w \in Workers |-> NoRequest]
    /\ leaked' = leaked \cup (priv \ DOMAIN rows)
    /\ hollow' = hollow \cup (DOMAIN rows \ priv)
    /\ untold' = untold \cup (DOMAIN rows \ told)
    /\ UNCHANGED <<hsmVars, rows, history>>

Step(w) ==
    \/ CreateKey(w) \/ RotateKey(w) \/ DeleteKey(w) \/ SignHash(w)
    \/ FindKey(w) \/ FindKeyFails(w)
    \/ GetTenantSlot(w) \/ GetTenantSlotFails(w)
    \/ GenerateKeyPair(w) \/ GenerateKeyPairFails(w) \/ GenerateKeyPairLeaks(w)
    \/ ValidateFails(w) \/ SaveKey(w) \/ SaveKeyFails(w) \/ SaveKeyReplyLost(w)
    \/ Unwind(w)
    \/ RecheckTenantSlot(w) \/ RecheckTenantSlotFails(w)
    \/ SaveDeactivated(w) \/ SaveDeactivatedFails(w)
    \/ UnwindNewHSM(w) \/ UnwindNewRow(w) \/ UnwindNewRowFails(w)
    \/ DeleteFromHSM(w) \/ DeleteFromHSMFails(w)
    \/ DeleteRow(w) \/ DeleteRowFails(w)
    \/ SignOnHSM(w) \/ SignOnHSMFails(w) \/ ReturnSignature(w)

Next == Crash \/ \E w \in Workers : Step(w)

Spec == Init /\ [][Next]_vars

----------------------------------------------------------------------------
(* Properties. *)

\* A request is about to delete k's row, having deleted k's private key.
Removing(k) ==
    \E w \in Workers :
        \/ pc[w] = "deleteRow" /\ req[w].key = k
        \/ pc[w] = "unwindRow" /\ req[w].new = k

\* A request generated k and has neither stored its row nor given it up.
Saving(k) ==
    \E w \in Workers : pc[w] \in {"save", "unwind"} /\ req[w].new = k

\* A rotation stored k and has neither returned it nor removed it again.
Rotating(k) ==
    \E w \in Workers :
        /\ pc[w] \in {"slot2", "deactivate", "unwindHSM", "unwindRow"}
        /\ req[w].new = k

\* Every row of crypto_keys names a private key that is on the token, unless a
\* request is between its two deletions of that key or a failure (or a rotation
\* racing a deletion) left the key hollow.
RowBacked ==
    \A k \in DOMAIN rows : k \in priv \/ k \in hollow \/ Removing(k)

\* A private key that no row names, which nobody could use or delete, is left
\* only by a failure: every path that gives up a creation destroys it.
NoOrphanPrivateKey ==
    \A k \in priv : k \in DOMAIN rows \/ k \in leaked \/ Saving(k)

\* A row exists only if some caller was given its id, the rotation that stored it
\* is still running, or a failure struck: a create or a rotation that reports an
\* error leaves no usable key behind.
RowsAreKnown ==
    \A k \in DOMAIN rows : k \in told \/ k \in untold \/ Rotating(k)

\* No SignHash that began after DeleteKey(k) had returned nil yields a signature
\* with k, whatever fails in between and whatever rotation does to k.
NoSignatureAfterDelete ==
    \A w \in Workers : pc[w] = "signed" => ~req[w].late

\* The abstract store callers may reason with: a key is minted when its row is
\* first inserted and retired when its private key is destroyed.
Answer(w) == IF pc[w] = "signed"
             THEN [key |-> req[w].key, tenant |-> req[w].tenant]
             ELSE NoKey

Store == INSTANCE KeyStore WITH
    minted   <- minted,
    retired  <- DOMAIN minted \ priv,
    answer   <- [w \in Workers |-> Answer(w)],
    NoAnswer <- NoKey

\* Every behaviour, failures included, is one of the atomic store: no key signs
\* for another tenant or another usage, none signs before its row exists or
\* after its private key is gone, and no key comes back to life.
ImplementsKeyStore == Store!Spec

\* "Desactivar clave anterior": a rotation that reaches the deactivation of the
\* old key, with nothing failing around it, returns the new key.  RotateKey
\* violates it: Save is an INSERT, the old row is still there, and the primary
\* key refuses it.
RotationDelivers ==
    [][\A w \in Workers :
          pc[w] \in {"deactivate", "unwindHSM", "unwindRow"} /\ pc'[w] = "idle"
             => req[w].new \in told']_vars
=============================================================================
