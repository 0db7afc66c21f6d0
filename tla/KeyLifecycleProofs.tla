------------------------- MODULE KeyLifecycleProofs -------------------------
(***************************************************************************)
(* Proofs about KeyLifecycle, for every set of keys, tenants, goroutines    *)
(* and usages and every combination of failures.                            *)
(***************************************************************************)
EXTENDS KeyLifecycle, TLAPS

----------------------------------------------------------------------------
(* Types.  TypeOK is not inductive alone: that the HSM generates a key, and  *)
(* not NoKey, rests on which requests reach which step.                      *)

\* What a request's operation must be, and what it must carry, at step p.
Placed(p, r) ==
    /\ r.op \in {"create", "rotate"} => r.new \in Keys
    /\ r.op \in {"rotate", "delete", "sign"} => r.key \in Keys
    /\ r.op # "none" => r.tenant \in Tenants
    /\ p \notin {"idle", "find"} => r.op # "none" /\ r.usage \in Usages
    /\ p = "find" => r.op \in {"rotate", "delete", "sign"}
    /\ p \in {"generate", "save", "unwind"} => r.op \in {"create", "rotate"}
    /\ p \in {"slot2", "deactivate", "unwindHSM", "unwindRow"} => r.op = "rotate"
    /\ p \in {"hsmDelete", "deleteRow"} => r.op = "delete"
    /\ p \in {"sign", "signed"} => r.op = "sign"

Located ==
    /\ pc \in [Workers -> Steps]
    /\ req \in [Workers -> Request]
    /\ \A w \in Workers : Placed(pc[w], req[w])

Typed == TypeOK /\ Located

\* The empty locals are a request, placed anywhere a request has returned to.
LEMMA NoRequestPlaced == NoRequest \in Request /\ Placed("idle", NoRequest)
BY DEF NoRequest, Request, Placed

\* A step that moves one goroutine and sets its locals keeps Located.
LEMMA MoveLocated ==
    ASSUME Located, NEW w \in Workers, NEW from, NEW to \in Steps, NEW r \in Request,
           Goto(w, from, to), req' = [req EXCEPT ![w] = r], Placed(to, r)
    PROVE  Located'
<1>1. pc' \in [Workers -> Steps] /\ req' \in [Workers -> Request]
  BY DEF Located, Goto
<1>2. ASSUME NEW v \in Workers PROVE Placed(pc'[v], req'[v])
  BY DEF Located, Goto
<1>3. QED
  BY <1>1, <1>2 DEF Located

\* A step that moves one goroutine and leaves its locals keeps Located.
LEMMA StayLocated ==
    ASSUME Located, NEW w \in Workers, NEW from, NEW to \in Steps,
           Goto(w, from, to), UNCHANGED req,
           pc[w] = from /\ Placed(from, req[w]) => Placed(to, req[w])
    PROVE  Located'
<1>1. pc' \in [Workers -> Steps] /\ req' \in [Workers -> Request]
  BY DEF Located, Goto
<1>2. ASSUME NEW v \in Workers PROVE Placed(pc'[v], req'[v])
  BY DEF Located, Goto
<1>3. QED
  BY <1>1, <1>2 DEF Located

\* A request that returns keeps Located.
LEMMA ReturnLocated ==
    ASSUME Located, NEW w \in Workers, NEW from, Return(w, from)
    PROVE  Located'
BY NoRequestPlaced, MoveLocated DEF Return, Steps

\* Inserting a row keeps the table typed.
LEMMA InsertTyped ==
    ASSUME TypeOK, NEW k \in Keys, NEW row \in Row, Insert(k, row)
    PROVE  DOMAIN rows' \subseteq Keys /\ rows' \in [DOMAIN rows' -> Row]
BY DEF TypeOK, Insert

\* Removing a row keeps the table typed.
LEMMA RemoveTyped ==
    ASSUME TypeOK, NEW k, Remove(k)
    PROVE  DOMAIN rows' \subseteq Keys /\ rows' \in [DOMAIN rows' -> Row]
BY DEF TypeOK, Remove

\* Recording who a key was minted for keeps the record typed.
LEMMA RecordMintTyped ==
    ASSUME TypeOK, NEW w \in Workers, NEW k \in Keys, RecordMint(w, k),
           req[w].tenant \in Tenants, req[w].usage \in Usages
    PROVE  DOMAIN minted' \subseteq Keys /\ minted' \in [DOMAIN minted' -> Mint]
BY DEF TypeOK, RecordMint, Mint

\* Destroying an object, or failing to, creates none.
LEMMA DestroyShrinks ==
    ASSUME NEW k, DestroyObject(k) \/ DestroyFails(k)
    PROVE  priv' \subseteq priv /\ pub' \subseteq pub /\ priv \subseteq priv' \cup {k}
BY DEF DestroyObject, DestroyFails, hsmVars

\* A request that begins with a placed, typed record keeps Typed.
LEMMA BeginTyped ==
    ASSUME Typed, NEW w \in Workers, NEW first \in Steps, NEW r \in Request,
           Begin(w, first, r), Placed(first, r)
    PROVE  Typed'
<1>1. Located'
  BY MoveLocated DEF Begin, Typed
<1>2. QED
  BY <1>1 DEF Begin, Typed, TypeOK, Located, hsmVars, history, faultVars

\* Every arrival of a request keeps every variable typed.
LEMMA ArrivalTyped ==
    ASSUME Typed, NEW w \in Workers,
           CreateKey(w) \/ RotateKey(w) \/ DeleteKey(w) \/ SignHash(w)
    PROVE  Typed'
<1> USE DEF NoRequest, Request, Placed, Steps
<1>1. CASE CreateKey(w)
  <2>1. PICK t \in Tenants, u \in Usages, k \in Keys, n \in BOOLEAN :
          Begin(w, "slot", [NoRequest EXCEPT !.op = "create", !.tenant = t,
                               !.new = k, !.usage = u, !.named = n])
    BY <1>1 DEF CreateKey
  <2> DEFINE r == [NoRequest EXCEPT !.op = "create", !.tenant = t,
                      !.new = k, !.usage = u, !.named = n]
  <2>2. r \in Request /\ Placed("slot", r)
    OBVIOUS
  <2>3. QED
    BY ONLY Typed, <2>1, <2>2, BeginTyped DEF Steps
<1>2. CASE RotateKey(w)
  <2>1. PICK t \in Tenants, k \in Keys, n \in Keys :
          Begin(w, "find", [NoRequest EXCEPT !.op = "rotate", !.tenant = t,
                               !.key = k, !.new = n])
    BY <1>2 DEF RotateKey
  <2> DEFINE r == [NoRequest EXCEPT !.op = "rotate", !.tenant = t, !.key = k, !.new = n]
  <2>2. r \in Request /\ Placed("find", r)
    OBVIOUS
  <2>3. QED
    BY ONLY Typed, <2>1, <2>2, BeginTyped DEF Steps
<1>3. CASE DeleteKey(w)
  <2>1. PICK t \in Tenants, k \in Keys :
          Begin(w, "find", [NoRequest EXCEPT !.op = "delete", !.tenant = t, !.key = k])
    BY <1>3 DEF DeleteKey
  <2> DEFINE r == [NoRequest EXCEPT !.op = "delete", !.tenant = t, !.key = k]
  <2>2. r \in Request /\ Placed("find", r)
    OBVIOUS
  <2>3. QED
    BY ONLY Typed, <2>1, <2>2, BeginTyped DEF Steps
<1>4. CASE SignHash(w)
  <2>1. PICK t \in Tenants, k \in Keys :
          Begin(w, "find", [NoRequest EXCEPT !.op = "sign", !.tenant = t, !.key = k,
                               !.late = k \in deleted])
    BY <1>4 DEF SignHash
  <2> DEFINE r == [NoRequest EXCEPT !.op = "sign", !.tenant = t, !.key = k,
                      !.late = k \in deleted]
  <2>2. r \in Request /\ Placed("find", r)
    <3>1. (k \in deleted) \in BOOLEAN
      OBVIOUS
    <3> DEFINE b == k \in deleted
    <3> HIDE DEF b
    <3>2. [NoRequest EXCEPT !.op = "sign", !.tenant = t, !.key = k, !.late = b] \in Request
      BY <3>1 DEF b
    <3>3. QED
      BY <3>2 DEF b
  <2>3. QED
    BY ONLY Typed, <2>1, <2>2, BeginTyped DEF Steps
<1>5. QED
  BY <1>1, <1>2, <1>3, <1>4

\* Every later step of a request keeps every variable typed.
LEMMA StepTyped ==
    ASSUME Typed, NEW w \in Workers, Step(w)
    PROVE  Typed'
<1> USE DEF hsmVars, history, faultVars
<1>r. req[w] \in Request /\ Placed(pc[w], req[w]) /\ TypeOK /\ Located
  BY DEF Typed, Located
<1>1. CASE CreateKey(w) \/ RotateKey(w) \/ DeleteKey(w) \/ SignHash(w)
  BY <1>1, ArrivalTyped
<1>2. CASE FindKey(w)
  <2> DEFINE r == [req[w] EXCEPT !.usage = rows[req[w].key].usage]
  <2>1. rows[req[w].key].usage \in Usages
    BY <1>2, <1>r DEF FindKey, Admitted, Visible, TypeOK, Row
  <2>2. r \in Request /\ req' = [req EXCEPT ![w] = r]
    BY <1>2, <1>r, <2>1 DEF FindKey, Request
  <2>3. Placed("slot", r)
    BY <1>2, <1>r, <2>1 DEF FindKey, Goto, Placed, Request
  <2>4. Located'
    BY <1>2, <1>r, <2>2, <2>3, MoveLocated DEF FindKey, Steps
  <2>5. QED
    BY <1>2, <1>r, <2>4 DEF FindKey, Typed, TypeOK, Located
<1>3. CASE FindKeyFails(w) \/ GetTenantSlotFails(w) \/ GenerateKeyPairFails(w)
           \/ SignOnHSMFails(w) \/ ReturnSignature(w)
  <2>1. Located'
    BY <1>3, <1>r, ReturnLocated
       DEF FindKeyFails, GetTenantSlotFails, GenerateKeyPairFails, SignOnHSMFails,
           ReturnSignature
  <2>2. QED
    BY <1>3, <1>r, <2>1
       DEF Typed, TypeOK, Located, FindKeyFails, GetTenantSlotFails,
           GenerateKeyPairFails, SignOnHSMFails, ReturnSignature
<1>4. CASE GetTenantSlot(w)
  <2>1. Placed(AfterSlot(req[w].op), req[w]) /\ AfterSlot(req[w].op) \in Steps
    BY <1>4, <1>r DEF GetTenantSlot, Goto, AfterSlot, Placed, Request, Steps
  <2>2. Located'
    BY <1>4, <1>r, <2>1, StayLocated DEF GetTenantSlot
  <2>3. QED
    BY <1>4, <1>r, <2>2 DEF GetTenantSlot, Typed, TypeOK, Located
<1>5. CASE ValidateFails(w) \/ SaveKeyFails(w) \/ RecheckTenantSlot(w)
           \/ SaveDeactivatedFails(w) \/ SignOnHSM(w)
  <2>1. Located'
    <3>1. CASE ValidateFails(w) \/ SaveKeyFails(w)
      BY <3>1, <1>r, StayLocated DEF ValidateFails, SaveKeyFails, Placed, Steps
    <3>2. CASE RecheckTenantSlot(w) \/ SaveDeactivatedFails(w)
      BY <3>2, <1>r, StayLocated DEF RecheckTenantSlot, SaveDeactivatedFails, Placed, Steps
    <3>3. CASE SignOnHSM(w)
      BY <3>3, <1>r, StayLocated DEF SignOnHSM, Placed, Steps
    <3>4. QED
      BY <1>5, <3>1, <3>2, <3>3
  <2>2. QED
    BY <1>5, <1>r, <2>1
       DEF Typed, TypeOK, Located, ValidateFails, SaveKeyFails, RecheckTenantSlot,
           SaveDeactivatedFails, SignOnHSM
<1>6. CASE GenerateKeyPair(w)
  <2>1. Located'
    BY <1>6, <1>r, StayLocated DEF GenerateKeyPair, Placed, Steps
  <2>2. req[w].new \in Keys
    BY <1>6, <1>r DEF GenerateKeyPair, Goto, Placed
  <2>3. QED
    BY <1>6, <1>r, <2>1, <2>2 DEF GenerateKeyPair, Typed, TypeOK, Located
<1>7. CASE SaveKey(w) \/ SaveKeyReplyLost(w)
  <2>1. /\ pc[w] = "save" /\ req[w].new \in Keys /\ NewRow(w) \in Row
        /\ req[w].tenant \in Tenants /\ req[w].usage \in Usages
    BY <1>7, <1>r DEF SaveKey, SaveKeyReplyLost, Return, Goto, Placed, NewRow, Row
  <2>2. Located'
    <3>1. CASE SaveKey(w) /\ Return(w, "save")
      BY <3>1, <1>r, ReturnLocated
    <3>2. CASE SaveKey(w) /\ ~Return(w, "save")
      BY <3>2, <1>r, StayLocated DEF SaveKey, Placed, Steps
    <3>3. CASE SaveKeyReplyLost(w)
      BY <3>3, <1>r, StayLocated DEF SaveKeyReplyLost, Placed, Steps
    <3>4. QED
      BY <1>7, <3>1, <3>2, <3>3
  <2>3. DOMAIN rows' \subseteq Keys /\ rows' \in [DOMAIN rows' -> Row]
    BY <1>7, <1>r, <2>1, InsertTyped DEF SaveKey, SaveKeyReplyLost
  <2>4. DOMAIN minted' \subseteq Keys /\ minted' \in [DOMAIN minted' -> Mint]
    BY <1>7, <1>r, <2>1, RecordMintTyped DEF SaveKey, SaveKeyReplyLost
  <2>5. told' \subseteq Keys /\ hollow' \subseteq Keys /\ untold' \subseteq Keys
    BY <1>7, <1>r, <2>1 DEF SaveKey, SaveKeyReplyLost, TypeOK
  <2>6. QED
    BY <1>7, <1>r, <2>2, <2>3, <2>4, <2>5
       DEF Typed, TypeOK, Located, SaveKey, SaveKeyReplyLost
<1>8. CASE Unwind(w) \/ UnwindNewHSM(w) \/ DeleteFromHSM(w) \/ DeleteFromHSMFails(w)
  <2>1. Located'
    <3>1. CASE Unwind(w) \/ DeleteFromHSMFails(w)
      BY <3>1, <1>r, ReturnLocated DEF Unwind, DeleteFromHSMFails
    <3>2. CASE UnwindNewHSM(w)
      BY <3>2, <1>r, StayLocated DEF UnwindNewHSM, Placed, Steps
    <3>3. CASE DeleteFromHSM(w)
      BY <3>3, <1>r, StayLocated DEF DeleteFromHSM, Placed, Steps
    <3>4. QED
      BY <1>8, <3>1, <3>2, <3>3
  <2>2. priv' \subseteq priv /\ pub' \subseteq pub
    BY <1>8, DestroyShrinks DEF Unwind, UnwindNewHSM, DeleteFromHSM, DeleteFromHSMFails
  <2>3. leaked' \subseteq Keys
    BY <1>8, <1>r, <2>2
       DEF Unwind, UnwindNewHSM, DeleteFromHSM, DeleteFromHSMFails, LeakIfAlive, TypeOK
  <2>4. QED
    BY <1>8, <1>r, <2>1, <2>2, <2>3
       DEF Typed, TypeOK, Located, Unwind, UnwindNewHSM, DeleteFromHSM,
           DeleteFromHSMFails
<1>9. CASE RecheckTenantSlotFails(w) \/ UnwindNewRowFails(w)
  <2>1. Located'
    BY <1>9, <1>r, ReturnLocated DEF RecheckTenantSlotFails, UnwindNewRowFails
  <2>2. req[w].new \in Keys
    BY <1>9, <1>r DEF RecheckTenantSlotFails, UnwindNewRowFails, Return, Goto, Placed
  <2>3. QED
    BY <1>9, <1>r, <2>1, <2>2
       DEF Typed, TypeOK, Located, RecheckTenantSlotFails, UnwindNewRowFails
<1>10. CASE SaveDeactivated(w)
  <2>1. req[w].key \in Keys /\ req[w].new \in Keys /\ Deactivated(w) \in Row
    BY <1>10, <1>r DEF SaveDeactivated, Return, Goto, Placed, Deactivated, Row
  <2>2. Located'
    <3>1. CASE Return(w, "deactivate")
      BY <3>1, <1>r, ReturnLocated
    <3>2. CASE ~Return(w, "deactivate")
      BY <3>2, <1>10, <1>r, StayLocated DEF SaveDeactivated, Placed, Steps
    <3>3. QED
      BY <3>1, <3>2
  <2>3. DOMAIN rows' \subseteq Keys /\ rows' \in [DOMAIN rows' -> Row]
    BY <1>10, <1>r, <2>1, InsertTyped DEF SaveDeactivated
  <2>4. told' \subseteq Keys /\ hollow' \subseteq Keys /\ untold' \subseteq Keys
    BY <1>10, <1>r, <2>1 DEF SaveDeactivated, TypeOK
  <2>5. QED
    BY <1>10, <1>r, <2>2, <2>3, <2>4 DEF Typed, TypeOK, Located, SaveDeactivated
<1>11. CASE UnwindNewRow(w) \/ DeleteRow(w) \/ DeleteRowFails(w)
  <2>1. Located'
    BY <1>11, <1>r, ReturnLocated DEF UnwindNewRow, DeleteRow, DeleteRowFails
  <2>2. DOMAIN rows' \subseteq Keys /\ rows' \in [DOMAIN rows' -> Row]
    BY <1>11, <1>r, RemoveTyped DEF UnwindNewRow, DeleteRow, DeleteRowFails, TypeOK
  <2>3. CASE UnwindNewRow(w)
    BY <2>3, <1>r, <2>1, <2>2 DEF UnwindNewRow, Typed, TypeOK, Located
  <2>4. CASE DeleteRow(w) \/ DeleteRowFails(w)
    <3>1. req[w].key \in Keys
      BY <2>4, <1>r DEF DeleteRow, DeleteRowFails, Return, Goto, Placed
    <3>2. QED
      BY <2>4, <1>r, <2>1, <2>2, <3>1 DEF DeleteRow, DeleteRowFails, Typed, TypeOK, Located
  <2>5. QED
    BY <1>11, <2>3, <2>4
<1>12. CASE GenerateKeyPairLeaks(w)
  <2>1. Located'
    BY <1>12, <1>r, ReturnLocated DEF GenerateKeyPairLeaks
  <2>2. req[w].new \in Keys
    BY <1>12, <1>r DEF GenerateKeyPairLeaks, Return, Goto, Placed
  <2>3. QED
    BY <1>12, <1>r, <2>1, <2>2 DEF GenerateKeyPairLeaks, LeakIfAlive, Typed, TypeOK, Located
<1>13. QED
  BY <1>1, <1>2, <1>3, <1>4, <1>5, <1>6, <1>7, <1>8, <1>9, <1>10, <1>11, <1>12 DEF Step

\* The strengthened type invariant holds in every state.
LEMMA AlwaysTyped == Spec => []Typed
<1>1. Init => Typed
  BY NoRequestPlaced DEF Init, Typed, TypeOK, Located, Steps, Placed
<1>2. Typed /\ [Next]_vars => Typed'
  <2> SUFFICES ASSUME Typed, [Next]_vars PROVE Typed'
    OBVIOUS
  <2>1. CASE UNCHANGED vars
    BY <2>1 DEF vars, Typed, TypeOK, Located
  <2>2. CASE Crash
    BY <2>2, NoRequestPlaced
       DEF Crash, Typed, TypeOK, Located, Steps, hsmVars, history
  <2>3. QED
    BY <2>1, <2>2, StepTyped DEF Next
<1>3. QED
  BY <1>1, <1>2, PTL DEF Spec

\* The stores, the goroutines' locals and the histories keep their types: no
\* step generates, stores or reports a key that was not drawn.
THEOREM TypeCorrect == Spec => []TypeOK
BY AlwaysTyped, PTL DEF Typed

----------------------------------------------------------------------------
(* The inductive invariant. *)

\* An id is drawn by one creation, is unborn until the HSM generates the pair,
\* and its goroutine forgets it when it returns.
DrawnOnce ==
    /\ \A v, w \in Workers : req[v].new = req[w].new /\ req[v].new \in Keys => v = w
    /\ \A w \in Workers : req[w].new \in Keys =>
          /\ pc[w] # "idle" /\ req[w].op \in {"create", "rotate"}
          /\ pc[w] \in {"find", "slot", "generate"} <=> req[w].new \notin born

\* Rows and private keys come from generated pairs, and a row says of its key
\* what the key was minted with.
FromBirth ==
    /\ priv \subseteq born
    /\ DOMAIN minted \subseteq born
    /\ \A k \in DOMAIN rows :
          /\ k \in DOMAIN minted
          /\ rows[k].tenant = minted[k].tenant
          /\ rows[k].usage = minted[k].usage

\* A creation about to insert its row holds a private key no row ever named; one
\* that rolls back after all had its insertion committed; a rotation that goes
\* on stored its new key.
NewKeyStaged ==
    \A w \in Workers : LET k == req[w].new IN
        /\ pc[w] = "save" => k \in priv /\ k \notin DOMAIN minted
        /\ pc[w] = "unwind" => (k \in DOMAIN minted => k \in hollow)
        /\ pc[w] \in {"slot2", "deactivate", "unwindHSM", "unwindRow"} => k \in DOMAIN minted

\* Past its lookup, a request works on a key minted for its tenant and usage.
OldKeyFound ==
    \A w \in Workers :
        req[w].op \in {"rotate", "delete", "sign"} /\ pc[w] # "find" =>
            /\ req[w].key \in DOMAIN minted
            /\ req[w].tenant = minted[req[w].key].tenant
            /\ req[w].usage = minted[req[w].key].usage

\* A request about to delete a row has deleted the private key, or a failure let
\* it survive.
DestroyedFirst ==
    \A w \in Workers :
        /\ pc[w] = "deleteRow" => req[w].key \notin priv \/ req[w].key \in leaked
        /\ pc[w] = "unwindRow" => req[w].new \notin priv \/ req[w].new \in leaked

Frame == DrawnOnce /\ FromBirth /\ NewKeyStaged /\ OldKeyFound /\ DestroyedFirst

\* Every step of a request keeps the frame.
LEMMA FrameStep ==
    ASSUME Typed, Frame, NEW w \in Workers, Step(w)
    PROVE  Frame'
<1> USE NoKeyAssumption
    DEF hsmVars, history, faultVars, Goto, Return, Begin, NoRequest, Request, Placed,
        Frame, DrawnOnce, FromBirth, NewKeyStaged, OldKeyFound, DestroyedFirst
<1>r. /\ req[w] \in Request
      /\ \A v \in Workers : Placed(pc[v], req[v])
      /\ pc \in [Workers -> Steps] /\ req \in [Workers -> Request]
  BY DEF Typed, Located
<1>1. CASE CreateKey(w) \/ RotateKey(w)
  <2>1. CASE CreateKey(w)
    BY <2>1, <1>r DEF CreateKey, Fresh
  <2>2. CASE RotateKey(w)
    BY <2>2, <1>r DEF RotateKey, Fresh
  <2>3. QED
    BY <1>1, <2>1, <2>2
<1>2. CASE DeleteKey(w) \/ SignHash(w)
  <2>1. CASE DeleteKey(w)
    BY <2>1, <1>r DEF DeleteKey
  <2>2. CASE SignHash(w)
    BY <2>2, <1>r DEF SignHash
  <2>3. QED
    BY <1>2, <2>1, <2>2
<1>3. CASE FindKey(w)
  BY <1>3, <1>r DEF FindKey, Admitted, Visible
<1>4. CASE FindKeyFails(w) \/ GetTenantSlotFails(w) \/ GenerateKeyPairFails(w)
           \/ SignOnHSMFails(w) \/ ReturnSignature(w)
  BY <1>4, <1>r DEF FindKeyFails, GetTenantSlotFails, GenerateKeyPairFails,
                    SignOnHSMFails, ReturnSignature
<1>5. CASE GetTenantSlot(w)
  <2>1. /\ req[w].op \in {"create", "rotate"} <=> AfterSlot(req[w].op) = "generate"
        /\ AfterSlot(req[w].op) \in {"generate", "hsmDelete", "sign"}
    BY <1>5, <1>r DEF GetTenantSlot, AfterSlot
  <2> DEFINE next == AfterSlot(req[w].op)
  <2>2. pc[w] = "slot" /\ pc' = [pc EXCEPT ![w] = next] /\ UNCHANGED req
    BY <1>5 DEF GetTenantSlot
  <2>3. UNCHANGED <<priv, rows, born, minted, leaked, hollow>>
    BY <1>5 DEF GetTenantSlot
  <2> HIDE DEF next
  <2>4. /\ req[w].op \in {"create", "rotate"} <=> next = "generate"
        /\ next \in {"generate", "hsmDelete", "sign"}
    BY <2>1 DEF next
  <2>5. DrawnOnce'
    BY <1>r, <2>2, <2>3, <2>4
  <2>6. NewKeyStaged' /\ DestroyedFirst'
    BY <1>r, <2>2, <2>3, <2>4
  <2>7. QED
    BY <1>r, <2>2, <2>3, <2>4, <2>5, <2>6
<1>6. CASE GenerateKeyPair(w) \/ GenerateKeyPairLeaks(w)
  BY <1>6, <1>r DEF GenerateKeyPair, GenerateKeyPairLeaks, LeakIfAlive
<1>7. CASE ValidateFails(w) \/ SaveKeyFails(w) \/ RecheckTenantSlot(w)
           \/ SaveDeactivatedFails(w) \/ SignOnHSM(w)
  BY <1>7, <1>r DEF ValidateFails, SaveKeyFails, RecheckTenantSlot, SaveDeactivatedFails,
                    SignOnHSM
<1>8. CASE SaveKey(w)
  BY <1>8, <1>r DEF SaveKey, Insert, NewRow, RecordMint
<1>9. CASE SaveKeyReplyLost(w)
  BY <1>9, <1>r DEF SaveKeyReplyLost, Insert, NewRow, RecordMint
<1>10. CASE Unwind(w)
  BY <1>10, <1>r, DestroyShrinks DEF Unwind, LeakIfAlive
<1>11. CASE UnwindNewHSM(w)
  BY <1>11, <1>r, DestroyShrinks DEF UnwindNewHSM, LeakIfAlive
<1>12. CASE DeleteFromHSM(w)
  BY <1>12, <1>r, DestroyShrinks DEF DeleteFromHSM, LeakIfAlive
<1>13. CASE DeleteFromHSMFails(w)
  BY <1>13, <1>r DEF DeleteFromHSMFails, DestroyFails
<1>14. CASE RecheckTenantSlotFails(w) \/ UnwindNewRowFails(w)
  <2>1. CASE RecheckTenantSlotFails(w)
    BY <2>1, <1>r DEF RecheckTenantSlotFails
  <2>2. CASE UnwindNewRowFails(w)
    BY <2>2, <1>r DEF UnwindNewRowFails
  <2>3. QED
    BY <1>14, <2>1, <2>2
<1>15. CASE SaveDeactivated(w)
  <2>1. FromBirth'
    BY <1>15, <1>r DEF SaveDeactivated, Insert, Deactivated
  <2>2. CASE Return(w, "deactivate")
    BY <1>15, <2>1, <2>2, <1>r DEF SaveDeactivated
  <2>3. CASE Goto(w, "deactivate", "unwindHSM") /\ UNCHANGED req
    BY <1>15, <2>1, <2>3, <1>r DEF SaveDeactivated
  <2>4. QED
    BY <1>15, <2>2, <2>3 DEF SaveDeactivated
<1>16. CASE UnwindNewRow(w) \/ DeleteRow(w) \/ DeleteRowFails(w)
  BY <1>16, <1>r DEF UnwindNewRow, DeleteRow, DeleteRowFails, Remove
<1>17. QED
  BY <1>1, <1>2, <1>3, <1>4, <1>5, <1>6, <1>7, <1>8, <1>9, <1>10, <1>11, <1>12, <1>13,
     <1>14, <1>15, <1>16 DEF Step

\* The frame holds in every state.
LEMMA AlwaysFramed == Spec => []Frame
<1> USE NoKeyAssumption
    DEF Frame, DrawnOnce, FromBirth, NewKeyStaged, OldKeyFound, DestroyedFirst
<1>1. Init => Frame
  BY DEF Init, NoRequest
<1>2. Typed /\ Frame /\ [Next]_vars => Frame'
  <2> SUFFICES ASSUME Typed, Frame, [Next]_vars PROVE Frame'
    OBVIOUS
  <2>1. CASE UNCHANGED vars
    BY <2>1 DEF vars
  <2>2. CASE Crash
    BY <2>2 DEF Crash, NoRequest, hsmVars, history
  <2>3. QED
    BY <2>1, <2>2, FrameStep DEF Next
<1>3. QED
  BY <1>1, <1>2, AlwaysTyped, PTL DEF Spec

----------------------------------------------------------------------------
(* The two stores agree. *)

\* No row without its private key, except where a failure or a race left it so.
LEMMA RowBackedStep ==
    ASSUME Typed, Frame, RowBacked, NEW w \in Workers, Step(w)
    PROVE  RowBacked'
<1> USE NoKeyAssumption
    DEF hsmVars, history, faultVars, Goto, Return, RowBacked, Removing
<1>r. pc \in [Workers -> Steps] /\ req \in [Workers -> Request]
  BY DEF Typed, Located
<1>1. CASE CreateKey(w) \/ RotateKey(w) \/ DeleteKey(w) \/ SignHash(w)
  BY <1>1, <1>r DEF CreateKey, RotateKey, DeleteKey, SignHash, Begin
<1>2. CASE FindKey(w) \/ GetTenantSlot(w) \/ ValidateFails(w) \/ SaveKeyFails(w)
           \/ RecheckTenantSlot(w) \/ SaveDeactivatedFails(w) \/ SignOnHSM(w)
  BY <1>2, <1>r DEF FindKey, GetTenantSlot, ValidateFails, SaveKeyFails,
                    RecheckTenantSlot, SaveDeactivatedFails, SignOnHSM
<1>3. CASE FindKeyFails(w) \/ GetTenantSlotFails(w) \/ GenerateKeyPairFails(w)
           \/ SignOnHSMFails(w) \/ ReturnSignature(w) \/ RecheckTenantSlotFails(w)
           \/ UnwindNewRowFails(w) \/ DeleteFromHSMFails(w)
  BY <1>3, <1>r DEF FindKeyFails, GetTenantSlotFails, GenerateKeyPairFails,
                    SignOnHSMFails, ReturnSignature, RecheckTenantSlotFails,
                    UnwindNewRowFails, DeleteFromHSMFails, DestroyFails
<1>4. CASE GenerateKeyPair(w) \/ GenerateKeyPairLeaks(w)
  BY <1>4, <1>r DEF GenerateKeyPair, GenerateKeyPairLeaks, LeakIfAlive
<1>5. CASE SaveKey(w) \/ SaveKeyReplyLost(w)
  BY <1>5, <1>r DEF SaveKey, SaveKeyReplyLost, Insert, Frame, NewKeyStaged
<1>6. CASE SaveDeactivated(w)
  BY <1>6, <1>r DEF SaveDeactivated, Insert
<1>7. CASE Unwind(w)
  BY <1>7, <1>r, DestroyShrinks DEF Unwind, Frame, NewKeyStaged, FromBirth
<1>8. CASE UnwindNewHSM(w) \/ DeleteFromHSM(w)
  BY <1>8, <1>r, DestroyShrinks DEF UnwindNewHSM, DeleteFromHSM
<1>9. CASE UnwindNewRow(w) \/ DeleteRow(w) \/ DeleteRowFails(w)
  BY <1>9, <1>r DEF UnwindNewRow, DeleteRow, DeleteRowFails, Remove
<1>10. QED
  BY <1>1, <1>2, <1>3, <1>4, <1>5, <1>6, <1>7, <1>8, <1>9 DEF Step

\* Every row names a private key that is on the token, unless the key is between
\* its two deletions or a recorded failure (or a rotation racing a deletion)
\* left the row hollow.
THEOREM RowsAreBacked == Spec => []RowBacked
<1>1. Init => RowBacked
  BY DEF Init, RowBacked
<1>2. Typed /\ Frame /\ RowBacked /\ [Next]_vars => RowBacked'
  <2> SUFFICES ASSUME Typed, Frame, RowBacked, [Next]_vars PROVE RowBacked'
    OBVIOUS
  <2>1. CASE UNCHANGED vars
    BY <2>1 DEF vars, RowBacked, Removing
  <2>2. CASE Crash
    BY <2>2 DEF Crash, RowBacked, hsmVars, history
  <2>3. QED
    BY <2>1, <2>2, RowBackedStep DEF Next
<1>3. QED
  BY <1>1, <1>2, AlwaysTyped, AlwaysFramed, PTL DEF Spec

\* No private key without its row, except one being created or left by a failure.
LEMMA NoOrphanStep ==
    ASSUME Typed, Frame, NoOrphanPrivateKey, NEW w \in Workers, Step(w)
    PROVE  NoOrphanPrivateKey'
<1> USE NoKeyAssumption
    DEF hsmVars, history, faultVars, Goto, Return, NoOrphanPrivateKey, Saving
<1>r. pc \in [Workers -> Steps] /\ req \in [Workers -> Request]
  BY DEF Typed, Located
<1>1. CASE CreateKey(w) \/ RotateKey(w) \/ DeleteKey(w) \/ SignHash(w)
  BY <1>1, <1>r DEF CreateKey, RotateKey, DeleteKey, SignHash, Begin
<1>2. CASE FindKey(w) \/ GetTenantSlot(w) \/ ValidateFails(w) \/ SaveKeyFails(w)
           \/ RecheckTenantSlot(w) \/ SaveDeactivatedFails(w) \/ SignOnHSM(w)
  BY <1>2, <1>r DEF FindKey, GetTenantSlot, ValidateFails, SaveKeyFails,
                    RecheckTenantSlot, SaveDeactivatedFails, SignOnHSM
<1>3. CASE FindKeyFails(w) \/ GetTenantSlotFails(w) \/ GenerateKeyPairFails(w)
           \/ SignOnHSMFails(w) \/ ReturnSignature(w) \/ RecheckTenantSlotFails(w)
           \/ UnwindNewRowFails(w) \/ DeleteFromHSMFails(w)
  BY <1>3, <1>r DEF FindKeyFails, GetTenantSlotFails, GenerateKeyPairFails,
                    SignOnHSMFails, ReturnSignature, RecheckTenantSlotFails,
                    UnwindNewRowFails, DeleteFromHSMFails, DestroyFails
<1>4. CASE GenerateKeyPair(w) \/ GenerateKeyPairLeaks(w)
  BY <1>4, <1>r DEF GenerateKeyPair, GenerateKeyPairLeaks, LeakIfAlive
<1>5. CASE SaveKey(w) \/ SaveKeyReplyLost(w)
  BY <1>5, <1>r DEF SaveKey, SaveKeyReplyLost, Insert
<1>6. CASE SaveDeactivated(w)
  BY <1>6, <1>r DEF SaveDeactivated, Insert
<1>7. CASE Unwind(w)
  BY <1>7, <1>r, DestroyShrinks DEF Unwind, LeakIfAlive
<1>8. CASE UnwindNewHSM(w) \/ DeleteFromHSM(w)
  BY <1>8, <1>r, DestroyShrinks DEF UnwindNewHSM, DeleteFromHSM, LeakIfAlive
<1>9. CASE UnwindNewRow(w) \/ DeleteRow(w) \/ DeleteRowFails(w)
  BY <1>9, <1>r DEF UnwindNewRow, DeleteRow, DeleteRowFails, Remove, Frame, DestroyedFirst
<1>10. QED
  BY <1>1, <1>2, <1>3, <1>4, <1>5, <1>6, <1>7, <1>8, <1>9 DEF Step

\* Every private key on the token is named by a row, is being created, or was
\* left behind by a recorded failure.
THEOREM PrivateKeysAreNamed == Spec => []NoOrphanPrivateKey
<1>1. Init => NoOrphanPrivateKey
  BY DEF Init, NoOrphanPrivateKey
<1>2. Typed /\ Frame /\ NoOrphanPrivateKey /\ [Next]_vars => NoOrphanPrivateKey'
  <2> SUFFICES ASSUME Typed, Frame, NoOrphanPrivateKey, [Next]_vars
               PROVE  NoOrphanPrivateKey'
    OBVIOUS
  <2>1. CASE UNCHANGED vars
    BY <2>1 DEF vars, NoOrphanPrivateKey, Saving
  <2>2. CASE Crash
    BY <2>2 DEF Crash, NoOrphanPrivateKey, hsmVars, history
  <2>3. QED
    BY <2>1, <2>2, NoOrphanStep DEF Next
<1>3. QED
  BY <1>1, <1>2, AlwaysTyped, AlwaysFramed, PTL DEF Spec

----------------------------------------------------------------------------
(* A deleted key stays unusable. *)

\* A key whose deletion was reported has no active row, and a signature request
\* that came after the report never gets past its lookup.
DeletedStaysOut ==
    /\ deleted \subseteq DOMAIN minted
    /\ \A k \in DOMAIN rows : k \in deleted => ~rows[k].active
    /\ \A w \in Workers : req[w].late =>
          req[w].op = "sign" /\ req[w].key \in deleted /\ pc[w] = "find"

\* Every step of a request keeps deleted keys out.
LEMMA DeletedStaysOutStep ==
    ASSUME Typed, Frame, DeletedStaysOut, NEW w \in Workers, Step(w)
    PROVE  DeletedStaysOut'
<1> USE DEF hsmVars, history, faultVars, Goto, Return, Begin, NoRequest, Request,
            DeletedStaysOut
<1>r. pc \in [Workers -> Steps] /\ req \in [Workers -> Request]
  BY DEF Typed, Located
<1>1. CASE CreateKey(w) \/ RotateKey(w) \/ DeleteKey(w)
  <2>1. ~req'[w].late
    <3>1. CASE CreateKey(w)
      BY <3>1, <1>r DEF CreateKey
    <3>2. CASE RotateKey(w)
      BY <3>2, <1>r DEF RotateKey
    <3>3. CASE DeleteKey(w)
      BY <3>3, <1>r DEF DeleteKey
    <3>4. QED
      BY <1>1, <3>1, <3>2, <3>3
  <2>2. /\ \A v \in Workers \ {w} : req'[v] = req[v] /\ pc'[v] = pc[v]
        /\ UNCHANGED <<deleted, minted, rows>>
    BY <1>1, <1>r DEF CreateKey, RotateKey, DeleteKey
  <2> HIDE DEF Goto, Begin, NoRequest
  <2>3. QED
    BY <2>1, <2>2
<1>2. CASE SignHash(w)
  <2>1. PICK t \in Tenants, k \in Keys :
          Begin(w, "find", [NoRequest EXCEPT !.op = "sign", !.tenant = t, !.key = k,
                               !.late = k \in deleted])
    BY <1>2 DEF SignHash
  <2>2. /\ req'[w].op = "sign" /\ req'[w].key = k
        /\ req'[w].late = (k \in deleted)
    BY <2>1, <1>r, Zenon
  <2>3. pc'[w] = "find"
    BY <2>1, <1>r
  <2>4. \A v \in Workers \ {w} : req'[v] = req[v] /\ pc'[v] = pc[v]
    BY <2>1, <1>r
  <2>5. UNCHANGED <<deleted, minted, rows>>
    BY <2>1
  <2> HIDE DEF Goto, Begin, NoRequest
  <2>6. QED
    BY <2>2, <2>3, <2>4, <2>5
<1>3. CASE FindKey(w)
  BY <1>3, <1>r DEF FindKey, Admitted, Visible
<1>4. CASE GetTenantSlot(w) \/ ValidateFails(w) \/ SaveKeyFails(w)
           \/ RecheckTenantSlot(w) \/ SaveDeactivatedFails(w) \/ SignOnHSM(w)
  BY <1>4, <1>r DEF GetTenantSlot, ValidateFails, SaveKeyFails,
                    RecheckTenantSlot, SaveDeactivatedFails, SignOnHSM
<1>5. CASE FindKeyFails(w) \/ GetTenantSlotFails(w) \/ GenerateKeyPairFails(w)
           \/ SignOnHSMFails(w) \/ ReturnSignature(w) \/ RecheckTenantSlotFails(w)
           \/ UnwindNewRowFails(w) \/ DeleteFromHSMFails(w)
  BY <1>5, <1>r DEF FindKeyFails, GetTenantSlotFails, GenerateKeyPairFails,
                    SignOnHSMFails, ReturnSignature, RecheckTenantSlotFails,
                    UnwindNewRowFails, DeleteFromHSMFails
<1>6. CASE GenerateKeyPair(w) \/ GenerateKeyPairLeaks(w) \/ Unwind(w)
           \/ UnwindNewHSM(w) \/ DeleteFromHSM(w)
  BY <1>6, <1>r DEF GenerateKeyPair, GenerateKeyPairLeaks, Unwind, UnwindNewHSM, DeleteFromHSM
<1>7. CASE SaveKey(w) \/ SaveKeyReplyLost(w)
  BY <1>7, <1>r DEF SaveKey, SaveKeyReplyLost, Insert, RecordMint, NewRow, Frame,
                    NewKeyStaged
<1>8. CASE SaveDeactivated(w)
  BY <1>8, <1>r DEF SaveDeactivated, Insert, Deactivated
<1>9. CASE UnwindNewRow(w) \/ DeleteRow(w) \/ DeleteRowFails(w)
  BY <1>9, <1>r DEF UnwindNewRow, DeleteRow, DeleteRowFails, Remove, Frame, FromBirth
<1>10. QED
  BY <1>1, <1>2, <1>3, <1>4, <1>5, <1>6, <1>7, <1>8, <1>9 DEF Step

\* Deleted keys stay out in every state.
LEMMA AlwaysDeletedStaysOut == Spec => []DeletedStaysOut
<1>1. Init => DeletedStaysOut
  BY DEF Init, DeletedStaysOut, NoRequest
<1>2. Typed /\ Frame /\ DeletedStaysOut /\ [Next]_vars => DeletedStaysOut'
  <2> SUFFICES ASSUME Typed, Frame, DeletedStaysOut, [Next]_vars PROVE DeletedStaysOut'
    OBVIOUS
  <2>1. CASE UNCHANGED vars
    BY <2>1 DEF vars, DeletedStaysOut
  <2>2. CASE Crash
    BY <2>2 DEF Crash, DeletedStaysOut, NoRequest, hsmVars, history
  <2>3. QED
    BY <2>1, <2>2, DeletedStaysOutStep DEF Next
<1>3. QED
  BY <1>1, <1>2, AlwaysTyped, AlwaysFramed, PTL DEF Spec

\* No signature with a key is produced for a request that began after the key's
\* deletion had been reported, whatever fails and however rotation races it.
THEOREM NoLateSignature == Spec => []NoSignatureAfterDelete
<1>1. DeletedStaysOut => NoSignatureAfterDelete
  BY DEF DeletedStaysOut, NoSignatureAfterDelete
<1>2. QED
  BY <1>1, AlwaysDeletedStaysOut, PTL

----------------------------------------------------------------------------
(* Nothing is left behind a caller's back. *)

\* Every step of a request keeps the rows known.
LEMMA RowsAreKnownStep ==
    ASSUME Typed, RowsAreKnown, NEW w \in Workers, Step(w)
    PROVE  RowsAreKnown'
<1> USE DEF hsmVars, history, faultVars, Goto, Return, RowsAreKnown, Rotating
<1>r. pc \in [Workers -> Steps] /\ req \in [Workers -> Request]
  BY DEF Typed, Located
<1>1. CASE CreateKey(w) \/ RotateKey(w) \/ DeleteKey(w) \/ SignHash(w)
  BY <1>1, <1>r DEF CreateKey, RotateKey, DeleteKey, SignHash, Begin
<1>2. CASE FindKey(w) \/ GetTenantSlot(w) \/ ValidateFails(w) \/ SaveKeyFails(w)
           \/ RecheckTenantSlot(w) \/ SaveDeactivatedFails(w) \/ SignOnHSM(w)
  BY <1>2, <1>r DEF FindKey, GetTenantSlot, ValidateFails, SaveKeyFails,
                    RecheckTenantSlot, SaveDeactivatedFails, SignOnHSM
<1>3. CASE FindKeyFails(w) \/ GetTenantSlotFails(w) \/ GenerateKeyPairFails(w)
           \/ SignOnHSMFails(w) \/ ReturnSignature(w) \/ RecheckTenantSlotFails(w)
           \/ UnwindNewRowFails(w) \/ DeleteFromHSMFails(w)
  BY <1>3, <1>r DEF FindKeyFails, GetTenantSlotFails, GenerateKeyPairFails,
                    SignOnHSMFails, ReturnSignature, RecheckTenantSlotFails,
                    UnwindNewRowFails, DeleteFromHSMFails
<1>4. CASE GenerateKeyPair(w) \/ GenerateKeyPairLeaks(w) \/ Unwind(w)
           \/ UnwindNewHSM(w) \/ DeleteFromHSM(w)
  BY <1>4, <1>r DEF GenerateKeyPair, GenerateKeyPairLeaks, Unwind, UnwindNewHSM, DeleteFromHSM
<1>5. CASE SaveKey(w) \/ SaveKeyReplyLost(w)
  BY <1>5, <1>r DEF SaveKey, SaveKeyReplyLost, Insert
<1>6. CASE SaveDeactivated(w)
  BY <1>6, <1>r DEF SaveDeactivated, Insert
<1>7. CASE UnwindNewRow(w) \/ DeleteRow(w) \/ DeleteRowFails(w)
  BY <1>7, <1>r DEF UnwindNewRow, DeleteRow, DeleteRowFails, Remove
<1>8. QED
  BY <1>1, <1>2, <1>3, <1>4, <1>5, <1>6, <1>7 DEF Step

\* A create or a rotation that reports an error leaves no row behind, unless a
\* recorded failure did.
THEOREM NoUnknownRows == Spec => []RowsAreKnown
<1>1. Init => RowsAreKnown
  BY DEF Init, RowsAreKnown
<1>2. Typed /\ RowsAreKnown /\ [Next]_vars => RowsAreKnown'
  <2> SUFFICES ASSUME Typed, RowsAreKnown, [Next]_vars PROVE RowsAreKnown'
    OBVIOUS
  <2>1. CASE UNCHANGED vars
    BY <2>1 DEF vars, RowsAreKnown, Rotating
  <2>2. CASE Crash
    BY <2>2 DEF Crash, RowsAreKnown, hsmVars, history
  <2>3. QED
    BY <2>1, <2>2, RowsAreKnownStep DEF Next
<1>3. QED
  BY <1>1, <1>2, AlwaysTyped, PTL DEF Spec

----------------------------------------------------------------------------
(* The service implements the atomic store. *)

\* A signature request past its lookup asks for a key minted for signatures.
SignerAdmitted ==
    \A w \in Workers :
        req[w].op = "sign" /\ pc[w] # "find" => req[w].usage \in {"SIGNING", "BOTH"}

\* A signature request gets past its lookup only with a signing key.
LEMMA AlwaysAdmitted == Spec => []SignerAdmitted
<1> USE DEF SignerAdmitted, NoRequest, Goto, Return, Begin, Request, hsmVars, history, faultVars
<1>1. Init => SignerAdmitted
  BY DEF Init
<1>2. Typed /\ SignerAdmitted /\ [Next]_vars => SignerAdmitted'
  <2> SUFFICES ASSUME Typed, SignerAdmitted, [Next]_vars PROVE SignerAdmitted'
    OBVIOUS
  <2>r. pc \in [Workers -> Steps] /\ req \in [Workers -> Request]
    BY DEF Typed, Located
  <2>1. CASE UNCHANGED vars
    BY <2>1 DEF vars
  <2>2. CASE Crash
    BY <2>2 DEF Crash
  <2>3. ASSUME NEW w \in Workers, Step(w) PROVE SignerAdmitted'
    <3>1. CASE CreateKey(w) \/ RotateKey(w) \/ DeleteKey(w) \/ SignHash(w)
      <4>1. CASE CreateKey(w)
        BY <4>1, <2>r DEF CreateKey
      <4>2. CASE RotateKey(w) \/ DeleteKey(w) \/ SignHash(w)
        <5>1. pc'[w] = "find" /\ \A v \in Workers \ {w} : req'[v] = req[v] /\ pc'[v] = pc[v]
          BY <4>2, <2>r DEF RotateKey, DeleteKey, SignHash
        <5> HIDE DEF Goto, Begin, NoRequest
        <5>2. QED
          BY <5>1
      <4>3. QED
        BY <3>1, <4>1, <4>2
    <3>2. CASE FindKey(w)
      BY <3>2, <2>r DEF FindKey, Admitted, Visible
    <3>3. CASE GetTenantSlot(w) \/ ValidateFails(w) \/ SaveKeyFails(w)
               \/ SaveKeyReplyLost(w) \/ GenerateKeyPair(w) \/ UnwindNewHSM(w)
               \/ DeleteFromHSM(w) \/ RecheckTenantSlot(w) \/ SaveDeactivatedFails(w)
               \/ SignOnHSM(w)
      BY <3>3, <2>r DEF GetTenantSlot, ValidateFails, SaveKeyFails, SaveKeyReplyLost,
                        GenerateKeyPair, UnwindNewHSM, DeleteFromHSM, RecheckTenantSlot,
                        SaveDeactivatedFails, SignOnHSM
    <3>4. CASE FindKeyFails(w) \/ GetTenantSlotFails(w) \/ GenerateKeyPairFails(w)
               \/ SignOnHSMFails(w) \/ ReturnSignature(w) \/ RecheckTenantSlotFails(w)
               \/ UnwindNewRowFails(w) \/ DeleteFromHSMFails(w) \/ Unwind(w)
               \/ UnwindNewRow(w) \/ DeleteRow(w) \/ DeleteRowFails(w)
               \/ GenerateKeyPairLeaks(w)
      BY <3>4, <2>r DEF FindKeyFails, GetTenantSlotFails, GenerateKeyPairFails,
                        SignOnHSMFails, ReturnSignature, RecheckTenantSlotFails,
                        UnwindNewRowFails, DeleteFromHSMFails, Unwind, UnwindNewRow,
                        DeleteRow, DeleteRowFails, GenerateKeyPairLeaks
    <3>5. CASE SaveKey(w) \/ SaveDeactivated(w)
      BY <3>5, <2>r DEF SaveKey, SaveDeactivated
    <3>6. QED
      BY <2>3, <3>1, <3>2, <3>3, <3>4, <3>5 DEF Step
  <2>4. QED
    BY <2>1, <2>2, <2>3 DEF Next
<1>3. QED
  BY <1>1, <1>2, AlwaysTyped, PTL DEF Spec

\* A step that gives no signature away leaves every answer as it is.
LEMMA SameAnswers ==
    ASSUME Typed, NEW w \in Workers,
           \A v \in Workers \ {w} : pc'[v] = pc[v] /\ req'[v] = req[v],
           pc[w] # "signed", pc'[w] # "signed"
    PROVE  [v \in Workers |-> Answer(v)]' = [v \in Workers |-> Answer(v)]
BY DEF Answer

\* Every step of a request is a step of the atomic store or changes nothing in it.
LEMMA StoreStep ==
    ASSUME Typed, Frame, SignerAdmitted, NEW w \in Workers, Step(w)
    PROVE  [Store!Next]_(Store!vars)
<1> USE DEF hsmVars, history, faultVars, Goto, Return
<1>r. /\ pc \in [Workers -> Steps] /\ req \in [Workers -> Request]
      /\ \A v \in Workers : Placed(pc[v], req[v])
  BY DEF Typed, Located
<1>o. \A v \in Workers \ {w} : pc'[v] = pc[v] /\ req'[v] = req[v]
  BY <1>r DEF Step, CreateKey, RotateKey, DeleteKey, SignHash, Begin, FindKey, FindKeyFails,
     GetTenantSlot, GetTenantSlotFails, GenerateKeyPair, GenerateKeyPairFails,
     GenerateKeyPairLeaks, ValidateFails, SaveKey, SaveKeyFails, SaveKeyReplyLost, Unwind, RecheckTenantSlot,
     RecheckTenantSlotFails, SaveDeactivated, SaveDeactivatedFails, UnwindNewHSM,
     UnwindNewRow, UnwindNewRowFails, DeleteFromHSM, DeleteFromHSMFails, DeleteRow,
     DeleteRowFails, SignOnHSM, SignOnHSMFails, ReturnSignature
<1>1. CASE SignOnHSM(w)
  <2> DEFINE k == req[w].key
  <2>1. /\ pc[w] = "sign" /\ pc' = [pc EXCEPT ![w] = "signed"] /\ UNCHANGED <<req, minted, priv>>
        /\ k \in priv /\ k \in Keys
    BY <1>1, <1>r DEF SignOnHSM, Placed
  <2>2. /\ k \in DOMAIN minted /\ req[w].tenant = minted[k].tenant
        /\ minted[k].usage \in {"SIGNING", "BOTH"}
    BY <2>1, <1>r DEF Frame, OldKeyFound, SignerAdmitted, Placed
  <2>3. [v \in Workers |-> Answer(v)]' =
          [[v \in Workers |-> Answer(v)] EXCEPT ![w] = [key |-> k, tenant |-> minted[k].tenant]]
    BY <2>1, <2>2, <1>r, <1>o DEF Answer
  <2>4. [v \in Workers |-> Answer(v)][w] = NoKey
    BY <2>1 DEF Answer
  <2>5. Store!Sign(w, k)
    BY <2>1, <2>2, <2>3, <2>4 DEF Store!Sign
  <2>6. QED
    BY <2>1, <2>5 DEF Store!Next
<1>2. CASE ReturnSignature(w)
  <2>1. [v \in Workers |-> Answer(v)]' = [[v \in Workers |-> Answer(v)] EXCEPT ![w] = NoKey]
    BY <1>2, <1>r, <1>o DEF ReturnSignature, Answer
  <2>2. Store!Deliver(w)
    BY <1>2, <2>1 DEF ReturnSignature, Store!Deliver
  <2>3. QED
    BY <2>2 DEF Store!Next
<1>3. CASE SaveKey(w) \/ SaveKeyReplyLost(w)
  <2> DEFINE k == req[w].new
  <2>1. pc[w] = "save" /\ pc'[w] # "signed" /\ UNCHANGED priv /\ RecordMint(w, k)
    BY <1>3, <1>r DEF SaveKey, SaveKeyReplyLost
  <2>2. k \in Keys /\ k \in priv /\ k \notin DOMAIN minted
        /\ req[w].tenant \in Tenants /\ req[w].usage \in Usages
    BY <2>1, <1>r DEF Frame, NewKeyStaged, Placed
  <2>3. [v \in Workers |-> Answer(v)]' = [v \in Workers |-> Answer(v)]
    BY <2>1, <1>o, SameAnswers
  <2>4. Store!Mint(k)
    <3>1. (DOMAIN minted \ priv)' = DOMAIN minted \ priv
      BY <2>1, <2>2 DEF RecordMint
    <3>2. QED
      BY <2>1, <2>2, <2>3, <3>1 DEF Store!Mint, RecordMint
  <2>5. QED
    BY <2>2, <2>4 DEF Store!Next
<1>4. CASE Unwind(w) \/ UnwindNewHSM(w) \/ DeleteFromHSM(w) \/ DeleteFromHSMFails(w)
  <2>1. PICK k \in Keys : DestroyObject(k) \/ DestroyFails(k)
    BY <1>4, <1>r DEF Unwind, UnwindNewHSM, DeleteFromHSM, DeleteFromHSMFails, Placed
  <2>2. pc[w] # "signed" /\ pc'[w] # "signed" /\ UNCHANGED minted
    BY <1>4, <1>r DEF Unwind, UnwindNewHSM, DeleteFromHSM, DeleteFromHSMFails
  <2>3. [v \in Workers |-> Answer(v)]' = [v \in Workers |-> Answer(v)]
    BY <2>2, <1>o, SameAnswers
  <2>4. priv' = priv \/ (k \in priv /\ priv' = priv \ {k})
    <3>1. CASE DestroyObject(k)
      BY <3>1, Zenon DEF DestroyObject
    <3>2. CASE DestroyFails(k)
      BY <3>2, Zenon DEF DestroyFails, hsmVars
    <3>3. QED
      BY <2>1, <3>1, <3>2
  <2>5. CASE k \in DOMAIN minted /\ k \in priv /\ priv' = priv \ {k}
    <3>1. Store!Retire(k)
      BY <2>2, <2>3, <2>5 DEF Store!Retire
    <3>2. QED
      BY <3>1 DEF Store!Next
  <2>6. CASE ~(k \in DOMAIN minted /\ k \in priv /\ priv' = priv \ {k})
    BY <2>2, <2>3, <2>4, <2>6 DEF Store!vars
  <2>7. QED
    BY <2>5, <2>6
<1>5. CASE GenerateKeyPair(w) \/ GenerateKeyPairLeaks(w)
  <2>1. req[w].new \notin DOMAIN minted /\ pc[w] # "signed" /\ pc'[w] # "signed"
    BY <1>5, <1>r DEF GenerateKeyPair, GenerateKeyPairLeaks, Frame, DrawnOnce, FromBirth, Placed
  <2>2. [v \in Workers |-> Answer(v)]' = [v \in Workers |-> Answer(v)]
    BY <2>1, <1>o, SameAnswers
  <2>3. QED
    BY <1>5, <2>1, <2>2 DEF GenerateKeyPair, GenerateKeyPairLeaks, Store!vars
<1>6. CASE UNCHANGED <<minted, priv>> /\ pc[w] # "signed" /\ pc'[w] # "signed"
  <2>1. [v \in Workers |-> Answer(v)]' = [v \in Workers |-> Answer(v)]
    BY <1>6, <1>o, SameAnswers
  <2>2. QED
    BY <1>6, <2>1 DEF Store!vars
<1>7. QED
  <2>1. CASE CreateKey(w) \/ RotateKey(w) \/ DeleteKey(w) \/ SignHash(w)
    BY <2>1, <1>6, <1>r DEF CreateKey, RotateKey, DeleteKey, SignHash, Begin
  <2>2. CASE FindKey(w) \/ GetTenantSlot(w) \/ ValidateFails(w) \/ SaveKeyFails(w)
             \/ RecheckTenantSlot(w) \/ SaveDeactivatedFails(w)
    BY <2>2, <1>6, <1>r DEF FindKey, GetTenantSlot, AfterSlot, ValidateFails, SaveKeyFails,
                            RecheckTenantSlot, SaveDeactivatedFails
  <2>3. CASE FindKeyFails(w) \/ GetTenantSlotFails(w) \/ GenerateKeyPairFails(w)
             \/ SignOnHSMFails(w) \/ RecheckTenantSlotFails(w) \/ UnwindNewRowFails(w)
             \/ UnwindNewRow(w) \/ DeleteRow(w) \/ DeleteRowFails(w) \/ SaveDeactivated(w)
    BY <2>3, <1>6, <1>r DEF FindKeyFails, GetTenantSlotFails, GenerateKeyPairFails,
                            SignOnHSMFails, RecheckTenantSlotFails, UnwindNewRowFails,
                            UnwindNewRow, DeleteRow, DeleteRowFails, SaveDeactivated
  <2>4. QED
    BY <2>1, <2>2, <2>3, <1>1, <1>2, <1>3, <1>4, <1>5 DEF Step

\* Whatever fails, and however requests interleave, callers see an atomic store:
\* a key signs for the tenant and usage it was minted with, after its row was
\* stored and before its private key is destroyed, and never comes back.
THEOREM Refinement == Spec => ImplementsKeyStore
<1>1. Init => Store!Init
  BY DEF Init, Store!Init, Answer
<1>2. Typed /\ Frame /\ SignerAdmitted /\ [Next]_vars => [Store!Next]_(Store!vars)
  <2> SUFFICES ASSUME Typed, Frame, SignerAdmitted, [Next]_vars
               PROVE  [Store!Next]_(Store!vars)
    OBVIOUS
  <2>1. CASE UNCHANGED vars
    BY <2>1 DEF vars, Store!vars, Answer
  <2>2. CASE Crash
    <3>1. [v \in Workers |-> Answer(v)]' = [v \in Workers |-> NoKey]
      BY <2>2 DEF Crash, Answer
    <3>2. Store!LoseAnswers
      BY <2>2, <3>1 DEF Crash, Store!LoseAnswers, hsmVars, history
    <3>3. QED
      BY <3>2 DEF Store!Next
  <2>3. QED
    BY <2>1, <2>2, StoreStep DEF Next
<1>3. QED
  BY <1>1, <1>2, AlwaysTyped, AlwaysFramed, AlwaysAdmitted, PTL
     DEF Spec, ImplementsKeyStore, Store!Spec
=============================================================================
