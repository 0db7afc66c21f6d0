------------------------ MODULE OperationTrailProofs ------------------------
(***************************************************************************)
(* Proofs about OperationTrail, for any number of requests, keys and         *)
(* tenants: what an answer means, and what the records say of it.            *)
(***************************************************************************)
EXTENDS OperationTrail, TLAPS

----------------------------------------------------------------------------
(* The inductive invariant: what is true of a request at each of its steps. *)

Own(r) == row[call[r].key].tenant = call[r].who
Signs(r) == call[r].op \in {"sign", "verify"}
NoEffect(r) == r \notin signed /\ r \notin pair /\ ~Exists(r)

\* The steps before the service method has returned.
Within == {"idle", "token", "find", "tenant", "slot", "detail", "hsm", "save"}

\* A request asks for one operation from its arrival on, and each step is one
\* of that operation.
Placed(r) ==
    /\ pc[r] = "idle" => call[r].op = "none"
    /\ pc[r] # "idle" => call[r] \in Call
    /\ pc[r] = "find" => call[r].op \in {"list", "sign", "verify", "public"}
    /\ pc[r] \in {"tenant", "slot", "detail", "hsm"} => call[r].op \in {"create", "sign", "verify"}
    /\ pc[r] \in {"tenant", "slot", "detail", "hsm"} /\ Signs(r) => Own(r)
    /\ pc[r] = "save" => Only(r, "create")
    /\ pc[r] = "audit" => Audited(r)
    /\ pc[r] = "track" => call[r].op \in {"create", "sign", "verify"}

\* Until the service returns there is no error, no record and no answer, and
\* nothing but the pair of a key whose row is about to be stored.
Pending(r) ==
    pc[r] \in Within =>
        /\ err[r] = "nil" /\ r \notin panicked
        /\ event[r] = "none" /\ oprow[r] = "none" /\ r \notin untracked /\ answer[r] = 0
        /\ r \notin signed /\ ~Exists(r)
        /\ r \in pair <=> pc[r] = "save"

\* What there is of a request is what it asked for.
Wanted(r) ==
    /\ r \in signed => Only(r, "sign") /\ Own(r)
    /\ r \in pair => Only(r, "create")
    /\ Exists(r) => Only(r, "create") /\ row[r].tenant = call[r].who /\ row[r].active

\* The error that the deferred functions find tells what was done, but for a
\* panic, which leaves none.
Returned(r) ==
    pc[r] \in {"audit", "track", "reply"} =>
        /\ answer[r] = 0
        /\ r \in panicked => err[r] = "nil" /\ NoEffect(r)
        /\ r \notin panicked /\ err[r] = "nil" =>
              /\ Only(r, "create") => r \in pair /\ Exists(r)
              /\ Only(r, "sign") => r \in signed
        /\ err[r] # "nil" => r \notin signed
        /\ err[r] \in Codes => NoEffect(r)
        /\ Signs(r) /\ err[r] \in {"nil", "plain", "KEY_INACTIVE", "SLOT_NOT_FOUND"} => Own(r)

\* The records that are written say what that error says.
Recorded(r) ==
    /\ pc[r] = "audit" => event[r] = "none" /\ oprow[r] = "none" /\ r \notin untracked
    /\ pc[r] = "track" => event[r] = Outcome(r) /\ oprow[r] = "none" /\ r \notin untracked
    /\ pc[r] = "reply" =>
          /\ event[r] = IF Audited(r) THEN Outcome(r) ELSE "none"
          /\ oprow[r] \in {"none", event[r]}
          /\ r \in signed => oprow[r] # "none" \/ r \in untracked

\* And so do the answer and the records, of each other and of the stores.
Answered(r) ==
    pc[r] = "done" =>
        /\ answer[r] # 0
        /\ answer[r] = 201 => r \in pair /\ Exists(r)
        /\ answer[r] = 200 /\ Only(r, "sign") => r \in signed
        /\ answer[r] \in Refused => NoEffect(r)
        /\ Signs(r) /\ ~Own(r) => answer[r] \in {400, 401, 404}
        /\ r \in panicked => answer[r] = 500 /\ NoEffect(r)
        /\ r \notin panicked /\ event[r] # "none" => (event[r] = "success" <=> answer[r] \in {200, 201})
        /\ oprow[r] # "none" => oprow[r] = event[r]
        /\ r \notin panicked /\ event[r] = "success" =>
              /\ Only(r, "create") => r \in pair /\ Exists(r)
              /\ Only(r, "sign") => r \in signed
        /\ event[r] = "none" => NoEffect(r)
        /\ r \in signed => oprow[r] # "none" \/ r \in untracked

Sound(r) ==
    Placed(r) /\ Pending(r) /\ Wanted(r) /\ Returned(r) /\ Recorded(r) /\ Answered(r)

IInv == TypeOK /\ \A r \in Requests : Sound(r)

----------------------------------------------------------------------------
(* What a step of one request leaves alone. *)

\* A step of r is nothing to the other requests, and replaces no row.
Alone(r) ==
    /\ \A s \in Requests \ {r} :
        /\ pc'[s] = pc[s] /\ call'[s] = call[s] /\ err'[s] = err[s]
        /\ event'[s] = event[s] /\ oprow'[s] = oprow[s] /\ answer'[s] = answer[s]
        /\ s \in panicked' <=> s \in panicked
        /\ s \in signed' <=> s \in signed
        /\ s \in untracked' <=> s \in untracked
        /\ s \in pair' <=> s \in pair
    /\ \A k \in Keys : k # r \/ Exists(k) => row'[k] = row[k]

\* Only somebody who asked for a key can own one, and then it exists.
LEMMA OwnedExists ==
    ASSUME IInv, NEW s \in Requests, Signs(s), Own(s)
    PROVE  call[s].key \in Keys /\ Exists(call[s].key) /\ call[s].who # NoTenant
<1>1. Sound(s)
  BY DEF IInv
<1>2. pc[s] # "idle"
  BY <1>1 DEF Sound, Placed, Signs
<1>3. call[s] \in Call
  BY <1>1, <1>2 DEF Sound, Placed
<1>4. call[s].who \in Tenants /\ call[s].key \in Keys
  BY <1>3 DEF Call
<1>5. QED
  BY <1>4, TrailAssumption DEF Own, Exists

\* A step of another request keeps what is true of this one: a key that it
\* has found is the same key after it.
LEMMA OthersSound ==
    ASSUME IInv, NEW r \in Requests, Alone(r), NEW s \in Requests, s # r
    PROVE  Sound(s)'
<1>1. Sound(s)
  BY DEF IInv
<1>2. /\ pc'[s] = pc[s] /\ call'[s] = call[s] /\ err'[s] = err[s]
      /\ event'[s] = event[s] /\ oprow'[s] = oprow[s] /\ answer'[s] = answer[s]
      /\ s \in panicked' <=> s \in panicked
      /\ s \in signed' <=> s \in signed
      /\ s \in untracked' <=> s \in untracked
      /\ s \in pair' <=> s \in pair
  BY DEF Alone
<1>3. row'[s] = row[s]
  BY DEF Alone, Keys
<1>4. Signs(s) /\ Own(s) => Own(s)'
  <2> SUFFICES ASSUME Signs(s), Own(s) PROVE Own(s)'
    OBVIOUS
  <2>1. call[s].key \in Keys /\ Exists(call[s].key)
    BY OwnedExists
  <2>2. row'[call[s].key] = row[call[s].key]
    BY <2>1 DEF Alone
  <2>3. QED
    BY <1>2, <2>2 DEF Own
<1>5. Exists(s)' = Exists(s) /\ NoEffect(s)' = NoEffect(s) /\ Outcome(s)' = Outcome(s)
  BY <1>2, <1>3 DEF Exists, NoEffect, Outcome
<1>6. /\ Signs(s)' = Signs(s) /\ Audited(s)' = Audited(s)
      /\ \A op \in Ops : Only(s, op)' = Only(s, op)
  BY <1>2 DEF Signs, Audited, Only
<1>7. Placed(s)'
  BY <1>1, <1>2, <1>4, <1>6 DEF Sound, Placed, Only, Ops
<1>8. Pending(s)'
  BY <1>1, <1>2, <1>5 DEF Sound, Pending
<1>9. Wanted(s)'
  BY <1>1, <1>2, <1>3, <1>4, <1>5 DEF Sound, Wanted, Only, Signs
<1>10. Returned(s)'
  BY <1>1, <1>2, <1>4, <1>5, <1>6 DEF Sound, Returned, Only
<1>11. Recorded(s)'
  BY <1>1, <1>2, <1>5, <1>6 DEF Sound, Recorded
<1>12. Answered(s)'
  BY <1>1, <1>2, <1>4, <1>5, <1>6 DEF Sound, Answered, Only
<1>13. QED
  BY <1>7, <1>8, <1>9, <1>10, <1>11, <1>12 DEF Sound

LEMMA StepIInv ==
    ASSUME IInv, NEW r \in Requests, Alone(r), TypeOK', Sound(r)'
    PROVE  IInv'
BY OthersSound DEF IInv

\* Where a request is after it moved.
LEMMA MovesTo ==
    ASSUME TypeOK, NEW r \in Requests, NEW from, NEW to \in Steps, Moves(r, from, to)
    PROVE  /\ pc' \in [Requests -> Steps]
           /\ pc[r] = from /\ pc'[r] = to
           /\ \A s \in Requests \ {r} : pc'[s] = pc[s]
BY DEF TypeOK, Moves

----------------------------------------------------------------------------
(* The steps before the service has returned. *)

\* A step within the service that keeps the request where it belongs.
LEMMA ProceedIInv ==
    ASSUME IInv, NEW r \in Requests, NEW from \in Within, NEW to \in Within \ {"save"},
           from \notin {"idle", "save"}, Proceed(r, from, to), Placed(r)'
    PROVE  IInv'
<1> USE DEF stores, records
<1>1. /\ pc' \in [Requests -> Steps] /\ pc[r] = from /\ pc'[r] = to
      /\ \A s \in Requests \ {r} : pc'[s] = pc[s]
  BY MovesTo DEF IInv, Proceed, Within, Steps
<1>2. TypeOK'
  BY <1>1 DEF IInv, TypeOK, Proceed
<1>3. Alone(r)
  BY <1>1 DEF Proceed, Alone
<1>4. Sound(r)
  BY DEF IInv
<1>5. Pending(r)'
  BY <1>1, <1>4 DEF Sound, Pending, Proceed, Exists
<1>6. Wanted(r)'
  BY <1>4 DEF Sound, Wanted, Proceed, Exists, Own, Only
<1>7. Returned(r)' /\ Recorded(r)' /\ Answered(r)'
  BY <1>1 DEF Returned, Recorded, Answered, Within
<1>8. Sound(r)'
  BY <1>5, <1>6, <1>7 DEF Sound
<1>9. QED
  BY <1>2, <1>3, <1>8, StepIInv

\* An answer given before any service was called.
LEMMA RefuseIInv ==
    ASSUME IInv, NEW r \in Requests, RejectToken(r) \/ RejectBody(r)
    PROVE  IInv'
<1> USE DEF stores, records
<1> PICK status \in {400, 401} : Refuse(r, "token", status)
  BY DEF RejectToken, RejectBody
<1>1. /\ pc' \in [Requests -> Steps] /\ pc[r] = "token" /\ pc'[r] = "done"
      /\ \A s \in Requests \ {r} : pc'[s] = pc[s]
  BY MovesTo DEF IInv, Refuse, Steps
<1>2. /\ answer'[r] = status
      /\ \A s \in Requests \ {r} : answer'[s] = answer[s]
  BY DEF IInv, TypeOK, Refuse
<1>3. TypeOK'
  BY <1>1 DEF IInv, TypeOK, Refuse
<1>4. Alone(r)
  BY <1>1, <1>2 DEF Refuse, Alone
<1>5. Sound(r)
  BY DEF IInv
<1>6. Placed(r)'
  BY <1>1, <1>5 DEF Sound, Placed, Refuse
<1>7. Pending(r)' /\ Returned(r)' /\ Recorded(r)'
  BY <1>1 DEF Pending, Returned, Recorded, Within
<1>8. Wanted(r)'
  BY <1>5 DEF Sound, Wanted, Refuse, Exists, Own, Only
<1>9. Answered(r)'
  BY <1>1, <1>2, <1>5 DEF Sound, Pending, Answered, Refuse, Exists, NoEffect, Within, Refused
<1>10. Sound(r)'
  BY <1>6, <1>7, <1>8, <1>9 DEF Sound
<1>11. QED
  BY <1>3, <1>4, <1>10, StepIInv

\* The service returns and has changed nothing, and the error says what the request was
\* entitled to: only a signing of the own key gets further than the search for a key.
LEMMA ReturnsIInv ==
    ASSUME IInv, NEW r \in Requests, NEW from \in Within, from \notin {"idle", "save"},
           NEW e \in Errors, Returns(r, from, e),
           UNCHANGED <<call, panicked, assigned, stores, records, answer, up>>,
           e = "nil" => ~Only(r, "create") /\ ~Only(r, "sign"),
           Signs(r) /\ e \in {"nil", "plain", "KEY_INACTIVE", "SLOT_NOT_FOUND"} => Own(r),
           call[r].op # "none"
    PROVE  IInv'
<1> USE DEF stores, records
<1>1. /\ pc[r] = from /\ pc'[r] = IF Audited(r) THEN "audit" ELSE "reply"
      /\ pc' \in [Requests -> Steps]
      /\ \A s \in Requests \ {r} : pc'[s] = pc[s]
  BY MovesTo DEF IInv, Returns, Steps
<1>2. /\ err'[r] = e
      /\ \A s \in Requests \ {r} : err'[s] = err[s]
  BY DEF IInv, TypeOK, Returns
<1>3. TypeOK'
  BY <1>1 DEF IInv, TypeOK, Returns
<1>4. Alone(r)
  BY <1>1, <1>2 DEF Alone
<1>5. Sound(r)
  BY DEF IInv
<1>6. Placed(r)'
  BY <1>1, <1>5 DEF Sound, Placed, Audited
<1>7. Pending(r)' /\ Answered(r)'
  BY <1>1 DEF Pending, Answered, Within
<1>8. Wanted(r)'
  BY <1>5 DEF Sound, Wanted, Exists, Own, Only
<1>9. Returned(r)'
  BY <1>1, <1>2, <1>5 DEF Sound, Pending, Returned, NoEffect, Exists, Only, Own, Signs
<1>10. Recorded(r)'
  BY <1>1, <1>5 DEF Sound, Pending, Recorded, Audited
<1>11. Sound(r)'
  BY <1>6, <1>7, <1>8, <1>9, <1>10 DEF Sound
<1>12. QED
  BY <1>3, <1>4, <1>11, StepIInv

\* A request that has arrived asks for one of the operations.
LEMMA Asked ==
    ASSUME IInv, NEW r \in Requests, pc[r] # "idle"
    PROVE  /\ call[r].op \in Ops /\ call[r].who \in Tenants /\ call[r].key \in Keys
           /\ call'[r] = call[r] => call'[r] \in Call
<1>1. call[r] \in Call
  BY DEF IInv, Sound, Placed
<1>2. QED
  BY <1>1 DEF Call

LEMMA LookupsIInv ==
    ASSUME IInv, NEW r \in Requests,
           \/ Accept(r) \/ FindKey(r) \/ FindKeyRefuses(r) \/ FindKeyFails(r)
           \/ Read(r) \/ ReadFails(r) \/ FindTenant(r) \/ FindTenantFails(r)
           \/ FindSlot(r) \/ FindSlotFails(r) \/ WithDetail(r)
    PROVE  IInv'
<1> USE DEF stores, records
<1>1. Sound(r)
  BY DEF IInv
<1>2. CASE Accept(r)
  <2> DEFINE to == IF Only(r, "create") THEN "tenant" ELSE "find"
  <2>1. Proceed(r, "token", to) /\ pc[r] = "token" /\ pc'[r] = to
    BY <1>2, MovesTo DEF IInv, Accept, Proceed, Steps
  <2>2. Placed(r)'
    BY <2>1, Asked DEF Placed, Proceed, Ops, Only, Signs
  <2>3. QED
    BY <2>1, <2>2, ProceedIInv DEF Within
<1>3. CASE FindKey(r)
  <2>1. Proceed(r, "find", "tenant") /\ pc[r] = "find" /\ pc'[r] = "tenant"
    BY <1>3, MovesTo DEF IInv, FindKey, Proceed, Steps
  <2>2. Own(r)
    BY <1>3 DEF FindKey, Verdict, Own
  <2>3. Placed(r)'
    BY <1>3, <2>1, <2>2, Asked DEF FindKey, Placed, Proceed, Own
  <2>4. QED
    BY <2>1, <2>3, ProceedIInv DEF Within
<1>4. CASE FindKeyRefuses(r)
  <2>1. /\ Verdict(r) \in {"KEY_NOT_FOUND", "KEY_INACTIVE", "INVALID_KEY_USAGE"}
        /\ Verdict(r) = "KEY_INACTIVE" => Own(r)
    BY <1>4 DEF FindKeyRefuses, Verdict, Own
  <2>2. QED
    BY <1>4, <2>1, ReturnsIInv DEF FindKeyRefuses, Within, Errors, Codes
<1>5. CASE FindKeyFails(r)
  BY <1>5, ReturnsIInv DEF FindKeyFails, Within, Errors, Codes
<1>6. CASE Read(r)
  BY <1>6, ReturnsIInv DEF Read, Within, Errors, Codes, Signs, Only
<1>7. CASE ReadFails(r)
  BY <1>7, ReturnsIInv DEF ReadFails, Within, Errors, Codes, Signs, Only
<1>8. CASE FindTenant(r)
  <2>1. Proceed(r, "tenant", "slot") /\ pc[r] = "tenant" /\ pc'[r] = "slot"
    BY <1>8, MovesTo DEF IInv, FindTenant, Proceed, Steps
  <2>2. Placed(r)'
    BY <1>1, <2>1 DEF Sound, Placed, Proceed, Signs, Own
  <2>3. QED
    BY <2>1, <2>2, ProceedIInv DEF Within
<1>9. CASE FindTenantFails(r)
  <2>1. pc[r] = "tenant" /\ call[r].op # "none"
    BY <1>1, <1>9 DEF FindTenantFails, Returns, Moves, Sound, Placed
  <2>2. QED
    BY <1>9, <2>1, ReturnsIInv DEF FindTenantFails, Within, Errors, Codes
<1>10. CASE FindSlot(r) \/ FindSlotFails(r)
  <2>1. PICK to \in {"hsm", "detail"} : Proceed(r, "slot", to)
    BY <1>10 DEF FindSlot, FindSlotFails
  <2>2. pc[r] = "slot" /\ pc'[r] = to
    BY <2>1, MovesTo DEF IInv, Proceed, Steps
  <2>3. Placed(r)'
    BY <1>1, <2>1, <2>2 DEF Sound, Placed, Proceed, Signs, Own
  <2>4. QED
    BY <2>1, <2>3, ProceedIInv DEF Within
<1>11. CASE WithDetail(r)
  <2>1. pc[r] = "detail" /\ call[r].op # "none" /\ (Signs(r) => Own(r))
    BY <1>1, <1>11 DEF WithDetail, Returns, Moves, Sound, Placed
  <2>2. QED
    BY <1>11, <2>1, ReturnsIInv DEF WithDetail, Within, Errors, Codes
<1>12. QED
  BY <1>2, <1>3, <1>4, <1>5, <1>6, <1>7, <1>8, <1>9, <1>10, <1>11

\* A panic in the service leaves nothing behind, and no error either.
LEMMA NoSlotIInv ==
    ASSUME IInv, NEW r \in Requests, NoSlot(r)
    PROVE  IInv'
<1> USE DEF stores, records
<1>1. /\ pc' \in [Requests -> Steps] /\ pc[r] = "slot" /\ pc'[r] = "audit"
      /\ \A s \in Requests \ {r} : pc'[s] = pc[s]
  BY MovesTo DEF IInv, NoSlot, Steps
<1>2. TypeOK'
  BY <1>1 DEF IInv, TypeOK, NoSlot
<1>3. Alone(r)
  BY <1>1 DEF NoSlot, Alone
<1>4. Sound(r)
  BY DEF IInv
<1>5. Placed(r)'
  BY <1>1, <1>4 DEF NoSlot, Sound, Placed, Audited
<1>6. Pending(r)' /\ Answered(r)'
  BY <1>1 DEF Pending, Answered, Within
<1>7. Wanted(r)'
  BY <1>4 DEF NoSlot, Sound, Wanted, Exists, Own, Only
<1>8. Returned(r)' /\ Recorded(r)'
  BY <1>1, <1>4 DEF NoSlot, Sound, Placed, Pending, Returned, Recorded, NoEffect, Exists, Only, Own, Signs, Within, Codes
<1>9. Sound(r)'
  BY <1>5, <1>6, <1>7, <1>8 DEF Sound
<1>10. QED
  BY <1>2, <1>3, <1>9, StepIInv

----------------------------------------------------------------------------
(* The HSM and the row of a new key. *)

LEMMA GenerateIInv ==
    ASSUME IInv, NEW r \in Requests, Generate(r)
    PROVE  IInv'
<1> USE DEF stores, records
<1>1. /\ pc' \in [Requests -> Steps] /\ pc[r] = "hsm" /\ pc'[r] = "save"
      /\ \A s \in Requests \ {r} : pc'[s] = pc[s]
  BY MovesTo DEF IInv, Generate, Steps
<1>2. TypeOK'
  BY <1>1 DEF IInv, TypeOK, Generate, Keys
<1>3. Alone(r)
  BY <1>1 DEF Generate, Alone
<1>4. Sound(r)
  BY DEF IInv
<1>5. Placed(r)'
  BY <1>1, <1>4 DEF Generate, Sound, Placed, Only
<1>6. Pending(r)'
  BY <1>1, <1>4 DEF Generate, Sound, Pending, Exists, Within
<1>7. Wanted(r)'
  BY <1>4 DEF Generate, Sound, Wanted, Exists, Own, Only
<1>8. Returned(r)' /\ Recorded(r)' /\ Answered(r)'
  BY <1>1 DEF Returned, Recorded, Answered
<1>9. Sound(r)'
  BY <1>5, <1>6, <1>7, <1>8 DEF Sound
<1>10. QED
  BY <1>2, <1>3, <1>9, StepIInv

LEMMA HsmIInv ==
    ASSUME IInv, NEW r \in Requests, Sign(r) \/ Verify(r) \/ HsmFails(r)
    PROVE  IInv'
<1> USE DEF stores, records
<1>1. PICK e \in {"nil", "plain"} : Returns(r, "hsm", e)
  BY DEF Sign, Verify, HsmFails
<1>2. /\ pc' \in [Requests -> Steps] /\ pc[r] = "hsm"
      /\ pc'[r] = IF Audited(r) THEN "audit" ELSE "reply"
      /\ \A s \in Requests \ {r} : pc'[s] = pc[s]
  BY <1>1, MovesTo DEF IInv, Returns, Steps
<1>3. /\ err' \in [Requests -> Errors] /\ err'[r] = e
      /\ \A s \in Requests \ {r} : err'[s] = err[s]
  BY <1>1 DEF IInv, TypeOK, Returns, Errors
<1>4. /\ UNCHANGED <<call, panicked, assigned, row, records, answer, up>>
      /\ pair' \in {pair, pair \cup {r}}
      /\ pair' # pair => Only(r, "create")
      /\ signed' \in {signed, signed \cup {r}}
      /\ signed' # signed => Only(r, "sign") /\ e = "nil"
      /\ e = "nil" => ~Only(r, "create") /\ (Only(r, "sign") => r \in signed')
  BY <1>2, <1>3 DEF Sign, Verify, HsmFails, Returns, IInv, TypeOK, Only
<1>5. /\ pair' \subseteq Keys /\ signed' \subseteq Requests
      /\ r \in pair' => r \in pair \/ Only(r, "create")
      /\ r \in signed' => r \in signed \/ (Only(r, "sign") /\ e = "nil")
      /\ \A s \in Requests \ {r} : (s \in pair' <=> s \in pair) /\ (s \in signed' <=> s \in signed)
  <2>1. pair \subseteq Keys /\ signed \subseteq Requests /\ r \in Keys
    BY DEF IInv, TypeOK, Keys
  <2>2. pair' = pair \/ (pair' = pair \cup {r} /\ Only(r, "create"))
    BY <1>4
  <2>3. signed' = signed \/ (signed' = signed \cup {r} /\ Only(r, "sign") /\ e = "nil")
    BY <1>4
  <2>4. QED
    BY <2>1, <2>2, <2>3
<1>6. TypeOK'
  <2>1. pc' \in [Requests -> Steps] /\ err' \in [Requests -> Errors]
    BY <1>2, <1>3
  <2>2. pair' \subseteq Keys /\ signed' \subseteq Requests
    BY <1>5
  <2>3. UNCHANGED <<call, panicked, assigned, row, event, oprow, untracked, answer, up>>
    BY <1>4
  <2>4. QED
    BY <2>1, <2>2, <2>3 DEF IInv, TypeOK
<1>7. Alone(r)
  <2>1. UNCHANGED <<call, panicked, row, event, oprow, untracked, answer>>
    BY <1>4
  <2>2. QED
    BY <1>2, <1>3, <1>5, <2>1 DEF Alone
<1>8. Sound(r)
  BY DEF IInv
<1>9. Signs(r) => Own(r)
  BY <1>2, <1>8 DEF Sound, Placed
<1>10. Placed(r)'
  BY <1>2, <1>4, <1>8 DEF Sound, Placed, Audited
<1>11. Pending(r)' /\ Answered(r)'
  BY <1>2 DEF Pending, Answered, Within
<1>12. Wanted(r)'
  <2>1. UNCHANGED <<call, row>>
    BY <1>4
  <2>2. QED
    BY <1>5, <1>8, <1>9, <2>1 DEF Sound, Wanted, Exists, Own, Only, Signs
<1>13. Returned(r)'
  BY <1>2, <1>3, <1>4, <1>8, <1>9 DEF Sound, Placed, Pending, Returned, NoEffect, Exists, Only, Own, Signs, Within, Codes
<1>14. Recorded(r)'
  BY <1>2, <1>4, <1>8 DEF Sound, Placed, Pending, Recorded, Audited, Within
<1>15. Sound(r)'
  BY <1>10, <1>11, <1>12, <1>13, <1>14 DEF Sound
<1>16. QED
  BY <1>6, <1>7, <1>15, StepIInv

LEMMA SaveIInv ==
    ASSUME IInv, NEW r \in Requests, SaveKey(r) \/ SaveFails(r)
    PROVE  IInv'
<1> USE DEF stores, records
<1>1. PICK e \in {"nil", "plain"} : Returns(r, "save", e)
  BY DEF SaveKey, SaveFails
<1>2. Sound(r) /\ pc[r] = "save"
  BY <1>1 DEF IInv, Returns, Moves
<1>3. /\ Only(r, "create") /\ Audited(r) /\ ~Signs(r) /\ call[r].who \in Tenants
      /\ ~Exists(r) /\ r \notin signed /\ r \in pair /\ r \notin panicked
  BY <1>2, Asked DEF Sound, Placed, Pending, Only, Audited, Signs, Within
<1>4. /\ pc' \in [Requests -> Steps] /\ pc'[r] = "audit"
      /\ \A s \in Requests \ {r} : pc'[s] = pc[s]
  BY <1>1, <1>3, MovesTo DEF IInv, Returns, Steps
<1>5. /\ err' \in [Requests -> Errors] /\ err'[r] = e
      /\ \A s \in Requests \ {r} : err'[s] = err[s]
  BY <1>1 DEF IInv, TypeOK, Returns, Errors
<1>6. \A u \in NewUsages : NewRow(r, u) \in Row /\ NewRow(r, u).tenant = call[r].who
                           /\ NewRow(r, u).active
  BY <1>3, TrailAssumption DEF NewRow, Row, Usages
<1>7. /\ UNCHANGED <<call, panicked, assigned, signed, records, answer, up>>
      /\ pair' \in {pair, pair \ {r}}
      /\ row' = row \/ \E u \in NewUsages : row' = [row EXCEPT ![r] = NewRow(r, u)]
      /\ e = "nil" => pair' = pair /\ row' # row
  <2>1. r \in Keys /\ row \in [Keys -> Row]
    BY DEF Keys, IInv, TypeOK
  <2>2. \A u \in NewUsages : [row EXCEPT ![r] = NewRow(r, u)] # row
    BY <1>3, <1>6, <2>1, TrailAssumption DEF Exists
  <2>3. CASE SaveKey(r)
    BY <2>2, <2>3 DEF SaveKey
  <2>4. CASE SaveFails(r)
    <3>1. err'[r] = "plain"
      BY <2>4 DEF SaveFails, Returns, IInv, TypeOK
    <3>2. QED
      BY <1>5, <2>4, <3>1 DEF SaveFails
  <2>5. QED
    BY <2>3, <2>4
<1>8. /\ row' \in [Keys -> Row]
      /\ \A k \in Keys \ {r} : row'[k] = row[k]
      /\ row'[r] # row[r] => row'[r].tenant = call[r].who /\ row'[r].active
      /\ e = "nil" => Exists(r)'
  <2>1. r \in Keys /\ row \in [Keys -> Row]
    BY DEF Keys, IInv, TypeOK
  <2>2. CASE row' = row
    <3>1. e # "nil"
      BY <1>7, <2>2
    <3>2. row' \in [Keys -> Row] /\ row'[r] = row[r] /\ \A k \in Keys \ {r} : row'[k] = row[k]
      BY <2>1, <2>2
    <3>3. QED
      BY <3>1, <3>2
  <2>3. CASE \E u \in NewUsages : row' = [row EXCEPT ![r] = NewRow(r, u)]
    BY <1>3, <1>6, <2>1, <2>3, TrailAssumption DEF Exists
  <2>4. QED
    BY <1>7, <2>2, <2>3
<1>9. TypeOK'
  BY <1>4, <1>5, <1>7, <1>8 DEF IInv, TypeOK
<1>10. Alone(r)
  BY <1>3, <1>4, <1>5, <1>7, <1>8 DEF Alone
<1>11. Placed(r)'
  <2>1. call' = call
    BY <1>7
  <2>2. QED
    BY <1>2, <1>3, <1>4, <2>1 DEF Sound, Placed, Audited
<1>12. Pending(r)' /\ Answered(r)'
  BY <1>4 DEF Pending, Answered, Within
<1>13. Wanted(r)'
  BY <1>2, <1>3, <1>7, <1>8 DEF Sound, Wanted, Exists, Only
<1>14. Returned(r)'
  BY <1>2, <1>3, <1>4, <1>5, <1>7, <1>8 DEF Sound, Pending, Returned, NoEffect, Only, Signs, Within, Codes
<1>15. Recorded(r)'
  BY <1>2, <1>4, <1>7 DEF Sound, Pending, Recorded, Within
<1>16. Sound(r)'
  BY <1>11, <1>12, <1>13, <1>14, <1>15 DEF Sound
<1>17. QED
  BY <1>9, <1>10, <1>16, StepIInv

----------------------------------------------------------------------------
(* The deferred functions and the answer. *)

LEMMA AuditIInv ==
    ASSUME IInv, NEW r \in Requests, Audit(r)
    PROVE  IInv'
<1> USE DEF stores
<1>1. /\ pc' \in [Requests -> Steps] /\ pc[r] = "audit"
      /\ pc'[r] = IF Tracked(r) THEN "track" ELSE "reply"
      /\ \A s \in Requests \ {r} : pc'[s] = pc[s]
  BY MovesTo DEF IInv, Audit, Steps
<1>2. /\ event'[r] = Outcome(r) /\ Outcome(r) \in {"success", "failed"}
      /\ event' \in [Requests -> {"none", "success", "failed"}]
      /\ \A s \in Requests \ {r} : event'[s] = event[s]
  BY DEF IInv, TypeOK, Audit, Outcome
<1>3. UNCHANGED <<call, err, panicked, assigned, pair, row, signed, oprow, untracked, answer, up>>
  BY DEF Audit
<1>4. TypeOK'
  BY <1>1, <1>2, <1>3 DEF IInv, TypeOK
<1>5. Alone(r)
  BY <1>1, <1>2, <1>3 DEF Alone
<1>6. Sound(r)
  BY DEF IInv
<1>7. Placed(r)'
  BY <1>1, <1>3, <1>6 DEF Sound, Placed, Tracked, Only
<1>8. Pending(r)' /\ Answered(r)'
  BY <1>1 DEF Pending, Answered, Within
<1>9. Wanted(r)'
  BY <1>3, <1>6 DEF Sound, Wanted, Exists, Own, Only
<1>10. Returned(r)'
  BY <1>1, <1>3, <1>6 DEF Sound, Returned, NoEffect, Exists, Only, Own, Signs
<1>11. Recorded(r)'
  <2>1. r \in signed => Tracked(r)
    BY <1>6 DEF Sound, Wanted, Only, Tracked
  <2>2. Audited(r) /\ oprow[r] = "none" /\ r \notin untracked
    BY <1>1, <1>6 DEF Sound, Placed, Recorded
  <2>3. Outcome(r)' = Outcome(r) /\ Audited(r)' = Audited(r)
    BY <1>3 DEF Outcome, Audited
  <2>4. QED
    BY <1>1, <1>2, <1>3, <2>1, <2>2, <2>3 DEF Recorded
<1>12. Sound(r)'
  BY <1>7, <1>8, <1>9, <1>10, <1>11 DEF Sound
<1>13. QED
  BY <1>4, <1>5, <1>12, StepIInv

LEMMA TrackIInv ==
    ASSUME IInv, NEW r \in Requests, Track(r) \/ TrackFails(r)
    PROVE  IInv'
<1> USE DEF stores
<1>1. /\ pc' \in [Requests -> Steps] /\ pc[r] = "track" /\ pc'[r] = "reply"
      /\ \A s \in Requests \ {r} : pc'[s] = pc[s]
  BY MovesTo DEF IInv, Track, TrackFails, Steps
<1>2. Outcome(r) \in {"success", "failed"}
  BY DEF Outcome
<1>3. UNCHANGED <<call, err, panicked, assigned, pair, row, signed, event, answer, up>>
  BY DEF Track, TrackFails
<1>4. /\ oprow' \in [Requests -> {"none", "success", "failed"}] /\ untracked' \subseteq Requests
      /\ \A s \in Requests \ {r} : oprow'[s] = oprow[s] /\ (s \in untracked' <=> s \in untracked)
      /\ \/ oprow'[r] = Outcome(r)
         \/ oprow'[r] = oprow[r] /\ r \in untracked'
  BY <1>2 DEF Track, TrackFails, IInv, TypeOK
<1>5. TypeOK'
  BY <1>1, <1>3, <1>4 DEF IInv, TypeOK
<1>6. Alone(r)
  BY <1>1, <1>3, <1>4 DEF Alone
<1>7. Sound(r)
  BY DEF IInv
<1>8. Placed(r)'
  BY <1>1, <1>3, <1>7 DEF Sound, Placed
<1>9. Pending(r)' /\ Answered(r)'
  BY <1>1 DEF Pending, Answered, Within
<1>10. Wanted(r)'
  BY <1>3, <1>7 DEF Sound, Wanted, Exists, Own, Only
<1>11. Returned(r)'
  BY <1>1, <1>3, <1>7 DEF Sound, Returned, NoEffect, Exists, Only, Own, Signs
<1>12. Recorded(r)'
  <2>1. Audited(r) /\ event[r] = Outcome(r) /\ oprow[r] = "none"
    BY <1>1, <1>7 DEF Sound, Placed, Recorded, Audited
  <2>2. Outcome(r)' = Outcome(r) /\ Audited(r)' = Audited(r)
    BY <1>3 DEF Outcome, Audited
  <2>3. QED
    BY <1>1, <1>2, <1>3, <1>4, <2>1, <2>2 DEF Recorded
<1>13. Sound(r)'
  BY <1>8, <1>9, <1>10, <1>11, <1>12 DEF Sound
<1>14. QED
  BY <1>5, <1>6, <1>13, StepIInv

\* What the status says of an error.
LEMMA StatusMeans ==
    ASSUME TypeOK, NEW r \in Requests
    PROVE  /\ Status(r) \in {200, 201, 400, 404, 409, 500}
           /\ Status(r) \in {200, 201} <=> r \notin panicked /\ err[r] = "nil"
           /\ Status(r) = 201 => Only(r, "create")
           /\ Status(r) = 200 => ~Only(r, "create")
           /\ Status(r) \in Refused =>
                 r \notin panicked /\ err[r] \in Codes
           /\ Status(r) = 400 => err[r] = "INVALID_KEY_USAGE"
           /\ Status(r) = 404 => err[r] \in {"KEY_NOT_FOUND", "TENANT_NOT_FOUND"}
           /\ err[r] \in {"KEY_NOT_FOUND", "TENANT_NOT_FOUND"} /\ r \notin panicked => Status(r) = 404
           /\ err[r] = "INVALID_KEY_USAGE" /\ r \notin panicked => Status(r) = 400
           /\ r \in panicked => Status(r) = 500
<1>1. err[r] \in {"nil", "plain", "KEY_NOT_FOUND", "KEY_INACTIVE", "INVALID_KEY_USAGE",
                  "TENANT_NOT_FOUND", "SLOT_NOT_FOUND"}
  BY DEF TypeOK, Errors, Codes
<1>2. CASE r \in panicked
  BY <1>2 DEF Status, Refused
<1>3. CASE r \notin panicked /\ err[r] = "nil"
  BY <1>3 DEF Status, Refused, Codes
<1>4. CASE r \notin panicked /\ err[r] # "nil"
  <2>1. Status(r) = StatusOf(err[r])
    BY <1>4 DEF Status
  <2>2. /\ err[r] = "INVALID_KEY_USAGE" => Status(r) = 400
        /\ err[r] \in {"KEY_NOT_FOUND", "TENANT_NOT_FOUND"} => Status(r) = 404
        /\ err[r] = "KEY_INACTIVE" => Status(r) = 409
        /\ err[r] \in {"plain", "SLOT_NOT_FOUND"} => Status(r) = 500
    BY <2>1 DEF StatusOf
  <2>3. QED
    BY <1>1, <1>4, <2>2 DEF Refused, Codes
<1>5. QED
  BY <1>2, <1>3, <1>4

LEMMA ReplyIInv ==
    ASSUME IInv, NEW r \in Requests, Reply(r)
    PROVE  IInv'
<1> USE DEF stores, records
<1>1. /\ pc' \in [Requests -> Steps] /\ pc[r] = "reply" /\ pc'[r] = "done"
      /\ \A s \in Requests \ {r} : pc'[s] = pc[s]
  BY MovesTo DEF IInv, Reply, Steps
<1>2. Status(r) \in {200, 201, 400, 404, 409, 500}
  BY StatusMeans DEF IInv
<1>3. /\ answer'[r] = Status(r) /\ \A s \in Requests \ {r} : answer'[s] = answer[s]
      /\ answer' \in [Requests -> {0, 200, 201, 400, 401, 404, 409, 500}]
  BY <1>2 DEF IInv, TypeOK, Reply
<1>4. /\ err' \in [Requests -> Errors] /\ \A s \in Requests \ {r} : err'[s] = err[s]
  BY DEF IInv, TypeOK, Reply, Errors
<1>5. UNCHANGED <<call, panicked, assigned, pair, row, signed, event, oprow, untracked, up>>
  BY DEF Reply
<1>6. TypeOK'
  BY <1>1, <1>3, <1>4, <1>5 DEF IInv, TypeOK
<1>7. Alone(r)
  BY <1>1, <1>3, <1>4, <1>5 DEF Alone
<1>8. Sound(r)
  BY DEF IInv
<1>9. Placed(r)'
  BY <1>1, <1>5, <1>8 DEF Sound, Placed
<1>10. Pending(r)' /\ Returned(r)' /\ Recorded(r)'
  BY <1>1 DEF Pending, Returned, Recorded, Within
<1>11. Wanted(r)'
  BY <1>5, <1>8 DEF Sound, Wanted, Exists, Own, Only
<1>12. Answered(r)'
  <2>1. /\ r \in panicked => err[r] = "nil" /\ NoEffect(r)
        /\ r \notin panicked /\ err[r] = "nil" =>
              /\ Only(r, "create") => r \in pair /\ Exists(r)
              /\ Only(r, "sign") => r \in signed
        /\ err[r] \in Codes => NoEffect(r)
        /\ Signs(r) /\ err[r] \in {"nil", "plain", "KEY_INACTIVE", "SLOT_NOT_FOUND"} => Own(r)
    BY <1>1, <1>8 DEF Sound, Returned
  <2>2. /\ event[r] = IF Audited(r) THEN Outcome(r) ELSE "none"
        /\ oprow[r] \in {"none", event[r]}
        /\ r \in signed => oprow[r] # "none" \/ r \in untracked
    BY <1>1, <1>8 DEF Sound, Recorded
  <2>3. event[r] = "none" => NoEffect(r)
    <3>1. Outcome(r) # "none"
      BY DEF Outcome
    <3>2. event[r] = "none" => Only(r, "list")
      BY <2>2, <3>1 DEF Audited, Only
    <3>3. QED
      BY <1>8, <3>2 DEF Sound, Wanted, NoEffect, Only
  <2>4. event[r] # "none" => (event[r] = "success" <=> err[r] = "nil")
    BY <2>2 DEF Outcome
  <2>5. /\ NoEffect(r)' = NoEffect(r) /\ Exists(r)' = Exists(r) /\ Own(r)' = Own(r)
        /\ Signs(r)' = Signs(r) /\ \A op \in Ops : Only(r, op)' = Only(r, op)
    BY <1>5 DEF NoEffect, Exists, Own, Signs, Only
  <2>6. /\ Status(r) # 0
        /\ Status(r) = 201 => r \in pair /\ Exists(r)
        /\ Status(r) = 200 /\ Only(r, "sign") => r \in signed
        /\ Status(r) \in Refused => NoEffect(r)
        /\ r \in panicked => Status(r) = 500 /\ NoEffect(r)
    BY <1>2, <2>1, StatusMeans DEF IInv
  <2>7. Signs(r) /\ ~Own(r) => Status(r) \in {400, 401, 404}
    <3> SUFFICES ASSUME Signs(r), ~Own(r) PROVE Status(r) \in {400, 401, 404}
      OBVIOUS
    <3>1. err[r] \in {"KEY_NOT_FOUND", "TENANT_NOT_FOUND", "INVALID_KEY_USAGE"}
      BY <2>1 DEF IInv, TypeOK, Errors, Codes
    <3>2. r \notin panicked
      BY <2>1, <3>1
    <3>3. QED
      BY <3>1, <3>2, StatusMeans DEF IInv
  <2>8. r \notin panicked /\ event[r] # "none" => (event[r] = "success" <=> Status(r) \in {200, 201})
    BY <2>4, StatusMeans DEF IInv
  <2>9. r \notin panicked /\ event[r] = "success" =>
              /\ Only(r, "create") => r \in pair /\ Exists(r)
              /\ Only(r, "sign") => r \in signed
    BY <2>1, <2>4
  <2>10. QED
    BY <1>3, <1>5, <2>2, <2>3, <2>5, <2>6, <2>7, <2>8, <2>9 DEF Answered, Ops
<1>13. Sound(r)'
  BY <1>9, <1>10, <1>11, <1>12 DEF Sound
<1>14. QED
  BY <1>6, <1>7, <1>13, StepIInv

----------------------------------------------------------------------------
(* The invariant, and what it gives. *)

LEMMA ArriveIInv ==
    ASSUME IInv, NEW r \in Requests, Arrive(r)
    PROVE  IInv'
<1> USE DEF stores, records
<1>1. PICK c \in Call :
        /\ call' = [call EXCEPT ![r] = c]
        /\ pc' = [pc EXCEPT ![r] = IF c.op = "public" THEN "find" ELSE "token"]
  BY DEF Arrive
<1>2. /\ call'[r] = c /\ \A s \in Requests \ {r} : call'[s] = call[s] /\ pc'[s] = pc[s]
      /\ pc[r] = "idle" /\ pc'[r] = IF c.op = "public" THEN "find" ELSE "token"
      /\ pc' \in [Requests -> Steps]
      /\ UNCHANGED <<err, panicked, assigned, pair, row, signed, event, oprow, untracked, answer, up>>
  BY <1>1 DEF Arrive, IInv, TypeOK, Steps
<1>3. TypeOK'
  <2>1. c \in [op : Ops \cup {"none"}, who : Tenants \cup {NoTenant}, key : Keys]
    BY DEF Call
  <2>2. call' \in [Requests -> [op : Ops \cup {"none"}, who : Tenants \cup {NoTenant}, key : Keys]]
    BY <1>1, <2>1 DEF IInv, TypeOK
  <2>3. QED
    BY <1>2, <2>2 DEF IInv, TypeOK
<1>4. Alone(r)
  BY <1>2 DEF Alone
<1>5. Sound(r)
  BY DEF IInv
<1>6. Placed(r)'
  BY <1>2 DEF Placed
<1>7. Pending(r)'
  BY <1>2, <1>5 DEF Sound, Pending, Exists, Within
<1>8. Wanted(r)'
  BY <1>2, <1>5 DEF Sound, Pending, Wanted, Exists, Within
<1>9. Returned(r)' /\ Recorded(r)' /\ Answered(r)'
  BY <1>2 DEF Returned, Recorded, Answered
<1>10. Sound(r)'
  BY <1>6, <1>7, <1>8, <1>9 DEF Sound
<1>11. QED
  BY <1>3, <1>4, <1>10, StepIInv

\* The operator, and the end of the process, say nothing of any request.
LEMMA AroundIInv ==
    ASSUME IInv,
           UNCHANGED <<pc, call, err, panicked, stores, records, answer>>,
           assigned' \subseteq Tenants, up' \in BOOLEAN
    PROVE  IInv'
<1> USE DEF stores, records
<1>1. TypeOK'
  BY DEF IInv, TypeOK
<1>2. ASSUME NEW s \in Requests PROVE Sound(s)'
  <2>1. Sound(s)
    BY DEF IInv
  <2>2. QED
    BY <2>1 DEF Sound, Placed, Pending, Wanted, Returned, Recorded, Answered, Own, Signs, Exists,
                NoEffect, Only, Audited, Outcome
<1>3. QED
  BY <1>1, <1>2 DEF IInv

LEMMA InitIInv ==
    ASSUME Init
    PROVE  IInv
<1>1. TypeOK
  <2>1. /\ row \in [Keys -> Row] /\ assigned \subseteq Tenants
        /\ call = [r \in Requests |-> NoCall(r)]
    BY DEF Init
  <2>2. \A r \in Requests : NoCall(r) \in
          [op : Ops \cup {"none"}, who : Tenants \cup {NoTenant}, key : Keys]
    BY DEF NoCall, Keys
  <2>3. /\ pc \in [Requests -> Steps] /\ err \in [Requests -> Errors]
        /\ event \in [Requests -> {"none", "success", "failed"}]
        /\ oprow \in [Requests -> {"none", "success", "failed"}]
        /\ answer \in [Requests -> {0, 200, 201, 400, 401, 404, 409, 500}]
        /\ panicked = {} /\ signed = {} /\ untracked = {} /\ up = TRUE /\ pair \subseteq Keys
    BY DEF Init, Steps, Errors, Keys
  <2>4. QED
    BY <2>1, <2>2, <2>3 DEF TypeOK
<1>2. ASSUME NEW r \in Requests PROVE Sound(r)
  <2>1. /\ pc[r] = "idle" /\ call[r].op = "none" /\ err[r] = "nil" /\ r \notin panicked
        /\ event[r] = "none" /\ oprow[r] = "none" /\ r \notin untracked /\ answer[r] = 0
        /\ r \notin signed
    BY DEF Init, NoCall
  <2>2. r \notin pair /\ ~Exists(r)
    <3>1. r \in Keys /\ r \notin Seeds
      BY TrailAssumption DEF Keys
    <3>2. row[r] = NoRow
      BY <3>1 DEF Init
    <3>3. QED
      BY <3>1, <3>2 DEF Init, Exists, NoRow
  <2>3. QED
    BY <2>1, <2>2 DEF Sound, Placed, Pending, Wanted, Returned, Recorded, Answered, Within
<1>3. QED
  BY <1>1, <1>2 DEF IInv

LEMMA NextIInv ==
    ASSUME IInv, [Next]_vars
    PROVE  IInv'
<1>1. ASSUME NEW r \in Requests, Arrive(r) \/ Step(r) PROVE IInv'
  BY <1>1, ArriveIInv, RefuseIInv, LookupsIInv, NoSlotIInv, GenerateIInv, HsmIInv, SaveIInv,
     AuditIInv, TrackIInv, ReplyIInv DEF Step
<1>2. ASSUME NEW t \in Tenants, AssignSlot(t) PROVE IInv'
  <2>1. assigned' \subseteq Tenants /\ up' \in BOOLEAN
    BY <1>2 DEF AssignSlot, IInv, TypeOK
  <2>2. QED
    BY <1>2, <2>1, AroundIInv DEF AssignSlot
<1>3. CASE ConcurrentMapWrites
  <2>1. assigned' \subseteq Tenants /\ up' \in BOOLEAN
    BY <1>3 DEF ConcurrentMapWrites, IInv, TypeOK
  <2>2. QED
    BY <1>3, <2>1, AroundIInv DEF ConcurrentMapWrites
<1>4. CASE UNCHANGED vars
  <2>1. assigned' \subseteq Tenants /\ up' \in BOOLEAN
    BY <1>4 DEF vars, IInv, TypeOK
  <2>2. QED
    BY <1>4, <2>1, AroundIInv DEF vars, stores, records
<1>5. QED
  BY <1>1, <1>2, <1>3, <1>4 DEF Next

\* What is true of a request at each of its steps stays true, whatever the others do.
THEOREM Invariance == Spec => []IInv
<1>1. Init => IInv
  BY InitIInv
<1>2. IInv /\ [Next]_vars => IInv'
  BY NextIInv
<1>3. QED
  BY <1>1, <1>2, PTL DEF Spec

\* The variables of a request keep their types.
THEOREM TrailTypes == Spec => []TypeOK
<1>1. IInv => TypeOK
  BY DEF IInv
<1>2. QED
  BY <1>1, Invariance, PTL

\* A 201 is a stored key with its private half and a 200 to a signing a signature; a 4xx left
\* nothing behind.
THEOREM AnswersAreTrue == Spec => []AnswersMeanWhatTheySay
<1>1. IInv => AnswersMeanWhatTheySay
  <2> SUFFICES ASSUME IInv, NEW r \in Requests
               PROVE  /\ answer[r] = 201 => r \in pair /\ row[r].tenant = call[r].who /\ row[r].active
                      /\ answer[r] = 200 /\ Only(r, "sign") => r \in signed
                      /\ answer[r] \in Refused => r \notin pair /\ ~Exists(r) /\ r \notin signed
    BY DEF AnswersMeanWhatTheySay
  <2>1. Sound(r) /\ pc[r] \in Steps
    BY DEF IInv, TypeOK
  <2>2. CASE pc[r] = "done"
    BY <2>1, <2>2 DEF Sound, Answered, Wanted, NoEffect
  <2>3. CASE pc[r] # "done"
    <3>1. answer[r] = 0
      BY <2>1, <2>3 DEF Sound, Pending, Returned, Within, Steps
    <3>2. QED
      BY <3>1 DEF Refused
  <2>4. QED
    BY <2>2, <2>3
<1>2. QED
  BY <1>1, Invariance, PTL

\* No tenant uses another's key, and its answer is that of a key that does not exist.
THEOREM TenantsAreApart == Spec => []ForeignKeysLookAbsent
<1>1. IInv => ForeignKeysLookAbsent
  <2> SUFFICES ASSUME IInv, NEW r \in Requests, Signs(r), ~Own(r)
               PROVE  answer[r] \in {0, 400, 401, 404} /\ r \notin signed
    BY DEF ForeignKeysLookAbsent, Signs, Own
  <2>1. Sound(r) /\ pc[r] \in Steps
    BY DEF IInv, TypeOK
  <2>2. CASE pc[r] = "done"
    BY <2>1, <2>2 DEF Sound, Answered, Wanted
  <2>3. CASE pc[r] # "done"
    BY <2>1, <2>3 DEF Sound, Pending, Returned, Wanted, Within, Steps
  <2>4. QED
    BY <2>2, <2>3
<1>2. QED
  BY <1>1, Invariance, PTL

\* An answered request that changed something is on record, but for the INSERT that failed.
THEOREM NothingGoesUnrecorded == Spec => []EffectsAreRecorded
<1>1. IInv => EffectsAreRecorded
  BY DEF IInv, Sound, Answered, NoEffect, EffectsAreRecorded
<1>2. QED
  BY <1>1, Invariance, PTL

\* The records agree with the answer, and with each other, unless the service panicked.
THEOREM RecordsAreTrue == Spec => []RecordsMatchAnswers
<1>1. IInv => RecordsMatchAnswers
  BY DEF IInv, Sound, Answered, NoEffect, RecordsMatchAnswers
<1>2. QED
  BY <1>1, Invariance, PTL

\* A success on record is a success, but for a panic.
THEOREM SuccessIsReal == Spec => []SuccessOnRecordIsReal
<1>1. IInv => SuccessOnRecordIsReal
  <2> SUFFICES ASSUME IInv, NEW r \in Requests, r \notin panicked,
                      event[r] = "success" \/ oprow[r] = "success"
               PROVE  /\ Only(r, "create") => r \in pair /\ Exists(r)
                      /\ Only(r, "sign") => r \in signed
    BY DEF SuccessOnRecordIsReal
  <2>1. Sound(r) /\ pc[r] \in Steps
    BY DEF IInv, TypeOK
  <2>2. CASE pc[r] = "done"
    BY <2>1, <2>2 DEF Sound, Answered
  <2>3. CASE pc[r] \in {"track", "reply"}
    <3>1. err[r] = "nil"
      BY <2>1, <2>3 DEF Sound, Recorded, Outcome
    <3>2. QED
      BY <2>1, <2>3, <3>1 DEF Sound, Returned
  <2>4. CASE pc[r] \notin {"track", "reply", "done"}
    BY <2>1, <2>4 DEF Sound, Pending, Recorded, Within, Steps
  <2>5. QED
    BY <2>2, <2>3, <2>4
<1>2. QED
  BY <1>1, Invariance, PTL
=============================================================================
