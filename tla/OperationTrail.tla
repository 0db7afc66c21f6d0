--------------------------- MODULE OperationTrail ---------------------------
(***************************************************************************)
(* A request of the API from its arrival to its answer: the token check,    *)
(* the decoding of the body, the service call with its lookups and its HSM  *)
(* operation, the two records its deferred functions leave (an audit event  *)
(* and a row of key_operations) and the status HandleError or the recovery  *)
(* middleware turns the outcome into.                                       *)
(*                                                                          *)
(* The deferred functions read the named result err after everything else,  *)
(* a panic included: a panic leaves err nil.  Any statement on the database *)
(* may fail: for the database, or because the context of its request ended  *)
(* when the client left; the HSM does not look at that context, and the     *)
(* audit dispatcher only takes values out of it.  The stores are those of   *)
(* KeyLifecycle, seen by the routed operations (no route rotates or deletes *)
(* a key), and what becomes of an event is AuditTrail's.                    *)
(***************************************************************************)
EXTENDS FiniteSets

CONSTANTS
    Requests,   \* each also stands for the key that it creates
    Seeds,      \* keys that exist from the start
    Tenants,
    Tokens,     \* the tenants whose token the client of each request may send
    NewUsages,  \* the usages that keys are created for
    NoTenant

ASSUME TrailAssumption ==
    /\ Seeds \cap Requests = {}
    /\ NoTenant \notin Tenants
    /\ Tokens \in [Requests -> SUBSET Tenants]
    /\ NewUsages \subseteq {"SIGNING", "ENCRYPTION"}

VARIABLES
    pc,         \* what each request does next
    call,       \* what it asks for: [op, who (the token's tenant), key]
    err,        \* the named result err
    panicked,   \* requests whose service call is unwinding from a panic
    assigned,   \* tenants whose hsm_slot_id is not NULL
    pair,       \* keys whose private key is on the token
    row,        \* crypto_keys
    signed,     \* history: requests the HSM made a signature for
    event,      \* the audit event of each request: what its Success says
    oprow,      \* its row in key_operations: what its status says
    untracked,  \* history: requests whose INSERT into key_operations failed
    answer,     \* the HTTP status of its answer, 0 before
    up          \* the process lives

stores == <<pair, row, signed>>
records == <<event, oprow, untracked>>
vars == <<pc, call, err, panicked, assigned, pair, row, signed, event,
          oprow, untracked, answer, up>>

Keys == Seeds \cup Requests
Ops == {"create", "list", "sign", "verify", "public"}
Call == [op : Ops, who : Tenants, key : Keys]
NoCall(r) == [op |-> "none", who |-> NoTenant, key |-> r]
Usages == {"SIGNING", "ENCRYPTION"}
Row == [tenant : Tenants \cup {NoTenant}, usage : Usages, active : BOOLEAN]

NoRow == [tenant |-> NoTenant, usage |-> "SIGNING", active |-> FALSE]
Exists(k) == row[k].tenant # NoTenant

Steps == {"idle", "token", "find", "tenant", "slot", "detail", "hsm",
          "save", "audit", "track", "reply", "done"}

\* The error codes a DomainError of these services carries, and the errors made
\* with errors.New or fmt.Errorf, whose text names a code only for people.
Codes == {"KEY_NOT_FOUND", "KEY_INACTIVE", "INVALID_KEY_USAGE",
          "TENANT_NOT_FOUND", "SLOT_NOT_FOUND"}
Errors == {"nil", "plain"} \cup Codes

\* Slip: the text of a plain error is searched for a code.
StatusOfText(e) ==
    CASE e = "INVALID_KEY_USAGE"                    -> 400
      [] e \in {"KEY_NOT_FOUND", "TENANT_NOT_FOUND"} -> 404
      [] e = "KEY_INACTIVE"                         -> 409
      [] e = "plain"                                -> 503
      [] OTHER                                      -> 500

StatusOf(e) ==
    CASE e = "INVALID_KEY_USAGE"                    -> 400
      [] e \in {"KEY_NOT_FOUND", "TENANT_NOT_FOUND"} -> 404
      [] e = "KEY_INACTIVE"                         -> 409
      [] OTHER                                      -> 500

Audited(r) == call[r].op # "list"

----------------------------------------------------------------------------
Moves(r, from, to) ==
    /\ up
    /\ pc[r] = from
    /\ pc' = [pc EXCEPT ![r] = to]

\* The service method returns: its deferred functions run next.
Returns(r, from, e) ==
    /\ Moves(r, from, IF Audited(r) THEN "audit" ELSE "reply")
    /\ err' = [err EXCEPT ![r] = e]

Only(r, op) == call[r].op = op

Arrive(r) ==
    /\ up
    /\ pc[r] = "idle"
    /\ \E c \in Call :
        /\ c.who \in Tokens[r]
        /\ c.key = r <=> c.op \in {"create", "list"}
        /\ call' = [call EXCEPT ![r] = c]
        /\ pc' = [pc EXCEPT ![r] = IF c.op = "public" THEN "find" ELSE "token"]
    /\ UNCHANGED <<err, panicked, assigned, stores, records, answer, up>>

\* The middleware or the handler answers before any service is called.
Refuse(r, from, status) ==
    /\ Moves(r, from, "done")
    /\ answer' = [answer EXCEPT ![r] = status]
    /\ UNCHANGED <<call, err, panicked, assigned, stores, records, up>>

RejectToken(r) == Refuse(r, "token", 401)
RejectBody(r) == call[r].op \in {"create", "sign", "verify"} /\ Refuse(r, "token", 400)

Proceed(r, from, to) ==
    /\ Moves(r, from, to)
    /\ UNCHANGED <<call, err, panicked, assigned, stores, records, answer, up>>

\* What the binding lets through, validateKeyParameters cannot refuse: a
\* creation goes on to the tenant.
Accept(r) == Proceed(r, "token", IF Only(r, "create") THEN "tenant" ELSE "find")

----------------------------------------------------------------------------
(* Lookups. *)

\* Slip: the key is looked up by its ID alone.
VerdictByID(r) ==
    LET k == row[call[r].key] IN
    CASE ~Exists(call[r].key) -> "KEY_NOT_FOUND"
      [] Exists(call[r].key) /\ ~k.active -> "KEY_INACTIVE"
      [] Exists(call[r].key) /\ k.active /\ k.usage # "SIGNING" -> "INVALID_KEY_USAGE"
      [] OTHER -> "nil"

\* What validateKeyAndGetSlot finds wrong with the key, in its order.
Verdict(r) ==
    LET k == row[call[r].key] IN
    CASE k.tenant # call[r].who -> "KEY_NOT_FOUND"
      [] k.tenant = call[r].who /\ ~k.active -> "KEY_INACTIVE"
      [] k.tenant = call[r].who /\ k.active /\ k.usage # "SIGNING" -> "INVALID_KEY_USAGE"
      [] OTHER -> "nil"

FindKey(r) ==
    /\ call[r].op \in {"sign", "verify"}
    /\ Verdict(r) = "nil"
    /\ Proceed(r, "find", "tenant")

FindKeyRefuses(r) ==
    /\ call[r].op \in {"sign", "verify"}
    /\ Verdict(r) # "nil"
    /\ Returns(r, "find", Verdict(r))
    /\ UNCHANGED <<call, panicked, assigned, stores, records, answer, up>>

\* A statement that fails is told apart from a row that is not there by nobody.
FindKeyFails(r) ==
    /\ call[r].op \in {"sign", "verify"}
    /\ Returns(r, "find", "KEY_NOT_FOUND")
    /\ UNCHANGED <<call, panicked, assigned, stores, records, answer, up>>

\* ListKeys and GetPublicKey end with their one statement.
Read(r) ==
    /\ call[r].op = "list" \/ (call[r].op = "public" /\ Exists(call[r].key))
    /\ Returns(r, "find", "nil")
    /\ UNCHANGED <<call, panicked, assigned, stores, records, answer, up>>

\* GetPublicKey makes a plain error of the storage's KEY_NOT_FOUND.
ReadFails(r) ==
    /\ call[r].op \in {"list", "public"}
    /\ Returns(r, "find", "plain")
    /\ UNCHANGED <<call, panicked, assigned, stores, records, answer, up>>

FindTenant(r) == Proceed(r, "tenant", "slot")

FindTenantFails(r) ==
    /\ Returns(r, "tenant", "TENANT_NOT_FOUND")
    /\ UNCHANGED <<call, panicked, assigned, stores, records, answer, up>>

\* Slip: nothing recovers, and the goroutine is gone with its connection.
NoSlotUnrecovered(r) ==
    /\ call[r].who \notin assigned
    /\ panicked' = panicked \cup {r}
    /\ Moves(r, "slot", "done")
    /\ UNCHANGED <<call, err, assigned, stores, records, answer, up>>

\* *tenant.HSMSlotID with a NULL slot: a panic, and the deferred functions run.
NoSlot(r) ==
    /\ call[r].who \notin assigned
    /\ panicked' = panicked \cup {r}
    /\ Moves(r, "slot", "audit")
    /\ UNCHANGED <<call, err, assigned, stores, records, answer, up>>

FindSlot(r) ==
    /\ call[r].who \in assigned
    /\ Proceed(r, "slot", "hsm")

\* The slot is not found, and the detail is about to be written into the map of
\* the one DomainErrSlotNotFound that all requests share.
FindSlotFails(r) == call[r].who \in assigned /\ Proceed(r, "slot", "detail")

WithDetail(r) ==
    /\ Returns(r, "detail", "SLOT_NOT_FOUND")
    /\ UNCHANGED <<call, panicked, assigned, stores, records, answer, up>>

\* Two goroutines in that map: the runtime may end the process, and no recover
\* stops it.
ConcurrentMapWrites ==
    /\ up
    /\ \E r, s \in Requests : r # s /\ pc[r] = "detail" /\ pc[s] = "detail"
    /\ up' = FALSE
    /\ UNCHANGED <<pc, call, err, panicked, assigned, stores, records, answer>>

----------------------------------------------------------------------------
(* The HSM, which asks for no context, and the row of a new key. *)

Generate(r) ==
    /\ Only(r, "create")
    /\ Moves(r, "hsm", "save")
    /\ pair' = pair \cup {r}
    /\ UNCHANGED <<call, err, panicked, assigned, row, signed, records, answer, up>>

Sign(r) ==
    /\ Only(r, "sign")
    /\ call[r].key \in pair
    /\ Returns(r, "hsm", "nil")
    /\ signed' = signed \cup {r}
    /\ UNCHANGED <<call, panicked, assigned, pair, row, records, answer, up>>

\* By the public key, which the rollback of a creation leaves on the token.
Verify(r) ==
    /\ Only(r, "verify")
    /\ Returns(r, "hsm", "nil")
    /\ UNCHANGED <<call, panicked, assigned, stores, records, answer, up>>

\* The client's errors are plain ones, and its own rollback of a pair may fail.
HsmFails(r) ==
    /\ Returns(r, "hsm", "plain")
    /\ pair' \in {pair} \cup (IF Only(r, "create") THEN {pair \cup {r}} ELSE {})
    /\ UNCHANGED <<call, panicked, assigned, row, signed, records, answer, up>>

NewRow(r, u) == [tenant |-> call[r].who, usage |-> u, active |-> TRUE]

SaveKey(r) ==
    /\ Returns(r, "save", "nil")
    /\ \E u \in NewUsages : row' = [row EXCEPT ![r] = NewRow(r, u)]
    /\ UNCHANGED <<call, panicked, assigned, pair, signed, records, answer, up>>

\* Slip: the result of Save is dropped.
SaveFailsUnnoticed(r) ==
    /\ Returns(r, "save", "nil")
    /\ UNCHANGED <<call, panicked, assigned, stores, records, answer, up>>

\* Validate refuses the key, or Save fails with its INSERT committed or not;
\* the pair is deleted again, and whether that worked is not looked at.
SaveFails(r) ==
    /\ Returns(r, "save", "plain")
    /\ row' \in {row} \cup {[row EXCEPT ![r] = NewRow(r, u)] : u \in NewUsages}
    /\ pair' \in {pair, pair \ {r}}
    /\ UNCHANGED <<call, panicked, assigned, signed, records, answer, up>>

----------------------------------------------------------------------------
(* The deferred functions and the answer. *)

\* Slip: the deferred function is given err's value, nil when it is deferred.
OutcomeWhenDeferred(r) == "success"

Outcome(r) == IF err[r] = "nil" THEN "success" ELSE "failed"

\* Slip: a signing defers its audit alone.
TrackedCreation(r) == Only(r, "create") /\ err[r] = "nil" /\ r \notin panicked

\* The row is only for a creation that returns its key.
Tracked(r) ==
    \/ call[r].op \in {"sign", "verify"}
    \/ Only(r, "create") /\ err[r] = "nil" /\ r \notin panicked

Audit(r) ==
    /\ Moves(r, "audit", IF Tracked(r) THEN "track" ELSE "reply")
    /\ event' = [event EXCEPT ![r] = Outcome(r)]
    /\ UNCHANGED <<call, err, panicked, assigned, stores, oprow, untracked, answer, up>>

Track(r) ==
    /\ Moves(r, "track", "reply")
    /\ oprow' = [oprow EXCEPT ![r] = Outcome(r)]
    /\ UNCHANGED <<call, err, panicked, assigned, stores, event, untracked, answer, up>>

\* The result of the INSERT is not looked at: one that committed and lost its
\* reply is Track.
TrackFails(r) ==
    /\ Moves(r, "track", "reply")
    /\ untracked' = untracked \cup {r}
    /\ UNCHANGED <<call, err, panicked, assigned, stores, event, oprow, answer, up>>

\* Slip: what no code is known for is the caller's fault.
StatusDefaultsTo400(r) ==
    IF r \in panicked \/ err[r] = "plain" THEN 400
    ELSE IF err[r] # "nil" THEN StatusOf(err[r])
    ELSE IF Only(r, "create") THEN 201 ELSE 200

Status(r) ==
    IF r \in panicked THEN 500
    ELSE IF err[r] # "nil" THEN StatusOf(err[r])
    ELSE IF Only(r, "create") THEN 201 ELSE 200

\* What the handler, or gin.Recovery, writes, read or not; the request is over.
Reply(r) ==
    /\ Moves(r, "reply", "done")
    /\ answer' = [answer EXCEPT ![r] = Status(r)]
    /\ err' = [err EXCEPT ![r] = "nil"]
    /\ UNCHANGED <<call, panicked, assigned, stores, records, up>>

----------------------------------------------------------------------------
(* The operator, who writes tenants.hsm_slot_id. *)

AssignSlot(t) ==
    /\ t \notin assigned
    /\ assigned' = assigned \cup {t}
    /\ UNCHANGED <<pc, call, err, panicked, stores, records, answer, up>>

----------------------------------------------------------------------------
Init ==
    /\ pc = [r \in Requests |-> "idle"]
    /\ call = [r \in Requests |-> NoCall(r)]
    /\ err = [r \in Requests |-> "nil"]
    /\ panicked = {}
    /\ assigned \in SUBSET Tenants
    /\ pair = Seeds
    /\ row \in {f \in [Keys -> Row] :
                \A k \in Keys : IF k \in Seeds THEN f[k].tenant # NoTenant
                                             ELSE f[k] = NoRow}
    /\ signed = {}
    /\ event = [r \in Requests |-> "none"]
    /\ oprow = [r \in Requests |-> "none"]
    /\ untracked = {}
    /\ answer = [r \in Requests |-> 0]
    /\ up = TRUE

Step(r) ==
    \/ RejectToken(r) \/ RejectBody(r) \/ Accept(r)
    \/ FindKey(r) \/ FindKeyRefuses(r) \/ FindKeyFails(r) \/ Read(r) \/ ReadFails(r)
    \/ FindTenant(r) \/ FindTenantFails(r)
    \/ NoSlot(r) \/ FindSlot(r) \/ FindSlotFails(r) \/ WithDetail(r)
    \/ Generate(r) \/ Sign(r) \/ Verify(r) \/ HsmFails(r)
    \/ SaveKey(r) \/ SaveFails(r)
    \/ Audit(r) \/ Track(r) \/ TrackFails(r) \/ Reply(r)

Next ==
    \/ \E r \in Requests : Arrive(r) \/ Step(r)
    \/ \E t \in Tenants : AssignSlot(t)
    \/ ConcurrentMapWrites

Spec == Init /\ [][Next]_vars

\* A goroutine with a step to take takes one: statements and HSM calls return.
FairSpec == Spec /\ \A r \in Requests : WF_vars(Step(r))

----------------------------------------------------------------------------
\* The value of each variable is one that the code can give it.
TypeOK ==
    /\ pc \in [Requests -> Steps]
    /\ call \in [Requests -> [op : Ops \cup {"none"}, who : Tenants \cup {NoTenant},
                              key : Keys]]
    /\ err \in [Requests -> Errors]
    /\ panicked \subseteq Requests
    /\ assigned \subseteq Tenants
    /\ pair \subseteq Keys
    /\ row \in [Keys -> Row]
    /\ signed \subseteq Requests
    /\ event \in [Requests -> {"none", "success", "failed"}]
    /\ oprow \in [Requests -> {"none", "success", "failed"}]
    /\ untracked \subseteq Requests
    /\ answer \in [Requests -> {0, 200, 201, 400, 401, 404, 409, 500}]
    /\ up \in BOOLEAN

Refused == {400, 401, 404, 409}

\* A 201 is a row and a private key of the caller's tenant, whatever the
\* database did meanwhile; a 200 to a signing is a signature; and a 4xx
\* is final: it left no key, no row and no signature behind.
AnswersMeanWhatTheySay ==
    \A r \in Requests :
        /\ answer[r] = 201 => r \in pair /\ row[r].tenant = call[r].who /\ row[r].active
        /\ answer[r] = 200 /\ Only(r, "sign") => r \in signed
        /\ answer[r] \in Refused => r \notin pair /\ ~Exists(r) /\ r \notin signed

\* To the tenant of the token another tenant's key is one that does not exist:
\* it is never used, and no answer tells it from a missing one.
ForeignKeysLookAbsent ==
    \A r \in Requests :
        call[r].op \in {"sign", "verify"} /\ row[call[r].key].tenant # call[r].who
        => answer[r] \in {0, 400, 401, 404} /\ r \notin signed

\* What a request changed is on record when it has been answered: an event, and
\* for a signature the row that alone names the tenant (the event of a signing
\* has no identity), unless its INSERT failed.
EffectsAreRecorded ==
    \A r \in Requests : pc[r] = "done" /\ (r \in signed \/ Exists(r) \/ r \in pair) =>
        /\ event[r] # "none"
        /\ r \in signed => oprow[r] # "none" \/ r \in untracked

\* The records and the answer tell one story, except of a request that panicked:
\* there the answer is 500 and the records say success.
RecordsMatchAnswers ==
    \A r \in Requests : pc[r] = "done" =>
        /\ r \notin panicked /\ event[r] # "none" =>
            (event[r] = "success" <=> answer[r] \in {200, 201})
        /\ oprow[r] # "none" => oprow[r] = event[r]
        /\ r \in panicked => answer[r] = 500 /\ r \notin signed /\ r \notin pair

\* A success on record is one, answered or not: also when the
\* database failed afterwards, or the process died. Only a panic is recorded so.
SuccessOnRecordIsReal ==
    \A r \in Requests \ panicked : "success" \in {event[r], oprow[r]} =>
        /\ Only(r, "create") => r \in pair /\ Exists(r)
        /\ Only(r, "sign") => r \in signed

\* Every request that arrived is answered, unless two that failed on the slot
\* ended the process.
RequestsAnswered ==
    \A r \in Requests : pc[r] # "idle" ~> (answer[r] # 0 \/ ~up)
=============================================================================
