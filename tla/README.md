# Verification of hsm-service

TLA+ models of hsm-service, the TLC configurations that check them on small instances, and
TLAPS proofs of theorems about them for instances of every size. Paths below are relative to
`src/`; "KeyLifecycle" and the like are modules in this directory. `PROJECT.json` holds the
same information for tools: for every definition the lines it translates, for every property a
deliberately broken definition that violates it, the hazards of the code, and the findings.

## 1. The system

hsm-service is a Go HTTP server that signs for tenants with keys held in SoftHSM tokens. One
process owns a PKCS#11 library instance, a MySQL pool, an audit pipeline and a cache of JWT
keys. Requests run in goroutines of their own; there is no transaction across the token and
the database, and little locking above the clients.

| Component (code) | State it keeps | Operations | Interacts with |
|---|---|---|---|
| key service (`application/services/key_service.go`) | none of its own: rows of `crypto_keys` and objects of the token, paired by label | CreateKey, RotateKey, DeleteKey, reads | key storage, HSM manager, audit |
| signing service (`signing_service.go`) | none | SignHash, VerifyHashSignature, GetPublicKey | key storage, HSM manager |
| HSM manager (`hsm/manager.go`) | map slot number -> client | RegisterClient, forwarding calls, CloseAll | clients, audit dispatcher |
| HSM client (`hsm/client*.go`) | one PKCS#11 session, an RWMutex, `closed` | generate, delete, sign, verify, encrypt, decrypt, list, close | PKCS#11 library |
| PKCS#11 context (`hsm/pkcs11_context.go`) | process-wide library instance | GetOrInit, Finalize | every client |
| slot service (`slot_service.go`) | none: tokens, `hsm_slots` and `aes_key_metadata` rows | InitializeSlot, DeleteSlot, GetAvailableSlots | library, storage, AES key manager, manager |
| bootstrapper (`hsm/bootstrapper.go`) | none | Bootstrap at start | the same, the other way round |
| AES key managers (`secrets/`, `pkg/crypto/`) | cache of master keys | GetKey, WrapKey, UnwrapKey, RewrapKey | Kubernetes Secret, file or Vault |
| audit dispatcher (`audit/worker.go`) | channel, workers, context | SendEvent, Close | recorder |
| audit recorders (`audit/factory.go`, `hybrid_processor.go`, transport, storage) | none that is used | RecordEvent | audit service, database |
| JWKS cache and validation (`interfaces/auth/`, middleware) | map kid -> key, `lastFetch` | GetPublicKey, fetchJWKS, ValidateToken | identity service |
| server lifecycle (`cmd/api/main.go`) | order of start and of deferred calls | start, shutdown | all |
| session pool (`hsm/session_pool.go`) | semaphore, idle channel | GetSession, ReturnSession, Close | nothing: not wired in |
| middleware, handlers, routes (`interfaces/http/`) | none | token check, decoding, HandleError, recovery | services |
| tenant and key-operation storage (`storage/mysql/`) | none: `tenants`, `key_operations` rows | FindByID, Save | services |
| config, logging, health | none | parsing, wiring | services |

What is hard here, and what would make each part correct:

* **Two stores, no transaction** (key service, slot service). Every statement may fail, commit
  with its reply lost, or be the last before a crash. Correct: a row has its private key, a
  private key has its row, a stored PIN opens its token, nothing answered for disappears.
* **One session, many goroutines** (HSM client). PKCS#11 allows one active operation per
  session; searches run without the client's mutex and signatures under its shared side.
  Correct: no operation answers for another goroutine, none is left active, nothing deadlocks.
* **Channel, timers and shutdown** (audit). Correct: an event has one fate, nobody stays
  parked, the shutdown ends.
* **Renumbered tokens** (bootstrap). SoftHSM gives a new token another slot number at the next
  start of the library. Correct: each tenant's client is on that tenant's own token.
* **Rotation** of the master key under a cache without expiry, over processes that restart one
  by one. Correct: every PIN stays readable.
* **Effect, record and answer** (handlers, services' deferred functions). A request changes a
  store, then leaves an event and a row, then is answered; each may fail, panic or be cut off.
  Correct: the three tell one story, and another tenant's key looks like one that is absent.
* **Refresh while reading** (JWKS). Correct: a valid key is never missed, a withdrawn one goes.

The hazards are listed one by one, each at its line, in `PROJECT.json`.

## 2. Modules

| Module | Models | Composition |
|---|---|---|
| OperationTrail | a request of any key route from arrival to answer, with its two records | composes middleware, handlers, both services and the storages they read and write |
| OperationTrailProofs | its theorems | extends OperationTrail |
| KeyStore | what callers are promised: a key is minted once for one tenant and usage, signs only for it, and once retired never signs again | abstract |
| KeyLifecycle | key service and signing service on both stores, one action per statement, faults and crashes | implements KeyStore |
| KeyLifecycleProofs | its theorems | extends KeyLifecycle |
| AuditLog | each event has one fate: kept or lost, for good | abstract |
| AuditTrail | dispatcher, workers, three recorders, both sinks, the end of main() | implements AuditLog |
| AuditTrailProofs | its theorems | extends AuditTrail |
| HsmToken | each client call as one atomic change of the token, or none | abstract |
| HsmClient | one SoftHSMClient, one action per library call or mutex operation | implements HsmToken |
| HsmClientProofs | its theorems | extends HsmClient |
| SlotProvisioning | InitializeSlot, DeleteSlot and Bootstrap over SoftHSM tokens, rows, clients, sessions and logins; the end of main() on clients and library; restarts | composes slot service, storage, manager, PKCS#11 context and bootstrapper |
| SlotProvisioningProofs | its theorems | extends SlotProvisioning |
| KeyWrapping | envelope of the PIN, master key cache, rotation over a deployment | composes slot service, bootstrap and the Kubernetes and local key managers |
| KeyWrappingProofs | its theorems | extends KeyWrapping |
| JwksCache | KeyManager's cache, refreshed and read by concurrent requests | with the identity service as environment |
| JwksCacheProofs | its theorems | extends JwksCache |
| MC... | instances for TLC | extend the modules above |

Modules are tied at their seams by what one assumes of another: KeyLifecycle's fault "busy"
(the search for a private key is refused) is the behaviour that `hsm_delete` exhibits in
HsmClient; HsmClient's event "logout" is what SlotProvisioning's RegisterClient does to the
sessions of a replaced client; SlotProvisioning's opaque PIN is what KeyWrapping seals;
OperationTrail's stores are KeyLifecycle's as the routes use them (no route rotates or deletes),
its token check is JwksCache's answer, and what becomes of its events is AuditTrail's.

An operator whose comment begins with "Slip:" is part of no specification. It is a variant of
the action after it with a plausible bug, under which a named property fails.

### 2.1 KeyLifecycle

State: `priv` and `pub` are the token's objects by label, `rows` is `crypto_keys`, `pc` and
`req` are the locals of each request. A key stands for the row's uuid and for the label, both
drawn fresh. CreateKey, RotateKey, DeleteKey and SignHash start a request; FindKey is
FindByIDAndTenant with the checks that follow; then one action per statement, each with its
failure: GetTenantSlot, GenerateKeyPair, SaveKey, the two undo steps of a rotation, and so on.
`Crash` ends every request and keeps both stores. The history variables `leaked`, `hollow` and
`untold` name the keys a *failure* has left unpaired, each set by exactly the failing action;
the invariants say that nothing else does.

Left out: tenant and slot are read in one step (both are read-only and nothing in the
repository writes `tenants.hsm_slot_id`, so a slot never changes under a key); audit events,
`key_operations` rows and ListKeys, which are OperationTrail's; GetKey, which no route calls. A
cancelled request context is the fault "db"; the nil dereference of a tenant without a slot is
here a failed lookup. RotateKey and DeleteKey have no HTTP route at this commit;
they are modelled because the port offers them.

### 2.2 AuditTrail

`request[e]` follows one event per request through SendEvent, `buffer` is the channel,
`blocked` its waiting senders in order of arrival (one that gives up leaves the queue from
whatever place it is at), `loop`/`hold` the workers, `expired` the
5-second contexts that have run out, `posted`/`inserted`/`failed` the sinks, `main` the end of
main() from the signal through srv.Shutdown, HSMManager.CloseAll (which closes the dispatcher)
to main's own deferred Close. An event a sender hands straight to a waiting worker is in the
buffer for an instant. The mock recorder does nothing and is left out.

Every shutdown ends in a panic: CloseAll (`hsm/manager.go:227`) closes the dispatcher, main's
own deferred Close (`cmd/api/main.go:68-73`) closes it again, and AuditWorker.Close has no guard.
Nothing in the repository promises an exit without one; what the model checks is what the panic
may not do. `PanicComesLast`: it comes when the first Close has returned and every worker has
ended, so that it takes no recording with it.

### 2.3 HsmClient

`objects` are the token's, `active` is the session's one operation, `readers`/`writer` are the
RWMutex (with Go's rule that a waiting writer keeps new readers out), `pc` counts library and
mutex calls. Sign, verify, encrypt and decrypt share their control. GetAttributeValue is folded
into the Init that follows it. Handles are not reused by SoftHSM, so that an object is its
handle. HealthCheck changes nothing.

### 2.4 SlotProvisioning

A call of InitializeSlot stands for its row, its PIN, its client and its token. `token[k].at`
is the number of the slot it is in, `by` (history) the calls that have initialised that slot;
`open` and `login` are PKCS#11's sessions and the login state, which belongs to the token and
not to the session. `Restart` ends the process at any point, renumbers the tokens made since
the last start, and Bootstrap goes through the rows again: label search, fallback to the
stored number, UpdateSlotNumber, login, RegisterClient. softhsm2-util may or may not delete
the token it is asked to delete, behind the library's back.

The end of main(): `phase` goes from "serving" to "draining" (the signal; `accepts` is FALSE from
there) and to "down" when srv.Shutdown returns, with calls still running when its 30 s were not
enough; or straight to "down" when the listener fails, with connections that may still bring
calls. CloseClients empties the manager's map, Finalize ends the library: from then on
GetOrInitPKCS11Context returns neither a context nor an error, because sync.Once has run, and
`Library` is FALSE for every call that asks. FinalizeFails leaves the library as it was. The
process goes on ("finalized", "kept") until the remaining deferred calls are through. A call that
outlives CloseAll may still register a client in the new map; it dies with the process.

The model shows five behaviours for which no comment or test promises anything else, so they
are not listed as findings: two calls may take the same free slot, and C_InitToken by the
second wipes the first's token (RowOpensToken is restricted to undisturbed tokens); a tenant
initialised twice is registered twice on one slot at the next boot, and closing the replaced
client logs the token out for the new one too (SlotsAreServed is restricted to tenants
initialised once); a row whose token was deleted stays; a fresh system without any slot cannot
start, because Bootstrap demands a client; and a call that runs into the finalized library
panics on the nil context.

### 2.5 KeyWrapping

Sealing is symbolic: what was sealed with a key is opened by that key and rejected by any
other. A field of the Secret stands for the key in it and is never overwritten or reused;
`Holds` and the operator's actions AddField, RemoveField and Restart are the environment. The
configuration of a process is [strategy, keyId, master, old]. Under "local", which is what the
factory builds for a strategy it does not know, GetKey returns the one configured key whatever
the identifier (LocalGetKey) and there is no cache; a restart may change everything but the
strategy. The hypothesis `FieldsNameKeys` says that in the Kubernetes configurations keyId is
the name of the field, as in every configuration of the repository
(`docker-compose.dev.yml:56-57`), and that the local configurations share one key. Without it the
properties are false of the code: the "old master key" setting is consulted only for the
literal identifier "old-master-key", which no row carries, and a local master key that is
replaced leaves every row unreadable. Base64 and size checks are a failing Fetch; a local key
that is not base64 is an empty key, and a failing job.

### 2.6 JwksCache

`issued` is the identity service's document, `reply[w]` the one goroutine w has received and
may hold for any time, `cache` the map, cleared and filled key by key under `writer`.
`lastFetch` is read without the lock: while a writer holds it, the read may see either value.
Production mode only; the claim checks are pure and left out.

### 2.7 OperationTrail

`pc[r]` takes a request through the token check, the lookups, the HSM, the row, the two records
and the answer; a request stands for the key it creates too. `err` is the services' named result,
which the deferred functions read; `pair`, `row` and `signed` are what requests change;
`event` and `oprow` are the records, `answer` the HTTP status. KeyUsageBoth passes like SIGNING
and no route creates it. The operator's AssignSlot is the only writer of `tenants.hsm_slot_id`.
Statements fail for the database or because the client left, whose context they run under; the
HSM does not look at it. The lookups' own events (GET_TENANT, GET_SLOT) are left out: they carry
no identity and no key.

What the code does here that a reader may not expect, and the properties are stated around:

* An HSM failure answers 500, never 503: no error of the client is a DomainError. So does a
  missing slot (SLOT_NOT_FOUND has no status of its own), and a public key that is not there,
  because GetPublicKey turns the storage's KEY_NOT_FOUND into a plain error.
* A lookup that fails for the database answers 404, like a key that is not there.
* `*tenant.HSMSlotID` of a tenant without a slot panics. gin.Recovery, the innermost middleware,
  answers 500; the deferred functions have run by then with err still nil, so that the event, and
  for a signature the row of `key_operations`, say success. RecordsMatchAnswers makes this one
  exception and says that such a request has changed nothing.
* `helpers.go:96` and `:100` write a detail into the map of the one predefined
  DomainErrSlotNotFound. Two requests in it at once may end the process ("concurrent map
  writes" is no panic). ConcurrentMapWrites is that undefined behaviour, as a choice.
* The event of a signing has no identity; only the row of `key_operations` names the tenant, its
  INSERT runs under the request's context, and its error is ignored (`untracked`).

## 3. What is checked

| Run | Instance | Distinct states | Shows |
|---|---|---|---|
| key_lifecycle | 2 keys, 2 tenants, 2 requests at a time, every fault | 1,491,515 | RowBacked, NoOrphanPrivateKey, RowsAreKnown, NoSignatureAfterDelete, ImplementsKeyStore |
| key_rotation | 1 request, no fault | stops at the violation | RotateKey never delivers |
| audit_trail | 3 events, 2 workers, buffer 1, all recorders, every fault | 187,058 | EventsConserved, ParkedOnlyWhenFull, PanicOnlyAfterForcedDrain, PanicComesLast, TwiceOnlyUnanswered, ImplementsAuditLog; liveness EventsSettle, ShutdownEnds |
| audit_fallback | hybrid, the service hangs | violation | the fallback INSERT runs under the spent context |
| audit_close | no fault | violation | Close drops queued events |
| hsm_client | 2 labels, 2 goroutines, every fault | 270,870 | OwnOperation, NoStrayOperation, KeyHeldWhileUsed, ImplementsHsmToken; liveness CallsReturn |
| hsm_delete | 1 label, 2 goroutines, no fault | violation | DeleteKey returns nil and the private key stays |
| slot_provisioning | 1 slot from before, 2 calls, 2 tenants, 2 free slots, shutdowns, 2 restarts | 3,175,927 | RowOpensToken, SlotsAreServed, SessionsAreOwned, AnsweredRowsStay |
| slot_half_row | 1 call, 1 restart | violation | a row the next start cannot read |
| key_wrapping | 3 Kubernetes and 2 local configurations, 2 processes, 2 rows, 2 goroutines | 196,209 | PinsReadable, CacheIsRight |
| jwks_cache | 2 keys, 2 goroutines | 9,906 | SteadyKeysAccepted; liveness WithdrawnKeysGo, RequestsAnswered |
| operation_trail | 2 requests, 1 key from before, 2 tenants, every fault | 560,068 | AnswersMeanWhatTheySay, ForeignKeysLookAbsent, EffectsAreRecorded, RecordsMatchAnswers, SuccessOnRecordIsReal; liveness RequestsAnswered |

Each passing run checks its module's TypeOK as well. Symmetry is used only in runs without
liveness properties.

**Bounds.** Every set in the table is a bound, and MaxRestarts the only counter. Two requests,
goroutines or processes are enough for every pair of steps to interleave, and no code path
looks at three at a time; two keys let a rotation exist and one key be taken for the other; a
buffer of one with three events and two workers has full, empty and parked states, a parked
sender behind another, and both workers busy; one old slot and two calls give the same free
slot, the same tenant, and a neighbour that must not be harmed; two restarts give a renumbered
token, a stored number that is out of date, and a third boot after UpdateSlotNumber; three
generations let a row be two rotations old while a roll-out goes back and forth. `Calls` of
HsmClient's run leave out verify, encrypt and decrypt, which take the same steps as sign and
public. In OperationTrail two requests of any two routes meet on one key, whose tenant, usage and
state are any; the first request's token is of a fixed tenant, since the tenants are alike, and
keys are created for SIGNING only, since a new key's usage is looked at by nobody but a later
request, and the key from before already has either. For the properties with a theorem the bounds do not matter.

SlotProvisioning and `slot_half_row` do not check deadlock: a server that could not boot, or has
shut down, stays dead when the restarts are used up. Nor does OperationTrail: when all requests
are answered nothing is left to do. BornTemporary (the database's default for
`is_temporary_id`, whose schema is not in the repository) is TRUE in the runs; with FALSE a new
slot would not be found again after the restart that renumbers its token.

**Fairness.** AuditTrail: weak fairness of each sender, worker and of the shutdown; goroutines
are scheduled, and each step that could wait has a timer (100 ms in SendEvent, 5 s per
recording, 30 s for the drain). HsmClient: weak fairness of each goroutine's next step (library
calls return) and strong fairness of taking the mutex, which Go's RWMutex gives: waiting
readers enter before the next writer, and the inner Mutex hands over to a waiter after 1 ms.
OperationTrail: weak fairness of each request's next step, whatever its outcome: its goroutine
runs, and a statement, an HSM call or SendEvent returns in the end (CallsReturn shows it of HSM
calls, SendEvent has its timer of 100 ms). Nothing makes a request arrive.
No fairness makes a fault happen or not happen. JwksCache: weak fairness of each goroutine,
strong fairness of the lock as above; it includes that a fetch ends. `http.Get` there has no
timeout of its own, so that this rests on the connection ending.

## 4. Findings

1. **RotateKey cannot succeed** (`key_rotation`). "Desactivar clave anterior" calls Save, a
   plain INSERT of a row that exists. When a DeleteKey of the old key races it, the INSERT goes
   through and brings the deleted row back.
2. **DeleteKey may delete the wrong object** (`hsm_delete`). Any error of the search for the
   private key counts as "not found"; the public key is destroyed and nil returned.
3. **The database fallback shares the context of the POST that hung** (`audit_fallback`).
4. **Close discards queued events** (`audit_close`).
5. **Slot and metadata are not stored in a transaction** (`slot_half_row`); the row left over
   by a crash in between makes every later start fail.

Each is one action of the model, the code's, and one line of the repository that says
otherwise, quoted in `PROJECT.json`.

## 5. What is proved

All theorems hold for every value of the constants (any sets, finite or not, unless an
assumption says so), from the named assumptions of the module alone.

**KeyLifecycleProofs.** TypeCorrect, RowsAreBacked, PrivateKeysAreNamed, NoUnknownRows,
NoLateSignature and Refinement: KeyLifecycle, with every fault, implements KeyStore. None of
these invariants is inductive: each speaks of a row, a private key or a signature, and what
keeps it true is what the goroutines carry in their locals. The strengthening comes in layers.
`Located` says which operation a request has, and which locals are set, at which step; with
TypeOK it is inductive (`Typed`). `Frame` adds that a drawn key belongs to one goroutine
(DrawnOnce), that rows and private keys come from generated pairs and agree with what the key
was minted with (FromBirth), what a creation and a rotation have done to their new key at each
step (NewKeyStaged), that past its lookup a request works on a key of its own tenant
(OldKeyFound), and that a request about to delete a row has destroyed the private key or
recorded why not (DestroyedFirst). RowBacked, NoOrphanPrivateKey and RowsAreKnown are then
inductive relative to Typed and Frame, one step per action. NoSignatureAfterDelete needs that a
reported deletion leaves no active row and no late request past its lookup (DeletedStaysOut).
The refinement maps `retired` to the minted keys without a private key and needs, besides, that
only signing keys pass the lookup of a signature (SignerAdmitted); each action is shown to be a
Mint, a Retire, a Sign, a Deliver, LoseAnswers or a stutter.

**OperationTrailProofs.** TrailTypes, AnswersAreTrue, TenantsAreApart, NothingGoesUnrecorded,
RecordsAreTrue and SuccessIsReal: every safety property of the run. The properties speak of the
end of a request, the steps change its middle; the strengthening IInv says of each request, on its
own, what holds at every step of it: where it may be for its operation (Placed), what its
effects are so far (Pending, Wanted), what the named result stands for once the service has
returned (Returned), what the records say of it (Recorded) and what the status may be (Answered).
Requests meet in `row`, `pair` and `signed` only. A step of one request replaces no row and
takes away no key of another (Alone), and so keeps what holds of the other (OthersSound): this
lemma is why the theorems hold for any number of requests, and with it each action is looked at
for its own request alone.

**KeyWrappingProofs.** WrappingTypeCorrect, PinsStayReadable and CacheStaysRight, under
FieldsNameKeys (which MCKeyWrapping assumes too, so that TLC evaluates it). PinsReadable alone
is not inductive: a wrong key in a cache or in a goroutine's hand would break it a step later.
The strengthening: every row is sealed under the key its version names and that field is still
in the Secret (RowsSealed), every cached key is the one its identifier names (CacheNamed), and
so is the key a goroutine holds, whose identifier, when it is about to wrap, is that of its
process's configuration and therefore still in the Secret (JobsNamed). A process never changes
its strategy and all rows are written under one (OneStrategy), so that a key is right for a row
either by the name of its field or because there is only one.

**JwksCacheProofs.** JwksTypeCorrect and SteadyKeysStayAccepted. The strengthening: a goroutine
that fills the map holds the lock (FillerHoldsLock), each document on its way into the map has all
keys that have been published since the start (RepliesAreSteady), and so does the map whenever
nobody holds the lock (CacheIsSteady).

**HsmClientProofs.** TypeCorrect, OwnOperationAlways, NoStrayOperationAlways, KeyHeldAlways and
Refinement: HsmClient implements HsmToken. What makes one session safe for many goroutines is
that the library refuses to begin a second operation, and that a search by label, which runs
without the client's mutex, is over before the handle is used. The strengthening says this goroutine
by goroutine: which steps its operation has (Placed, Aimed), that it holds the mutex exactly
between the steps that take and release it (Locked), and that whoever is amid an operation finds it
active and on its own object (Owns); at most one is (OneOperation), and a closed session has none
(ClosedSession). A step touches no other goroutine (Alone), and on the session it keeps the
operation, begins one on an idle session, finishes its own, or closes. A goroutine between
the Init of a signature and its end holds the mutex shared, and DestroyObject and Close need it
alone: that is KeyHeldWhileUsed, and it is also why the object a call of the abstract token uses is
still there at the instant the call takes effect.

**AuditTrailProofs.** TypeCorrect, Conserved, ParkedAlways, PanicAfterForcedDrain, PanicLast,
StoredTwice and Refinement: AuditTrail implements AuditLog. The strengthening says where an event is,
by its request: queued exactly when it is in the buffer, in one worker's hand or in a sink, parked
exactly when it is in the queue of senders, and never in the buffer once it has been taken out
(Located); there is one copy of it in each place (OneCopy); a worker at a sink has tried those
before it without an answer it could keep (Recording); and the shutdown has got as far as its flags
say (Phases). Lemmas on queues (InAppend, InTail, InRemoved and others) say what Append, Tail and a
removal from the middle do to the elements of a sequence without repetitions. For the refinement an event is
kept when a sink has it, and lost when its sender gave it up or its recording failed; the proof is
that each step seals the fate of some events (a shutdown those of all parked senders at once) and
unseals none.

**SlotProvisioningProofs.** TypeCorrect, AnsweredRowsAlwaysStay, RowAlwaysOpensToken,
SessionsAlwaysOwned and SlotsAlwaysServed: every property of the run. Five invariants, each inductive
relative to those before it.

* RowsInv: how far a call has come with its row, and that nothing runs before Bootstrap has ended.
  With the steps a row can take (RowGoes) it gives AnsweredRowsStay.
* TokensInv: a token is in the free slot it was made in until the restart and at its own number
  afterwards, one per slot; whoever is past C_InitToken is among those that touched the token in its slot,
  or that token is deleted and the slot not used again before a restart (Touched). Hence a token
  touched by one call alone has that call's label, and its PIN as soon as C_InitPIN has answered:
  RowOpensToken, where the row comes after C_InitPIN.
* SessionsInv: a call in flight has the session of its step, and a client in the map is that of a
  call that is over. With it no failing call, replaced client or CloseAll can close a session that is not
  its own, or leave one: SessionsAreOwned.
* ClientsInv: a client is on the free slot of the call that made it, or on the number of a token with the
  label of its tenant; a number in a row that is not temporary is that of such a token, too.
* ServiceInv: an undisturbed call keeps its login and its client, since any call on its slot that could
  disturb them has touched its token (OthersStayAway, ConnectionStays); and Bootstrap finds the token
  of a row whose tenant has no other one, whatever number the row holds (FindsItsToken), and gives that
  token to no other row (NotAnothers). "No other row" cannot be assumed as SlotsAreServed has it,
  of rows that calls in flight may insert and take back: OnlyOld speaks of the tokens and rows
  of calls that are over, which no step takes away.

SlotsAlwaysServed has the hypothesis BornTemporary, under which the runs are made (section 3).
The other four theorems hold with either default.

All inductive invariants but those of KeyLifecycleProofs were checked by TLC, on the instance of the
run, before they were proved.

Every invariant, action property and refinement of the passing runs is thereby a theorem.
Only model-checked: liveness (EventsSettle, ShutdownEnds, CallsReturn, WithdrawnKeysGo, and
RequestsAnswered of JwksCache and of OperationTrail), since neither ENABLED nor fairness is in the
prover's reach; and the five violations, which TLC's counterexamples show. No module declares a
recursive operator.

## 6. Not modelled

* Session pool (`hsm/session_pool.go`): nothing constructs it. Reading it shows that a session
  that cannot be created keeps its permit (line 107), so that after `max` failures every
  GetSession waits for ever, and that Close may close the channel ReturnSession sends on.
* The Vault strategy of the AES key manager (stubs that panic), and RewrapKey, EncryptWithKeyID,
  DecryptWithKeyID and ListKeyVersions of all strategies, which have no caller.
* Claims of the JWT and the development mode: pure comparisons, one file.
* The slot handlers, which only forward to the slot service and answer 500 to any error, and the
  health endpoints. Configuration, logging, health, request context: no protocol.
* `crypto_service.go`, `hsm_key_service.go`, `auth_service.go`, `security/hsm_adapter.go`:
  main() builds none of them. The storages' statements that only they call.
* Cryptography itself, SQL, SoftHSM beyond what section 2 says of it.

## 7. Plan

Written so far, in this order: the key lifecycle (the service's purpose) with its proofs, the
audit trail, the client, provisioning and boot, the envelope and the JWKS cache with theirs; then
the request from arrival to answer with its proofs, the end of main() on the clients and the
library, and the local strategy of the envelope;
and last the proofs for the client, the audit trail, and provisioning and boot.

Next:

1. Proofs under which hypotheses the findings' properties do hold (DeleteMeansGone without a refused
   search, CloseFlushes with an empty buffer), where the hypothesis is one an operator can arrange.
2. KeyLifecycle with a retrying caller: which half-done deletions a retry can finish.
3. SessionPool, should it be wired in.
