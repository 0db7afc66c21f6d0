----------------------------- MODULE JwksCache ------------------------------
(* The keys that requests are authenticated with: KeyManager keeps the RSA keys that the      *)
(* identity service publishes (its JWKS document), fetched by whichever request finds the     *)
(* cache expired. Requests run in goroutines of their own, and nothing stops several of them  *)
(* from fetching at a time. Modelled in the production mode; the development mode reads one   *)
(* key from a file and never fetches.                                                         *)
EXTENDS FiniteSets

CONSTANTS Kids,      \* key identifiers, none of which is ever issued twice
          Workers,   \* goroutines that validate a token
          NoWorker,
          NoKid

ASSUME JwksAssumption ==
    IsFiniteSet(Kids) /\ Kids # {} /\ NoKid \notin Kids /\ NoWorker \notin Workers

VARIABLES
    issued,     \* the key set the identity service publishes now             (external)
    retired,    \* the keys it published before
    cache,      \* KeyManager.keys, filled key by key during a refresh
    expired,    \* time.Since(lastFetch) > cacheTime
    writer,     \* who holds KeyManager.mu for writing
    pc,         \* pc[w]: the statement of GetPublicKey that goroutine w is at
    kid,        \* kid[w]: the key its token names
    reply,      \* reply[w]: the key set it received
    steady      \* history: the keys that have been published ever since the start

vars == <<issued, retired, cache, expired, writer, pc, kid, reply, steady>>
issuer == <<issued, retired, steady>>
keys == <<cache, expired, writer>>

Steps == {"idle", "check", "get", "lock", "fill", "lookup", "accepted", "refused"}

-----------------------------------------------------------------------------
(* The identity service starts signing with a new key, or withdraws one.                      *)

Publish(k) ==
    /\ k \notin issued \cup retired
    /\ issued' = issued \cup {k}
    /\ UNCHANGED <<retired, steady, keys, pc, kid, reply>>

Withdraw(k) ==
    /\ k \in issued /\ issued # {k}
    /\ issued' = issued \ {k}
    /\ retired' = retired \cup {k}
    /\ steady' = steady \ {k}
    /\ UNCHANGED <<keys, pc, kid, reply>>

\* cacheTime goes by.
Expire ==
    /\ ~expired
    /\ expired' = TRUE
    /\ UNCHANGED <<issuer, cache, writer, pc, kid, reply>>

-----------------------------------------------------------------------------
Goes(w, from, to) == pc[w] = from /\ pc' = [pc EXCEPT ![w] = to]

\* A request with a token signed by a key that is or was published.
Validate(w) ==
    /\ Goes(w, "idle", "check")
    /\ \E k \in issued \cup retired : kid' = [kid EXCEPT ![w] = k]
    /\ UNCHANGED <<issuer, keys, reply>>

\* lastFetch is read without the lock: whoever reads it while it is written may see it
\* before, after or in between.
SeenExpired == IF writer = NoWorker THEN {expired} ELSE BOOLEAN

CheckExpired(w) ==
    /\ TRUE \in SeenExpired
    /\ Goes(w, "check", "get")
    /\ UNCHANGED <<issuer, keys, kid, reply>>

CheckFresh(w) ==
    /\ FALSE \in SeenExpired
    /\ Goes(w, "check", "lookup")
    /\ UNCHANGED <<issuer, keys, kid, reply>>

\* fetchJWKS: the document is read without any lock.
Get(w) ==
    /\ Goes(w, "get", "lock")
    /\ reply' = [reply EXCEPT ![w] = issued]
    /\ UNCHANGED <<issuer, keys, kid>>

\* No answer, a status other than 200 or a body that is not JSON: the request goes on with
\* the keys that are cached.
GetFails(w) ==
    /\ Goes(w, "get", "lookup")
    /\ UNCHANGED <<issuer, keys, kid, reply>>

\* Slip: the new keys are added to the old ones.
ClearNothing(w) ==
    /\ Goes(w, "lock", "fill")
    /\ writer = NoWorker /\ writer' = w
    /\ UNCHANGED <<issuer, cache, expired, kid, reply>>

\* With the lock held the map is emptied ...
Clear(w) ==
    /\ Goes(w, "lock", "fill")
    /\ writer = NoWorker /\ writer' = w
    /\ cache' = {}
    /\ UNCHANGED <<issuer, expired, kid, reply>>

\* Slip: keys without an identifier are not left out.
FillUnnamed(w) ==
    /\ pc[w] = "fill"
    /\ \E k \in (reply[w] \cup {NoKid}) \ cache : cache' = cache \cup {k}
    /\ UNCHANGED <<issuer, expired, writer, pc, kid, reply>>

\* ... and filled key by key ...
Fill(w) ==
    /\ pc[w] = "fill"
    /\ \E k \in reply[w] \ cache : cache' = cache \cup {k}
    /\ UNCHANGED <<issuer, expired, writer, pc, kid, reply>>

\* Slip: the lock is not released.
UnlockForgotten(w) ==
    /\ reply[w] \subseteq cache
    /\ Goes(w, "fill", "lookup")
    /\ expired' = FALSE
    /\ reply' = [reply EXCEPT ![w] = {}]
    /\ UNCHANGED <<issuer, cache, writer, kid>>

\* ... before lastFetch is renewed and the lock released.
Unlock(w) ==
    /\ reply[w] \subseteq cache
    /\ Goes(w, "fill", "lookup")
    /\ writer' = NoWorker
    /\ expired' = FALSE
    /\ reply' = [reply EXCEPT ![w] = {}]
    /\ UNCHANGED <<issuer, cache, kid>>

Found(w) ==
    pc' = [pc EXCEPT ![w] = IF kid[w] \in cache THEN "accepted" ELSE "refused"]

\* Slip: the map is read without the lock.
LookupUnlocked(w) ==
    /\ pc[w] = "lookup"
    /\ Found(w)
    /\ UNCHANGED <<issuer, keys, kid, reply>>

\* The key is looked up under the read lock; without it the token is invalid (401).
Lookup(w) ==
    /\ pc[w] = "lookup"
    /\ writer = NoWorker
    /\ Found(w)
    /\ UNCHANGED <<issuer, keys, kid, reply>>

Answer(w) ==
    /\ pc[w] \in {"accepted", "refused"}
    /\ pc' = [pc EXCEPT ![w] = "idle"]
    /\ kid' = [kid EXCEPT ![w] = NoKid]
    /\ UNCHANGED <<issuer, keys, reply>>

-----------------------------------------------------------------------------
\* NewKeyManager fetches the document before the server starts, and fails without it.
Init ==
    /\ issued \in {S \in SUBSET Kids : S # {}}
    /\ retired = {} /\ steady = issued
    /\ cache = issued /\ expired = FALSE /\ writer = NoWorker
    /\ pc = [w \in Workers |-> "idle"]
    /\ kid = [w \in Workers |-> NoKid]
    /\ reply = [w \in Workers |-> {}]

Step(w) ==
    \/ CheckExpired(w) \/ CheckFresh(w) \/ Get(w) \/ GetFails(w) \/ Clear(w) \/ Fill(w)
    \/ Unlock(w) \/ Lookup(w) \/ Answer(w)

Next ==
    \/ \E k \in Kids : Publish(k) \/ Withdraw(k)
    \/ Expire
    \/ \E w \in Workers : Validate(w) \/ Step(w)

Spec == Init /\ [][Next]_vars

\* Go schedules every goroutine, its mutex lets every waiter through, and the connection of a
\* fetch ends one way or the other.
FairSpec ==
    Spec /\ \A w \in Workers : WF_vars(Step(w)) /\ SF_vars(Clear(w)) /\ SF_vars(Lookup(w))

-----------------------------------------------------------------------------
TypeOK ==
    /\ issued \subseteq Kids /\ issued # {} /\ retired \subseteq Kids /\ steady \subseteq issued
    /\ cache \subseteq Kids /\ expired \in BOOLEAN /\ writer \in Workers \cup {NoWorker}
    /\ pc \in [Workers -> Steps]
    /\ kid \in [Workers -> Kids \cup {NoKid}]
    /\ reply \in [Workers -> SUBSET Kids]

\* No request is refused because a refresh is going on: a token signed by a key that the
\* identity service has published all along is never turned away, however many goroutines
\* fetch, and fail to fetch, at a time, and though every refresh empties the map first.
SteadyKeysAccepted ==
    \A w \in Workers : pc[w] = "refused" => kid[w] \notin steady

Refreshed == \E w \in Workers : Unlock(w)

\* A key that is withdrawn for good leaves the cache for good, as long as refreshes go on
\* succeeding: a slow goroutine may bring it back with a document it fetched long ago, but
\* only so many times.
WithdrawnKeysGo ==
    \A k \in Kids : (<>[](k \notin issued) /\ []<><<Refreshed>>_vars) => <>[](k \notin cache)

\* Every request gets its answer: the goroutine that refreshes lets go of the lock.
RequestsAnswered == \A w \in Workers : pc[w] = "check" ~> pc[w] = "idle"
=============================================================================
