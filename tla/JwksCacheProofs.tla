--------------------------- MODULE JwksCacheProofs --------------------------
(***************************************************************************)
(* Proofs about JwksCache, for every set of keys and goroutines and whatever *)
(* the identity service publishes and withdraws.                             *)
(***************************************************************************)
EXTENDS JwksCache, TLAPS

----------------------------------------------------------------------------
(* The inductive invariant.                                                  *)

\* The goroutine that fills the map holds the lock, and nobody else does.
FillerHoldsLock == \A w \in Workers : (pc[w] = "fill") = (writer = w)

\* A document on its way into the map has every key that has been published all along: it was
\* read after the start.
RepliesAreSteady == \A w \in Workers : pc[w] \in {"lock", "fill"} => steady \subseteq reply[w]

\* Whoever can read the map finds those keys in it.
CacheIsSteady == writer = NoWorker => steady \subseteq cache

IInv == TypeOK /\ FillerHoldsLock /\ RepliesAreSteady /\ CacheIsSteady /\ SteadyKeysAccepted

----------------------------------------------------------------------------
LEMMA InitIInv ==
    ASSUME Init
    PROVE  IInv
<1>1. TypeOK
  <2>1. issued \subseteq Kids /\ issued # {} /\ retired = {} /\ steady = issued /\ cache = issued
    BY DEF Init
  <2>2. /\ pc \in [Workers -> Steps] /\ kid \in [Workers -> Kids \cup {NoKid}]
        /\ reply \in [Workers -> SUBSET Kids]
    BY DEF Init, Steps
  <2>3. expired \in BOOLEAN /\ writer \in Workers \cup {NoWorker}
    BY DEF Init
  <2>4. QED
    BY <2>1, <2>2, <2>3 DEF TypeOK
<1>2. FillerHoldsLock
  BY JwksAssumption DEF Init, FillerHoldsLock
<1>3. RepliesAreSteady /\ CacheIsSteady /\ SteadyKeysAccepted
  BY DEF Init, RepliesAreSteady, CacheIsSteady, SteadyKeysAccepted
<1>4. QED
  BY <1>1, <1>2, <1>3 DEF IInv

\* What the identity service does can only make the set of steady keys smaller.
LEMMA IssuerIInv ==
    ASSUME IInv, NEW k \in Kids, Publish(k) \/ Withdraw(k)
    PROVE  IInv'
<1> USE DEF keys
<1>1. /\ steady' \subseteq steady /\ UNCHANGED <<keys, pc, kid, reply>>
      /\ issued' \subseteq Kids /\ issued' # {} /\ retired' \subseteq Kids
      /\ steady' \subseteq issued'
  <2>1. CASE Publish(k)
    BY <2>1 DEF Publish, IInv, TypeOK
  <2>2. CASE Withdraw(k)
    BY <2>2 DEF Withdraw, IInv, TypeOK
  <2>3. QED
    BY <2>1, <2>2
<1>2. TypeOK'
  BY <1>1 DEF IInv, TypeOK
<1>3. FillerHoldsLock' /\ RepliesAreSteady' /\ CacheIsSteady' /\ SteadyKeysAccepted'
  BY <1>1 DEF IInv, FillerHoldsLock, RepliesAreSteady, CacheIsSteady, SteadyKeysAccepted
<1>4. QED
  BY <1>2, <1>3 DEF IInv

\* A goroutine that neither takes nor gives the lock, has not just read a document and is not
\* just refused disturbs nothing.
LEMMA QuietIInv ==
    ASSUME IInv, NEW w \in Workers, NEW from \in Steps, NEW to \in Steps, Goes(w, from, to),
           from # "fill", to \notin {"lock", "fill", "refused"},
           kid' \in [Workers -> Kids \cup {NoKid}],
           UNCHANGED <<issuer, keys, reply>>,
           \A v \in Workers \ {w} : kid'[v] = kid[v]
    PROVE  IInv'
<1> USE DEF issuer, keys
<1>1. TypeOK'
  BY DEF IInv, TypeOK, Goes
<1>2. \A v \in Workers : v # w => pc'[v] = pc[v]
  BY DEF IInv, TypeOK, Goes
<1>3. pc'[w] = to /\ pc[w] = from
  BY DEF IInv, TypeOK, Goes
<1>4. FillerHoldsLock' /\ RepliesAreSteady' /\ CacheIsSteady' /\ SteadyKeysAccepted'
  BY <1>2, <1>3 DEF IInv, FillerHoldsLock, RepliesAreSteady, CacheIsSteady, SteadyKeysAccepted
<1>5. QED
  BY <1>1, <1>4 DEF IInv

LEMMA CheckIInv ==
    ASSUME IInv, NEW w \in Workers,
           Validate(w) \/ CheckExpired(w) \/ CheckFresh(w) \/ GetFails(w) \/ Answer(w)
    PROVE  IInv'
<1> USE DEF Steps
<1>1. CASE Validate(w)
  <2>1. PICK k \in issued \cup retired : kid' = [kid EXCEPT ![w] = k]
    BY <1>1 DEF Validate
  <2>2. k \in Kids /\ kid' \in [Workers -> Kids \cup {NoKid}]
    BY <2>1 DEF IInv, TypeOK
  <2>3. \A v \in Workers \ {w} : kid'[v] = kid[v]
    BY <2>1 DEF IInv, TypeOK
  <2>4. QED
    BY <1>1, <2>2, <2>3, QuietIInv DEF Validate
<1>2. CASE CheckExpired(w) \/ CheckFresh(w) \/ GetFails(w)
  <2>1. kid' \in [Workers -> Kids \cup {NoKid}] /\ \A v \in Workers \ {w} : kid'[v] = kid[v]
    BY <1>2 DEF IInv, TypeOK, CheckExpired, CheckFresh, GetFails
  <2>2. QED
    BY <1>2, <2>1, QuietIInv DEF CheckExpired, CheckFresh, GetFails
<1>3. CASE Answer(w)
  <2>1. PICK from \in {"accepted", "refused"} : Goes(w, from, "idle")
    BY <1>3 DEF Answer, Goes
  <2>2. kid' \in [Workers -> Kids \cup {NoKid}] /\ \A v \in Workers \ {w} : kid'[v] = kid[v]
    BY <1>3 DEF IInv, TypeOK, Answer
  <2>3. UNCHANGED <<issuer, keys, reply>>
    BY <1>3 DEF Answer
  <2>4. QED
    BY <2>1, <2>2, <2>3, QuietIInv
<1>4. QED
  BY <1>1, <1>2, <1>3

LEMMA ExpireIInv ==
    ASSUME IInv, Expire
    PROVE  IInv'
<1> USE DEF issuer
<1>1. TypeOK'
  BY DEF IInv, TypeOK, Expire
<1>2. FillerHoldsLock' /\ RepliesAreSteady' /\ CacheIsSteady' /\ SteadyKeysAccepted'
  BY DEF IInv, FillerHoldsLock, RepliesAreSteady, CacheIsSteady, SteadyKeysAccepted, Expire
<1>3. QED
  BY <1>1, <1>2 DEF IInv

\* The document that a goroutine reads has every steady key.
LEMMA GetIInv ==
    ASSUME IInv, NEW w \in Workers, Get(w)
    PROVE  IInv'
<1> USE DEF issuer, keys
<1>1. TypeOK'
  BY DEF IInv, TypeOK, Get, Goes, Steps
<1>2. FillerHoldsLock' /\ CacheIsSteady' /\ SteadyKeysAccepted'
  BY DEF IInv, TypeOK, FillerHoldsLock, CacheIsSteady, SteadyKeysAccepted, Get, Goes
<1>3. RepliesAreSteady'
  BY DEF IInv, TypeOK, RepliesAreSteady, Get, Goes
<1>4. QED
  BY <1>1, <1>2, <1>3 DEF IInv

\* Emptying the map is done with the lock held.
LEMMA ClearIInv ==
    ASSUME IInv, NEW w \in Workers, Clear(w)
    PROVE  IInv'
<1> USE DEF issuer, keys
<1>1. TypeOK'
  BY DEF IInv, TypeOK, Clear, Goes, Steps
<1>2. FillerHoldsLock'
  BY JwksAssumption DEF IInv, TypeOK, FillerHoldsLock, Clear, Goes
<1>3. CacheIsSteady'
  BY JwksAssumption DEF CacheIsSteady, Clear
<1>4. RepliesAreSteady' /\ SteadyKeysAccepted'
  BY DEF IInv, TypeOK, RepliesAreSteady, SteadyKeysAccepted, Clear, Goes
<1>5. QED
  BY <1>1, <1>2, <1>3, <1>4 DEF IInv

LEMMA FillIInv ==
    ASSUME IInv, NEW w \in Workers, Fill(w)
    PROVE  IInv'
<1> USE DEF issuer, keys
<1>1. TypeOK'
  BY DEF IInv, TypeOK, Fill
<1>2. FillerHoldsLock' /\ RepliesAreSteady' /\ CacheIsSteady' /\ SteadyKeysAccepted'
  BY DEF IInv, FillerHoldsLock, RepliesAreSteady, CacheIsSteady, SteadyKeysAccepted, Fill
<1>3. QED
  BY <1>1, <1>2 DEF IInv

\* The lock is released over a map that has the whole document.
LEMMA UnlockIInv ==
    ASSUME IInv, NEW w \in Workers, Unlock(w)
    PROVE  IInv'
<1> USE DEF issuer, keys
<1>1. TypeOK'
  BY DEF IInv, TypeOK, Unlock, Goes, Steps
<1>2. FillerHoldsLock'
  BY JwksAssumption DEF IInv, TypeOK, FillerHoldsLock, Unlock, Goes
<1>3. CacheIsSteady'
  BY DEF IInv, RepliesAreSteady, CacheIsSteady, Unlock, Goes
<1>4. RepliesAreSteady' /\ SteadyKeysAccepted'
  BY DEF IInv, TypeOK, RepliesAreSteady, SteadyKeysAccepted, Unlock, Goes
<1>5. QED
  BY <1>1, <1>2, <1>3, <1>4 DEF IInv

\* A key is refused only by a goroutine that reads a whole map.
LEMMA LookupIInv ==
    ASSUME IInv, NEW w \in Workers, Lookup(w)
    PROVE  IInv'
<1> USE DEF issuer, keys
<1>1. TypeOK'
  BY DEF IInv, TypeOK, Lookup, Found, Steps
<1>2. \A v \in Workers : v # w => pc'[v] = pc[v]
  BY DEF IInv, TypeOK, Lookup, Found
<1>3. pc'[w] = (IF kid[w] \in cache THEN "accepted" ELSE "refused")
  BY DEF IInv, TypeOK, Lookup, Found
<1>4. FillerHoldsLock' /\ RepliesAreSteady' /\ CacheIsSteady'
  BY <1>2, <1>3 DEF IInv, FillerHoldsLock, RepliesAreSteady, CacheIsSteady, Lookup
<1>5. SteadyKeysAccepted'
  BY <1>2, <1>3 DEF IInv, CacheIsSteady, SteadyKeysAccepted, Lookup
<1>6. QED
  BY <1>1, <1>4, <1>5 DEF IInv

LEMMA NextIInv ==
    ASSUME IInv, [Next]_vars
    PROVE  IInv'
<1>1. CASE \E k \in Kids : Publish(k) \/ Withdraw(k)
  BY <1>1, IssuerIInv
<1>2. CASE Expire
  BY <1>2, ExpireIInv
<1>3. ASSUME NEW w \in Workers, Validate(w) \/ Step(w) PROVE IInv'
  BY <1>3, CheckIInv, GetIInv, ClearIInv, FillIInv, UnlockIInv, LookupIInv DEF Step
<1>4. CASE UNCHANGED vars
  BY <1>4 DEF vars, IInv, TypeOK, FillerHoldsLock, RepliesAreSteady, CacheIsSteady,
              SteadyKeysAccepted
<1>5. QED
  BY <1>1, <1>2, <1>3, <1>4 DEF Next

LEMMA SpecIInv == Spec => []IInv
<1>1. Init => IInv
  BY InitIInv
<1>2. IInv /\ [Next]_vars => IInv'
  BY NextIInv
<1>3. QED
  BY <1>1, <1>2, PTL DEF Spec

----------------------------------------------------------------------------
\* Every variable keeps to its type: the map holds keys of the identity service and nothing
\* else (fetchJWKS leaves out what has no identifier).
THEOREM JwksTypeCorrect == Spec => []TypeOK
<1>1. IInv => TypeOK
  BY DEF IInv
<1>2. QED
  BY <1>1, SpecIInv, PTL

\* However many requests refresh the cache at a time, in whatever order their documents come
\* in, no token signed by a key that was published all along is refused (GetPublicKey,
\* fetchJWKS).
THEOREM SteadyKeysStayAccepted == Spec => []SteadyKeysAccepted
<1>1. IInv => SteadyKeysAccepted
  BY DEF IInv
<1>2. QED
  BY <1>1, SpecIInv, PTL
=============================================================================
