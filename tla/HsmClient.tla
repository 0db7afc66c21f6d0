----------------------------- MODULE HsmClient ------------------------------
(***************************************************************************)
(* One SoftHSMClient: a single PKCS#11 session that every request of a slot *)
(* shares.  PKCS#11 allows a session one active operation at a time, a      *)
(* search or a cryptographic one, and refuses the next Init while it runs   *)
(* (CKR_OPERATION_ACTIVE).  The client's RWMutex does not keep them apart:  *)
(* searches by label run without it, and signatures run under its shared    *)
(* side.  A step below is one call of the library or of the mutex.          *)
(*                                                                          *)
(* An object is <<label, class>>: labels are drawn fresh, and the library   *)
(* does not reuse handles, so that a handle names the object.               *)
(*                                                                          *)
(* Faults: "hsm" a library call fails, "undo" so do the calls that destroy  *)
(* a half-made pair, "logout" another client of the same token logs the     *)
(* token's user out, which hides its private objects.                       *)
(***************************************************************************)
EXTENDS Naturals, FiniteSets

CONSTANTS Labels, Workers, Calls, Faults, NoWorker

ASSUME NoWorkerAssumption == NoWorker \notin Workers
ASSUME NoneAssumption == "none" \notin Labels
ASSUME CallsAssumption ==
    Calls \subseteq {"generate", "delete", "sign", "verify", "encrypt", "decrypt",
                     "public", "list", "close"}
ASSUME ClientFaultsAssumption == Faults \subseteq {"hsm", "undo", "logout"}

VARIABLES
    objects,    \* the token's objects
    open,       \* the session is open
    loggedIn,   \* the token's user is logged in
    active,     \* the session's operation and the object it is about
    readers,    \* read locks each goroutine holds on the mutex
    writer,     \* the goroutine that holds the mutex or waits for its readers
    closed,     \* the client's flag
    pc, call,
    target,     \* the object each goroutine searches, then its handle
    result,
    born        \* history: labels a generation has returned

session == <<objects, open, loggedIn, born>>
mutex == <<readers, writer>>
vars == <<objects, open, loggedIn, active, readers, writer, closed, pc, call,
          target, result, born>>

Objects == Labels \X {"priv", "pub"}
NoObject == <<"none", "none">>
Idle == [kind |-> "none", object |-> NoObject]

TypeOK ==
    /\ objects \subseteq Objects
    /\ open \in BOOLEAN /\ loggedIn \in BOOLEAN /\ closed \in BOOLEAN
    /\ active \in [kind : {"none", "find", "list", "use"}, object : Objects \cup {NoObject}]
    /\ readers \in [Workers -> 0..1]
    /\ writer \in Workers \cup {NoWorker}
    /\ pc \in [Workers -> {"idle", "search", "next", "final", "rlock", "lock", "begin",
                           "finish", "write", "list", "nested", "list done"}]
    /\ call \in [Workers -> [op : Calls \cup {"none"}, label : Labels \cup {"none"}]]
    /\ target \in [Workers -> Objects \cup {NoObject}]
    /\ result \in [Workers -> {"none", "ok", "error"}]
    /\ born \subseteq Labels

Init ==
    /\ objects = {} /\ open = TRUE /\ loggedIn = TRUE
    /\ active = Idle
    /\ readers = [w \in Workers |-> 0] /\ writer = NoWorker
    /\ closed = FALSE
    /\ pc = [w \in Workers |-> "idle"]
    /\ call = [w \in Workers |-> [op |-> "none", label |-> "none"]]
    /\ target = [w \in Workers |-> NoObject]
    /\ result = [w \in Workers |-> "ok"]
    /\ born = {}

----------------------------------------------------------------------------
(* Control. *)

Private(op) == op \in {"sign", "decrypt", "delete"}
ClassOf(op) == IF Private(op) THEN "priv" ELSE "pub"

Goto(w, from, to) ==
    /\ pc[w] = from
    /\ pc' = [pc EXCEPT ![w] = to]
    /\ UNCHANGED <<call, result>>

\* Slip: RUnlock is deferred before the read lock is taken.
ReturnUnlocking(w, from, r) ==
    /\ pc[w] = from
    /\ pc' = [pc EXCEPT ![w] = "idle"]
    /\ result' = [result EXCEPT ![w] = r]
    /\ target' = [target EXCEPT ![w] = NoObject]
    /\ IF writer = w
       THEN writer' = NoWorker /\ UNCHANGED readers
       ELSE readers' = [readers EXCEPT ![w] = readers[w] - 1] /\ UNCHANGED writer
    /\ UNCHANGED call

\* The call returns, its deferred unlocks done.
Return(w, from, r) ==
    /\ pc[w] = from
    /\ pc' = [pc EXCEPT ![w] = "idle"]
    /\ result' = [result EXCEPT ![w] = r]
    /\ target' = [target EXCEPT ![w] = NoObject]
    /\ readers' = [readers EXCEPT ![w] = 0]
    /\ writer' = IF writer = w THEN NoWorker ELSE writer
    /\ UNCHANGED call

\* Where each call starts: with its search, or at the mutex.
FirstStep(op) ==
    CASE op \in {"generate", "close"} -> "lock"
      [] op = "list"                  -> "rlock"
      [] OTHER                        -> "search"

\* Labels carry a new uuid.
Fresh == {l \in Labels \ (born \cup {o[1] : o \in objects}) :
              \A w \in Workers : call[w].label = l => result[w] = "error"}

Start(w) ==
    /\ pc[w] = "idle"
    /\ \E op \in Calls :
        \E l \in CASE op = "generate"          -> Fresh
                   [] op \in {"list", "close"} -> {"none"}
                   [] OTHER                    -> born :
            /\ call' = [call EXCEPT ![w] = [op |-> op, label |-> l]]
            /\ pc' = [pc EXCEPT ![w] = FirstStep(op)]
            /\ target' = [target EXCEPT ![w] = IF FirstStep(op) = "search"
                                               THEN <<l, ClassOf(op)>> ELSE NoObject]
    /\ result' = [result EXCEPT ![w] = "none"]
    /\ UNCHANGED <<session, active, mutex, closed>>

----------------------------------------------------------------------------
(* The search by label: FindObjectsInit, FindObjects, FindObjectsFinal.     *)

Visible(o) == o \in objects /\ (o[2] = "pub" \/ loggedIn)

\* The library collects the handles of a search when it begins.
FindInit(w) ==
    /\ open /\ active = Idle
    /\ Goto(w, "search", "next")
    /\ active' = [kind |-> "find",
                  object |-> IF Visible(target[w]) THEN target[w] ELSE NoObject]
    /\ UNCHANGED <<session, mutex, closed, target>>

\* DeleteKey takes any error of its first search for an absent private key and
\* goes on to the public one; every other search is the end of its call.
GiveUpSearch(w, from) ==
    IF call[w].op = "delete" /\ target[w][2] = "priv"
    THEN /\ Goto(w, from, "search")
         /\ target' = [target EXCEPT ![w] = <<call[w].label, "pub">>]
         /\ UNCHANGED mutex
    ELSE Return(w, from, "error")

\* Slip: FindObjectsFinal is deferred before the error of the Init is looked at.
FindInitFailsFinal(w) ==
    /\ ~open \/ active # Idle \/ "hsm" \in Faults
    /\ GiveUpSearch(w, "search")
    /\ active' = IF active.kind \in {"find", "list"} THEN Idle ELSE active
    /\ UNCHANGED <<session, closed>>

FindInitFails(w) ==
    /\ ~open \/ active # Idle \/ "hsm" \in Faults
    /\ GiveUpSearch(w, "search")
    /\ UNCHANGED <<session, active, closed>>

\* What the library's FindObjects returns belongs to the session's search,
\* whoever began it.
FindNext(w) ==
    /\ open /\ active.kind = "find" /\ active.object # NoObject
    /\ Goto(w, "next", "final")
    /\ target' = [target EXCEPT ![w] = active.object]
    /\ UNCHANGED <<session, active, mutex, closed>>

\* The search ends, for the session and for the caller.
EndSearch == active' = IF active.kind \in {"find", "list"} THEN Idle ELSE active

FindNothing(w) ==
    /\ \/ ~(open /\ active.kind = "find" /\ active.object # NoObject)
       \/ "hsm" \in Faults
    /\ GiveUpSearch(w, "next")
    /\ EndSearch
    /\ UNCHANGED <<session, closed>>

\* Slip: a handle found is returned without FindObjectsFinal.
FindFinalForgotten(w) ==
    /\ Goto(w, "final", IF call[w].op = "delete" THEN "lock" ELSE "rlock")
    /\ UNCHANGED <<session, active, mutex, closed, target>>

FindFinal(w) ==
    /\ Goto(w, "final", IF call[w].op = "delete" THEN "lock" ELSE "rlock")
    /\ EndSearch
    /\ UNCHANGED <<session, mutex, closed, target>>

----------------------------------------------------------------------------
(* The mutex: a writer that has announced itself keeps new readers out.     *)

RLock(w) ==
    /\ writer = NoWorker
    /\ Goto(w, "rlock", IF call[w].op = "list" THEN "list" ELSE "begin")
    /\ readers' = [readers EXCEPT ![w] = 1]
    /\ UNCHANGED <<session, active, writer, closed, target>>

Lock(w) ==
    /\ writer = NoWorker
    /\ Goto(w, "lock", "write")
    /\ writer' = w
    /\ UNCHANGED <<session, active, readers, closed, target>>

Exclusive(w) == writer = w /\ \A v \in Workers : readers[v] = 0

----------------------------------------------------------------------------
(* Under the shared lock. *)

\* GetPublicKey reads an attribute, whatever operation is active, and does not
\* look at the closed flag.
ReadAttribute(w) ==
    /\ call[w].op = "public"
    /\ open /\ target[w] \in objects
    /\ Return(w, "begin", "ok")
    /\ UNCHANGED <<session, active, closed>>

\* SignInit, VerifyInit, EncryptInit, DecryptInit on the handle found.
UseInit(w) ==
    /\ call[w].op # "public"
    /\ ~closed /\ open /\ Visible(target[w]) /\ active = Idle
    /\ Goto(w, "begin", "finish")
    /\ active' = [kind |-> "use", object |-> target[w]]
    /\ UNCHANGED <<session, mutex, closed, target>>

UseInitFails(w) ==
    /\ \/ call[w].op = "public" /\ ~(open /\ target[w] \in objects)
       \/ call[w].op # "public" /\ ~(~closed /\ open /\ Visible(target[w]) /\ active = Idle)
       \/ "hsm" \in Faults
    /\ Return(w, "begin", "error")
    /\ UNCHANGED <<session, active, closed>>

\* Sign, Verify, Encrypt, Decrypt answer for the key of the session's operation,
\* whoever began it, and end it; a logout meanwhile may end it too.
UseFinish(w) ==
    /\ open /\ active.kind = "use"
    /\ Return(w, "finish", IF active.object = target[w] THEN "ok" ELSE "error")
    /\ active' = Idle
    /\ UNCHANGED <<session, closed>>

UseFinishFails(w) ==
    /\ ~(open /\ loggedIn /\ active.kind = "use") \/ "hsm" \in Faults
    /\ Return(w, "finish", "error")
    /\ active' = IF active.kind = "use" THEN Idle ELSE active
    /\ UNCHANGED <<session, closed>>

\* ListKeys keeps its search active until it returns.
ListInit(w) ==
    /\ open /\ active = Idle
    /\ Goto(w, "list", "nested")
    /\ active' = [kind |-> "list", object |-> NoObject]
    /\ UNCHANGED <<session, mutex, closed, target>>

ListInitFails(w) ==
    /\ ~open \/ active # Idle \/ "hsm" \in Faults
    /\ Return(w, "list", "error")
    /\ UNCHANGED <<session, active, closed>>

\* The library refuses the handles of the list (no fairness forces it to).
ListFails(w) ==
    /\ "hsm" \in Faults
    /\ Return(w, "nested", "error")
    /\ EndSearch
    /\ UNCHANGED <<session, closed>>

\* Slip: the search for the public key inside ListKeys goes through, and
\* GetPublicKey locks the mutex its goroutine has read-locked already.
NestedLock(w) ==
    /\ writer = NoWorker
    /\ Goto(w, "nested", "list done")
    /\ UNCHANGED <<session, active, mutex, closed, target>>

\* getKeyInfo calls GetPublicKey for each key: its search is refused because
\* the list's own is active, and the key is listed without its public key.
NestedSearch(w) ==
    /\ active # Idle \/ ~open
    /\ Goto(w, "nested", "list done")
    /\ UNCHANGED <<session, active, mutex, closed, target>>

ListDone(w) ==
    /\ Return(w, "list done", "ok")
    /\ EndSearch
    /\ UNCHANGED <<session, closed>>

----------------------------------------------------------------------------
(* Under the exclusive lock. *)

GenerateKeyPair(w) ==
    LET l == call[w].label IN
    /\ Exclusive(w)
    /\ call[w].op = "generate" /\ ~closed /\ loggedIn
    /\ Return(w, "write", "ok")
    /\ objects' = objects \cup {<<l, "priv">>, <<l, "pub">>}
    /\ born' = born \cup {l}
    /\ UNCHANGED <<open, loggedIn, active, closed>>

\* Slip: the answer of DestroyObject is not looked at.
DestroyUnchecked(w) ==
    /\ Exclusive(w)
    /\ call[w].op = "delete" /\ ~closed
    /\ Return(w, "write", "ok")
    /\ objects' = objects \ {target[w]}
    /\ UNCHANGED <<open, loggedIn, active, closed, born>>

\* Slip: DestroyObject runs under the shared lock.
DestroyShared(w) ==
    /\ writer = w
    /\ call[w].op = "delete" /\ ~closed
    /\ Visible(target[w])
    /\ Return(w, "write", "ok")
    /\ objects' = objects \ {target[w]}
    /\ UNCHANGED <<open, loggedIn, active, closed, born>>

DestroyObject(w) ==
    /\ Exclusive(w)
    /\ call[w].op = "delete" /\ ~closed
    /\ Visible(target[w])
    /\ Return(w, "write", "ok")
    /\ objects' = objects \ {target[w]}
    /\ UNCHANGED <<open, loggedIn, active, closed, born>>

\* A generation whose public key cannot be exported destroys both objects.
WriteFails(w) ==
    /\ Exclusive(w)
    /\ \/ call[w].op = "generate" /\ (closed \/ ~loggedIn)
       \/ call[w].op = "delete" /\ (closed \/ ~Visible(target[w]))
       \/ call[w].op # "close" /\ "hsm" \in Faults
    /\ Return(w, "write", "error")
    /\ UNCHANGED <<session, active, closed>>

\* ... and ignores that it could not.
GenerateLeaks(w) ==
    /\ Exclusive(w)
    /\ call[w].op = "generate" /\ ~closed /\ loggedIn /\ {"hsm", "undo"} \subseteq Faults
    /\ Return(w, "write", "error")
    /\ \E left \in SUBSET {<<call[w].label, "priv">>, <<call[w].label, "pub">>} :
           left # {} /\ objects' = objects \cup left
    /\ UNCHANGED <<open, loggedIn, active, closed, born>>

\* Logout and CloseSession; a second Close finds the flag set and does nothing.
Close(w) ==
    /\ Exclusive(w)
    /\ call[w].op = "close"
    /\ Return(w, "write", "ok")
    /\ closed' = TRUE /\ open' = FALSE /\ loggedIn' = FALSE
    /\ active' = Idle
    /\ UNCHANGED <<objects, born>>

----------------------------------------------------------------------------
LogoutElsewhere ==
    /\ "logout" \in Faults /\ loggedIn
    /\ loggedIn' = FALSE
    /\ UNCHANGED <<objects, open, active, mutex, closed, pc, call, target, result, born>>

Step(w) ==
    \/ FindInit(w) \/ FindInitFails(w) \/ FindNext(w) \/ FindNothing(w) \/ FindFinal(w)
    \/ ReadAttribute(w)
    \/ UseInit(w) \/ UseInitFails(w) \/ UseFinish(w) \/ UseFinishFails(w)
    \/ ListInit(w) \/ ListInitFails(w) \/ NestedSearch(w) \/ ListDone(w)
    \/ GenerateKeyPair(w) \/ DestroyObject(w) \/ WriteFails(w) \/ GenerateLeaks(w) \/ Close(w)

Next ==
    \/ \E w \in Workers : Start(w) \/ RLock(w) \/ Lock(w) \/ Step(w) \/ ListFails(w)
    \/ LogoutElsewhere

Spec == Init /\ [][Next]_vars

\* Goroutines are scheduled and library calls return.  sync.RWMutex lets the
\* readers that wait in before the next writer, and sync.Mutex hands over to the
\* longest waiter, so that nobody waits for either for ever.
Fairness ==
    \A w \in Workers : WF_vars(Step(w)) /\ SF_vars(RLock(w)) /\ SF_vars(Lock(w))

FairSpec == Spec /\ Fairness

----------------------------------------------------------------------------
(* Properties. *)

\* The session's operation is the one of the goroutine that is in the middle of
\* it: no search and no signature answers for another goroutine's key.
OwnOperation ==
    \A w \in Workers :
        /\ pc[w] \in {"next", "final"} =>
               ~open \/ (active.kind = "find" /\ active.object \in {target[w], NoObject})
        /\ pc[w] = "finish" => active = [kind |-> "use", object |-> target[w]]

\* No operation is left active behind a call that returned: the session would
\* refuse every later search and signature.
NoStrayOperation ==
    active # Idle => \E w \in Workers : pc[w] \in {"next", "final", "finish", "nested", "list done"}

\* The key in use is on the token and the session open until the signature is
\* made: neither DeleteKey nor Close gets between SignInit and Sign.
KeyHeldWhileUsed ==
    \A w \in Workers : pc[w] = "finish" => target[w] \in objects /\ open /\ ~closed

Token == INSTANCE HsmToken

\* Every call is atomic on the token or has no effect, although its search, its
\* locking and its operation are interleaved with every other's.
ImplementsHsmToken == Token!Spec

\* Every call returns: the mutex and the session deadlock nobody.
CallsReturn == \A w \in Workers : pc[w] # "idle" ~> pc[w] = "idle"

\* "If private key not found, try to find public key": when DeleteKey returns
\* nil the private key is gone.  A search refused because another goroutine's
\* operation is active counts as "not found", the public key is destroyed, and
\* the private key stays.
DeleteMeansGone ==
    \A w \in Workers :
        call[w].op = "delete" /\ result[w] = "ok" => <<call[w].label, "priv">> \notin objects
=============================================================================
