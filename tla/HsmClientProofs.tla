-------------------------- MODULE HsmClientProofs ---------------------------
(***************************************************************************)
(* Proofs about HsmClient, for any number of goroutines and labels and with *)
(* any of the faults: the session that they share never answers one with    *)
(* the operation of another, and every call is atomic on the token.         *)
(***************************************************************************)
EXTENDS HsmClient, TLAPS

----------------------------------------------------------------------------
(* The inductive invariant. *)

Searches(op) == op \in {"delete", "sign", "verify", "encrypt", "decrypt", "public"}

\* What a goroutine looks for, or has found, is of the label it was called with
\* and of the class its operation needs; DeleteKey may have gone on to the
\* public key.
Aimed(w) ==
    /\ call[w].label \in Labels
    /\ target[w] \in {<<call[w].label, "priv">>, <<call[w].label, "pub">>}
    /\ call[w].op = "delete" \/ target[w] = <<call[w].label, ClassOf(call[w].op)>>

\* A call is running until it returns, and each step is one of its operation.
Placed(w) ==
    /\ result[w] = "none" <=> pc[w] # "idle"
    /\ pc[w] \in {"search", "next", "final"} => Searches(call[w].op)
    /\ pc[w] = "rlock" => call[w].op = "list" \/ (Searches(call[w].op) /\ call[w].op # "delete")
    /\ pc[w] = "begin" => Searches(call[w].op) /\ call[w].op # "delete"
    /\ pc[w] = "finish" => Searches(call[w].op) /\ call[w].op \notin {"delete", "public"}
    /\ pc[w] \in {"lock", "write"} => call[w].op \in {"generate", "delete", "close"}
    /\ pc[w] \in {"list", "nested", "list done"} => call[w].op = "list"
    /\ pc[w] # "idle" /\ Searches(call[w].op) => Aimed(w)
    /\ pc[w] # "idle" /\ call[w].op = "generate" => call[w].label \in Labels

\* The mutex is held exactly between the steps that take and release it.
Reads(w) == pc[w] \in {"begin", "finish", "list", "nested", "list done"}

Locked(w) ==
    /\ readers[w] = IF Reads(w) THEN 1 ELSE 0
    /\ writer = w <=> pc[w] = "write"

\* The steps between the beginning and the end of an operation of the session.
Amid(w) == pc[w] \in {"next", "final", "finish", "nested", "list done"}

\* Who is amid an operation finds it active, and on its own object: a search
\* as long as the session is open, the others always.
Owns(w) ==
    /\ pc[w] \in {"next", "final"} =>
           ~open \/ (active.kind = "find" /\ active.object \in {target[w], NoObject})
    /\ pc[w] = "finish" =>
           /\ active = [kind |-> "use", object |-> target[w]]
           /\ target[w] \in objects /\ open
    /\ pc[w] \in {"nested", "list done"} => active.kind = "list" /\ open

OneOperation == open => \A v, w \in Workers : Amid(v) /\ Amid(w) => v = w

ClosedSession == (open <=> ~closed) /\ (~open => active = Idle)

IInv ==
    /\ TypeOK
    /\ \A w \in Workers : Placed(w) /\ Locked(w) /\ Owns(w)
    /\ OneOperation /\ NoStrayOperation /\ ClosedSession

----------------------------------------------------------------------------
(* What one step of a goroutine leaves alone. *)

Act(w) == Start(w) \/ RLock(w) \/ Lock(w) \/ Step(w) \/ ListFails(w)

Alone(w) ==
    \A v \in Workers \ {w} :
        /\ pc'[v] = pc[v] /\ call'[v] = call[v]
        /\ target'[v] = target[v] /\ result'[v] = result[v]
        /\ readers'[v] = readers[v]
        /\ writer' = v <=> writer = v

\* The call returns: every goroutine but w is as before.
LEMMA ReturnAlone ==
    ASSUME TypeOK, NEW w \in Workers, NEW from, NEW r, Return(w, from, r)
    PROVE  Alone(w)
<1> SUFFICES ASSUME NEW v \in Workers \ {w}
             PROVE  /\ pc'[v] = pc[v] /\ call'[v] = call[v]
                    /\ target'[v] = target[v] /\ result'[v] = result[v]
                    /\ readers'[v] = readers[v]
                    /\ writer' = v <=> writer = v
  BY DEF Alone
<1>1. pc'[v] = pc[v] /\ call'[v] = call[v] /\ target'[v] = target[v] /\ readers'[v] = readers[v]
  BY DEF TypeOK, Return
<1>2. result'[v] = result[v]
  BY DEF TypeOK, Return
<1>3. writer' = v <=> writer = v
  BY NoWorkerAssumption DEF Return
<1>4. QED
  BY <1>1, <1>2, <1>3

\* A search that ends without its object is likewise a matter of w alone.
LEMMA GiveUpAlone ==
    ASSUME TypeOK, NEW w \in Workers, NEW from, GiveUpSearch(w, from)
    PROVE  Alone(w)
<1>1. CASE call[w].op = "delete" /\ target[w][2] = "priv"
  BY <1>1 DEF TypeOK, Alone, GiveUpSearch, Goto, mutex
<1>2. CASE ~(call[w].op = "delete" /\ target[w][2] = "priv")
  BY <1>2, ReturnAlone DEF GiveUpSearch
<1>3. QED
  BY <1>1, <1>2

\* So is every step of w.
LEMMA StepAlone ==
    ASSUME TypeOK, NEW w \in Workers, Act(w)
    PROVE  Alone(w)
<1>1. CASE Start(w) \/ RLock(w) \/ Lock(w)
  BY <1>1, NoWorkerAssumption DEF TypeOK, Alone, Start, RLock, Lock, Goto, mutex
<1>2. CASE FindInit(w) \/ FindNext(w) \/ FindFinal(w)
  BY <1>2 DEF TypeOK, Alone, FindInit, FindNext, FindFinal, Goto, mutex
<1>3. CASE FindInitFails(w) \/ FindNothing(w)
  BY <1>3, GiveUpAlone DEF FindInitFails, FindNothing
<1>4. CASE UseInit(w) \/ ListInit(w) \/ NestedSearch(w)
  BY <1>4 DEF TypeOK, Alone, UseInit, ListInit, NestedSearch, Goto, mutex
<1>5. CASE ReadAttribute(w) \/ UseInitFails(w) \/ UseFinish(w) \/ UseFinishFails(w)
             \/ ListInitFails(w) \/ ListFails(w) \/ ListDone(w)
  BY <1>5, ReturnAlone DEF ReadAttribute, UseInitFails, UseFinish, UseFinishFails,
                           ListInitFails, ListFails, ListDone
<1>6. CASE GenerateKeyPair(w) \/ DestroyObject(w) \/ WriteFails(w) \/ GenerateLeaks(w)
             \/ Close(w)
  BY <1>6, ReturnAlone DEF GenerateKeyPair, DestroyObject, WriteFails, GenerateLeaks, Close
<1>7. QED
  BY <1>1, <1>2, <1>3, <1>4, <1>5, <1>6 DEF Act, Step

----------------------------------------------------------------------------
(* What a step of a goroutine makes of itself. *)

\* The two halves of the type invariant: what a goroutine keeps, and the client.
Steps == {"idle", "search", "next", "final", "rlock", "lock", "begin", "finish", "write",
          "list", "nested", "list done"}

WorkersTyped ==
    /\ pc \in [Workers -> Steps]
    /\ call \in [Workers -> [op : Calls \cup {"none"}, label : Labels \cup {"none"}]]
    /\ target \in [Workers -> Objects \cup {NoObject}]
    /\ result \in [Workers -> {"none", "ok", "error"}]
    /\ readers \in [Workers -> 0..1]
    /\ writer \in Workers \cup {NoWorker}

Operation == [kind : {"none", "find", "list", "use"}, object : Objects \cup {NoObject}]

ClientTyped ==
    /\ objects \subseteq Objects /\ born \subseteq Labels
    /\ open \in BOOLEAN /\ loggedIn \in BOOLEAN /\ closed \in BOOLEAN
    /\ active \in Operation

\* Together they are the type invariant, before a step and after it.
LEMMA Halves == (TypeOK <=> WorkersTyped /\ ClientTyped) /\ (TypeOK' <=> WorkersTyped' /\ ClientTyped')
BY Zenon DEF TypeOK, WorkersTyped, ClientTyped, Steps, Operation

\* No operation is an operation.
LEMMA IdleTyped == Idle \in Operation
BY DEF Idle, Operation

\* A goroutine that returns is idle, holds nothing and has its answer.
LEMMA Returned ==
    ASSUME WorkersTyped, NEW w \in Workers, NEW from, NEW r \in {"ok", "error"},
           Return(w, from, r)
    PROVE  /\ WorkersTyped'
           /\ call' = call
           /\ pc[w] = from /\ pc'[w] = "idle" /\ result'[w] = r /\ target'[w] = NoObject
           /\ readers'[w] = 0 /\ writer' # w
<1>1. writer' \in Workers \cup {NoWorker} /\ writer' # w
  BY NoWorkerAssumption DEF WorkersTyped, Return
<1>2. pc' \in [Workers -> Steps] /\ pc[w] = from /\ pc'[w] = "idle"
  BY DEF WorkersTyped, Return, Steps
<1>3. target' \in [Workers -> Objects \cup {NoObject}] /\ target'[w] = NoObject
  BY DEF WorkersTyped, Return
<1>4. result' \in [Workers -> {"none", "ok", "error"}] /\ result'[w] = r
  BY DEF WorkersTyped, Return
<1>5. readers' \in [Workers -> 0..1] /\ readers'[w] = 0
  BY DEF WorkersTyped, Return
<1>6. call' = call /\ call' \in [Workers -> [op : Calls \cup {"none"}, label : Labels \cup {"none"}]]
  BY DEF WorkersTyped, Return
<1>7. QED
  BY <1>1, <1>2, <1>3, <1>4, <1>5, <1>6 DEF WorkersTyped

\* A goroutine that goes on does so with the call it has.
LEMMA Gone ==
    ASSUME WorkersTyped, NEW w \in Workers, NEW from, NEW to \in Steps, Goto(w, from, to)
    PROVE  /\ pc' \in [Workers -> Steps] /\ call' = call /\ result' = result
           /\ pc[w] = from /\ pc'[w] = to
           /\ call' \in [Workers -> [op : Calls \cup {"none"}, label : Labels \cup {"none"}]]
           /\ result' \in [Workers -> {"none", "ok", "error"}]
BY DEF WorkersTyped, Goto

\* DeleteKey's search goes on to the public key of the label; the others end.
LEMMA GaveUp ==
    ASSUME WorkersTyped, NEW w \in Workers, Placed(w), NEW from \in {"search", "next"},
           GiveUpSearch(w, from)
    PROVE  \/ Return(w, from, "error")
           \/ /\ call[w].op = "delete" /\ call[w].label \in Labels
              /\ target' = [target EXCEPT ![w] = <<call[w].label, "pub">>]
              /\ target'[w] = <<call[w].label, "pub">>
              /\ Goto(w, from, "search") /\ UNCHANGED <<readers, writer>>
<1> SUFFICES ASSUME call[w].op = "delete" /\ target[w][2] = "priv"
             PROVE  /\ call[w].op = "delete" /\ call[w].label \in Labels
                    /\ target' = [target EXCEPT ![w] = <<call[w].label, "pub">>]
                    /\ target'[w] = <<call[w].label, "pub">>
                    /\ Goto(w, from, "search") /\ UNCHANGED <<readers, writer>>
  BY DEF GiveUpSearch
<1>1. /\ target' = [target EXCEPT ![w] = <<call[w].label, "pub">>]
      /\ Goto(w, from, "search") /\ UNCHANGED <<readers, writer>>
  BY DEF GiveUpSearch, mutex
<1>2. pc[w] # "idle" /\ call[w].label \in Labels
  BY <1>1 DEF Goto, Placed, Aimed, Searches
<1>3. QED
  BY <1>1, <1>2 DEF WorkersTyped

\* A call begins with its search, for an object of the label, or at the mutex.
LEMMA Started ==
    ASSUME TypeOK, NEW w \in Workers, Start(w)
    PROVE  /\ WorkersTyped'
           /\ result'[w] = "none" /\ UNCHANGED <<readers, writer>>
           /\ pc[w] = "idle" /\ pc'[w] \in {"lock", "rlock", "search"}
           /\ pc'[w] = "search" => Searches(call'[w].op) /\ Aimed(w)'
           /\ pc'[w] = "lock" => call'[w].op \in {"generate", "close"}
           /\ pc'[w] = "rlock" => call'[w].op = "list"
           /\ call'[w].op = "generate" => call'[w].label \in Labels
<1>1. PICK op \in Calls :
        \E l \in CASE op = "generate"          -> Fresh
                   [] op \in {"list", "close"} -> {"none"}
                   [] OTHER                    -> born :
            /\ call' = [call EXCEPT ![w] = [op |-> op, label |-> l]]
            /\ pc' = [pc EXCEPT ![w] = FirstStep(op)]
            /\ target' = [target EXCEPT ![w] = IF FirstStep(op) = "search"
                                               THEN <<l, ClassOf(op)>> ELSE NoObject]
  BY DEF Start
<1>2. PICK l \in Labels \cup {"none"} :
            /\ op \notin {"list", "close"} => l \in Labels
            /\ call' = [call EXCEPT ![w] = [op |-> op, label |-> l]]
            /\ pc' = [pc EXCEPT ![w] = FirstStep(op)]
            /\ target' = [target EXCEPT ![w] = IF FirstStep(op) = "search"
                                               THEN <<l, ClassOf(op)>> ELSE NoObject]
  BY <1>1 DEF Fresh, TypeOK
<1>3. /\ FirstStep(op) \in {"lock", "rlock", "search"}
      /\ FirstStep(op) = "search" => Searches(op)
      /\ FirstStep(op) = "lock" => op \in {"generate", "close"}
      /\ FirstStep(op) = "rlock" => op = "list"
  BY CallsAssumption DEF FirstStep, Searches
<1>4. /\ pc' \in [Workers -> Steps]
      /\ call' \in [Workers -> [op : Calls \cup {"none"}, label : Labels \cup {"none"}]]
      /\ pc'[w] = FirstStep(op) /\ call'[w] = [op |-> op, label |-> l]
  BY <1>2, <1>3 DEF TypeOK, Steps
<1>5. /\ target' \in [Workers -> Objects \cup {NoObject}]
      /\ FirstStep(op) = "search" => target'[w] = <<l, ClassOf(op)>>
  BY <1>2, <1>3 DEF TypeOK, Objects, ClassOf, Searches
<1>6. /\ result' \in [Workers -> {"none", "ok", "error"}] /\ result'[w] = "none"
      /\ pc[w] = "idle" /\ UNCHANGED <<readers, writer>>
  BY DEF TypeOK, Start, mutex
<1>7. FirstStep(op) = "search" => Aimed(w)'
  BY <1>2, <1>3, <1>4, <1>5 DEF Aimed, ClassOf, Searches
<1>8. readers' \in [Workers -> 0..1] /\ writer' \in Workers \cup {NoWorker}
  BY <1>6 DEF TypeOK
<1>9. QED
  BY <1>2, <1>3, <1>4, <1>5, <1>6, <1>7, <1>8 DEF WorkersTyped

----------------------------------------------------------------------------
(* The steps that return, and those that go on. *)

Ends(w) ==
    \/ ReadAttribute(w) \/ UseInitFails(w) \/ UseFinish(w) \/ UseFinishFails(w)
    \/ ListInitFails(w) \/ ListFails(w) \/ ListDone(w)
    \/ GenerateKeyPair(w) \/ DestroyObject(w) \/ WriteFails(w) \/ GenerateLeaks(w) \/ Close(w)

SearchFails(w) == FindInitFails(w) \/ FindNothing(w)

GoesOn(w) ==
    \/ RLock(w) \/ Lock(w) \/ FindInit(w) \/ FindNext(w) \/ FindFinal(w)
    \/ UseInit(w) \/ ListInit(w) \/ NestedSearch(w)

\* That is every step there is.
LEMMA Acts == ASSUME NEW w \in Workers, Act(w) PROVE Start(w) \/ Ends(w) \/ SearchFails(w) \/ GoesOn(w)
BY DEF Act, Step, Ends, SearchFails, GoesOn

\* A step that ends is a return.
LEMMA EndsReturn ==
    ASSUME NEW w \in Workers, Ends(w)
    PROVE  \E from, r : r \in {"ok", "error"} /\ Return(w, from, r)
BY DEF Ends, ReadAttribute, UseInitFails, UseFinish, UseFinishFails, ListInitFails, ListFails,
       ListDone, GenerateKeyPair, DestroyObject, WriteFails, GenerateLeaks, Close

\* A step that goes on, but for those of the mutex, leaves the locks and the
\* target as they are.
LEMMA Going ==
    ASSUME TypeOK, NEW w \in Workers, Placed(w), Locked(w), Owns(w), GoesOn(w)
    PROVE  WorkersTyped' /\ Placed(w)' /\ Locked(w)'
<1> USE Halves
<1>1. CASE RLock(w)
  <2> DEFINE to == IF call[w].op = "list" THEN "list" ELSE "begin"
  <2>1. Goto(w, "rlock", to) /\ readers' = [readers EXCEPT ![w] = 1] /\ UNCHANGED <<writer, target>>
    BY <1>1 DEF RLock
  <2>2. to \in Steps
    BY DEF Steps
  <2>3. WorkersTyped' /\ call' = call /\ result' = result /\ pc[w] = "rlock" /\ pc'[w] = to
        /\ readers'[w] = 1
    BY <2>1, <2>2, Gone DEF WorkersTyped
  <2>4. Placed(w)'
    BY <2>1, <2>3 DEF Placed, Aimed, Searches
  <2>5. Locked(w)'
    BY <2>1, <2>3 DEF Locked, Reads
  <2>6. QED
    BY <2>3, <2>4, <2>5
<1>2. CASE Lock(w)
  <2>1. Goto(w, "lock", "write") /\ writer' = w /\ UNCHANGED <<readers, target>>
    BY <1>2 DEF Lock
  <2>2. WorkersTyped' /\ call' = call /\ result' = result /\ pc[w] = "lock" /\ pc'[w] = "write"
    BY <2>1, Gone DEF WorkersTyped, Steps
  <2>3. Placed(w)'
    BY <2>1, <2>2 DEF Placed, Aimed, Searches
  <2>4. Locked(w)'
    BY <2>1, <2>2 DEF Locked, Reads
  <2>5. QED
    BY <2>2, <2>3, <2>4
<1>3. ASSUME NEW from, NEW to \in Steps, Goto(w, from, to), UNCHANGED <<readers, writer, target>>,
             Reads(w) <=> to \in {"begin", "finish", "list", "nested", "list done"},
             from # "write", to # "write"
      PROVE  WorkersTyped' /\ Locked(w)' /\ UNCHANGED <<call, result, target>>
             /\ pc[w] = from /\ pc'[w] = to
  <2>1. /\ pc' \in [Workers -> Steps] /\ call' = call /\ result' = result
        /\ pc[w] = from /\ pc'[w] = to
    BY <1>3, Gone
  <2>2. QED
    BY <1>3, <2>1 DEF WorkersTyped, Locked, Reads
<1>4. CASE FindInit(w)
  <2>1. WorkersTyped' /\ Locked(w)' /\ UNCHANGED <<call, result, target>>
        /\ pc[w] = "search" /\ pc'[w] = "next"
    BY <1>4, <1>3 DEF FindInit, mutex, Steps, Reads, Goto
  <2>2. QED
    BY <2>1 DEF Placed, Aimed, Searches
<1>5. CASE FindNext(w)
  <2>1. pc[w] = "next" /\ target' = target
    BY <1>5 DEF FindNext, Goto, Owns, WorkersTyped
  <2>2. WorkersTyped' /\ Locked(w)' /\ UNCHANGED <<call, result, target>>
        /\ pc[w] = "next" /\ pc'[w] = "final"
    BY <1>5, <1>3, <2>1 DEF FindNext, mutex, Steps, Reads, Goto
  <2>3. QED
    BY <2>2 DEF Placed, Aimed, Searches
<1>6. CASE FindFinal(w)
  <2>1. /\ WorkersTyped' /\ Locked(w)' /\ UNCHANGED <<call, result, target>>
        /\ pc[w] = "final" /\ pc'[w] = IF call[w].op = "delete" THEN "lock" ELSE "rlock"
    BY <1>6, <1>3 DEF FindFinal, mutex, Steps, Reads, Goto
  <2>2. QED
    BY <2>1 DEF Placed, Aimed, Searches
<1>7. CASE UseInit(w)
  <2>1. WorkersTyped' /\ Locked(w)' /\ UNCHANGED <<call, result, target>>
        /\ pc[w] = "begin" /\ pc'[w] = "finish" /\ call[w].op # "public"
    BY <1>7, <1>3 DEF UseInit, mutex, Steps, Reads, Goto
  <2>2. QED
    BY <2>1 DEF Placed, Aimed, Searches
<1>8. CASE ListInit(w) \/ NestedSearch(w)
  <2>1. WorkersTyped' /\ Locked(w)' /\ UNCHANGED <<call, result, target>>
        /\ pc[w] \in {"list", "nested"} /\ pc'[w] \in {"nested", "list done"}
    BY <1>8, <1>3 DEF ListInit, NestedSearch, mutex, Steps, Reads, Goto
  <2>2. QED
    BY <2>1 DEF Placed, Aimed, Searches
<1>9. QED
  BY <1>1, <1>2, <1>4, <1>5, <1>6, <1>7, <1>8 DEF GoesOn

\* So does every step: a goroutine stays where its call may be.
LEMMA StepPlaced ==
    ASSUME TypeOK, NEW w \in Workers, Placed(w), Locked(w), Owns(w), Act(w)
    PROVE  WorkersTyped' /\ Placed(w)' /\ Locked(w)'
<1> USE Halves
<1>1. CASE Start(w)
  <2>1. Placed(w)'
    BY <1>1, Started DEF Placed, Searches
  <2>2. Locked(w)'
    BY <1>1, Started DEF Locked, Reads
  <2>3. QED
    BY <1>1, <2>1, <2>2, Started
<1>2. ASSUME NEW from, NEW r \in {"ok", "error"}, Return(w, from, r)
      PROVE  WorkersTyped' /\ Placed(w)' /\ Locked(w)'
  BY <1>2, Returned DEF Placed, Locked, Reads
<1>3. CASE Ends(w)
  BY <1>2, <1>3, EndsReturn
<1>4. CASE SearchFails(w)
  <2>1. PICK from \in {"search", "next"} : GiveUpSearch(w, from)
    BY <1>4 DEF SearchFails, FindInitFails, FindNothing
  <2>2. CASE Return(w, from, "error")
    BY <1>2, <2>2
  <2>3. CASE /\ call[w].op = "delete" /\ call[w].label \in Labels
             /\ target' = [target EXCEPT ![w] = <<call[w].label, "pub">>]
             /\ target'[w] = <<call[w].label, "pub">>
             /\ Goto(w, from, "search") /\ UNCHANGED <<readers, writer>>
    <3>1. call' = call /\ result' = result /\ pc[w] = from /\ pc'[w] = "search"
          /\ pc' \in [Workers -> Steps]
      BY <2>3, Gone DEF Steps
    <3>2. WorkersTyped'
      BY <2>3, <3>1 DEF WorkersTyped, Objects
    <3>3. Placed(w)'
      BY <2>3, <3>1 DEF Placed, Aimed, Searches
    <3>4. Locked(w)'
      BY <2>3, <3>1 DEF Locked, Reads
    <3>5. QED
      BY <3>2, <3>3, <3>4
  <2>4. QED
    BY <2>1, <2>2, <2>3, GaveUp
<1>5. CASE GoesOn(w)
  BY <1>5, Going
<1>6. QED
  BY <1>1, <1>3, <1>4, <1>5, Acts

----------------------------------------------------------------------------
(* What a step does to the session. *)

\* The objects that are in use stay.
Kept == \A v \in Workers : pc[v] = "finish" => target[v] \in objects'

Keeps(w) == UNCHANGED <<active, open, closed>> /\ (Amid(w)' <=> Amid(w))

Begins(w) == open /\ active = Idle /\ Amid(w)' /\ UNCHANGED <<open, closed>>

Finishes(w) == Amid(w) /\ ~Amid(w)' /\ active' = Idle /\ UNCHANGED <<open, closed>>

Closes(w) == Exclusive(w) /\ ~Amid(w)' /\ active' = Idle /\ ~open' /\ closed'

\* Nobody is in the middle of a signature while the mutex is held exclusively.
LEMMA NobodyReads ==
    ASSUME NEW w \in Workers, Exclusive(w), NEW v \in Workers, Locked(v)
    PROVE  ~Reads(v)
BY DEF Exclusive, Locked

\* A step that is not one of the session's leaves it alone.
LEMMA StepKeeps ==
    ASSUME IInv, NEW w \in Workers,
           \/ Start(w) \/ RLock(w) \/ Lock(w) \/ FindInitFails(w) \/ FindNext(w)
           \/ ReadAttribute(w) \/ UseInitFails(w) \/ ListInitFails(w) \/ NestedSearch(w)
    PROVE  ClientTyped' /\ Kept /\ Owns(w)' /\ Keeps(w)
<1>1. TypeOK /\ Placed(w) /\ Locked(w) /\ Owns(w) /\ WorkersTyped /\ ClientTyped
  BY Halves DEF IInv
<1>2. UNCHANGED <<session, active, closed>>
  BY DEF Start, RLock, Lock, FindInitFails, FindNext, ReadAttribute, UseInitFails,
         ListInitFails, NestedSearch
<1>3. ClientTyped' /\ Kept
  BY <1>1, <1>2 DEF ClientTyped, Kept, session, IInv, Owns
<1>4. CASE Start(w)
  BY <1>1, <1>2, <1>3, <1>4, Started DEF Owns, Keeps, Amid, session
<1>5. CASE ReadAttribute(w) \/ UseInitFails(w) \/ ListInitFails(w)
  <2>1. \E r \in {"ok", "error"}, from \in {"begin", "list"} : Return(w, from, r)
    BY <1>5 DEF ReadAttribute, UseInitFails, ListInitFails
  <2>2. pc[w] \in {"begin", "list"} /\ pc'[w] = "idle"
    BY <1>1, <2>1, Returned
  <2>3. QED
    BY <1>2, <1>3, <2>2 DEF Owns, Keeps, Amid, session
<1>6. CASE FindInitFails(w)
  <2>1. pc[w] = "search" /\ pc'[w] \in {"idle", "search"}
    BY <1>1, <1>6 DEF FindInitFails, GiveUpSearch, Goto, Return, WorkersTyped
  <2>2. QED
    BY <1>2, <1>3, <2>1 DEF Owns, Keeps, Amid, session
<1>7. CASE RLock(w) \/ Lock(w)
  <2>1. pc[w] \in {"rlock", "lock"} /\ pc'[w] \in {"list", "begin", "write"}
    BY <1>1, <1>7 DEF RLock, Lock, Goto, WorkersTyped
  <2>2. QED
    BY <1>2, <1>3, <2>1 DEF Owns, Keeps, Amid, session
<1>8. CASE FindNext(w)
  <2>1. pc[w] = "next" /\ pc'[w] = "final" /\ target' = target
    BY <1>1, <1>8 DEF FindNext, Goto, Owns, WorkersTyped
  <2>2. QED
    BY <1>1, <1>2, <1>3, <2>1 DEF Owns, Keeps, Amid, session
<1>9. CASE NestedSearch(w)
  <2>1. pc[w] = "nested" /\ pc'[w] = "list done" /\ target' = target
    BY <1>1, <1>9 DEF NestedSearch, Goto, WorkersTyped
  <2>2. QED
    BY <1>1, <1>2, <1>3, <2>1 DEF Owns, Keeps, Amid, session
<1>10. QED
  BY <1>3, <1>4, <1>5, <1>6, <1>7, <1>8, <1>9

\* FindObjectsInit, SignInit and their like begin an operation.
LEMMA StepBegins ==
    ASSUME IInv, NEW w \in Workers, FindInit(w) \/ UseInit(w) \/ ListInit(w)
    PROVE  ClientTyped' /\ Kept /\ Owns(w)' /\ Begins(w)
<1>1. TypeOK /\ Placed(w) /\ Owns(w) /\ WorkersTyped /\ ClientTyped
  BY Halves DEF IInv
<1>2. UNCHANGED <<session, closed, target>> /\ open /\ active = Idle
  BY DEF FindInit, UseInit, ListInit
<1>3. active' \in Operation
  BY <1>1 DEF FindInit, UseInit, ListInit, Operation, WorkersTyped
<1>4. ClientTyped' /\ Kept
  BY <1>1, <1>2, <1>3 DEF ClientTyped, Kept, session, IInv, Owns
<1>5. CASE FindInit(w)
  <2>1. pc'[w] = "next" /\ active'.kind = "find" /\ active'.object \in {target[w], NoObject}
    BY <1>1, <1>5 DEF FindInit, Goto, WorkersTyped
  <2>2. QED
    BY <1>2, <1>4, <2>1 DEF Owns, Begins, Amid, session
<1>6. CASE UseInit(w)
  <2>1. /\ pc'[w] = "finish" /\ active' = [kind |-> "use", object |-> target[w]]
        /\ target[w] \in objects
    BY <1>1, <1>6 DEF UseInit, Goto, WorkersTyped, Visible
  <2>2. QED
    BY <1>2, <1>4, <2>1 DEF Owns, Begins, Amid, session
<1>7. CASE ListInit(w)
  <2>1. pc'[w] = "nested" /\ active'.kind = "list"
    BY <1>1, <1>7 DEF ListInit, Goto, WorkersTyped
  <2>2. QED
    BY <1>2, <1>4, <2>1 DEF Owns, Begins, Amid, session
<1>8. QED
  BY <1>5, <1>6, <1>7

\* Whoever is in the middle of an operation ends it on every way out.
LEMMA StepFinishes ==
    ASSUME IInv, NEW w \in Workers,
           \/ FindNothing(w) \/ FindFinal(w) \/ UseFinish(w) \/ UseFinishFails(w)
           \/ ListFails(w) \/ ListDone(w)
    PROVE  ClientTyped' /\ Kept /\ Owns(w)' /\ Finishes(w)
<1>1. TypeOK /\ Placed(w) /\ Owns(w) /\ WorkersTyped /\ ClientTyped /\ ClosedSession
  BY Halves DEF IInv
<1>2. UNCHANGED <<session, closed>>
  BY DEF FindNothing, FindFinal, UseFinish, UseFinishFails, ListFails, ListDone
<1>3. CASE FindNothing(w) \/ FindFinal(w)
  <2>1. pc[w] \in {"next", "final"} /\ pc'[w] \in {"idle", "search", "lock", "rlock"}
    BY <1>1, <1>3 DEF FindNothing, FindFinal, GiveUpSearch, Goto, Return, WorkersTyped
  <2>2. active' = Idle
    BY <1>1, <1>3, <2>1 DEF FindNothing, FindFinal, EndSearch, Owns, ClosedSession
  <2>3. QED
    BY <1>1, <1>2, <2>1, <2>2, IdleTyped DEF ClientTyped, Kept, session, IInv, Owns, Finishes, Amid
<1>4. CASE UseFinish(w) \/ UseFinishFails(w)
  <2>1. pc[w] = "finish" /\ pc'[w] = "idle"
    BY <1>1, <1>4 DEF UseFinish, UseFinishFails, Return, WorkersTyped
  <2>2. active' = Idle
    BY <1>1, <1>4, <2>1 DEF UseFinish, UseFinishFails, Owns
  <2>3. QED
    BY <1>1, <1>2, <2>1, <2>2, IdleTyped DEF ClientTyped, Kept, session, IInv, Owns, Finishes, Amid
<1>5. CASE ListFails(w) \/ ListDone(w)
  <2>1. pc[w] \in {"nested", "list done"} /\ pc'[w] = "idle"
    BY <1>1, <1>5 DEF ListFails, ListDone, Return, WorkersTyped
  <2>2. active' = Idle
    BY <1>1, <1>5, <2>1 DEF ListFails, ListDone, EndSearch, Owns
  <2>3. QED
    BY <1>1, <1>2, <2>1, <2>2, IdleTyped DEF ClientTyped, Kept, session, IInv, Owns, Finishes, Amid
<1>6. QED
  BY <1>3, <1>4, <1>5

\* Under the exclusive lock objects come and go and the session may be closed,
\* but nobody is in the middle of a signature.
LEMMA StepWrites ==
    ASSUME IInv, NEW w \in Workers,
           \/ GenerateKeyPair(w) \/ DestroyObject(w) \/ WriteFails(w) \/ GenerateLeaks(w)
           \/ Close(w)
    PROVE  ClientTyped' /\ Kept /\ Owns(w)' /\ (Keeps(w) \/ Closes(w))
<1>1. TypeOK /\ Placed(w) /\ Owns(w) /\ WorkersTyped /\ ClientTyped
  BY Halves DEF IInv
<1>2. Exclusive(w) /\ \E r \in {"ok", "error"} : Return(w, "write", r)
  BY DEF GenerateKeyPair, DestroyObject, WriteFails, GenerateLeaks, Close
<1>3. pc[w] = "write" /\ pc'[w] = "idle"
  BY <1>1, <1>2, Returned
<1>4. Kept
  BY <1>2, NobodyReads DEF Kept, IInv, Reads
<1>5. call[w].op = "generate" => call[w].label \in Labels
  BY <1>1, <1>3 DEF Placed
<1>6. objects' \subseteq Objects /\ born' \subseteq Labels
  <2>1. CASE GenerateKeyPair(w)
    BY <1>1, <1>5, <2>1 DEF GenerateKeyPair, ClientTyped, Objects
  <2>2. CASE DestroyObject(w) \/ WriteFails(w) \/ Close(w)
    BY <1>1, <2>2 DEF DestroyObject, WriteFails, Close, ClientTyped, session
  <2>3. CASE GenerateLeaks(w)
    BY <1>1, <1>5, <2>3 DEF GenerateLeaks, ClientTyped, Objects
  <2>4. QED
    BY <2>1, <2>2, <2>3
<1>7. CASE Close(w)
  <2>1. closed' = TRUE /\ open' = FALSE /\ loggedIn' = FALSE /\ active' = Idle
    BY <1>7 DEF Close
  <2>2. QED
    BY <1>2, <1>3, <1>4, <1>6, <2>1, IdleTyped DEF ClientTyped, Owns, Closes, Amid
<1>8. CASE ~Close(w)
  <2>1. UNCHANGED <<open, loggedIn, active, closed>>
    BY <1>8 DEF GenerateKeyPair, DestroyObject, WriteFails, GenerateLeaks, session
  <2>2. QED
    BY <1>1, <1>3, <1>4, <1>6, <2>1 DEF ClientTyped, Owns, Keeps, Amid
<1>9. QED
  BY <1>7, <1>8

\* Each step does one of these to the session.
LEMMA StepSession ==
    ASSUME IInv, NEW w \in Workers, Act(w)
    PROVE  /\ ClientTyped' /\ Kept /\ Owns(w)'
           /\ Keeps(w) \/ Begins(w) \/ Finishes(w) \/ Closes(w)
BY StepKeeps, StepBegins, StepFinishes, StepWrites DEF Act, Step

\* What becomes of the others: they keep their operation, if they have one.
LEMMA OthersOwn ==
    ASSUME IInv, NEW w \in Workers, Act(w), NEW v \in Workers \ {w}
    PROVE  Placed(v)' /\ Locked(v)' /\ Owns(v)'
<1>1. Placed(v) /\ Locked(v) /\ Owns(v) /\ OneOperation /\ Alone(w)
  BY StepAlone DEF IInv
<1>2. /\ pc'[v] = pc[v] /\ call'[v] = call[v]
      /\ target'[v] = target[v] /\ result'[v] = result[v]
      /\ readers'[v] = readers[v]
      /\ writer' = v <=> writer = v
  BY <1>1 DEF Alone
<1>3. Placed(v)'
  BY <1>1, <1>2 DEF Placed, Aimed
<1>4. Locked(v)'
  BY <1>1, <1>2 DEF Locked, Reads
<1>5. Kept /\ (Keeps(w) \/ Begins(w) \/ Finishes(w) \/ Closes(w))
  BY StepSession
<1>6. CASE Keeps(w)
  BY <1>1, <1>2, <1>3, <1>4, <1>5, <1>6 DEF Keeps, Owns, Kept
<1>7. CASE Begins(w)
  <2>1. ~Amid(v)
    BY <1>1, <1>7 DEF Begins, Owns, Amid, Idle
  <2>2. QED
    BY <1>2, <1>3, <1>4, <2>1 DEF Amid, Owns
<1>8. CASE Finishes(w)
  <2>1. ~open \/ ~Amid(v)
    BY <1>1, <1>8 DEF Finishes, OneOperation
  <2>2. QED
    BY <1>1, <1>2, <1>3, <1>4, <1>8, <2>1 DEF Finishes, Amid, Owns
<1>9. CASE Closes(w)
  <2>1. ~Reads(v)
    BY <1>1, <1>9, NobodyReads DEF Closes
  <2>2. QED
    BY <1>2, <1>3, <1>4, <1>9, <2>1 DEF Closes, Reads, Owns
<1>10. QED
  BY <1>5, <1>6, <1>7, <1>8, <1>9

\* The session has one operation at a time, and somebody who will end it.
LEMMA StepOne ==
    ASSUME IInv, NEW w \in Workers, Act(w)
    PROVE  OneOperation' /\ NoStrayOperation' /\ ClosedSession'
<1>1. OneOperation /\ NoStrayOperation /\ ClosedSession /\ \A v \in Workers : Owns(v)
  BY DEF IInv
<1>2. \A v \in Workers \ {w} : Amid(v)' <=> Amid(v)
  BY StepAlone DEF IInv, Alone, Amid
<1>3. Keeps(w) \/ Begins(w) \/ Finishes(w) \/ Closes(w)
  BY StepSession
<1>4. NoStrayOperation <=> (active # Idle => \E v \in Workers : Amid(v))
  BY DEF NoStrayOperation, Amid
<1>5. NoStrayOperation' <=> (active' # Idle => \E v \in Workers : Amid(v)')
  BY DEF NoStrayOperation, Amid, Idle, NoObject
<1>6. CASE Keeps(w)
  <2>1. \A v \in Workers : Amid(v)' <=> Amid(v)
    BY <1>2, <1>6 DEF Keeps
  <2>2. OneOperation'
    BY <1>1, <1>6, <2>1, Zenon DEF OneOperation, Keeps
  <2>3. NoStrayOperation'
    BY <1>1, <1>4, <1>5, <1>6, <2>1 DEF Keeps
  <2>4. ClosedSession'
    BY <1>1, <1>6 DEF ClosedSession, Keeps, Idle, NoObject
  <2>5. QED
    BY <2>2, <2>3, <2>4
<1>7. CASE Begins(w)
  <2>1. \A v \in Workers : ~Amid(v)
    BY <1>1, <1>7 DEF Begins, Owns, Amid, Idle
  <2>2. \A v \in Workers \ {w} : ~Amid(v)'
    BY <1>2, <2>1
  <2>3. OneOperation'
    BY <2>2, Zenon DEF OneOperation
  <2>4. NoStrayOperation' /\ ClosedSession'
    BY <1>1, <1>5, <1>7 DEF Begins, ClosedSession
  <2>5. QED
    BY <2>3, <2>4
<1>8. CASE Finishes(w)
  <2>1. OneOperation'
    BY <1>1, <1>2, <1>8, Zenon DEF OneOperation, Finishes
  <2>2. NoStrayOperation' /\ ClosedSession'
    BY <1>1, <1>5, <1>8 DEF Finishes, ClosedSession, Idle, NoObject
  <2>3. QED
    BY <2>1, <2>2
<1>9. CASE Closes(w)
  BY <1>5, <1>9 DEF Closes, OneOperation, ClosedSession, Idle, NoObject
<1>10. QED
  BY <1>3, <1>6, <1>7, <1>8, <1>9

----------------------------------------------------------------------------
(* The invariant is inductive. *)

LEMMA InitInv == Init => IInv
<1> SUFFICES ASSUME Init PROVE IInv
  OBVIOUS
<1>1. TypeOK
  <2>1. ClientTyped
    BY IdleTyped DEF Init, ClientTyped
  <2>2. call \in [Workers -> [op : Calls \cup {"none"}, label : Labels \cup {"none"}]]
    BY DEF Init
  <2>3. pc \in [Workers -> Steps] /\ target \in [Workers -> Objects \cup {NoObject}]
    BY DEF Init, Steps
  <2>4. /\ result \in [Workers -> {"none", "ok", "error"}] /\ readers \in [Workers -> 0..1]
        /\ writer \in Workers \cup {NoWorker}
    BY DEF Init
  <2>5. QED
    BY <2>1, <2>2, <2>3, <2>4, Halves DEF WorkersTyped
<1>2. ASSUME NEW w \in Workers PROVE Placed(w) /\ Locked(w) /\ Owns(w) /\ ~Amid(w)
  BY NoWorkerAssumption DEF Init, Placed, Locked, Reads, Owns, Amid, Searches
<1>3. OneOperation /\ NoStrayOperation /\ ClosedSession
  BY <1>2 DEF OneOperation, NoStrayOperation, ClosedSession, Init
<1>4. QED
  BY <1>1, <1>2, <1>3 DEF IInv

\* Every step keeps the invariant: of its own goroutine, of the others, of the
\* session.
LEMMA StepInv == ASSUME IInv, [Next]_vars PROVE IInv'
<1>1. ASSUME NEW w \in Workers, Act(w) PROVE IInv'
  <2>1. TypeOK /\ Placed(w) /\ Locked(w) /\ Owns(w)
    BY DEF IInv
  <2>2. WorkersTyped' /\ Placed(w)' /\ Locked(w)'
    BY <1>1, <2>1, StepPlaced
  <2>3. ClientTyped' /\ Owns(w)'
    BY <1>1, StepSession
  <2>4. TypeOK'
    BY <2>2, <2>3, Halves
  <2>5. \A v \in Workers \ {w} : Placed(v)' /\ Locked(v)' /\ Owns(v)'
    BY <1>1, OthersOwn
  <2>6. \A v \in Workers : (Placed(v) /\ Locked(v) /\ Owns(v))'
    BY <2>2, <2>3, <2>5
  <2>7. OneOperation' /\ NoStrayOperation' /\ ClosedSession'
    BY <1>1, StepOne
  <2>8. QED
    BY <2>4, <2>6, <2>7 DEF IInv
<1>2. CASE LogoutElsewhere
  <2>1. loggedIn' = FALSE
        /\ UNCHANGED <<objects, open, active, readers, writer, closed, pc, call, target, result, born>>
    BY <1>2 DEF LogoutElsewhere, mutex
  <2>2. TypeOK'
    BY <2>1, Halves DEF IInv, WorkersTyped, ClientTyped
  <2>3. ASSUME NEW v \in Workers PROVE (Placed(v) /\ Locked(v) /\ Owns(v))'
    BY <2>1 DEF IInv, Placed, Aimed, Locked, Reads, Owns
  <2>4. OneOperation' /\ NoStrayOperation' /\ ClosedSession'
    BY <2>1 DEF IInv, OneOperation, Amid, NoStrayOperation, ClosedSession, Idle, NoObject
  <2>5. QED
    BY <2>2, <2>3, <2>4 DEF IInv
<1>3. CASE UNCHANGED vars
  <2>1. UNCHANGED <<objects, open, loggedIn, active, readers, writer, closed, pc, call, target,
                    result, born>>
    BY <1>3 DEF vars
  <2>2. TypeOK'
    BY <2>1, Halves DEF IInv, WorkersTyped, ClientTyped
  <2>3. ASSUME NEW v \in Workers PROVE (Placed(v) /\ Locked(v) /\ Owns(v))'
    BY <2>1 DEF IInv, Placed, Aimed, Locked, Reads, Owns
  <2>4. OneOperation' /\ NoStrayOperation' /\ ClosedSession'
    BY <2>1 DEF IInv, OneOperation, Amid, NoStrayOperation, ClosedSession, Idle, NoObject
  <2>5. QED
    BY <2>2, <2>3, <2>4 DEF IInv
<1>4. QED
  BY <1>1, <1>2, <1>3 DEF Next, Act

\* It holds always.
LEMMA Invariance == Spec => []IInv
<1>1. IInv /\ [Next]_vars => IInv'
  BY StepInv
<1>2. QED
  BY InitInv, <1>1, PTL DEF Spec

----------------------------------------------------------------------------
(* What the invariant says of the program. *)

\* The type invariant holds of every behaviour.
THEOREM TypeCorrect == Spec => []TypeOK
<1>1. IInv => TypeOK
  BY DEF IInv
<1>2. QED
  BY Invariance, <1>1, PTL

\* The session's operation is that of the goroutine in the middle of it: no
\* FindObjects returns another caller's handle and no Sign uses another's key,
\* although searches by label run without the mutex.
THEOREM OwnOperationAlways == Spec => []OwnOperation
<1>1. IInv => OwnOperation
  BY DEF IInv, OwnOperation, Owns
<1>2. QED
  BY Invariance, <1>1, PTL

\* Every way out of a call ends the operation it began, so that none is left to
\* refuse the calls that come after.
THEOREM NoStrayOperationAlways == Spec => []NoStrayOperation
<1>1. IInv => NoStrayOperation
  BY DEF IInv
<1>2. QED
  BY Invariance, <1>1, PTL

\* Neither DeleteKey nor Close gets between the Init of a signature and its
\* end: the key is on the token and the session open.
THEOREM KeyHeldAlways == Spec => []KeyHeldWhileUsed
<1>1. IInv => KeyHeldWhileUsed
  BY DEF IInv, KeyHeldWhileUsed, Owns, ClosedSession
<1>2. QED
  BY Invariance, <1>1, PTL

----------------------------------------------------------------------------
(* The client implements HsmToken. *)

\* A return with an error is the abstract failure, if the token is left alone.
LEMMA FailStep ==
    ASSUME TypeOK, NEW w \in Workers, Placed(w), NEW from, from # "idle",
           Return(w, from, "error"), UNCHANGED <<objects, closed>>
    PROVE  Token!Next
<1>1. result[w] = "none" /\ result' = [result EXCEPT ![w] = "error"] /\ UNCHANGED call
  BY DEF Return, Placed
<1>2. Token!Fail(w)
  BY <1>1 DEF Token!Fail, Token!Answer
<1>3. QED
  BY <1>2 DEF Token!Next

\* A return with success is the abstract answer, whatever it does to the token.
LEMMA AnswerStep ==
    ASSUME TypeOK, NEW w \in Workers, Placed(w), NEW from, from # "idle", NEW r,
           Return(w, from, r)
    PROVE  Token!Answer(w, r)
BY DEF Return, Placed, Token!Answer

\* A step that changes neither the token nor an answer is nothing to a caller.
LEMMA StutterStep ==
    ASSUME UNCHANGED <<objects, closed, call, result>>
    PROVE  UNCHANGED Token!vars
BY DEF Token!vars

\* Each step of a goroutine is one of the promised steps, or none.
LEMMA TokenStep ==
    ASSUME IInv, NEW w \in Workers, Act(w)
    PROVE  [Token!Next]_(Token!vars)
<1>i. TypeOK /\ Placed(w) /\ Owns(w) /\ ClosedSession /\ WorkersTyped
  BY Halves DEF IInv
<1>1. CASE Start(w)
  <2>1. PICK op \in Calls, l \in Labels \cup {"none"} :
           call' = [call EXCEPT ![w] = [op |-> op, label |-> l]]
    BY <1>1, <1>i DEF Start, Fresh, TypeOK
  <2>2. op \in {"generate", "delete", "sign", "verify", "encrypt", "decrypt", "public",
                "list", "close"}
    BY CallsAssumption
  <2>3. result[w] # "none" /\ result' = [result EXCEPT ![w] = "none"]
        /\ UNCHANGED <<objects, closed>>
    BY <1>1, <1>i DEF Start, Placed, session
  <2>4. Token!Ask(w)
    BY <2>1, <2>2, <2>3 DEF Token!Ask
  <2>5. QED
    BY <2>4 DEF Token!Next
<1>2. CASE GoesOn(w)
  <2>1. UNCHANGED <<objects, closed, call, result>>
    BY <1>2 DEF GoesOn, RLock, Lock, FindInit, FindNext, FindFinal, UseInit, ListInit,
                NestedSearch, Goto, session
  <2>2. QED
    BY <2>1, StutterStep
<1>3. CASE SearchFails(w)
  <2>1. PICK from \in {"search", "next"} : GiveUpSearch(w, from)
    BY <1>3 DEF SearchFails, FindInitFails, FindNothing
  <2>2. UNCHANGED <<objects, closed>>
    BY <1>3 DEF SearchFails, FindInitFails, FindNothing, session
  <2>3. CASE Return(w, from, "error")
    BY <1>i, <2>2, <2>3, FailStep
  <2>4. CASE Goto(w, from, "search")
    BY <2>2, <2>4, StutterStep DEF Goto
  <2>5. QED
    BY <1>i, <2>1, <2>3, <2>4, GaveUp
<1>4. CASE UseInitFails(w) \/ UseFinishFails(w) \/ ListInitFails(w) \/ ListFails(w)
             \/ WriteFails(w)
  <2>1. UNCHANGED <<objects, closed>>
    BY <1>4 DEF UseInitFails, UseFinishFails, ListInitFails, ListFails, WriteFails, session
  <2>2. \E from \in {"begin", "finish", "list", "nested", "write"} : Return(w, from, "error")
    BY <1>4 DEF UseInitFails, UseFinishFails, ListInitFails, ListFails, WriteFails
  <2>3. QED
    BY <1>i, <2>1, <2>2, FailStep
<1>5. CASE ReadAttribute(w)
  <2>1. /\ call[w].op = "public" /\ open /\ target[w] \in objects
        /\ Return(w, "begin", "ok") /\ UNCHANGED <<objects, closed>>
    BY <1>5 DEF ReadAttribute, session
  <2>2. target[w] = <<call[w].label, "pub">>
    BY <1>i, <2>1 DEF Return, Placed, Searches, Aimed, ClassOf, Private
  <2>3. Token!Use(w)
    BY <1>i, <2>1, <2>2, AnswerStep DEF Token!Use, ClosedSession
  <2>4. QED
    BY <2>3 DEF Token!Next
<1>6. CASE UseFinish(w)
  <2>1. /\ active.kind = "use" /\ UNCHANGED <<objects, closed>>
        /\ Return(w, "finish", IF active.object = target[w] THEN "ok" ELSE "error")
        /\ pc[w] = "finish"
    BY <1>6 DEF UseFinish, Return, session
  <2>2. Return(w, "finish", "ok") /\ target[w] \in objects /\ ~closed
    BY <1>i, <2>1 DEF Owns, ClosedSession
  <2>3. /\ call[w].op \in {"sign", "verify", "encrypt", "decrypt"}
        /\ target[w] = <<call[w].label, ClassOf(call[w].op)>>
    BY <1>i, <2>1 DEF Placed, Searches, Aimed
  <2>4. Token!Use(w)
    BY <1>i, <2>1, <2>2, <2>3, AnswerStep DEF Token!Use, ClassOf, Private
  <2>5. QED
    BY <2>4 DEF Token!Next
<1>7. CASE ListDone(w)
  <2>1. Return(w, "list done", "ok") /\ UNCHANGED <<objects, closed>> /\ pc[w] = "list done"
    BY <1>7 DEF ListDone, Return, session
  <2>2. call[w].op = "list" /\ ~closed
    BY <1>i, <2>1 DEF Placed, Owns, ClosedSession
  <2>3. Token!List(w)
    BY <1>i, <2>1, <2>2, AnswerStep DEF Token!List
  <2>4. QED
    BY <2>3 DEF Token!Next
<1>8. CASE GenerateKeyPair(w)
  <2>1. /\ call[w].op = "generate" /\ ~closed /\ Return(w, "write", "ok") /\ UNCHANGED closed
        /\ objects' = objects \cup {<<call[w].label, "priv">>, <<call[w].label, "pub">>}
    BY <1>8 DEF GenerateKeyPair
  <2>2. Token!Generate(w)
    BY <1>i, <2>1, AnswerStep DEF Token!Generate, Token!Pair
  <2>3. QED
    BY <2>2 DEF Token!Next
<1>9. CASE GenerateLeaks(w)
  <2>1. /\ call[w].op = "generate" /\ ~closed /\ Return(w, "write", "error") /\ UNCHANGED closed
        /\ \E left \in SUBSET Token!Pair(call[w].label) : objects' = objects \cup left
    BY <1>9 DEF GenerateLeaks, Token!Pair
  <2>2. Token!Litter(w)
    BY <1>i, <2>1, AnswerStep DEF Token!Litter
  <2>3. QED
    BY <2>2 DEF Token!Next
<1>10. CASE DestroyObject(w)
  <2>1. /\ call[w].op = "delete" /\ ~closed /\ Return(w, "write", "ok") /\ UNCHANGED closed
        /\ target[w] \in objects /\ objects' = objects \ {target[w]} /\ pc[w] = "write"
    BY <1>10 DEF DestroyObject, Visible, Return
  <2>2. target[w] \in Token!Pair(call[w].label)
    BY <1>i, <2>1 DEF Placed, Searches, Aimed, Token!Pair
  <2>3. Token!Delete(w)
    BY <1>i, <2>1, <2>2, AnswerStep DEF Token!Delete
  <2>4. QED
    BY <2>3 DEF Token!Next
<1>11. CASE Close(w)
  <2>1. call[w].op = "close" /\ Return(w, "write", "ok") /\ closed' = TRUE /\ UNCHANGED objects
    BY <1>11 DEF Close
  <2>2. Token!Close(w)
    BY <1>i, <2>1, AnswerStep DEF Token!Close
  <2>3. QED
    BY <2>2 DEF Token!Next
<1>12. QED
  BY <1>1, <1>2, <1>3, <1>4, <1>5, <1>6, <1>7, <1>8, <1>9, <1>10, <1>11, Acts DEF Ends

\* Whatever fails, and however the calls interleave on the one session, each
\* takes effect on the token in one instant or returns an error and has none,
\* and none succeeds once the client is closed.
THEOREM Refinement == Spec => ImplementsHsmToken
<1>1. Init => Token!Init
  BY DEF Init, Token!Init
<1>2. IInv /\ [Next]_vars => [Token!Next]_(Token!vars)
  <2> SUFFICES ASSUME IInv, [Next]_vars PROVE [Token!Next]_(Token!vars)
    OBVIOUS
  <2>1. CASE UNCHANGED vars
    BY <2>1, StutterStep DEF vars
  <2>2. CASE LogoutElsewhere
    BY <2>2, StutterStep DEF LogoutElsewhere
  <2>3. QED
    BY <2>1, <2>2, TokenStep DEF Next, Act
<1>3. QED
  BY Invariance, <1>1, <1>2, PTL DEF Spec, ImplementsHsmToken, Token!Spec
=============================================================================
