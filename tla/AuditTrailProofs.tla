-------------------------- MODULE AuditTrailProofs --------------------------
(***************************************************************************)
(* Proofs about AuditTrail, for any number of requests and workers and any  *)
(* size of the buffer: where an event is, and that its fate is sealed once. *)
(***************************************************************************)
EXTENDS AuditTrail, TLAPS, SequenceTheorems

----------------------------------------------------------------------------
(* The inductive invariant. *)

In(x, s) == \E i \in 1..Len(s) : s[i] = x
OnceEach(s) == \A i, j \in 1..Len(s) : s[i] = s[j] => i = j

Held(e) == \E w \in Loops : hold[w] = e
Sunk(e) == e \in posted \/ e \in inserted \/ e \in failed

\* An event is queued from the moment it enters the buffer, and parked exactly
\* while it is in the queue of the channel's senders.
Located(e) ==
    /\ request[e] = "queued" <=> In(e, buffer) \/ Held(e) \/ Sunk(e)
    /\ request[e] = "blocked" <=> In(e, blocked)
    /\ In(e, buffer) => ~Held(e) /\ ~Sunk(e)

OneCopy ==
    /\ OnceEach(buffer) /\ OnceEach(blocked)
    /\ \A v, w \in Loops : hold[v] = hold[w] /\ hold[v] # NoEvent => v = w

\* What the sinks have of the event a worker is recording: each step comes after
\* those that could not store it, or of which no answer came.
Recording(w) ==
    /\ hold[w] # NoEvent <=> loop[w] \in {"post", "reply", "insert"}
    /\ loop[w] = "post" => hold[w] \notin posted
    /\ loop[w] = "reply" => hold[w] \in posted
    /\ loop[w] = "insert" => (hold[w] \in posted => hold[w] \in unanswered)
    /\ loop[w] \in {"post", "reply", "insert"} => hold[w] \notin inserted /\ hold[w] \notin failed
    /\ main \in {"close again", "panicked"} => loop[w] = "exited"

\* How far the shutdown has come, and what that excludes.
Phases ==
    /\ cancelled <=> main \in {"close", "wait", "close again", "panicked"}
    /\ closed <=> main \in {"wait", "close again", "panicked"}
    /\ drained => main \notin {"serving", "draining"} /\ AtWork = {}
    /\ blocked # <<>> => Len(buffer) = BufferSize /\ ~cancelled

IInv ==
    /\ TypeOK
    /\ \A e \in Events : Located(e)
    /\ \A w \in Loops : Recording(w)
    /\ OneCopy /\ Phases
    /\ PanicOnlyAfterForcedDrain /\ TwiceOnlyUnanswered

----------------------------------------------------------------------------
(* Queues: what Append, Tail and a removal leave in a sequence. *)

\* Nothing is in the empty queue.
LEMMA InEmpty == OnceEach(<<>>) /\ \A y : ~In(y, <<>>)
BY DEF OnceEach, In

\* A new element at the end.
LEMMA InAppend ==
    ASSUME NEW S, NEW s \in Seq(S), NEW x \in S
    PROVE  /\ Append(s, x) \in Seq(S) /\ Len(Append(s, x)) = Len(s) + 1
           /\ \A y : In(y, Append(s, x)) <=> In(y, s) \/ y = x
           /\ OnceEach(s) /\ ~In(x, s) => OnceEach(Append(s, x))
<1> DEFINE t == Append(s, x)
<1>1. /\ t \in Seq(S) /\ Len(s) \in Nat /\ Len(t) = Len(s) + 1
      /\ \A k \in 1..Len(s) : t[k] = s[k]
      /\ t[Len(s) + 1] = x
  BY AppendProperties, LenProperties
<1>2. 1..Len(t) = (1..Len(s)) \cup {Len(s) + 1}
  BY <1>1
<1>3. \A y : In(y, t) <=> In(y, s) \/ y = x
  BY <1>1, <1>2 DEF In
<1>4. OnceEach(s) /\ ~In(x, s) => OnceEach(t)
  BY <1>1, <1>2 DEF In, OnceEach
<1>5. QED
  BY <1>1, <1>3, <1>4

\* The first element gone.
LEMMA InTail ==
    ASSUME NEW S, NEW s \in Seq(S), s # <<>>
    PROVE  /\ Tail(s) \in Seq(S) /\ Len(s) \in Nat \ {0} /\ Len(Tail(s)) = Len(s) - 1
           /\ Head(s) \in S /\ In(Head(s), s)
           /\ OnceEach(s) => /\ OnceEach(Tail(s))
                             /\ \A y : In(y, Tail(s)) <=> In(y, s) /\ y # Head(s)
<1>1. /\ Tail(s) \in Seq(S) /\ Len(s) \in Nat \ {0} /\ Len(Tail(s)) = Len(s) - 1
      /\ Head(s) \in S /\ Head(s) = s[1]
      /\ \A k \in 1..Len(s) - 1 : Tail(s)[k] = s[k + 1]
  BY HeadTailProperties, EmptySeq, LenProperties, ElementOfSeq
<1>2. In(Head(s), s)
  BY <1>1 DEF In
<1>3. ASSUME OnceEach(s) PROVE OnceEach(Tail(s))
  BY <1>1, <1>3 DEF OnceEach
<1>4. ASSUME OnceEach(s), NEW y PROVE In(y, Tail(s)) <=> In(y, s) /\ y # Head(s)
  <2>1. ASSUME In(y, Tail(s)) PROVE In(y, s) /\ y # Head(s)
    <3>1. PICK k \in 1..Len(s) - 1 : s[k + 1] = y
      BY <1>1, <2>1 DEF In
    <3>2. k + 1 \in 1..Len(s) /\ k + 1 # 1 /\ 1 \in 1..Len(s)
      BY <1>1
    <3>3. QED
      BY <1>1, <1>4, <3>1, <3>2 DEF In, OnceEach
  <2>2. ASSUME In(y, s), y # Head(s) PROVE In(y, Tail(s))
    <3>1. PICK k \in 1..Len(s) : s[k] = y
      BY <2>2 DEF In
    <3>2. k # 1
      BY <1>1, <2>2, <3>1
    <3>3. k - 1 \in 1..Len(s) - 1 /\ (k - 1) + 1 = k
      BY <1>1, <3>2
    <3>4. Tail(s)[k - 1] = y
      BY <1>1, <3>1, <3>3
    <3>5. QED
      BY <1>1, <3>3, <3>4 DEF In
  <2>3. QED
    BY <2>1, <2>2
<1>5. QED
  BY <1>1, <1>2, <1>3, <1>4

\* One element left out of the middle.
LEMMA InShorter ==
    ASSUME NEW S, NEW s \in Seq(S), OnceEach(s), NEW i \in 1..Len(s),
           NEW t \in Seq(S), Len(t) = Len(s) - 1,
           \A k \in 1..Len(s) - 1 : t[k] = s[IF k < i THEN k ELSE k + 1]
    PROVE  OnceEach(t) /\ \A y : In(y, t) <=> In(y, s) /\ y # s[i]
<1> DEFINE At(k) == IF k < i THEN k ELSE k + 1
<1>1. Len(s) \in Nat /\ i \in Nat /\ i >= 1 /\ i <= Len(s)
  BY LenProperties
<1>2. ASSUME NEW k \in 1..Len(s) - 1 PROVE t[k] = s[At(k)] /\ At(k) \in 1..Len(s) \ {i}
  BY <1>1
<1>3. OnceEach(t)
  <2> SUFFICES ASSUME NEW j \in 1..Len(s) - 1, NEW k \in 1..Len(s) - 1, t[j] = t[k]
               PROVE  j = k
    BY DEF OnceEach
  <2>1. At(j) = At(k)
    BY <1>2 DEF OnceEach
  <2>2. QED
    BY <1>1, <2>1
<1>4. ASSUME NEW y, In(y, t) PROVE In(y, s) /\ y # s[i]
  <2>1. PICK k \in 1..Len(s) - 1 : t[k] = y
    BY <1>4 DEF In
  <2>2. y = s[At(k)] /\ At(k) \in 1..Len(s) /\ At(k) # i
    BY <1>2, <2>1
  <2>3. QED
    BY <2>2 DEF In, OnceEach
<1>5. ASSUME NEW y, In(y, s), y # s[i] PROVE In(y, t)
  <2>1. PICK j \in 1..Len(s) : s[j] = y
    BY <1>5 DEF In
  <2> DEFINE k == IF j < i THEN j ELSE j - 1
  <2>2. j # i
    BY <1>5, <2>1
  <2>3. k \in 1..Len(s) - 1 /\ At(k) = j
    BY <1>1, <2>2
  <2>4. t[k] = y
    BY <1>2, <2>1, <2>3
  <2>5. QED
    BY <2>3, <2>4 DEF In
<1>6. QED
  BY <1>3, <1>4, <1>5

\* The pieces before and after an element, joined.
LEMMA Joined ==
    ASSUME NEW S, NEW s \in Seq(S), NEW i \in 1..Len(s)
    PROVE  LET t == SubSeq(s, 1, i - 1) \o SubSeq(s, i + 1, Len(s))
           IN  /\ t \in Seq(S) /\ Len(t) = Len(s) - 1
               /\ \A k \in 1..Len(s) - 1 : t[k] = s[IF k < i THEN k ELSE k + 1]
<1> DEFINE a == SubSeq(s, 1, i - 1)
           b == SubSeq(s, i + 1, Len(s))
           t == a \o b
<1>1. Len(s) \in Nat /\ i \in Nat /\ i >= 1 /\ i <= Len(s) /\ \A k \in 1..Len(s) : s[k] \in S
  BY LenProperties, ElementOfSeq
<1>2. a \in Seq(S) /\ Len(a) = i - 1 /\ \A k \in 1..i - 1 : a[k] = s[k]
  BY <1>1, SubSeqProperties
<1>3. b \in Seq(S) /\ Len(b) = Len(s) - i /\ \A k \in 1..Len(s) - i : b[k] = s[i + k]
  BY <1>1, SubSeqProperties
<1> HIDE DEF a, b
<1>4. /\ t \in Seq(S) /\ Len(t) = Len(a) + Len(b)
      /\ \A j \in 1..Len(a) + Len(b) : t[j] = IF j <= Len(a) THEN a[j] ELSE b[j - Len(a)]
  BY <1>2, <1>3, ConcatProperties
<1> HIDE DEF t
<1>5. Len(t) = Len(s) - 1
  BY <1>1, <1>2, <1>3, <1>4
<1>6. ASSUME NEW k \in 1..Len(s) - 1 PROVE t[k] = s[IF k < i THEN k ELSE k + 1]
  <2>0. k \in 1..Len(a) + Len(b) /\ k \in Nat
    BY <1>1, <1>2, <1>3
  <2>1. CASE k < i
    BY <1>1, <1>2, <1>4, <2>0, <2>1
  <2>2. CASE ~(k < i)
    <3>1. k - (i - 1) \in 1..Len(s) - i /\ i + (k - (i - 1)) = k + 1 /\ ~(k <= i - 1)
      BY <1>1, <2>2
    <3>2. t[k] = b[k - (i - 1)]
      BY <1>2, <1>4, <2>0, <3>1
    <3>3. QED
      BY <1>3, <2>2, <3>1, <3>2
  <2>3. QED
    BY <2>1, <2>2
<1>7. QED
  BY <1>4, <1>5, <1>6 DEF t, a, b

\* One element taken out of the middle.
LEMMA InRemoved ==
    ASSUME NEW S, NEW s \in Seq(S), OnceEach(s), NEW i \in 1..Len(s)
    PROVE  LET t == SubSeq(s, 1, i - 1) \o SubSeq(s, i + 1, Len(s))
           IN  t \in Seq(S) /\ OnceEach(t) /\ \A y : In(y, t) <=> In(y, s) /\ y # s[i]
<1> DEFINE t == SubSeq(s, 1, i - 1) \o SubSeq(s, i + 1, Len(s))
<1>1. /\ t \in Seq(S) /\ Len(t) = Len(s) - 1
      /\ \A k \in 1..Len(s) - 1 : t[k] = s[IF k < i THEN k ELSE k + 1]
  BY Joined
<1> HIDE DEF t
<1>2. OnceEach(t) /\ \A y : In(y, t) <=> In(y, s) /\ y # s[i]
  BY <1>1, InShorter
<1>3. QED
  BY <1>1, <1>2 DEF t

----------------------------------------------------------------------------
(* The parts of the type invariant. *)

Phase == {"serving", "draining", "cancel", "close", "wait", "close again", "panicked"}
Stage == {"none", "running", "blocked", "queued", "dropped", "turned away", "panicked"}

QueueTyped ==
    /\ request \in [Events -> Stage]
    /\ buffer \in Seq(Events) /\ Len(buffer) <= BufferSize /\ blocked \in Seq(Events)

LoopsTyped ==
    /\ recorder \in {"database", "http", "hybrid"}
    /\ loop \in [Loops -> {"select", "post", "reply", "insert", "exited"}]
    /\ hold \in [Loops -> Events \cup {NoEvent}] /\ expired \subseteq Loops

SinksTyped ==
    /\ posted \subseteq Events /\ inserted \subseteq Events
    /\ failed \subseteq Events /\ unanswered \subseteq Events /\ refused \subseteq Events

MainTyped ==
    cancelled \in BOOLEAN /\ closed \in BOOLEAN /\ drained \in BOOLEAN /\ main \in Phase

\* Together they are the type invariant, before a step and after it.
LEMMA Parts ==
    /\ TypeOK <=> QueueTyped /\ LoopsTyped /\ SinksTyped /\ MainTyped
    /\ TypeOK' <=> QueueTyped' /\ LoopsTyped' /\ SinksTyped' /\ MainTyped'
BY Zenon DEF TypeOK, QueueTyped, LoopsTyped, SinksTyped, MainTyped, Stage, Phase

\* What the invariant says of its parts.
LEMMA InvParts ==
    ASSUME IInv
    PROVE  /\ QueueTyped /\ LoopsTyped /\ SinksTyped /\ MainTyped
           /\ \A e \in Events : Located(e)
           /\ \A w \in Loops : Recording(w)
           /\ OneCopy /\ Phases /\ PanicOnlyAfterForcedDrain /\ TwiceOnlyUnanswered
BY Parts DEF IInv

----------------------------------------------------------------------------
(* Requests. *)

\* What requests do leaves the workers, the sinks and the shutdown alone.
LEMMA Asking ==
    ASSUME IInv, UNCHANGED <<recorder, loops, sinks, dispatcher>>
    PROVE  /\ LoopsTyped' /\ SinksTyped' /\ MainTyped' /\ TwiceOnlyUnanswered'
           /\ \A w \in Loops : Recording(w)'
           /\ \A e \in Events : (Held(e)' <=> Held(e)) /\ (Sunk(e)' <=> Sunk(e))
           /\ \A v, w \in Loops : hold'[v] = hold'[w] /\ hold'[v] # NoEvent => v = w
<1>1. UNCHANGED <<recorder, loop, hold, expired, posted, inserted, failed, unanswered, refused,
                  cancelled, closed, main, drained>>
  BY DEF loops, sinks, dispatcher
<1>2. LoopsTyped' /\ SinksTyped' /\ MainTyped' /\ TwiceOnlyUnanswered'
  BY <1>1, InvParts DEF LoopsTyped, SinksTyped, MainTyped, TwiceOnlyUnanswered
<1>3. \A w \in Loops : Recording(w)'
  BY <1>1, InvParts DEF Recording
<1>4. \A e \in Events : (Held(e)' <=> Held(e)) /\ (Sunk(e)' <=> Sunk(e))
  BY <1>1 DEF Held, Sunk
<1>5. \A v, w \in Loops : hold'[v] = hold'[w] /\ hold'[v] # NoEvent => v = w
  BY <1>1, InvParts DEF OneCopy
<1>6. QED
  BY <1>2, <1>3, <1>4, <1>5

\* An event that is begun, or turned away before it was let in, is nowhere.
LEMMA OutsideStep ==
    ASSUME IInv, NEW e \in Events, Begin(e) \/ TurnAway(e) \/ SendPanics(e)
    PROVE  IInv'
<1>p. QueueTyped /\ OneCopy /\ Phases /\ PanicOnlyAfterForcedDrain /\ \A f \in Events : Located(f)
  BY InvParts
<1>1. /\ UNCHANGED <<recorder, loops, sinks, dispatcher, buffer, blocked>>
      /\ request[e] \in {"none", "running"}
      /\ \E to \in {"running", "turned away", "panicked"} : request' = [request EXCEPT ![e] = to]
  BY DEF Begin, TurnAway, SendPanics, Answering, queue
<1>2. UNCHANGED <<cancelled, closed, main, drained, buffer, blocked>>
  BY <1>1 DEF dispatcher
<1>3. /\ request'[e] \in {"running", "turned away", "panicked"}
      /\ \A f \in Events \ {e} : request'[f] = request[f]
      /\ request' \in [Events -> Stage]
  BY <1>p, <1>1 DEF QueueTyped, Stage
<1>4. QueueTyped'
  BY <1>p, <1>2, <1>3 DEF QueueTyped
<1>5. ASSUME NEW f \in Events PROVE Located(f)'
  <2>1. /\ Held(f)' <=> Held(f)
        /\ Sunk(f)' <=> Sunk(f)
        /\ In(f, buffer)' <=> In(f, buffer)
        /\ In(f, blocked)' <=> In(f, blocked)
    BY <1>1, <1>2, Asking DEF In
  <2>2. CASE f = e
    BY <1>p, <1>1, <1>3, <2>1, <2>2 DEF Located
  <2>3. CASE f # e
    BY <1>p, <1>3, <2>1, <2>3 DEF Located
  <2>4. QED
    BY <2>2, <2>3
<1>6. OneCopy'
  BY <1>p, <1>1, <1>2, Asking DEF OneCopy, OnceEach
<1>7. Phases'
  <2>1. request'[e] = "running" => ~drained
    BY <1>p, <1>1, <1>3 DEF Begin, TurnAway, SendPanics, Answering, QueueTyped
  <2>2. drained' => AtWork' = {}
    BY <1>p, <1>2, <1>3, <2>1 DEF Phases, AtWork
  <2>3. QED
    BY <1>p, <1>2, <2>2 DEF Phases
<1>8. PanicOnlyAfterForcedDrain'
  <2>1. SendPanics(e) => closed /\ ~drained
    BY <1>p DEF SendPanics, Answering, Phases, AtWork
  <2>2. ~SendPanics(e) => request'[e] # "panicked"
    BY <1>p DEF Begin, TurnAway, Answering, QueueTyped
  <2>3. QED
    BY <1>p, <1>2, <1>3, <2>1, <2>2 DEF PanicOnlyAfterForcedDrain
<1>9. QED
  BY <1>1, <1>4, <1>5, <1>6, <1>7, <1>8, Asking, Parts DEF IInv

\* The select of SendEvent finds room: nobody else is waiting for it.
LEMMA EnqueueStep ==
    ASSUME IInv, NEW e \in Events, Enqueue(e)
    PROVE  IInv'
<1>p. QueueTyped /\ OneCopy /\ Phases /\ PanicOnlyAfterForcedDrain /\ \A f \in Events : Located(f)
  BY InvParts
<1>1. /\ UNCHANGED <<recorder, loops, sinks, dispatcher, blocked>>
      /\ request[e] = "running" /\ request' = [request EXCEPT ![e] = "queued"]
      /\ Len(buffer) < BufferSize /\ buffer' = Append(buffer, e)
  BY DEF Enqueue, Answering
<1>2. UNCHANGED <<cancelled, closed, main, drained, blocked>>
  BY <1>1 DEF dispatcher
<1>3. /\ request'[e] = "queued" /\ \A f \in Events \ {e} : request'[f] = request[f]
      /\ request' \in [Events -> Stage]
  BY <1>p, <1>1 DEF QueueTyped, Stage
<1>4. /\ buffer' \in Seq(Events) /\ Len(buffer') = Len(buffer) + 1
      /\ \A f \in Events : In(f, buffer') <=> In(f, buffer) \/ f = e
      /\ OnceEach(buffer) /\ ~In(e, buffer) => OnceEach(buffer')
  <2>1. buffer \in Seq(Events) /\ buffer' = Append(buffer, e)
    BY <1>p, <1>1 DEF QueueTyped
  <2>2. QED
    BY <2>1, InAppend
<1>5. ~In(e, buffer) /\ ~In(e, blocked) /\ ~Held(e) /\ ~Sunk(e)
  BY <1>p, <1>1 DEF Located
<1>6. QueueTyped'
  BY <1>p, <1>1, <1>2, <1>3, <1>4, BufferSizeAssumption, LenProperties DEF QueueTyped
<1>7. ASSUME NEW f \in Events PROVE Located(f)'
  <2>1. /\ Held(f)' <=> Held(f)
        /\ Sunk(f)' <=> Sunk(f)
        /\ In(f, buffer)' <=> In(f, buffer) \/ f = e
        /\ In(f, blocked)' <=> In(f, blocked)
    BY <1>1, <1>2, <1>4, Asking DEF In
  <2>2. CASE f = e
    BY <1>3, <1>5, <2>1, <2>2 DEF Located
  <2>3. CASE f # e
    BY <1>p, <1>3, <2>1, <2>3 DEF Located
  <2>4. QED
    BY <2>2, <2>3
<1>8. OneCopy'
  BY <1>p, <1>1, <1>2, <1>4, <1>5, Asking DEF OneCopy, OnceEach
<1>9. Phases'
  <2>0. Len(buffer) \in Nat
    BY <1>p, LenProperties DEF QueueTyped
  <2>1. blocked = <<>>
    <3>1. blocked # <<>> => Len(buffer) = BufferSize
      BY <1>p, Zenon DEF Phases
    <3>2. QED
      BY <1>1, <2>0, <3>1, BufferSizeAssumption
  <2>2. drained' => AtWork' = {}
    BY <1>p, <1>2, <1>3 DEF Phases, AtWork
  <2>3. QED
    BY <1>p, <1>2, <2>1, <2>2 DEF Phases
<1>10. PanicOnlyAfterForcedDrain'
  BY <1>p, <1>2, <1>3 DEF PanicOnlyAfterForcedDrain
<1>11. QED
  BY <1>1, <1>6, <1>7, <1>8, <1>9, <1>10, Asking, Parts DEF IInv

\* It finds the channel full and parks.
LEMMA ParkStep ==
    ASSUME IInv, NEW e \in Events, Park(e)
    PROVE  IInv'
<1>p. QueueTyped /\ OneCopy /\ Phases /\ PanicOnlyAfterForcedDrain /\ \A f \in Events : Located(f)
  BY InvParts
<1>1. /\ UNCHANGED <<recorder, loops, sinks, dispatcher, buffer>>
      /\ request[e] = "running" /\ request' = [request EXCEPT ![e] = "blocked"]
      /\ Len(buffer) = BufferSize /\ ~cancelled /\ blocked' = Append(blocked, e)
  BY DEF Park, Answering
<1>2. UNCHANGED <<cancelled, closed, main, drained, buffer>>
  BY <1>1 DEF dispatcher
<1>3. /\ request'[e] = "blocked" /\ \A f \in Events \ {e} : request'[f] = request[f]
      /\ request' \in [Events -> Stage]
  BY <1>p, <1>1 DEF QueueTyped, Stage
<1>4. /\ blocked' \in Seq(Events)
      /\ \A f \in Events : In(f, blocked') <=> In(f, blocked) \/ f = e
      /\ OnceEach(blocked) /\ ~In(e, blocked) => OnceEach(blocked')
  <2>1. blocked \in Seq(Events) /\ blocked' = Append(blocked, e)
    BY <1>p, <1>1 DEF QueueTyped
  <2>2. QED
    BY <2>1, InAppend
<1>5. ~In(e, buffer) /\ ~In(e, blocked) /\ ~Held(e) /\ ~Sunk(e)
  BY <1>p, <1>1 DEF Located
<1>6. QueueTyped'
  BY <1>p, <1>2, <1>3, <1>4 DEF QueueTyped
<1>7. ASSUME NEW f \in Events PROVE Located(f)'
  <2>1. /\ Held(f)' <=> Held(f)
        /\ Sunk(f)' <=> Sunk(f)
        /\ In(f, buffer)' <=> In(f, buffer)
        /\ In(f, blocked)' <=> In(f, blocked) \/ f = e
    BY <1>1, <1>2, <1>4, Asking DEF In
  <2>2. CASE f = e
    BY <1>3, <1>5, <2>1, <2>2 DEF Located
  <2>3. CASE f # e
    BY <1>p, <1>3, <2>1, <2>3 DEF Located
  <2>4. QED
    BY <2>2, <2>3
<1>8. OneCopy'
  BY <1>p, <1>1, <1>2, <1>4, <1>5, Asking DEF OneCopy, OnceEach
<1>9. Phases'
  <2>1. drained' => AtWork' = {}
    BY <1>p, <1>1, <1>2 DEF Phases, AtWork
  <2>2. QED
    BY <1>p, <1>1, <1>2, <2>1 DEF Phases
<1>10. PanicOnlyAfterForcedDrain'
  BY <1>p, <1>2, <1>3 DEF PanicOnlyAfterForcedDrain
<1>11. QED
  BY <1>1, <1>6, <1>7, <1>8, <1>9, <1>10, Asking, Parts DEF IInv

\* Its timer fires.
LEMMA DropStep ==
    ASSUME IInv, NEW e \in Events, DropOnTimeout(e)
    PROVE  IInv'
<1>p. QueueTyped /\ OneCopy /\ Phases /\ PanicOnlyAfterForcedDrain /\ \A f \in Events : Located(f)
  BY InvParts
<1>1. /\ UNCHANGED <<recorder, loops, sinks, dispatcher, buffer>>
      /\ request[e] = "blocked" /\ request' = [request EXCEPT ![e] = "dropped"]
  BY DEF DropOnTimeout, Answering
<1>2. UNCHANGED <<cancelled, closed, main, drained, buffer>>
  BY <1>1 DEF dispatcher
<1>3. /\ request'[e] = "dropped" /\ \A f \in Events \ {e} : request'[f] = request[f]
      /\ request' \in [Events -> Stage]
  BY <1>p, <1>1 DEF QueueTyped, Stage
<1>4. /\ blocked' \in Seq(Events) /\ OnceEach(blocked')
      /\ \A f \in Events : In(f, blocked') <=> In(f, blocked) /\ f # e
  <2>1. PICK i \in 1..Len(blocked) :
           /\ blocked[i] = e
           /\ blocked' = SubSeq(blocked, 1, i - 1) \o SubSeq(blocked, i + 1, Len(blocked))
    BY DEF DropOnTimeout
  <2>2. blocked \in Seq(Events) /\ OnceEach(blocked)
    BY <1>p DEF QueueTyped, OneCopy
  <2>3. QED
    BY <2>1, <2>2, InRemoved
<1>5. ~In(e, buffer) /\ ~Held(e) /\ ~Sunk(e) /\ In(e, blocked)
  BY <1>p, <1>1 DEF Located
<1>6. QueueTyped'
  BY <1>p, <1>2, <1>3, <1>4 DEF QueueTyped
<1>7. ASSUME NEW f \in Events PROVE Located(f)'
  <2>1. /\ Held(f)' <=> Held(f)
        /\ Sunk(f)' <=> Sunk(f)
        /\ In(f, buffer)' <=> In(f, buffer)
        /\ In(f, blocked)' <=> In(f, blocked) /\ f # e
    BY <1>1, <1>2, <1>4, Asking DEF In
  <2>2. CASE f = e
    BY <1>3, <1>5, <2>1, <2>2 DEF Located
  <2>3. CASE f # e
    BY <1>p, <1>3, <2>1, <2>3 DEF Located
  <2>4. QED
    BY <2>2, <2>3
<1>8. OneCopy'
  BY <1>p, <1>1, <1>2, <1>4, Asking DEF OneCopy, OnceEach
<1>9. Phases'
  <2>1. drained' => AtWork' = {}
    BY <1>p, <1>2, <1>3 DEF Phases, AtWork
  <2>2. blocked # <<>>
    BY <1>p, <1>5, EmptySeq DEF In
  <2>3. QED
    BY <1>p, <1>2, <2>1, <2>2 DEF Phases
<1>10. PanicOnlyAfterForcedDrain'
  BY <1>p, <1>2, <1>3 DEF PanicOnlyAfterForcedDrain
<1>11. QED
  BY <1>1, <1>6, <1>7, <1>8, <1>9, <1>10, Asking, Parts DEF IInv

----------------------------------------------------------------------------
(* Workers. *)

\* A receive moves the head of the buffer into the worker's hand and the first
\* parked event, if there is one, into the buffer.
LEMMA ReceiveStep ==
    ASSUME IInv, NEW w \in Loops, Receive(w)
    PROVE  IInv'
<1>p. /\ QueueTyped /\ LoopsTyped /\ SinksTyped /\ MainTyped
      /\ OneCopy /\ Phases /\ PanicOnlyAfterForcedDrain /\ TwiceOnlyUnanswered
      /\ (\A f \in Events : Located(f)) /\ (\A v \in Loops : Recording(v))
  BY InvParts
<1> DEFINE e == Head(buffer)
           g == Head(blocked)
<1>1. /\ UNCHANGED <<recorder, expired, sinks, dispatcher>>
      /\ loop[w] = "select" /\ buffer # <<>>
      /\ hold' = [hold EXCEPT ![w] = Head(buffer)] /\ loop' = [loop EXCEPT ![w] = FirstSink]
      /\ AdmitParked
  BY DEF Receive
<1>2. UNCHANGED <<recorder, expired, posted, inserted, failed, unanswered, refused, cancelled,
                  closed, main, drained>>
  BY <1>1 DEF sinks, dispatcher
<1>3. /\ Tail(buffer) \in Seq(Events) /\ Len(buffer) \in Nat \ {0}
      /\ Len(Tail(buffer)) = Len(buffer) - 1
      /\ e \in Events /\ In(e, buffer) /\ OnceEach(Tail(buffer))
      /\ \A f : In(f, Tail(buffer)) <=> In(f, buffer) /\ f # e
  BY <1>p, <1>1, InTail DEF QueueTyped, OneCopy
<1>4. request[e] = "queued" /\ ~Held(e) /\ ~Sunk(e)
  BY <1>p, <1>3 DEF Located
<1>5. hold[w] = NoEvent
  BY <1>p, <1>1 DEF Recording
<1> HIDE DEF e
<1>6. /\ hold'[w] = e /\ loop'[w] = FirstSink /\ FirstSink \in {"post", "insert"}
      /\ \A v \in Loops \ {w} : hold'[v] = hold[v] /\ loop'[v] = loop[v]
      /\ LoopsTyped'
  BY <1>p, <1>1, <1>2, <1>3 DEF LoopsTyped, FirstSink, e
<1>7. \A f \in Events : (Held(f)' <=> Held(f) \/ f = e) /\ (Sunk(f)' <=> Sunk(f))
  BY <1>2, <1>5, <1>6, NoEventAssumption DEF Held, Sunk
<1>8. SinksTyped' /\ MainTyped' /\ TwiceOnlyUnanswered'
  BY <1>p, <1>2 DEF SinksTyped, MainTyped, TwiceOnlyUnanswered
<1>9. ASSUME NEW v \in Loops PROVE Recording(v)'
  <2>1. CASE v = w
    <3>1. main \notin {"close again", "panicked"}
      BY <1>p, <1>1 DEF Recording
    <3>2. QED
      BY <1>2, <1>3, <1>4, <1>6, <2>1, <3>1, NoEventAssumption DEF Recording, Sunk
  <2>2. CASE v # w
    BY <1>p, <1>2, <1>6, <2>2 DEF Recording
  <2>3. QED
    BY <2>1, <2>2
<1>10. \A u, v \in Loops : hold'[u] = hold'[v] /\ hold'[u] # NoEvent => u = v
  <2> SUFFICES ASSUME NEW u \in Loops, NEW v \in Loops, hold'[u] = hold'[v], hold'[u] # NoEvent
               PROVE  u = v
    OBVIOUS
  <2>1. CASE u # w /\ v # w
    BY <1>p, <1>6, <2>1 DEF OneCopy
  <2>2. CASE u = w \/ v = w
    BY <1>4, <1>6, <2>2 DEF Held
  <2>3. QED
    BY <2>1, <2>2
<1>11. CASE blocked = <<>>
  <2>1. buffer' = Tail(buffer) /\ UNCHANGED <<blocked, request>>
    BY <1>1, <1>11 DEF AdmitParked
  <2>2. QueueTyped'
    <3>1. Len(buffer') <= BufferSize
      BY <1>p, <1>3, <2>1, BufferSizeAssumption DEF QueueTyped
    <3>2. QED
      BY <1>p, <1>3, <2>1, <3>1 DEF QueueTyped
  <2>3. ASSUME NEW f \in Events PROVE Located(f)'
    <3>1. /\ In(f, buffer)' <=> In(f, buffer) /\ f # e
          /\ In(f, blocked)' <=> In(f, blocked)
          /\ request'[f] = request[f]
      BY <1>3, <2>1 DEF In
    <3>2. CASE f = e
      BY <1>p, <1>3, <1>4, <1>7, <3>1, <3>2 DEF Located
    <3>3. CASE f # e
      BY <1>p, <1>7, <3>1, <3>3 DEF Located
    <3>4. QED
      BY <3>2, <3>3
  <2>4. OneCopy'
    BY <1>p, <1>3, <1>10, <2>1 DEF OneCopy
  <2>5. Phases' /\ PanicOnlyAfterForcedDrain'
    BY <1>p, <1>2, <1>11, <2>1 DEF Phases, AtWork, PanicOnlyAfterForcedDrain
  <2>6. QED
    BY <1>6, <1>8, <1>9, <2>2, <2>3, <2>4, <2>5, Parts DEF IInv
<1>12. CASE blocked # <<>>
  <2>1. /\ buffer' = Append(Tail(buffer), g) /\ blocked' = Tail(blocked)
        /\ request' = [request EXCEPT ![g] = "queued"]
    BY <1>1, <1>12 DEF AdmitParked
  <2>2. /\ Tail(blocked) \in Seq(Events) /\ g \in Events /\ In(g, blocked)
        /\ OnceEach(Tail(blocked))
        /\ \A f : In(f, Tail(blocked)) <=> In(f, blocked) /\ f # g
    BY <1>p, <1>12, InTail DEF QueueTyped, OneCopy
  <2>3. request[g] = "blocked" /\ ~In(g, buffer) /\ ~Held(g) /\ ~Sunk(g) /\ g # e
    BY <1>p, <1>4, <2>2 DEF Located
  <2> HIDE DEF g
  <2>4. /\ buffer' \in Seq(Events) /\ Len(buffer') = Len(buffer)
        /\ \A f : In(f, buffer') <=> (In(f, buffer) /\ f # e) \/ f = g
        /\ OnceEach(buffer')
    <3>1. /\ buffer' \in Seq(Events) /\ Len(buffer') = Len(Tail(buffer)) + 1
          /\ \A f : In(f, buffer') <=> In(f, Tail(buffer)) \/ f = g
          /\ OnceEach(Tail(buffer)) /\ ~In(g, Tail(buffer)) => OnceEach(buffer')
      <4> DEFINE rest == Tail(buffer)
      <4>1. rest \in Seq(Events) /\ g \in Events /\ buffer' = Append(rest, g)
        BY <1>3, <2>1, <2>2
      <4> HIDE DEF rest
      <4>2. /\ buffer' \in Seq(Events) /\ Len(buffer') = Len(rest) + 1
            /\ \A f : In(f, buffer') <=> In(f, rest) \/ f = g
            /\ OnceEach(rest) /\ ~In(g, rest) => OnceEach(buffer')
        BY <4>1, InAppend
      <4>3. QED
        BY <4>2 DEF rest
    <3>2. QED
      BY <1>3, <2>3, <3>1
  <2>5. /\ request'[g] = "queued" /\ \A f \in Events \ {g} : request'[f] = request[f]
        /\ request' \in [Events -> Stage]
    BY <1>p, <2>1, <2>2 DEF QueueTyped, Stage
  <2>6. QueueTyped'
    BY <1>p, <2>1, <2>2, <2>4, <2>5 DEF QueueTyped
  <2>7. ASSUME NEW f \in Events PROVE Located(f)'
    <3>1. /\ In(f, buffer)' <=> (In(f, buffer) /\ f # e) \/ f = g
          /\ In(f, blocked)' <=> In(f, blocked) /\ f # g
      BY <2>1, <2>2, <2>4 DEF In
    <3>2. CASE f = e
      BY <1>p, <1>3, <1>4, <1>7, <2>3, <2>5, <3>1, <3>2 DEF Located
    <3>3. CASE f = g
      BY <1>p, <1>7, <2>3, <2>5, <3>1, <3>3 DEF Located
    <3>4. CASE f # e /\ f # g
      BY <1>p, <1>7, <2>5, <3>1, <3>4 DEF Located
    <3>5. QED
      BY <3>2, <3>3, <3>4
  <2>8. OneCopy'
    BY <1>10, <2>1, <2>2, <2>4 DEF OneCopy
  <2>9. Phases' /\ PanicOnlyAfterForcedDrain'
    <3>1. drained' => AtWork' = {}
      BY <1>p, <1>2, <2>5 DEF Phases, AtWork
    <3>2. Phases'
      BY <1>p, <1>2, <1>12, <2>4, <3>1 DEF Phases
    <3>3. PanicOnlyAfterForcedDrain'
      BY <1>p, <1>2, <2>5 DEF PanicOnlyAfterForcedDrain
    <3>4. QED
      BY <3>2, <3>3
  <2>10. QED
    BY <1>6, <1>8, <1>9, <2>6, <2>7, <2>8, <2>9, Parts DEF IInv
<1>13. QED
  BY <1>11, <1>12

\* A recording moves on: the sinks may gain its event and no other, and when it
\* is put down a sink has it, or its failure has been reported.
Records(w, from, to) ==
    /\ Proceed(w, from, to)
    /\ from \in {"post", "reply", "insert"} /\ to \in {"reply", "insert", "select"}
    /\ \A e \in Events \ {hold[w]} :
           /\ e \in posted' <=> e \in posted
           /\ e \in inserted' <=> e \in inserted
           /\ e \in failed' <=> e \in failed
    /\ hold[w] \in posted => hold[w] \in posted'
    /\ hold[w] \in inserted => hold[w] \in inserted'
    /\ hold[w] \in failed => hold[w] \in failed'
    /\ unanswered \subseteq unanswered'
    /\ SinksTyped' /\ expired' \subseteq Loops
    /\ to = "select" => hold[w] \in posted' \/ hold[w] \in inserted' \/ hold[w] \in failed'
    /\ to = "reply" => hold[w] \in posted' /\ hold[w] \notin inserted' /\ hold[w] \notin failed'
    /\ to = "insert" => /\ hold[w] \in posted' => hold[w] \in unanswered'
                        /\ hold[w] \notin inserted' /\ hold[w] \notin failed'
    /\ hold[w] \in posted' /\ hold[w] \in inserted' => hold[w] \in unanswered'

\* Such a step keeps the invariant.
LEMMA RecordsStep ==
    ASSUME IInv, NEW w \in Loops, NEW from, NEW to, Records(w, from, to)
    PROVE  IInv'
<1>p. /\ QueueTyped /\ LoopsTyped /\ SinksTyped /\ MainTyped
      /\ OneCopy /\ Phases /\ PanicOnlyAfterForcedDrain /\ TwiceOnlyUnanswered
      /\ (\A f \in Events : Located(f)) /\ (\A v \in Loops : Recording(v))
  BY InvParts
<1> DEFINE e == hold[w]
<1>1. /\ UNCHANGED <<recorder, request, buffer, blocked, cancelled, closed, main, drained>>
      /\ loop[w] = from /\ loop' = [loop EXCEPT ![w] = to]
      /\ hold' = IF to = "select" THEN [hold EXCEPT ![w] = NoEvent] ELSE hold
      /\ from \in {"post", "reply", "insert"} /\ to \in {"reply", "insert", "select"}
  BY DEF Records, Proceed, queue, dispatcher
<1>2. e # NoEvent /\ e \in Events
  BY <1>p, <1>1 DEF Recording, LoopsTyped
<1>3. \A v \in Loops \ {w} : hold[v] # e /\ hold'[v] = hold[v] /\ loop'[v] = loop[v]
  BY <1>p, <1>1, <1>2 DEF OneCopy, LoopsTyped
<1>4. loop'[w] = to /\ hold'[w] = IF to = "select" THEN NoEvent ELSE e
  BY <1>p, <1>1 DEF LoopsTyped
<1>5. LoopsTyped'
  BY <1>p, <1>1 DEF LoopsTyped, Records
<1>6. QueueTyped' /\ MainTyped' /\ SinksTyped'
  BY <1>p, <1>1 DEF QueueTyped, MainTyped, Records
<1>7. ASSUME NEW f \in Events PROVE Located(f)'
  <2>1. /\ In(f, buffer)' <=> In(f, buffer)
        /\ In(f, blocked)' <=> In(f, blocked)
        /\ request'[f] = request[f]
    BY <1>1 DEF In
  <2>2. CASE f = e
    <3>1. Held(f)
      BY <2>2 DEF Held
    <3>2. Held(f)' \/ Sunk(f)'
      <4>1. CASE to = "select"
        BY <2>2, <4>1 DEF Records, Sunk
      <4>2. CASE to # "select"
        BY <1>4, <2>2, <4>2 DEF Held
      <4>3. QED
        BY <4>1, <4>2
    <3>3. QED
      BY <1>p, <2>1, <3>1, <3>2 DEF Located
  <2>3. CASE f # e
    <3>1. Held(f)' <=> Held(f)
      BY <1>2, <1>3, <1>4, <2>3, NoEventAssumption DEF Held
    <3>2. Sunk(f)' <=> Sunk(f)
      BY <2>3 DEF Records, Sunk
    <3>3. QED
      BY <1>p, <2>1, <3>1, <3>2 DEF Located
  <2>4. QED
    BY <2>2, <2>3
<1>8. ASSUME NEW v \in Loops PROVE Recording(v)'
  <2>1. main \notin {"close again", "panicked"}
    BY <1>p, <1>1 DEF Recording
  <2>2. CASE v = w
    <3>1. CASE to = "select"
      BY <1>1, <1>4, <2>1, <2>2, <3>1 DEF Recording
    <3>2. CASE to = "reply"
      BY <1>1, <1>2, <1>4, <2>1, <2>2, <3>2 DEF Recording, Records
    <3>3. CASE to = "insert"
      BY <1>1, <1>2, <1>4, <2>1, <2>2, <3>3 DEF Recording, Records
    <3>4. QED
      BY <1>1, <3>1, <3>2, <3>3
  <2>3. CASE v # w
    <3>1. hold'[v] = hold[v] /\ loop'[v] = loop[v] /\ hold[v] # e /\ Recording(v)
      BY <1>p, <1>3, <2>3
    <3>2. loop[v] \in {"post", "reply", "insert"} => hold[v] \in Events \ {e}
      BY <1>p, <3>1 DEF Recording, LoopsTyped
    <3>3. QED
      BY <1>1, <3>1, <3>2 DEF Recording, Records
  <2>4. QED
    BY <2>2, <2>3
<1>9. OneCopy'
  <2>1. \A u, v \in Loops : hold'[u] = hold'[v] /\ hold'[u] # NoEvent => u = v
    BY <1>p, <1>3, <1>4 DEF OneCopy
  <2>2. QED
    BY <1>p, <1>1, <2>1 DEF OneCopy
<1>10. Phases' /\ PanicOnlyAfterForcedDrain'
  BY <1>p, <1>1 DEF Phases, AtWork, PanicOnlyAfterForcedDrain
<1>11. TwiceOnlyUnanswered'
  <2> SUFFICES ASSUME NEW f, f \in posted', f \in inserted' PROVE f \in unanswered'
    BY DEF TwiceOnlyUnanswered
  <2>1. f \in Events
    BY <1>6 DEF SinksTyped
  <2>2. CASE f = e
    BY <2>2 DEF Records
  <2>3. CASE f # e
    BY <1>p, <2>1, <2>3 DEF Records, TwiceOnlyUnanswered
  <2>4. QED
    BY <2>2, <2>3
<1>12. QED
  BY <1>5, <1>6, <1>7, <1>8, <1>9, <1>10, <1>11, Parts DEF IInv

\* Each step of a recording is one of those.
LEMMA RecordingSteps ==
    ASSUME IInv, NEW w \in Loops,
           \/ Post(w) \/ PostFails(w) \/ Reply(w) \/ ReplyLost(w)
           \/ Store(w) \/ StoreReplyLost(w) \/ StoreFails(w)
    PROVE  \E from, to : Records(w, from, to)
<1>p. LoopsTyped /\ SinksTyped /\ Recording(w)
  BY InvParts
<1>1. loop[w] \in {"post", "reply", "insert"} => hold[w] \in Events
  BY <1>p DEF Recording, LoopsTyped
<1>2. CASE Post(w)
  <2>1. Records(w, "post", "reply")
    BY <1>p, <1>1, <1>2 DEF Post, Records, Proceed, Recording, SinksTyped, LoopsTyped, Sunk
  <2>2. QED
    BY <2>1
<1>3. CASE PostFails(w)
  <2>1. /\ UNCHANGED <<posted, inserted, unanswered, refused>> /\ expired' \subseteq Loops
        /\ failed' = IF recorder = "hybrid" THEN failed ELSE failed \cup {hold[w]}
        /\ Proceed(w, "post", Fallback) /\ loop[w] = "post"
    BY <1>p, <1>3 DEF PostFails, PostError, Proceed, LoopsTyped
  <2>2. hold[w] \notin posted /\ hold[w] \notin inserted /\ hold[w] \notin failed /\ hold[w] \in Events
    BY <1>p, <1>1, <2>1 DEF Recording
  <2>3. Records(w, "post", Fallback)
    BY <1>p, <2>1, <2>2 DEF Records, SinksTyped, Sunk, Fallback
  <2>4. QED
    BY <2>3
<1>4. CASE Reply(w)
  <2>1. Records(w, "reply", "select")
    BY <1>p, <1>1, <1>4 DEF Reply, Records, Proceed, Recording, SinksTyped, LoopsTyped, Sunk, sinks
  <2>2. QED
    BY <2>1
<1>5. CASE ReplyLost(w)
  <2>1. /\ UNCHANGED <<posted, inserted, refused>> /\ expired' \subseteq Loops
        /\ unanswered' = unanswered \cup {hold[w]}
        /\ failed' = IF recorder = "hybrid" THEN failed ELSE failed \cup {hold[w]}
        /\ Proceed(w, "reply", Fallback) /\ loop[w] = "reply"
    BY <1>p, <1>5 DEF ReplyLost, PostError, Proceed, LoopsTyped
  <2>2. hold[w] \in posted /\ hold[w] \notin inserted /\ hold[w] \notin failed /\ hold[w] \in Events
    BY <1>p, <1>1, <2>1 DEF Recording
  <2>3. Records(w, "reply", Fallback)
    BY <1>p, <2>1, <2>2 DEF Records, SinksTyped, Sunk, Fallback
  <2>4. QED
    BY <2>3
<1>6. CASE Store(w) \/ StoreReplyLost(w) \/ StoreFails(w)
  <2>1. /\ Proceed(w, "insert", "select") /\ loop[w] = "insert"
        /\ UNCHANGED <<posted, unanswered>> /\ expired' \subseteq Loops
        /\ inserted' \in {inserted, inserted \cup {hold[w]}}
        /\ failed' \in {failed, failed \cup {hold[w]}}
        /\ refused' \in {refused, refused \cup {hold[w]}}
        /\ hold[w] \in inserted' \/ hold[w] \in failed'
    BY <1>p, <1>6 DEF Store, StoreReplyLost, StoreFails, Proceed, LoopsTyped
  <2>2. hold[w] \in Events /\ (hold[w] \in posted => hold[w] \in unanswered)
    BY <1>p, <1>1, <2>1 DEF Recording
  <2>3. Records(w, "insert", "select")
    BY <1>p, <2>1, <2>2 DEF Records, SinksTyped, Sunk
  <2>4. QED
    BY <2>3
<1>7. QED
  BY <1>2, <1>3, <1>4, <1>5, <1>6

\* A worker that exits holds nothing.
LEMMA ExitStep ==
    ASSUME IInv, NEW w \in Loops, Exit(w)
    PROVE  IInv'
<1>p. /\ QueueTyped /\ LoopsTyped /\ SinksTyped /\ MainTyped
      /\ OneCopy /\ Phases /\ PanicOnlyAfterForcedDrain /\ TwiceOnlyUnanswered
      /\ (\A f \in Events : Located(f)) /\ (\A v \in Loops : Recording(v))
  BY InvParts
<1>1. /\ UNCHANGED <<recorder, request, buffer, blocked, hold, expired, posted, inserted, failed,
                     unanswered, refused, cancelled, closed, main, drained>>
      /\ loop[w] = "select" /\ loop' = [loop EXCEPT ![w] = "exited"]
  BY DEF Exit, queue, sinks, dispatcher
<1>2. loop'[w] = "exited" /\ (\A v \in Loops \ {w} : loop'[v] = loop[v]) /\ LoopsTyped'
  BY <1>p, <1>1 DEF LoopsTyped
<1>3. QueueTyped' /\ SinksTyped' /\ MainTyped' /\ OneCopy' /\ Phases'
      /\ PanicOnlyAfterForcedDrain' /\ TwiceOnlyUnanswered'
  BY <1>p, <1>1 DEF QueueTyped, SinksTyped, MainTyped, OneCopy, OnceEach, Phases, AtWork,
                    PanicOnlyAfterForcedDrain, TwiceOnlyUnanswered
<1>4. ASSUME NEW f \in Events PROVE Located(f)'
  BY <1>p, <1>1 DEF Located, In, Held, Sunk
<1>5. ASSUME NEW v \in Loops PROVE Recording(v)'
  BY <1>p, <1>1, <1>2 DEF Recording
<1>6. QED
  BY <1>2, <1>3, <1>4, <1>5, Parts DEF IInv

----------------------------------------------------------------------------
(* The end of main(). *)

\* The shutdown leaves the workers and the sinks alone.
LEMMA Closing ==
    ASSUME IInv, UNCHANGED <<recorder, loops, sinks>>
    PROVE  /\ LoopsTyped' /\ SinksTyped' /\ TwiceOnlyUnanswered'
           /\ \A e \in Events : (Held(e)' <=> Held(e)) /\ (Sunk(e)' <=> Sunk(e))
           /\ \A v, w \in Loops : hold'[v] = hold'[w] /\ hold'[v] # NoEvent => v = w
           /\ (main' \in {"close again", "panicked"} => \A w \in Loops : loop[w] = "exited")
                 => \A w \in Loops : Recording(w)'
<1>1. UNCHANGED <<recorder, loop, hold, expired, posted, inserted, failed, unanswered, refused>>
  BY DEF loops, sinks
<1>2. LoopsTyped' /\ SinksTyped' /\ TwiceOnlyUnanswered'
  BY <1>1, InvParts DEF LoopsTyped, SinksTyped, TwiceOnlyUnanswered
<1>3. \A e \in Events : (Held(e)' <=> Held(e)) /\ (Sunk(e)' <=> Sunk(e))
  BY <1>1 DEF Held, Sunk
<1>4. \A v, w \in Loops : hold'[v] = hold'[w] /\ hold'[v] # NoEvent => v = w
  BY <1>1, InvParts DEF OneCopy
<1>5. (main' \in {"close again", "panicked"} => \A w \in Loops : loop[w] = "exited")
         => \A w \in Loops : Recording(w)'
  BY <1>1, InvParts DEF Recording
<1>6. QED
  BY <1>2, <1>3, <1>4, <1>5

\* The steps of the shutdown that touch no request: nobody has panicked when
\* the drain has waited for every request, and every worker is out before Close
\* returns.
LEMMA MainSteps ==
    ASSUME IInv,
           \/ Signal \/ ListenerFails \/ Drain \/ DrainTimesOut \/ CloseChannel
           \/ WaitForWorkers \/ CloseAgain
    PROVE  IInv'
<1>p. /\ QueueTyped /\ MainTyped /\ OneCopy /\ Phases /\ PanicOnlyAfterForcedDrain
      /\ (\A f \in Events : Located(f)) /\ (\A v \in Loops : Recording(v))
  BY InvParts
<1>1. UNCHANGED <<recorder, loops, sinks, request, buffer, blocked, cancelled>>
  BY DEF Signal, ListenerFails, Drain, DrainTimesOut, CloseChannel, WaitForWorkers, CloseAgain,
         MainStep, queue
<1>2. QueueTyped' /\ OneCopy' /\ \A f \in Events : Located(f)'
  <2>1. QueueTyped'
    BY <1>p, <1>1 DEF QueueTyped
  <2>2. OneCopy'
    BY <1>p, <1>1, Closing DEF OneCopy, OnceEach
  <2>3. ASSUME NEW f \in Events PROVE Located(f)'
    <3>1. /\ In(f, buffer)' <=> In(f, buffer)
          /\ In(f, blocked)' <=> In(f, blocked)
          /\ Held(f)' <=> Held(f)
          /\ Sunk(f)' <=> Sunk(f)
      BY <1>1, Closing DEF In
    <3>2. QED
      BY <1>p, <1>1, <3>1 DEF Located
  <2>4. QED
    BY <2>1, <2>2, <2>3
<1>3. MainTyped' /\ Phases' /\ PanicOnlyAfterForcedDrain'
  <2>1. CASE Signal \/ ListenerFails \/ DrainTimesOut
    <3>1. /\ main \in {"serving", "draining"} /\ main' \in {"draining", "cancel"}
          /\ UNCHANGED <<closed, drained>>
      BY <2>1 DEF Signal, ListenerFails, DrainTimesOut, MainStep
    <3>2. QED
      BY <1>p, <1>1, <3>1 DEF MainTyped, Phase, Phases, AtWork, PanicOnlyAfterForcedDrain
  <2>2. CASE Drain
    BY <1>p, <1>1, <2>2 DEF Drain, MainStep, MainTyped, Phase, Phases, AtWork,
                            PanicOnlyAfterForcedDrain
  <2>3. CASE CloseChannel
    <3>1. main = "close" /\ main' = "wait" /\ closed' = TRUE /\ UNCHANGED drained
      BY <2>3 DEF CloseChannel, MainStep
    <3>2. QED
      BY <1>p, <1>1, <3>1 DEF MainTyped, Phase, Phases, AtWork, PanicOnlyAfterForcedDrain
  <2>4. CASE WaitForWorkers \/ CloseAgain
    <3>1. /\ main \in {"wait", "close again"} /\ main' \in {"close again", "panicked"}
          /\ UNCHANGED <<closed, drained>>
      BY <2>4 DEF WaitForWorkers, CloseAgain, MainStep
    <3>2. QED
      BY <1>p, <1>1, <3>1 DEF MainTyped, Phase, Phases, AtWork, PanicOnlyAfterForcedDrain
  <2>5. QED
    BY <2>1, <2>2, <2>3, <2>4
<1>4. main' \in {"close again", "panicked"} => \A w \in Loops : loop[w] = "exited"
  BY <1>p DEF Signal, ListenerFails, Drain, DrainTimesOut, CloseChannel, WaitForWorkers,
              CloseAgain, MainStep, Recording
<1>5. QED
  BY <1>1, <1>2, <1>3, <1>4, Closing, Parts DEF IInv

\* workerCancel turns every parked sender away.
LEMMA CancelStep == ASSUME IInv, Cancel PROVE IInv'
<1>p. /\ QueueTyped /\ MainTyped /\ OneCopy /\ Phases /\ PanicOnlyAfterForcedDrain
      /\ (\A f \in Events : Located(f)) /\ (\A v \in Loops : Recording(v))
  BY InvParts
<1>1. /\ UNCHANGED <<recorder, loops, sinks, buffer, closed, drained>>
      /\ main = "cancel" /\ main' = "close" /\ cancelled' = TRUE /\ blocked' = <<>>
      /\ request' = [e \in Events |-> IF request[e] = "blocked" THEN "turned away" ELSE request[e]]
  BY DEF Cancel, MainStep
<1>2. QueueTyped'
  BY <1>p, <1>1, EmptySeq DEF QueueTyped, Stage
<1>3. OneCopy'
  <2>1. OnceEach(blocked') /\ OnceEach(buffer')
    BY <1>p, <1>1, InEmpty DEF OneCopy
  <2>2. QED
    BY <1>1, <2>1, Closing DEF OneCopy
<1>4. ASSUME NEW f \in Events PROVE Located(f)'
  <2>1. /\ In(f, buffer)' <=> In(f, buffer)
        /\ ~In(f, blocked)'
        /\ Held(f)' <=> Held(f)
        /\ Sunk(f)' <=> Sunk(f)
    BY <1>1, Closing, InEmpty
  <2>2. request'[f] = IF request[f] = "blocked" THEN "turned away" ELSE request[f]
    BY <1>1
  <2>3. QED
    BY <1>p, <2>1, <2>2 DEF Located
<1>5. MainTyped' /\ Phases' /\ PanicOnlyAfterForcedDrain'
  BY <1>p, <1>1 DEF MainTyped, Phase, Phases, AtWork, PanicOnlyAfterForcedDrain
<1>6. QED
  BY <1>1, <1>2, <1>3, <1>4, <1>5, Closing, Parts DEF IInv

----------------------------------------------------------------------------
(* The invariant is inductive. *)

LEMMA InitInv == Init => IInv
<1> SUFFICES ASSUME Init PROVE IInv
  OBVIOUS
<1>1. QueueTyped
  BY BufferSizeAssumption, EmptySeq DEF Init, QueueTyped, Stage
<1>2. LoopsTyped
  BY DEF Init, LoopsTyped, RecorderFor
<1>3. SinksTyped /\ MainTyped
  BY DEF Init, SinksTyped, MainTyped, Phase
<1>4. ASSUME NEW e \in Events PROVE Located(e)
  <2>1. ~In(e, buffer) /\ ~In(e, blocked)
    BY InEmpty DEF Init
  <2>2. ~Held(e) /\ ~Sunk(e) /\ request[e] = "none"
    BY NoEventAssumption DEF Init, Held, Sunk
  <2>3. QED
    BY <2>1, <2>2 DEF Located
<1>5. ASSUME NEW w \in Loops PROVE Recording(w)
  BY DEF Init, Recording
<1>6. OneCopy
  BY InEmpty DEF Init, OneCopy
<1>7. Phases /\ PanicOnlyAfterForcedDrain /\ TwiceOnlyUnanswered
  BY DEF Init, Phases, PanicOnlyAfterForcedDrain, TwiceOnlyUnanswered
<1>8. QED
  BY <1>1, <1>2, <1>3, <1>4, <1>5, <1>6, <1>7, Parts DEF IInv

\* A step that changes nothing.
LEMMA Stays == ASSUME IInv, UNCHANGED vars PROVE IInv'
<1>p. /\ QueueTyped /\ LoopsTyped /\ SinksTyped /\ MainTyped
      /\ OneCopy /\ Phases /\ PanicOnlyAfterForcedDrain /\ TwiceOnlyUnanswered
      /\ (\A f \in Events : Located(f)) /\ (\A v \in Loops : Recording(v))
  BY InvParts
<1>1. UNCHANGED <<recorder, request, buffer, blocked, cancelled, closed, loop, hold, expired,
                  posted, inserted, failed, unanswered, refused, main, drained>>
  BY DEF vars
<1>2. QueueTyped' /\ LoopsTyped' /\ SinksTyped' /\ MainTyped' /\ OneCopy' /\ Phases'
      /\ PanicOnlyAfterForcedDrain' /\ TwiceOnlyUnanswered'
  BY <1>p, <1>1 DEF QueueTyped, LoopsTyped, SinksTyped, MainTyped, OneCopy, OnceEach, Phases,
                    AtWork, PanicOnlyAfterForcedDrain, TwiceOnlyUnanswered
<1>3. (\A f \in Events : Located(f)') /\ (\A v \in Loops : Recording(v)')
  <2>1. ASSUME NEW f \in Events PROVE Located(f)'
    BY <1>p, <1>1 DEF Located, In, Held, Sunk
  <2>2. ASSUME NEW v \in Loops PROVE Recording(v)'
    BY <1>p, <1>1 DEF Recording
  <2>3. QED
    BY <2>1, <2>2
<1>4. QED
  BY <1>2, <1>3, Parts DEF IInv

\* Every step keeps the invariant.
LEMMA StepInv == ASSUME IInv, [Next]_vars PROVE IInv'
<1>1. ASSUME NEW e \in Events, Begin(e) \/ Send(e) PROVE IInv'
  BY <1>1, OutsideStep, EnqueueStep, ParkStep, DropStep DEF Send
<1>2. ASSUME NEW w \in Loops, Work(w) PROVE IInv'
  <2>1. CASE Receive(w) \/ Exit(w)
    BY <2>1, ReceiveStep, ExitStep
  <2>2. CASE ~(Receive(w) \/ Exit(w))
    <3>1. PICK from, to : Records(w, from, to)
      BY <1>2, <2>2, RecordingSteps DEF Work
    <3>2. QED
      BY <3>1, RecordsStep
  <2>3. QED
    BY <2>1, <2>2
<1>3. CASE Signal \/ ListenerFails \/ Shutdown
  BY <1>3, MainSteps, CancelStep DEF Shutdown
<1>4. CASE Terminated \/ UNCHANGED vars
  BY <1>4, Stays DEF Terminated
<1>5. QED
  BY <1>1, <1>2, <1>3, <1>4 DEF Next

\* It holds always.
LEMMA Invariance == Spec => []IInv
<1>1. IInv /\ [Next]_vars => IInv'
  BY StepInv
<1>2. QED
  BY InitInv, <1>1, PTL DEF Spec

----------------------------------------------------------------------------
(* What the invariant says of the program. *)

\* The type invariant, with the bound of the buffer, holds of every behaviour.
THEOREM TypeCorrect == Spec => []TypeOK
<1>1. IInv => TypeOK
  BY DEF IInv
<1>2. QED
  BY Invariance, <1>1, PTL

\* An event reported as queued is in the buffer, with one worker or settled, and
\* in one of these places only, whatever the workers and a shutdown do.
THEOREM Conserved == Spec => []EventsConserved
<1>1. ASSUME IInv PROVE EventsConserved
  <2>p. /\ QueueTyped /\ LoopsTyped /\ SinksTyped /\ OneCopy
        /\ \A f \in Events : Located(f)
    BY <1>1, InvParts
  <2>1. /\ DOMAIN buffer = 1..Len(buffer) /\ \A i \in 1..Len(buffer) : buffer[i] \in Events
    BY <2>p, LenProperties, ElementOfSeq DEF QueueTyped
  <2>2. \A x : x \in InBuffer <=> x \in Events /\ In(x, buffer)
    BY <2>1 DEF InBuffer, In
  <2>3. \A x : x \in InHand <=> x \in Events /\ Held(x)
    BY <2>p, NoEventAssumption DEF InHand, Held, LoopsTyped
  <2>4. \A x : x \in Settled <=> x \in Events /\ Sunk(x) /\ ~Held(x)
    BY <2>p, <2>3 DEF Settled, Sunk, SinksTyped
  <2>5. \A x : x \in {e \in Events : request[e] = "queued"}
                  <=> x \in InBuffer \/ x \in InHand \/ x \in Settled
    BY <2>p, <2>2, <2>3, <2>4 DEF Located
  <2>6. InBuffer \cap (InHand \cup Settled) = {}
    BY <2>p, <2>2, <2>3, <2>4 DEF Located
  <2>7. \A i, j \in DOMAIN buffer : buffer[i] = buffer[j] => i = j
    BY <2>p, <2>1 DEF OneCopy, OnceEach
  <2>8. QED
    BY <2>p, <2>5, <2>6, <2>7 DEF EventsConserved, OneCopy
<1>2. QED
  BY Invariance, <1>1, PTL

\* A request is parked only while the channel is full and the dispatcher open:
\* every receive and every Close wakes the sender it should.
THEOREM ParkedAlways == Spec => []ParkedOnlyWhenFull
<1>1. ASSUME IInv PROVE ParkedOnlyWhenFull
  <2>1. QueueTyped /\ Phases /\ \A f \in Events : Located(f)
    BY <1>1, InvParts
  <2>2. DOMAIN blocked = 1..Len(blocked)
    BY <2>1, LenProperties DEF QueueTyped
  <2>3. \A e \in Events : request[e] = "blocked" => e \in {blocked[i] : i \in DOMAIN blocked}
    BY <2>1, <2>2 DEF Located, In
  <2>4. QED
    BY <2>1, <2>3 DEF Phases, ParkedOnlyWhenFull
<1>2. QED
  BY Invariance, <1>1, PTL

\* SendEvent panics on the closed channel only in a request that the server has
\* given up on: a shutdown that waited for every request sees no panic.
THEOREM PanicAfterForcedDrain == Spec => []PanicOnlyAfterForcedDrain
<1>1. IInv => PanicOnlyAfterForcedDrain
  BY DEF IInv
<1>2. QED
  BY Invariance, <1>1, PTL

\* When main() panics in its second Close every worker is out, with nothing in
\* its hand.
THEOREM PanicLast == Spec => []PanicComesLast
<1>1. IInv => PanicComesLast
  BY InvParts DEF PanicComesLast, Recording
<1>2. QED
  BY Invariance, <1>1, PTL

\* The hybrid recorder stores an event with both sinks only when no answer of
\* the audit service came.
THEOREM StoredTwice == Spec => []TwiceOnlyUnanswered
<1>1. IInv => TwiceOnlyUnanswered
  BY DEF IInv
<1>2. QED
  BY Invariance, <1>1, PTL

----------------------------------------------------------------------------
(* The dispatcher implements AuditLog. *)

\* The fate of an event, its cases in turn: an event that a sink has is queued.
FateInTurn(e) ==
    IF e \in posted \/ e \in inserted THEN "kept"
    ELSE IF e \in failed \/ request[e] \in {"dropped", "turned away", "panicked"} THEN "lost"
    ELSE IF request[e] = "none" THEN "none" ELSE "raised"

\* ... which makes the cases of Fate exclusive, before a step and after it.
LEMMA FateCases ==
    /\ IInv => \A e \in Events : Fate(e) = FateInTurn(e)
    /\ IInv' => \A e \in Events : Fate(e)' = FateInTurn(e)'
<1>1. ASSUME IInv, NEW e \in Events PROVE Fate(e) = FateInTurn(e)
  <2>1. Sunk(e) => request[e] = "queued"
    BY <1>1, InvParts DEF Located
  <2>2. QED
    BY <2>1 DEF Sunk, Fate, FateInTurn
<1>2. ASSUME IInv', NEW e \in Events PROVE Fate(e)' = FateInTurn(e)'
  <2>1. Sunk(e)' => request'[e] = "queued"
    BY <1>2 DEF IInv, Located
  <2>2. QED
    BY <2>1 DEF Sunk, Fate, FateInTurn
<1>3. QED
  BY <1>1, <1>2

\* A step that changes no fate is nothing to a reader of the log.
LEMMA FatesStay ==
    ASSUME \A e \in Events : Fate(e)' = Fate(e)
    PROVE  [e \in Events |-> Fate(e)]' = [e \in Events |-> Fate(e)]
OBVIOUS

\* A step that seals the fate of the events of S, all raised before it.
LEMMA FatesLost ==
    ASSUME NEW S \in SUBSET Events, \A e \in S : Fate(e) = "raised" /\ Fate(e)' = "lost",
           \A e \in Events \ S : Fate(e)' = Fate(e)
    PROVE  Log!Next
<1> DEFINE f == [e \in Events |-> Fate(e)]
<1>1. S \in SUBSET {e \in Events : f[e] = "raised"}
  OBVIOUS
<1>2. f' = [e \in Events |-> IF e \in S THEN "lost" ELSE f[e]]
  OBVIOUS
<1>3. Log!Lose
  BY <1>1, <1>2 DEF Log!Lose
<1>4. QED
  BY <1>3 DEF Log!Next

\* A step that raises an event, or keeps a raised one.
LEMMA FateMoves ==
    ASSUME NEW e \in Events,
           \/ Fate(e) = "none" /\ Fate(e)' = "raised"
           \/ Fate(e) = "raised" /\ Fate(e)' = "kept",
           \A x \in Events \ {e} : Fate(x)' = Fate(x)
    PROVE  Log!Next
<1> DEFINE f == [x \in Events |-> Fate(x)]
<1>1. f[e] = Fate(e) /\ f' = [f EXCEPT ![e] = Fate(e)']
  OBVIOUS
<1>2. Log!Raise(e) \/ Log!Keep(e)
  BY <1>1 DEF Log!Raise, Log!Keep
<1>3. QED
  BY <1>2 DEF Log!Next

\* Requests: an event is raised once, and given up before it was let in.
LEMMA SendFates ==
    ASSUME IInv, IInv', NEW e \in Events, Begin(e) \/ Send(e)
    PROVE  Log!Next \/ \A x \in Events : Fate(x)' = Fate(x)
<1>1. UNCHANGED <<posted, inserted, failed>>
  BY DEF Begin, Send, Enqueue, Park, TurnAway, SendPanics, DropOnTimeout, Answering, sinks
<1>2. request[e] \in {"none", "running", "blocked"} /\ request \in [Events -> Stage]
  BY InvParts DEF Begin, Send, Enqueue, Park, TurnAway, SendPanics, DropOnTimeout, Answering,
                  QueueTyped
<1>3. ~Sunk(e)
  BY <1>2, InvParts DEF Located
<1>4. \A x \in Events \ {e} : request'[x] = request[x]
  BY <1>2 DEF Begin, Send, Enqueue, Park, TurnAway, SendPanics, DropOnTimeout, Answering
<1>5. \A x \in Events \ {e} : Fate(x)' = Fate(x)
  BY <1>1, <1>4, FateCases DEF FateInTurn
<1>6. CASE Begin(e)
  <2>1. request[e] = "none" /\ request'[e] = "running"
    BY <1>2, <1>6 DEF Begin, Answering
  <2>2. Fate(e) = "none" /\ Fate(e)' = "raised"
    BY <1>1, <1>3, <2>1, FateCases DEF FateInTurn, Sunk
  <2>3. QED
    BY <1>5, <2>2, FateMoves
<1>7. CASE Enqueue(e) \/ Park(e)
  <2>1. request[e] = "running" /\ request'[e] \in {"queued", "blocked"}
    BY <1>2, <1>7 DEF Enqueue, Park, Answering
  <2>2. Fate(e)' = Fate(e)
    BY <1>1, <1>3, <2>1, FateCases DEF FateInTurn, Sunk
  <2>3. QED
    BY <1>5, <2>2
<1>8. CASE TurnAway(e) \/ SendPanics(e) \/ DropOnTimeout(e)
  <2>1. /\ request[e] \in {"running", "blocked"}
        /\ request'[e] \in {"dropped", "turned away", "panicked"}
    BY <1>2, <1>8 DEF TurnAway, SendPanics, DropOnTimeout, Answering
  <2>2. Fate(e) = "raised" /\ Fate(e)' = "lost"
    BY <1>1, <1>3, <2>1, FateCases DEF FateInTurn, Sunk
  <2>3. QED
    <3>1. {e} \in SUBSET Events
      OBVIOUS
    <3>2. (\A x \in {e} : Fate(x) = "raised" /\ Fate(x)' = "lost")
          /\ \A x \in Events \ {e} : Fate(x)' = Fate(x)
      BY <1>5, <2>2
    <3>3. QED
      BY <3>1, <3>2, FatesLost
<1>9. QED
  BY <1>6, <1>7, <1>8 DEF Send

\* Workers: an event is kept, or lost, by the recording that has it in hand.
LEMMA WorkFates ==
    ASSUME IInv, IInv', NEW w \in Loops, Work(w)
    PROVE  Log!Next \/ \A x \in Events : Fate(x)' = Fate(x)
<1>1. CASE Receive(w)
  <2>1. UNCHANGED <<posted, inserted, failed>>
    BY <1>1 DEF Receive, sinks
  <2>2. \A x \in Events : request'[x] = request[x]
                          \/ (request[x] = "blocked" /\ request'[x] = "queued")
    <3>1. CASE blocked = <<>>
      BY <1>1, <3>1 DEF Receive, AdmitParked
    <3>2. CASE blocked # <<>>
      <4> DEFINE g == Head(blocked)
      <4>1. request' = [request EXCEPT ![g] = "queued"]
        BY <1>1, <3>2 DEF Receive, AdmitParked
      <4>2. g \in Events /\ In(g, blocked)
        BY <3>2, InvParts, InTail DEF QueueTyped
      <4> HIDE DEF g
      <4>3. request[g] = "blocked" /\ request \in [Events -> Stage]
        BY <4>2, InvParts DEF Located, QueueTyped
      <4>4. QED
        BY <4>1, <4>2, <4>3
    <3>3. QED
      BY <3>1, <3>2
  <2>3. \A x \in Events : Fate(x)' = Fate(x)
    BY <2>1, <2>2, FateCases DEF FateInTurn
  <2>4. QED
    BY <2>3
<1>2. CASE Exit(w)
  BY <1>2, FateCases DEF Exit, sinks, FateInTurn
<1>3. CASE ~(Receive(w) \/ Exit(w))
  <2>1. PICK from, to : Records(w, from, to)
    BY <1>3, RecordingSteps DEF Work
  <2>2. UNCHANGED request /\ loop[w] \in {"post", "reply", "insert"}
    BY <2>1 DEF Records, Proceed
  <2>3. PICK e \in Events : e = hold[w] /\ Held(e) /\ e \notin inserted /\ e \notin failed
    BY <2>2, InvParts DEF Recording, LoopsTyped, Held
  <2>4. request[e] = "queued"
    BY <2>3, InvParts DEF Located
  <2>5. \A x \in Events \ {e} : Fate(x)' = Fate(x)
    BY <2>1, <2>2, <2>3, FateCases DEF FateInTurn, Records
  <2>6. Fate(e) \in {"raised", "kept"}
    BY <2>3, <2>4, FateCases DEF FateInTurn
  <2>7. Fate(e) = "kept" => Fate(e)' = "kept"
    BY <2>1, <2>2, <2>3, <2>4, FateCases DEF FateInTurn, Records
  <2>8. Fate(e)' \in {"raised", "kept", "lost"}
    BY <2>2, <2>3, <2>4, FateCases DEF FateInTurn
  <2>9. CASE Fate(e) = "raised" /\ Fate(e)' = "lost"
    <3>1. {e} \in SUBSET Events
      BY <2>3
    <3>2. (\A x \in {e} : Fate(x) = "raised" /\ Fate(x)' = "lost")
          /\ \A x \in Events \ {e} : Fate(x)' = Fate(x)
      BY <2>5, <2>9
    <3>3. QED
      BY <3>1, <3>2, FatesLost
  <2>10. CASE Fate(e) = "raised" /\ Fate(e)' = "kept"
    BY <2>3, <2>5, <2>10, FateMoves
  <2>11. CASE Fate(e)' = Fate(e)
    BY <2>5, <2>11
  <2>12. QED
    BY <2>6, <2>7, <2>8, <2>9, <2>10, <2>11
<1>4. QED
  BY <1>1, <1>2, <1>3

\* The shutdown gives up every parked event in one step.
LEMMA CloseFates ==
    ASSUME IInv, IInv', Signal \/ ListenerFails \/ Shutdown
    PROVE  Log!Next \/ \A x \in Events : Fate(x)' = Fate(x)
<1>1. UNCHANGED <<posted, inserted, failed>>
  BY DEF Signal, ListenerFails, Shutdown, Drain, DrainTimesOut, Cancel, CloseChannel,
         WaitForWorkers, CloseAgain, MainStep, sinks
<1>2. CASE Cancel
  <2> DEFINE S == {x \in Events : request[x] = "blocked"}
  <2>1. \A x \in Events : request'[x] = IF request[x] = "blocked" THEN "turned away" ELSE request[x]
    BY <1>2 DEF Cancel
  <2>2. \A x \in S : ~Sunk(x)
    BY InvParts DEF Located
  <2>3. \A x \in S : Fate(x) = "raised" /\ Fate(x)' = "lost"
    BY <1>1, <2>1, <2>2, FateCases DEF FateInTurn, Sunk
  <2>4. \A x \in Events \ S : Fate(x)' = Fate(x)
    BY <1>1, <2>1, FateCases DEF FateInTurn
  <2>5. S \in SUBSET Events
    OBVIOUS
  <2>6. QED
    BY <2>3, <2>4, <2>5, FatesLost
<1>3. CASE ~Cancel
  <2>1. UNCHANGED request
    BY <1>3 DEF Signal, ListenerFails, Shutdown, Drain, DrainTimesOut, CloseChannel,
                WaitForWorkers, CloseAgain
  <2>2. QED
    BY <1>1, <2>1, FateCases DEF FateInTurn
<1>4. QED
  BY <1>2, <1>3

\* Whatever the requests, the workers, the sinks and the shutdown do, the fate of
\* an event is sealed once: an event reported as failed is never stored after
\* all, and one that a sink has is never given up.
THEOREM Refinement == Spec => ImplementsAuditLog
<1>1. ASSUME Init PROVE Log!Init
  <2>1. \A e \in Events : Fate(e) = "none"
    BY <1>1 DEF Init, Fate
  <2>2. QED
    BY <2>1 DEF Log!Init
<1>2. ASSUME IInv, IInv', [Next]_vars
      PROVE  [Log!Next]_([e \in Events |-> Fate(e)])
  <2>1. Log!Next \/ \A x \in Events : Fate(x)' = Fate(x)
    <3>1. CASE \E e \in Events : Begin(e) \/ Send(e)
      BY <1>2, <3>1, SendFates
    <3>2. CASE \E w \in Loops : Work(w)
      BY <1>2, <3>2, WorkFates
    <3>3. CASE Signal \/ ListenerFails \/ Shutdown
      BY <1>2, <3>3, CloseFates
    <3>4. CASE Terminated \/ UNCHANGED vars
      BY <1>2, <3>4, FateCases DEF Terminated, vars, FateInTurn
    <3>5. QED
      BY <1>2, <3>1, <3>2, <3>3, <3>4 DEF Next
  <2>2. QED
    BY <2>1, FatesStay
<1>3. QED
  BY Invariance, <1>1, <1>2, PTL DEF Spec, ImplementsAuditLog, Log!Spec
=============================================================================
