----------------------------- MODULE AuditTrail -----------------------------
(***************************************************************************)
(* The audit dispatcher (audit/worker.go) with the recorder its workers     *)
(* call (audit/factory.go, hybrid_processor.go) and the end of main() that  *)
(* shuts it down.                                                           *)
(*                                                                          *)
(* A request raises one event and waits in SendEvent until the event is in  *)
(* the buffer, the 100 ms timer fires, or the dispatcher is cancelled; the  *)
(* workers take events off the buffer and record each under a 5 s context   *)
(* derived from the dispatcher's own.  main() closes the dispatcher once in *)
(* HSMManager.CloseAll and once more in its own deferred call.              *)
(*                                                                          *)
(* Faults: "db" an INSERT fails, "http" the audit service refuses a POST,   *)
(* "reply" either sink takes an event and its reply is lost, "hang" the     *)
(* service does not answer in 5 s (the HTTP client's own timeout is 10 s),  *)
(* "slow" requests outlive the 30 s of srv.Shutdown, "listen" the listener  *)
(* fails.                                                                   *)
(***************************************************************************)
EXTENDS Naturals, Sequences, FiniteSets

CONSTANTS
    Events,         \* one per request
    Loops,          \* the auditWorkerCount worker goroutines
    BufferSize,     \* auditBufferSize
    Strategies,     \* the configured strategies to consider
    Faults,
    NoEvent

ASSUME BufferSizeAssumption == BufferSize \in Nat \ {0}
ASSUME NoEventAssumption == NoEvent \notin Events
ASSUME StrategiesAssumption == Strategies \subseteq {"DATABASE", "HTTP", "HYBRID"}
ASSUME AuditFaultsAssumption ==
    Faults \subseteq {"db", "http", "reply", "hang", "slow", "listen"}

VARIABLES
    recorder,   \* the recorder NewAuditRecorder built
    request,    \* where each request is with its event
    buffer,     \* EventsChannel
    blocked,    \* requests parked on the full channel, in order of arrival
    cancelled,  \* WorkerCtx is done
    closed,     \* EventsChannel is closed
    loop,       \* what each worker does
    hold,       \* the event each worker records
    expired,    \* workers whose 5 s context has run out
    posted,     \* events the audit service took
    inserted,   \* events in audit_logs
    failed,     \* events whose recording reported an error
    unanswered, \* history: events the audit service took without an answer
    refused,    \* history: events the database itself refused
    main,       \* where main() is
    drained     \* history: the shutdown waited for every request

queue == <<buffer, blocked>>
sinks == <<posted, inserted, failed, unanswered, refused>>
loops == <<loop, hold, expired>>
dispatcher == <<cancelled, closed, main, drained>>
vars == <<recorder, request, buffer, blocked, cancelled, closed, loop, hold,
          expired, posted, inserted, failed, unanswered, refused, main, drained>>

TypeOK ==
    /\ recorder \in {"database", "http", "hybrid"}
    /\ request \in [Events -> {"none", "running", "blocked", "queued",
                               "dropped", "turned away", "panicked"}]
    /\ buffer \in Seq(Events) /\ Len(buffer) <= BufferSize
    /\ blocked \in Seq(Events)
    /\ cancelled \in BOOLEAN /\ closed \in BOOLEAN /\ drained \in BOOLEAN
    /\ loop \in [Loops -> {"select", "post", "reply", "insert", "exited"}]
    /\ hold \in [Loops -> Events \cup {NoEvent}]
    /\ expired \subseteq Loops
    /\ posted \subseteq Events /\ inserted \subseteq Events
    /\ failed \subseteq Events /\ unanswered \subseteq Events /\ refused \subseteq Events
    /\ main \in {"serving", "draining", "cancel", "close", "wait", "close again",
                 "panicked"}

\* NewAuditRecorder: without an audit service's URL everything goes to the
\* database.
RecorderFor(strategy, hasURL) ==
    CASE strategy = "HTTP" /\ hasURL   -> "http"
      [] strategy = "HYBRID" /\ hasURL -> "hybrid"
      [] OTHER                         -> "database"

Init ==
    /\ \E s \in Strategies, hasURL \in BOOLEAN : recorder = RecorderFor(s, hasURL)
    /\ request = [e \in Events |-> "none"]
    /\ buffer = <<>> /\ blocked = <<>>
    /\ cancelled = FALSE /\ closed = FALSE
    /\ loop = [w \in Loops |-> "select"]
    /\ hold = [w \in Loops |-> NoEvent]
    /\ expired = {}
    /\ posted = {} /\ inserted = {} /\ failed = {} /\ unanswered = {} /\ refused = {}
    /\ main = "serving" /\ drained = FALSE

Alive == main # "panicked"

----------------------------------------------------------------------------
(* Requests. *)

Answering(e, from, to) ==
    /\ Alive
    /\ request[e] = from
    /\ request' = [request EXCEPT ![e] = to]
    /\ UNCHANGED <<recorder, loops, sinks, dispatcher>>

\* A handler may raise an event until the shutdown has waited for it.
Begin(e) ==
    /\ ~drained
    /\ Answering(e, "none", "running")
    /\ UNCHANGED queue

\* The select of SendEvent finds room in the channel.
Enqueue(e) ==
    /\ ~closed
    /\ Len(buffer) < BufferSize
    /\ Answering(e, "running", "queued")
    /\ buffer' = Append(buffer, e)
    /\ UNCHANGED blocked

\* Slip: the channel is taken for unbounded.
QueueAnyway(e) ==
    /\ ~closed /\ ~cancelled
    /\ Len(buffer) = BufferSize
    /\ Answering(e, "running", "queued")
    /\ buffer' = Append(buffer, e)
    /\ UNCHANGED blocked

\* ... finds the channel full and parks.
Park(e) ==
    /\ ~closed /\ ~cancelled
    /\ Len(buffer) = BufferSize
    /\ Answering(e, "running", "blocked")
    /\ blocked' = Append(blocked, e)
    /\ UNCHANGED buffer

\* ... finds the context done.
TurnAway(e) ==
    /\ cancelled
    /\ Answering(e, "running", "turned away")
    /\ UNCHANGED queue

\* ... or finds the channel closed: a ready case too, and it panics.
SendPanics(e) ==
    /\ closed
    /\ Answering(e, "running", "panicked")
    /\ UNCHANGED queue

\* Slip: the timer fires and the sender stays in the queue of the channel.
DropStaysParked(e) ==
    /\ Answering(e, "blocked", "dropped")
    /\ UNCHANGED queue

\* The 100 ms timer: the sender leaves its place among the parked ones.
DropOnTimeout(e) ==
    /\ Answering(e, "blocked", "dropped")
    /\ \E i \in 1..Len(blocked) :
           /\ blocked[i] = e
           /\ blocked' = SubSeq(blocked, 1, i - 1) \o SubSeq(blocked, i + 1, Len(blocked))
    /\ UNCHANGED buffer

----------------------------------------------------------------------------
(* Workers. *)

\* What RecordEvent does first, and after the audit service failed it.
FirstSink == IF recorder = "database" THEN "insert" ELSE "post"
Fallback == IF recorder = "hybrid" THEN "insert" ELSE "select"

\* Slip: a parked sender's event is taken off and not put in the channel.
AdmitNobody ==
    /\ buffer' = Tail(buffer)
    /\ UNCHANGED <<blocked, request>>

\* Slip: the first parked sender is woken and its event goes nowhere.
AdmitToNowhere ==
    IF blocked = <<>>
    THEN /\ buffer' = Tail(buffer)
         /\ UNCHANGED <<blocked, request>>
    ELSE /\ buffer' = Tail(buffer)
         /\ blocked' = Tail(blocked)
         /\ request' = [request EXCEPT ![Head(blocked)] = "queued"]

\* A receive from a full channel lets the first parked sender in.
AdmitParked ==
    IF blocked = <<>>
    THEN /\ buffer' = Tail(buffer)
         /\ UNCHANGED <<blocked, request>>
    ELSE /\ buffer' = Append(Tail(buffer), Head(blocked))
         /\ blocked' = Tail(blocked)
         /\ request' = [request EXCEPT ![Head(blocked)] = "queued"]

Receive(w) ==
    /\ Alive
    /\ loop[w] = "select"
    /\ buffer # <<>>
    /\ hold' = [hold EXCEPT ![w] = Head(buffer)]
    /\ loop' = [loop EXCEPT ![w] = FirstSink]
    /\ AdmitParked
    /\ UNCHANGED <<recorder, expired, sinks, dispatcher>>

\* The context is done, or the channel is closed and empty.  A select with both
\* a done context and an event takes either.
Exit(w) ==
    /\ Alive
    /\ loop[w] = "select"
    /\ cancelled \/ (closed /\ buffer = <<>>)
    /\ loop' = [loop EXCEPT ![w] = "exited"]
    /\ UNCHANGED <<recorder, request, queue, hold, expired, sinks, dispatcher>>

\* The recording leaves one sink for the other, or ends.
Proceed(w, from, to) ==
    /\ Alive
    /\ loop[w] = from
    /\ loop' = [loop EXCEPT ![w] = to]
    /\ hold' = IF to = "select" THEN [hold EXCEPT ![w] = NoEvent] ELSE hold
    /\ UNCHANGED <<recorder, request, queue, dispatcher>>

\* The recording's context is over: 5 s have passed, or the dispatcher is
\* cancelled.
ContextDone(w) == cancelled \/ w \in expired

Post(w) ==
    /\ ~cancelled
    /\ Proceed(w, "post", "reply")
    /\ posted' = posted \cup {hold[w]}
    /\ UNCHANGED <<expired, inserted, failed, unanswered, refused>>

\* The audit service failed the event: for good, unless the database comes next.
\* A POST that hangs uses up the context the fallback would run under.
PostError(w) ==
    /\ failed' = IF recorder = "hybrid" THEN failed ELSE failed \cup {hold[w]}
    /\ expired' \in IF "hang" \in Faults /\ recorder = "hybrid"
                   THEN {expired, expired \cup {w}} ELSE {expired}

PostFails(w) ==
    /\ cancelled \/ Faults \cap {"http", "hang"} # {}
    /\ Proceed(w, "post", Fallback)
    /\ PostError(w)
    /\ UNCHANGED <<posted, inserted, unanswered, refused>>

\* Slip: the hybrid recorder goes on to the database after a success too.
ReplyFallsThrough(w) ==
    /\ Proceed(w, "reply", Fallback)
    /\ UNCHANGED <<expired, sinks>>

Reply(w) ==
    /\ Proceed(w, "reply", "select")
    /\ UNCHANGED <<expired, sinks>>

\* The audit service has the event and the worker does not know.
ReplyLost(w) ==
    /\ cancelled \/ Faults \cap {"reply", "hang"} # {}
    /\ Proceed(w, "reply", Fallback)
    /\ PostError(w)
    /\ unanswered' = unanswered \cup {hold[w]}
    /\ UNCHANGED <<posted, inserted, refused>>

Store(w) ==
    /\ ~ContextDone(w)
    /\ Proceed(w, "insert", "select")
    /\ inserted' = inserted \cup {hold[w]}
    /\ UNCHANGED <<expired, posted, failed, unanswered, refused>>

\* The row is there and the worker does not know.
StoreReplyLost(w) ==
    /\ ~ContextDone(w) /\ "reply" \in Faults
    /\ Proceed(w, "insert", "select")
    /\ inserted' = inserted \cup {hold[w]}
    /\ failed' = failed \cup {hold[w]}
    /\ UNCHANGED <<expired, posted, unanswered, refused>>

\* Slip: a failed INSERT is retried under the context that made it fail.
StoreRetries(w) ==
    /\ ContextDone(w) \/ "db" \in Faults
    /\ Proceed(w, "insert", "insert")
    /\ UNCHANGED <<expired, sinks>>

\* The fallback runs under the context of the POST: when that one timed out the
\* INSERT is refused before it is sent.
StoreFails(w) ==
    /\ Proceed(w, "insert", "select")
    /\ \/ ContextDone(w) /\ UNCHANGED refused
       \/ "db" \in Faults /\ refused' = refused \cup {hold[w]}
    /\ failed' = failed \cup {hold[w]}
    /\ expired' = expired \ {w}
    /\ UNCHANGED <<posted, inserted, unanswered>>

----------------------------------------------------------------------------
(* The end of main(). *)

MainStep(from, to) ==
    /\ main = from
    /\ main' = to
    /\ UNCHANGED <<recorder, loops, sinks>>

AtWork == {e \in Events : request[e] \in {"running", "blocked"}}

Signal ==
    /\ MainStep("serving", "draining")
    /\ UNCHANGED <<request, queue, cancelled, closed, drained>>

ListenerFails ==
    /\ "listen" \in Faults
    /\ MainStep("serving", "cancel")
    /\ UNCHANGED <<request, queue, cancelled, closed, drained>>

\* Slip: the shutdown does not wait for the requests it has accepted.
DrainAtOnce ==
    /\ MainStep("draining", "cancel")
    /\ drained' = TRUE
    /\ UNCHANGED <<request, queue, cancelled, closed>>

\* srv.Shutdown returns when the last request has, or after 30 s.
Drain ==
    /\ AtWork = {}
    /\ MainStep("draining", "cancel")
    /\ drained' = TRUE
    /\ UNCHANGED <<request, queue, cancelled, closed>>

DrainTimesOut ==
    /\ AtWork # {} /\ "slow" \in Faults
    /\ MainStep("draining", "cancel")
    /\ UNCHANGED <<request, queue, cancelled, closed, drained>>

\* workerCancel wakes every parked sender.
Cancel ==
    /\ MainStep("cancel", "close")
    /\ cancelled' = TRUE
    /\ request' = [e \in Events |-> IF request[e] = "blocked" THEN "turned away"
                                                             ELSE request[e]]
    /\ blocked' = <<>>
    /\ UNCHANGED <<buffer, closed, drained>>

CloseChannel ==
    /\ MainStep("close", "wait")
    /\ closed' = TRUE
    /\ UNCHANGED <<request, queue, cancelled, drained>>

\* Slip: Close waits until the buffer is flushed, which exited workers never do.
WaitForFlush ==
    /\ \A w \in Loops : loop[w] = "exited"
    /\ buffer = <<>>
    /\ MainStep("wait", "close again")
    /\ UNCHANGED <<request, queue, cancelled, closed, drained>>

\* Slip: the first worker to exit is enough.
WaitForOne ==
    /\ \E w \in Loops : loop[w] = "exited"
    /\ MainStep("wait", "close again")
    /\ UNCHANGED <<request, queue, cancelled, closed, drained>>

\* workerGroup.Wait; CloseAll then finalizes PKCS#11 and returns.
WaitForWorkers ==
    /\ \A w \in Loops : loop[w] = "exited"
    /\ MainStep("wait", "close again")
    /\ UNCHANGED <<request, queue, cancelled, closed, drained>>

\* main()'s own deferred Close closes the closed channel.
CloseAgain ==
    /\ MainStep("close again", "panicked")
    /\ UNCHANGED <<request, queue, cancelled, closed, drained>>

Terminated == main = "panicked" /\ UNCHANGED vars

----------------------------------------------------------------------------
Send(e) == Enqueue(e) \/ Park(e) \/ TurnAway(e) \/ SendPanics(e) \/ DropOnTimeout(e)

Work(w) ==
    \/ Receive(w) \/ Exit(w)
    \/ Post(w) \/ PostFails(w) \/ Reply(w) \/ ReplyLost(w)
    \/ Store(w) \/ StoreReplyLost(w) \/ StoreFails(w)

Shutdown ==
    \/ Drain \/ DrainTimesOut \/ Cancel \/ CloseChannel
    \/ WaitForWorkers \/ CloseAgain

Next ==
    \/ \E e \in Events : Begin(e) \/ Send(e)
    \/ \E w \in Loops : Work(w)
    \/ Signal \/ ListenerFails \/ Shutdown
    \/ Terminated

Spec == Init /\ [][Next]_vars

\* Goroutines are scheduled; SendEvent, a recording and the drain each have a
\* timer (100 ms, 5 s, 30 s), so that none of their steps waits for ever.
Fairness ==
    /\ \A e \in Events : WF_vars(Send(e))
    /\ \A w \in Loops : WF_vars(Work(w))
    /\ WF_vars(Shutdown)

FairSpec == Spec /\ Fairness

----------------------------------------------------------------------------
(* Properties. *)

InBuffer == {buffer[i] : i \in DOMAIN buffer}
InHand == {hold[w] : w \in Loops} \ {NoEvent}
Settled == (posted \cup inserted \cup failed) \ InHand

\* An event SendEvent reported as queued is in the buffer, with one worker, or
\* settled, and in one of these places only: none vanishes between two workers
\* and a shutdown, and none is recorded by two of them.
EventsConserved ==
    /\ {e \in Events : request[e] = "queued"} = InBuffer \cup InHand \cup Settled
    /\ InBuffer \cap (InHand \cup Settled) = {}
    /\ \A i, j \in DOMAIN buffer : buffer[i] = buffer[j] => i = j
    /\ \A v, w \in Loops : hold[v] = hold[w] /\ hold[v] # NoEvent => v = w

\* A request stays parked only while the channel is full and the dispatcher
\* open: no slot frees up, and no Close begins, without waking it.
ParkedOnlyWhenFull ==
    /\ \A e \in Events : request[e] = "blocked" => e \in {blocked[i] : i \in DOMAIN blocked}
    /\ blocked # <<>> => Len(buffer) = BufferSize /\ ~cancelled

\* SendEvent panics on the closed channel only in a request the server gave up
\* on: never when the shutdown waited for all of them.
PanicOnlyAfterForcedDrain ==
    (\E e \in Events : request[e] = "panicked") => closed /\ ~drained

\* The second Close ends main() with a panic on every shutdown, and by then all
\* that the first Close waits for is over: no worker is cut off in a recording.
PanicComesLast ==
    main \in {"close again", "panicked"} => \A w \in Loops : loop[w] = "exited" /\ hold[w] = NoEvent

\* An event is in the database and with the audit service only if the answer of
\* the latter was lost or late.
TwiceOnlyUnanswered == posted \cap inserted \subseteq unanswered

\* The audit log callers may reason with.
Fate(e) ==
    CASE e \in posted \cup inserted -> "kept"
      [] e \in failed \ (posted \cup inserted)
            \/ request[e] \in {"dropped", "turned away", "panicked"} -> "lost"
      [] request[e] = "none" -> "none"
      [] OTHER -> "raised"

Log == INSTANCE AuditLog WITH fate <- [e \in Events |-> Fate(e)]

\* An event's fate is sealed once: one reported as failed is never stored after
\* all, and one stored is never given up.
ImplementsAuditLog == Log!Spec

\* While the service runs, a queued event is dealt with, whatever the sinks do.
EventsSettle ==
    \A e \in Events : request[e] = "queued" ~> (e \in Settled \/ main # "serving")

\* A shutdown ends: no worker and no request keeps Close waiting for ever.
ShutdownEnds == main = "draining" ~> main \in {"close again", "panicked"}

----------------------------------------------------------------------------
(* What the comments claim and the code does not do. *)

\* "HTTP + DB fallback": while the service runs, the hybrid recorder loses an
\* event only if the database itself refuses it.  A POST that hangs takes the
\* fallback's context with it.
FallbackKeeps ==
    recorder = "hybrid" /\ main = "serving"
        => failed \subseteq posted \cup inserted \cup refused

\* "Close gracefully shuts down the audit worker" and waits "for all workers to
\* finish processing": when Close has returned, every queued event was dealt
\* with.  The context is cancelled before the buffer is read.
CloseFlushes ==
    main = "close again" => \A e \in Events : request[e] = "queued" => e \in posted \cup inserted
=============================================================================
