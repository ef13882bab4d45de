------------------------------- MODULE Kordoc -------------------------------
(***************************************************************************)
(* _KordocClient: one persistent KorDoc process shared by all parse calls  *)
(* of an event loop.  A session is one run of the task that owns the       *)
(* process (`_run'), with the queue it serves; calls time out on their own *)
(* and the one that does kills the session under the client's lock.        *)
(* Everything between two awaits is one step.                              *)
(***************************************************************************)
EXTENDS Naturals, Sequences

CONSTANTS
    Requests,   \* calls of parse(), each made by a run of the ingest graph
    MaxSessions, \* tasks _ensure_worker may create: one per request suffices
    Closer,     \* close_kordoc_client at shutdown
    None

Callers  == Requests \cup {Closer}
Sessions == 1 .. MaxSessions

ASSUME NoneAssumption == /\ MaxSessions \in Nat
                         /\ None \notin Sessions \cup Callers
                         /\ Closer \notin Requests

VARIABLES
    pc,        \* of each caller
    fut,       \* state of the future each request waits for
    task,      \* self._task: the session in charge, if any
    lock,      \* self._lock: the caller that is stopping a session
    stopping,  \* ... and the task it awaits
    state,     \* of each session
    cancelled, \* sessions whose task another call, or close, has cancelled
    requests,  \* queue of each session
    inflight   \* the request each session has sent to KorDoc

client == <<task, lock, stopping>>
vars   == <<pc, fut, client, state, cancelled, requests, inflight>>

Live(g)  == state[g] \notin {"unused", "done"}
InCharge == {g \in Sessions : g = task /\ Live(g)}

Init ==
    /\ pc = [r \in Callers |-> "new"]
    /\ fut = [r \in Callers |-> "none"]
    /\ task = None /\ lock = None /\ stopping = None
    /\ state = [g \in Sessions |-> "unused"]
    /\ cancelled = {}
    /\ requests = [g \in Sessions |-> <<>>]
    /\ inflight = [g \in Sessions |-> None]

Goto(r, l)      == pc' = [pc EXCEPT ![r] = l]
Resolve(r, f)   == fut' = [fut EXCEPT ![r] = IF @ = "pending" THEN f ELSE @]
SessionTo(g, s) == state' = [state EXCEPT ![g] = s]

----------------------------------------------------------------------------
(* parse                                                                   *)

\* _ensure_worker and the put that follows: neither waits once the lock is
\* free.  A task that is done, or none, is replaced by a new one with a queue
\* of its own.
Join(r) == \E g \in InCharge :
    /\ requests' = [requests EXCEPT ![g] = Append(@, r)]
    /\ UNCHANGED <<task, state>>

Renew(r) ==
    /\ InCharge = {}
    /\ \E g \in Sessions :
          /\ state[g] = "unused" /\ \A h \in 1 .. g - 1 : state[h] # "unused"
          /\ task' = g
          /\ SessionTo(g, "created")
          /\ requests' = [requests EXCEPT ![g] = <<r>>]

Submit(r) ==
    /\ pc[r] = "new" /\ lock = None
    /\ Join(r) \/ Renew(r)
    /\ fut' = [fut EXCEPT ![r] = "pending"]
    /\ Goto(r, "wait")
    /\ UNCHANGED <<lock, stopping, cancelled, inflight>>

\* A result or a KordocParseError ends the call; any other exception restarts
\* the session first.
Answered(r) ==
    /\ pc[r] = "wait"
    /\ \/ fut[r] \in {"ok", "parse_error", "closed"} /\ Goto(r, "done")
       \/ fut[r] = "broken" /\ Goto(r, "restart")
    /\ UNCHANGED <<fut, client, state, cancelled, requests, inflight>>

\* Mutant: a timed-out call leaves the session to the next one.
TimedOutLeaves(r) ==
    /\ pc[r] = "wait"
    /\ fut' = [fut EXCEPT ![r] = "timeout"]
    /\ Goto(r, "done")
    /\ UNCHANGED <<client, state, cancelled, requests, inflight>>

\* Mutant: the timeout covers the call to KorDoc, not the wait in the queue.
TimedOutServing(r) ==
    /\ pc[r] = "wait" /\ \E g \in Sessions : Live(g) /\ inflight[g] = r
    /\ fut' = [fut EXCEPT ![r] = "timeout"]
    /\ Goto(r, "restart")
    /\ UNCHANGED <<client, state, cancelled, requests, inflight>>

\* wait_for gives up and the session is to be killed.  The future is cancelled;
\* if it has been resolved but its caller has not been woken yet, the answer is
\* lost, because the timer cancels the caller.
TimedOut(r) ==
    /\ pc[r] = "wait"
    /\ fut' = [fut EXCEPT ![r] = "timeout"]
    /\ Goto(r, "restart")
    /\ UNCHANGED <<client, state, cancelled, requests, inflight>>

\* The job is cancelled while its call waits, for an answer or for the lock.
\* (While it stops a session the cancellation is swallowed.)
Abandoned(r) ==
    /\ pc[r] \in {"new", "wait", "restart"}
    /\ fut' = [fut EXCEPT ![r] = "cancelled"]
    /\ Goto(r, "done")
    /\ UNCHANGED <<client, state, cancelled, requests, inflight>>

----------------------------------------------------------------------------
(* _restart, close and _stop_locked                                        *)

Close ==
    /\ pc[Closer] = "new"
    /\ Goto(Closer, "restart")
    /\ UNCHANGED <<fut, client, state, cancelled, requests, inflight>>

\* Mutant: the cancelled session is not awaited.
StopNoWait(r) ==
    /\ pc[r] = "restart" /\ lock = None
    /\ task' = None
    /\ cancelled' = cancelled \cup InCharge
    /\ Goto(r, "done")
    /\ UNCHANGED <<fut, lock, stopping, state, requests, inflight>>

\* The session in charge, whichever it is by now, is cancelled and awaited.
Stop(r) ==
    /\ pc[r] = "restart" /\ lock = None
    /\ task' = None
    /\ \/ \E g \in InCharge :
             /\ cancelled' = cancelled \cup {g}
             /\ lock' = r /\ stopping' = g
             /\ Goto(r, "stop")
       \/ /\ InCharge = {}
          /\ Goto(r, "done")
          /\ UNCHANGED <<lock, stopping, cancelled>>
    /\ UNCHANGED <<fut, state, requests, inflight>>

Stopped(r) ==
    /\ lock = r /\ ~Live(stopping)
    /\ lock' = None /\ stopping' = None
    /\ Goto(r, "done")
    /\ UNCHANGED <<fut, task, state, cancelled, requests, inflight>>

----------------------------------------------------------------------------
(* _run and _serve                                                         *)

Running(g, s) == state[g] = s /\ g \notin cancelled

\* The event loop runs the task for the first time.
Begin(g) ==
    /\ Running(g, "created")
    /\ SessionTo(g, "starting")
    /\ UNCHANGED <<pc, fut, client, cancelled, requests, inflight>>

\* The process is spawned and the session initialized, or not.
Start(g) ==
    /\ Running(g, "starting")
    /\ \E s \in {"idle", "closing"} : SessionTo(g, s)
    /\ UNCHANGED <<pc, fut, client, cancelled, requests, inflight>>

\* Requests whose caller has given up are skipped.
Take(g) ==
    /\ Running(g, "idle") /\ requests[g] # <<>>
    /\ requests' = [requests EXCEPT ![g] = Tail(@)]
    /\ LET r == Head(requests[g]) IN
          IF fut[r] = "pending"
          THEN SessionTo(g, "calling") /\ inflight' = [inflight EXCEPT ![g] = r]
          ELSE UNCHANGED <<state, inflight>>
    /\ UNCHANGED <<pc, fut, client, cancelled>>

\* KorDoc answers with a text or an error of its own.
Reply(g) ==
    /\ Running(g, "calling")
    /\ \E f \in {"ok", "parse_error"} : Resolve(inflight[g], f)
    /\ inflight' = [inflight EXCEPT ![g] = None]
    /\ SessionTo(g, "idle")
    /\ UNCHANGED <<pc, client, cancelled, requests>>

\* Mutant: the exception ends the session without failing its request.
CallFailsSilently(g) ==
    /\ Running(g, "calling")
    /\ inflight' = [inflight EXCEPT ![g] = None]
    /\ SessionTo(g, "closing")
    /\ UNCHANGED <<pc, fut, client, cancelled, requests>>

\* call_tool raises: the request fails and the session is torn down.
CallFails(g) ==
    /\ Running(g, "calling")
    /\ Resolve(inflight[g], "broken")
    /\ inflight' = [inflight EXCEPT ![g] = None]
    /\ SessionTo(g, "closing")
    /\ UNCHANGED <<pc, client, cancelled, requests>>

\* The task ends, after an exception or a cancellation.  _fail_pending resolves
\* every future still in the queue, but not the one in flight, which has left
\* it, when the task is cancelled; and a task cancelled before its first step
\* runs nothing of _run, its `finally' neither.
Waiting(g) == {requests[g][i] : i \in DOMAIN requests[g]}
Die(g) ==
    /\ Live(g) /\ (state[g] = "closing" \/ g \in cancelled)
    /\ SessionTo(g, "done")
    /\ IF state[g] = "created" THEN UNCHANGED <<fut, requests>>
       ELSE LET f == IF g \in cancelled THEN "closed" ELSE "broken" IN
            /\ fut' = [r \in Callers |->
                          IF r \in Waiting(g) /\ fut[r] = "pending" THEN f ELSE fut[r]]
            /\ requests' = [requests EXCEPT ![g] = <<>>]
    /\ UNCHANGED <<pc, client, cancelled, inflight>>

----------------------------------------------------------------------------
Call(r)    == Submit(r) \/ Answered(r) \/ TimedOut(r)
Restart(r) == Stop(r) \/ Stopped(r)
Serve(g)   == Begin(g) \/ Start(g) \/ Take(g) \/ Reply(g) \/ CallFails(g)

Next == \/ \E r \in Requests : Call(r) \/ Abandoned(r)
        \/ \E r \in Callers : Restart(r)
        \/ \E g \in Sessions : Serve(g) \/ Die(g)
        \/ Close

Spec == Init /\ [][Next]_vars

(* Timers fire, woken coroutines run, and a cancelled or broken session gets *)
(* through its teardown.  KorDoc itself may never start and never reply.     *)
Fairness == /\ \A r \in Requests : WF_vars(Call(r))
            /\ \A r \in Callers : WF_vars(Restart(r))
            /\ \A g \in Sessions : WF_vars(Die(g))

FairSpec == Spec /\ Fairness

----------------------------------------------------------------------------
TypeOK ==
    /\ pc \in [Callers -> {"new", "wait", "restart", "stop", "done"}]
    /\ fut \in [Callers -> {"none", "pending", "ok", "parse_error", "broken",
                            "closed", "timeout", "cancelled"}]
    /\ task \in Sessions \cup {None}
    /\ lock \in Callers \cup {None}
    /\ stopping \in Sessions \cup {None}
    /\ lock = None <=> stopping = None
    /\ state \in [Sessions -> {"unused", "created", "starting", "idle", "calling", "closing", "done"}]
    /\ cancelled \subseteq Sessions
    /\ requests \in [Sessions -> Seq(Requests)]
    /\ inflight \in [Sessions -> Requests \cup {None}]

(* At most one KorDoc process per event loop: however calls, timeouts and   *)
(* restarts interleave, a new session is never started while an old one is  *)
(* still running or being torn down.                                        *)
OneSession == \A g, h \in Sessions : Live(g) /\ Live(h) => g = h

(* Startup and transport failures are surfaced "to anyone still waiting      *)
(* instead of letting them hang until their own timeout": a call that waits  *)
(* for an answer has its request in the queue, or in the hands, of a session *)
(* that still runs, unless that session was killed by another call.  (Killed *)
(* sessions do forget the request they were serving.)                        *)
Heard == \A r \in Requests : fut[r] = "pending" =>
            \E g \in Sessions : /\ r \in Waiting(g) \/ inflight[g] = r
                                /\ Live(g) \/ g \in cancelled

(* "kill it so the next call starts a fresh session instead of queueing     *)
(* behind a hang": once a call has reported its timeout, no session left    *)
(* alone is still busy with its document.                                   *)
NoQueueBehindHang ==
    \A g \in Sessions :
       state[g] = "calling" /\ inflight[g] # None /\ g \notin cancelled =>
          ~(pc[inflight[g]] = "done" /\ fut[inflight[g]] = "timeout")

(* The client implements the service the ingest graph relies on: one answer *)
(* per call, and no call hangs, even one whose request went down with a     *)
(* session another call has killed.                                         *)
Service == INSTANCE ParseService WITH
    answer <- [r \in Requests |-> IF pc[r] # "done" THEN "none"
                                  ELSE IF fut[r] = "ok" THEN "text" ELSE "error"]
ParsesOnce == Service!Spec
=============================================================================
