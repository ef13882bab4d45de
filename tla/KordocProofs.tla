---------------------------- MODULE KordocProofs ----------------------------
(***************************************************************************)
(* For any number of calls and of sessions: the client is well formed, at  *)
(* most one KorDoc session exists, and no waiting call is forgotten by a   *)
(* session that ends of itself.                                            *)
(***************************************************************************)
EXTENDS Kordoc, TLAPS

(* The client knows every session that runs: it is in charge, or it is the  *)
(* one a restart is waiting for, and then nobody is in charge.              *)
Known == /\ \A g \in Sessions : Live(g) => g = task \/ g = stopping
         /\ stopping # None => task = None

(* A session that was not cancelled holds a request only while it calls     *)
(* KorDoc with it, and one that was never created is empty.                 *)
Holding == \A g \in Sessions :
              /\ inflight[g] # None /\ g \notin cancelled => state[g] = "calling"
              /\ state[g] = "unused" => requests[g] = <<>> /\ g \notin cancelled

\* The state of a caller, of a future and of a session, as TypeOK has them.
Pcs     == {"new", "wait", "restart", "stop", "done"}
Futures == {"none", "pending", "ok", "parse_error", "broken", "closed",
            "timeout", "cancelled"}
States  == {"unused", "created", "starting", "idle", "calling", "closing", "done"}

----------------------------------------------------------------------------
(* A request that is not the first of a queue is in what Take leaves of it, *)
(* and every request of a queue is still there after another joins it.      *)
LEMMA QueueFacts ==
    ASSUME NEW q \in Seq(Requests), NEW r \in Requests
    PROVE  /\ Append(q, r) \in Seq(Requests)
           /\ \E i \in DOMAIN Append(q, r) : Append(q, r)[i] = r
           /\ \A i \in DOMAIN q : i \in DOMAIN Append(q, r) /\ Append(q, r)[i] = q[i]
           /\ q # <<>> => /\ Head(q) \in Requests
                          /\ Tail(q) \in Seq(Requests)
                          /\ \A i \in DOMAIN q : q[i] # Head(q) =>
                                \E j \in DOMAIN Tail(q) : Tail(q)[j] = q[i]
<1>1. /\ Append(q, r) \in Seq(Requests)
      /\ \E i \in DOMAIN Append(q, r) : Append(q, r)[i] = r
      /\ \A i \in DOMAIN q : i \in DOMAIN Append(q, r) /\ Append(q, r)[i] = q[i]
  <2>1. Len(Append(q, r)) = Len(q) + 1 /\ Append(q, r)[Len(q) + 1] = r
    OBVIOUS
  <2>2. Len(q) + 1 \in DOMAIN Append(q, r)
    BY <2>1
  <2> QED
    BY <2>1, <2>2
<1>2. ASSUME q # <<>>
      PROVE  /\ Head(q) \in Requests /\ Tail(q) \in Seq(Requests)
             /\ \A i \in DOMAIN q : q[i] # Head(q) =>
                   \E j \in DOMAIN Tail(q) : Tail(q)[j] = q[i]
  <2>1. Head(q) \in Requests /\ Tail(q) \in Seq(Requests)
    BY <1>2
  <2>2. ASSUME NEW i \in DOMAIN q, q[i] # Head(q)
        PROVE  \E j \in DOMAIN Tail(q) : Tail(q)[j] = q[i]
    <3>1. i \in 1 .. Len(q) /\ i # 1
      BY <2>2, <1>2
    <3>2. i - 1 \in DOMAIN Tail(q) /\ Tail(q)[i - 1] = q[i]
      BY <3>1, <1>2
    <3> QED
      BY <3>2
  <2> QED
    BY <2>1, <2>2
<1> QED
  BY <1>1, <1>2

(* The type invariant is inductive.                                         *)
LEMMA TypeInductive == TypeOK /\ [Next]_vars => TypeOK'
<1> SUFFICES ASSUME TypeOK, [Next]_vars PROVE TypeOK'
  OBVIOUS
<1> USE NoneAssumption DEF Callers
<1>1. ASSUME NEW r \in Requests, Submit(r) PROVE TypeOK'
  <2>1. CASE Join(r)
    <3>1. PICK g \in Sessions : requests' = [requests EXCEPT ![g] = Append(@, r)]
      BY <2>1 DEF Join, InCharge
    <3>2. Append(requests[g], r) \in Seq(Requests)
      BY QueueFacts DEF TypeOK
    <3>3. requests' \in [Sessions -> Seq(Requests)]
      BY <3>1, <3>2 DEF TypeOK
    <3>4. UNCHANGED <<task, state>>
      BY <2>1 DEF Join
    <3>5. /\ pc' = [pc EXCEPT ![r] = "wait"] /\ fut' = [fut EXCEPT ![r] = "pending"]
          /\ UNCHANGED <<lock, stopping, cancelled, inflight>>
      BY <1>1 DEF Submit, Goto
    <3> QED
      BY <3>3, <3>4, <3>5 DEF TypeOK
  <2>2. CASE Renew(r)
    <3>1. PICK g \in Sessions : /\ task' = g /\ SessionTo(g, "created")
                                /\ requests' = [requests EXCEPT ![g] = <<r>>]
      BY <2>2 DEF Renew
    <3>2. <<r>> \in Seq(Requests)
      OBVIOUS
    <3>3. /\ pc' = [pc EXCEPT ![r] = "wait"] /\ fut' = [fut EXCEPT ![r] = "pending"]
          /\ UNCHANGED <<lock, stopping, cancelled, inflight>>
      BY <1>1 DEF Submit, Goto
    <3>4. requests' \in [Sessions -> Seq(Requests)]
      BY <3>1, <3>2 DEF TypeOK
    <3>5. state' \in [Sessions -> States] /\ task' \in Sessions
      BY <3>1 DEF TypeOK, SessionTo, States
    <3> QED
      BY <3>3, <3>4, <3>5 DEF TypeOK, States
  <2> QED
    BY <1>1, <2>1, <2>2 DEF Submit
<1>2. ASSUME NEW r \in Requests, Answered(r) \/ TimedOut(r) \/ Abandoned(r) PROVE TypeOK'
  BY <1>2 DEF Answered, TimedOut, Abandoned, client, Goto, TypeOK
<1>3. ASSUME NEW r \in Callers, Stop(r) PROVE TypeOK'
  BY <1>3 DEF Stop, InCharge, Goto, TypeOK
<1>4. ASSUME NEW r \in Callers, Stopped(r) PROVE TypeOK'
  BY <1>4 DEF Stopped, Goto, TypeOK
<1>5. ASSUME NEW g \in Sessions, Begin(g) \/ Start(g) \/ CallFails(g) \/ Reply(g)
      PROVE  TypeOK'
  <2>1. CASE Begin(g) \/ Start(g)
    BY <2>1 DEF Begin, Start, client, SessionTo, TypeOK
  <2>2. CASE CallFails(g)
    BY <2>2 DEF CallFails, client, Resolve, SessionTo, TypeOK
  <2>3. CASE Reply(g)
    <3>1. \E f \in Futures : Resolve(inflight[g], f)
      BY <2>3 DEF Reply, Futures
    <3>2. fut' \in [Callers -> Futures]
      BY <3>1 DEF Resolve, TypeOK, Futures
    <3>3. /\ SessionTo(g, "idle") /\ inflight' = [inflight EXCEPT ![g] = None]
          /\ UNCHANGED <<pc, client, cancelled, requests>>
      BY <2>3 DEF Reply
    <3> QED
      BY <3>2, <3>3 DEF client, SessionTo, TypeOK, Futures
  <2> QED
    BY <1>5, <2>1, <2>2, <2>3
<1>6. ASSUME NEW g \in Sessions, Take(g) PROVE TypeOK'
  <2>1. requests[g] \in Seq(Requests) /\ requests[g] # <<>>
    BY <1>6 DEF Take, TypeOK
  <2>2. Head(requests[g]) \in Requests /\ Tail(requests[g]) \in Seq(Requests)
    BY <2>1
  <2>3. requests' \in [Sessions -> Seq(Requests)]
    BY <1>6, <2>2 DEF Take, TypeOK
  <2>4. /\ state' \in [Sessions -> States]
        /\ inflight' \in [Sessions -> Requests \cup {None}]
    <3> DEFINE head == Head(requests[g])
    <3>1. \/ /\ state' = [state EXCEPT ![g] = "calling"]
             /\ inflight' = [inflight EXCEPT ![g] = head]
          \/ UNCHANGED <<state, inflight>>
      BY <1>6 DEF Take, SessionTo
    <3>2. head \in Requests
      BY <2>2
    <3> HIDE DEF head
    <3> QED
      BY <3>1, <3>2 DEF TypeOK, States
  <2>5. UNCHANGED <<pc, fut, client, cancelled>>
    BY <1>6 DEF Take
  <2> QED
    BY <2>3, <2>4, <2>5 DEF client, TypeOK, States
<1>7. ASSUME NEW g \in Sessions, Die(g) PROVE TypeOK'
  <2>1. <<>> \in Seq(Requests)
    OBVIOUS
  <2>2. requests' \in [Sessions -> Seq(Requests)]
    BY <1>7, <2>1 DEF Die, TypeOK
  <2>3. fut' \in [Callers -> Futures]
    BY <1>7 DEF Die, TypeOK, Futures
  <2> QED
    BY <1>7, <2>2, <2>3 DEF Die, client, SessionTo, TypeOK, Futures
<1>8. CASE Close
  BY <1>8 DEF Close, client, Goto, TypeOK
<1>9. CASE UNCHANGED vars
  BY <1>9 DEF vars, client, TypeOK
<1> QED
  BY <1>1, <1>2, <1>3, <1>4, <1>5, <1>6, <1>7, <1>8, <1>9
     DEF Next, Call, Restart, Serve

(* A session is started only when none runs, and the one a restart cancels   *)
(* is remembered until it is gone.                                           *)
LEMMA KnownInductive == TypeOK /\ Known /\ [Next]_vars => Known'
<1> SUFFICES ASSUME TypeOK, Known, [Next]_vars PROVE Known'
  OBVIOUS
<1> USE NoneAssumption DEF Callers, Live, Known
<1>1. ASSUME NEW r \in Requests, Submit(r) PROVE Known'
  <2>1. stopping = None
    BY <1>1 DEF Submit, TypeOK
  <2>2. CASE Join(r)
    BY <1>1, <2>2 DEF Submit, Join
  <2>3. CASE Renew(r)
    <3>1. PICK g \in Sessions : task' = g /\ SessionTo(g, "created")
      BY <2>3 DEF Renew
    <3>2. \A h \in Sessions : ~Live(h)
      BY <2>1, <2>3 DEF Renew, InCharge
    <3> QED
      BY <1>1, <2>1, <3>1, <3>2 DEF Submit, SessionTo, TypeOK
  <2> QED
    BY <1>1, <2>2, <2>3 DEF Submit
<1>2. ASSUME NEW r \in Requests, Answered(r) \/ TimedOut(r) \/ Abandoned(r) PROVE Known'
  BY <1>2 DEF Answered, TimedOut, Abandoned, client
<1>3. ASSUME NEW r \in Callers, Stop(r) PROVE Known'
  <2>1. stopping = None
    BY <1>3 DEF Stop, TypeOK
  <2>2. ASSUME NEW g \in Sessions, Live(g) PROVE g = task
    BY <2>1, <2>2
  <2> QED
    BY <1>3, <2>1, <2>2 DEF Stop, InCharge
<1>4. ASSUME NEW r \in Callers, Stopped(r) PROVE Known'
  BY <1>4 DEF Stopped
<1>5. ASSUME NEW g \in Sessions,
             Begin(g) \/ Start(g) \/ Take(g) \/ Reply(g) \/ CallFails(g) \/ Die(g)
      PROVE  Known'
  <2>1. UNCHANGED client
    BY <1>5 DEF Begin, Start, Take, Reply, CallFails, Die
  <2>2. Live(g) /\ \A h \in Sessions : h # g => state'[h] = state[h]
    BY <1>5 DEF Begin, Start, Take, Reply, CallFails, Die, Running, SessionTo, TypeOK
  <2> QED
    BY <2>1, <2>2 DEF client
<1>6. CASE Close
  BY <1>6 DEF Close, client
<1>7. CASE UNCHANGED vars
  BY <1>7 DEF vars, client
<1> QED
  BY <1>1, <1>2, <1>3, <1>4, <1>5, <1>6, <1>7 DEF Next, Call, Restart, Serve

(* "One persistent session": at most one KorDoc process per event loop.     *)
THEOREM SingleSession == Spec => []OneSession
<1>1. Init => TypeOK /\ Known
  <2> SUFFICES ASSUME Init PROVE TypeOK /\ Known
    OBVIOUS
  <2>1. <<>> \in Seq(Requests)
    OBVIOUS
  <2> QED
    BY <2>1, NoneAssumption DEF Init, TypeOK, Known, Live, Callers
<1>2. TypeOK /\ Known /\ [Next]_vars => TypeOK' /\ Known'
  BY TypeInductive, KnownInductive
<1>3. TypeOK /\ Known => OneSession
  BY NoneAssumption DEF TypeOK, Known, OneSession
<1> QED
  BY <1>1, <1>2, <1>3, PTL DEF Spec

(* What a session that was not cancelled holds, and what Heard says of the   *)
(* requests, survive every step together.                                    *)
LEMMA HeardInductive == TypeOK /\ Holding /\ Heard /\ [Next]_vars => Holding' /\ Heard'
<1> SUFFICES ASSUME TypeOK, Holding, Heard, [Next]_vars PROVE Holding' /\ Heard'
  OBVIOUS
<1> USE NoneAssumption DEF Callers, Live, Holding, Heard, Waiting
<1>1. ASSUME NEW r \in Requests, Submit(r) PROVE Holding' /\ Heard'
  <2>1. /\ fut' = [fut EXCEPT ![r] = "pending"]
        /\ UNCHANGED <<cancelled, inflight>>
    BY <1>1 DEF Submit
  <2>2. CASE Join(r)
    <3>1. PICK g \in Sessions : /\ Live(g)
                                /\ requests' = [requests EXCEPT ![g] = Append(@, r)]
      BY <2>2 DEF Join, InCharge
    <3>2. UNCHANGED state
      BY <2>2 DEF Join
    <3>3. requests[g] \in Seq(Requests)
      BY DEF TypeOK
    <3>4. /\ requests'[g] = Append(requests[g], r)
          /\ \A h \in Sessions : h # g => requests'[h] = requests[h]
      BY <3>1 DEF TypeOK
    <3>5. r \in Waiting(g)' /\ Waiting(g) \subseteq Waiting(g)'
      <4>1. \E i \in DOMAIN requests'[g] : requests'[g][i] = r
        BY <3>3, <3>4, QueueFacts
      <4>2. \A i \in DOMAIN requests[g] :
               i \in DOMAIN requests'[g] /\ requests'[g][i] = requests[g][i]
        BY <3>3, <3>4, QueueFacts
      <4> QED
        BY <4>1, <4>2
    <3>6. \A h \in Sessions : Waiting(h) \subseteq Waiting(h)'
      BY <3>4, <3>5
    <3>7. Heard'
      <4> SUFFICES ASSUME NEW q \in Requests, fut'[q] = "pending"
                   PROVE  \E h \in Sessions : /\ q \in Waiting(h)' \/ inflight'[h] = q
                                              /\ Live(h)' \/ h \in cancelled'
        OBVIOUS
      <4>1. CASE q = r
        <5>1. Live(g)' /\ q \in Waiting(g)'
          BY <3>1, <3>2, <3>5, <4>1
        <5> QED
          BY <5>1
      <4>2. CASE q # r
        <5>1. PICK h \in Sessions : /\ q \in Waiting(h) \/ inflight[h] = q
                                    /\ Live(h) \/ h \in cancelled
          BY <2>1, <4>2 DEF TypeOK
        <5>2. q \in Waiting(h)' \/ inflight'[h] = q
          BY <2>1, <3>6, <5>1
        <5> QED
          BY <2>1, <3>2, <5>1, <5>2
      <4> QED
        BY <4>1, <4>2
    <3>8. Holding'
      BY <2>1, <3>1, <3>2, <3>4 DEF TypeOK
    <3> QED
      BY <3>7, <3>8
  <2>3. CASE Renew(r)
    <3>1. PICK g \in Sessions : /\ state[g] = "unused"
                                /\ state' = [state EXCEPT ![g] = "created"]
                                /\ requests' = [requests EXCEPT ![g] = <<r>>]
      BY <2>3 DEF Renew, SessionTo
    <3>2. Waiting(g) = {}
      BY <3>1
    <3>3. requests'[g] = <<r>>
      BY <3>1 DEF TypeOK
    <3>4. 1 \in DOMAIN <<r>> /\ <<r>>[1] = r
      OBVIOUS
    <3>5. r \in Waiting(g)'
      BY <3>3, <3>4
    <3>6. inflight[g] = None
      BY <3>1
    <3>7. \A h \in Sessions : h # g => Waiting(h)' = Waiting(h) /\ state'[h] = state[h]
      BY <3>1 DEF TypeOK
    <3>8. state'[g] = "created"
      BY <3>1 DEF TypeOK
    <3>9. Heard'
      <4> SUFFICES ASSUME NEW q \in Requests, fut'[q] = "pending"
                   PROVE  \E h \in Sessions : /\ q \in Waiting(h)' \/ inflight'[h] = q
                                              /\ Live(h)' \/ h \in cancelled'
        OBVIOUS
      <4>1. CASE q = r
        BY <3>5, <3>8, <4>1
      <4>2. CASE q # r
        <5>1. PICK h \in Sessions : /\ q \in Waiting(h) \/ inflight[h] = q
                                    /\ Live(h) \/ h \in cancelled
          BY <2>1, <4>2 DEF TypeOK
        <5>2. h # g
          BY <3>1, <5>1
        <5> QED
          BY <2>1, <3>7, <5>1, <5>2
      <4> QED
        BY <4>1, <4>2
    <3>10. Holding'
      BY <2>1, <3>1, <3>6 DEF TypeOK
    <3> QED
      BY <3>9, <3>10
  <2> QED
    BY <1>1, <2>2, <2>3 DEF Submit
<1>2. ASSUME NEW r \in Requests, Answered(r) \/ TimedOut(r) \/ Abandoned(r)
      PROVE  Holding' /\ Heard'
  <2>1. /\ UNCHANGED <<state, cancelled, requests, inflight>>
        /\ \A q \in Requests : fut'[q] = "pending" => fut[q] = "pending"
    BY <1>2 DEF Answered, TimedOut, Abandoned, TypeOK
  <2> QED
    BY <2>1
<1>3. ASSUME NEW r \in Callers, Stop(r) PROVE Holding' /\ Heard'
  <2>1. UNCHANGED <<fut, state, requests, inflight>> /\ cancelled \subseteq cancelled'
    BY <1>3 DEF Stop
  <2>2. \A g \in Sessions : g \in cancelled' => g \in cancelled \/ Live(g)
    BY <1>3 DEF Stop, InCharge
  <2> QED
    BY <2>1, <2>2
<1>4. ASSUME NEW r \in Callers, Stopped(r) PROVE Holding' /\ Heard'
  BY <1>4 DEF Stopped
<1>5. ASSUME NEW g \in Sessions, Begin(g) \/ Start(g) PROVE Holding' /\ Heard'
  <2>1. /\ UNCHANGED <<fut, cancelled, requests, inflight>>
        /\ state[g] \in {"created", "starting"} /\ g \notin cancelled
        /\ \E s \in {"starting", "idle", "closing"} : state' = [state EXCEPT ![g] = s]
    BY <1>5 DEF Begin, Start, SessionTo, Running
  <2> QED
    BY <2>1 DEF TypeOK
<1>6. ASSUME NEW g \in Sessions, Take(g) PROVE Holding' /\ Heard'
  <2>1. requests[g] \in Seq(Requests) /\ requests[g] # <<>>
    BY <1>6 DEF Take, TypeOK
  <2>2. /\ state[g] = "idle" /\ g \notin cancelled /\ inflight[g] = None
        /\ requests' = [requests EXCEPT ![g] = Tail(@)]
        /\ UNCHANGED <<fut, cancelled>>
    BY <1>6 DEF Take, Running
  <2> DEFINE head == Head(requests[g])
  <2>3. head \in Requests
    BY <2>1, QueueFacts
  <2>4. \A q \in Waiting(g) : q # head => q \in Waiting(g)'
    BY <2>1, <2>2, QueueFacts DEF TypeOK
  <2>5. \A h \in Sessions : h # g => Waiting(h)' = Waiting(h)
    BY <2>2 DEF TypeOK
  <2>6. CASE fut[head] = "pending"
    <3>1. /\ state' = [state EXCEPT ![g] = "calling"]
          /\ inflight' = [inflight EXCEPT ![g] = head]
      BY <1>6, <2>6 DEF Take, SessionTo
    <3> HIDE DEF head
    <3>2. /\ state'[g] = "calling" /\ inflight'[g] = head
          /\ \A h \in Sessions : h # g => state'[h] = state[h] /\ inflight'[h] = inflight[h]
      BY <3>1 DEF TypeOK
    <3>3. Heard'
      BY <2>2, <2>4, <2>5, <3>2
    <3>4. Holding'
      BY <2>2, <3>2 DEF TypeOK
    <3> QED
      BY <3>3, <3>4
  <2>7. CASE fut[head] # "pending"
    <3>1. UNCHANGED <<state, inflight>>
      BY <1>6, <2>7 DEF Take
    <3> HIDE DEF head
    <3>2. \A q \in Requests : fut'[q] = "pending" =>
             fut[q] = "pending" /\ \A h \in Sessions : q \in Waiting(h) => q \in Waiting(h)'
      BY <2>2, <2>4, <2>5, <2>7
    <3>3. Heard'
      BY <2>2, <3>1, <3>2
    <3>4. Holding'
      BY <2>2, <3>1 DEF TypeOK
    <3> QED
      BY <3>3, <3>4
  <2> QED
    BY <2>6, <2>7
<1>7. ASSUME NEW g \in Sessions, Reply(g) \/ CallFails(g) PROVE Holding' /\ Heard'
  <2>1. /\ state[g] = "calling" /\ g \notin cancelled
        /\ UNCHANGED <<cancelled, requests>>
        /\ inflight' = [inflight EXCEPT ![g] = None]
        /\ \E s \in {"idle", "closing"} : state' = [state EXCEPT ![g] = s]
    BY <1>7 DEF Reply, CallFails, Running, SessionTo
  <2>2. /\ \A q \in Requests : fut'[q] = "pending" => fut[q] = "pending"
        /\ inflight[g] \in Requests => fut'[inflight[g]] # "pending"
    BY <1>7 DEF Reply, CallFails, Resolve, TypeOK
  <2>3. \A h \in Sessions : /\ h # g => inflight'[h] = inflight[h] /\ state'[h] = state[h]
                            /\ Live(h)' = Live(h)
    BY <2>1 DEF TypeOK
  <2>4. Heard'
    BY <2>1, <2>2, <2>3
  <2>5. Holding'
    BY <2>1, <2>3 DEF TypeOK
  <2> QED
    BY <2>4, <2>5
<1>8. ASSUME NEW g \in Sessions, Die(g) PROVE Holding' /\ Heard'
  <2>1. /\ Live(g) /\ state' = [state EXCEPT ![g] = "done"]
        /\ UNCHANGED <<cancelled, inflight>>
        /\ state[g] = "closing" \/ g \in cancelled
    BY <1>8 DEF Die, SessionTo
  <2>2. \A h \in Sessions : h # g => /\ state'[h] = state[h]
                                     /\ requests'[h] = requests[h]
    BY <1>8 DEF Die, SessionTo, TypeOK
  <2>3. \A q \in Requests : fut'[q] = "pending" => fut[q] = "pending"
    BY <1>8 DEF Die, TypeOK
  <2>4. g \notin cancelled => /\ inflight[g] = None
                             /\ \A q \in Waiting(g) \cap Requests : fut'[q] # "pending"
    <3>1. SUFFICES ASSUME g \notin cancelled PROVE
             /\ inflight[g] = None
             /\ \A q \in Waiting(g) \cap Requests : fut'[q] # "pending"
      OBVIOUS
    <3>2. state[g] = "closing"
      BY <2>1, <3>1
    <3>3. fut' = [r \in Callers |->
                    IF r \in Waiting(g) /\ fut[r] = "pending" THEN "broken" ELSE fut[r]]
      BY <1>8, <3>1, <3>2 DEF Die
    <3> QED
      BY <3>1, <3>2, <3>3
  <2>5. g \in cancelled => \A q \in Waiting(g) \cap Requests :
                              fut'[q] = "pending" => q \in Waiting(g)'
    <3>1. CASE state[g] = "created"
      BY <1>8, <3>1 DEF Die
    <3>2. CASE state[g] # "created" /\ g \in cancelled
      <4>1. fut' = [r \in Callers |->
                      IF r \in Waiting(g) /\ fut[r] = "pending" THEN "closed" ELSE fut[r]]
        BY <1>8, <3>2 DEF Die
      <4> QED
        BY <4>1
    <3> QED
      BY <3>1, <3>2
  <2>6. Heard'
    <3> SUFFICES ASSUME NEW q \in Requests, fut'[q] = "pending"
                 PROVE  \E h \in Sessions : /\ q \in Waiting(h)' \/ inflight'[h] = q
                                            /\ Live(h)' \/ h \in cancelled'
      OBVIOUS
    <3>1. PICK h \in Sessions : /\ q \in Waiting(h) \/ inflight[h] = q
                                /\ Live(h) \/ h \in cancelled
      BY <2>3
    <3>2. CASE h # g
      BY <2>1, <2>2, <3>1, <3>2
    <3>3. CASE h = g
      BY <2>1, <2>4, <2>5, <3>1, <3>3
    <3> QED
      BY <3>2, <3>3
  <2>7. Holding'
    BY <2>1, <2>2, <2>4 DEF TypeOK
  <2> QED
    BY <2>6, <2>7
<1>9. CASE Close
  BY <1>9 DEF Close
<1>10. CASE UNCHANGED vars
  BY <1>10 DEF vars
<1> QED
  BY <1>1, <1>2, <1>3, <1>4, <1>5, <1>6, <1>7, <1>8, <1>9, <1>10
     DEF Next, Call, Restart, Serve

(* A startup or transport failure reaches everyone who waits: only a session *)
(* that another call has killed can leave a request unanswered, to its own   *)
(* timeout.                                                                  *)
THEOREM FailuresSurface == Spec => []Heard
<1>1. Init => TypeOK /\ Holding /\ Heard
  <2> SUFFICES ASSUME Init PROVE TypeOK /\ Holding /\ Heard
    OBVIOUS
  <2>1. <<>> \in Seq(Requests)
    OBVIOUS
  <2>2. TypeOK
    BY <2>1, NoneAssumption DEF Init, TypeOK, Callers
  <2> QED
    BY <2>2 DEF Init, Holding, Heard, Callers
<1>2. TypeOK /\ Holding /\ Heard /\ [Next]_vars => TypeOK' /\ Holding' /\ Heard'
  BY TypeInductive, HeardInductive
<1> QED
  BY <1>1, <1>2, PTL DEF Spec

----------------------------------------------------------------------------
(* No call queues behind a hang.                                            *)

(* The session a restart waits for is one it has cancelled.                 *)
Killed == stopping # None => stopping \in cancelled

LEMMA KilledInductive == TypeOK /\ Known /\ Killed /\ [Next]_vars => Killed'
<1> SUFFICES ASSUME TypeOK, Known, Killed, [Next]_vars PROVE Killed'
  OBVIOUS
<1> USE DEF Killed
<1>1. ASSUME NEW r \in Requests, Submit(r) \/ Answered(r) \/ TimedOut(r) \/ Abandoned(r)
      PROVE  Killed'
  BY <1>1 DEF Submit, Answered, TimedOut, Abandoned, client
<1>2. ASSUME NEW r \in Callers, Stop(r) PROVE Killed'
  BY <1>2 DEF Stop, TypeOK
<1>3. ASSUME NEW r \in Callers, Stopped(r) PROVE Killed'
  BY <1>3 DEF Stopped
<1>4. ASSUME NEW g \in Sessions, Serve(g) \/ Die(g) PROVE Killed'
  BY <1>4 DEF Serve, Begin, Start, Take, Reply, CallFails, Die, client
<1>5. CASE Close \/ UNCHANGED vars
  BY <1>5 DEF Close, vars, client
<1> QED
  BY <1>1, <1>2, <1>3, <1>4, <1>5 DEF Next, Call, Restart

(* A session nobody has cancelled is in charge, and nobody is stopping one.  *)
LEMMA AliveInCharge ==
    ASSUME TypeOK, Known, Killed, NEW g \in Sessions, Live(g), g \notin cancelled
    PROVE  g = task /\ g \in InCharge /\ lock = None
BY NoneAssumption DEF TypeOK, Known, Killed, InCharge

(* The call a session left alone is making has not reported its timeout.    *)
HangInv == \A g \in Sessions, r \in Requests :
              state[g] = "calling" /\ g \notin cancelled /\ inflight[g] = r
                 => ~(pc[r] = "done" /\ fut[r] = "timeout")

LEMMA HangInductive == TypeOK /\ Known /\ Killed /\ HangInv /\ [Next]_vars => HangInv'
<1> SUFFICES ASSUME TypeOK, Known, Killed, HangInv, [Next]_vars,
                    NEW g \in Sessions, NEW q \in Requests,
                    state'[g] = "calling", g \notin cancelled', inflight'[g] = q,
                    pc'[q] = "done", fut'[q] = "timeout"
             PROVE  FALSE
  BY DEF HangInv
<1>0. \/ ~(state[g] = "calling" /\ g \notin cancelled /\ inflight[g] = q)
      \/ ~(pc[q] = "done" /\ fut[q] = "timeout")
  BY DEF HangInv
<1> USE NoneAssumption, <1>0 DEF Callers
<1>1. ASSUME NEW r \in Requests, Submit(r) PROVE FALSE
  <2>1. UNCHANGED <<cancelled, inflight>> /\ pc'[r] = "wait"
        /\ \A x \in Requests : x # r => pc'[x] = pc[x] /\ fut'[x] = fut[x]
    BY <1>1 DEF Submit, Goto, TypeOK
  <2>2. state'[g] = "calling" => state[g] = "calling"
    BY <1>1 DEF Submit, Join, Renew, SessionTo, TypeOK
  <2> QED
    BY <2>1, <2>2
<1>2. ASSUME NEW r \in Requests, Answered(r) \/ TimedOut(r) \/ Abandoned(r) PROVE FALSE
  <2>1. /\ UNCHANGED <<state, cancelled, inflight>>
        /\ \A x \in Requests : x # r => pc'[x] = pc[x] /\ fut'[x] = fut[x]
        /\ pc'[r] = "done" => fut'[r] # "timeout"
    BY <1>2 DEF Answered, TimedOut, Abandoned, Goto, TypeOK
  <2> QED
    BY <2>1
\* Whoever restarts, or has restarted, finds no session left alone.
<1>3. ASSUME NEW r \in Callers, Stop(r) \/ Stopped(r) PROVE FALSE
  <2>1. UNCHANGED <<fut, state, inflight>> /\ g \notin cancelled
    BY <1>3 DEF Stop, Stopped
  <2>2. g \in InCharge /\ lock = None
    BY <2>1, AliveInCharge DEF Live
  <2>3. CASE Stopped(r)
    BY <2>2, <2>3 DEF Stopped
  <2>4. CASE Stop(r)
    BY <2>2, <2>4 DEF Stop, InCharge
  <2> QED
    BY <1>3, <2>3, <2>4
<1>4. ASSUME NEW h \in Sessions, Take(h) PROVE FALSE
  <2>1. UNCHANGED <<pc, fut, cancelled>>
    BY <1>4 DEF Take
  <2>2. CASE UNCHANGED <<state, inflight>>
    BY <2>1, <2>2
  <2>3. CASE ~UNCHANGED <<state, inflight>>
    <3> DEFINE r == Head(requests[h])
    <3>1. /\ fut[r] = "pending" /\ state' = [state EXCEPT ![h] = "calling"]
          /\ inflight' = [inflight EXCEPT ![h] = r]
      BY <1>4, <2>3 DEF Take, SessionTo
    <3> HIDE DEF r
    <3>2. g = h => q = r
      BY <3>1 DEF TypeOK
    <3>3. g # h => state'[g] = state[g] /\ inflight'[g] = inflight[g]
      BY <3>1 DEF TypeOK
    <3> QED
      BY <2>1, <3>1, <3>2, <3>3
  <2> QED
    BY <2>2, <2>3
<1>5. ASSUME NEW h \in Sessions, Reply(h) \/ CallFails(h) PROVE FALSE
  <2>1. /\ UNCHANGED <<pc, cancelled>> /\ state'[h] # "calling"
        /\ \A x \in Sessions : x # h => state'[x] = state[x] /\ inflight'[x] = inflight[x]
    BY <1>5 DEF Reply, CallFails, SessionTo, TypeOK
  <2>2. fut'[q] = "timeout" => fut[q] = "timeout"
    BY <1>5 DEF Reply, CallFails, Resolve, TypeOK
  <2> QED
    BY <2>1, <2>2
<1>6. ASSUME NEW h \in Sessions, Begin(h) \/ Start(h) PROVE FALSE
  <2>1. /\ UNCHANGED <<pc, fut, cancelled, inflight>> /\ state'[h] # "calling"
        /\ \A x \in Sessions : x # h => state'[x] = state[x]
    BY <1>6 DEF Begin, Start, SessionTo, TypeOK
  <2> QED
    BY <2>1
<1>7. ASSUME NEW h \in Sessions, Die(h) PROVE FALSE
  <2>1. /\ UNCHANGED <<pc, cancelled, inflight>> /\ state'[h] # "calling"
        /\ \A x \in Sessions : x # h => state'[x] = state[x]
    BY <1>7 DEF Die, SessionTo, TypeOK
  <2>2. fut'[q] = "timeout" => fut[q] = "timeout"
    BY <1>7 DEF Die, TypeOK
  <2> QED
    BY <2>1, <2>2
<1>8. CASE Close
  BY <1>8 DEF Close, Goto, TypeOK
<1>9. CASE UNCHANGED vars
  BY <1>9 DEF vars
<1> QED
  BY <1>1, <1>2, <1>3, <1>4, <1>5, <1>6, <1>7, <1>8, <1>9 DEF Next, Call, Restart, Serve

LEMMA KordocInit == Init => TypeOK /\ Known /\ Killed /\ HangInv
<1> SUFFICES ASSUME Init PROVE TypeOK /\ Known /\ Killed /\ HangInv
  OBVIOUS
<1>1. <<>> \in Seq(Requests)
  OBVIOUS
<1> QED
  BY <1>1, NoneAssumption DEF Init, TypeOK, Known, Killed, HangInv, Live, Callers

(* "So the next call starts a fresh session instead of queueing behind a     *)
(* hang": whoever reports a timeout has seen to it that the session busy     *)
(* with its document was cancelled, whichever call killed it.                *)
THEOREM HangsAreKilled == Spec => []NoQueueBehindHang
<1>1. TypeOK /\ Known /\ Killed /\ HangInv /\ [Next]_vars
         => TypeOK' /\ Known' /\ Killed' /\ HangInv'
  BY TypeInductive, KnownInductive, KilledInductive, HangInductive
<1>2. TypeOK /\ HangInv => NoQueueBehindHang
  BY DEF TypeOK, HangInv, NoQueueBehindHang
<1> QED
  BY KordocInit, <1>1, <1>2, PTL DEF Spec

----------------------------------------------------------------------------
(* The safety half of ParsesOnce: an answer is given once and never changes. *)

(* A call that has stopped waiting has an outcome that is not open any more, *)
(* and the one that stops a session has stopped waiting.                     *)
Settled == \A r \in Requests :
              /\ pc[r] \in {"restart", "stop", "done"} => fut[r] # "pending"
              /\ lock = r => pc[r] = "stop"

LEMMA SettledInductive == TypeOK /\ Settled /\ [Next]_vars => Settled'
<1> SUFFICES ASSUME TypeOK, Settled, [Next]_vars PROVE Settled'
  OBVIOUS
<1> USE NoneAssumption DEF Callers, Settled, TypeOK
<1>1. ASSUME NEW r \in Requests, Submit(r) PROVE Settled'
  BY <1>1 DEF Submit, Goto
<1>2. ASSUME NEW r \in Requests, Answered(r) \/ TimedOut(r) \/ Abandoned(r) PROVE Settled'
  BY <1>2 DEF Answered, TimedOut, Abandoned, Goto, client
<1>3. ASSUME NEW r \in Callers, Stop(r) PROVE Settled'
  BY <1>3 DEF Stop, Goto
<1>4. ASSUME NEW r \in Callers, Stopped(r) PROVE Settled'
  BY <1>4 DEF Stopped, Goto
<1>5. ASSUME NEW g \in Sessions, Serve(g) \/ Die(g) PROVE Settled'
  <2>1. UNCHANGED <<pc, lock>>
    BY <1>5 DEF Serve, Begin, Start, Take, Reply, CallFails, Die, client
  <2>2. \A r \in Requests : fut'[r] = "pending" => fut[r] = "pending"
    BY <1>5 DEF Serve, Begin, Start, Take, Reply, CallFails, Die, Resolve
  <2> QED
    BY <2>1, <2>2
<1>6. CASE Close
  BY <1>6 DEF Close, Goto, client
<1>7. CASE UNCHANGED vars
  BY <1>7 DEF vars, client
<1> QED
  BY <1>1, <1>2, <1>3, <1>4, <1>5, <1>6, <1>7 DEF Next, Call, Restart

(* The outcome the ingest graph sees of a call.                             *)
Outcome(r) == IF pc[r] # "done" THEN "none" ELSE IF fut[r] = "ok" THEN "text" ELSE "error"
answers == [r \in Requests |-> Outcome(r)]

(* A step ends at most one call, and leaves the outcome of an ended one.    *)
LEMMA OneAnswer ==
    ASSUME TypeOK, Settled, Next
    PROVE  \/ \A r \in Requests : Outcome(r)' = Outcome(r)
           \/ \E r \in Requests : /\ Outcome(r) = "none"
                                  /\ \A x \in Requests \ {r} : Outcome(x)' = Outcome(x)
<1> USE NoneAssumption DEF Callers, TypeOK, Outcome
<1>1. ASSUME NEW r \in Requests, Submit(r) \/ Answered(r) \/ TimedOut(r) \/ Abandoned(r)
      PROVE  Outcome(r) = "none" /\ \A x \in Requests \ {r} : Outcome(x)' = Outcome(x)
  BY <1>1 DEF Submit, Answered, TimedOut, Abandoned, Goto
<1>2. ASSUME NEW r \in Callers, Stop(r) \/ Stopped(r)
      PROVE  /\ r \in Requests => Outcome(r) = "none"
             /\ \A x \in Requests \ {r} : Outcome(x)' = Outcome(x)
  BY <1>2 DEF Stop, Stopped, Goto, Settled
<1>3. ASSUME NEW g \in Sessions, Serve(g) \/ Die(g)
      PROVE  \A r \in Requests : Outcome(r)' = Outcome(r)
  <2>1. UNCHANGED pc
    BY <1>3 DEF Serve, Begin, Start, Take, Reply, CallFails, Die
  <2>2. \A r \in Requests : fut[r] # "pending" => fut'[r] = fut[r]
    BY <1>3 DEF Serve, Begin, Start, Take, Reply, CallFails, Die, Resolve
  <2> QED
    BY <2>1, <2>2 DEF Settled
<1>4. CASE Close
  BY <1>4 DEF Close, Goto
<1> QED
  BY <1>1, <1>2, <1>3, <1>4 DEF Next, Call, Restart

LEMMA ServiceStep == TypeOK /\ Settled /\ [Next]_vars => [Service!Next]_answers
<1> SUFFICES ASSUME TypeOK, Settled, [Next]_vars PROVE [Service!Next]_answers
  OBVIOUS
<1>1. CASE \A r \in Requests : Outcome(r)' = Outcome(r)
  BY <1>1 DEF answers
<1>2. ASSUME NEW r \in Requests, Outcome(r) = "none", Outcome(r)' # Outcome(r),
             \A x \in Requests \ {r} : Outcome(x)' = Outcome(x)
      PROVE  Service!Next
  <2>1. Outcome(r)' \in {"text", "error"}
    BY <1>2 DEF Outcome
  <2>2. answers' = [answers EXCEPT ![r] = Outcome(r)']
    BY <1>2 DEF answers, Outcome
  <2>3. answers[r] = "none"
    BY <1>2 DEF answers
  <2> QED
    BY <2>1, <2>2, <2>3 DEF Service!Next, Service!Answer, answers, Outcome
<1>3. CASE UNCHANGED vars
  BY <1>3, <1>1 DEF vars, Outcome
<1> QED
  BY <1>1, <1>2, <1>3, OneAnswer

(* Every call is answered at most once, and no later failure, timeout or     *)
(* cancellation changes the answer.                                          *)
THEOREM AnswersOnce == Spec => Service!Safe
<1>1. Init => Settled /\ Service!Init
  BY NoneAssumption DEF Init, Settled, Service!Init, Callers
<1>2. TypeOK /\ Settled /\ [Next]_vars => TypeOK' /\ Settled' /\ [Service!Next]_answers
  BY TypeInductive, SettledInductive, ServiceStep
<1> QED
  BY KordocInit, <1>1, <1>2, PTL DEF Spec, Service!Safe, answers, Outcome

=============================================================================
