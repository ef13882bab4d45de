------------------------------ MODULE ChatProofs ------------------------------
(***************************************************************************)
(* For any teams, connections, retries and faults: what a turn is given    *)
(* stays within its scope, and client and server never wait for each       *)
(* other.                                                                  *)
(***************************************************************************)
EXTENDS Chat, TLAPS

Named    == Turns \cup {None}
Messages == [kind : {"message"}, turn : Turns, want : SUBSET Teams, feedback : BOOLEAN,
             late : BOOLEAN]
Replies  == [kind : {"resume"}, turn : Named, score : {"low", "high", "none"}, late : BOOLEAN]
Events   == [kind : {"stream", "complete", "error", "score", "reason"}, turn : Named]
Clients  == [at : {"off", "prompt", "wait", "score", "reason"}, asked : Named, shown : Named,
             end : {"none", "complete", "error"}, late : BOOLEAN]

TypeOK ==
    /\ member \subseteq Teams /\ client \in [Conns -> Clients]
    /\ up \in [Conns -> Seq(Messages \cup Replies)] /\ down \in [Conns -> Seq(Events)]
    /\ pc \in [Conns -> Pcs] /\ thread \in [Conns -> Pauses]
    /\ joined \in [Conns -> SUBSET Teams] /\ run \in [Conns -> Run]
    /\ convs \in Seq(Conv) /\ summary \subseteq Turns /\ facts \in Nat
    /\ left \in [Conns -> Nat] /\ faults \in Nat /\ rolled \subseteq Turns
    /\ crossed \in BOOLEAN

\* What a turn is given is within its scope, and that within the user's teams.
Within(c) == run[c].from \subseteq run[c].scope /\ run[c].scope \subseteq joined[c]
Stored    == \A i \in DOMAIN convs : convs[i].from \subseteq convs[i].scope \cap convs[i].joined

\* A turn that is under way, or paused, has a name.
Turning(c) == pc[c] \in {"graphs", "context"} \cup GraphPcs \/ thread[c] # "none"
                 => run[c].turn \in Turns

\* A handler that waits has told the client how the last stream ended.
Told(c) == pc[c] = "idle" /\ down[c] # <<>> => down[c][Len(down[c])].kind # "stream"
Heard(c) == client[c].at = "wait" /\ pc[c] = "idle" => up[c] # <<>> \/ down[c] # <<>>

Sane(c) == Within(c) /\ Turning(c) /\ Told(c) /\ Heard(c)

IInv == TypeOK /\ Stored /\ \A c \in Conns : Sane(c)

----------------------------------------------------------------------------
(* What the helpers of the model do to the variables of a connection.      *)

\* Everything of the other connections is as it was.
Same(c) == \A d \in Conns \ {c} :
    /\ client'[d] = client[d] /\ up'[d] = up[d] /\ down'[d] = down[d] /\ pc'[d] = pc[d]
    /\ thread'[d] = thread[d] /\ joined'[d] = joined[d] /\ run'[d] = run[d]

LEMMA StepOK ==
    ASSUME IInv, NEW c \in Conns, TypeOK', Stored', Same(c), Sane(c)'
    PROVE  IInv'
<1>1. ASSUME NEW d \in Conns \ {c} PROVE Sane(d)'
  BY DEF IInv, Same, Sane, Within, Turning, Told, Heard
<1> QED
  BY <1>1 DEF IInv

LEMMA IdleType == Idle \in Run /\ Idle.from = {} /\ Idle.scope = {} /\ Off \in Clients
                  /\ Off.at = "off"
BY DEF Idle, Run, Off, Clients, Named

LEMMA NoneIsNoTurn == None \notin Turns
BY DEF None, Turns

LEMMA SetRun ==
    ASSUME TypeOK, NEW c \in Conns, NEW r \in Run, run' = [run EXCEPT ![c] = r]
    PROVE  run' \in [Conns -> Run] /\ run'[c] = r /\ \A d \in Conns \ {c} : run'[d] = run[d]
BY DEF TypeOK

LEMMA SetClient ==
    ASSUME TypeOK, NEW c \in Conns, NEW r \in Clients, client' = [client EXCEPT ![c] = r]
    PROVE  /\ client' \in [Conns -> Clients] /\ client'[c] = r
           /\ \A d \in Conns \ {c} : client'[d] = client[d]
BY DEF TypeOK

LEMMA GotoType ==
    ASSUME TypeOK, NEW c \in Conns, NEW l \in Pcs, Goto(c, l)
    PROVE  pc' \in [Conns -> Pcs] /\ pc'[c] = l /\ \A d \in Conns \ {c} : pc'[d] = pc[d]
BY DEF TypeOK, Goto

LEMMA PauseType ==
    ASSUME TypeOK, NEW c \in Conns, NEW l \in Pauses, Pause(c, l)
    PROVE  /\ thread' \in [Conns -> Pauses] /\ thread'[c] = l
           /\ \A d \in Conns \ {c} : thread'[d] = thread[d]
BY DEF TypeOK, Pause

LEMMA ForgetType ==
    ASSUME TypeOK, NEW c \in Conns, Forget(c)
    PROVE  /\ run' \in [Conns -> Run] /\ run'[c] = Idle
           /\ \A d \in Conns \ {c} : run'[d] = run[d]
BY SetRun, IdleType DEF Forget

LEMMA SetDown ==
    ASSUME TypeOK, NEW c \in Conns, NEW s \in Seq(Events), down' = [down EXCEPT ![c] = s]
    PROVE  /\ down' \in [Conns -> Seq(Events)] /\ down'[c] = s
           /\ \A d \in Conns \ {c} : down'[d] = down[d]
BY DEF TypeOK

LEMMA SetUp ==
    ASSUME TypeOK, NEW c \in Conns, NEW s \in Seq(Messages \cup Replies),
           up' = [up EXCEPT ![c] = s]
    PROVE  /\ up' \in [Conns -> Seq(Messages \cup Replies)] /\ up'[c] = s
           /\ \A d \in Conns \ {c} : up'[d] = up[d]
BY DEF TypeOK

\* An event at the end of the stream.
Ending(c) == /\ down' \in [Conns -> Seq(Events)] /\ down'[c] # <<>>
             /\ down'[c][Len(down'[c])].kind # "stream"
             /\ \A d \in Conns \ {c} : down'[d] = down[d]

LEMMA SendType ==
    ASSUME TypeOK, NEW c \in Conns,
           NEW k \in {"complete", "error", "score", "reason"}, Send(c, k, None)
    PROVE  Ending(c)
<1> DEFINE e == [kind |-> k, turn |-> None]
           s == Append(down[c], e)
<1>1. e \in Events /\ e.kind # "stream"
  BY DEF Events, Named
<1>2. down[c] \in Seq(Events)
  BY DEF TypeOK
<1> HIDE DEF e
<1>3. s \in Seq(Events) /\ s # <<>> /\ s[Len(s)] = e
  BY <1>1, <1>2
<1>4. down' = [down EXCEPT ![c] = s]
  BY DEF Send, e
<1> HIDE DEF s
<1> QED
  BY <1>1, <1>3, <1>4, SetDown DEF Ending

LEMMA EndType ==
    ASSUME TypeOK, NEW c \in Conns, NEW where \in Pauses,
           StreamEnd(c, where) \/ StreamFails(c, where)
    PROVE  /\ Ending(c)
           /\ pc' \in [Conns -> Pcs] /\ pc'[c] = "idle" /\ \A d \in Conns \ {c} : pc'[d] = pc[d]
           /\ thread' \in [Conns -> Pauses] /\ thread'[c] = where
           /\ \A d \in Conns \ {c} : thread'[d] = thread[d]
<1>1. \E k \in {"complete", "error", "score", "reason"} : Send(c, k, None)
  BY DEF StreamEnd, StreamFails
<1>2. Ending(c)
  BY <1>1, SendType
<1>3. "idle" \in Pcs /\ Goto(c, "idle") /\ Pause(c, where)
  BY DEF Pcs, StreamEnd, StreamFails
<1> QED
  BY <1>2, <1>3, GotoType, PauseType

----------------------------------------------------------------------------
(* The client.                                                             *)

\* A step that leaves the stored conversations alone.
LEMMA StoredKept == ASSUME Stored, UNCHANGED convs PROVE Stored'
BY DEF Stored

LEMMA AdmitOK ==
    ASSUME TypeOK, NEW c \in Conns, Admit(c)
    PROVE  /\ pc' \in [Conns -> Pcs] /\ thread' \in [Conns -> Pauses]
           /\ joined' \in [Conns -> SUBSET Teams] /\ down' \in [Conns -> Seq(Events)]
           /\ run' \in [Conns -> Run]
           /\ pc'[c] = "idle" /\ thread'[c] = "none" /\ down'[c] = <<>> /\ run'[c] = Idle
           /\ \A d \in Conns \ {c} :
                 /\ down'[d] = down[d] /\ pc'[d] = pc[d] /\ thread'[d] = thread[d]
                 /\ joined'[d] = joined[d] /\ run'[d] = run[d]
<1>1. Goto(c, "idle") /\ Pause(c, "none") /\ "idle" \in Pcs /\ "none" \in Pauses
  BY DEF Admit, Pcs, Pauses
<1>2. joined' \in [Conns -> SUBSET Teams] /\ \A d \in Conns \ {c} : joined'[d] = joined[d]
  BY DEF Admit, TypeOK
<1>3. down' = [down EXCEPT ![c] = <<>>] /\ <<>> \in Seq(Events)
  BY DEF Admit
<1>4. run' = [run EXCEPT ![c] = Idle] /\ Idle \in Run
  BY IdleType DEF Admit
<1>5. /\ down' \in [Conns -> Seq(Events)] /\ down'[c] = <<>>
      /\ \A d \in Conns \ {c} : down'[d] = down[d]
  BY <1>3, SetDown
<1>6. /\ run' \in [Conns -> Run] /\ run'[c] = Idle
      /\ \A d \in Conns \ {c} : run'[d] = run[d]
  BY <1>4, SetRun
<1>7. /\ pc' \in [Conns -> Pcs] /\ pc'[c] = "idle" /\ \A d \in Conns \ {c} : pc'[d] = pc[d]
  BY <1>1, GotoType
<1>8. /\ thread' \in [Conns -> Pauses] /\ thread'[c] = "none"
      /\ \A d \in Conns \ {c} : thread'[d] = thread[d]
  BY <1>1, PauseType
<1> QED
  BY <1>2, <1>5, <1>6, <1>7, <1>8

LEMMA ConnectOK == ASSUME IInv, NEW c \in Conns, Connect(c) PROVE IInv'
<1>0. TypeOK /\ Stored
  BY DEF IInv
<1>1. /\ Admit(c) /\ client' = [client EXCEPT ![c] = [Off EXCEPT !.at = "prompt"]]
      /\ up' = [up EXCEPT ![c] = <<>>] /\ UNCHANGED <<member, left, db_vars, faults>>
  BY DEF Connect
<1>2. [Off EXCEPT !.at = "prompt"] \in Clients /\ [Off EXCEPT !.at = "prompt"].at = "prompt"
  BY DEF Off, Clients, Named
<1>3. /\ client' \in [Conns -> Clients] /\ client'[c].at = "prompt"
      /\ \A d \in Conns \ {c} : client'[d] = client[d]
  BY <1>0, <1>1, <1>2, SetClient
<1>4. /\ up' \in [Conns -> Seq(Messages \cup Replies)]
      /\ \A d \in Conns \ {c} : up'[d] = up[d]
  <2>1. <<>> \in Seq(Messages \cup Replies)
    OBVIOUS
  <2> QED
    BY <1>0, <1>1, <2>1, SetUp
<1>5. TypeOK'
  BY <1>0, <1>1, <1>3, <1>4, AdmitOK DEF TypeOK, db_vars
<1>6. Same(c)
  BY <1>0, <1>1, <1>3, <1>4, AdmitOK DEF Same
<1>7. Sane(c)'
  BY <1>0, <1>1, <1>3, AdmitOK, IdleType DEF Sane, Within, Turning, Told, Heard, GraphPcs, SavePcs,
     FactPcs
<1>8. Stored'
  BY <1>0, <1>1, StoredKept DEF db_vars
<1> QED
  BY <1>5, <1>6, <1>7, <1>8, StepOK

\* What a client sends with a question.
LEMMA QuestionType ==
    ASSUME TypeOK, NEW c \in Conns, left[c] > 0, NEW want \in Wants, NEW feedback \in BOOLEAN,
           NEW late \in BOOLEAN
    PROVE  Question(<<c, left[c]>>, want, feedback, late) \in Messages
<1>1. left[c] \in Nat /\ left[c] # 0
  BY DEF TypeOK
<1>2. <<c, left[c]>> \in Turns
  BY <1>1 DEF Turns
<1>3. want \in SUBSET Teams
  BY ScopesAssumption
<1> QED
  BY <1>2, <1>3 DEF Question, Messages

LEMMA WaitingType ==
    ASSUME TypeOK, NEW c \in Conns, left[c] > 0, NEW late \in BOOLEAN
    PROVE  /\ [Off EXCEPT !.at = "wait", !.asked = <<c, left[c]>>, !.late = late] \in Clients
           /\ [Off EXCEPT !.at = "wait", !.asked = <<c, left[c]>>] \in Clients
<1>1. left[c] \in Nat /\ left[c] # 0
  BY DEF TypeOK
<1>2. <<c, left[c]>> \in Named
  BY <1>1 DEF Turns, Named
<1> QED
  BY <1>2 DEF Off, Clients, Named

LEMMA LeftType ==
    ASSUME TypeOK, NEW c \in Conns, left[c] > 0, left' = [left EXCEPT ![c] = @ - 1]
    PROVE  left' \in [Conns -> Nat]
<1>1. left \in [Conns -> Nat] /\ left[c] \in Nat
  BY DEF TypeOK
<1>2. left[c] - 1 \in Nat
  BY <1>1
<1> QED
  BY <1>1, <1>2

LEMMA AskOK == ASSUME IInv, NEW c \in Conns, Ask(c) PROVE IInv'
<1>0. TypeOK /\ Stored /\ client[c] \in Clients /\ up[c] \in Seq(Messages \cup Replies) /\ Sane(c)
  BY DEF IInv, TypeOK
<1>a. client[c].late \in BOOLEAN
  BY <1>0 DEF Clients
<1> DEFINE r == [Off EXCEPT !.at = "wait", !.asked = <<c, left[c]>>, !.late = client[c].late]
<1>1. /\ left[c] > 0 /\ left' = [left EXCEPT ![c] = @ - 1] /\ client' = [client EXCEPT ![c] = r]
      /\ UNCHANGED <<member, down, pc, thread, joined, run, db_vars, faults>>
  BY DEF Ask, conn_vars
<1>2. PICK want \in Wants, feedback \in BOOLEAN :
         up' = [up EXCEPT ![c] = Append(@, Question(<<c, left[c]>>, want, feedback, client[c].late))]
  BY DEF Ask
<1> DEFINE q == Question(<<c, left[c]>>, want, feedback, client[c].late)
           s == Append(up[c], q)
<1>3. q \in Messages /\ r \in Clients
  BY <1>0, <1>1, <1>a, QuestionType, WaitingType
<1>4. up' = [up EXCEPT ![c] = s]
  BY <1>2
<1> HIDE DEF q, r
<1>5. s \in Seq(Messages \cup Replies) /\ s # <<>>
  BY <1>0, <1>3
<1> HIDE DEF s
<1>6. /\ up' \in [Conns -> Seq(Messages \cup Replies)] /\ up'[c] # <<>>
      /\ \A d \in Conns \ {c} : up'[d] = up[d]
  BY <1>0, <1>4, <1>5, SetUp
<1>7. client' \in [Conns -> Clients] /\ \A d \in Conns \ {c} : client'[d] = client[d]
  BY <1>0, <1>1, <1>3, SetClient
<1>8. left' \in [Conns -> Nat]
  BY <1>0, <1>1, LeftType
<1>9. TypeOK'
  BY <1>0, <1>1, <1>6, <1>7, <1>8 DEF TypeOK, db_vars
<1>10. Same(c)
  BY <1>1, <1>6, <1>7 DEF Same
<1>11. Sane(c)'
  BY <1>0, <1>1, <1>6 DEF Sane, Within, Turning, Told, Heard
<1>12. Stored'
  BY <1>0, <1>1, StoredKept DEF db_vars
<1> QED
  BY <1>9, <1>10, <1>11, <1>12, StepOK

LEMMA AskAgainOK == ASSUME IInv, NEW c \in Conns, AskAgain(c) PROVE IInv'
<1>0. TypeOK /\ Stored
  BY DEF IInv
<1> DEFINE r == [Off EXCEPT !.at = "wait", !.asked = <<c, left[c]>>]
<1>1. /\ left[c] > 0 /\ left' = [left EXCEPT ![c] = @ - 1] /\ client' = [client EXCEPT ![c] = r]
      /\ Admit(c) /\ UNCHANGED <<member, db_vars, faults>>
  BY DEF AskAgain
<1>2. PICK want \in Wants, feedback \in BOOLEAN :
         up' = [up EXCEPT ![c] = <<Question(<<c, left[c]>>, want, feedback, FALSE)>>]
  BY DEF AskAgain
<1> DEFINE q == Question(<<c, left[c]>>, want, feedback, FALSE)
           s == <<q>>
<1>3. q \in Messages /\ r \in Clients
  BY <1>0, <1>1, QuestionType, WaitingType
<1>4. up' = [up EXCEPT ![c] = s]
  BY <1>2
<1> HIDE DEF q, r
<1>5. s \in Seq(Messages \cup Replies) /\ s # <<>>
  BY <1>3
<1> HIDE DEF s
<1>6. /\ up' \in [Conns -> Seq(Messages \cup Replies)] /\ up'[c] # <<>>
      /\ \A d \in Conns \ {c} : up'[d] = up[d]
  BY <1>0, <1>4, <1>5, SetUp
<1>7. client' \in [Conns -> Clients] /\ \A d \in Conns \ {c} : client'[d] = client[d]
  BY <1>0, <1>1, <1>3, SetClient
<1>8. left' \in [Conns -> Nat]
  BY <1>0, <1>1, LeftType
<1>9. TypeOK'
  BY <1>0, <1>1, <1>6, <1>7, <1>8, AdmitOK DEF TypeOK, db_vars
<1>10. Same(c)
  BY <1>0, <1>1, <1>6, <1>7, AdmitOK DEF Same
<1>11. Sane(c)'
  BY <1>0, <1>1, <1>6, AdmitOK, IdleType DEF Sane, Within, Turning, Told, Heard, GraphPcs, SavePcs,
     FactPcs
<1>12. Stored'
  BY <1>0, <1>1, StoredKept DEF db_vars
<1> QED
  BY <1>9, <1>10, <1>11, <1>12, StepOK

LEMMA TailLast ==
    ASSUME NEW q \in Seq(Events), q # <<>>
    PROVE  /\ Tail(q) \in Seq(Events)
           /\ Tail(q) # <<>> => Tail(q)[Len(Tail(q))] = q[Len(q)]
           /\ Tail(q) = <<>> => Head(q) = q[Len(q)]
<1>1. Len(q) \in Nat /\ Len(q) > 0
  OBVIOUS
<1>2. Tail(q) \in Seq(Events) /\ Len(Tail(q)) = Len(q) - 1
  BY <1>1
<1>3. ASSUME Tail(q) # <<>> PROVE Tail(q)[Len(Tail(q))] = q[Len(q)]
  <2>1. Len(Tail(q)) > 0
    BY <1>2, <1>3
  <2> QED
    BY <1>1, <1>2, <2>1
<1>4. ASSUME Tail(q) = <<>> PROVE Head(q) = q[Len(q)]
  <2>1. Len(q) = 1
    BY <1>1, <1>2, <1>4
  <2> QED
    BY <2>1
<1> QED
  BY <1>2, <1>3, <1>4

LEMMA ReceiveOK == ASSUME IInv, NEW c \in Conns, Receive(c) PROVE IInv'
<1>0. /\ TypeOK /\ Stored /\ client[c] \in Clients /\ down[c] \in Seq(Events) /\ Sane(c)
      /\ down[c] # <<>>
  BY DEF IInv, TypeOK, Receive
<1> DEFINE e == Head(down[c])
           r == CASE e.kind = "stream"                -> [client[c] EXCEPT !.shown = e.turn]
                  [] e.kind \in {"complete", "error"} -> [client[c] EXCEPT !.at = "prompt",
                                                                           !.end = e.kind]
                  [] e.kind = "score"                 -> [client[c] EXCEPT !.at = "score"]
                  [] e.kind = "reason"                -> [client[c] EXCEPT !.at = "reason"]
           s == Tail(down[c])
<1>1. e \in Events
  BY <1>0
<1>2. e.kind \in {"stream", "complete", "error", "score", "reason"} /\ e.turn \in Named
  BY <1>1 DEF Events
<1>3. r \in Clients /\ (r.at = "wait" => e.kind = "stream")
  <2>1. CASE e.kind = "stream"
    <3>1. r = [client[c] EXCEPT !.shown = e.turn]
      BY <2>1
    <3>2. [client[c] EXCEPT !.shown = e.turn] \in Clients
      BY <1>0, <1>2 DEF Clients
    <3> QED
      BY <2>1, <3>1, <3>2
  <2>2. CASE e.kind \in {"complete", "error"}
    <3>1. r = [client[c] EXCEPT !.at = "prompt", !.end = e.kind]
      BY <2>2
    <3>2. /\ [client[c] EXCEPT !.at = "prompt", !.end = e.kind] \in Clients
          /\ [client[c] EXCEPT !.at = "prompt", !.end = e.kind].at = "prompt"
      BY <1>0, <2>2 DEF Clients
    <3> QED
      BY <3>1, <3>2
  <2>3. CASE e.kind \in {"score", "reason"}
    <3>1. r = [client[c] EXCEPT !.at = e.kind]
      BY <2>3
    <3>2. [client[c] EXCEPT !.at = e.kind] \in Clients /\ [client[c] EXCEPT !.at = e.kind].at = e.kind
      BY <1>0, <2>3 DEF Clients
    <3> QED
      BY <2>3, <3>1, <3>2
  <2> QED
    BY <1>2, <2>1, <2>2, <2>3
<1>4. /\ client' = [client EXCEPT ![c] = r] /\ down' = [down EXCEPT ![c] = s]
      /\ UNCHANGED <<member, up, left, pc, thread, joined, run, db_vars, faults>>
  <2>1. down' = [down EXCEPT ![c] = s]
    BY DEF Receive
  <2>2. UNCHANGED <<member, up, left, pc, thread, joined, run, db_vars, faults>>
    BY DEF Receive, conn_vars
  <2>3. client' = [client EXCEPT ![c] = r]
    BY DEF Receive
  <2> QED
    BY <2>1, <2>2, <2>3
<1> HIDE DEF r
<1>5. s \in Seq(Events) /\ (s # <<>> => s[Len(s)] = down[c][Len(down[c])])
      /\ (s = <<>> => e = down[c][Len(down[c])])
  BY <1>0, TailLast
<1> HIDE DEF s, e
<1>6. /\ down' \in [Conns -> Seq(Events)] /\ down'[c] = s
      /\ \A d \in Conns \ {c} : down'[d] = down[d]
  BY <1>0, <1>4, <1>5, SetDown
<1>7. /\ client' \in [Conns -> Clients] /\ client'[c] = r
      /\ \A d \in Conns \ {c} : client'[d] = client[d]
  BY <1>0, <1>3, <1>4, SetClient
<1>8. TypeOK'
  BY <1>0, <1>4, <1>6, <1>7 DEF TypeOK, db_vars
<1>9. Same(c)
  BY <1>4, <1>6, <1>7 DEF Same
<1>10. Within(c)' /\ Turning(c)'
  BY <1>0, <1>4 DEF Sane, Within, Turning
<1>11. Told(c)'
  BY <1>0, <1>4, <1>5, <1>6 DEF Sane, Told
<1>12. Heard(c)'
  BY <1>0, <1>3, <1>4, <1>5, <1>6, <1>7 DEF Sane, Told, Heard
<1>13. Stored'
  BY <1>0, <1>4, StoredKept DEF db_vars
<1> QED
  BY <1>8, <1>9, <1>10, <1>11, <1>12, <1>13, StepOK DEF Sane

\* The prompt returns.
LEMMA PromptOK ==
    ASSUME IInv, NEW c \in Conns, ReceiveClosed(c) \/ GiveUp(c)
    PROVE  IInv'
<1>0. TypeOK /\ Stored /\ client[c] \in Clients /\ faults \in Nat /\ Sane(c)
  BY DEF IInv, TypeOK
<1>1. UNCHANGED <<member, up, left, down, pc, thread, joined, run, db_vars>> /\ faults' \in Nat
  BY <1>0 DEF ReceiveClosed, GiveUp, conn_vars
<1>2. \E r \in Clients : r.at = "prompt" /\ client' = [client EXCEPT ![c] = r]
  <2>1. CASE ReceiveClosed(c)
    <3>1. client' = [client EXCEPT ![c] = [client[c] EXCEPT !.at = "prompt"]]
      BY <2>1 DEF ReceiveClosed
    <3>2. /\ [client[c] EXCEPT !.at = "prompt"] \in Clients
          /\ [client[c] EXCEPT !.at = "prompt"].at = "prompt"
      BY <1>0 DEF Clients
    <3> QED
      BY <3>1, <3>2
  <2>2. CASE GiveUp(c)
    <3>1. client' = [client EXCEPT ![c] = [client[c] EXCEPT !.at = "prompt", !.late = TRUE]]
      BY <2>2 DEF GiveUp
    <3>2. /\ [client[c] EXCEPT !.at = "prompt", !.late = TRUE] \in Clients
          /\ [client[c] EXCEPT !.at = "prompt", !.late = TRUE].at = "prompt"
      BY <1>0 DEF Clients
    <3> QED
      BY <3>1, <3>2
  <2> QED
    BY <2>1, <2>2
<1>3. /\ client' \in [Conns -> Clients] /\ client'[c].at = "prompt"
      /\ \A d \in Conns \ {c} : client'[d] = client[d]
  BY <1>0, <1>2, SetClient
<1>4. TypeOK'
  BY <1>0, <1>1, <1>3 DEF TypeOK, db_vars
<1>5. Same(c)
  BY <1>1, <1>3 DEF Same
<1>6. Sane(c)'
  BY <1>0, <1>1, <1>3 DEF Sane, Within, Turning, Told, Heard
<1>7. Stored'
  BY <1>0, <1>1, StoredKept DEF db_vars
<1> QED
  BY <1>4, <1>5, <1>6, <1>7, StepOK

LEMMA AnswerOK == ASSUME IInv, NEW c \in Conns, Answer(c) PROVE IInv'
<1>0. TypeOK /\ Stored /\ client[c] \in Clients /\ up[c] \in Seq(Messages \cup Replies) /\ Sane(c)
  BY DEF IInv, TypeOK
<1>1. UNCHANGED <<member, left, down, pc, thread, joined, run, db_vars, faults>>
  BY DEF Answer, conn_vars
<1>2. Stored'
  BY <1>0, <1>1, StoredKept DEF db_vars
<1>3. CASE pc[c] = "off"
  <2>1. client' = [client EXCEPT ![c] = Off] /\ up' = up
    BY <1>3 DEF Answer
  <2>2. /\ client' \in [Conns -> Clients] /\ client'[c].at = "off"
        /\ \A d \in Conns \ {c} : client'[d] = client[d]
    BY <1>0, <2>1, SetClient, IdleType
  <2>3. TypeOK'
    BY <1>0, <1>1, <2>1, <2>2 DEF TypeOK, db_vars
  <2>4. Same(c)
    BY <1>1, <2>1, <2>2 DEF Same
  <2>5. Sane(c)'
    BY <1>0, <1>1, <2>1, <2>2 DEF Sane, Within, Turning, Told, Heard
  <2> QED
    BY <1>2, <2>3, <2>4, <2>5, StepOK
<1>4. CASE pc[c] # "off"
  <2> DEFINE r == [client[c] EXCEPT !.at = "wait"]
  <2>1. PICK score \in {"low", "high", "none"} :
           up' = [up EXCEPT ![c] = Append(@, Reply(client[c].shown, score, client[c].late))]
    BY <1>4 DEF Answer
  <2> DEFINE q == Reply(client[c].shown, score, client[c].late)
             s == Append(up[c], q)
  <2>2. client' = [client EXCEPT ![c] = r] /\ up' = [up EXCEPT ![c] = s]
    BY <1>4, <2>1 DEF Answer
  <2>3. client[c].shown \in Named /\ client[c].late \in BOOLEAN
    BY <1>0 DEF Clients
  <2>4. q \in Replies /\ r \in Clients
    BY <1>0, <2>3 DEF Reply, Replies, Clients
  <2> HIDE DEF q, r
  <2>5. s \in Seq(Messages \cup Replies) /\ s # <<>>
    BY <1>0, <2>4
  <2> HIDE DEF s
  <2>6. /\ up' \in [Conns -> Seq(Messages \cup Replies)] /\ up'[c] # <<>>
        /\ \A d \in Conns \ {c} : up'[d] = up[d]
    BY <1>0, <2>2, <2>5, SetUp
  <2>7. client' \in [Conns -> Clients] /\ \A d \in Conns \ {c} : client'[d] = client[d]
    BY <1>0, <2>2, <2>4, SetClient
  <2>8. TypeOK'
    BY <1>0, <1>1, <2>6, <2>7 DEF TypeOK, db_vars
  <2>9. Same(c)
    BY <1>1, <2>6, <2>7 DEF Same
  <2>10. Sane(c)'
    BY <1>0, <1>1, <2>6 DEF Sane, Within, Turning, Told, Heard
  <2> QED
    BY <1>2, <2>8, <2>9, <2>10, StepOK
<1> QED
  BY <1>3, <1>4

----------------------------------------------------------------------------
(* The endpoint.                                                           *)

\* A connection whose handler works, is gone, or has just ended a stream.
LEMMA SaneAfter ==
    ASSUME NEW c \in Conns, joined' = joined,
           run'[c].from \subseteq run'[c].scope, run'[c].scope \subseteq joined[c],
           run'[c].turn \in Turns \/ (pc'[c] \in {"off", "idle"} /\ thread'[c] = "none"),
           pc'[c] = "idle" => Ending(c)
    PROVE  Sane(c)'
BY DEF Sane, Within, Turning, Told, Heard, Ending, GraphPcs, SavePcs, FactPcs

LEMMA RunParts ==
    ASSUME TypeOK, NEW c \in Conns
    PROVE  /\ run[c] \in Run /\ run[c].from \subseteq Teams /\ run[c].scope \subseteq Teams
           /\ run[c].turn \in Named /\ run[c].rated \in Named /\ run[c].late \in BOOLEAN
           /\ run[c].retry \in Nat /\ run[c].roll \subseteq Turns /\ run[c].feedback \in BOOLEAN
BY DEF TypeOK, Run, Named

LEMMA RefuseOK ==
    ASSUME TypeOK, NEW c \in Conns, Refuse(c)
    PROVE  /\ Ending(c) /\ run' \in [Conns -> Run] /\ run'[c] = Idle
           /\ pc' \in [Conns -> Pcs] /\ pc'[c] = "off"
           /\ thread' \in [Conns -> Pauses] /\ thread'[c] = "none"
           /\ \A d \in Conns \ {c} : run'[d] = run[d] /\ pc'[d] = pc[d] /\ thread'[d] = thread[d]
<1>1. /\ Send(c, "error", None) /\ Goto(c, "off") /\ Pause(c, "none") /\ Forget(c)
      /\ "off" \in Pcs /\ "none" \in Pauses
  BY DEF Refuse, Pcs, Pauses
<1>2. Ending(c)
  BY <1>1, SendType
<1>3. pc' \in [Conns -> Pcs] /\ pc'[c] = "off" /\ \A d \in Conns \ {c} : pc'[d] = pc[d]
  BY <1>1, GotoType
<1>4. /\ thread' \in [Conns -> Pauses] /\ thread'[c] = "none"
      /\ \A d \in Conns \ {c} : thread'[d] = thread[d]
  BY <1>1, PauseType
<1> QED
  BY <1>1, <1>2, <1>3, <1>4, ForgetType

LEMMA TailUp ==
    ASSUME TypeOK, NEW c \in Conns, up[c] # <<>>, up' = [up EXCEPT ![c] = Tail(@)]
    PROVE  /\ up' \in [Conns -> Seq(Messages \cup Replies)]
           /\ \A d \in Conns \ {c} : up'[d] = up[d]
<1>1. up[c] \in Seq(Messages \cup Replies)
  BY DEF TypeOK
<1>2. Tail(up[c]) \in Seq(Messages \cup Replies)
  BY <1>1
<1>3. up' = [up EXCEPT ![c] = Tail(up[c])]
  OBVIOUS
<1> QED
  BY <1>2, <1>3, SetUp

LEMMA HeadUp ==
    ASSUME TypeOK, NEW c \in Conns, up[c] # <<>>
    PROVE  Head(up[c]) \in Messages \cup Replies
<1>1. up[c] \in Seq(Messages \cup Replies)
  BY DEF TypeOK
<1> QED
  BY <1>1

\* What an action of the server leaves alone, and what it has to show.
LEMMA ServedOK ==
    ASSUME IInv, NEW c \in Conns, Env, UNCHANGED joined, Stored', Sane(c)',
           up' \in [Conns -> Seq(Messages \cup Replies)], down' \in [Conns -> Seq(Events)],
           pc' \in [Conns -> Pcs], thread' \in [Conns -> Pauses], run' \in [Conns -> Run],
           convs' \in Seq(Conv), summary' \subseteq Turns, facts' \in Nat,
           rolled' \subseteq Turns, crossed' \in BOOLEAN,
           \A d \in Conns \ {c} : /\ up'[d] = up[d] /\ down'[d] = down[d] /\ pc'[d] = pc[d]
                                  /\ thread'[d] = thread[d] /\ run'[d] = run[d]
    PROVE  IInv'
<1>1. TypeOK'
  BY DEF IInv, TypeOK, Env
<1>2. Same(c)
  BY DEF Same, Env
<1> QED
  BY <1>1, <1>2, StepOK

LEMMA DbKept ==
    ASSUME TypeOK, Stored, UNCHANGED db_vars
    PROVE  /\ Stored' /\ convs' \in Seq(Conv) /\ summary' \subseteq Turns /\ facts' \in Nat
           /\ rolled' \subseteq Turns /\ crossed' \in BOOLEAN
BY StoredKept DEF TypeOK, db_vars

LEMMA ServeMessageOK == ASSUME IInv, NEW c \in Conns, ServeMessage(c) PROVE IInv'
<1>0. TypeOK /\ Stored
  BY DEF IInv
<1> DEFINE m == Head(up[c])
<1>1. /\ up[c] # <<>> /\ m.kind = "message" /\ up' = [up EXCEPT ![c] = Tail(@)]
      /\ UNCHANGED <<joined, db_vars>> /\ Env
  BY DEF ServeMessage
<1>2. m \in Messages
  <2>1. m \in Messages \cup Replies
    BY <1>0, <1>1, HeadUp
  <2> QED
    BY <1>1, <2>1 DEF Replies
<1>3. /\ up' \in [Conns -> Seq(Messages \cup Replies)]
      /\ \A d \in Conns \ {c} : up'[d] = up[d]
  BY <1>0, <1>1, TailUp
<1>4. /\ Stored' /\ convs' \in Seq(Conv) /\ summary' \subseteq Turns /\ facts' \in Nat
      /\ rolled' \subseteq Turns /\ crossed' \in BOOLEAN
  BY <1>0, <1>1, DbKept
<1>5. CASE Refuse(c)
  <2>1. Ending(c) /\ run'[c] = Idle /\ pc'[c] = "off" /\ thread'[c] = "none"
    BY <1>0, <1>5, RefuseOK
  <2>2. Sane(c)'
    BY <1>1, <2>1, SaneAfter, IdleType
  <2>3. down' \in [Conns -> Seq(Events)] /\ \A d \in Conns \ {c} : down'[d] = down[d]
    BY <2>1 DEF Ending
  <2>4. /\ run' \in [Conns -> Run] /\ pc' \in [Conns -> Pcs] /\ thread' \in [Conns -> Pauses]
        /\ \A d \in Conns \ {c} : run'[d] = run[d] /\ pc'[d] = pc[d] /\ thread'[d] = thread[d]
    BY <1>0, <1>5, RefuseOK
  <2> QED
    BY <1>1, <1>3, <1>4, <2>2, <2>3, <2>4, ServedOK
<1>6. CASE ~Refuse(c)
  <2> DEFINE r == [Idle EXCEPT !.turn = m.turn, !.scope = Scope(c, m.want),
                               !.feedback = m.feedback, !.late = m.late]
  <2>1. run' = [run EXCEPT ![c] = r] /\ Goto(c, "graphs") /\ UNCHANGED <<down, thread>>
    BY <1>6 DEF ServeMessage
  <2>2. /\ m.turn \in Turns /\ m.feedback \in BOOLEAN /\ m.late \in BOOLEAN
    BY <1>2 DEF Messages
  <2>3. Scope(c, m.want) \subseteq joined[c] /\ joined[c] \subseteq Teams
    BY <1>0 DEF Scope, TypeOK
  <2> HIDE DEF m
  <2>4. r \in Run /\ r.turn \in Turns /\ r.from = {} /\ r.scope \subseteq joined[c]
    BY <2>2, <2>3 DEF Idle, Run
  <2> HIDE DEF r
  <2>5. run' \in [Conns -> Run] /\ run'[c] = r /\ \A d \in Conns \ {c} : run'[d] = run[d]
    BY <1>0, <2>1, <2>4, SetRun
  <2>6. "graphs" \in Pcs
    BY DEF Pcs
  <2>7. pc' \in [Conns -> Pcs] /\ pc'[c] = "graphs" /\ \A d \in Conns \ {c} : pc'[d] = pc[d]
    BY <1>0, <2>1, <2>6, GotoType
  <2>8. Sane(c)'
    BY <1>1, <2>4, <2>5, <2>7, SaneAfter
  <2>9. thread' \in [Conns -> Pauses] /\ down' \in [Conns -> Seq(Events)]
    BY <1>0, <2>1 DEF TypeOK
  <2> QED
    BY <1>1, <1>3, <1>4, <2>1, <2>5, <2>7, <2>8, <2>9, ServedOK
<1> QED
  BY <1>5, <1>6

LEMMA ResolveGraphsOK == ASSUME IInv, NEW c \in Conns, ResolveGraphs(c) PROVE IInv'
<1>0. TypeOK /\ Stored /\ Sane(c)
  BY DEF IInv
<1>1. UNCHANGED <<up, joined, db_vars>> /\ Env /\ pc[c] = "graphs"
  BY DEF ResolveGraphs
<1>2. /\ Stored' /\ convs' \in Seq(Conv) /\ summary' \subseteq Turns /\ facts' \in Nat
      /\ rolled' \subseteq Turns /\ crossed' \in BOOLEAN
  BY <1>0, <1>1, DbKept
<1>3. up' \in [Conns -> Seq(Messages \cup Replies)] /\ up' = up
  BY <1>0, <1>1 DEF TypeOK
<1>4. CASE Refuse(c)
  <2>1. Ending(c) /\ run'[c] = Idle /\ pc'[c] = "off" /\ thread'[c] = "none"
    BY <1>0, <1>4, RefuseOK
  <2>2. Sane(c)'
    BY <1>1, <2>1, SaneAfter, IdleType
  <2>3. down' \in [Conns -> Seq(Events)] /\ \A d \in Conns \ {c} : down'[d] = down[d]
    BY <2>1 DEF Ending
  <2>4. /\ run' \in [Conns -> Run] /\ pc' \in [Conns -> Pcs] /\ thread' \in [Conns -> Pauses]
        /\ \A d \in Conns \ {c} : run'[d] = run[d] /\ pc'[d] = pc[d] /\ thread'[d] = thread[d]
    BY <1>0, <1>4, RefuseOK
  <2> QED
    BY <1>1, <1>2, <1>3, <2>2, <2>3, <2>4, ServedOK
<1>5. CASE ~Refuse(c)
  <2>1. /\ Goto(c, "context") /\ Pause(c, "none") /\ UNCHANGED <<down, run>>
        /\ "context" \in Pcs /\ "none" \in Pauses
    BY <1>5 DEF ResolveGraphs, Pcs, Pauses
  <2>2. pc' \in [Conns -> Pcs] /\ pc'[c] = "context" /\ \A d \in Conns \ {c} : pc'[d] = pc[d]
    BY <1>0, <2>1, GotoType
  <2>3. /\ thread' \in [Conns -> Pauses] /\ \A d \in Conns \ {c} : thread'[d] = thread[d]
    BY <1>0, <2>1, PauseType
  <2>4. run'[c].turn \in Turns /\ run'[c].from \subseteq run'[c].scope
        /\ run'[c].scope \subseteq joined[c]
    BY <1>0, <1>1, <2>1 DEF Sane, Within, Turning
  <2>5. Sane(c)'
    BY <1>1, <2>2, <2>4, SaneAfter
  <2>6. run' \in [Conns -> Run] /\ down' \in [Conns -> Seq(Events)]
    BY <1>0, <2>1 DEF TypeOK
  <2> QED
    BY <1>1, <1>2, <1>3, <2>1, <2>2, <2>3, <2>5, <2>6, ServedOK
<1> QED
  BY <1>4, <1>5

\* The connection's queues and its turn, as far as a step of the graph may change them.
Steps(c) ==
    /\ Env /\ UNCHANGED joined
    /\ up' \in [Conns -> Seq(Messages \cup Replies)] /\ \A d \in Conns \ {c} : up'[d] = up[d]
    /\ run' \in [Conns -> Run] /\ \A d \in Conns \ {c} : run'[d] = run[d]
    /\ run'[c].from \subseteq run'[c].scope /\ run'[c].scope \subseteq joined[c]
    /\ Stored' /\ convs' \in Seq(Conv) /\ summary' \subseteq Turns /\ facts' \in Nat
    /\ rolled' \subseteq Turns /\ crossed' \in BOOLEAN

LEMMA EndsOK ==
    ASSUME IInv, NEW c \in Conns, Steps(c), NEW where \in Pauses,
           StreamEnd(c, where) \/ StreamFails(c, where),
           where = "none" \/ run'[c].turn \in Turns
    PROVE  IInv'
<1>0. TypeOK
  BY DEF IInv
<1>1. /\ Ending(c)
      /\ pc' \in [Conns -> Pcs] /\ pc'[c] = "idle" /\ \A d \in Conns \ {c} : pc'[d] = pc[d]
      /\ thread' \in [Conns -> Pauses] /\ thread'[c] = where
      /\ \A d \in Conns \ {c} : thread'[d] = thread[d]
  BY <1>0, EndType
<1>2. joined' = joined /\ run'[c].from \subseteq run'[c].scope /\ run'[c].scope \subseteq joined[c]
  BY DEF Steps
<1>3. Sane(c)'
  BY <1>1, <1>2, SaneAfter
<1>4. down' \in [Conns -> Seq(Events)] /\ \A d \in Conns \ {c} : down'[d] = down[d]
  BY <1>1 DEF Ending
<1> QED
  BY <1>1, <1>3, <1>4, ServedOK DEF Steps

LEMMA GoesOK ==
    ASSUME IInv, NEW c \in Conns, Steps(c), NEW l \in Pcs \ {"idle", "off"}, Goto(c, l),
           Pause(c, "none") \/ UNCHANGED thread, run'[c].turn \in Turns,
           down' \in [Conns -> Seq(Events)], \A d \in Conns \ {c} : down'[d] = down[d]
    PROVE  IInv'
<1>0. TypeOK
  BY DEF IInv
<1>1. pc' \in [Conns -> Pcs] /\ pc'[c] = l /\ \A d \in Conns \ {c} : pc'[d] = pc[d]
  BY <1>0, GotoType
<1>2. /\ thread' \in [Conns -> Pauses] /\ \A d \in Conns \ {c} : thread'[d] = thread[d]
  <2>1. CASE Pause(c, "none")
    <3>1. "none" \in Pauses
      BY DEF Pauses
    <3> QED
      BY <1>0, <2>1, <3>1, PauseType
  <2>2. CASE UNCHANGED thread
    BY <1>0, <2>2 DEF TypeOK
  <2> QED
    BY <2>1, <2>2
<1>3. joined' = joined /\ run'[c].from \subseteq run'[c].scope /\ run'[c].scope \subseteq joined[c]
  BY DEF Steps
<1>4. Sane(c)'
  BY <1>1, <1>3, SaneAfter
<1> QED
  BY <1>1, <1>2, <1>4, ServedOK DEF Steps

\* A node of the turn fails: the client is told, and the node stays due.
LEMMA FailsOK ==
    ASSUME IInv, NEW c \in Conns, NEW where \in Due, Env, StreamFails(c, where),
           UNCHANGED <<up, joined, run>>, run[c].turn \in Turns,
           Stored', convs' \in Seq(Conv), summary' \subseteq Turns, facts' \in Nat,
           rolled' \subseteq Turns, crossed' \in BOOLEAN
    PROVE  IInv'
<1>1. /\ up' \in [Conns -> Seq(Messages \cup Replies)] /\ run' \in [Conns -> Run]
      /\ run'[c].from \subseteq run'[c].scope /\ run'[c].scope \subseteq joined[c]
  BY DEF IInv, TypeOK, Sane, Within
<1>2. Steps(c) /\ where \in Pauses
  BY <1>1 DEF Steps, Pauses
<1> QED
  BY <1>2, EndsOK

\* A step that leaves the database and the turn alone.
LEMMA StepsKept ==
    ASSUME IInv, NEW c \in Conns, Env, UNCHANGED <<joined, run, db_vars>>,
           up' \in [Conns -> Seq(Messages \cup Replies)], \A d \in Conns \ {c} : up'[d] = up[d]
    PROVE  Steps(c)
<1>0. TypeOK /\ Stored /\ Sane(c)
  BY DEF IInv
<1>1. /\ Stored' /\ convs' \in Seq(Conv) /\ summary' \subseteq Turns /\ facts' \in Nat
      /\ rolled' \subseteq Turns /\ crossed' \in BOOLEAN
  BY <1>0, DbKept
<1>2. /\ run' \in [Conns -> Run] /\ \A d \in Conns \ {c} : run'[d] = run[d]
      /\ run'[c].from \subseteq run'[c].scope /\ run'[c].scope \subseteq joined[c]
  BY <1>0 DEF TypeOK, Sane, Within
<1> QED
  BY <1>1, <1>2 DEF Steps

LEMMA ResumeScoreOK ==
    ASSUME IInv, NEW c \in Conns, ResumeScore(c), Env, UNCHANGED <<joined, db_vars>>,
           Head(up[c]).turn \in Named, Head(up[c]).late \in BOOLEAN,
           up' \in [Conns -> Seq(Messages \cup Replies)], \A d \in Conns \ {c} : up'[d] = up[d]
    PROVE  IInv'
<1>0. TypeOK /\ Stored /\ Sane(c)
  BY DEF IInv
<1> DEFINE q == run[c]
           r == [q EXCEPT !.rated = Head(up[c]).turn, !.late = run[c].late \/ Head(up[c]).late]
<1>1. run' = [run EXCEPT ![c] = r]
  BY Zenon DEF ResumeScore
<1>a. thread[c] # "none"
  BY DEF ResumeScore
<1>2. q \in Run /\ q.turn \in Turns /\ q.from \subseteq q.scope /\ q.scope \subseteq joined[c]
  BY <1>0, <1>a, RunParts DEF Sane, Within, Turning
<1> HIDE DEF q
<1>3. r \in Run /\ r.turn = q.turn /\ r.from = q.from /\ r.scope = q.scope
  BY <1>2 DEF Run, Named
<1> HIDE DEF r
<1>4. run' \in [Conns -> Run] /\ run'[c] = r /\ \A d \in Conns \ {c} : run'[d] = run[d]
  BY <1>0, <1>1, <1>3, SetRun
<1>5. /\ Stored' /\ convs' \in Seq(Conv) /\ summary' \subseteq Turns /\ facts' \in Nat
      /\ rolled' \subseteq Turns /\ crossed' \in BOOLEAN
  BY <1>0, DbKept
<1>6. Steps(c) /\ run'[c].turn \in Turns
  BY <1>2, <1>3, <1>4, <1>5 DEF Steps
<1>7. CASE StreamEnd(c, "reason")
  <2>1. "reason" \in Pauses
    BY DEF Pauses
  <2> QED
    BY <1>6, <1>7, <2>1, EndsOK
<1>8. CASE ~StreamEnd(c, "reason")
  <2>1. /\ Goto(c, "summarize") /\ Pause(c, "none") /\ UNCHANGED down
        /\ "summarize" \in Pcs \ {"idle", "off"}
    BY <1>8 DEF ResumeScore, Pcs, GraphPcs
  <2>2. down' \in [Conns -> Seq(Events)] /\ \A d \in Conns \ {c} : down'[d] = down[d]
    BY <1>0, <2>1 DEF TypeOK
  <2> QED
    BY <1>6, <2>1, <2>2, GoesOK
<1> QED
  BY <1>7, <1>8

LEMMA ServeResumeOK == ASSUME IInv, NEW c \in Conns, ServeResume(c) PROVE IInv'
<1>0. TypeOK /\ Stored /\ Sane(c)
  BY DEF IInv
<1>1. /\ up[c] # <<>> /\ Head(up[c]).kind = "resume" /\ up' = [up EXCEPT ![c] = Tail(@)]
      /\ UNCHANGED <<joined, db_vars>> /\ Env
  BY DEF ServeResume
<1>2. Head(up[c]).turn \in Named /\ Head(up[c]).late \in BOOLEAN
  <2>1. Head(up[c]) \in Messages \cup Replies
    BY <1>0, <1>1, HeadUp
  <2> QED
    BY <1>1, <2>1 DEF Replies, Messages
<1>3. /\ up' \in [Conns -> Seq(Messages \cup Replies)]
      /\ \A d \in Conns \ {c} : up'[d] = up[d]
  BY <1>0, <1>1, TailUp
<1>4. down \in [Conns -> Seq(Events)] /\ thread[c] \in Pauses
  BY <1>0 DEF TypeOK
<1>5. CASE ResumeScore(c)
  BY <1>1, <1>2, <1>3, <1>5, ResumeScoreOK
<1>6. CASE ResumeReason(c)
  <2>1. Steps(c)
    BY <1>1, <1>3, <1>6, StepsKept DEF ResumeReason
  <2>2. run'[c].turn \in Turns
    BY <1>0, <1>6 DEF ResumeReason, Sane, Turning
  <2>3. "reason" \in Pauses /\ "summarize" \in Pcs \ {"idle", "off"}
    BY DEF Pauses, Pcs, GraphPcs
  <2>4. CASE StreamFails(c, "reason")
    BY <2>1, <2>2, <2>3, <2>4, EndsOK
  <2>5. CASE Goto(c, "summarize") /\ Pause(c, "none") /\ UNCHANGED down
    BY <1>4, <2>1, <2>2, <2>3, <2>5, GoesOK
  <2> QED
    BY <1>6, <2>4, <2>5 DEF ResumeReason
<1>7. CASE ResumeFailed(c)
  <2> DEFINE q == run[c]
             r == [q EXCEPT !.late = run[c].late \/ Head(up[c]).late]
  <2>1. run' = [run EXCEPT ![c] = r]
    BY <1>7, Zenon DEF ResumeFailed
  <2>a. thread[c] \in Due /\ thread[c] # "none"
    BY <1>7 DEF ResumeFailed, Due
  <2>2. q \in Run /\ q.turn \in Turns /\ q.from \subseteq q.scope /\ q.scope \subseteq joined[c]
    BY <1>0, <2>a, RunParts DEF Sane, Within, Turning
  <2> HIDE DEF q
  <2>3. r \in Run /\ r.turn = q.turn /\ r.from = q.from /\ r.scope = q.scope
    BY <1>2, <2>2 DEF Run
  <2> HIDE DEF r
  <2>4. run' \in [Conns -> Run] /\ run'[c] = r /\ \A d \in Conns \ {c} : run'[d] = run[d]
    BY <1>0, <2>1, <2>3, SetRun
  <2>5. /\ Stored' /\ convs' \in Seq(Conv) /\ summary' \subseteq Turns /\ facts' \in Nat
        /\ rolled' \subseteq Turns /\ crossed' \in BOOLEAN
    BY <1>0, <1>1, DbKept
  <2>6. Steps(c) /\ run'[c].turn \in Turns
    BY <1>1, <1>3, <2>2, <2>3, <2>4, <2>5 DEF Steps
  <2>7. /\ thread[c] \in Pcs \ {"idle", "off"} /\ Goto(c, thread[c]) /\ Pause(c, "none")
        /\ UNCHANGED down
    BY <1>7 DEF ResumeFailed, Due, Pcs, GraphPcs
  <2> QED
    BY <1>4, <2>6, <2>7, GoesOK
<1>8. CASE ResumeFinished(c)
  <2>1. Steps(c)
    BY <1>1, <1>3, <1>8, StepsKept DEF ResumeFinished
  <2>2. "none" \in Pauses /\ StreamEnd(c, "none")
    BY <1>8 DEF Pauses, ResumeFinished
  <2> QED
    BY <2>1, <2>2, EndsOK
<1> QED
  BY <1>5, <1>6, <1>7, <1>8 DEF ServeResume

----------------------------------------------------------------------------
(* The graph.                                                              *)

\* What earlier turns bring along stays within the scope.
LEMMA ContextScoped ==
    ASSUME Stored, NEW scope
    PROVE  UNION {convs[i].from : i \in Recent(scope)} \subseteq scope
<1> SUFFICES ASSUME NEW i \in Recent(scope) PROVE convs[i].from \subseteq scope
  OBVIOUS
<1>1. i \in DOMAIN convs /\ convs[i].scope \subseteq scope
  BY DEF Recent, Fits
<1> QED
  BY <1>1 DEF Stored

\* A step of the graph that changes nothing but what the turn is given, and where it is.
LEMMA GatherOK ==
    ASSUME IInv, NEW c \in Conns, Env, UNCHANGED <<up, down, thread, joined, db_vars>>,
           pc[c] \in {"context"} \cup GraphPcs, NEW l \in Pcs \ {"idle", "off"}, Goto(c, l),
           NEW r \in Run, r.from \subseteq r.scope, r.scope = run[c].scope, r.turn = run[c].turn,
           run' = [run EXCEPT ![c] = r]
    PROVE  IInv'
<1>0. TypeOK /\ Stored /\ Sane(c)
  BY DEF IInv
<1>1. /\ Stored' /\ convs' \in Seq(Conv) /\ summary' \subseteq Turns /\ facts' \in Nat
      /\ rolled' \subseteq Turns /\ crossed' \in BOOLEAN
  BY <1>0, DbKept
<1>2. run' \in [Conns -> Run] /\ run'[c] = r /\ \A d \in Conns \ {c} : run'[d] = run[d]
  BY <1>0, SetRun
<1>3. run[c].turn \in Turns /\ run[c].scope \subseteq joined[c]
  BY <1>0 DEF Sane, Within, Turning
<1>4. up' \in [Conns -> Seq(Messages \cup Replies)] /\ down' \in [Conns -> Seq(Events)]
  BY <1>0 DEF TypeOK
<1>5. Steps(c)
  BY <1>1, <1>2, <1>3, <1>4 DEF Steps
<1> QED
  BY <1>2, <1>3, <1>4, <1>5, GoesOK

LEMMA BuildContextOK == ASSUME IInv, NEW c \in Conns, BuildContext(c) PROVE IInv'
<1>0. TypeOK /\ Stored /\ Sane(c)
  BY DEF IInv
<1>1. UNCHANGED <<up, joined, db_vars>> /\ Env /\ pc[c] = "context"
  BY DEF BuildContext
<1>2. CASE UNCHANGED <<down, thread>> /\ Route(c) /\ run' = [run EXCEPT ![c].from =
                UNION {convs[i].from : i \in Recent(run[c].scope)}]
  <2> DEFINE q == run[c]
             got == UNION {convs[i].from : i \in Recent(run[c].scope)}
             r == [q EXCEPT !.from = got]
  <2>1. run' = [run EXCEPT ![c] = r]
    BY <1>2
  <2>2. q \in Run /\ got \subseteq q.scope /\ q.scope \subseteq Teams
    BY <1>0, RunParts, ContextScoped
  <2> HIDE DEF q, got
  <2>3. r \in Run /\ r.from \subseteq r.scope /\ r.scope = q.scope /\ r.turn = q.turn
    BY <2>2 DEF Run
  <2> HIDE DEF r
  <2>4. r.scope = run[c].scope /\ r.turn = run[c].turn
    BY <2>3 DEF q
  <2>5. PICK l \in {"generate", "search"} : Goto(c, l)
    BY <1>2 DEF Route
  <2>6. l \in Pcs \ {"idle", "off"} /\ UNCHANGED <<up, down, thread, joined, db_vars>>
    BY <1>1, <1>2 DEF Pcs, GraphPcs
  <2> QED
    BY <1>1, <2>1, <2>3, <2>4, <2>5, <2>6, GatherOK
<1>3. CASE StreamFails(c, "context") /\ UNCHANGED run
  <2>1. /\ Stored' /\ convs' \in Seq(Conv) /\ summary' \subseteq Turns /\ facts' \in Nat
        /\ rolled' \subseteq Turns /\ crossed' \in BOOLEAN
    BY <1>0, <1>1, DbKept
  <2>2. run[c].turn \in Turns /\ "context" \in Due
    BY <1>0, <1>1 DEF Sane, Turning, Due
  <2> QED
    BY <1>1, <1>3, <2>1, <2>2, FailsOK
<1> QED
  BY <1>2, <1>3 DEF BuildContext

LEMMA SearchOK == ASSUME IInv, NEW c \in Conns, Search(c) PROVE IInv'
<1>0. TypeOK /\ Stored /\ Sane(c) /\ pc[c] \in {"context"} \cup GraphPcs
  BY DEF IInv, Search, GraphPcs
<1>1. UNCHANGED <<up, joined, db_vars>> /\ Env
  BY DEF Search
<1> DEFINE q == run[c]
           got == Retrieved(c)
<1>2. q \in Run /\ q.retry \in Nat /\ got \subseteq q.scope /\ q.scope \subseteq Teams
  BY <1>0, RunParts DEF Retrieved, Sane, Within
<1>3. q.turn \in Turns
  BY <1>0 DEF Sane, Turning
<1>4. CASE /\ run' = [run EXCEPT ![c].from = Retrieved(c)] /\ Goto(c, "generate")
           /\ UNCHANGED <<down, thread>>
  <2> DEFINE r == [q EXCEPT !.from = got]
  <2>1. run' = [run EXCEPT ![c] = r]
    BY <1>4
  <2> HIDE DEF q, got
  <2>2. r \in Run /\ r.from \subseteq r.scope /\ r.scope = q.scope /\ r.turn = q.turn
    BY <1>2 DEF Run
  <2> HIDE DEF r
  <2>3. r.scope = run[c].scope /\ r.turn = run[c].turn
    BY <2>2 DEF q
  <2>4. "generate" \in Pcs \ {"idle", "off"} /\ Goto(c, "generate")
    BY <1>4 DEF Pcs, GraphPcs
  <2>5. UNCHANGED <<up, down, thread, joined, db_vars>>
    BY <1>1, <1>4
  <2> QED
    BY <1>0, <1>1, <2>1, <2>2, <2>3, <2>4, <2>5, GatherOK
<1>5. CASE /\ run' = [run EXCEPT ![c].from = Retrieved(c), ![c].retry = @ + 1]
           /\ Goto(c, EvaluateRoute(run[c].retry + 1)) /\ UNCHANGED <<down, thread>>
  <2> DEFINE r == [q EXCEPT !.from = got, !.retry = q.retry + 1]
             l == EvaluateRoute(run[c].retry + 1)
  <2>1. run' = [run EXCEPT ![c] = r]
    <3>1. run \in [Conns -> Run]
      BY <1>0 DEF TypeOK
    <3> QED
      BY <1>5, <3>1
  <2>2. l \in Pcs \ {"idle", "off"} /\ Goto(c, l)
    BY <1>5 DEF Pcs, GraphPcs, EvaluateRoute
  <2> HIDE DEF q, got, l
  <2>3. q.retry + 1 \in Nat
    BY <1>2
  <2>4. r \in Run /\ r.from \subseteq r.scope /\ r.scope = q.scope /\ r.turn = q.turn
    BY <1>2, <2>3 DEF Run
  <2> HIDE DEF r
  <2>5. r.scope = run[c].scope /\ r.turn = run[c].turn
    BY <2>4 DEF q
  <2>6. UNCHANGED <<up, down, thread, joined, db_vars>>
    BY <1>1, <1>5
  <2> QED
    BY <1>0, <1>1, <2>1, <2>2, <2>4, <2>5, <2>6, GatherOK
<1>6. CASE StreamFails(c, "search") /\ UNCHANGED run
  <2>1. up' \in [Conns -> Seq(Messages \cup Replies)] /\ up' = up
    BY <1>0, <1>1 DEF TypeOK
  <2>2. Steps(c) /\ run'[c].turn \in Turns
    BY <1>1, <1>3, <1>6, <2>1, StepsKept
  <2>3. "search" \in Pauses
    BY DEF Pauses, Due
  <2> QED
    BY <1>6, <2>2, <2>3, EndsOK
<1> QED
  BY <1>4, <1>5, <1>6 DEF Search

LEMMA GenerateOK == ASSUME IInv, NEW c \in Conns, Generate(c) PROVE IInv'
<1>0. TypeOK /\ Stored /\ Sane(c) /\ pc[c] \in GraphPcs
  BY DEF IInv, Generate, GraphPcs
<1>1. UNCHANGED <<up, joined, run, db_vars>> /\ Env
  BY DEF Generate
<1>2. run[c].turn \in Turns /\ run[c].feedback \in BOOLEAN /\ down[c] \in Seq(Events)
  BY <1>0, RunParts DEF Sane, Turning, TypeOK
<1>3. up' \in [Conns -> Seq(Messages \cup Replies)] /\ up' = up
  BY <1>0, <1>1 DEF TypeOK
<1>4. Steps(c) /\ run'[c].turn \in Turns
  BY <1>1, <1>2, <1>3, StepsKept
<1>5. CASE StreamFails(c, "generate")
  <2>1. "generate" \in Pauses
    BY DEF Pauses, Due
  <2> QED
    BY <1>4, <1>5, <2>1, EndsOK
<1>6. CASE ~StreamFails(c, "generate")
  <2> DEFINE e == [kind |-> "stream", turn |-> run[c].turn]
             a == [kind |-> "score", turn |-> None]
             s == down[c] \o <<e>> \o <<a>>
             t == down[c] \o <<e>>
  <2>1. e \in Events /\ a \in Events /\ a.kind # "stream"
    BY <1>2 DEF Events, Named
  <2>2. /\ down' = [down EXCEPT ![c] = @ \o <<e>> \o (IF run[c].feedback THEN <<a>> ELSE <<>>)]
        /\ Pause(c, FeedbackRoute(c)) /\ Goto(c, IF run[c].feedback THEN "idle" ELSE "summarize")
    BY <1>6 DEF Generate
  <2>3. CASE run[c].feedback
    <3>1. down' = [down EXCEPT ![c] = s] /\ Pause(c, "score") /\ Goto(c, "idle")
      BY <2>2, <2>3 DEF FeedbackRoute
    <3> HIDE DEF e, a
    <3>2. s \in Seq(Events) /\ s # <<>> /\ s[Len(s)] = a
      BY <1>2, <2>1
    <3> HIDE DEF s
    <3>3. /\ down' \in [Conns -> Seq(Events)] /\ down'[c] = s
          /\ \A d \in Conns \ {c} : down'[d] = down[d]
      BY <1>0, <3>1, <3>2, SetDown
    <3>4. Ending(c)
      BY <2>1, <3>2, <3>3 DEF Ending
    <3>5. "score" \in Pauses /\ "idle" \in Pcs
      BY DEF Pauses, Pcs
    <3>6. /\ pc' \in [Conns -> Pcs] /\ pc'[c] = "idle" /\ \A d \in Conns \ {c} : pc'[d] = pc[d]
      BY <1>0, <3>1, <3>5, GotoType
    <3>7. /\ thread' \in [Conns -> Pauses] /\ \A d \in Conns \ {c} : thread'[d] = thread[d]
      BY <1>0, <3>1, <3>5, PauseType
    <3>8. /\ joined' = joined
          /\ run'[c].from \subseteq run'[c].scope /\ run'[c].scope \subseteq joined[c]
      BY <1>4 DEF Steps
    <3>9. Sane(c)'
      BY <1>4, <3>4, <3>8, SaneAfter
    <3> QED
      BY <1>4, <3>3, <3>6, <3>7, <3>9, ServedOK DEF Steps
  <2>4. CASE ~run[c].feedback
    <3>1. Pause(c, "none") /\ Goto(c, "summarize") /\ "summarize" \in Pcs \ {"idle", "off"}
      BY <2>2, <2>4 DEF FeedbackRoute, Pcs, GraphPcs
    <3>2. down' = [down EXCEPT ![c] = t]
      <4>1. down' = [down EXCEPT ![c] = @ \o <<e>> \o <<>>]
        BY <2>2, <2>4
      <4> HIDE DEF e
      <4>2. down[c] \o <<e>> \o <<>> = t
        BY <1>2, <2>1
      <4> QED
        BY <4>1, <4>2
    <3> HIDE DEF e
    <3>3. t \in Seq(Events)
      BY <1>2, <2>1
    <3> HIDE DEF t
    <3>4. /\ down' \in [Conns -> Seq(Events)] /\ \A d \in Conns \ {c} : down'[d] = down[d]
      BY <1>0, <3>2, <3>3, SetDown
    <3> QED
      BY <1>4, <3>1, <3>4, GoesOK
  <2> QED
    BY <2>3, <2>4
<1> QED
  BY <1>5, <1>6

\* The facts that the steps of the write-back share.
LEMMA WritesBack ==
    ASSUME IInv, NEW c \in Conns, pc[c] \in GraphPcs, UNCHANGED <<up, joined>>
    PROVE  /\ TypeOK /\ Stored /\ Within(c)
           /\ run[c].turn \in Turns /\ run[c].from \subseteq run[c].scope
           /\ run[c].scope \subseteq joined[c]
           /\ up' \in [Conns -> Seq(Messages \cup Replies)] /\ up' = up
           /\ UNCHANGED down => down' \in [Conns -> Seq(Events)] /\ down' = down
BY DEF IInv, TypeOK, Sane, Within, Turning

\* The row of a turn is within its scope.
LEMMA RowOK ==
    ASSUME TypeOK, Stored, NEW c \in Conns, run[c].turn \in Turns, Within(c),
           convs' = Append(convs, ConvOf(c))
    PROVE  convs' \in Seq(Conv) /\ Stored'
<1> DEFINE v == ConvOf(c)
<1>1. v \in Conv /\ v.from \subseteq v.scope \cap v.joined
  <2>1. joined[c] \subseteq Teams
    BY DEF TypeOK
  <2> QED
    BY <2>1, RunParts DEF Conv, Named, ConvOf, Within
<1>2. convs' = Append(convs, v) /\ convs \in Seq(Conv)
  BY DEF TypeOK
<1> HIDE DEF v
<1>3. convs' \in Seq(Conv)
  BY <1>1, <1>2
<1>4. Stored'
  <2> SUFFICES ASSUME NEW i \in DOMAIN convs'
               PROVE  convs'[i].from \subseteq convs'[i].scope \cap convs'[i].joined
    BY DEF Stored
  <2>1. CASE i = Len(convs) + 1
    BY <1>1, <1>2, <2>1
  <2>2. CASE i # Len(convs) + 1
    <3>1. i \in DOMAIN convs /\ convs'[i] = convs[i]
      BY <1>1, <1>2, <1>3, <2>2
    <3> QED
      BY <3>1 DEF Stored
  <2> QED
    BY <2>1, <2>2
<1> QED
  BY <1>3, <1>4

LEMMA SummarizeOK == ASSUME IInv, NEW c \in Conns, Summarize(c) PROVE IInv'
<1>1. pc[c] \in GraphPcs /\ Env /\ UNCHANGED <<up, joined, convs, summary, facts, rolled>>
  BY DEF Summarize, GraphPcs
<1>2. /\ TypeOK /\ Stored
      /\ run[c].turn \in Turns /\ run[c].from \subseteq run[c].scope
      /\ run[c].scope \subseteq joined[c]
      /\ up' \in [Conns -> Seq(Messages \cup Replies)] /\ up' = up
      /\ UNCHANGED down => down' \in [Conns -> Seq(Events)] /\ down' = down
  BY <1>1, WritesBack
<1>3. /\ Stored' /\ convs' \in Seq(Conv) /\ summary' \subseteq Turns /\ facts' \in Nat
      /\ rolled' \subseteq Turns /\ crossed \in BOOLEAN
  BY <1>1, <1>2, StoredKept DEF TypeOK
<1>4. ASSUME NEW ok \in BOOLEAN, run' = [run EXCEPT ![c].roll = SummaryOf(c, ok)],
             crossed' = (crossed \/ \E d \in Conns \ {c} : pc[d] \in SavePcs),
             Goto(c, "sum_save"), UNCHANGED <<down, thread>>
      PROVE  IInv'
  <2> DEFINE q == run[c]
             new == SummaryOf(c, ok)
             r == [q EXCEPT !.roll = new]
  <2>1. run' = [run EXCEPT ![c] = r]
    BY <1>4
  <2>2. q \in Run /\ new \subseteq Turns
    BY <1>2, RunParts DEF SummaryOf, TypeOK
  <2> HIDE DEF q, new
  <2>3. r \in Run /\ r.from = q.from /\ r.scope = q.scope /\ r.turn = q.turn
    BY <2>2 DEF Run
  <2> HIDE DEF r
  <2>4. run' \in [Conns -> Run] /\ run'[c] = r /\ \A d \in Conns \ {c} : run'[d] = run[d]
    BY <1>2, <2>1, <2>3, SetRun
  <2>5. /\ run'[c].turn \in Turns /\ run'[c].from \subseteq run'[c].scope
        /\ run'[c].scope \subseteq joined[c]
    BY <1>2, <2>3, <2>4 DEF q
  <2>6. crossed' \in BOOLEAN
    BY <1>3, <1>4, Zenon
  <2>7. Steps(c) /\ "sum_save" \in Pcs \ {"idle", "off"}
    BY <1>1, <1>2, <1>3, <2>4, <2>5, <2>6 DEF Steps, Pcs, GraphPcs, SavePcs
  <2> QED
    BY <1>2, <1>4, <2>5, <2>7, GoesOK
<1>5. CASE StreamFails(c, "summarize") /\ UNCHANGED <<run, crossed>>
  <2>1. "summarize" \in Due
    BY DEF Due
  <2> QED
    BY <1>1, <1>2, <1>3, <1>5, <2>1, FailsOK
<1> QED
  BY <1>4, <1>5 DEF Summarize

LEMMA SaveTurnOK == ASSUME IInv, NEW c \in Conns, SaveTurn(c) PROVE IInv'
<1>1. pc[c] \in GraphPcs /\ Env /\ UNCHANGED <<up, joined, run, summary, facts, rolled, crossed>>
  BY DEF SaveTurn, GraphPcs, SavePcs
<1>2. /\ TypeOK /\ Stored /\ Within(c)
      /\ run[c].turn \in Turns /\ run[c].from \subseteq run[c].scope
      /\ run[c].scope \subseteq joined[c]
      /\ up' \in [Conns -> Seq(Messages \cup Replies)] /\ up' = up
      /\ UNCHANGED down => down' \in [Conns -> Seq(Events)] /\ down' = down
  BY <1>1, WritesBack
<1>3. convs' \in Seq(Conv) /\ Stored'
  <2>1. CASE convs' = Append(convs, ConvOf(c))
    BY <1>2, <2>1, RowOK
  <2>2. CASE UNCHANGED convs
    BY <1>2, <2>2, StoredKept DEF TypeOK
  <2> QED
    BY <2>1, <2>2 DEF SaveTurn
<1>4. /\ run' \in [Conns -> Run] /\ run' = run /\ summary' \subseteq Turns /\ facts' \in Nat
      /\ rolled' \subseteq Turns /\ crossed' \in BOOLEAN
  BY <1>1, <1>2 DEF TypeOK
<1>5. CASE Goto(c, "sum_session") /\ UNCHANGED <<down, thread>>
  <2>1. Steps(c) /\ "sum_session" \in Pcs \ {"idle", "off"}
    BY <1>1, <1>2, <1>3, <1>4 DEF Steps, Pcs, GraphPcs, SavePcs
  <2> QED
    BY <1>2, <1>4, <1>5, <2>1, GoesOK
<1>6. CASE StreamFails(c, "summarize")
  <2>1. "summarize" \in Due
    BY DEF Due
  <2> QED
    BY <1>1, <1>2, <1>3, <1>4, <1>6, <2>1, FailsOK
<1> QED
  BY <1>5, <1>6 DEF SaveTurn

LEMMA SaveSummaryOK == ASSUME IInv, NEW c \in Conns, SaveSummary(c) PROVE IInv'
<1>1. pc[c] \in GraphPcs /\ Env /\ UNCHANGED <<up, joined, run, convs, facts, crossed>>
  BY DEF SaveSummary, GraphPcs, SavePcs
<1>2. /\ TypeOK /\ Stored
      /\ run[c].turn \in Turns /\ run[c].from \subseteq run[c].scope
      /\ run[c].scope \subseteq joined[c]
      /\ up' \in [Conns -> Seq(Messages \cup Replies)] /\ up' = up
      /\ UNCHANGED down => down' \in [Conns -> Seq(Events)] /\ down' = down
  BY <1>1, WritesBack
<1>3. /\ run' \in [Conns -> Run] /\ run' = run /\ facts' \in Nat /\ crossed' \in BOOLEAN
      /\ convs' \in Seq(Conv) /\ Stored'
  BY <1>1, <1>2, StoredKept DEF TypeOK
<1>4. CASE /\ summary' = run[c].roll /\ rolled' = rolled \cup (run[c].roll \cap {run[c].turn})
           /\ Goto(c, "extract") /\ UNCHANGED <<down, thread>>
  <2>1. run[c].roll \subseteq Turns /\ rolled \subseteq Turns
    BY <1>2, RunParts DEF TypeOK
  <2>2. summary' \subseteq Turns /\ rolled' \subseteq Turns
    BY <1>4, <2>1
  <2>3. Steps(c) /\ "extract" \in Pcs \ {"idle", "off"}
    BY <1>1, <1>2, <1>3, <2>2 DEF Steps, Pcs, GraphPcs
  <2> QED
    BY <1>2, <1>3, <1>4, <2>3, GoesOK
<1>5. CASE StreamFails(c, "summarize") /\ UNCHANGED <<summary, rolled>>
  <2>1. summary' \subseteq Turns /\ rolled' \subseteq Turns /\ "summarize" \in Due
    BY <1>2, <1>5 DEF Due, TypeOK
  <2> QED
    BY <1>1, <1>2, <1>3, <1>5, <2>1, FailsOK
<1> QED
  BY <1>4, <1>5 DEF SaveSummary

\* The turn is over: nothing of it is kept for the connection.
LEMMA ForgottenOK ==
    ASSUME IInv, NEW c \in Conns, Env, StreamEnd(c, "none"), Forget(c),
           UNCHANGED <<up, joined, convs, summary, rolled>>, facts' \in Nat, crossed' \in BOOLEAN
    PROVE  IInv'
<1>0. TypeOK /\ Stored
  BY DEF IInv
<1>1. /\ run' \in [Conns -> Run] /\ run'[c] = Idle
      /\ \A d \in Conns \ {c} : run'[d] = run[d]
  BY <1>0, ForgetType
<1>2. /\ up' \in [Conns -> Seq(Messages \cup Replies)] /\ up' = up /\ summary' \subseteq Turns
      /\ rolled' \subseteq Turns /\ convs' \in Seq(Conv) /\ Stored'
  BY <1>0, StoredKept DEF TypeOK
<1>3. run'[c].from \subseteq run'[c].scope /\ run'[c].scope \subseteq joined[c]
  BY <1>1, IdleType
<1>4. Steps(c) /\ "none" \in Pauses
  BY <1>1, <1>2, <1>3 DEF Steps, Pauses
<1> QED
  BY <1>4, EndsOK

LEMMA ExtractOK == ASSUME IInv, NEW c \in Conns, Extract(c) PROVE IInv'
<1>0. TypeOK /\ Stored /\ Sane(c) /\ pc[c] \in GraphPcs
  BY DEF IInv, Extract, GraphPcs
<1>1. UNCHANGED <<up, joined, convs, summary, facts, rolled>> /\ Env
  BY DEF Extract
<1>2. /\ run[c].turn \in Turns /\ run[c].from \subseteq run[c].scope
      /\ run[c].scope \subseteq joined[c]
  BY <1>0 DEF Sane, Within, Turning
<1>3. facts' \in Nat /\ crossed \in BOOLEAN
  BY <1>0, <1>1 DEF TypeOK
<1>4. CASE StreamEnd(c, "none") /\ Forget(c) /\ UNCHANGED crossed
  BY <1>1, <1>3, <1>4, ForgottenOK
<1>5. ASSUME UNCHANGED run, crossed' \in BOOLEAN PROVE Steps(c) /\ run'[c].turn \in Turns
  <2>1. /\ up' \in [Conns -> Seq(Messages \cup Replies)] /\ up' = up /\ summary' \subseteq Turns
        /\ rolled' \subseteq Turns /\ convs' \in Seq(Conv) /\ Stored'
    BY <1>0, <1>1, StoredKept DEF TypeOK
  <2>2. run' \in [Conns -> Run]
    BY <1>0, <1>5 DEF TypeOK
  <2> QED
    BY <1>1, <1>2, <1>3, <1>5, <2>1, <2>2 DEF Steps
<1>6. CASE StreamFails(c, "extract") /\ UNCHANGED <<run, crossed>>
  <2>1. "extract" \in Pauses
    BY DEF Pauses, Due
  <2> QED
    BY <1>3, <1>5, <1>6, <2>1, EndsOK
<1>7. CASE /\ Goto(c, IF facts = 0 THEN "remember_new" ELSE "remember")
           /\ crossed' = (crossed \/ \E d \in Conns \ {c} : pc[d] = "remember_new")
           /\ UNCHANGED <<down, thread, run>>
  <2>1. crossed' \in BOOLEAN
    BY <1>3, <1>7, Zenon
  <2>2. Steps(c) /\ run'[c].turn \in Turns
    BY <1>5, <1>7, <2>1
  <2>3. PICK l \in {"remember", "remember_new"} : Goto(c, l)
    BY <1>7
  <2>4. l \in Pcs \ {"idle", "off"}
    BY DEF Pcs, GraphPcs, FactPcs
  <2>5. down' \in [Conns -> Seq(Events)] /\ \A d \in Conns \ {c} : down'[d] = down[d]
    BY <1>0, <1>7 DEF TypeOK
  <2> QED
    BY <1>7, <2>2, <2>3, <2>4, <2>5, GoesOK
<1> QED
  BY <1>4, <1>6, <1>7 DEF Extract

LEMMA RememberOK == ASSUME IInv, NEW c \in Conns, Remember(c) PROVE IInv'
<1>1. pc[c] \in GraphPcs /\ Env /\ UNCHANGED <<up, joined, convs, summary, rolled, crossed>>
  BY DEF Remember, GraphPcs
<1>2. TypeOK /\ Stored /\ run[c].turn \in Turns
  BY <1>1, WritesBack
<1>3. /\ Stored' /\ convs' \in Seq(Conv) /\ summary' \subseteq Turns
      /\ rolled' \subseteq Turns /\ crossed' \in BOOLEAN
  BY <1>1, <1>2, StoredKept DEF TypeOK
<1>4. facts' \in Nat
  BY <1>2 DEF Remember, TypeOK
<1>5. CASE StreamEnd(c, "none") /\ Forget(c)
  BY <1>1, <1>3, <1>4, <1>5, ForgottenOK
<1>6. CASE StreamFails(c, "extract") /\ UNCHANGED <<facts, run>>
  <2>1. "extract" \in Due
    BY DEF Due
  <2> QED
    BY <1>1, <1>2, <1>3, <1>4, <1>6, <2>1, FailsOK
<1> QED
  BY <1>5, <1>6 DEF Remember

----------------------------------------------------------------------------
(* The environment.                                                        *)

LEMMA DropOK == ASSUME IInv, NEW c \in Conns, Drop(c) PROVE IInv'
<1>0. TypeOK /\ Stored /\ faults \in Nat /\ down[c] \in Seq(Events)
  BY DEF IInv, TypeOK
<1>1. /\ faults' = faults + 1 /\ Goto(c, "off") /\ Pause(c, "none") /\ Forget(c)
      /\ UNCHANGED <<member, client, up, left, joined, db_vars>>
  BY DEF Drop, client_vars
<1>2. PICK n \in 0 .. Len(down[c]) : down' = [down EXCEPT ![c] = SubSeq(@, 1, n)]
  BY DEF Drop
<1>3. SubSeq(down[c], 1, n) \in Seq(Events)
  BY <1>0, <1>2
<1>4. down' = [down EXCEPT ![c] = SubSeq(down[c], 1, n)]
  BY <1>2
<1>5. /\ down' \in [Conns -> Seq(Events)] /\ \A d \in Conns \ {c} : down'[d] = down[d]
  BY <1>0, <1>3, <1>4, SetDown
<1>6. "off" \in Pcs /\ "none" \in Pauses
  BY DEF Pcs, Pauses
<1>7. pc' \in [Conns -> Pcs] /\ pc'[c] = "off" /\ \A d \in Conns \ {c} : pc'[d] = pc[d]
  BY <1>0, <1>1, <1>6, GotoType
<1>8. /\ thread' \in [Conns -> Pauses] /\ thread'[c] = "none"
      /\ \A d \in Conns \ {c} : thread'[d] = thread[d]
  BY <1>0, <1>1, <1>6, PauseType
<1>9. /\ run' \in [Conns -> Run] /\ run'[c] = Idle
      /\ \A d \in Conns \ {c} : run'[d] = run[d]
  BY <1>0, <1>1, ForgetType
<1>10. Stored'
  BY <1>0, <1>1, StoredKept DEF db_vars
<1>11. TypeOK'
  <2>1. faults' \in Nat
    BY <1>0, <1>1
  <2> QED
    BY <1>0, <1>1, <1>5, <1>7, <1>8, <1>9, <2>1 DEF TypeOK, db_vars
<1>12. Same(c)
  BY <1>1, <1>5, <1>7, <1>8, <1>9 DEF Same
<1>13. Sane(c)'
  BY <1>1, <1>7, <1>8, <1>9, SaneAfter, IdleType
<1> QED
  BY <1>10, <1>11, <1>12, <1>13, StepOK

LEMMA MoveOK == ASSUME IInv, Move PROVE IInv'
<1>1. UNCHANGED <<client, up, left, down, pc, thread, joined, run, db_vars>>
  BY DEF Move, client_vars, conn_vars
<1>2. member' \subseteq Teams /\ faults' \in Nat
  BY DEF Move, IInv, TypeOK
<1> QED
  BY <1>1, <1>2 DEF IInv, TypeOK, Stored, Sane, Within, Turning, Told, Heard, db_vars

LEMMA InitOK == ASSUME Init PROVE IInv
<1>1. PICK s \in Starts : left = s.left /\ facts = s.facts
  BY DEF Init
<1>2. left \in [Conns -> Nat] /\ facts \in Nat
  BY <1>1, ScopesAssumption
<1>3. /\ member = Teams /\ client = [c \in Conns |-> Off]
      /\ up = [c \in Conns |-> <<>>] /\ down = [c \in Conns |-> <<>>]
      /\ pc = [c \in Conns |-> "off"] /\ thread = [c \in Conns |-> "none"]
      /\ joined = [c \in Conns |-> {}] /\ run = [c \in Conns |-> Idle]
      /\ convs = <<>> /\ summary = {} /\ faults = 0 /\ rolled = {} /\ crossed = (facts > 1)
  BY DEF Init
<1>4. up \in [Conns -> Seq(Messages \cup Replies)] /\ down \in [Conns -> Seq(Events)]
  <2>1. <<>> \in Seq(Messages \cup Replies) /\ <<>> \in Seq(Events)
    OBVIOUS
  <2> QED
    BY <1>3, <2>1
<1>5. client \in [Conns -> Clients] /\ run \in [Conns -> Run]
  BY <1>3, IdleType
<1>6. pc \in [Conns -> Pcs] /\ thread \in [Conns -> Pauses] /\ joined \in [Conns -> SUBSET Teams]
  BY <1>3 DEF Pcs, Pauses
<1>7. crossed \in BOOLEAN
  <2>1. CASE facts > 1
    BY <1>3, <2>1
  <2>2. CASE ~(facts > 1)
    BY <1>3, <2>2
  <2> QED
    BY <2>1, <2>2
<1>8. TypeOK
  <2>1. convs \in Seq(Conv) /\ convs = <<>>
    BY <1>3
  <2> QED
    BY <1>2, <1>3, <1>4, <1>5, <1>6, <1>7, <2>1 DEF TypeOK
<1>9. Stored
  BY <1>3 DEF Stored
<1>10. ASSUME NEW c \in Conns PROVE Sane(c)
  BY <1>3, IdleType DEF Sane, Within, Turning, Told, Heard, GraphPcs, SavePcs, FactPcs
<1> QED
  BY <1>8, <1>9, <1>10 DEF IInv

LEMMA NextOK == ASSUME IInv, [Next]_vars PROVE IInv'
<1>1. CASE Move
  BY <1>1, MoveOK
<1>2. ASSUME NEW c \in Conns, Connect(c) \/ Ask(c) \/ AskAgain(c) \/ GiveUp(c) \/ Drop(c)
      PROVE  IInv'
  BY <1>2, ConnectOK, AskOK, AskAgainOK, PromptOK, DropOK
<1>3. ASSUME NEW c \in Conns, Client(c) PROVE IInv'
  BY <1>3, ReceiveOK, PromptOK, AnswerOK DEF Client
<1>4. ASSUME NEW c \in Conns, Server(c) PROVE IInv'
  <2>1. CASE ServeMessage(c)
    BY <2>1, ServeMessageOK
  <2>2. CASE ResolveGraphs(c)
    BY <2>2, ResolveGraphsOK
  <2>3. CASE ServeResume(c)
    BY <2>3, ServeResumeOK
  <2>4. CASE BuildContext(c) \/ Search(c) \/ Generate(c)
    BY <2>4, BuildContextOK, SearchOK, GenerateOK
  <2>5. CASE Summarize(c) \/ SaveTurn(c) \/ SaveSummary(c) \/ Extract(c) \/ Remember(c)
    BY <2>5, SummarizeOK, SaveTurnOK, SaveSummaryOK, ExtractOK, RememberOK
  <2> QED
    BY <1>4, <2>1, <2>2, <2>3, <2>4, <2>5 DEF Server, Graph
<1>5. CASE UNCHANGED vars
  BY <1>5 DEF vars, client_vars, conn_vars, db_vars, IInv, TypeOK, Stored, Sane, Within, Turning,
     Told, Heard
<1> QED
  BY <1>1, <1>2, <1>3, <1>4, <1>5 DEF Next

----------------------------------------------------------------------------

LEMMA Invariance == Spec => []IInv
<1>1. Init => IInv
  BY InitOK
<1>2. IInv /\ [Next]_vars => IInv'
  BY NextOK
<1> QED
  BY <1>1, <1>2, PTL DEF Spec

\* The queues, the handlers and the rows of the session stay well formed.
THEOREM TypeCorrect == Spec => []TypeOK
<1>1. IInv => TypeOK
  BY DEF IInv
<1> QED
  BY <1>1, Invariance, PTL

\* An answer rests on the documents of its own scope only, however many turns the
\* session has had, over however many sockets, and whatever teams they were in
\* (context.py:35, chat.py:136).
THEOREM AnswersAreScoped == Spec => []MemoryScoped
<1>1. IInv => MemoryScoped
  BY DEF IInv, MemoryScoped, Stored, Sane, Within
<1> QED
  BY <1>1, Invariance, PTL

\* A client never waits for a handler that waits for it: every stream ends with an
\* event, and what has been given up or lost is not waited for (ws/chat.py:156).
THEOREM NobodyWaits == Spec => []NoMutualWait
<1>1. IInv => NoMutualWait
  BY DEF IInv, NoMutualWait, Sane, Heard
<1> QED
  BY <1>1, Invariance, PTL

----------------------------------------------------------------------------
(* What a step of a connection leaves alone.                               *)

\* A connection's own steps, those of its write-back apart.
Talks(c) == \/ Connect(c) \/ Ask(c) \/ AskAgain(c) \/ GiveUp(c) \/ Drop(c) \/ Client(c)
            \/ ServeMessage(c) \/ ResolveGraphs(c) \/ ServeResume(c)
            \/ BuildContext(c) \/ Search(c) \/ Generate(c)

WritesPcs == SavePcs \cup {"remember", "remember_new", "extract"}

LEMMA TalksKeep ==
    ASSUME TypeOK, NEW c \in Conns, Talks(c)
    PROVE  /\ UNCHANGED db_vars
           /\ \A d \in Conns \ {c} : pc'[d] = pc[d] /\ run'[d] = run[d]
           /\ pc'[c] \in SavePcs \cup {"remember_new"} => pc'[c] = pc[c] /\ run'[c] = run[c]
<1>0. pc \in [Conns -> Pcs] /\ run \in [Conns -> Run]
  BY DEF TypeOK
<1>1. CASE Connect(c) \/ AskAgain(c)
  <2>1. Admit(c) /\ UNCHANGED db_vars
    BY <1>1 DEF Connect, AskAgain
  <2> QED
    BY <2>1, AdmitOK DEF SavePcs
<1>2. CASE Ask(c) \/ GiveUp(c) \/ Client(c)
  BY <1>2 DEF Ask, GiveUp, Client, Receive, ReceiveClosed, Answer, conn_vars
<1>3. CASE Drop(c)
  BY <1>0, <1>3 DEF Drop, Goto, Forget, SavePcs
<1>4. CASE ServeMessage(c)
  BY <1>0, <1>4 DEF ServeMessage, Refuse, Goto, Forget, SavePcs
<1>5. CASE ResolveGraphs(c)
  BY <1>0, <1>5 DEF ResolveGraphs, Refuse, Goto, Forget, SavePcs
<1>6. CASE ServeResume(c)
  <2>1. UNCHANGED db_vars
    BY <1>6 DEF ServeResume
  <2>2. CASE ResumeScore(c)
    BY <1>0, <2>1, <2>2 DEF ResumeScore, StreamEnd, Goto, SavePcs
  <2>3. CASE ResumeReason(c)
    BY <1>0, <2>1, <2>3 DEF ResumeReason, StreamFails, Goto, SavePcs
  <2>4. CASE ResumeFailed(c)
    BY <1>0, <2>1, <2>4 DEF ResumeFailed, Goto, SavePcs, Due
  <2>5. CASE ResumeFinished(c)
    BY <1>0, <2>1, <2>5 DEF ResumeFinished, StreamEnd, Goto, SavePcs
  <2> QED
    BY <1>6, <2>2, <2>3, <2>4, <2>5 DEF ServeResume
<1>7. CASE BuildContext(c)
  BY <1>0, <1>7 DEF BuildContext, Route, StreamFails, Goto, SavePcs
<1>8. CASE Search(c)
  BY <1>0, <1>8 DEF Search, EvaluateRoute, StreamFails, Goto, SavePcs
<1>9. CASE Generate(c)
  BY <1>0, <1>9 DEF Generate, StreamFails, Goto, SavePcs
<1> QED
  BY <1>1, <1>2, <1>3, <1>4, <1>5, <1>6, <1>7, <1>8, <1>9 DEF Talks

----------------------------------------------------------------------------
(* The summary and the memory.                                             *)

\* Only one turn is between reading the summary and saving it, and what it read is still
\* the summary; only one has found no row of the key, and there is still none.
SumInv == ~crossed =>
    /\ \A c, d \in Conns : (pc[c] \in SavePcs /\ pc[d] \in SavePcs) => c = d
    /\ \A c \in Conns : pc[c] \in SavePcs => summary \subseteq run[c].roll
    /\ rolled \subseteq summary /\ facts <= 1
    /\ \A c, d \in Conns : (pc[c] = "remember_new" /\ pc[d] = "remember_new") => c = d
    /\ \A c \in Conns : pc[c] = "remember_new" => facts = 0

LEMMA SumStep == TypeOK /\ SumInv /\ [Next]_vars => SumInv'
<1> SUFFICES ASSUME TypeOK, SumInv, [Next]_vars, ~crossed' PROVE SumInv'
  BY DEF SumInv
<1> USE DEF SavePcs
<1>0. pc \in [Conns -> Pcs] /\ run \in [Conns -> Run] /\ facts \in Nat
  BY DEF TypeOK
<1>1. CASE Move \/ UNCHANGED vars
  <2>1. UNCHANGED <<pc, run, db_vars>>
    BY <1>1 DEF Move, vars, conn_vars
  <2> QED
    BY <2>1 DEF SumInv, db_vars
<1>2. ASSUME NEW c \in Conns, Talks(c) PROVE SumInv'
  <2>1. /\ UNCHANGED db_vars
        /\ \A d \in Conns \ {c} : pc'[d] = pc[d] /\ run'[d] = run[d]
        /\ pc'[c] \in SavePcs \cup {"remember_new"} => pc'[c] = pc[c] /\ run'[c] = run[c]
    BY <1>2, TalksKeep
  <2> QED
    BY <2>1 DEF SumInv, db_vars
\* A node that fails has written nothing of this.
<1>f. ASSUME NEW c \in Conns, NEW where, StreamFails(c, where),
             UNCHANGED <<run, summary, facts, rolled, crossed>>
      PROVE  SumInv'
  <2>1. pc'[c] = "idle" /\ \A d \in Conns \ {c} : pc'[d] = pc[d]
    BY <1>0, <1>f DEF StreamFails, Goto
  <2> QED
    BY <1>f, <2>1 DEF SumInv
<1>3. ASSUME NEW c \in Conns, Summarize(c) PROVE SumInv'
  <2>a. CASE StreamFails(c, "summarize") /\ UNCHANGED <<run, crossed>>
    <3>1. UNCHANGED <<summary, facts, rolled>>
      BY <1>3 DEF Summarize
    <3> QED
      BY <1>f, <2>a, <3>1
  <2>b. ASSUME NEW ok \in BOOLEAN, run' = [run EXCEPT ![c].roll = SummaryOf(c, ok)],
               crossed' = (crossed \/ \E d \in Conns \ {c} : pc[d] \in SavePcs),
               Goto(c, "sum_save")
        PROVE  SumInv'
    <3> DEFINE q == run[c]
               new == SummaryOf(c, ok)
               r == [q EXCEPT !.roll = new]
    <3>1. run' = [run EXCEPT ![c] = r] /\ q \in Run /\ summary \subseteq new
      BY <1>0, <2>b DEF SummaryOf
    <3> HIDE DEF q, new
    <3>2. r.roll = new
      BY <3>1 DEF Run
    <3> HIDE DEF r
    <3>3. run'[c] = r /\ \A d \in Conns \ {c} : run'[d] = run[d]
      BY <1>0, <3>1
    <3>4. /\ pc'[c] = "sum_save" /\ \A d \in Conns \ {c} : pc'[d] = pc[d]
          /\ UNCHANGED <<summary, facts, rolled>>
          /\ ~crossed /\ \A d \in Conns \ {c} : pc[d] \notin SavePcs
      BY <1>0, <1>3, <2>b DEF Summarize, Goto
    <3> QED
      BY <3>1, <3>2, <3>3, <3>4 DEF SumInv
  <2> QED
    BY <1>3, <2>a, <2>b DEF Summarize
<1>4. ASSUME NEW c \in Conns, SaveTurn(c) PROVE SumInv'
  <2>1. pc[c] = "sum_save" /\ UNCHANGED <<run, summary, facts, rolled, crossed>>
    BY <1>4 DEF SaveTurn
  <2>2. CASE Goto(c, "sum_session")
    <3>1. pc'[c] = "sum_session" /\ \A d \in Conns \ {c} : pc'[d] = pc[d]
      BY <1>0, <2>2 DEF Goto
    <3> QED
      BY <2>1, <3>1 DEF SumInv
  <2>3. CASE StreamFails(c, "summarize")
    BY <1>f, <2>1, <2>3
  <2> QED
    BY <1>4, <2>2, <2>3 DEF SaveTurn
<1>5. ASSUME NEW c \in Conns, SaveSummary(c) PROVE SumInv'
  <2>1. pc[c] = "sum_session" /\ UNCHANGED <<run, facts, crossed>>
    BY <1>5 DEF SaveSummary
  <2>2. CASE /\ summary' = run[c].roll /\ rolled' = rolled \cup (run[c].roll \cap {run[c].turn})
             /\ Goto(c, "extract")
    <3>1. pc'[c] = "extract" /\ \A d \in Conns \ {c} : pc'[d] = pc[d]
      BY <1>0, <2>2 DEF Goto
    <3> QED
      BY <2>1, <2>2, <3>1 DEF SumInv
  <2>3. CASE StreamFails(c, "summarize") /\ UNCHANGED <<summary, rolled>>
    BY <1>f, <2>1, <2>3
  <2> QED
    BY <1>5, <2>2, <2>3 DEF SaveSummary
<1>6. ASSUME NEW c \in Conns, Extract(c) PROVE SumInv'
  <2>1. /\ \A d \in Conns \ {c} : pc'[d] = pc[d] /\ run'[d] = run[d]
        /\ UNCHANGED <<summary, rolled, facts>>
    BY <1>0, <1>6 DEF Extract, Goto, Forget, StreamEnd, StreamFails
  <2>2. CASE pc'[c] = "idle" /\ UNCHANGED crossed
    BY <2>1, <2>2 DEF SumInv
  <2>3. CASE /\ facts <= 1 /\ pc'[c] = IF facts = 0 THEN "remember_new" ELSE "remember"
             /\ crossed' = (crossed \/ \E d \in Conns \ {c} : pc[d] = "remember_new")
    BY <2>1, <2>3 DEF SumInv
  <2> QED
    BY <1>0, <1>6, <2>2, <2>3 DEF Extract, Goto, StreamEnd, StreamFails
<1>7. ASSUME NEW c \in Conns, Remember(c) PROVE SumInv'
  <2>1. UNCHANGED <<summary, rolled, crossed>>
    BY <1>7 DEF Remember
  <2>2. CASE /\ StreamEnd(c, "none") /\ Forget(c)
             /\ facts' = IF pc[c] = "remember_new" THEN facts + 1 ELSE facts
    <3>1. pc'[c] = "idle" /\ \A d \in Conns \ {c} : pc'[d] = pc[d] /\ run'[d] = run[d]
      BY <1>0, <2>2 DEF Goto, Forget, StreamEnd
    <3> QED
      BY <1>0, <2>1, <2>2, <3>1 DEF SumInv
  <2>3. CASE StreamFails(c, "extract") /\ UNCHANGED <<facts, run>>
    BY <1>f, <2>1, <2>3
  <2> QED
    BY <1>7, <2>2, <2>3 DEF Remember
<1> QED
  BY <1>1, <1>2, <1>3, <1>4, <1>5, <1>6, <1>7 DEF Next, Server, Graph, Talks

\* A turn whose summary has been written stays in the rolling summary, and a memory key has
\* one row, for any number of connections and turns, unless two turns write back at the same
\* time: the summary is read, extended by the model and saved in three steps (summarize.py:49),
\* a key is looked up and created in two (memory.py:57).
THEOREM SummaryIsKept == Spec => []SummaryKeeps
<1>1. Init => SumInv
  <2> SUFFICES ASSUME Init, ~crossed PROVE SumInv
    BY DEF SumInv
  <2>1. /\ \A c \in Conns : pc[c] = "off"
        /\ summary = {} /\ rolled = {} /\ ~(facts > 1) /\ facts \in Nat
    BY InitOK DEF Init, IInv, TypeOK
  <2> QED
    BY <2>1 DEF SumInv, SavePcs
<1>2. TypeOK /\ TypeOK' /\ SumInv /\ [Next]_vars => SumInv'
  BY SumStep
<1>3. SumInv => SummaryKeeps
  BY DEF SumInv, SummaryKeeps
<1> QED
  BY <1>1, <1>2, <1>3, TypeCorrect, PTL DEF Spec

----------------------------------------------------------------------------
(* A turn is stored once.                                                  *)

\* The questions of a queue are the connection's own, newest last, numbered downwards and
\* above what is left to ask; a turn t came before them.
Queue(c, q, n) ==
    /\ \A i \in DOMAIN q : q[i].kind = "message" => q[i].turn[1] = c /\ q[i].turn[2] > n
    /\ \A i, j \in DOMAIN q :
         (i < j /\ q[i].kind = "message" /\ q[j].kind = "message")
            => q[i].turn[2] > q[j].turn[2]
Above(t, q, n) ==
    /\ t[2] > n
    /\ \A i \in DOMAIN q : q[i].kind = "message" => t[2] > q[i].turn[2]

Saved(t) == \E i \in DOMAIN convs : convs[i].turn = t

Ordered(c) ==
    /\ Queue(c, up[c], left[c])
    /\ run[c].turn # None => run[c].turn[1] = c /\ Above(run[c].turn, up[c], left[c])
    /\ \A i \in DOMAIN convs : convs[i].turn[1] = c => Above(convs[i].turn, up[c], left[c])

\* The turn has still to be written back.
Ahead(c) ==
    \/ pc[c] \in {"graphs", "context", "search", "generate", "summarize", "sum_save"}
    \/ (pc[c] = "idle" /\ thread[c] \in {"context", "search", "generate", "score", "reason"})
Unsaved(c) == Ahead(c) /\ ~run[c].late => ~Saved(run[c].turn)

\* A turn is stored as late, or not, as it runs.
Alike(c) == run[c].late => \A i \in DOMAIN convs : convs[i].turn = run[c].turn => convs[i].late

OnceInv == /\ \A c \in Conns : Ordered(c) /\ Unsaved(c) /\ Alike(c)
           /\ \A i, j \in DOMAIN convs : convs[i].turn = convs[j].turn /\ ~convs[i].late => i = j

\* A reply to a node that has failed comes from a client that has given up, and such a
\* client replies to turns that it has asked for later only.
Retries(c) ==
    pc[c] = "idle" /\ up[c] # <<>> /\ Head(up[c]).kind = "resume" =>
        /\ thread[c] \in Due => Head(up[c]).late
        /\ Head(up[c]).late /\ run[c].turn # None => run[c].late

Letters == Messages \cup Replies

LEMMA LetterFields ==
    ASSUME NEW m \in Letters
    PROVE  /\ m.kind \in {"message", "resume"}
           /\ m.kind = "message" => m.turn \in Turns /\ m \in Messages
           /\ m.kind = "resume" => m \in Replies
BY DEF Letters, Messages, Replies

LEMMA TurnParts ==
    ASSUME NEW t \in Turns
    PROVE  t[1] \in Conns /\ t[2] \in Nat /\ t[2] # 0 /\ t # None
BY DEF Turns, None

LEMMA QueueNone ==
    ASSUME NEW c, NEW n
    PROVE  Queue(c, <<>>, n) /\ \A t : t[2] > n => Above(t, <<>>, n)
BY DEF Queue, Above

LEMMA QueueReply ==
    ASSUME NEW c, NEW n \in Nat, NEW q \in Seq(Letters), NEW m \in Letters, m.kind = "resume",
           Queue(c, q, n)
    PROVE  Queue(c, Append(q, m), n) /\ \A t : Above(t, q, n) => Above(t, Append(q, m), n)
<1> DEFINE s == Append(q, m)
<1>1. /\ DOMAIN s = 1 .. (Len(q) + 1) /\ DOMAIN q = 1 .. Len(q) /\ Len(q) \in Nat
      /\ s[Len(q) + 1] = m /\ \A i \in 1 .. Len(q) : s[i] = q[i]
  OBVIOUS
<1> HIDE DEF s
<1>2. \A i \in DOMAIN s : s[i].kind = "message" => i \in DOMAIN q /\ s[i] = q[i]
  BY <1>1
<1>3. Queue(c, s, n)
  BY <1>2 DEF Queue
<1>4. \A t : Above(t, q, n) => Above(t, s, n)
  BY <1>2 DEF Above
<1> QED
  BY <1>3, <1>4 DEF s

\* The next question takes the next number down.
LEMMA QueueQuestion ==
    ASSUME NEW c \in Conns, NEW n \in Nat \ {0}, NEW q \in Seq(Letters), NEW m \in Letters,
           m.turn = <<c, n>>, Queue(c, q, n)
    PROVE  /\ Queue(c, Append(q, m), n - 1) /\ Queue(c, <<m>>, n - 1)
           /\ \A t \in Turns : Above(t, q, n) =>
                 Above(t, Append(q, m), n - 1) /\ Above(t, <<m>>, n - 1)
<1> DEFINE s == Append(q, m)
           one == <<m>>
<1>1. /\ DOMAIN s = 1 .. (Len(q) + 1) /\ DOMAIN q = 1 .. Len(q) /\ Len(q) \in Nat
      /\ s[Len(q) + 1] = m /\ \A i \in 1 .. Len(q) : s[i] = q[i]
  OBVIOUS
<1>2. DOMAIN one = {1} /\ one[1] = m /\ m.turn[1] = c /\ m.turn[2] = n
  OBVIOUS
<1>3. \A i \in DOMAIN q : q[i].kind = "message" => q[i].turn[2] \in Nat
  BY LetterFields, TurnParts
<1> HIDE DEF s, one
<1>4. \A i \in DOMAIN s : (i \in DOMAIN q /\ s[i] = q[i]) \/ (i = Len(q) + 1 /\ s[i] = m)
  BY <1>1
<1>5. Queue(c, s, n - 1)
  <2>1. ASSUME NEW i \in DOMAIN s, s[i].kind = "message"
        PROVE  s[i].turn[1] = c /\ s[i].turn[2] > n - 1
    BY <1>2, <1>3, <1>4, <2>1 DEF Queue
  <2>2. ASSUME NEW i \in DOMAIN s, NEW j \in DOMAIN s, i < j, s[i].kind = "message",
               s[j].kind = "message"
        PROVE  s[i].turn[2] > s[j].turn[2]
    <3>1. i \in DOMAIN q /\ s[i] = q[i]
      BY <1>1, <1>4, <2>2
    <3> QED
      BY <1>2, <1>4, <2>2, <3>1 DEF Queue
  <2> QED
    BY <2>1, <2>2 DEF Queue
<1>6. Queue(c, one, n - 1)
  BY <1>2 DEF Queue
<1>7. ASSUME NEW t \in Turns, Above(t, q, n) PROVE Above(t, s, n - 1) /\ Above(t, one, n - 1)
  BY <1>2, <1>4, <1>7, TurnParts DEF Above
<1> QED
  BY <1>5, <1>6, <1>7 DEF s, one

LEMMA QueueTail ==
    ASSUME NEW c, NEW n \in Nat, NEW q \in Seq(Letters), q # <<>>, Queue(c, q, n)
    PROVE  /\ Queue(c, Tail(q), n)
           /\ \A t : Above(t, q, n) => Above(t, Tail(q), n)
           /\ Head(q).kind = "message" => /\ Head(q).turn[1] = c
                                          /\ Above(Head(q).turn, Tail(q), n)
<1> DEFINE s == Tail(q)
<1>1. /\ DOMAIN s = 1 .. (Len(q) - 1) /\ DOMAIN q = 1 .. Len(q) /\ Len(q) \in Nat \ {0}
      /\ \A i \in 1 .. (Len(q) - 1) : s[i] = q[i + 1]
      /\ Head(q) = q[1]
  OBVIOUS
<1> HIDE DEF s
<1>2. \A i \in DOMAIN s : i \in Nat /\ i + 1 \in DOMAIN q /\ s[i] = q[i + 1] /\ 1 < i + 1
  BY <1>1
<1>3. 1 \in DOMAIN q
  BY <1>1
<1>4. Queue(c, s, n)
  <2>1. \A i \in DOMAIN s : s[i].kind = "message" => s[i].turn[1] = c /\ s[i].turn[2] > n
    BY <1>2 DEF Queue
  <2>2. ASSUME NEW i \in DOMAIN s, NEW j \in DOMAIN s, i < j, s[i].kind = "message",
               s[j].kind = "message"
        PROVE  s[i].turn[2] > s[j].turn[2]
    <3>1. i + 1 < j + 1
      BY <1>2, <2>2
    <3> QED
      BY <1>2, <2>2, <3>1 DEF Queue
  <2> QED
    BY <2>1, <2>2 DEF Queue
<1>5. \A t : Above(t, q, n) => Above(t, s, n)
  BY <1>2 DEF Above
<1>6. Head(q).kind = "message" => Head(q).turn[1] = c /\ Above(Head(q).turn, s, n)
  BY <1>1, <1>2, <1>3 DEF Queue, Above
<1> QED
  BY <1>4, <1>5, <1>6 DEF s

\* What a step does to the turn of its connection.
Others(c) == \A d \in Conns \ {c} :
    up'[d] = up[d] /\ left'[d] = left[d] /\ pc'[d] = pc[d] /\ thread'[d] = thread[d]
    /\ run'[d] = run[d]
AheadKept(c) ==
    /\ run'[c].turn \in {run[c].turn, None}
    /\ run'[c].turn # None => (run'[c].late <=> run[c].late)
    /\ Ahead(c)' => run'[c].turn = run[c].turn /\ (run'[c].late <=> run[c].late)
    /\ Ahead(c)' /\ ~run'[c].late => Ahead(c)

LEMMA AdmitTurn ==
    ASSUME TypeOK, NEW c \in Conns, Admit(c)
    PROVE  AheadKept(c)
BY AdmitOK DEF Idle, AheadKept, Ahead

LEMMA ForgetTurn ==
    ASSUME TypeOK, NEW c \in Conns, Forget(c)
    PROVE  run'[c].turn = None /\ \A d \in Conns \ {c} : run'[d] = run[d]
BY ForgetType DEF Idle

\* A step of the endpoint or of the graph that stores no turn and starts none.
Works(c) == \/ Drop(c) \/ ResolveGraphs(c) \/ ServeResume(c) \/ BuildContext(c) \/ Search(c)
            \/ Generate(c) \/ Summarize(c) \/ SaveSummary(c) \/ Extract(c) \/ Remember(c)

LEMMA WorksKeep ==
    ASSUME TypeOK, NEW c \in Conns, Works(c)
    PROVE  /\ UNCHANGED <<convs, left>>
           /\ \A d \in Conns \ {c} : pc'[d] = pc[d] /\ thread'[d] = thread[d] /\ run'[d] = run[d]
           /\ run'[c].turn \in {run[c].turn, None}
           /\ run'[c].turn # None /\ run[c].late => run'[c].late
           /\ UNCHANGED up \/ ServeResume(c)
           /\ ServeResume(c) => up[c] # <<>> /\ up' = [up EXCEPT ![c] = Tail(@)]
           /\ Turning(c) /\ (ServeResume(c) => Retries(c)) => AheadKept(c)
<1>0. pc \in [Conns -> Pcs] /\ run \in [Conns -> Run] /\ thread \in [Conns -> Pauses] /\ run[c] \in Run
  BY DEF TypeOK
<1> USE DEF AheadKept, Ahead
\* A turn that is forgotten, and one that goes on with what it was.
<1>a. ASSUME Forget(c), pc'[c] \in {"off", "idle"}, thread'[c] = "none"
      PROVE  /\ \A d \in Conns \ {c} : run'[d] = run[d]
             /\ run'[c].turn = None /\ AheadKept(c)
  <2>1. run'[c].turn = None /\ \A d \in Conns \ {c} : run'[d] = run[d]
    BY <1>a, ForgetTurn
  <2> QED
    BY <1>a, <2>1
<1>1. CASE Drop(c)
  <2>1. /\ Forget(c) /\ pc'[c] = "off" /\ thread'[c] = "none"
        /\ UNCHANGED <<convs, left, up>>
        /\ \A d \in Conns \ {c} : pc'[d] = pc[d] /\ thread'[d] = thread[d]
    BY <1>0, <1>1 DEF Drop, Goto, Pause, client_vars, db_vars
  <2>2. ~ServeResume(c)
    <3>1. faults \in Nat /\ faults' = faults + 1
      BY <1>1 DEF TypeOK, Drop
    <3> QED
      BY <3>1 DEF ServeResume, Env
  <2> QED
    BY <1>a, <2>1, <2>2
<1>2. CASE ResolveGraphs(c)
  <2>a. ~ServeResume(c)
    BY <1>2 DEF ResolveGraphs, ServeResume
  <2>1. CASE Refuse(c)
    <3>1. /\ Forget(c) /\ pc'[c] = "off" /\ thread'[c] = "none" /\ UNCHANGED <<convs, left, up>>
          /\ \A d \in Conns \ {c} : pc'[d] = pc[d] /\ thread'[d] = thread[d]
      BY <1>0, <1>2, <2>1 DEF ResolveGraphs, Refuse, Goto, Pause, Env, db_vars
    <3> QED
      BY <1>a, <2>a, <3>1
  <2>2. CASE ~Refuse(c)
    BY <1>0, <1>2, <2>2, <2>a DEF ResolveGraphs, Goto, Pause, Env, db_vars
  <2> QED
    BY <2>1, <2>2
<1>3. CASE ServeResume(c)
  <2>1. /\ UNCHANGED <<convs, left>> /\ up[c] # <<>> /\ up' = [up EXCEPT ![c] = Tail(@)]
        /\ pc[c] = "idle" /\ Head(up[c]).kind = "resume"
    BY <1>3 DEF ServeResume, Env, db_vars
  <2> DEFINE old == run[c].late
             new == Head(up[c]).late
  <2>2. CASE ResumeScore(c)
    <3>1. /\ run'[c].turn = run[c].turn /\ \A d \in Conns \ {c} : run'[d] = run[d]
          /\ run'[c].late = (old \/ new)
      BY <1>0, <2>2 DEF ResumeScore, Run
    <3>2. /\ thread[c] = "score"
          /\ \A d \in Conns \ {c} : pc'[d] = pc[d] /\ thread'[d] = thread[d]
      BY <1>0, <2>2 DEF ResumeScore, StreamEnd, Goto, Pause
    <3>3. Turning(c) /\ Retries(c) => (run'[c].late <=> run[c].late)
      BY <2>1, <3>1, <3>2, NoneIsNoTurn DEF Turning, Retries
    <3> QED
      BY <1>3, <2>1, <3>1, <3>2, <3>3
  <2>3. CASE ResumeReason(c)
    BY <1>0, <1>3, <2>1, <2>3 DEF ResumeReason, StreamFails, Goto, Pause
  <2>4. CASE ResumeFailed(c)
    <3>1. /\ run'[c].turn = run[c].turn /\ \A d \in Conns \ {c} : run'[d] = run[d]
          /\ run'[c].late = (old \/ new)
      BY <1>0, <2>4 DEF ResumeFailed, Run
    <3>2. /\ thread[c] \in Due /\ thread[c] # "none"
          /\ \A d \in Conns \ {c} : pc'[d] = pc[d] /\ thread'[d] = thread[d]
      BY <1>0, <2>4 DEF ResumeFailed, Goto, Pause, Due
    <3>3. Turning(c) /\ Retries(c) => run'[c].late /\ run[c].late
      BY <2>1, <3>1, <3>2, NoneIsNoTurn DEF Turning, Retries
    <3> QED
      BY <1>3, <2>1, <3>1, <3>2, <3>3
  <2>5. CASE ResumeFinished(c)
    BY <1>0, <1>3, <2>1, <2>5 DEF ResumeFinished, StreamEnd, Goto, Pause
  <2> QED
    BY <1>3, <2>2, <2>3, <2>4, <2>5 DEF ServeResume
\* A node runs on, or fails and is due again.
<1>b. ASSUME pc[c] \in {"context"} \cup GraphPcs, UNCHANGED <<convs, left, up>>,
             \A d \in Conns \ {c} : pc'[d] = pc[d] /\ thread'[d] = thread[d] /\ run'[d] = run[d],
             run'[c].turn = run[c].turn, run'[c].late = run[c].late, Ahead(c)' => Ahead(c)
      PROVE  /\ \A d \in Conns \ {c} : run'[d] = run[d]
             /\ ~ServeResume(c) /\ AheadKept(c)
  <2>1. ~ServeResume(c)
    BY <1>b DEF ServeResume, GraphPcs, SavePcs, FactPcs
  <2> QED
    BY <1>b, <2>1
<1>4. CASE BuildContext(c)
  <2>1. run'[c].turn = run[c].turn /\ run'[c].late = run[c].late /\ \A d \in Conns \ {c} : run'[d] = run[d]
    BY <1>0, <1>4 DEF BuildContext, Run
  <2>2. /\ pc[c] = "context" /\ UNCHANGED <<convs, left, up>>
        /\ \A d \in Conns \ {c} : pc'[d] = pc[d] /\ thread'[d] = thread[d]
    BY <1>0, <1>4 DEF BuildContext, Route, StreamFails, Goto, Pause, Env, db_vars
  <2> QED
    BY <1>b, <2>1, <2>2
<1>5. CASE Search(c)
  <2>1. run'[c].turn = run[c].turn /\ run'[c].late = run[c].late /\ \A d \in Conns \ {c} : run'[d] = run[d]
    BY <1>0, <1>5 DEF Search, Run
  <2>2. /\ pc[c] = "search" /\ UNCHANGED <<convs, left, up>>
        /\ \A d \in Conns \ {c} : pc'[d] = pc[d] /\ thread'[d] = thread[d]
    BY <1>0, <1>5 DEF Search, EvaluateRoute, StreamFails, Goto, Pause, Env, db_vars
  <2> QED
    BY <1>b, <2>1, <2>2 DEF GraphPcs
<1>6. CASE Generate(c)
  <2>1. /\ pc[c] = "generate" /\ UNCHANGED <<convs, left, up, run>>
        /\ \A d \in Conns \ {c} : pc'[d] = pc[d] /\ thread'[d] = thread[d]
    BY <1>0, <1>6 DEF Generate, StreamFails, FeedbackRoute, Goto, Pause, Env, db_vars
  <2> QED
    BY <1>b, <2>1 DEF GraphPcs
<1>7. CASE Summarize(c)
  <2>1. run'[c].turn = run[c].turn /\ run'[c].late = run[c].late /\ \A d \in Conns \ {c} : run'[d] = run[d]
    BY <1>0, <1>7 DEF Summarize, Run
  <2>2. /\ pc[c] = "summarize" /\ UNCHANGED <<convs, left, up>>
        /\ \A d \in Conns \ {c} : pc'[d] = pc[d] /\ thread'[d] = thread[d]
    BY <1>0, <1>7 DEF Summarize, StreamFails, Goto, Pause, Env
  <2> QED
    BY <1>b, <2>1, <2>2 DEF GraphPcs
<1>8. CASE SaveSummary(c)
  <2>1. /\ pc[c] = "sum_session" /\ UNCHANGED <<convs, left, up, run>>
        /\ \A d \in Conns \ {c} : pc'[d] = pc[d] /\ thread'[d] = thread[d]
    BY <1>0, <1>8 DEF SaveSummary, StreamFails, Goto, Pause, Env
  <2>2. ~Ahead(c)'
    BY <1>0, <1>8 DEF SaveSummary, StreamFails, Goto, Pause
  <2> QED
    BY <1>b, <2>1, <2>2 DEF GraphPcs, SavePcs
<1>9. CASE Extract(c)
  <2>1. /\ pc[c] = "extract" /\ UNCHANGED <<convs, left, up>> /\ ~ServeResume(c)
        /\ \A d \in Conns \ {c} : pc'[d] = pc[d] /\ thread'[d] = thread[d]
    BY <1>0, <1>9 DEF Extract, StreamEnd, StreamFails, Goto, Pause, Env, ServeResume
  <2>2. CASE StreamEnd(c, "none") /\ Forget(c)
    <3>1. pc'[c] = "idle" /\ thread'[c] = "none"
      BY <1>0, <2>2 DEF StreamEnd, Goto, Pause
    <3> QED
      BY <1>a, <2>1, <2>2, <3>1
  <2>3. CASE UNCHANGED <<thread, run>> /\ Goto(c, IF facts = 0 THEN "remember_new" ELSE "remember")
    BY <1>0, <2>1, <2>3 DEF Goto
  <2>4. CASE StreamFails(c, "extract") /\ UNCHANGED run
    BY <1>0, <2>1, <2>4 DEF StreamFails, Goto, Pause
  <2> QED
    BY <1>9, <2>2, <2>3, <2>4 DEF Extract
<1>10. CASE Remember(c)
  <2>1. /\ pc[c] \in FactPcs /\ UNCHANGED <<convs, left, up>> /\ ~ServeResume(c)
        /\ \A d \in Conns \ {c} : pc'[d] = pc[d] /\ thread'[d] = thread[d]
    BY <1>0, <1>10 DEF Remember, StreamEnd, StreamFails, Goto, Pause, Env, ServeResume, FactPcs
  <2>2. CASE StreamEnd(c, "none") /\ Forget(c)
    <3>1. pc'[c] = "idle" /\ thread'[c] = "none"
      BY <1>0, <2>2 DEF StreamEnd, Goto, Pause
    <3> QED
      BY <1>a, <2>1, <2>2, <3>1
  <2>3. CASE StreamFails(c, "extract") /\ UNCHANGED run
    BY <1>0, <2>1, <2>3 DEF StreamFails, Goto, Pause
  <2> QED
    BY <1>10, <2>2, <2>3 DEF Remember
<1> QED
  BY <1>1, <1>2, <1>3, <1>4, <1>5, <1>6, <1>7, <1>8, <1>9, <1>10 DEF Works

LEMMA OnceParts ==
    ASSUME TypeOK, NEW c \in Conns
    PROVE  /\ up[c] \in Seq(Letters) /\ left[c] \in Nat /\ run[c].turn \in Turns \cup {None}
           /\ \A i \in DOMAIN convs : convs[i].turn \in Turns
<1>1. up[c] \in Seq(Letters) /\ left[c] \in Nat /\ run[c] \in Run /\ convs \in Seq(Conv)
  BY DEF TypeOK, Letters
<1>2. \A i \in DOMAIN convs : convs[i] \in Conv
  BY <1>1
<1> QED
  BY <1>1, <1>2 DEF Run, Conv

\* A step that stores no turn and starts none.
LEMMA OnceKept ==
    ASSUME TypeOK, OnceInv, NEW c \in Conns, UNCHANGED convs, Others(c), AheadKept(c),
           Queue(c, up'[c], left'[c]),
           \A t \in Turns : Above(t, up[c], left[c]) => Above(t, up'[c], left'[c])
    PROVE  OnceInv'
<1>1. Ordered(c)'
  <2>1. \A i \in DOMAIN convs : convs[i].turn[1] = c => Above(convs[i].turn, up'[c], left'[c])
    BY OnceParts DEF OnceInv, Ordered
  <2>2. run'[c].turn # None =>
          run'[c].turn[1] = c /\ Above(run'[c].turn, up'[c], left'[c])
    BY OnceParts DEF OnceInv, Ordered, AheadKept
  <2> QED
    BY <2>1, <2>2 DEF Ordered
<1>2. Unsaved(c)'
  BY DEF OnceInv, Unsaved, Saved, AheadKept
<1>3. Alike(c)'
  <2>1. \A i \in DOMAIN convs : convs[i].turn # None
    BY OnceParts, NoneIsNoTurn
  <2> QED
    BY <2>1 DEF OnceInv, Alike, AheadKept
<1>4. ASSUME NEW d \in Conns \ {c} PROVE Ordered(d)' /\ Unsaved(d)' /\ Alike(d)'
  BY DEF OnceInv, Ordered, Unsaved, Ahead, Saved, Others, Alike
<1> QED
  BY <1>1, <1>2, <1>3, <1>4 DEF OnceInv

LEMMA OnceWorks ==
    ASSUME TypeOK, OnceInv, NEW c \in Conns, Works(c), Turning(c), Retries(c)
    PROVE  OnceInv'
<1>0. up \in [Conns -> Seq(Messages \cup Replies)] /\ up[c] \in Seq(Letters) /\ left[c] \in Nat
      /\ Queue(c, up[c], left[c])
  BY OnceParts DEF TypeOK, OnceInv, Ordered
<1>1. /\ UNCHANGED <<convs, left>> /\ AheadKept(c)
      /\ \A d \in Conns \ {c} : pc'[d] = pc[d] /\ thread'[d] = thread[d] /\ run'[d] = run[d]
      /\ \/ UNCHANGED up
         \/ up[c] # <<>> /\ up' = [up EXCEPT ![c] = Tail(@)]
  BY WorksKeep
<1>2. Others(c) /\ (up'[c] = up[c] \/ (up[c] # <<>> /\ up'[c] = Tail(up[c])))
  BY <1>0, <1>1 DEF Others
<1>3. /\ Queue(c, up'[c], left'[c])
      /\ \A t \in Turns : Above(t, up[c], left[c]) => Above(t, up'[c], left'[c])
  <2> DEFINE q == up[c]
             n == left[c]
  <2>1. q \in Seq(Letters) /\ n \in Nat /\ Queue(c, q, n) /\ left'[c] = n
    BY <1>0, <1>1
  <2> HIDE DEF q, n
  <2>2. CASE up'[c] = q
    BY <2>1, <2>2 DEF q, n
  <2>3. CASE q # <<>> /\ up'[c] = Tail(q)
    <3>1. Queue(c, Tail(q), n) /\ \A t : Above(t, q, n) => Above(t, Tail(q), n)
      BY <2>1, <2>3, QueueTail
    <3> QED
      BY <2>1, <2>3, <3>1 DEF q, n
  <2> QED
    BY <1>2, <2>2, <2>3 DEF q
<1> QED
  BY <1>1, <1>2, <1>3, OnceKept

\* The client's steps that send nothing.
LEMMA OnceClient ==
    ASSUME TypeOK, OnceInv, UNCHANGED <<up, left, pc, thread, run, convs>>
    PROVE  OnceInv'
BY DEF OnceInv, Ordered, Unsaved, Ahead, Saved, Alike

LEMMA OnceConnect ==
    ASSUME TypeOK, OnceInv, NEW c \in Conns, Connect(c)
    PROVE  OnceInv'
<1>0. up \in [Conns -> Seq(Messages \cup Replies)] /\ left[c] \in Nat
  BY DEF TypeOK
<1>1. Admit(c) /\ up' = [up EXCEPT ![c] = <<>>] /\ UNCHANGED <<left, convs>>
  BY DEF Connect, db_vars
<1>2. Others(c) /\ up'[c] = <<>> /\ left'[c] = left[c]
  BY <1>0, <1>1, AdmitOK DEF Others
<1>3. Queue(c, up'[c], left'[c]) /\ \A t : Above(t, up[c], left[c]) => Above(t, up'[c], left'[c])
  BY <1>2, QueueNone DEF Above
<1> QED
  BY <1>1, <1>2, <1>3, AdmitTurn, OnceKept

\* A question, on the socket that is open or on a new one.
LEMMA OnceAsk ==
    ASSUME TypeOK, OnceInv, NEW c \in Conns, Ask(c) \/ AskAgain(c)
    PROVE  OnceInv'
<1>0. /\ up \in [Conns -> Seq(Messages \cup Replies)] /\ up[c] \in Seq(Letters)
      /\ left \in [Conns -> Nat] /\ left[c] \in Nat \ {0} /\ Queue(c, up[c], left[c])
      /\ left' = [left EXCEPT ![c] = @ - 1] /\ UNCHANGED convs
      /\ client[c] \in Clients /\ left[c] > 0
  <2>1. left[c] > 0 /\ left' = [left EXCEPT ![c] = @ - 1] /\ UNCHANGED convs
    BY DEF Ask, AskAgain, db_vars
  <2>2. /\ up \in [Conns -> Seq(Messages \cup Replies)] /\ up[c] \in Seq(Letters)
        /\ left \in [Conns -> Nat] /\ left[c] \in Nat /\ Queue(c, up[c], left[c])
        /\ client[c] \in Clients
    BY OnceParts DEF TypeOK, OnceInv, Ordered
  <2>3. left[c] \in Nat \ {0}
    BY <2>1, <2>2
  <2> QED
    BY <2>1, <2>2, <2>3
<1>1. PICK want \in Wants, feedback \in BOOLEAN, late \in BOOLEAN :
        LET m == Question(<<c, left[c]>>, want, feedback, late)
        IN up' = [up EXCEPT ![c] = Append(up[c], m)] \/ up' = [up EXCEPT ![c] = <<m>>]
  <2>1. client[c].late \in BOOLEAN /\ FALSE \in BOOLEAN
    BY <1>0 DEF Clients
  <2> QED
    BY <2>1 DEF Ask, AskAgain
<1> DEFINE m == Question(<<c, left[c]>>, want, feedback, late)
<1>2. m \in Letters /\ m.turn = <<c, left[c]>>
  BY <1>0, QuestionType DEF Letters, Question
<1>3. up' = [up EXCEPT ![c] = Append(up[c], m)] \/ up' = [up EXCEPT ![c] = <<m>>]
  BY <1>1
<1> HIDE DEF m
<1>4. /\ up'[c] = Append(up[c], m) \/ up'[c] = <<m>>
      /\ left'[c] = left[c] - 1
      /\ \A d \in Conns \ {c} : up'[d] = up[d] /\ left'[d] = left[d]
  BY <1>0, <1>3
<1>5. /\ Queue(c, up'[c], left'[c])
      /\ \A t \in Turns : Above(t, up[c], left[c]) => Above(t, up'[c], left'[c])
  <2> DEFINE q == up[c]
             n == left[c]
  <2>1. /\ q \in Seq(Letters) /\ n \in Nat \ {0} /\ Queue(c, q, n) /\ m.turn = <<c, n>>
        /\ left'[c] = n - 1
    BY <1>0, <1>2, <1>4
  <2>2. up'[c] = Append(q, m) \/ up'[c] = <<m>>
    BY <1>4
  <2> HIDE DEF q, n
  <2>3. /\ Queue(c, Append(q, m), n - 1) /\ Queue(c, <<m>>, n - 1)
        /\ \A t \in Turns : Above(t, q, n) =>
              Above(t, Append(q, m), n - 1) /\ Above(t, <<m>>, n - 1)
    BY <1>2, <2>1, QueueQuestion
  <2>4. CASE up'[c] = Append(q, m)
    BY <2>1, <2>3, <2>4 DEF q, n
  <2>5. CASE up'[c] = <<m>>
    BY <2>1, <2>3, <2>5 DEF q, n
  <2> QED
    BY <2>2, <2>4, <2>5
<1>6. CASE Ask(c)
  <2>1. UNCHANGED <<pc, thread, run>>
    BY <1>6 DEF Ask, conn_vars
  <2>2. Others(c) /\ AheadKept(c)
    BY <1>4, <2>1 DEF Others, AheadKept, Ahead
  <2> QED
    BY <1>0, <1>5, <2>2, OnceKept
<1>7. CASE AskAgain(c)
  <2>1. Admit(c)
    BY <1>7 DEF AskAgain
  <2>2. Others(c)
    BY <1>4, <2>1, AdmitOK DEF Others
  <2> QED
    BY <1>0, <1>5, <2>1, <2>2, AdmitTurn, OnceKept
<1> QED
  BY <1>6, <1>7

LEMMA OnceAnswer ==
    ASSUME TypeOK, OnceInv, NEW c \in Conns, Answer(c)
    PROVE  OnceInv'
<1>0. /\ up \in [Conns -> Seq(Messages \cup Replies)] /\ up[c] \in Seq(Letters)
      /\ left[c] \in Nat /\ Queue(c, up[c], left[c]) /\ client[c] \in Clients
  BY OnceParts DEF TypeOK, OnceInv, Ordered
<1>1. UNCHANGED <<left, pc, thread, run, convs>>
  BY DEF Answer, conn_vars, db_vars
<1>2. CASE UNCHANGED up
  BY <1>1, <1>2, OnceClient
<1>3. CASE ~UNCHANGED up
  <2>1. PICK score \in {"low", "high", "none"} :
           up' = [up EXCEPT ![c] = Append(up[c], Reply(client[c].shown, score, client[c].late))]
    BY <1>3 DEF Answer
  <2> DEFINE m == Reply(client[c].shown, score, client[c].late)
  <2>2. up' = [up EXCEPT ![c] = Append(up[c], m)]
    BY <2>1
  <2>3. m \in Letters /\ m.kind = "resume"
    BY <1>0 DEF Reply, Replies, Clients, Letters
  <2> HIDE DEF m
  <2>4. Others(c) /\ AheadKept(c) /\ up'[c] = Append(up[c], m) /\ left'[c] = left[c]
    BY <1>0, <1>1, <2>2 DEF Others, AheadKept, Ahead
  <2>5. /\ Queue(c, up'[c], left'[c])
        /\ \A t \in Turns : Above(t, up[c], left[c]) => Above(t, up'[c], left'[c])
    <3> DEFINE q == up[c]
               n == left[c]
    <3>1. q \in Seq(Letters) /\ n \in Nat /\ Queue(c, q, n) /\ left'[c] = n
          /\ up'[c] = Append(q, m)
      BY <1>0, <2>4
    <3> HIDE DEF q, n
    <3>2. Queue(c, Append(q, m), n) /\ \A t : Above(t, q, n) => Above(t, Append(q, m), n)
      BY <2>3, <3>1, QueueReply
    <3> QED
      BY <3>1, <3>2 DEF q, n
  <2> QED
    BY <1>1, <2>4, <2>5, OnceKept
<1> QED
  BY <1>2, <1>3

\* The turn that is served is older than every one that is stored.
LEMMA OnceServe ==
    ASSUME TypeOK, OnceInv, NEW c \in Conns, ServeMessage(c)
    PROVE  OnceInv'
<1> DEFINE q == up[c]
           n == left[c]
           m == Head(q)
<1>0. /\ up \in [Conns -> Seq(Messages \cup Replies)] /\ q \in Seq(Letters) /\ n \in Nat
      /\ Queue(c, q, n) /\ q # <<>> /\ m.kind = "message" /\ m \in Letters
      /\ up' = [up EXCEPT ![c] = Tail(q)] /\ UNCHANGED <<left, convs>>
  <2>1. /\ up \in [Conns -> Seq(Messages \cup Replies)] /\ q \in Seq(Letters) /\ n \in Nat
        /\ Queue(c, q, n)
    BY OnceParts DEF TypeOK, OnceInv, Ordered
  <2>2. /\ q # <<>> /\ m.kind = "message" /\ up' = [up EXCEPT ![c] = Tail(q)]
        /\ UNCHANGED <<left, convs>>
    BY DEF ServeMessage, Env, db_vars
  <2>3. m \in Letters
    BY <2>1, <2>2
  <2> QED
    BY <2>1, <2>2, <2>3
<1>1. /\ up'[c] = Tail(q) /\ left'[c] = n
      /\ \A d \in Conns \ {c} : up'[d] = up[d] /\ left'[d] = left[d]
  BY <1>0
<1>2. m.turn \in Turns
  BY <1>0, LetterFields
<1>3. CASE Refuse(c)
  <2>1. /\ \A d \in Conns \ {c} : run'[d] = run[d] /\ pc'[d] = pc[d] /\ thread'[d] = thread[d]
        /\ run'[c] = Idle /\ pc'[c] = "off"
    BY <1>3, RefuseOK
  <2>2. Others(c) /\ AheadKept(c)
    BY <1>1, <2>1 DEF Others, AheadKept, Ahead, Idle
  <2>3. /\ Queue(c, up'[c], left'[c])
        /\ \A t \in Turns : Above(t, up[c], left[c]) => Above(t, up'[c], left'[c])
    <3> HIDE DEF q, n
    <3>1. Queue(c, Tail(q), n) /\ \A t : Above(t, q, n) => Above(t, Tail(q), n)
      BY <1>0, QueueTail
    <3> QED
      BY <1>1, <3>1 DEF q, n
  <2> QED
    BY <1>0, <2>2, <2>3, OnceKept
<1>4. CASE ~Refuse(c)
  <2>1. /\ run' = [run EXCEPT ![c] = [Idle EXCEPT !.turn = m.turn,
                               !.scope = Scope(c, m.want), !.feedback = m.feedback,
                               !.late = m.late]]
        /\ Goto(c, "graphs") /\ UNCHANGED <<down, thread>>
    BY <1>4 DEF ServeMessage
  <2>2. /\ run'[c].turn = m.turn /\ \A d \in Conns \ {c} : run'[d] = run[d]
        /\ \A d \in Conns \ {c} : pc'[d] = pc[d] /\ thread'[d] = thread[d]
    BY <2>1 DEF TypeOK, Goto, Idle
  <2> HIDE DEF q, n, m
  <2>3. /\ Queue(c, Tail(q), n) /\ (\A t : Above(t, q, n) => Above(t, Tail(q), n))
        /\ Head(q).kind = "message" => /\ Head(q).turn[1] = c
                                       /\ Above(Head(q).turn, Tail(q), n)
    BY <1>0, QueueTail
  <2>4. m.turn[1] = c /\ Above(m.turn, Tail(q), n)
    BY <1>0, <2>3 DEF m
  <2>5. Ordered(c)'
    <3>1. \A i \in DOMAIN convs : convs[i].turn[1] = c => Above(convs[i].turn, q, n)
      BY DEF OnceInv, Ordered, q, n
    <3> QED
      BY <1>0, <1>1, <2>2, <2>3, <2>4, <3>1 DEF Ordered
  <2>6. ~Saved(m.turn)
    <3> SUFFICES ASSUME NEW i \in DOMAIN convs, convs[i].turn = m.turn PROVE FALSE
      BY DEF Saved
    <3>1. Above(m.turn, q, n)
      BY <2>4 DEF OnceInv, Ordered, q, n
    <3>2. 1 \in DOMAIN q /\ q[1] = m
      <4>1. q # <<>> /\ q \in Seq(Letters)
        BY <1>0
      <4>2. 1 \in DOMAIN q /\ q[1] = Head(q)
        BY <4>1
      <4> QED
        BY <4>2 DEF m
    <3>3. m.turn[2] \in Nat
      BY <1>2, TurnParts
    <3> QED
      BY <1>0, <3>1, <3>2, <3>3 DEF Above
  <2>7. Unsaved(c)' /\ Alike(c)'
    BY <1>0, <2>2, <2>6 DEF Unsaved, Saved, Alike
  <2>8. ASSUME NEW d \in Conns \ {c} PROVE Ordered(d)' /\ Unsaved(d)' /\ Alike(d)'
    <3>1. Others(c) /\ UNCHANGED convs
      BY <1>0, <1>1, <2>2 DEF Others
    <3> QED
      BY <3>1 DEF OnceInv, Ordered, Unsaved, Ahead, Saved, Others, Alike
  <2> QED
    BY <1>0, <2>5, <2>7, <2>8 DEF OnceInv
<1> QED
  BY <1>3, <1>4

LEMMA OnceSave ==
    ASSUME TypeOK, OnceInv, NEW c \in Conns, Turning(c), SaveTurn(c)
    PROVE  OnceInv'
<1> DEFINE x == ConvOf(c)
           N == Len(convs)
<1>1. pc[c] = "sum_save" /\ UNCHANGED <<up, run, left>>
  BY DEF SaveTurn, Env
<1>2. pc'[c] = "sum_session" \/ (pc'[c] = "idle" /\ thread'[c] = "summarize")
  BY DEF TypeOK, SaveTurn, StreamFails, Goto, Pause
<1>3. \A d \in Conns \ {c} : pc'[d] = pc[d] /\ thread'[d] = thread[d]
  BY DEF TypeOK, SaveTurn, StreamFails, Goto, Pause
<1>4. ~Ahead(c)'
  BY <1>2 DEF Ahead
<1>5. CASE UNCHANGED convs
  <2>1. Others(c) /\ AheadKept(c)
    BY <1>1, <1>3, <1>4 DEF Others, AheadKept
  <2>2. Queue(c, up'[c], left'[c])
    BY <1>1 DEF OnceInv, Ordered
  <2> QED
    BY <1>1, <1>5, <2>1, <2>2, OnceKept
<1>6. CASE convs' = Append(convs, x)
  <2>1. /\ run[c].turn \in Turns /\ Ordered(c) /\ Ahead(c)
        /\ x.turn = run[c].turn /\ x.late = run[c].late
    BY <1>1 DEF Turning, GraphPcs, SavePcs, OnceInv, Ahead, ConvOf
  <2> HIDE DEF x
  <2>2. /\ N \in Nat /\ DOMAIN convs = 1 .. N /\ DOMAIN convs' = 1 .. (N + 1)
        /\ convs'[N + 1] = x /\ \A i \in 1 .. N : convs'[i] = convs[i]
    <3>1. convs \in Seq(Conv)
      BY DEF TypeOK
    <3> QED
      BY <1>6, <3>1
  <2> HIDE DEF N
  <2>3. \A i \in DOMAIN convs' : (i \in DOMAIN convs /\ convs'[i] = convs[i])
                                    \/ (i = N + 1 /\ convs'[i] = x)
    BY <2>2
  <2>4. ASSUME NEW d \in Conns PROVE Ordered(d)'
    <3>1. Ordered(d) /\ up'[d] = up[d] /\ left'[d] = left[d] /\ run'[d] = run[d]
      BY <1>1 DEF OnceInv
    <3>2. \A i \in DOMAIN convs' : convs'[i].turn[1] = d => Above(convs'[i].turn, up[d], left[d])
      BY <2>1, <2>3, <3>1, NoneIsNoTurn DEF Ordered
    <3> QED
      BY <3>1, <3>2 DEF Ordered
  <2>5. ASSUME NEW d \in Conns \ {c} PROVE Unsaved(d)' /\ Alike(d)'
    <3>1. run'[d] = run[d] /\ Unsaved(d) /\ Alike(d) /\ (Ahead(d)' <=> Ahead(d))
      BY <1>1, <1>3 DEF OnceInv, Ahead
    <3>2. run[d].turn # run[c].turn
      <4>1. run[c].turn[1] = c /\ run[c].turn # None
        BY <2>1, NoneIsNoTurn DEF Ordered
      <4> QED
        BY <4>1 DEF OnceInv, Ordered
    <3> QED
      BY <2>1, <2>3, <3>1, <3>2 DEF Unsaved, Saved, Alike
  <2>6. Unsaved(c)' /\ Alike(c)'
    BY <1>1, <1>4, <2>1, <2>3 DEF Unsaved, Alike, OnceInv
  <2>7. \A i, j \in DOMAIN convs' :
           convs'[i].turn = convs'[j].turn /\ ~convs'[i].late => i = j
    <3>1. \A i, j \in DOMAIN convs :
             convs[i].turn = convs[j].turn /\ ~convs[i].late => i = j
      BY DEF OnceInv
    \* A turn that is stored again is a late one, and was when it was stored.
    <3>2. \A i \in DOMAIN convs : convs[i].turn = x.turn => convs[i].late /\ x.late
      BY <2>1 DEF OnceInv, Unsaved, Alike, Saved
    <3> QED
      BY <2>3, <3>1, <3>2
  <2> QED
    BY <2>4, <2>5, <2>6, <2>7 DEF OnceInv
<1> QED
  BY <1>5, <1>6 DEF SaveTurn

LEMMA OnceStep ==
    ASSUME IInv, OnceInv, \A c \in Conns : Retries(c), [Next]_vars
    PROVE  OnceInv'
<1>0. TypeOK /\ \A c \in Conns : Turning(c)
  BY DEF IInv, Sane
<1>1. CASE Move \/ UNCHANGED vars
  BY <1>0, <1>1, OnceClient DEF Move, vars, client_vars, conn_vars, db_vars
<1>2. ASSUME NEW c \in Conns, GiveUp(c) \/ Receive(c) \/ ReceiveClosed(c) PROVE OnceInv'
  BY <1>0, <1>2, OnceClient DEF GiveUp, Receive, ReceiveClosed, conn_vars, db_vars
<1>3. ASSUME NEW c \in Conns, Connect(c) \/ Ask(c) \/ AskAgain(c) \/ Answer(c) PROVE OnceInv'
  BY <1>0, <1>3, OnceConnect, OnceAsk, OnceAnswer
<1>4. ASSUME NEW c \in Conns, Works(c) PROVE OnceInv'
  BY <1>0, <1>4, OnceWorks
<1>5. ASSUME NEW c \in Conns, ServeMessage(c) \/ SaveTurn(c) PROVE OnceInv'
  BY <1>0, <1>5, OnceServe, OnceSave
<1> QED
  BY <1>1, <1>2, <1>3, <1>4, <1>5 DEF Next, Client, Server, Graph, Works

LEMMA OnceInit == ASSUME Init PROVE OnceInv
<1>1. /\ \A c \in Conns : up[c] = <<>> /\ run[c].turn = None /\ pc[c] = "off"
      /\ convs = <<>>
  BY DEF Init, Idle
<1> QED
  BY <1>1, QueueNone DEF OnceInv, Ordered, Unsaved, Ahead, Alike

----------------------------------------------------------------------------
(* What the client of a turn sees.                                         *)

SavedTurns == {convs[i].turn : i \in DOMAIN convs}

WritePcs == {"sum_session", "extract"} \cup FactPcs
BackPcs  == {"summarize"} \cup SavePcs \cup WritePcs
Ending4  == {"complete", "error", "score", "reason"}

\* What is written back after the turn has been stored.
SavedPhase(c) == (pc[c] \in WritePcs \/ (pc[c] = "idle" /\ thread[c] = "extract"))
                    => run[c].turn \in SavedTurns
Rated(c) == ~run[c].late => run[c].rated \in {None, run[c].turn}

\* A reply of a client that has never given up is the first of its queue, and the handler
\* is waiting with the turn that it is about.
Fresh(c, i) == i \in DOMAIN up[c] /\ up[c][i].kind = "resume" /\ ~up[c][i].late
Timely(c) == \A i \in Nat : Fresh(c, i) =>
    /\ i = 1 /\ pc[c] \in {"idle", "off"}
    /\ pc[c] = "idle" => thread[c] \in {"score", "reason"}
    /\ (pc[c] = "idle" /\ thread[c] = "score") => run[c].turn = up[c][1].turn

\* What can be under way to the client: the answer, then how the stream ends.
Event(k, t)   == [kind |-> k, turn |-> t]
Streams(t)    == {<<>>, <<Event("stream", t)>>}
Ends(k, t)    == {<<Event(k, None)>>, <<Event("stream", t), Event(k, None)>>}
Shown(c)      == \/ client[c].shown = client[c].asked
                 \/ down[c] # <<>> /\ Head(down[c]).kind = "stream"
EndsWith(c, k) == /\ k \in Ending4 /\ down[c] \in Ends(k, client[c].asked)
                  /\ k # "error" => Shown(c)
                  /\ k = "complete" => client[c].asked \in SavedTurns

\* Where a turn is while its client waits for it.
Closed(c)  == pc[c] = "off" /\ (\/ down[c] \in Streams(client[c].asked)
                                \/ \E k \in Ending4 : EndsWith(c, k))
Posted(c)  == /\ pc[c] = "idle" /\ down[c] = <<>> /\ Len(up[c]) = 1
              /\ up[c][1].turn = client[c].asked
              /\ up[c][1].kind = "resume" =>
                   /\ ~up[c][1].late /\ thread[c] \in {"score", "reason"}
                   /\ run[c].turn = client[c].asked /\ client[c].shown = client[c].asked
Ended(c)   == /\ pc[c] = "idle" /\ up[c] = <<>>
              /\ \E k \in Ending4 :
                   /\ EndsWith(c, k)
                   /\ k \in {"score", "reason"} => thread[c] = k /\ run[c].turn = client[c].asked
Working(c) == /\ pc[c] \notin {"off", "idle"} /\ up[c] = <<>> /\ run[c].turn = client[c].asked
              /\ down[c] \in Streams(client[c].asked)
              /\ IF pc[c] \in BackPcs THEN Shown(c) ELSE down[c] = <<>>
Waiting(c) == Closed(c) \/ Posted(c) \/ Ended(c) \/ Working(c)
Resting(c) == pc[c] = "off" \/ (pc[c] = "idle" /\ up[c] = <<>> /\ down[c] = <<>>)

Proto(c) == ~client[c].late =>
    /\ client[c].at = "off" => pc[c] = "off"
    /\ client[c].at = "prompt" => Resting(c)
    /\ client[c].at \in {"score", "reason"} =>
         /\ Resting(c) /\ client[c].shown = client[c].asked
         /\ pc[c] = "idle" => thread[c] = client[c].at /\ run[c].turn = client[c].asked
    /\ client[c].at = "wait" => Waiting(c)
    /\ client[c].end = "complete" => /\ client[c].shown = client[c].asked
                                     /\ client[c].asked \in SavedTurns

Mine(c)    == SavedPhase(c) /\ Rated(c) /\ Timely(c) /\ Proto(c)
ConvsRated == \A i \in DOMAIN convs : ~convs[i].late => convs[i].rated \in {None, convs[i].turn}
ProtoInv   == ConvsRated /\ \A c \in Conns : Mine(c)

\* The other connections do not notice.
LEMMA ProtoKept ==
    ASSUME ProtoInv, NEW c \in Conns, Same(c), SavedTurns \subseteq SavedTurns', ConvsRated', Mine(c)'
    PROVE  ProtoInv'
<1>1. ASSUME NEW d \in Conns \ {c} PROVE Mine(d)'
  <2>1. /\ client'[d] = client[d] /\ up'[d] = up[d] /\ down'[d] = down[d] /\ pc'[d] = pc[d]
        /\ thread'[d] = thread[d] /\ run'[d] = run[d] /\ Mine(d)
    BY DEF Same, ProtoInv
  <2>2. SavedPhase(d)' /\ Rated(d)' /\ Timely(d)'
    BY <2>1 DEF Mine, SavedPhase, Rated, Timely, Fresh
  <2>3. \A k : EndsWith(d, k) => EndsWith(d, k)'
    BY <2>1 DEF EndsWith, Shown
  <2>4. Waiting(d) => Waiting(d)'
    BY <2>1, <2>3 DEF Waiting, Closed, Posted, Ended, Working, Shown
  <2>5. Proto(d)'
    BY <2>1, <2>4 DEF Mine, Proto, Resting
  <2> QED
    BY <2>2, <2>5 DEF Mine
<1> QED
  BY <1>1 DEF ProtoInv

\* The server works only for a client that waits, unless that has given up before.
LEMMA AtWork ==
    ASSUME TypeOK, NEW c \in Conns, Mine(c), ~client[c].late, pc[c] \notin {"off", "idle"}
    PROVE  client[c].at = "wait" /\ Working(c)
<1>1. client[c].at \in {"off", "prompt", "wait", "score", "reason"}
  BY DEF TypeOK, Clients
<1>2. client[c].at = "wait"
  BY <1>1 DEF Mine, Proto, Resting
<1> QED
  BY <1>2 DEF Mine, Proto, Waiting, Closed, Posted, Ended

LEMMA AtPost ==
    ASSUME TypeOK, NEW c \in Conns, Mine(c), ~client[c].late, pc[c] = "idle", up[c] # <<>>
    PROVE  client[c].at = "wait" /\ Posted(c)
<1>1. client[c].at \in {"off", "prompt", "wait", "score", "reason"}
  BY DEF TypeOK, Clients
<1>2. client[c].at = "wait"
  BY <1>1 DEF Mine, Proto, Resting
<1> QED
  BY <1>2 DEF Mine, Proto, Waiting, Closed, Ended, Working

LEMMA ServerMine ==
    ASSUME NEW c \in Conns, Mine(c), UNCHANGED client, SavedTurns \subseteq SavedTurns',
           SavedPhase(c)', Rated(c)', Timely(c)',
           ~client[c].late => client[c].at = "wait" /\ Waiting(c)'
    PROVE  Mine(c)'
BY DEF Mine, Proto

\* Taking the first message leaves no fresh reply.
LEMMA TimelyTail ==
    ASSUME TypeOK, NEW c \in Conns, Timely(c), up[c] # <<>>, up'[c] = Tail(up[c])
    PROVE  Timely(c)'
<1>1. up[c] \in Seq(Messages \cup Replies)
  BY DEF TypeOK
<1>2. \A i \in DOMAIN up'[c] : i \in Nat /\ i # 0 /\ i + 1 \in DOMAIN up[c] /\ up'[c][i] = up[c][i + 1]
  BY <1>1
<1>3. \A i \in Nat : Fresh(c, i)' => Fresh(c, i + 1) /\ i # 0
  BY <1>2 DEF Fresh
<1> QED
  BY <1>3 DEF Timely

\* No fresh reply waits for a handler at work.
LEMMA TimelyWork ==
    ASSUME NEW c \in Conns, Timely(c), up'[c] = up[c], pc[c] \notin {"off", "idle"}
    PROVE  Timely(c)'
BY DEF Timely, Fresh

\* The turn goes on, and nothing is said.
LEMMA GoesOn ==
    ASSUME TypeOK, NEW c \in Conns, Mine(c), pc[c] \notin {"off", "idle"},
           UNCHANGED client, SavedTurns \subseteq SavedTurns', up'[c] = up[c], down'[c] = down[c],
           run'[c].turn = run[c].turn, run'[c].rated = run[c].rated, run'[c].late = run[c].late,
           pc'[c] \notin {"off", "idle"}, pc'[c] \in BackPcs <=> pc[c] \in BackPcs,
           pc'[c] \in WritePcs => run[c].turn \in SavedTurns'
    PROVE  Mine(c)'
<1>1. SavedPhase(c)' /\ Rated(c)'
  BY DEF Mine, SavedPhase, Rated
<1>2. Timely(c)'
  BY TimelyWork DEF Mine
<1>3. ~client[c].late => client[c].at = "wait" /\ Working(c)'
  BY AtWork DEF Working, Shown
<1> QED
  BY <1>1, <1>2, <1>3, ServerMine DEF Waiting

\* One event, and another one.
LEMMA Pairs ==
    ASSUME NEW S, NEW x \in S, NEW y \in S
    PROVE  /\ Append(<<x>>, y) = <<x, y>> /\ <<x>> \o <<y>> = <<x, y>>
           /\ SubSeq(<<x, y>>, 1, 1) = <<x>>
<1> DEFINE a == Append(<<x>>, y)
           b == <<x>> \o <<y>>
           d == SubSeq(<<x, y>>, 1, 1)
<1>1. /\ <<x>> \in Seq(S) /\ Len(<<x>>) = 1 /\ <<y>> \in Seq(S)
      /\ <<x, y>> \in Seq(S) /\ Len(<<x, y>>) = 2
  OBVIOUS
<1>2. Len(a) = 2 /\ a \in Seq(S) /\ a[1] = x /\ a[2] = y
  BY <1>1
<1>3. Len(b) = 2 /\ b \in Seq(S) /\ b[1] = x /\ b[2] = y
  BY <1>1
<1>4. Len(d) = 1 /\ d \in Seq(S) /\ d[1] = x
  BY <1>1
<1> HIDE DEF a, b, d
<1>5. a = <<x, y>>
  BY <1>2
<1>6. b = <<x, y>>
  BY <1>3
<1>7. d = <<x>>
  BY <1>4
<1> QED
  BY <1>5, <1>6, <1>7 DEF a, b, d

LEMMA SendEnds ==
    ASSUME TypeOK, NEW c \in Conns, NEW k \in Ending4, Send(c, k, None), NEW t,
           down[c] \in Streams(t)
    PROVE  /\ down'[c] \in Ends(k, t)
           /\ down[c] # <<>> => Head(down'[c]) = Head(down[c])
<1>0. down'[c] = Append(down[c], Event(k, None))
  BY DEF TypeOK, Send, Event
<1> DEFINE e == Event(k, None)
           f == Event("stream", t)
<1>1. CASE down[c] = <<>>
  BY <1>0, <1>1 DEF Ends
<1>2. CASE down[c] = <<f>>
  <2> HIDE DEF e, f
  <2>1. Head(<<f, e>>) = f /\ Head(<<f>>) = f
    OBVIOUS
  <2>2. Append(<<f>>, e) = <<f, e>>
    <3>1. f \in {f, e} /\ e \in {f, e}
      OBVIOUS
    <3> QED
      BY <3>1, Pairs
  <2> QED
    BY <1>0, <1>2, <2>1, <2>2 DEF Ends, e, f
<1> QED
  BY <1>1, <1>2 DEF Streams

\* The stream of a turn at work ends.
LEMMA Stops ==
    ASSUME TypeOK, NEW c \in Conns, Mine(c), pc[c] \notin {"off", "idle"},
           UNCHANGED client, SavedTurns \subseteq SavedTurns', up'[c] = up[c],
           pc'[c] \in {"off", "idle"}, NEW k \in {"complete", "error"}, Send(c, k, None),
           thread'[c] = "extract" => run'[c].turn \in SavedTurns', Rated(c)',
           k = "complete" => pc'[c] = "idle" /\ pc[c] \in BackPcs /\ run[c].turn \in SavedTurns'
    PROVE  Mine(c)'
<1>1. SavedPhase(c)'
  BY DEF SavedPhase, WritePcs, FactPcs
<1>2. Timely(c)'
  BY TimelyWork DEF Mine
<1>3. ASSUME ~client[c].late PROVE client[c].at = "wait" /\ Waiting(c)'
  <2>1. client[c].at = "wait" /\ Working(c) /\ k \in Ending4
    BY <1>3, AtWork DEF Ending4
  <2>2. /\ down'[c] \in Ends(k, client[c].asked)
        /\ down[c] # <<>> => Head(down'[c]) = Head(down[c])
    BY <2>1, SendEnds DEF Working
  <2>3. down'[c] # <<>>
    BY <2>2 DEF Ends
  <2>4. EndsWith(c, k)'
    BY <2>1, <2>2, <2>3 DEF EndsWith, Working, Shown
  <2> QED
    BY <2>1, <2>4 DEF Waiting, Closed, Ended, Working
<1> QED
  BY <1>1, <1>2, <1>3, ServerMine

\* A node of the turn fails.
LEMMA FailsMine ==
    ASSUME TypeOK, NEW c \in Conns, Mine(c), pc[c] \notin {"off", "idle"},
           UNCHANGED client, SavedTurns \subseteq SavedTurns', up'[c] = up[c], UNCHANGED run,
           NEW where, StreamFails(c, where),
           where = "extract" => run[c].turn \in SavedTurns'
    PROVE  Mine(c)'
<1>1. pc'[c] = "idle" /\ thread'[c] = where /\ Send(c, "error", None)
  BY DEF TypeOK, StreamFails, Goto, Pause
<1>2. Rated(c)'
  BY DEF Mine, Rated
<1> QED
  BY <1>1, <1>2, Stops

\* Nothing has been rated in a turn that is forgotten.
LEMMA ForgetRated ==
    ASSUME TypeOK, NEW c \in Conns, Forget(c)
    PROVE  Rated(c)' /\ run'[c].turn = None
BY ForgetType DEF Idle, Rated

\* What the server does for one connection is not seen on another.
LEMMA DownOthers ==
    ASSUME TypeOK, NEW c \in Conns, Works(c) \/ ServeMessage(c) \/ SaveTurn(c)
    PROVE  UNCHANGED <<client, joined>> /\ \A d \in Conns \ {c} : down'[d] = down[d]
<1>0. down \in [Conns -> Seq(Events)]
  BY DEF TypeOK
<1> USE DEF Env, client_vars
<1>1. CASE Drop(c)
  BY <1>0, <1>1 DEF Drop
<1>2. CASE ResolveGraphs(c) \/ ServeMessage(c)
  BY <1>0, <1>2 DEF ResolveGraphs, ServeMessage, Refuse, Send
<1>3. CASE ServeResume(c)
  BY <1>0, <1>3 DEF ServeResume, ResumeScore, ResumeReason, ResumeFailed, ResumeFinished,
     StreamEnd, StreamFails, Send
<1>4. CASE BuildContext(c) \/ Search(c) \/ Generate(c)
  BY <1>0, <1>4 DEF BuildContext, Search, Generate, StreamFails, Send
<1>5. CASE Summarize(c) \/ SaveSummary(c) \/ SaveTurn(c)
  BY <1>0, <1>5 DEF Summarize, SaveSummary, SaveTurn, StreamFails, Send
<1>6. CASE Extract(c) \/ Remember(c)
  BY <1>0, <1>6 DEF Extract, Remember, StreamEnd, StreamFails, Send
<1> QED
  BY <1>1, <1>2, <1>3, <1>4, <1>5, <1>6 DEF Works

LEMMA WorksSame ==
    ASSUME TypeOK, NEW c \in Conns, Works(c)
    PROVE  Same(c)
<1>1. /\ \A d \in Conns \ {c} : pc'[d] = pc[d] /\ thread'[d] = thread[d] /\ run'[d] = run[d]
      /\ UNCHANGED up \/ up' = [up EXCEPT ![c] = Tail(@)]
  BY WorksKeep
<1>2. \A d \in Conns \ {c} : up'[d] = up[d]
  BY <1>1 DEF TypeOK
<1> QED
  BY <1>1, <1>2, DownOthers DEF Same

\* The steps of the graph that end in another node.
LEMMA ContextMine == ASSUME TypeOK, NEW c \in Conns, Mine(c), BuildContext(c) PROVE Mine(c)'
<1>0. pc \in [Conns -> Pcs] /\ run \in [Conns -> Run] /\ run[c] \in Run
  BY DEF TypeOK
<1>1. pc[c] = "context" /\ UNCHANGED <<client, up, convs>>
  BY DEF BuildContext, Env, db_vars
<1>2. CASE StreamFails(c, "context") /\ UNCHANGED run
  BY <1>1, <1>2, FailsMine DEF SavedTurns
<1>3. CASE ~(StreamFails(c, "context") /\ UNCHANGED run)
  <2>1. pc'[c] \in {"search", "generate"} /\ UNCHANGED down
    BY <1>0, <1>3 DEF BuildContext, Route, Goto
  <2>2. run'[c].turn = run[c].turn /\ run'[c].rated = run[c].rated /\ run'[c].late = run[c].late
    BY <1>0, <1>3 DEF BuildContext, Run
  <2> QED
    BY <1>1, <2>1, <2>2, GoesOn DEF BackPcs, WritePcs, SavePcs, FactPcs, SavedTurns
<1> QED
  BY <1>2, <1>3

LEMMA SearchMine == ASSUME TypeOK, NEW c \in Conns, Mine(c), Search(c) PROVE Mine(c)'
<1>0. /\ pc \in [Conns -> Pcs] /\ run \in [Conns -> Run] /\ run[c] \in Run
      /\ thread \in [Conns -> Pauses]
  BY DEF TypeOK
<1>1. pc[c] = "search" /\ UNCHANGED <<client, up, convs>>
  BY DEF Search, Env, db_vars
<1>2. CASE StreamFails(c, "search") /\ UNCHANGED run
  <2>1. pc'[c] = "idle" /\ thread'[c] = "search" /\ Send(c, "error", None)
    BY <1>0, <1>2 DEF StreamFails, Goto, Pause
  <2>2. Rated(c)'
    BY <1>2 DEF Mine, Rated
  <2> QED
    BY <1>1, <2>1, <2>2, Stops DEF SavedTurns
<1>3. CASE ~(StreamFails(c, "search") /\ UNCHANGED run)
  <2>1. pc'[c] \in {"search", "generate"} /\ UNCHANGED down
    BY <1>0, <1>3 DEF Search, EvaluateRoute, Goto
  <2>2. run'[c].turn = run[c].turn /\ run'[c].rated = run[c].rated /\ run'[c].late = run[c].late
    BY <1>0, <1>3 DEF Search, Run
  <2> QED
    BY <1>1, <2>1, <2>2, GoesOn DEF BackPcs, WritePcs, SavePcs, FactPcs, SavedTurns
<1> QED
  BY <1>2, <1>3

LEMMA SummarizeMine == ASSUME TypeOK, NEW c \in Conns, Mine(c), Summarize(c) PROVE Mine(c)'
<1>0. pc \in [Conns -> Pcs] /\ run \in [Conns -> Run] /\ run[c] \in Run
  BY DEF TypeOK
<1>1. pc[c] = "summarize" /\ UNCHANGED <<client, up, convs>>
  BY DEF Summarize, Env
<1>2. CASE StreamFails(c, "summarize") /\ UNCHANGED run
  BY <1>1, <1>2, FailsMine DEF SavedTurns
<1>3. CASE ~(StreamFails(c, "summarize") /\ UNCHANGED run)
  <2>1. pc'[c] = "sum_save" /\ UNCHANGED down
    BY <1>0, <1>3 DEF Summarize, Goto
  <2>2. run'[c].turn = run[c].turn /\ run'[c].rated = run[c].rated /\ run'[c].late = run[c].late
    BY <1>0, <1>3 DEF Summarize, Run
  <2> QED
    BY <1>1, <2>1, <2>2, GoesOn DEF BackPcs, WritePcs, SavePcs, FactPcs, SavedTurns
<1> QED
  BY <1>2, <1>3

LEMMA SaveSummaryMine == ASSUME TypeOK, NEW c \in Conns, Mine(c), SaveSummary(c) PROVE Mine(c)'
<1>1. pc[c] = "sum_session" /\ UNCHANGED <<client, up, run, convs>>
  BY DEF SaveSummary, Env
<1>2. run[c].turn \in SavedTurns
  BY <1>1 DEF Mine, SavedPhase, WritePcs
<1>3. CASE StreamFails(c, "summarize")
  BY <1>1, <1>3, FailsMine DEF SavedTurns
<1>4. CASE Goto(c, "extract") /\ UNCHANGED down
  <2>1. pc'[c] = "extract"
    BY <1>4 DEF TypeOK, Goto
  <2> QED
    BY <1>1, <1>2, <1>4, <2>1, GoesOn DEF BackPcs, WritePcs, SavePcs, FactPcs, SavedTurns
<1> QED
  BY <1>3, <1>4 DEF SaveSummary

LEMMA ExtractMine == ASSUME TypeOK, NEW c \in Conns, Mine(c), Extract(c) PROVE Mine(c)'
<1>0. pc \in [Conns -> Pcs] /\ thread \in [Conns -> Pauses]
  BY DEF TypeOK
<1>1. pc[c] = "extract" /\ UNCHANGED <<client, up, convs>>
  BY DEF Extract, Env
<1>2. run[c].turn \in SavedTurns /\ pc[c] \in BackPcs
  BY <1>1 DEF Mine, SavedPhase, WritePcs, BackPcs
<1>3. CASE StreamEnd(c, "none") /\ Forget(c)
  <2>1. pc'[c] = "idle" /\ thread'[c] = "none" /\ Send(c, "complete", None)
    BY <1>0, <1>3 DEF StreamEnd, Goto, Pause
  <2>2. Rated(c)'
    BY <1>3, ForgetRated
  <2> QED
    BY <1>1, <1>2, <2>1, <2>2, Stops DEF SavedTurns
<1>4. CASE StreamFails(c, "extract") /\ UNCHANGED run
  <2>1. pc'[c] = "idle" /\ Send(c, "error", None)
    BY <1>0, <1>4 DEF StreamFails, Goto
  <2>2. Rated(c)'
    BY <1>4 DEF Mine, Rated
  <2> QED
    BY <1>1, <1>2, <1>4, <2>1, <2>2, Stops DEF SavedTurns
<1>5. CASE UNCHANGED <<down, thread, run>> /\ Goto(c, IF facts = 0 THEN "remember_new" ELSE "remember")
  <2>1. pc'[c] \in FactPcs
    BY <1>0, <1>5 DEF Goto, FactPcs
  <2> QED
    BY <1>1, <1>2, <1>5, <2>1, GoesOn DEF BackPcs, WritePcs, SavePcs, FactPcs, SavedTurns
<1> QED
  BY <1>3, <1>4, <1>5 DEF Extract

LEMMA RememberMine == ASSUME TypeOK, NEW c \in Conns, Mine(c), Remember(c) PROVE Mine(c)'
<1>1. pc[c] \in FactPcs /\ UNCHANGED <<client, up, convs>>
  BY DEF Remember, Env
<1>2. run[c].turn \in SavedTurns /\ pc[c] \in BackPcs /\ pc[c] \notin {"off", "idle"}
  BY <1>1 DEF Mine, SavedPhase, WritePcs, BackPcs, FactPcs
<1>3. CASE StreamEnd(c, "none") /\ Forget(c)
  <2>1. pc'[c] = "idle" /\ thread'[c] = "none" /\ Send(c, "complete", None)
    BY <1>3 DEF TypeOK, StreamEnd, Goto, Pause
  <2>2. Rated(c)'
    BY <1>3, ForgetRated
  <2> QED
    BY <1>1, <1>2, <2>1, <2>2, Stops DEF SavedTurns
<1>4. CASE StreamFails(c, "extract") /\ UNCHANGED run
  BY <1>1, <1>2, <1>4, FailsMine DEF SavedTurns
<1> QED
  BY <1>3, <1>4 DEF Remember

LEMMA ResolveMine == ASSUME TypeOK, NEW c \in Conns, Mine(c), ResolveGraphs(c) PROVE Mine(c)'
<1>0. pc \in [Conns -> Pcs] /\ thread \in [Conns -> Pauses]
  BY DEF TypeOK
<1>1. pc[c] = "graphs" /\ UNCHANGED <<client, up, convs>>
  BY DEF ResolveGraphs, Env, db_vars
<1>2. CASE Refuse(c)
  <2>1. /\ pc'[c] = "off" /\ thread'[c] = "none" /\ Send(c, "error", None) /\ Forget(c)
    BY <1>0, <1>2 DEF Refuse, Goto, Pause
  <2>2. Rated(c)'
    BY <2>1, ForgetRated
  <2> QED
    BY <1>1, <2>1, <2>2, Stops DEF SavedTurns
<1>3. CASE ~Refuse(c)
  <2>1. pc'[c] = "context" /\ UNCHANGED <<down, run>>
    BY <1>0, <1>3 DEF ResolveGraphs, Goto
  <2> QED
    BY <1>1, <2>1, GoesOn DEF BackPcs, WritePcs, SavePcs, FactPcs, SavedTurns
<1> QED
  BY <1>2, <1>3

\* Storing the turn.
LEMMA SaveParts ==
    ASSUME TypeOK, NEW c \in Conns, SaveTurn(c)
    PROVE  /\ SavedTurns \subseteq SavedTurns'
           /\ StreamFails(c, "summarize") \/ run[c].turn \in SavedTurns'
           /\ \A i \in DOMAIN convs' :
                 \/ i \in DOMAIN convs /\ convs'[i] = convs[i]
                 \/ /\ convs'[i].turn = run[c].turn /\ convs'[i].rated = run[c].rated
                    /\ convs'[i].late = run[c].late
<1> DEFINE x == ConvOf(c)
           N == Len(convs)
<1>1. x.turn = run[c].turn /\ x.rated = run[c].rated /\ x.late = run[c].late
  BY DEF ConvOf
<1>2. CASE convs' = Append(convs, x)
  <2> HIDE DEF x
  <2>1. /\ N \in Nat /\ DOMAIN convs = 1 .. N /\ DOMAIN convs' = 1 .. (N + 1)
        /\ convs'[N + 1] = x /\ \A i \in 1 .. N : convs'[i] = convs[i]
    <3>1. convs \in Seq(Conv)
      BY DEF TypeOK
    <3> QED
      BY <1>2, <3>1
  <2> HIDE DEF N
  <2>2. \A i \in DOMAIN convs : i \in DOMAIN convs' /\ convs'[i] = convs[i]
    BY <2>1
  <2>3. N + 1 \in DOMAIN convs'
    BY <2>1
  <2>4. \A i \in DOMAIN convs' : (i \in DOMAIN convs /\ convs'[i] = convs[i]) \/ convs'[i] = x
    BY <2>1
  <2> QED
    BY <1>1, <2>1, <2>2, <2>3, <2>4 DEF SavedTurns
<1>3. CASE UNCHANGED convs /\ StreamFails(c, "summarize")
  BY <1>3 DEF SavedTurns
<1> QED
  BY <1>2, <1>3 DEF SaveTurn

LEMMA SaveMine == ASSUME TypeOK, NEW c \in Conns, Mine(c), SaveTurn(c) PROVE Mine(c)'
<1>1. pc[c] = "sum_save" /\ UNCHANGED <<client, up, run>>
  BY DEF SaveTurn, Env
<1>2. CASE StreamFails(c, "summarize")
  BY <1>1, <1>2, SaveParts, FailsMine
<1>3. CASE ~StreamFails(c, "summarize")
  <2>1. pc'[c] = "sum_session" /\ UNCHANGED down
    BY <1>3 DEF TypeOK, SaveTurn, Goto
  <2> QED
    BY <1>1, <1>3, <2>1, SaveParts, GoesOn DEF BackPcs, WritePcs, SavePcs, FactPcs
<1> QED
  BY <1>2, <1>3

LEMMA GenerateMine == ASSUME TypeOK, NEW c \in Conns, Mine(c), Generate(c) PROVE Mine(c)'
<1>0. /\ pc \in [Conns -> Pcs] /\ thread \in [Conns -> Pauses]
      /\ down \in [Conns -> Seq(Events)]
  BY DEF TypeOK
<1>1. pc[c] = "generate" /\ UNCHANGED <<client, up, convs, run>>
  BY DEF Generate, Env, db_vars
<1>2. CASE StreamFails(c, "generate")
  <2>1. pc'[c] = "idle" /\ thread'[c] = "generate" /\ Send(c, "error", None)
    BY <1>0, <1>2 DEF StreamFails, Goto, Pause
  <2>2. Rated(c)'
    BY <1>1 DEF Mine, Rated
  <2> QED
    BY <1>1, <2>1, <2>2, Stops DEF SavedTurns
<1>3. CASE ~StreamFails(c, "generate")
  <2> DEFINE e == Event("stream", run[c].turn)
             f == Event("score", None)
  <2>1. /\ down'[c] = down[c] \o <<e>> \o (IF run[c].feedback THEN <<f>> ELSE <<>>)
        /\ thread'[c] = IF run[c].feedback THEN "score" ELSE "none"
        /\ pc'[c] = IF run[c].feedback THEN "idle" ELSE "summarize"
    BY <1>0, <1>3 DEF Generate, Pause, Goto, FeedbackRoute, Event
  <2>2. SavedPhase(c)' /\ Rated(c)'
    BY <1>1, <2>1 DEF SavedPhase, WritePcs, FactPcs, Mine, Rated
  <2>3. Timely(c)'
    BY <1>1, TimelyWork DEF Mine
  <2>4. ASSUME ~client[c].late PROVE client[c].at = "wait" /\ Waiting(c)'
    <3>1. client[c].at = "wait" /\ Working(c)
      BY <1>1, <2>4, AtWork
    <3>2. down[c] = <<>> /\ run[c].turn = client[c].asked /\ up[c] = <<>>
      BY <1>1, <3>1 DEF Working, BackPcs, SavePcs, WritePcs, FactPcs
    <3>3. CASE run[c].feedback
      <4>1. <<>> \o <<e>> \o <<f>> = <<e, f>>
        <5> HIDE DEF e, f
        <5>1. e \in {e, f} /\ f \in {e, f} /\ <<>> \o <<e>> = <<e>>
          OBVIOUS
        <5> QED
          BY <5>1, Pairs
      <4>2. down'[c] = <<e, f>> /\ pc'[c] = "idle" /\ thread'[c] = "score"
        BY <2>1, <3>2, <3>3, <4>1
      <4>3. Head(<<e, f>>).kind = "stream" /\ <<e, f>> # <<>>
        BY DEF Event
      <4>4. EndsWith(c, "score")'
        BY <1>1, <3>2, <4>2, <4>3 DEF EndsWith, Ends, Shown, Ending4
      <4>5. Ended(c)'
        BY <1>1, <3>2, <4>2, <4>4 DEF Ended, Ending4
      <4> QED
        BY <3>1, <4>5 DEF Waiting
    <3>4. CASE ~run[c].feedback
      <4>1. <<>> \o <<e>> \o <<>> = <<e>>
        OBVIOUS
      <4>2. down'[c] = <<e>> /\ pc'[c] = "summarize"
        BY <2>1, <3>2, <3>4, <4>1
      <4>3. Head(<<e>>).kind = "stream" /\ <<e>> # <<>>
        BY DEF Event
      <4>4. Working(c)'
        BY <1>1, <3>2, <4>2, <4>3 DEF Working, Streams, Shown, BackPcs
      <4> QED
        BY <3>1, <4>4 DEF Waiting
    <3> QED
      BY <3>3, <3>4
  <2> QED
    BY <1>1, <2>2, <2>3, <2>4, ServerMine DEF SavedTurns
<1> QED
  BY <1>2, <1>3

\* A part of what is under way is lost.
LEMMA Prefixes ==
    ASSUME TypeOK, NEW c \in Conns, NEW n \in 0 .. Len(down[c]),
           down' = [down EXCEPT ![c] = SubSeq(@, 1, n)], NEW t
    PROVE  /\ down[c] \in Streams(t) => down'[c] \in Streams(t)
           /\ \A k : down[c] \in Ends(k, t) => down'[c] \in {down[c]} \cup Streams(t)
           /\ down'[c] # <<>> => Head(down'[c]) = Head(down[c])
<1> DEFINE q == down[c]
           f == Event("stream", t)
<1>1. q \in Seq(Events) /\ down'[c] = SubSeq(q, 1, n) /\ n \in 0 .. Len(q)
  BY DEF TypeOK
<1>2. CASE n = 0
  <2>1. SubSeq(q, 1, 0) = <<>>
    <3> HIDE DEF q
    <3> QED
      BY <1>1
  <2> QED
    BY <1>1, <1>2, <2>1 DEF Streams
<1>3. CASE n = Len(q)
  <2>1. SubSeq(q, 1, Len(q)) = q
    <3> HIDE DEF q
    <3> QED
      BY <1>1
  <2> QED
    BY <1>1, <1>3, <2>1
<1>4. CASE n # 0 /\ n # Len(q)
  <2>1. down'[c] # <<>> => Head(down'[c]) = Head(q)
    <3>1. SubSeq(q, 1, n)[1] = q[1] /\ 1 \in DOMAIN SubSeq(q, 1, n) /\ q # <<>>
      BY <1>1, <1>4
    <3> QED
      BY <1>1, <3>1
  <2>2. Len(q) \notin {0, 1}
    BY <1>1, <1>4
  <2>3. q \notin Streams(t)
    <3>1. Len(<<>>) = 0 /\ Len(<<f>>) = 1
      OBVIOUS
    <3> QED
      BY <2>2, <3>1 DEF Streams
  <2>4. ASSUME NEW k, q \in Ends(k, t) PROVE down'[c] \in Streams(t)
    <3> DEFINE e == Event(k, None)
    <3>1. Len(<<e>>) = 1 /\ Len(<<f, e>>) = 2
      OBVIOUS
    <3>2. q = <<f, e>> /\ n = 1
      BY <1>1, <1>4, <2>2, <2>4, <3>1 DEF Ends
    <3> HIDE DEF q, f, e
    <3>3. SubSeq(<<f, e>>, 1, 1) = <<f>>
      <4>1. f \in {f, e} /\ e \in {f, e}
        OBVIOUS
      <4> QED
        BY <4>1, Pairs
    <3> QED
      BY <1>1, <3>2, <3>3 DEF Streams, f
  <2> QED
    BY <2>1, <2>3, <2>4
<1> QED
  BY <1>2, <1>3, <1>4

LEMMA DropMine == ASSUME TypeOK, NEW c \in Conns, Mine(c), Drop(c) PROVE Mine(c)'
<1>1. /\ pc[c] # "off" /\ pc'[c] = "off" /\ Forget(c) /\ UNCHANGED <<client, up, convs>>
  BY DEF TypeOK, Drop, Goto, client_vars, db_vars
<1>2. PICK n \in 0 .. Len(down[c]) : down' = [down EXCEPT ![c] = SubSeq(@, 1, n)]
  BY DEF Drop
<1>3. SavedPhase(c)' /\ Rated(c)'
  BY <1>1, ForgetRated DEF SavedPhase, WritePcs, FactPcs
<1>4. Timely(c)'
  BY <1>1 DEF Mine, Timely, Fresh
<1>5. ASSUME client[c].at = "wait", ~client[c].late PROVE Closed(c)'
  <2> DEFINE a == client[c].asked
  <2>1. /\ down[c] \in Streams(a) => down'[c] \in Streams(a)
        /\ \A k : down[c] \in Ends(k, a) => down'[c] \in {down[c]} \cup Streams(a)
        /\ down'[c] # <<>> => Head(down'[c]) = Head(down[c])
    BY <1>2, Prefixes
  <2>2. Waiting(c)
    BY <1>5 DEF Mine, Proto
  <2>3. CASE down[c] \in Streams(a)
    BY <1>1, <2>1, <2>3 DEF Closed
  <2>4. ASSUME NEW k, EndsWith(c, k) PROVE Closed(c)'
    <3>1. CASE down'[c] \in Streams(a)
      BY <1>1, <3>1 DEF Closed
    <3>2. CASE down'[c] = down[c]
      <4>1. EndsWith(c, k)'
        BY <1>1, <2>4, <3>2 DEF EndsWith, Shown, SavedTurns
      <4> QED
        BY <1>1, <4>1 DEF Closed, EndsWith
    <3> QED
      BY <2>1, <2>4, <3>1, <3>2 DEF EndsWith
  <2>5. down[c] \in Streams(a) \/ \E k : EndsWith(c, k)
    BY <1>1, <2>2 DEF Waiting, Closed, Posted, Ended, Working, Streams
  <2> QED
    BY <2>3, <2>4, <2>5
<1>6. Proto(c)'
  BY <1>1, <1>5 DEF Mine, Proto, Resting, Waiting, SavedTurns
<1> QED
  BY <1>3, <1>4, <1>6 DEF Mine

\* A sequence of one element.
LEMMA OnlyOne ==
    ASSUME NEW S, NEW q \in Seq(S), Len(q) = 1
    PROVE  q # <<>> /\ Head(q) = q[1] /\ Tail(q) = <<>>
<1>1. q # <<>>
  <2>1. Len(<<>>) = 0 /\ Len(q) # 0
    OBVIOUS
  <2> QED
    BY <2>1
<1>2. Head(q) = q[1]
  OBVIOUS
<1>3. Tail(q) \in Seq(S) /\ Len(Tail(q)) = 0
  BY <1>1
<1>4. \A s \in Seq(S) : Len(s) = 0 => s = <<>>
  OBVIOUS
<1> QED
  BY <1>1, <1>2, <1>3, <1>4

\* The only message of a queue.
LEMMA OneLetter ==
    ASSUME TypeOK, NEW c \in Conns, Len(up[c]) = 1, up' = [up EXCEPT ![c] = Tail(@)]
    PROVE  up[c] # <<>> /\ Head(up[c]) = up[c][1] /\ up'[c] = <<>>
<1>1. up[c] \in Seq(Messages \cup Replies) /\ up'[c] = Tail(up[c])
  BY DEF TypeOK
<1> QED
  BY <1>1, OnlyOne

LEMMA ServeMine == ASSUME TypeOK, NEW c \in Conns, Mine(c), ServeMessage(c) PROVE Mine(c)'
<1> DEFINE m == Head(up[c])
<1>0. /\ pc \in [Conns -> Pcs] /\ run \in [Conns -> Run] /\ thread \in [Conns -> Pauses]
      /\ up \in [Conns -> Seq(Messages \cup Replies)]
  BY DEF TypeOK
<1>1. /\ pc[c] = "idle" /\ up[c] # <<>> /\ m.kind = "message" /\ up' = [up EXCEPT ![c] = Tail(@)]
      /\ UNCHANGED <<client, convs>>
  BY DEF ServeMessage, Env, db_vars
<1>2. Timely(c)'
  <2>1. up'[c] = Tail(up[c])
    BY <1>0, <1>1
  <2> QED
    BY <1>1, <2>1, TimelyTail DEF Mine
<1>3. ASSUME ~client[c].late
      PROVE  /\ client[c].at = "wait" /\ down[c] = <<>> /\ up'[c] = <<>>
             /\ m.turn = client[c].asked
  <2>1. client[c].at = "wait" /\ Posted(c)
    BY <1>1, <1>3, AtPost
  <2>2. Len(up[c]) = 1
    BY <2>1 DEF Posted
  <2>3. Head(up[c]) = up[c][1] /\ up'[c] = <<>>
    BY <1>1, <2>2, OneLetter
  <2> QED
    BY <2>1, <2>3 DEF Posted
<1>4. CASE Refuse(c)
  <2>1. pc'[c] = "off" /\ thread'[c] = "none" /\ Send(c, "error", None) /\ Forget(c)
    BY <1>0, <1>4 DEF Refuse, Goto, Pause
  <2>2. SavedPhase(c)' /\ Rated(c)'
    BY <2>1, ForgetRated DEF SavedPhase, WritePcs, FactPcs
  <2>3. ASSUME ~client[c].late PROVE client[c].at = "wait" /\ Waiting(c)'
    <3>1. "error" \in Ending4 /\ down[c] \in Streams(client[c].asked)
      BY <1>3, <2>3 DEF Ending4, Streams
    <3>2. down'[c] \in Ends("error", client[c].asked)
      BY <2>1, <3>1, SendEnds
    <3>3. EndsWith(c, "error")'
      BY <1>1, <3>1, <3>2 DEF EndsWith
    <3> QED
      BY <1>3, <2>1, <2>3, <3>1, <3>3 DEF Waiting, Closed
  <2> QED
    BY <1>1, <1>2, <2>2, <2>3, ServerMine DEF SavedTurns
<1>5. CASE ~Refuse(c)
  <2>1. /\ run' = [run EXCEPT ![c] = [Idle EXCEPT !.turn = m.turn,
                               !.scope = Scope(c, m.want), !.feedback = m.feedback,
                               !.late = m.late]]
        /\ Goto(c, "graphs") /\ UNCHANGED <<down, thread>>
    BY <1>5 DEF ServeMessage
  <2>2. run'[c].turn = m.turn /\ run'[c].rated = None /\ pc'[c] = "graphs"
    BY <1>0, <2>1 DEF Goto, Idle
  <2>3. SavedPhase(c)' /\ Rated(c)'
    BY <2>2 DEF SavedPhase, WritePcs, FactPcs, Rated
  <2>4. ASSUME ~client[c].late PROVE client[c].at = "wait" /\ Waiting(c)'
    BY <1>1, <1>3, <2>1, <2>2, <2>4 DEF Waiting, Working, Streams, BackPcs, SavePcs, WritePcs, FactPcs
  <2> QED
    BY <1>1, <1>2, <2>3, <2>4, ServerMine DEF SavedTurns
<1> QED
  BY <1>4, <1>5

\* A reply: the interrupt says what comes next.
LEMMA ResumeMine == ASSUME TypeOK, NEW c \in Conns, Mine(c), ServeResume(c) PROVE Mine(c)'
<1> DEFINE m == Head(up[c])
<1>0. /\ pc \in [Conns -> Pcs] /\ run \in [Conns -> Run] /\ thread \in [Conns -> Pauses]
      /\ up \in [Conns -> Seq(Messages \cup Replies)] /\ run[c] \in Run
  BY DEF TypeOK
<1>1. /\ pc[c] = "idle" /\ up[c] # <<>> /\ m.kind = "resume" /\ up' = [up EXCEPT ![c] = Tail(@)]
      /\ UNCHANGED <<client, convs>>
  BY DEF ServeResume, Env, db_vars
<1>2. Timely(c)' /\ m = up[c][1] /\ 1 \in DOMAIN up[c]
  <2>1. up'[c] = Tail(up[c]) /\ m = up[c][1] /\ 1 \in DOMAIN up[c]
    BY <1>0, <1>1
  <2> QED
    BY <1>1, <2>1, TimelyTail DEF Mine
<1> HIDE DEF m
<1>3. ASSUME ~client[c].late
      PROVE  /\ client[c].at = "wait" /\ down[c] = <<>> /\ up'[c] = <<>>
             /\ thread[c] \in {"score", "reason"} /\ run[c].turn = client[c].asked
             /\ client[c].shown = client[c].asked
  <2>1. client[c].at = "wait" /\ Posted(c)
    BY <1>1, <1>3, AtPost
  <2>2. Len(up[c]) = 1 /\ up[c][1].kind = "resume"
    BY <1>1, <1>2, <2>1 DEF Posted
  <2>3. up'[c] = <<>>
    BY <1>1, <2>2, OneLetter
  <2> QED
    BY <2>1, <2>2, <2>3 DEF Posted
\* The stream ends again, or the turn is written back.
<1>4. ASSUME NEW k \in {"error", "reason"}, Send(c, k, None), pc'[c] = "idle",
             thread'[c] = "reason", run'[c].turn = run[c].turn, Rated(c)'
      PROVE  Mine(c)'
  <2>1. SavedPhase(c)'
    BY <1>4 DEF SavedPhase, WritePcs, FactPcs
  <2>2. ASSUME ~client[c].late PROVE client[c].at = "wait" /\ Waiting(c)'
    <3>1. k \in Ending4 /\ down[c] \in Streams(client[c].asked)
      BY <1>3, <2>2 DEF Ending4, Streams
    <3>2. down'[c] \in Ends(k, client[c].asked)
      BY <1>4, <3>1, SendEnds
    <3>3. EndsWith(c, k)'
      BY <1>1, <1>3, <1>4, <2>2, <3>1, <3>2 DEF EndsWith, Shown
    <3> QED
      BY <1>1, <1>3, <1>4, <2>2, <3>1, <3>3 DEF Waiting, Ended
  <2> QED
    BY <1>1, <1>2, <1>4, <2>1, <2>2, ServerMine DEF SavedTurns
<1>5. ASSUME pc'[c] = "summarize", run'[c].turn = run[c].turn, Rated(c)', UNCHANGED down
      PROVE  Mine(c)'
  <2>1. SavedPhase(c)'
    BY <1>5 DEF SavedPhase, WritePcs, FactPcs
  <2>2. ASSUME ~client[c].late PROVE client[c].at = "wait" /\ Waiting(c)'
    BY <1>1, <1>3, <1>5, <2>2 DEF Waiting, Working, Streams, BackPcs, Shown
  <2> QED
    BY <1>1, <1>2, <1>5, <2>1, <2>2, ServerMine DEF SavedTurns
<1>6. CASE ResumeScore(c)
  <2> DEFINE q == run[c]
             r == [q EXCEPT !.rated = m.turn, !.late = q.late \/ m.late]
  <2>1. thread[c] = "score" /\ run' = [run EXCEPT ![c] = r]
    BY <1>6, Zenon DEF ResumeScore, m
  <2>2. q \in Run
    BY <1>0
  <2> HIDE DEF q
  <2>3. r.turn = q.turn /\ r.rated = m.turn /\ (r.late <=> q.late \/ m.late)
    BY <2>2 DEF Run
  <2> HIDE DEF r
  <2>4. run'[c] = r
    BY <1>0, <2>1
  <2>5. Rated(c)'
    <3> SUFFICES ASSUME ~r.late PROVE r.rated = r.turn
      BY <2>4 DEF Rated
    <3>1. Fresh(c, 1)
      BY <1>1, <1>2, <2>3 DEF Fresh
    <3> QED
      BY <1>1, <1>2, <2>1, <2>3, <3>1 DEF Mine, Timely, q
  <2>6. run'[c].turn = run[c].turn
    BY <2>3, <2>4 DEF q
  <2>7. CASE StreamEnd(c, "reason")
    <3>1. Send(c, "reason", None) /\ pc'[c] = "idle" /\ thread'[c] = "reason"
      BY <1>0, <2>7 DEF StreamEnd, Goto, Pause
    <3> QED
      BY <1>4, <2>5, <2>6, <3>1
  <2>8. CASE Goto(c, "summarize") /\ UNCHANGED down
    <3>1. pc'[c] = "summarize"
      BY <1>0, <2>8 DEF Goto
    <3> QED
      BY <1>5, <2>5, <2>6, <2>8, <3>1
  <2> QED
    BY <1>6, <2>7, <2>8 DEF ResumeScore
<1>7. CASE ResumeReason(c)
  <2>1. thread[c] = "reason" /\ UNCHANGED run /\ Rated(c)'
    BY <1>7 DEF ResumeReason, Mine, Rated
  <2>2. CASE StreamFails(c, "reason")
    <3>1. Send(c, "error", None) /\ pc'[c] = "idle" /\ thread'[c] = "reason"
      BY <1>0, <2>2 DEF StreamFails, Goto, Pause
    <3> QED
      BY <1>4, <2>1, <3>1
  <2>3. CASE Goto(c, "summarize") /\ UNCHANGED down
    <3>1. pc'[c] = "summarize"
      BY <1>0, <2>3 DEF Goto
    <3> QED
      BY <1>5, <2>1, <2>3, <3>1
  <2> QED
    BY <1>7, <2>2, <2>3 DEF ResumeReason
\* Replies of a client that has given up.
<1>8. CASE ResumeFailed(c) \/ ResumeFinished(c)
  <2>1. /\ thread[c] \notin {"score", "reason"}
        /\ run'[c].turn = run[c].turn /\ run'[c].rated = run[c].rated
        /\ run[c].late => run'[c].late
    <3>1. CASE ResumeFailed(c)
      BY <1>0, <3>1 DEF ResumeFailed, Due, Run
    <3>2. CASE ResumeFinished(c)
      BY <3>2 DEF ResumeFinished
    <3> QED
      BY <1>8, <3>1, <3>2
  <2>2. client[c].late
    BY <1>3, <2>1
  <2>3. Rated(c)'
    BY <2>1 DEF Mine, Rated
  <2>4. SavedPhase(c)'
    <3>1. CASE ResumeFailed(c)
      <4>1. pc'[c] = thread[c] /\ thread[c] \in Due
        BY <1>0, <3>1 DEF ResumeFailed, Goto
      <4> QED
        BY <1>1, <2>1, <4>1 DEF SavedPhase, WritePcs, FactPcs, Mine, SavedTurns, Due
    <3>2. CASE ResumeFinished(c)
      <4>1. pc'[c] = "idle" /\ thread'[c] = "none"
        BY <1>0, <3>2 DEF ResumeFinished, StreamEnd, Goto, Pause
      <4> QED
        BY <4>1 DEF SavedPhase, WritePcs, FactPcs
    <3> QED
      BY <1>8, <3>1, <3>2
  <2> QED
    BY <1>1, <1>2, <2>2, <2>3, <2>4, ServerMine DEF SavedTurns
<1> QED
  BY <1>6, <1>7, <1>8 DEF ServeResume

\* The client's steps.
LEMMA ClientSame ==
    ASSUME TypeOK, NEW c \in Conns,
           Connect(c) \/ Ask(c) \/ AskAgain(c) \/ GiveUp(c) \/ Client(c)
    PROVE  Same(c) /\ UNCHANGED convs
<1>0. /\ client \in [Conns -> Clients] /\ up \in [Conns -> Seq(Messages \cup Replies)]
      /\ down \in [Conns -> Seq(Events)]
  BY DEF TypeOK
<1>1. CASE Connect(c) \/ AskAgain(c)
  <2>1. Admit(c) /\ UNCHANGED convs
    BY <1>1 DEF Connect, AskAgain, db_vars
  <2>2. \A d \in Conns \ {c} : client'[d] = client[d] /\ up'[d] = up[d]
    BY <1>0, <1>1 DEF Connect, AskAgain
  <2> QED
    BY <2>1, <2>2, AdmitOK DEF Same
<1>2. CASE Ask(c) \/ Answer(c)
  BY <1>0, <1>2 DEF Ask, Answer, Same, conn_vars, db_vars
<1>3. CASE GiveUp(c) \/ Receive(c) \/ ReceiveClosed(c)
  BY <1>0, <1>3 DEF GiveUp, Receive, ReceiveClosed, Same, conn_vars, db_vars
<1> QED
  BY <1>1, <1>2, <1>3 DEF Client

LEMMA ConnectMine == ASSUME TypeOK, NEW c \in Conns, Mine(c), Connect(c) PROVE Mine(c)'
<1>1. /\ pc'[c] = "idle" /\ thread'[c] = "none" /\ down'[c] = <<>> /\ run'[c] = Idle
      /\ up'[c] = <<>>
  <2>1. Admit(c) /\ up'[c] = <<>>
    BY DEF TypeOK, Connect
  <2> QED
    BY <2>1, AdmitOK
<1>2. client'[c].at = "prompt" /\ client'[c].end = "none"
  BY DEF TypeOK, Connect, Off
<1>3. SavedPhase(c)' /\ Rated(c)'
  BY <1>1 DEF SavedPhase, Rated, WritePcs, FactPcs, Idle
<1>4. Timely(c)'
  BY <1>1 DEF Timely, Fresh
<1>5. Proto(c)'
  BY <1>1, <1>2 DEF Proto, Resting
<1> QED
  BY <1>3, <1>4, <1>5 DEF Mine

LEMMA LetterAppend ==
    ASSUME NEW q \in Seq(Letters), NEW m \in Letters
    PROVE  /\ \A i \in DOMAIN Append(q, m) :
                 (i \in DOMAIN q /\ Append(q, m)[i] = q[i]) \/ Append(q, m)[i] = m
           /\ Append(<<>>, m) = <<m>>
<1> DEFINE s == Append(q, m)
<1>1. /\ DOMAIN s = 1 .. (Len(q) + 1) /\ DOMAIN q = 1 .. Len(q) /\ Len(q) \in Nat
      /\ s[Len(q) + 1] = m /\ \A i \in 1 .. Len(q) : s[i] = q[i]
  OBVIOUS
<1> HIDE DEF s
<1>2. \A i \in DOMAIN s : (i \in DOMAIN q /\ s[i] = q[i]) \/ s[i] = m
  BY <1>1
<1>3. Append(<<>>, m) = <<m>>
  OBVIOUS
<1> QED
  BY <1>2, <1>3 DEF s

\* The question is out: on the open socket, or on the new one.
LEMMA AskMine == ASSUME TypeOK, NEW c \in Conns, Mine(c), Ask(c) PROVE Mine(c)'
<1>0. /\ client \in [Conns -> Clients] /\ up \in [Conns -> Seq(Messages \cup Replies)]
      /\ up[c] \in Seq(Letters) /\ client[c] \in Clients
  BY DEF TypeOK, Letters
<1>1. /\ client[c].at = "prompt" /\ pc[c] # "off" /\ left[c] > 0
      /\ UNCHANGED <<down, pc, thread, run, convs>>
      /\ client' = [client EXCEPT ![c] = [Off EXCEPT !.at = "wait", !.asked = <<c, left[c]>>,
                                                     !.late = client[c].late]]
  BY DEF Ask, conn_vars, db_vars
<1>2. PICK want \in Wants, feedback \in BOOLEAN :
        up' = [up EXCEPT ![c] = Append(@, Question(<<c, left[c]>>, want, feedback, client[c].late))]
  BY DEF Ask
<1> DEFINE m == Question(<<c, left[c]>>, want, feedback, client[c].late)
<1>3. m \in Letters /\ m.kind = "message" /\ m.turn = <<c, left[c]>>
  <2>1. client[c].late \in BOOLEAN
    BY <1>0 DEF Clients
  <2> QED
    BY <1>1, <2>1, QuestionType DEF Letters, Question
<1>4. up'[c] = Append(up[c], m)
  BY <1>0, <1>2
<1> HIDE DEF m
<1>5. /\ client'[c].at = "wait" /\ client'[c].asked = <<c, left[c]>> /\ client'[c].end = "none"
      /\ client'[c].late = client[c].late
  BY <1>0, <1>1 DEF Off
<1>6. SavedPhase(c)' /\ Rated(c)'
  BY <1>1 DEF Mine, SavedPhase, Rated, SavedTurns
<1>7. Timely(c)'
  <2>1. \A i : Fresh(c, i)' => Fresh(c, i) /\ up'[c][i] = up[c][i]
    BY <1>0, <1>3, <1>4, LetterAppend DEF Fresh
  <2> QED
    BY <1>1, <2>1 DEF Mine, Timely
<1>8. ASSUME ~client[c].late PROVE Posted(c)'
  <2>1. pc[c] = "idle" /\ up[c] = <<>> /\ down[c] = <<>>
    BY <1>1, <1>8 DEF Mine, Proto, Resting
  <2>2. up'[c] = <<m>>
    BY <1>0, <1>3, <1>4, <2>1, LetterAppend
  <2>3. Len(<<m>>) = 1 /\ <<m>>[1] = m
    OBVIOUS
  <2> QED
    BY <1>1, <1>3, <1>5, <2>1, <2>2, <2>3 DEF Posted
<1>9. Proto(c)'
  BY <1>5, <1>8 DEF Proto, Waiting
<1> QED
  BY <1>6, <1>7, <1>9 DEF Mine

LEMMA AskAgainMine == ASSUME TypeOK, NEW c \in Conns, Mine(c), AskAgain(c) PROVE Mine(c)'
<1>0. client \in [Conns -> Clients] /\ up \in [Conns -> Seq(Messages \cup Replies)]
  BY DEF TypeOK
<1>1. /\ pc'[c] = "idle" /\ thread'[c] = "none" /\ down'[c] = <<>> /\ run'[c] = Idle
  <2>1. Admit(c)
    BY DEF AskAgain
  <2> QED
    BY <2>1, AdmitOK
<1>2. /\ client'[c].at = "wait" /\ client'[c].asked = <<c, left[c]>> /\ client'[c].end = "none"
  BY <1>0 DEF AskAgain, Off
<1>3. PICK want \in Wants, feedback \in BOOLEAN :
        up' = [up EXCEPT ![c] = <<Question(<<c, left[c]>>, want, feedback, FALSE)>>]
  BY DEF AskAgain
<1> DEFINE m == Question(<<c, left[c]>>, want, feedback, FALSE)
<1>4. up'[c] = <<m>> /\ m.kind = "message" /\ m.turn = <<c, left[c]>>
  BY <1>0, <1>3 DEF Question
<1> HIDE DEF m
<1>5. Len(<<m>>) = 1 /\ <<m>>[1] = m /\ DOMAIN <<m>> = {1}
  OBVIOUS
<1>6. SavedPhase(c)' /\ Rated(c)'
  BY <1>1 DEF SavedPhase, Rated, WritePcs, FactPcs, Idle
<1>7. Timely(c)'
  BY <1>4, <1>5 DEF Timely, Fresh
<1>8. Posted(c)'
  BY <1>1, <1>2, <1>4, <1>5 DEF Posted
<1>9. Proto(c)'
  BY <1>2, <1>8 DEF Proto, Waiting
<1> QED
  BY <1>6, <1>7, <1>9 DEF Mine

\* The prompt returns without an answer.
LEMMA PromptMine ==
    ASSUME TypeOK, NEW c \in Conns, Mine(c), ReceiveClosed(c) \/ GiveUp(c)
    PROVE  Mine(c)'
<1>0. client \in [Conns -> Clients] /\ client[c] \in Clients
  BY DEF TypeOK
<1>1. UNCHANGED <<up, down, pc, thread, run, convs>>
  BY DEF ReceiveClosed, GiveUp, conn_vars, db_vars
<1>2. SavedPhase(c)' /\ Rated(c)' /\ Timely(c)'
  BY <1>1 DEF Mine, SavedPhase, Rated, Timely, Fresh, SavedTurns
<1>3. CASE ReceiveClosed(c)
  <2> DEFINE q == client[c]
             r == [q EXCEPT !.at = "prompt"]
  <2>1. client' = [client EXCEPT ![c] = r] /\ pc[c] = "off" /\ q \in Clients
    BY <1>0, <1>3 DEF ReceiveClosed
  <2> HIDE DEF q
  <2>2. /\ r.at = "prompt" /\ r.end = q.end /\ r.late = q.late /\ r.asked = q.asked
        /\ r.shown = q.shown
    BY <2>1 DEF Clients
  <2> HIDE DEF r
  <2>3. client'[c] = r
    BY <1>0, <2>1
  <2>4. Proto(c)'
    BY <1>1, <2>1, <2>2, <2>3 DEF Mine, Proto, Resting, SavedTurns, q
  <2> QED
    BY <1>2, <2>4 DEF Mine
<1>4. CASE GiveUp(c)
  <2>1. client'[c].late
    BY <1>0, <1>4 DEF GiveUp, Clients
  <2> QED
    BY <1>2, <2>1 DEF Mine, Proto
<1> QED
  BY <1>3, <1>4

\* The next event, and what is still under way after it.
LEMMA NextEvent ==
    ASSUME NEW q, NEW t
    PROVE  /\ (q \in Streams(t) /\ q # <<>>) =>
                 Head(q).kind = "stream" /\ Head(q).turn = t /\ Tail(q) = <<>>
           /\ \A k : q \in Ends(k, t) =>
                 \/ Head(q).kind = "stream" /\ Head(q).turn = t /\ Tail(q) \in Ends(k, t)
                 \/ Head(q).kind = k /\ Tail(q) = <<>>
<1> DEFINE f == Event("stream", t)
<1>1. f.kind = "stream" /\ f.turn = t /\ \A k : Event(k, None).kind = k
  BY DEF Event
<1>2. ASSUME NEW x PROVE Head(<<x>>) = x /\ Tail(<<x>>) = <<>>
  OBVIOUS
<1>3. ASSUME NEW x, NEW y PROVE Head(<<x, y>>) = x /\ Tail(<<x, y>>) = <<y>>
  OBVIOUS
<1> HIDE DEF f
<1>4. (q \in Streams(t) /\ q # <<>>) =>
        Head(q).kind = "stream" /\ Head(q).turn = t /\ Tail(q) = <<>>
  BY <1>1, <1>2 DEF Streams, f
<1>5. ASSUME NEW k, q \in Ends(k, t)
      PROVE  \/ Head(q).kind = "stream" /\ Head(q).turn = t /\ Tail(q) \in Ends(k, t)
             \/ Head(q).kind = k /\ Tail(q) = <<>>
  <2> DEFINE e == Event(k, None)
  <2>1. e.kind = k
    BY <1>1
  <2> HIDE DEF e
  <2>2. CASE q = <<e>>
    BY <1>2, <2>1, <2>2
  <2>3. CASE q = <<f, e>>
    <3>1. Head(q) = f /\ Tail(q) = <<e>>
      BY <1>3, <2>3
    <3>2. <<e>> \in Ends(k, t)
      BY DEF Ends, e
    <3> QED
      BY <1>1, <3>1, <3>2
  <2> QED
    BY <1>5, <2>2, <2>3 DEF Ends, e, f
<1> QED
  BY <1>4, <1>5

LEMMA ReceiveMine == ASSUME TypeOK, NEW c \in Conns, Mine(c), Receive(c) PROVE Mine(c)'
<1> DEFINE e == Head(down[c])
           q == client[c]
           a == q.asked
<1>0. /\ client \in [Conns -> Clients] /\ q \in Clients /\ e \in Events
      /\ down \in [Conns -> Seq(Events)]
  <2>1. down[c] \in Seq(Events) /\ down[c] # <<>>
    BY DEF TypeOK, Receive
  <2>2. e \in Events
    BY <2>1
  <2> QED
    BY <2>2 DEF TypeOK
<1>1. /\ q.at = "wait" /\ down[c] # <<>> /\ down'[c] = Tail(down[c])
      /\ UNCHANGED <<up, pc, thread, run, convs>>
  BY <1>0 DEF Receive, conn_vars, db_vars
<1>2. SavedPhase(c)' /\ Rated(c)' /\ Timely(c)'
  BY <1>1 DEF Mine, SavedPhase, Rated, Timely, Fresh, SavedTurns
<1>3. /\ e.kind \in {"stream", "complete", "error", "score", "reason"}
      /\ Ending4 = {"complete", "error", "score", "reason"}
  BY <1>0 DEF Events, Ending4
<1>4. /\ (down[c] \in Streams(a) /\ down[c] # <<>>) =>
            e.kind = "stream" /\ e.turn = a /\ Tail(down[c]) = <<>>
      /\ \A k : down[c] \in Ends(k, a) =>
            \/ e.kind = "stream" /\ e.turn = a /\ Tail(down[c]) \in Ends(k, a)
            \/ e.kind = k /\ Tail(down[c]) = <<>>
  BY NextEvent
<1>5. CASE e.kind = "stream"
  <2> DEFINE r == [q EXCEPT !.shown = e.turn]
  <2>1. client' = [client EXCEPT ![c] = r]
    BY <1>5 DEF Receive
  <2>2. /\ r.at = q.at /\ r.end = q.end /\ r.late = q.late /\ r.asked = a /\ r.shown = e.turn
    <3> HIDE DEF q
    <3> QED
      BY <1>0 DEF Clients
  <2> HIDE DEF r
  <2>3. client'[c] = r
    BY <1>0, <2>1
  <2>4. ASSUME ~q.late PROVE e.turn = a /\ Waiting(c)'
    <3> HIDE DEF e, a
    <3>1. Waiting(c) /\ ~Posted(c)
      BY <1>1, <2>4 DEF Mine, Proto, Posted
    <3>2. ASSUME NEW k, EndsWith(c, k)
          PROVE  e.turn = a /\ EndsWith(c, k)'
      <4>1. e.turn = a /\ down'[c] \in Ends(k, a) /\ k \in Ending4
        BY <1>1, <1>3, <1>4, <1>5, <3>2 DEF EndsWith, a
      <4> QED
        BY <1>1, <2>2, <2>3, <3>2, <4>1 DEF EndsWith, Shown, SavedTurns, a
    <3>3. ASSUME down[c] \in Streams(a)
          PROVE  e.turn = a /\ down'[c] = <<>>
      BY <1>1, <1>4, <3>3
    <3>4. CASE Closed(c)
      <4>1. CASE down[c] \in Streams(a)
        BY <1>1, <2>2, <2>3, <3>3, <3>4, <4>1 DEF Waiting, Closed, Streams
      <4>2. CASE \E k \in Ending4 : EndsWith(c, k)
        BY <1>1, <3>2, <3>4, <4>2 DEF Waiting, Closed
      <4> QED
        BY <3>4, <4>1, <4>2 DEF Closed, a
    <3>5. CASE Ended(c)
      <4>1. PICK k \in Ending4 : /\ EndsWith(c, k)
                                 /\ k \in {"score", "reason"} => thread[c] = k /\ run[c].turn = a
        BY <3>5 DEF Ended, a
      <4>2. e.turn = a /\ EndsWith(c, k)'
        BY <3>2, <4>1
      <4> QED
        BY <1>1, <2>2, <2>3, <3>5, <4>1, <4>2 DEF Waiting, Ended, a
    <3>6. CASE Working(c)
      <4>1. e.turn = a /\ down'[c] = <<>>
        BY <3>3, <3>6 DEF Working, a
      <4> QED
        BY <1>1, <2>2, <2>3, <3>6, <4>1 DEF Waiting, Working, Streams, Shown, a
    <3> QED
      BY <3>1, <3>4, <3>5, <3>6 DEF Waiting
  <2>5. Proto(c)'
    BY <1>1, <2>2, <2>3, <2>4 DEF Mine, Proto, SavedTurns
  <2> QED
    BY <1>2, <2>5 DEF Mine
\* How the stream ended is the last that is under way.
<1>6. ASSUME e.kind # "stream", ~q.late
      PROVE  /\ EndsWith(c, e.kind) /\ down'[c] = <<>>
             /\ \/ pc[c] = "off"
                \/ /\ pc[c] = "idle" /\ up[c] = <<>>
                   /\ e.kind \in {"score", "reason"} => thread[c] = e.kind /\ run[c].turn = a
             /\ e.kind # "error" => q.shown = a
             /\ e.kind = "complete" => a \in SavedTurns
  <2> HIDE DEF e
  <2>1. Waiting(c) /\ ~Posted(c)
    BY <1>1, <1>6 DEF Mine, Proto, Posted
  <2>2. down[c] \notin Streams(a)
    BY <1>1, <1>4, <1>6
  <2>3. \A k : EndsWith(c, k) => k = e.kind
    BY <1>4, <1>6 DEF EndsWith
  <2>4. EndsWith(c, e.kind) => /\ down'[c] = <<>>
                               /\ e.kind # "error" => q.shown = a
                               /\ e.kind = "complete" => a \in SavedTurns
    BY <1>1, <1>4, <1>6 DEF EndsWith, Shown, e
  <2> HIDE DEF a, q
  <2>5. CASE Closed(c)
    BY <2>2, <2>3, <2>4, <2>5 DEF Closed, a, q
  <2>6. CASE Ended(c)
    BY <2>3, <2>4, <2>6 DEF Ended, a, q
  <2> QED
    BY <2>1, <2>2, <2>5, <2>6 DEF Waiting, Working, a, q
<1>7. CASE e.kind \in {"complete", "error"}
  <2> DEFINE r == [q EXCEPT !.at = "prompt", !.end = e.kind]
  <2>1. client' = [client EXCEPT ![c] = r]
    BY <1>7 DEF Receive
  <2>2. /\ r.at = "prompt" /\ r.end = e.kind /\ r.late = q.late /\ r.asked = a /\ r.shown = q.shown
    <3> HIDE DEF q
    <3> QED
      BY <1>0 DEF Clients
  <2> HIDE DEF r
  <2>3. client'[c] = r
    BY <1>0, <2>1
  <2> HIDE DEF e, q, a
  <2>4. Proto(c)'
    BY <1>1, <1>6, <1>7, <2>2, <2>3 DEF Proto, Resting, SavedTurns
  <2> QED
    BY <1>2, <2>4 DEF Mine
<1>8. CASE e.kind \in {"score", "reason"}
  <2> DEFINE r == [q EXCEPT !.at = e.kind]
  <2>1. client' = [client EXCEPT ![c] = r]
    BY <1>8 DEF Receive
  <2>2. /\ r.at = e.kind /\ r.end = q.end /\ r.late = q.late /\ r.asked = a /\ r.shown = q.shown
    <3> HIDE DEF q
    <3> QED
      BY <1>0 DEF Clients
  <2> HIDE DEF r
  <2>3. client'[c] = r
    BY <1>0, <2>1
  <2>4. (~q.late /\ q.end = "complete") => a \in SavedTurns
    BY DEF Mine, Proto
  <2> HIDE DEF e, q, a
  <2>5. Proto(c)'
    BY <1>1, <1>6, <1>8, <2>2, <2>3, <2>4 DEF Proto, Resting, SavedTurns
  <2> QED
    BY <1>2, <2>5 DEF Mine
<1> QED
  BY <1>3, <1>5, <1>7, <1>8

\* A reply: the client that has never given up replies to the handler that asked.
LEMMA AnswerMine == ASSUME TypeOK, NEW c \in Conns, Mine(c), Answer(c) PROVE Mine(c)'
<1>0. /\ client \in [Conns -> Clients] /\ up \in [Conns -> Seq(Messages \cup Replies)]
      /\ up[c] \in Seq(Letters) /\ client[c] \in Clients
  BY DEF TypeOK, Letters
<1>1. client[c].at \in {"score", "reason"} /\ UNCHANGED <<down, pc, thread, run, convs>>
  BY DEF Answer, conn_vars, db_vars
<1>2. SavedPhase(c)' /\ Rated(c)'
  BY <1>1 DEF Mine, SavedPhase, Rated, SavedTurns
<1>3. CASE pc[c] = "off"
  <2>1. client'[c] = Off /\ up' = up
    BY <1>0, <1>3 DEF Answer
  <2>2. Timely(c)'
    BY <1>1, <2>1 DEF Mine, Timely, Fresh
  <2>3. Proto(c)'
    BY <1>1, <1>3, <2>1 DEF Proto, Off
  <2> QED
    BY <1>2, <2>2, <2>3 DEF Mine
<1>4. CASE pc[c] # "off"
  <2> DEFINE q == client[c]
             r == [q EXCEPT !.at = "wait"]
  <2>1. PICK score \in {"low", "high", "none"} :
           up' = [up EXCEPT ![c] = Append(@, Reply(q.shown, score, q.late))]
    BY <1>4 DEF Answer
  <2> DEFINE m == Reply(q.shown, score, q.late)
  <2>2. client' = [client EXCEPT ![c] = r] /\ up'[c] = Append(up[c], m)
    BY <1>0, <1>4, <2>1 DEF Answer
  <2>3. m \in Letters /\ m.kind = "resume" /\ m.turn = q.shown /\ m.late = q.late
    BY <1>0 DEF Reply, Replies, Letters, Clients
  <2> HIDE DEF m
  <2>4. client'[c] = r
    BY <1>0, <2>2
  <2>5. /\ r.at = "wait" /\ r.end = q.end /\ r.late = q.late /\ r.asked = q.asked
        /\ r.shown = q.shown
    <3>1. q \in Clients
      BY <1>0
    <3> HIDE DEF q
    <3> QED
      BY <3>1 DEF Clients
  <2> HIDE DEF r
  <2>a. /\ \A i \in DOMAIN up'[c] : (i \in DOMAIN up[c] /\ up'[c][i] = up[c][i]) \/ up'[c][i] = m
        /\ up[c] = <<>> => up'[c] = <<m>>
    <3> DEFINE old == up[c]
    <3>1. old \in Seq(Letters) /\ m \in Letters /\ up'[c] = Append(old, m)
      BY <1>0, <2>2, <2>3
    <3> HIDE DEF old
    <3>2. /\ \A i \in DOMAIN Append(old, m) :
                (i \in DOMAIN old /\ Append(old, m)[i] = old[i]) \/ Append(old, m)[i] = m
          /\ Append(<<>>, m) = <<m>>
      BY <3>1, LetterAppend
    <3> QED
      BY <3>1, <3>2 DEF old
  <2>6. ASSUME ~q.late
        PROVE  /\ pc[c] = "idle" /\ up[c] = <<>> /\ down[c] = <<>> /\ thread[c] = q.at
               /\ q.shown = q.asked /\ run[c].turn = q.asked
    BY <1>1, <1>4, <2>6 DEF Mine, Proto, Resting
  <2>7. ASSUME ~q.late PROVE up'[c] = <<m>> /\ Len(<<m>>) = 1 /\ <<m>>[1] = m /\ DOMAIN <<m>> = {1}
    <3>1. up'[c] = <<m>>
      BY <2>6, <2>7, <2>a
    <3>2. Len(<<m>>) = 1 /\ <<m>>[1] = m /\ DOMAIN <<m>> = {1}
      OBVIOUS
    <3> QED
      BY <3>1, <3>2
  <2>8. Timely(c)'
    <3>1. CASE ~q.late
      BY <1>1, <2>3, <2>6, <2>7, <3>1 DEF Timely, Fresh
    <3>2. CASE q.late
      <4>1. \A i : Fresh(c, i)' => Fresh(c, i) /\ up'[c][i] = up[c][i]
        BY <2>3, <2>a, <3>2 DEF Fresh
      <4> QED
        BY <1>1, <4>1 DEF Mine, Timely
    <3> QED
      BY <3>1, <3>2
  <2>9. ASSUME ~q.late PROVE Posted(c)'
    BY <1>1, <2>3, <2>4, <2>5, <2>6, <2>7, <2>9 DEF Posted
  <2>10. (~q.late /\ q.end = "complete") => q.shown = q.asked /\ q.asked \in SavedTurns
    BY DEF Mine, Proto
  <2> HIDE DEF q
  <2>11. Proto(c)'
    BY <1>1, <2>4, <2>5, <2>9, <2>10 DEF Proto, Waiting, SavedTurns
  <2> QED
    BY <1>2, <2>8, <2>11 DEF Mine
<1> QED
  BY <1>3, <1>4

LEMMA ConvsRatedKept == ASSUME ConvsRated, UNCHANGED convs PROVE ConvsRated'
BY DEF ConvsRated

LEMMA ProtoStep == ASSUME TypeOK, ProtoInv, [Next]_vars PROVE ProtoInv'
<1>0. ConvsRated /\ \A c \in Conns : Mine(c)
  BY DEF ProtoInv
<1>1. CASE Move \/ UNCHANGED vars
  <2>1. UNCHANGED <<client, up, down, pc, thread, run, convs>>
    BY <1>1 DEF Move, vars, client_vars, conn_vars, db_vars
  <2>2. ASSUME NEW c \in Conns PROVE Mine(c)'
    <3>1. Mine(c)
      BY <1>0
    <3>2. SavedPhase(c)' /\ Rated(c)' /\ Timely(c)'
      BY <2>1, <3>1 DEF Mine, SavedPhase, Rated, Timely, Fresh, SavedTurns
    <3>3. \A k : EndsWith(c, k) => EndsWith(c, k)'
      BY <2>1 DEF EndsWith, Shown, SavedTurns
    <3>4. Waiting(c) => Waiting(c)'
      BY <2>1, <3>3 DEF Waiting, Closed, Posted, Ended, Working, Shown
    <3>5. Proto(c)'
      BY <2>1, <3>1, <3>4 DEF Mine, Proto, Resting, SavedTurns
    <3> QED
      BY <3>2, <3>5 DEF Mine
  <2> QED
    BY <1>0, <2>1, <2>2, ConvsRatedKept DEF ProtoInv
<1>2. ASSUME NEW c \in Conns, Connect(c) \/ Ask(c) \/ AskAgain(c) \/ GiveUp(c) \/ Client(c)
      PROVE  ProtoInv'
  <2>1. Mine(c)'
    BY <1>0, <1>2, ConnectMine, AskMine, AskAgainMine, PromptMine, ReceiveMine, AnswerMine DEF Client
  <2>2. Same(c) /\ UNCHANGED convs
    BY <1>2, ClientSame
  <2>3. ConvsRated' /\ SavedTurns \subseteq SavedTurns'
    BY <1>0, <2>2, ConvsRatedKept DEF SavedTurns
  <2> QED
    BY <2>1, <2>2, <2>3, ProtoKept
<1>3. ASSUME NEW c \in Conns, Works(c) PROVE ProtoInv'
  <2>1. Mine(c)'
    BY <1>0, <1>3, DropMine, ResolveMine, ResumeMine, ContextMine, SearchMine, GenerateMine,
       SummarizeMine, SaveSummaryMine, ExtractMine, RememberMine DEF Works
  <2>2. Same(c) /\ UNCHANGED convs
    BY <1>3, WorksSame, WorksKeep
  <2>3. ConvsRated' /\ SavedTurns \subseteq SavedTurns'
    BY <1>0, <2>2, ConvsRatedKept DEF SavedTurns
  <2> QED
    BY <2>1, <2>2, <2>3, ProtoKept
<1>4. ASSUME NEW c \in Conns, ServeMessage(c) PROVE ProtoInv'
  <2>1. Mine(c)'
    BY <1>0, <1>4, ServeMine
  <2>2. UNCHANGED convs /\ \A d \in Conns \ {c} : up'[d] = up[d]
    BY <1>4 DEF TypeOK, ServeMessage, db_vars
  <2>3. \A d \in Conns \ {c} : pc'[d] = pc[d] /\ thread'[d] = thread[d] /\ run'[d] = run[d]
    <3>1. CASE Refuse(c)
      BY <3>1, RefuseOK
    <3>2. CASE ~Refuse(c)
      BY <1>4, <3>2 DEF TypeOK, ServeMessage, Goto
    <3> QED
      BY <3>1, <3>2
  <2>4. Same(c)
    BY <1>4, <2>2, <2>3, DownOthers DEF Same
  <2>5. ConvsRated' /\ SavedTurns \subseteq SavedTurns'
    BY <1>0, <2>2, ConvsRatedKept DEF SavedTurns
  <2> QED
    BY <2>1, <2>4, <2>5, ProtoKept
<1>5. ASSUME NEW c \in Conns, SaveTurn(c) PROVE ProtoInv'
  <2>1. Mine(c)'
    BY <1>0, <1>5, SaveMine
  <2>2. Same(c)
    <3>1. /\ UNCHANGED <<up, run>>
          /\ \A d \in Conns \ {c} : pc'[d] = pc[d] /\ thread'[d] = thread[d]
      BY <1>5 DEF TypeOK, SaveTurn, StreamFails, Goto, Pause
    <3> QED
      BY <1>5, <3>1, DownOthers DEF Same
  <2>3. ConvsRated'
    BY <1>0, <1>5, SaveParts DEF ConvsRated, Mine, Rated
  <2> QED
    BY <1>5, <2>1, <2>2, <2>3, SaveParts, ProtoKept
<1> QED
  BY <1>1, <1>2, <1>3, <1>4, <1>5 DEF Next, Server, Graph, Works

LEMMA ProtoInit == ASSUME Init PROVE ProtoInv
<1>1. ASSUME NEW c \in Conns PROVE Mine(c)
  <2>1. /\ client[c] = Off /\ up[c] = <<>> /\ pc[c] = "off" /\ run[c] = Idle
    BY DEF Init
  <2>2. SavedPhase(c) /\ Rated(c)
    BY <2>1 DEF SavedPhase, Rated, WritePcs, FactPcs, Idle
  <2>3. Timely(c)
    BY <2>1 DEF Timely, Fresh
  <2>4. Proto(c)
    BY <2>1 DEF Proto, Off
  <2> QED
    BY <2>2, <2>3, <2>4 DEF Mine
<1>2. ConvsRated
  BY DEF Init, ConvsRated
<1> QED
  BY <1>1, <1>2 DEF ProtoInv

LEMMA ProtoInvariance == Spec => []ProtoInv
<1>1. Init => ProtoInv
  BY ProtoInit
<1>2. TypeOK /\ ProtoInv /\ [Next]_vars => ProtoInv'
  BY ProtoStep
<1> QED
  BY <1>1, <1>2, TypeCorrect, PTL DEF Spec

----------------------------------------------------------------------------
(* What a client that has given up can still send.                         *)

\* A question in the queue, a letter that was sent after the client had given up, and a
\* turn that was asked for after that, or none at all.
Asks(c, i)  == i \in DOMAIN up[c] /\ up[c][i].kind = "message"
Stale(c, i) == i \in DOMAIN up[c] /\ up[c][i].late
StaleTurn(c) == run[c].late \/ run[c].turn = None

\* Every stale letter of a queue is followed by stale ones only, and every stale reply
\* is for a stale turn: its question comes before it, or is the one at work.
Heeds(c) ==
    /\ \A i, j \in Nat : i < j /\ Stale(c, i) /\ j \in DOMAIN up[c] => Stale(c, j)
    /\ \A i \in Nat : Stale(c, i) => client[c].at = "off" \/ client[c].late
    /\ \A i \in Nat : Stale(c, i) /\ ~Asks(c, i) =>
          \/ \E j \in Nat : j < i /\ Stale(c, j) /\ Asks(c, j)
          \/ StaleTurn(c) /\ \A j \in Nat : j < i => ~Asks(c, j)
    /\ client[c].late /\ client[c].at \in {"wait", "score", "reason"} =>
          \/ \E j \in Nat : Stale(c, j) /\ Asks(c, j)
          \/ StaleTurn(c) /\ \A j \in Nat : ~Asks(c, j)

HeedsInv == \A c \in Conns : Heeds(c)

LEMMA HeedsKept ==
    ASSUME NEW c \in Conns, Heeds(c), up'[c] = up[c], StaleTurn(c) => StaleTurn(c)',
           \/ client'[c] = client[c]
           \/ client'[c].at = "off"
           \/ client'[c].late /\ client'[c].at = "prompt"
           \/ /\ client'[c].late = client[c].late /\ client[c].at # "off"
              /\ client'[c].at = "prompt" \/ client[c].at = "wait"
    PROVE  Heeds(c)'
<1>1. \A i : (Asks(c, i)' <=> Asks(c, i)) /\ (Stale(c, i)' <=> Stale(c, i))
  BY DEF Asks, Stale
<1>2. (\A i, j \in Nat : i < j /\ Stale(c, i) /\ j \in DOMAIN up[c] => Stale(c, j))'
  BY <1>1 DEF Heeds
<1>3. (\A i \in Nat : Stale(c, i) => client[c].at = "off" \/ client[c].late)'
  BY <1>1 DEF Heeds
<1>4. (\A i \in Nat : Stale(c, i) /\ ~Asks(c, i) =>
          \/ \E j \in Nat : j < i /\ Stale(c, j) /\ Asks(c, j)
          \/ StaleTurn(c) /\ \A j \in Nat : j < i => ~Asks(c, j))'
  BY <1>1 DEF Heeds
<1>5. (client[c].late /\ client[c].at \in {"wait", "score", "reason"} =>
          \/ \E j \in Nat : Stale(c, j) /\ Asks(c, j)
          \/ StaleTurn(c) /\ \A j \in Nat : ~Asks(c, j))'
  BY <1>1 DEF Heeds
<1> QED
  BY <1>2, <1>3, <1>4, <1>5 DEF Heeds

LEMMA TailLetters ==
    ASSUME NEW q \in Seq(Letters), q # <<>>
    PROVE  /\ 1 \in DOMAIN q /\ Head(q) = q[1]
           /\ \A i \in Nat : i \in DOMAIN Tail(q) <=> i + 1 \in DOMAIN q /\ i # 0
           /\ \A i \in DOMAIN Tail(q) : Tail(q)[i] = q[i + 1]
<1>1. Len(q) \in Nat /\ Len(q) # 0 /\ DOMAIN q = 1 .. Len(q) /\ Head(q) = q[1]
  OBVIOUS
<1>2. Tail(q) \in Seq(Letters) /\ Len(Tail(q)) = Len(q) - 1
      /\ \A i \in 1 .. Len(q) - 1 : Tail(q)[i] = q[i + 1]
  OBVIOUS
<1>3. DOMAIN Tail(q) = 1 .. Len(q) - 1
  BY <1>2
<1> QED
  BY <1>1, <1>2, <1>3

\* The first letter is taken.
LEMMA HeedsTail ==
    ASSUME NEW c \in Conns, Heeds(c), up[c] \in Seq(Letters), up[c] # <<>>,
           up'[c] = Tail(up[c]), client'[c] = client[c],
           Asks(c, 1) => (Stale(c, 1) => StaleTurn(c)'),
           ~Asks(c, 1) => (StaleTurn(c) => StaleTurn(c)')
    PROVE  Heeds(c)'
<1>1. /\ 1 \in DOMAIN up[c]
      /\ \A i \in Nat : i \in DOMAIN up'[c] <=> i + 1 \in DOMAIN up[c] /\ i # 0
      /\ \A i \in DOMAIN up'[c] : up'[c][i] = up[c][i + 1]
  BY TailLetters
<1>2. \A i \in Nat : /\ Asks(c, i)' <=> i # 0 /\ Asks(c, i + 1)
                     /\ Stale(c, i)' <=> i # 0 /\ Stale(c, i + 1)
  BY <1>1 DEF Asks, Stale
<1>3. \A i \in Nat : (Asks(c, i) => i # 0) /\ (Stale(c, i) => i # 0)
  BY TailLetters DEF Asks, Stale
\* What comes after a question that is stale, and after one that is not.
<1>4. ASSUME NEW n \in Nat, NEW j \in Nat, j < n, Stale(c, j), Asks(c, j), n # 0
      PROVE  \/ \E k \in Nat : k < n - 1 /\ Stale(c, k)' /\ Asks(c, k)'
             \/ StaleTurn(c)' /\ \A k \in Nat : k < n - 1 => ~Asks(c, k)'
  <2>1. CASE j # 1
    <3>1. j - 1 \in Nat /\ j - 1 < n - 1 /\ j - 1 # 0 /\ (j - 1) + 1 = j
      BY <1>3, <1>4, <2>1
    <3> QED
      BY <1>2, <1>4, <3>1
  <2>2. CASE j = 1
    <3>1. StaleTurn(c)' /\ Stale(c, 1)
      BY <1>4, <2>2
    <3>2. \A k \in Nat : Asks(c, k)' => Stale(c, k)'
      <4>1. SUFFICES ASSUME NEW k \in Nat, Asks(c, k)' PROVE Stale(c, k)'
        OBVIOUS
      <4>2. k # 0 /\ k + 1 \in Nat /\ 1 < k + 1 /\ k + 1 \in DOMAIN up[c]
        BY <1>2, <4>1 DEF Asks
      <4>3. Stale(c, k + 1)
        BY <3>1, <4>2 DEF Heeds
      <4> QED
        BY <1>2, <4>2, <4>3
    <3> QED
      BY <3>1, <3>2
  <2> QED
    BY <2>1, <2>2
<1>5. (\A i, j \in Nat : i < j /\ Stale(c, i) /\ j \in DOMAIN up[c] => Stale(c, j))'
  <2> SUFFICES ASSUME NEW i \in Nat, NEW j \in Nat, i < j, Stale(c, i)', j \in DOMAIN up'[c]
               PROVE  Stale(c, j)'
    OBVIOUS
  <2>1. i + 1 \in Nat /\ j + 1 \in Nat /\ i + 1 < j + 1 /\ Stale(c, i + 1) /\ j + 1 \in DOMAIN up[c]
    BY <1>1, <1>2
  <2>2. Stale(c, j + 1)
    BY <2>1 DEF Heeds
  <2> QED
    BY <1>1, <1>2, <2>2
<1>6. (\A i \in Nat : Stale(c, i) => client[c].at = "off" \/ client[c].late)'
  <2> SUFFICES ASSUME NEW i \in Nat, Stale(c, i)'
               PROVE  client'[c].at = "off" \/ client'[c].late
    OBVIOUS
  <2>1. i + 1 \in Nat /\ Stale(c, i + 1)
    BY <1>2
  <2> QED
    BY <2>1 DEF Heeds
<1>7. (\A i \in Nat : Stale(c, i) /\ ~Asks(c, i) =>
          \/ \E j \in Nat : j < i /\ Stale(c, j) /\ Asks(c, j)
          \/ StaleTurn(c) /\ \A j \in Nat : j < i => ~Asks(c, j))'
  <2> SUFFICES ASSUME NEW i \in Nat, Stale(c, i)', ~Asks(c, i)'
               PROVE  \/ \E j \in Nat : j < i /\ Stale(c, j)' /\ Asks(c, j)'
                      \/ StaleTurn(c)' /\ \A j \in Nat : j < i => ~Asks(c, j)'
    OBVIOUS
  <2>1. /\ i + 1 \in Nat /\ i + 1 # 0 /\ (i + 1) - 1 = i /\ i # 0
        /\ Stale(c, i + 1) /\ ~Asks(c, i + 1)
    BY <1>2
  <2>2. CASE \E j \in Nat : j < i + 1 /\ Stale(c, j) /\ Asks(c, j)
    BY <1>4, <2>1, <2>2
  <2>3. CASE StaleTurn(c) /\ \A j \in Nat : j < i + 1 => ~Asks(c, j)
    <3>1. ~Asks(c, 1)
      BY <2>1, <2>3
    <3>2. ASSUME NEW j \in Nat, j < i PROVE ~Asks(c, j)'
      <4>1. j + 1 \in Nat /\ j + 1 < i + 1
        BY <3>2
      <4> QED
        BY <1>2, <2>3, <4>1
    <3> QED
      BY <2>3, <3>1, <3>2
  <2>4. \/ \E j \in Nat : j < i + 1 /\ Stale(c, j) /\ Asks(c, j)
        \/ StaleTurn(c) /\ \A j \in Nat : j < i + 1 => ~Asks(c, j)
    BY <2>1 DEF Heeds
  <2> QED
    BY <2>2, <2>3, <2>4
<1>8. (client[c].late /\ client[c].at \in {"wait", "score", "reason"} =>
          \/ \E j \in Nat : Stale(c, j) /\ Asks(c, j)
          \/ StaleTurn(c) /\ \A j \in Nat : ~Asks(c, j))'
  <2> SUFFICES ASSUME client[c].late, client[c].at \in {"wait", "score", "reason"}
               PROVE  \/ \E j \in Nat : Stale(c, j)' /\ Asks(c, j)'
                      \/ StaleTurn(c)' /\ \A j \in Nat : ~Asks(c, j)'
    OBVIOUS
  <2>1. CASE \E j \in Nat : Stale(c, j) /\ Asks(c, j)
    <3>1. PICK j \in Nat : Stale(c, j) /\ Asks(c, j)
      BY <2>1
    <3>2. CASE \E k \in Nat : Asks(c, k)'
      <4>1. PICK k \in Nat : Asks(c, k)'
        BY <3>2
      <4>2. k # 0 /\ k + 1 \in Nat /\ 1 < k + 1 /\ k + 1 \in DOMAIN up[c]
        BY <1>2, <4>1 DEF Asks
      <4>3. CASE j = 1
        <5>1. Stale(c, k + 1)
          BY <3>1, <4>2, <4>3 DEF Heeds
        <5> QED
          BY <1>2, <4>1, <4>2, <5>1
      <4>4. CASE j # 1
        <5>1. j - 1 \in Nat /\ j - 1 # 0 /\ (j - 1) + 1 = j
          BY <1>3, <3>1, <4>4
        <5> QED
          BY <1>2, <3>1, <5>1
      <4> QED
        BY <4>3, <4>4
    <3>3. CASE ~\E k \in Nat : Asks(c, k)'
      <4>1. j = 1
        <5>1. SUFFICES ASSUME j # 1 PROVE FALSE
          OBVIOUS
        <5>2. j - 1 \in Nat /\ j - 1 # 0 /\ (j - 1) + 1 = j
          BY <1>3, <3>1, <5>1
        <5> QED
          BY <1>2, <3>1, <3>3, <5>2
      <4> QED
        BY <3>1, <3>3, <4>1
    <3> QED
      BY <3>2, <3>3
  <2>2. CASE StaleTurn(c) /\ \A j \in Nat : ~Asks(c, j)
    <3>1. ~Asks(c, 1) /\ \A j \in Nat : ~Asks(c, j + 1)
      BY <2>2
    <3> QED
      BY <1>2, <2>2, <3>1
  <2> QED
    BY <2>1, <2>2 DEF Heeds
<1> QED
  BY <1>5, <1>6, <1>7, <1>8 DEF Heeds

\* The client sends a letter: a question, or a reply that ends its wait.
LEMMA HeedsAppend ==
    ASSUME NEW c \in Conns, Heeds(c), up[c] \in Seq(Letters), NEW m \in Letters,
           up'[c] = Append(up[c], m), run'[c] = run[c], m.late = client[c].late,
           client'[c].late = client[c].late, client[c].at # "off",
           m.kind = "message" \/ client[c].at \in {"score", "reason"}
    PROVE  Heeds(c)'
<1>0. PICK n \in Nat : n = Len(up[c]) + 1
  OBVIOUS
<1>1. /\ n \in Nat /\ n # 0
      /\ \A i \in Nat : i \in DOMAIN up[c] <=> i # 0 /\ i < n
      /\ \A i \in Nat : i \in DOMAIN up'[c] <=> i # 0 /\ (i < n \/ i = n)
      /\ up'[c][n] = m /\ \A i \in Nat : i # 0 /\ i < n => up'[c][i] = up[c][i]
  <2> DEFINE q == up[c]
             s == Append(q, m)
  <2>1. /\ DOMAIN s = 1 .. (Len(q) + 1) /\ DOMAIN q = 1 .. Len(q) /\ Len(q) \in Nat
        /\ s[Len(q) + 1] = m /\ \A i \in 1 .. Len(q) : s[i] = q[i]
    <3> HIDE DEF q
    <3>1. q \in Seq(Letters)
      BY DEF q
    <3> QED
      BY <3>1
  <2>2. up'[c] = s
    OBVIOUS
  <2> HIDE DEF q, s
  <2>3. n = Len(q) + 1 /\ up[c] = q
    BY <1>0 DEF q
  <2> QED
    BY <2>1, <2>2, <2>3
<1>2. \A i \in Nat : i < n => (Asks(c, i)' <=> Asks(c, i)) /\ (Stale(c, i)' <=> Stale(c, i))
  BY <1>1 DEF Asks, Stale
<1>3. /\ Asks(c, n)' <=> m.kind = "message"
      /\ Stale(c, n)' <=> client[c].late
      /\ \A i \in Nat : Asks(c, i)' \/ Stale(c, i)' => i < n \/ i = n
  BY <1>1 DEF Asks, Stale
<1>4. \A i \in Nat : Asks(c, i) \/ Stale(c, i) => i < n
  BY <1>1 DEF Asks, Stale
<1>5. (\A i, j \in Nat : i < j /\ Stale(c, i) /\ j \in DOMAIN up[c] => Stale(c, j))'
  <2> SUFFICES ASSUME NEW i \in Nat, NEW j \in Nat, i < j, Stale(c, i)', j \in DOMAIN up'[c]
               PROVE  Stale(c, j)'
    OBVIOUS
  <2>1. i < n /\ Stale(c, i) /\ (j < n \/ j = n) /\ j # 0
    BY <1>1, <1>2, <1>3
  <2>2. CASE j < n
    BY <1>1, <1>2, <2>1, <2>2 DEF Heeds
  <2>3. CASE j = n
    BY <1>3, <2>1, <2>3 DEF Heeds
  <2> QED
    BY <2>1, <2>2, <2>3
<1>6. (\A i \in Nat : Stale(c, i) => client[c].at = "off" \/ client[c].late)'
  BY <1>2, <1>3 DEF Heeds
<1>7. (\A i \in Nat : Stale(c, i) /\ ~Asks(c, i) =>
          \/ \E j \in Nat : j < i /\ Stale(c, j) /\ Asks(c, j)
          \/ StaleTurn(c) /\ \A j \in Nat : j < i => ~Asks(c, j))'
  <2> SUFFICES ASSUME NEW i \in Nat, Stale(c, i)', ~Asks(c, i)'
               PROVE  \/ \E j \in Nat : j < i /\ Stale(c, j)' /\ Asks(c, j)'
                      \/ StaleTurn(c)' /\ \A j \in Nat : j < i => ~Asks(c, j)'
    BY DEF StaleTurn
  <2>1. CASE i < n
    <3>1. Stale(c, i) /\ ~Asks(c, i)
      BY <1>2, <2>1
    <3>2. \A j \in Nat : j < i => (Asks(c, j)' <=> Asks(c, j)) /\ (Stale(c, j)' <=> Stale(c, j))
      BY <1>1, <1>2, <2>1
    <3>3. StaleTurn(c)' <=> StaleTurn(c)
      BY DEF StaleTurn
    <3> QED
      BY <3>1, <3>2, <3>3 DEF Heeds
  <2>2. CASE i = n
    <3>1. client[c].late /\ client[c].at \in {"score", "reason"}
      BY <1>3, <2>2
    <3>2. StaleTurn(c)' <=> StaleTurn(c)
      BY DEF StaleTurn
    <3>3. \/ \E j \in Nat : Stale(c, j) /\ Asks(c, j)
          \/ StaleTurn(c) /\ \A j \in Nat : ~Asks(c, j)
      BY <3>1 DEF Heeds
    <3> QED
      BY <1>2, <1>4, <2>2, <3>2, <3>3
  <2> QED
    BY <1>3, <2>1, <2>2
<1>8. (client[c].late /\ client[c].at \in {"wait", "score", "reason"} =>
          \/ \E j \in Nat : Stale(c, j) /\ Asks(c, j)
          \/ StaleTurn(c) /\ \A j \in Nat : ~Asks(c, j))'
  <2> SUFFICES ASSUME client[c].late
               PROVE  \/ \E j \in Nat : Stale(c, j)' /\ Asks(c, j)'
                      \/ StaleTurn(c)' /\ \A j \in Nat : ~Asks(c, j)'
    OBVIOUS
  <2>1. CASE m.kind = "message"
    BY <1>1, <1>3, <2>1
  <2>2. CASE m.kind # "message"
    <3>1. \/ \E j \in Nat : Stale(c, j) /\ Asks(c, j)
          \/ StaleTurn(c) /\ \A j \in Nat : ~Asks(c, j)
      BY <2>2 DEF Heeds
    <3>2. StaleTurn(c)' <=> StaleTurn(c)
      BY DEF StaleTurn
    <3> QED
      BY <1>2, <1>3, <1>4, <2>2, <3>1, <3>2
  <2> QED
    BY <2>1, <2>2
<1> QED
  BY <1>5, <1>6, <1>7, <1>8 DEF Heeds

\* A connection that starts anew has no stale letters and no turn.
LEMMA HeedsNew ==
    ASSUME NEW c \in Conns, \A i : ~Stale(c, i), ~client[c].late
    PROVE  Heeds(c)
BY DEF Heeds

LEMMA HeedsOthers ==
    ASSUME HeedsInv, NEW c \in Conns, Same(c), Heeds(c)'
    PROVE  HeedsInv'
<1>1. ASSUME NEW d \in Conns \ {c} PROVE Heeds(d)'
  <2>1. Heeds(d) /\ client'[d] = client[d] /\ up'[d] = up[d] /\ run'[d] = run[d]
    BY DEF HeedsInv, Same
  <2> QED
    BY <2>1, HeedsKept DEF StaleTurn
<1> QED
  BY <1>1 DEF HeedsInv

LEMMA HeedsStep == ASSUME TypeOK, HeedsInv, [Next]_vars PROVE HeedsInv'
<1>0. /\ client \in [Conns -> Clients] /\ up \in [Conns -> Seq(Messages \cup Replies)]
      /\ run \in [Conns -> Run] /\ \A c \in Conns : up[c] \in Seq(Letters) /\ client[c] \in Clients
  BY DEF TypeOK, Letters
<1>1. CASE Move \/ UNCHANGED vars
  <2>1. UNCHANGED <<client, up, run>>
    BY <1>1 DEF Move, vars, client_vars, conn_vars
  <2> QED
    BY <2>1, HeedsKept DEF HeedsInv, StaleTurn
<1>2. ASSUME NEW c \in Conns, Connect(c) \/ AskAgain(c) PROVE HeedsInv'
  <2>1. Same(c)
    BY <1>2, ClientSame DEF TypeOK
  <2>2. ~client'[c].late
    BY <1>0, <1>2 DEF Connect, AskAgain, Off
  <2>3. \A i : ~Stale(c, i)'
    <3>1. CASE Connect(c)
      <4>1. up'[c] = <<>>
        BY <1>0, <3>1 DEF Connect
      <4> QED
        BY <4>1 DEF Stale
    <3>2. CASE AskAgain(c)
      <4>1. PICK want \in Wants, feedback \in BOOLEAN :
               up'[c] = <<Question(<<c, left[c]>>, want, feedback, FALSE)>>
        BY <1>0, <3>2 DEF AskAgain
      <4> DEFINE m == Question(<<c, left[c]>>, want, feedback, FALSE)
      <4>2. m.late = FALSE
        BY DEF Question
      <4> HIDE DEF m
      <4>3. \A i \in DOMAIN <<m>> : <<m>>[i] = m
        OBVIOUS
      <4> QED
        BY <4>1, <4>2, <4>3 DEF Stale, m
    <3> QED
      BY <1>2, <3>1, <3>2
  <2>4. Heeds(c)'
    BY <2>2, <2>3 DEF Heeds
  <2> QED
    BY <2>1, <2>4, HeedsOthers
<1>3. ASSUME NEW c \in Conns, Ask(c) \/ Answer(c) PROVE HeedsInv'
  <2>1. Same(c) /\ UNCHANGED run
    BY <1>3, ClientSame DEF TypeOK, Ask, Answer, Client, conn_vars
  <2>2. CASE Ask(c)
    <3> DEFINE q == [Off EXCEPT !.at = "wait", !.asked = <<c, left[c]>>, !.late = client[c].late]
    <3>1. client' = [client EXCEPT ![c] = q] /\ client[c].at = "prompt"
      BY <2>2 DEF Ask
    <3>2. q.late = client[c].late
      BY DEF Off
    <3> HIDE DEF q
    <3>3. client'[c].late = client[c].late
      BY <1>0, <3>1, <3>2
    <3>4. PICK want \in Wants, feedback \in BOOLEAN :
             up' = [up EXCEPT ![c] = Append(@, Question(<<c, left[c]>>, want, feedback,
                                                        client[c].late))]
      BY <2>2 DEF Ask
    <3> DEFINE m == Question(<<c, left[c]>>, want, feedback, client[c].late)
    <3>5. m.kind = "message" /\ m.late = client[c].late
      BY DEF Question
    <3>6. m \in Letters
      <4>1. client[c].late \in BOOLEAN /\ left[c] > 0
        BY <1>0, <2>2 DEF Clients, Ask
      <4> QED
        BY <3>4, <4>1, QuestionType DEF Letters
    <3>7. up'[c] = Append(up[c], m)
      BY <1>0, <3>4
    <3> HIDE DEF m
    <3>8. Heeds(c)'
      BY <1>0, <2>1, <3>1, <3>3, <3>5, <3>6, <3>7, HeedsAppend DEF HeedsInv
    <3> QED
      BY <2>1, <3>8, HeedsOthers
  <2>3. CASE Answer(c) /\ pc[c] = "off"
    <3>1. client'[c] = Off /\ UNCHANGED up
      BY <1>0, <2>3 DEF Answer
    <3>2. Heeds(c)'
      BY <2>1, <3>1, HeedsKept DEF HeedsInv, Off, StaleTurn
    <3> QED
      BY <2>1, <3>2, HeedsOthers
  <2>4. CASE Answer(c) /\ pc[c] # "off"
    <3> DEFINE q == client[c]
    <3>1. /\ client' = [client EXCEPT ![c] = [q EXCEPT !.at = "wait"]]
          /\ q.at \in {"score", "reason"} /\ q \in Clients
      BY <1>0, <2>4 DEF Answer
    <3>2. PICK score \in {"low", "high", "none"} :
             up' = [up EXCEPT ![c] = Append(@, Reply(q.shown, score, q.late))]
      BY <2>4 DEF Answer
    <3> DEFINE m == Reply(q.shown, score, q.late)
    <3>3. m \in Letters /\ m.late = q.late
      BY <3>1 DEF Reply, Replies, Letters, Clients
    <3>4. up'[c] = Append(up[c], m)
      BY <1>0, <3>2
    <3> HIDE DEF m
    <3>5. client'[c].late = q.late
      BY <1>0, <3>1 DEF Clients
    <3>6. Heeds(c)'
      BY <1>0, <2>1, <3>1, <3>3, <3>4, <3>5, HeedsAppend DEF HeedsInv
    <3> QED
      BY <2>1, <3>6, HeedsOthers
  <2> QED
    BY <1>3, <2>2, <2>3, <2>4
<1>4. ASSUME NEW c \in Conns, GiveUp(c) \/ Receive(c) \/ ReceiveClosed(c) PROVE HeedsInv'
  <2> DEFINE q == client[c]
  <2>1. Same(c) /\ UNCHANGED <<up, run>> /\ q \in Clients
    BY <1>0, <1>4, ClientSame DEF TypeOK, Client, GiveUp, Receive, ReceiveClosed, conn_vars
  <2>2. \/ client'[c].late /\ client'[c].at = "prompt"
        \/ client'[c].late = q.late /\ q.at = "wait"
    <3>1. CASE GiveUp(c)
      BY <1>0, <2>1, <3>1 DEF GiveUp, Clients
    <3>2. CASE ReceiveClosed(c)
      BY <1>0, <2>1, <3>2 DEF ReceiveClosed, Clients
    <3>3. CASE Receive(c)
      <4> DEFINE e == Head(down[c])
      <4>1. down[c] \in Seq(Events) /\ down[c] # <<>> /\ q.at = "wait"
        BY <3>3 DEF TypeOK, Receive
      <4>2. e \in Events
        BY <4>1
      <4>3. client' = [client EXCEPT ![c] =
               CASE e.kind = "stream"                -> [q EXCEPT !.shown = e.turn]
                 [] e.kind \in {"complete", "error"} -> [q EXCEPT !.at = "prompt", !.end = e.kind]
                 [] e.kind = "score"                 -> [q EXCEPT !.at = "score"]
                 [] e.kind = "reason"                -> [q EXCEPT !.at = "reason"]]
        BY <3>3 DEF Receive
      <4>4. e.kind \in {"stream", "complete", "error", "score", "reason"}
        BY <4>2 DEF Events
      <4> HIDE DEF e, q
      <4>5. client'[c].late = q.late
        BY <1>0, <2>1, <4>3, <4>4 DEF Clients
      <4> QED
        BY <4>1, <4>5 DEF q
    <3> QED
      BY <1>4, <3>1, <3>2, <3>3
  <2>3. Heeds(c)'
    BY <2>1, <2>2, HeedsKept DEF HeedsInv, StaleTurn
  <2> QED
    BY <2>1, <2>3, HeedsOthers
<1>5. ASSUME NEW c \in Conns, Works(c) PROVE HeedsInv'
  <2>1. Same(c) /\ UNCHANGED client /\ Heeds(c)
    BY <1>5, WorksSame, DownOthers DEF HeedsInv
  <2>2. StaleTurn(c) => StaleTurn(c)'
    BY <1>5, WorksKeep DEF StaleTurn
  <2>3. CASE UNCHANGED up
    <3>1. Heeds(c)'
      BY <2>1, <2>2, <2>3, HeedsKept
    <3> QED
      BY <2>1, <3>1, HeedsOthers
  <2>4. CASE ServeResume(c)
    <3>1. up[c] # <<>> /\ up'[c] = Tail(up[c]) /\ Head(up[c]).kind = "resume"
      BY <1>0, <2>4 DEF ServeResume
    <3>2. ~Asks(c, 1)
      BY <1>0, <3>1, TailLetters DEF Asks
    <3>3. Heeds(c)'
      BY <1>0, <2>1, <2>2, <3>1, <3>2, HeedsTail
    <3> QED
      BY <2>1, <3>3, HeedsOthers
  <2> QED
    BY <1>5, <2>3, <2>4, WorksKeep
<1>6. ASSUME NEW c \in Conns, ServeMessage(c) PROVE HeedsInv'
  <2>1. /\ up[c] # <<>> /\ up'[c] = Tail(up[c]) /\ Head(up[c]).kind = "message"
        /\ \A d \in Conns \ {c} : up'[d] = up[d]
    BY <1>0, <1>6 DEF ServeMessage
  <2>2. UNCHANGED client /\ Heeds(c)
    BY <1>6, DownOthers DEF HeedsInv
  <2>3. Asks(c, 1) /\ (Stale(c, 1) <=> Head(up[c]).late)
    BY <1>0, <2>1, TailLetters DEF Asks, Stale
  <2>4. /\ Head(up[c]).late => StaleTurn(c)'
        /\ \A d \in Conns \ {c} : run'[d] = run[d]
    <3>1. CASE Refuse(c)
      BY <1>0, <3>1, ForgetTurn DEF Refuse, StaleTurn
    <3>2. CASE ~Refuse(c)
      BY <1>0, <1>6, <3>2 DEF ServeMessage, StaleTurn, Idle
    <3> QED
      BY <3>1, <3>2
  <2>5. Heeds(c)'
    BY <1>0, <2>1, <2>2, <2>3, <2>4, HeedsTail
  <2>6. ASSUME NEW d \in Conns \ {c} PROVE Heeds(d)'
    BY <2>1, <2>2, <2>4, HeedsKept DEF HeedsInv, StaleTurn
  <2> QED
    BY <2>5, <2>6 DEF HeedsInv
<1>7. ASSUME NEW c \in Conns, SaveTurn(c) PROVE HeedsInv'
  <2>1. UNCHANGED <<client, up, run>>
    BY <1>7 DEF SaveTurn, Env
  <2> QED
    BY <2>1, HeedsKept DEF HeedsInv, StaleTurn
<1> QED
  BY <1>1, <1>2, <1>3, <1>4, <1>5, <1>6, <1>7 DEF Next, Client, Server, Graph, Works

LEMMA HeedsInvariance == Spec => []HeedsInv
<1>1. Init => HeedsInv
  BY DEF Init, HeedsInv, Heeds, Stale, Off
<1>2. TypeOK /\ HeedsInv /\ [Next]_vars => HeedsInv'
  BY HeedsStep
<1> QED
  BY <1>1, <1>2, TypeCorrect, PTL DEF Spec

\* The reply at the head of a queue never brings an old turn back to life.
LEMMA RepliesRetry ==
    ASSUME TypeOK, NEW c \in Conns, Timely(c), Heeds(c)
    PROVE  Retries(c)
<1> SUFFICES ASSUME pc[c] = "idle", up[c] # <<>>, Head(up[c]).kind = "resume"
             PROVE  /\ thread[c] \in Due => Head(up[c]).late
                    /\ Head(up[c]).late /\ run[c].turn # None => run[c].late
  BY DEF Retries
<1>1. up[c] \in Seq(Letters)
  BY DEF TypeOK, Letters
<1>2. 1 \in DOMAIN up[c] /\ Head(up[c]) = up[c][1]
  BY <1>1, TailLetters
<1>3. \A j \in Nat : j < 1 => j \notin DOMAIN up[c]
  BY <1>1
<1>4. thread[c] \in Due => Head(up[c]).late
  BY <1>2 DEF Timely, Fresh, Due
<1>5. ASSUME Head(up[c]).late, run[c].turn # None PROVE run[c].late
  <2>1. Stale(c, 1) /\ ~Asks(c, 1)
    BY <1>2, <1>5 DEF Stale, Asks
  <2>2. \A j \in Nat : j < 1 => ~Asks(c, j)
    BY <1>3 DEF Asks
  <2>3. StaleTurn(c)
    BY <2>1, <2>2 DEF Heeds
  <2> QED
    BY <1>5, <2>3 DEF StaleTurn
<1> QED
  BY <1>4, <1>5

\* For any number of connections, questions and faults, what a client displays at the end of
\* a turn answers its own question, and a score is stored with the answer that the user has
\* seen, unless the client had given up on the socket before (commands/run.py, ws/chat.py).
THEOREM AnswersAreOwn == Spec => []OwnAnswers
<1>1. ProtoInv => OwnAnswers
  BY DEF ProtoInv, ConvsRated, Mine, Proto, OwnAnswers
<1> QED
  BY <1>1, ProtoInvariance, PTL

\* A turn is stored at most once, through interrupts, lost sockets and failures between the
\* statements that store it, and it is stored when its client has seen it complete
\* (create_conversation, summarize.py).  A reply that a client sends after it has given up
\* can run a failed write-back again; the turns it reaches are marked late, and exempt.
THEOREM TurnsStoredOnce == Spec => []SavedOnce
<1>1. Init => OnceInv
  BY OnceInit
<1>2. IInv /\ OnceInv /\ ProtoInv /\ HeedsInv /\ [Next]_vars => OnceInv'
  <2> SUFFICES ASSUME IInv, OnceInv, ProtoInv, HeedsInv, [Next]_vars PROVE OnceInv'
    OBVIOUS
  <2>1. ASSUME NEW c \in Conns PROVE Retries(c)
    <3>1. TypeOK /\ Timely(c) /\ Heeds(c)
      BY DEF IInv, ProtoInv, Mine, HeedsInv
    <3> QED
      BY <3>1, RepliesRetry
  <2> QED
    BY <2>1, OnceStep
<1>3. OnceInv /\ ProtoInv => SavedOnce
  BY DEF OnceInv, ProtoInv, Mine, Proto, SavedTurns, SavedOnce, Alike
<1> QED
  BY <1>1, <1>2, <1>3, Invariance, ProtoInvariance, HeedsInvariance, PTL DEF Spec
=============================================================================
