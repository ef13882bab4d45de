--------------------------------- MODULE Chat ---------------------------------
(***************************************************************************)
(* The chat of one user over WebSocket connections that share a session:   *)
(* the client's read-eval loop, the endpoint, the stream of a turn and the *)
(* RAG graph with its feedback interrupts and its write-back.              *)
(*                                                                         *)
(* Each connection has a queue of messages in each direction.  No team has *)
(* opted in to another graph, so every turn runs the default one; what the *)
(* document graph does is the Canvas and Edits modules'.  A `configure`    *)
(* message travels in the same queue as the message it is for and is sent  *)
(* with it here.                                                           *)
(***************************************************************************)
EXTENDS Naturals, Sequences, FiniteSets

CONSTANTS
    Teams,
    Conns,        \* connections, each with its client
    MaxRetries,   \* RAG_EVALUATE_MAX_RETRIES
    RecentTurns,  \* memory_recent_turns
    Wants,        \* the team_ids a question may come with
    Starts,       \* bound: how many questions each connection may ask, and how many
                  \* rows of the memory key earlier turns have left
    MaxFaults     \* bound: times a client gives up waiting, connections lost and
                  \* changes of the user's memberships, together

ASSUME NumbersAssumption ==
    MaxRetries \in Nat /\ RecentTurns \in Nat /\ MaxFaults \in Nat
ASSUME ScopesAssumption == Wants \subseteq SUBSET Teams /\ Starts \subseteq [left : [Conns -> Nat], facts : Nat]

VARIABLES
    member,   \* teams the user belongs to
    client,   \* per connection: the read-eval loop
    up,       \* per connection: messages to the server
    down,     \* per connection: events to the client
    pc,       \* per connection: where its handler is
    thread,   \* per connection: where the graph of its current turn is paused
    joined,   \* per connection: the user's teams, read once
    run,      \* per connection: the state of the current turn
    convs,    \* the session's conversations, oldest first
    summary,  \* turns in the session's rolling summary
    facts,    \* rows of one key in the user's memory
    left,     \* questions that each connection may still ask
    faults,   \* faults so far
    rolled,   \* history: turns whose summary has been written to the session
    crossed   \* history: two turns have written back at the same time

client_vars == <<client, up, left>>
conn_vars   == <<pc, thread, joined, run>>
db_vars     == <<convs, summary, facts, rolled, crossed>>
vars == <<member, client_vars, down, conn_vars, db_vars, faults>>

\* A turn is named by its connection and a number.
Turns    == Conns \X (Nat \ {0})
None     == <<>>
SavePcs  == {"sum_save", "sum_session"}
FactPcs  == {"remember", "remember_new"}
GraphPcs == {"search", "generate", "summarize", "extract"} \cup SavePcs \cup FactPcs
Pcs      == {"off", "idle", "graphs", "context"} \cup GraphPcs
Due      == {"context", "search", "generate", "summarize", "extract"}
Pauses   == {"none", "score", "reason"} \cup Due

\* from: teams whose documents can have reached the prompt, directly or through
\* earlier turns; rated: the turn whose answer the user saw when giving the score;
\* late: the client had given up on an earlier answer of this connection.
Run   == [turn : Turns \cup {None}, scope : SUBSET Teams, feedback : BOOLEAN, from : SUBSET Teams,
          retry : Nat, roll : SUBSET Turns, rated : Turns \cup {None}, late : BOOLEAN]
Idle  == [turn |-> None, scope |-> {}, feedback |-> FALSE, from |-> {}, retry |-> 0, roll |-> {},
          rated |-> None, late |-> FALSE]
Conv  == [turn : Turns, scope : SUBSET Teams, joined : SUBSET Teams, from : SUBSET Teams,
          rated : Turns \cup {None}, late : BOOLEAN]

\* asked: the turn the client waits for; shown: the turn whose answer it displays;
\* end: how the last turn ended for it.
Off == [at |-> "off", asked |-> None, shown |-> None, end |-> "none", late |-> FALSE]

Init ==
    /\ member = Teams
    /\ client = [c \in Conns |-> Off]
    /\ up = [c \in Conns |-> <<>>] /\ down = [c \in Conns |-> <<>>]
    /\ pc = [c \in Conns |-> "off"] /\ thread = [c \in Conns |-> "none"]
    /\ joined = [c \in Conns |-> {}] /\ run = [c \in Conns |-> Idle]
    /\ convs = <<>> /\ summary = {}
    /\ \E s \in Starts : left = s.left /\ facts = s.facts
    /\ faults = 0 /\ rolled = {} /\ crossed = (facts > 1)

Send(c, kind, turn) == down' = [down EXCEPT ![c] = Append(@, [kind |-> kind, turn |-> turn])]
Goto(c, label)      == pc' = [pc EXCEPT ![c] = label]
Pause(c, where)     == thread' = [thread EXCEPT ![c] = where]

----------------------------------------------------------------------------
(* The client (commands/run.py).                                           *)

Question(turn, want, feedback, late) ==
    [kind |-> "message", turn |-> turn, want |-> want, feedback |-> feedback, late |-> late]
Reply(turn, score, late) ==
    [kind |-> "resume", turn |-> turn, score |-> score, late |-> late]

\* The handler accepts a socket: token, session, and the teams as they are now.
Admit(c) ==
    /\ Goto(c, "idle") /\ Pause(c, "none")
    /\ joined' = [joined EXCEPT ![c] = member]
    /\ down' = [down EXCEPT ![c] = <<>>] /\ run' = [run EXCEPT ![c] = Idle]

\* _get_cli_token and _connect_ws.
Connect(c) ==
    /\ client[c].at = "off"
    /\ client' = [client EXCEPT ![c] = [Off EXCEPT !.at = "prompt"]]
    /\ Admit(c) /\ up' = [up EXCEPT ![c] = <<>>]
    /\ UNCHANGED <<member, left, db_vars, faults>>

\* A question on an open socket.
Ask(c) ==
    /\ client[c].at = "prompt" /\ left[c] > 0 /\ pc[c] # "off"
    /\ left' = [left EXCEPT ![c] = @ - 1]
    /\ client' = [client EXCEPT ![c] = [Off EXCEPT !.at = "wait", !.asked = <<c, left[c]>>,
                                                   !.late = client[c].late]]
    /\ \E want \in Wants, feedback \in BOOLEAN :
         up' = [up EXCEPT ![c] = Append(@, Question(<<c, left[c]>>, want, feedback,
                                                    client[c].late))]
    /\ UNCHANGED <<member, down, conn_vars, db_vars, faults>>

\* A question on a socket that turns out to be closed: connect again, ask again.
AskAgain(c) ==
    /\ client[c].at = "prompt" /\ left[c] > 0 /\ pc[c] = "off"
    /\ left' = [left EXCEPT ![c] = @ - 1]
    /\ client' = [client EXCEPT ![c] = [Off EXCEPT !.at = "wait", !.asked = <<c, left[c]>>]]
    /\ Admit(c)
    /\ \E want \in Wants, feedback \in BOOLEAN :
         up' = [up EXCEPT ![c] = <<Question(<<c, left[c]>>, want, feedback, FALSE)>>]
    /\ UNCHANGED <<member, db_vars, faults>>

\* One event of the stream.
Receive(c) ==
    /\ client[c].at = "wait" /\ down[c] # <<>>
    /\ down' = [down EXCEPT ![c] = Tail(@)]
    /\ LET e == Head(down[c])
       IN client' = [client EXCEPT ![c] =
            CASE e.kind = "stream"                -> [@ EXCEPT !.shown = e.turn]
              [] e.kind \in {"complete", "error"} -> [@ EXCEPT !.at = "prompt", !.end = e.kind]
              [] e.kind = "score"                 -> [@ EXCEPT !.at = "score"]
              [] e.kind = "reason"                -> [@ EXCEPT !.at = "reason"]]
    /\ UNCHANGED <<member, up, left, conn_vars, db_vars, faults>>

\* The socket is closed and everything it has delivered is read.
ReceiveClosed(c) ==
    /\ client[c].at = "wait" /\ down[c] = <<>> /\ pc[c] = "off"
    /\ client' = [client EXCEPT ![c].at = "prompt"]
    /\ UNCHANGED <<member, up, left, down, conn_vars, db_vars, faults>>

\* Nothing for two minutes: the prompt returns, the socket stays.
GiveUp(c) ==
    /\ client[c].at = "wait" /\ down[c] = <<>> /\ pc[c] # "off" /\ faults < MaxFaults
    /\ faults' = faults + 1
    /\ client' = [client EXCEPT ![c] = [@ EXCEPT !.at = "prompt", !.late = TRUE]]
    /\ UNCHANGED <<member, up, left, down, conn_vars, db_vars>>

\* The user rates what is displayed, or says why; on a closed socket the loop ends.
Answer(c) ==
    /\ client[c].at \in {"score", "reason"}
    /\ IF pc[c] = "off"
       THEN client' = [client EXCEPT ![c] = Off] /\ UNCHANGED up
       ELSE /\ client' = [client EXCEPT ![c].at = "wait"]
            /\ \E score \in IF client[c].at = "score" THEN {"low", "high"} ELSE {"none"} :
                 up' = [up EXCEPT ![c] = Append(@, Reply(client[c].shown, score, client[c].late))]
    /\ UNCHANGED <<member, left, down, conn_vars, db_vars, faults>>

Client(c) == Receive(c) \/ ReceiveClosed(c) \/ Answer(c)

----------------------------------------------------------------------------
(* The endpoint (api/endpoints/chat.py, api/ws/chat.py).                   *)

Env == UNCHANGED <<member, client, left, faults>>

\* What a closed socket, or a finished turn, leaves behind is never read.
Forget(c) == run' = [run EXCEPT ![c] = Idle]

\* An error the loop answers with `break`: the socket is closed.
Refuse(c) == Send(c, "error", None) /\ Goto(c, "off") /\ Pause(c, "none") /\ Forget(c)

\* scope_team_ids: all the user's teams, or those that are asked for.
Scope(c, want) == IF want = {} THEN joined[c] ELSE want \cap joined[c]

ServeMessage(c) ==
    /\ pc[c] = "idle" /\ up[c] # <<>> /\ Head(up[c]).kind = "message"
    /\ up' = [up EXCEPT ![c] = Tail(@)]
    /\ LET m == Head(up[c])
       IN IF Scope(c, m.want) = {}
          THEN Refuse(c)
          ELSE /\ run' = [run EXCEPT ![c] = [Idle EXCEPT !.turn = m.turn,
                               !.scope = Scope(c, m.want), !.feedback = m.feedback,
                               !.late = m.late]]
               /\ Goto(c, "graphs") /\ UNCHANGED <<down, thread>>
    /\ UNCHANGED <<joined, db_vars>> /\ Env

\* resolve_user_graph_ids: the memberships as they are now; then a thread of its own.
ResolveGraphs(c) ==
    /\ pc[c] = "graphs"
    /\ IF run[c].scope \cap member = {}
       THEN Refuse(c)
       ELSE Goto(c, "context") /\ Pause(c, "none") /\ UNCHANGED <<down, run>>
    /\ UNCHANGED <<up, joined, db_vars>> /\ Env

\* Mutant of StreamEnd: `complete' also ends a stream that an interrupt has paused.
StreamEndAlways(c, where) ==
    /\ Pause(c, where) /\ Goto(c, "idle")
    /\ down' = [down EXCEPT ![c] = @ \o IF where \in {"score", "reason"}
                   THEN <<[kind |-> where, turn |-> None], [kind |-> "complete", turn |-> None]>>
                   ELSE <<[kind |-> "complete", turn |-> None]>>]

\* The stream of a turn ends paused, in which case the interrupt says so, or complete.
StreamEnd(c, where) ==
    /\ Pause(c, where) /\ Goto(c, "idle")
    /\ Send(c, IF where \in {"score", "reason"} THEN where ELSE "complete", None)

\* Mutant of StreamFails: the stream is dropped silently.
StreamFailsSilently(c, where) == Pause(c, where) /\ Goto(c, "idle") /\ UNCHANGED down

\* It fails: the client is told, the socket stays, the node that failed is still due.
StreamFails(c, where) == Pause(c, where) /\ Goto(c, "idle") /\ Send(c, "error", None)

\* Mutant of ResumeScore: a good score ends the turn.
ResumeScoreEnds(c) ==
    /\ thread[c] = "score"
    /\ run' = [run EXCEPT ![c] = [@ EXCEPT !.rated = Head(up[c]).turn,
                                           !.late = run[c].late \/ Head(up[c]).late]]
    /\ StreamEnd(c, IF Head(up[c]).score = "low" THEN "reason" ELSE "none")

\* A score: the reason is asked for when it is low.
ResumeScore(c) ==
    /\ thread[c] = "score"
    /\ run' = [run EXCEPT ![c] = [@ EXCEPT !.rated = Head(up[c]).turn,
                                           !.late = run[c].late \/ Head(up[c]).late]]
    /\ IF Head(up[c]).score = "low"
       THEN StreamEnd(c, "reason")
       ELSE Goto(c, "summarize") /\ Pause(c, "none") /\ UNCHANGED down

\* A reason: the model thanks for it, or fails.
ResumeReason(c) ==
    /\ thread[c] = "reason" /\ UNCHANGED run
    /\ \/ Goto(c, "summarize") /\ Pause(c, "none") /\ UNCHANGED down
       \/ StreamFails(c, "reason")

\* A node that has failed is run again, whatever it had written before it failed.
ResumeFailed(c) ==
    /\ thread[c] \in Due
    /\ run' = [run EXCEPT ![c].late = @ \/ Head(up[c]).late]
    /\ Goto(c, thread[c]) /\ Pause(c, "none") /\ UNCHANGED down

\* Nothing is due: the stream of the finished thread is empty.
ResumeFinished(c) ==
    /\ thread[c] = "none" /\ UNCHANGED run
    /\ StreamEnd(c, "none")

ServeResume(c) ==
    /\ pc[c] = "idle" /\ up[c] # <<>> /\ Head(up[c]).kind = "resume"
    /\ up' = [up EXCEPT ![c] = Tail(@)]
    /\ ResumeScore(c) \/ ResumeReason(c) \/ ResumeFailed(c) \/ ResumeFinished(c)
    /\ UNCHANGED <<joined, db_vars>> /\ Env

----------------------------------------------------------------------------
(* The RAG graph (graph/rag).                                              *)

\* Mutant of Fits: the teams of the conversation and of the turn meet.
FitsSome(i, scope) == convs[i].scope \cap scope # {}

\* A conversation of the past is context only for a turn that covers its teams.
Fits(i, scope) == convs[i].scope # {} /\ convs[i].scope \subseteq scope

\* fetch_recent_conversations_by_session.
Recent(scope) ==
    {i \in DOMAIN convs :
        /\ i + 10 * RecentTurns > Len(convs) /\ Fits(i, scope)
        /\ Cardinality({j \in DOMAIN convs : j > i /\ Fits(j, scope)}) < RecentTurns}

\* The model says whether the question needs a search.
Route(c) == Goto(c, "generate") \/ Goto(c, "search")

\* The scope is never empty here, so the session's summary stays out of the context.
BuildContext(c) ==
    /\ pc[c] = "context"
    /\ \/ /\ run' = [run EXCEPT ![c].from = UNION {convs[i].from : i \in Recent(run[c].scope)}]
          /\ Route(c) /\ UNCHANGED <<down, thread>>
       \/ StreamFails(c, "context") /\ UNCHANGED run
    /\ UNCHANGED <<up, joined, db_vars>> /\ Env

\* The index is searched within the scope only.
Retrieved(c) == run[c].from \cup run[c].scope

\* A failure is tried again with other keywords until the counter is at its limit.
EvaluateRoute(retry) == IF retry < MaxRetries THEN "search" ELSE "generate"

\* Keywords, retrieval, evaluation; what is kept is ranked and put into the prompt.
Search(c) ==
    /\ pc[c] = "search"
    /\ \/ /\ run' = [run EXCEPT ![c].from = Retrieved(c)] /\ Goto(c, "generate")
          /\ UNCHANGED <<down, thread>>
       \/ /\ run' = [run EXCEPT ![c].from = Retrieved(c), ![c].retry = @ + 1]
          /\ Goto(c, EvaluateRoute(run[c].retry + 1))
          /\ UNCHANGED <<down, thread>>
       \/ StreamFails(c, "search") /\ UNCHANGED run
    /\ UNCHANGED <<up, joined, db_vars>> /\ Env

\* In feedback mode the answer is followed by an interrupt.
FeedbackRoute(c) == IF run[c].feedback THEN "score" ELSE "none"

\* The tokens of the answer, then the interrupt or the write-back.
Generate(c) ==
    /\ pc[c] = "generate"
    /\ \/ /\ down' = [down EXCEPT ![c] =
                 @ \o <<[kind |-> "stream", turn |-> run[c].turn]>>
                   \o (IF run[c].feedback THEN <<[kind |-> "score", turn |-> None]>> ELSE <<>>)]
          /\ Pause(c, FeedbackRoute(c))
          /\ Goto(c, IF run[c].feedback THEN "idle" ELSE "summarize")
       \/ StreamFails(c, "generate")
    /\ UNCHANGED <<up, joined, run, db_vars>> /\ Env

\* Mutant of SummaryOf: a failed call of the model leaves an empty summary.
SummaryOrNothing(c, ok) == IF ok THEN summary \cup {run[c].turn} ELSE {}

\* The rolling summary, or the previous one when the model fails.
SummaryOf(c, ok) == IF ok THEN summary \cup {run[c].turn} ELSE summary

\* The session's row is read; the model summarises the turn and the session.
Summarize(c) ==
    /\ pc[c] = "summarize"
    /\ \/ /\ \E ok \in BOOLEAN : run' = [run EXCEPT ![c].roll = SummaryOf(c, ok)]
          /\ crossed' = (crossed \/ \E d \in Conns \ {c} : pc[d] \in SavePcs)
          /\ Goto(c, "sum_save") /\ UNCHANGED <<down, thread>>
       \/ StreamFails(c, "summarize") /\ UNCHANGED <<run, crossed>>
    /\ UNCHANGED <<up, joined, convs, summary, facts, rolled>> /\ Env

ConvOf(c) == [turn |-> run[c].turn, scope |-> run[c].scope, joined |-> joined[c],
              from |-> run[c].from, rated |-> run[c].rated, late |-> run[c].late]

\* create_conversation: the row, then its references; either may fail.
SaveTurn(c) ==
    /\ pc[c] = "sum_save"
    /\ \/ convs' = Append(convs, ConvOf(c)) /\ Goto(c, "sum_session") /\ UNCHANGED <<down, thread>>
       \/ convs' \in {convs, Append(convs, ConvOf(c))} /\ StreamFails(c, "summarize")
    /\ UNCHANGED <<up, joined, run, summary, facts, rolled, crossed>> /\ Env

\* update_session_summary; when it fails, the turn has been stored already.
SaveSummary(c) ==
    /\ pc[c] = "sum_session"
    /\ \/ /\ summary' = run[c].roll
          /\ rolled' = rolled \cup (run[c].roll \cap {run[c].turn})
          /\ Goto(c, "extract") /\ UNCHANGED <<down, thread>>
       \/ StreamFails(c, "summarize") /\ UNCHANGED <<summary, rolled>>
    /\ UNCHANGED <<up, joined, run, convs, facts, crossed>> /\ Env

\* memory_extractor: no fact in the message, or one that is looked up by its key.
\* The look-up may fail; with two rows of the key it does, now and in every later turn.
Extract(c) ==
    /\ pc[c] = "extract"
    /\ \/ StreamEnd(c, "none") /\ Forget(c) /\ UNCHANGED crossed
       \/ /\ facts <= 1
          /\ Goto(c, IF facts = 0 THEN "remember_new" ELSE "remember")
          /\ crossed' = (crossed \/ \E d \in Conns \ {c} : pc[d] = "remember_new")
          /\ UNCHANGED <<down, thread, run>>
       \/ StreamFails(c, "extract") /\ UNCHANGED <<run, crossed>>
    /\ UNCHANGED <<up, joined, convs, summary, facts, rolled>> /\ Env

Remember(c) ==
    /\ pc[c] \in FactPcs
    /\ \/ /\ facts' = IF pc[c] = "remember_new" THEN facts + 1 ELSE facts
          /\ StreamEnd(c, "none") /\ Forget(c)
       \/ StreamFails(c, "extract") /\ UNCHANGED <<facts, run>>
    /\ UNCHANGED <<up, joined, convs, summary, rolled, crossed>> /\ Env

Graph(c) ==
    \/ BuildContext(c) \/ Search(c) \/ Generate(c)
    \/ Summarize(c) \/ SaveTurn(c) \/ SaveSummary(c) \/ Extract(c) \/ Remember(c)

Server(c) == ServeMessage(c) \/ ResolveGraphs(c) \/ ServeResume(c) \/ Graph(c)

\* The connection is lost, or the server restarts: the run of its turn is cancelled,
\* and events that are on their way may be lost.
Drop(c) ==
    /\ pc[c] # "off" /\ faults < MaxFaults
    /\ faults' = faults + 1
    /\ Goto(c, "off") /\ Pause(c, "none") /\ Forget(c)
    /\ \E n \in 0 .. Len(down[c]) : down' = [down EXCEPT ![c] = SubSeq(@, 1, n)]
    /\ UNCHANGED <<member, client_vars, joined, db_vars>>

\* Somebody adds the user to a team or removes the user from it.
Move ==
    /\ faults < MaxFaults
    /\ faults' = faults + 1
    /\ \E t \in Teams : member' = IF t \in member THEN member \ {t} ELSE member \cup {t}
    /\ UNCHANGED <<client_vars, down, conn_vars, db_vars>>

Next == \/ Move
        \/ \E c \in Conns : \/ Connect(c) \/ Ask(c) \/ AskAgain(c) \/ GiveUp(c) \/ Drop(c)
                            \/ Client(c) \/ Server(c)

Spec == Init /\ [][Next]_vars

----------------------------------------------------------------------------
\* "Skip global session summary when operating within a team scope to avoid
\* leaking unrelated team information" (context.py:35): whatever earlier turns have
\* brought into the session, and through however many of them, an answer rests only
\* on teams of its own scope, and those were the user's when the socket was opened.
MemoryScoped ==
    /\ \A i \in DOMAIN convs : convs[i].from \subseteq convs[i].scope \cap convs[i].joined
    /\ \A c \in Conns : pc[c] \in GraphPcs => run[c].from \subseteq run[c].scope \cap joined[c]

\* What the client displays at the end of a turn answers its own question, and a score
\* is stored with the answer the user has seen, unless the client had given up
\* waiting on this socket: the events of the old turn are still on their way then.
OwnAnswers ==
    /\ \A c \in Conns : client[c].end = "complete" /\ ~client[c].late
                           => client[c].shown = client[c].asked
    /\ \A i \in DOMAIN convs : ~convs[i].late => convs[i].rated \in {None, convs[i].turn}

\* "Completed turns are stored as Conversation rows" (chat.py:36): a turn is stored at
\* most once, through interrupts, lost sockets and failures before, between and after the
\* statements that store it, and it is stored once the client has seen it complete.  Only
\* the reply of a client that has given up before can run a failed write-back again,
\* which stores the turn a second time (summarize.py:60, services/chat.py:114).
SavedOnce ==
    /\ \A i, j \in DOMAIN convs : convs[i].turn = convs[j].turn /\ ~convs[i].late => i = j
    /\ \A c \in Conns : client[c].end = "complete" /\ ~client[c].late
                           => \E i \in DOMAIN convs : convs[i].turn = client[c].asked

\* The rolling summary keeps every turn that has been written to it, and a memory key
\* has one row, unless two turns have written back at the same time (summarize.py:49,
\* memory.py:57).
SummaryKeeps == ~crossed => rolled \subseteq summary /\ facts <= 1

\* "Surface graph failures instead of silently dropping the stream" (ws/chat.py:156):
\* a client that waits for the server never finds the server waiting for it, whatever
\* has failed, paused or been given up before.
NoMutualWait ==
    \A c \in Conns : client[c].at = "wait" /\ pc[c] = "idle" => up[c] # <<>> \/ down[c] # <<>>
=============================================================================
