---------------------------- MODULE ParseService ----------------------------
(***************************************************************************)
(* What parse_file promises the ingest graph: every document handed to it  *)
(* is answered once, with text or with an error, and no call hangs.        *)
(***************************************************************************)
CONSTANT Requests
VARIABLE answer

Init == answer = [r \in Requests |-> "none"]

Answer(r) == /\ answer[r] = "none"
             /\ \E a \in {"text", "error"} : answer' = [answer EXCEPT ![r] = a]

Next == \E r \in Requests : Answer(r)

\* Never two answers, nor one that changes ...
Safe == Init /\ [][Next]_answer

\* ... and always one.
Spec == Safe /\ \A r \in Requests : WF_answer(Answer(r))
=============================================================================
