-------------------------------- MODULE MCChat --------------------------------
EXTENDS Chat, TLC

CONSTANTS t1, t2, c1, c2

\* One connection asks twice, also where two crossing turns of the past have left two
\* rows, or two connections ask once each.
Situations ==
    {[left |-> (c :> 2) @@ [d \in Conns |-> 0], facts |-> n] : c \in Conns, n \in {0, 2}}
    \cup {[left |-> [c \in Conns |-> 1], facts |-> 0]}

Symmetry == Permutations(Conns)

\* States that differ only in what no later step reads are one: the counter of searches
\* once the search is over, the summary in hand once it is saved or has failed to be.
Searching(c) == {pc[c], thread[c]} \cap {"graphs", "context", "search"} # {}
Saving(c)    == pc[c] \in SavePcs
Seen(c) == [run[c] EXCEPT !.retry = IF Searching(c) THEN @ ELSE 0,
                          !.roll = IF Saving(c) THEN @ ELSE {}]
View == <<member, client_vars, down, pc, thread, joined, [c \in Conns |-> Seen(c)],
          db_vars, faults>>
=============================================================================
