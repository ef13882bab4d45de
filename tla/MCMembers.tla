------------------------------ MODULE MCMembers ------------------------------
EXTENDS Members, TLC

CONSTANTS u1, u2, com, net

\* Two people of two domains whose first label is the same.
DomainOf == (u1 :> com) @@ (u2 :> net)

Symmetry == Permutations(Requests)
=============================================================================
