------------------------------ MODULE MCCanvas ------------------------------
EXTENDS Canvas, TLC

Symmetry == Permutations(Conns)
=============================================================================
