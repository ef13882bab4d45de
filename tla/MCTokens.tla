------------------------------ MODULE MCTokens ------------------------------
EXTENDS Tokens, TLC

Symmetry == Permutations(Tabs)
=============================================================================
