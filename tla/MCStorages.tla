----------------------------- MODULE MCStorages -----------------------------
EXTENDS Storages, TLC

Symmetry == Permutations(Admins)
=============================================================================
