------------------------------ MODULE MCIngest ------------------------------
EXTENDS Ingest, TLC

Symmetry == Permutations(Docs) \cup Permutations(Versions)
            \cup Permutations(Slots) \cup Permutations(Calls)
=============================================================================
