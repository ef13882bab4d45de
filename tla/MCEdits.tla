------------------------------- MODULE MCEdits -------------------------------
EXTENDS Edits, TLC

CONSTANTS x, file, foreign

\* Two sections; the placeholder in two blocks.
Trees == {<< <<{x}, {}>>, <<{x}>> >>}

Symmetry == Permutations(Tabs) \cup Permutations(Names) \cup Permutations(Templates)
=============================================================================
