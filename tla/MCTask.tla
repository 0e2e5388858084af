------------------------------- MODULE MCTask -------------------------------
EXTENDS Task, TLC
Symmetry == Permutations(Task)
=============================================================================
