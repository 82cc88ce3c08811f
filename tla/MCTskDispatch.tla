--------------------------- MODULE MCTskDispatch ---------------------------
EXTENDS TskDispatch, TLC

Symmetry == Permutations(Agents) \cup Permutations(Tasks)
=============================================================================
