------------------------------- MODULE MCAuth -------------------------------
EXTENDS Auth, TLC

Symmetry == Permutations(Requests)

============================================================================
