--------------------------- MODULE MCContributions ---------------------------
EXTENDS Contributions, TLC

CONSTANTS f1, f2, p1, p2

Symmetry == Permutations(Field) \cup Permutations(Page)
=============================================================================
