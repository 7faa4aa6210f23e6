--------------------------- MODULE MCFindingCard ---------------------------
EXTENDS FindingCard, TLC

Symmetric == Permutations(Coins)
=============================================================================
