------------------------------ MODULE MCEscrow ------------------------------
EXTENDS Escrow, TLC

Symmetry == Permutations(Servers) \cup Permutations(Escrows) \cup Permutations(Findings)
=============================================================================
