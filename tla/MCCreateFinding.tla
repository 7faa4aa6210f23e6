--------------------------- MODULE MCCreateFinding ---------------------------
(* CreateFinding with two escrows, one form and money of at most 1. *)
EXTENDS CreateFinding, TLC

Symmetry == Permutations(Escrows) \cup Permutations(Forms)

\* Bound: nothing is looked at beyond a call that unlocks or withdraws from an
\* escrow, or that locks one with another server or deactivates that server.
FewCalls ==
  /\ \A s \in Servers : unlocks[s] = 0
  /\ \A e \in LiveEscrows : withdrawn[e] = 0
  /\ \A s \in LiveServers \ {TheServer} : is_active[s] /\ locked_escrow_count[s] = 0
=============================================================================
