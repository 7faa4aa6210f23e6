----------------------------- MODULE MCFinding -----------------------------
(* Finding with the constants that TLC needs; see the MCFinding_*.cfg files. *)
EXTENDS Finding, TLC

\* No call and no property tells one hash from another.
Symmetry == Permutations(Hashes)
=============================================================================
