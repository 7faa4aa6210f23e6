---------------------------- MODULE FindingSale ----------------------------
(***************************************************************************)
(* What a finding promises to the two parties who trade over it, without   *)
(* saying how the contract keeps its books: a finding goes through a fixed *)
(* life cycle, its price can be renegotiated only until it is published,   *)
(* and from then on what is still owed only goes down.                     *)
(* finding.move is shown to implement this in module Finding.              *)
(***************************************************************************)
EXTENDS Integers

CONSTANTS Findings, Coins

VARIABLES stage,  \* where each finding is in its life cycle
          debt    \* debt[f][c]: amount of coin c still owed for finding f

vars == <<stage, debt>>

Stages == {"absent", "Draft", "Committed", "Published", "Error", "destroyed"}

\* The stages in which the finder may still change the price or walk away.
Negotiable == {"Draft", "Committed", "Error"}

NoDebt == [c \in Coins |-> 0]

Init == /\ stage = [f \in Findings |-> "absent"]
        /\ debt = [f \in Findings |-> NoDebt]

Move(f, from, to) == /\ stage[f] \in from
                     /\ stage' = [stage EXCEPT ![f] = to]
                     /\ UNCHANGED debt

Open(f) == Move(f, {"absent"}, "Draft")
Report(f) == Move(f, {"Draft"}, "Committed")
Fail(f) == Move(f, {"Draft"}, "Error")
Publish(f) == Move(f, {"Committed"}, "Published")

\* A finding is given up only when nothing is owed for it any more.
GiveUp(f) == debt[f] = NoDebt /\ Move(f, Negotiable, "destroyed")

SetTerms(f, c) == /\ stage[f] \in Negotiable
                  /\ debt'[f][c] \in Nat
                  /\ debt' = [debt EXCEPT ![f][c] = debt'[f][c]]
                  /\ UNCHANGED stage

PayOff(f, c) == /\ stage[f] = "Published"
                /\ debt'[f][c] \in 0 .. (debt[f][c] - 1)
                /\ debt' = [debt EXCEPT ![f][c] = debt'[f][c]]
                /\ UNCHANGED stage

Next == \E f \in Findings :
          \/ Open(f) \/ Report(f) \/ Fail(f) \/ Publish(f) \/ GiveUp(f)
          \/ \E c \in Coins : SetTerms(f, c) \/ PayOff(f, c)

Spec == Init /\ [][Next]_vars
=============================================================================
