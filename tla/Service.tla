------------------------------ MODULE Service ------------------------------
(***************************************************************************)
(* What the server promises to those who submit, without connections,      *)
(* enclaves or retries: submissions wait in one line of bounded length and *)
(* are finished in their order, and an outcome is written only for the     *)
(* submission whose turn it is, into a finding that still waits for one.   *)
(* The service may stop for good, and then forgets the line.               *)
(* The worker with its connector is shown to implement this in module      *)
(* Worker.                                                                 *)
(***************************************************************************)
EXTENDS Integers, Sequences

CONSTANTS Findings,
          Capacity   \* submissions that wait while one is worked on

VARIABLES up,       \* does the service run?
          queue,    \* the submissions that are not finished, oldest first
          done,     \* the submissions that are finished, in their order
          outcome   \* outcome[f]: status of finding f on the chain

vars == <<up, queue, done, outcome>>

Outcomes == {"Committed", "Error"}

Init == /\ up = TRUE
        /\ queue = <<>>
        /\ done = <<>>
        /\ outcome = [f \in Findings |-> "none"]

\* The finder makes a finding, and may destroy it.
Make(f) == /\ outcome[f] = "none"
           /\ outcome' = [outcome EXCEPT ![f] = "Draft"]
           /\ UNCHANGED <<up, queue, done>>

Destroy(f) == /\ outcome[f] \in {"Draft"} \cup Outcomes
              /\ outcome' = [outcome EXCEPT ![f] = "destroyed"]
              /\ UNCHANGED <<up, queue, done>>

\* Only a finding that was made is submitted.
Submit(f) == /\ up
             /\ outcome[f] # "none"
             /\ Len(queue) <= Capacity
             /\ queue' = Append(queue, f)
             /\ UNCHANGED <<up, done, outcome>>

\* The first in the line gets an outcome, or none.
Answer == \/ UNCHANGED outcome
          \/ /\ queue # <<>>
             /\ outcome[Head(queue)] = "Draft"
             /\ \E s \in Outcomes : outcome' = [outcome EXCEPT ![Head(queue)] = s]

Finish == /\ queue # <<>>
          /\ Answer
          /\ queue' = Tail(queue)
          /\ done' = Append(done, Head(queue))
          /\ UNCHANGED up

\* The service may stop after it has written an outcome.
Stop == /\ up
        /\ up' = FALSE
        /\ queue' = <<>>
        /\ Answer
        /\ UNCHANGED done

Next == \/ \E f \in Findings : Make(f) \/ Destroy(f) \/ Submit(f)
        \/ Finish
        \/ Stop

Spec == Init /\ [][Next]_vars
=============================================================================
