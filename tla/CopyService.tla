----------------------------- MODULE CopyService -----------------------------
(***************************************************************************)
(* What a user of PageCopyPool relies on: a job handed over runs exactly   *)
(* once, in no promised order, and is never forgotten, whether or not the  *)
(* pool is stopped in between.                                             *)
(***************************************************************************)
CONSTANT Jobs

VARIABLES
  pending,    \* jobs handed over and not yet complete
  finished    \* jobs that ran and whose ready flag is set

Init == pending = {} /\ finished = {}

Submit(J) ==
  /\ J \cap (pending \cup finished) = {}
  /\ pending' = pending \cup J
  /\ UNCHANGED finished

Finish(j) ==
  /\ j \in pending
  /\ pending' = pending \ {j}
  /\ finished' = finished \cup {j}

Next == (\E J \in SUBSET Jobs : Submit(J)) \/ (\E j \in Jobs : Finish(j))

Fairness == \A j \in Jobs : WF_<<pending, finished>>(Finish(j))

\* What no step may break, and with it that every job is finished in the end.
Safety == Init /\ [][Next]_<<pending, finished>>

Spec == Safety /\ Fairness
==============================================================================
