-------------------------------- MODULE PlanRun --------------------------------
(* What running a plan promises, whatever retries, replans and parallel groups  *)
(* do below: steps are completed in the order of the plan, except those that    *)
(* are called together, none is skipped or undone, and only a plan whose steps  *)
(* are all completed is reported as done.                                       *)
EXTENDS Naturals, FiniteSets

VARIABLES
  steps,     \* the positions of the plan that is being run, {} without one
  groups,    \* the sets of positions whose calls are made together
  completed, \* the positions whose call has succeeded
  finished   \* the plan was reported as done

vars == <<steps, groups, completed, finished>>

\* Only a step that is called together with i may be open before i when i is completed.
Together(i, j) == \E g \in groups : {i, j} \subseteq g
InOrder(S) == \A i \in S : \A j \in steps \ S : j < i => Together(i, j)

Init == steps = {} /\ groups = {} /\ completed = {} /\ ~finished

\* A plan of which nothing was done yet may still be replaced.
Begin ==
  /\ completed = {} /\ ~finished
  /\ steps' # {} /\ steps' = 1..Cardinality(steps')
  /\ completed' = {} /\ ~finished'

\* A call, or some of a group of parallel calls, succeed; the last ones may finish the plan.
Complete ==
  /\ ~finished /\ steps # {}
  /\ completed \subseteq completed' /\ completed' \subseteq steps
  /\ InOrder(completed')
  /\ finished' => completed' = steps
  /\ UNCHANGED <<steps, groups>>

\* The plan is given up, or replaced after it was run.
Abandon == steps # {} /\ steps' = {} /\ groups' = {} /\ completed' = {} /\ ~finished'

Next == Begin \/ Complete \/ Abandon

Spec == Init /\ [][Next]_vars
================================================================================
