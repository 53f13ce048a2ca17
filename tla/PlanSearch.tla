------------------------------- MODULE PlanSearch -------------------------------
(* The GOAP planner (core_graph/goap/planner.py): an A* search over sets of     *)
(* facts for a sequence of operations that reaches the goal facts, then the     *)
(* compilation of the sequence into steps that read the results of earlier      *)
(* steps, and the insertion of a polling step after every operation that only   *)
(* starts a job. Every iteration of the search loop is a step.                  *)
EXTENDS Integers, Sequences, FiniteSets

CONSTANTS
  Facts,         \* the facts "have:..." and "did:..."
  Problems,      \* [actions, world, goal]: the operations, the seed facts and the goal
  MaxSteps,      \* GOAP_MAX_STEPS
  MaxExpansions, \* GOAP_MAX_EXPANSIONS
  Awaited        \* positions in the operations that have a poll specification

VARIABLES
  problem,    \* the problem that is solved
  frontier,   \* the heap: entries of a world, the path to it, f and the tie breaker
  visited,    \* the cheapest known cost of each world that was reached
  counter,    \* the next tie breaker
  expansions, \* entries taken from the heap
  outcome,    \* "searching", "found", "none"; "stamped" once the steps are made
  plan,       \* the operations found, as positions in problem.actions
  steps       \* the compiled plan

vars == <<problem, frontier, visited, counter, expansions, outcome, plan, steps>>

Action == [pre : SUBSET Facts, eff : SUBSET Facts]
Problem == [actions : Seq(Action), world : SUBSET Facts, goal : SUBSET Facts]

ASSUME SearchAssumption ==
  /\ Problems \subseteq Problem
  /\ MaxSteps \in Nat /\ MaxExpansions \in Nat
  /\ Awaited \subseteq Nat

Operations == DOMAIN problem.actions
Pre(a) == problem.actions[a].pre
Eff(a) == problem.actions[a].eff
On(path) == {path[i] : i \in DOMAIN path}

Entry(world, path, tie) ==
  [world |-> world, path |-> path, tie |-> tie,
   f |-> Len(path) + Cardinality(problem.goal \ world)]

Init ==
  /\ problem \in Problems
  /\ expansions = 0 /\ plan = <<>> /\ steps = <<>>
  /\ IF problem.goal \subseteq problem.world
       THEN frontier = {} /\ visited = <<>> /\ counter = 0 /\ outcome = "found"
       ELSE /\ frontier = {Entry(problem.world, <<>>, 0)} /\ counter = 1
            /\ visited = [w \in {problem.world} |-> 0] /\ outcome = "searching"

---------------------------------------------------------------------------------
(* The search *)

\* Mutant: the newest entry is taken, whatever it costs.
BeforeNewest(m, n) == m.tie > n.tie

Before(m, n) == m.f < n.f \/ (m.f = n.f /\ m.tie < n.tie)
Least == {n \in frontier : \A m \in frontier : m = n \/ Before(n, m)}

\* Mutant: one expansion too many.
PopsLate ==
  /\ outcome = "searching" /\ expansions <= MaxExpansions
  /\ expansions' = expansions + 1
  /\ UNCHANGED <<problem, steps>>

\* The loop takes the least entry, unless the budget of expansions is spent.
Pops ==
  /\ outcome = "searching" /\ expansions < MaxExpansions
  /\ expansions' = expansions + 1
  /\ UNCHANGED <<problem, steps>>

AtGoal(n) == problem.goal \subseteq n.world

\* Mutant: one step too few.
TooLongEarly(path) == Len(path) + 1 >= MaxSteps

TooLong(path) == Len(path) >= MaxSteps

ReachesGoal == \E n \in Least :
  /\ Pops /\ AtGoal(n)
  /\ outcome' = "found" /\ plan' = n.path
  /\ frontier' = frontier \ {n}
  /\ UNCHANGED <<visited, counter>>

CutsOff == \E n \in Least :
  /\ Pops /\ ~AtGoal(n) /\ TooLong(n.path)
  /\ frontier' = frontier \ {n}
  /\ UNCHANGED <<visited, counter, outcome, plan>>

Reached(n, a) == n.world \cup Eff(a)

\* Mutant: what the goal asks for counts as known.
ApplicableAssuming(n) ==
  {a \in Operations \ On(n.path) : Pre(a) \subseteq n.world \cup problem.goal}

Applicable(n) == {a \in Operations \ On(n.path) : Pre(a) \subseteq n.world}

KnownAsCheap(world, cost) == world \in DOMAIN visited /\ visited[world] <= cost

\* The operations that lead on from n: each world is entered by the first that reaches it.
Onward(n) ==
  {a \in Applicable(n) : /\ ~KnownAsCheap(Reached(n, a), Len(n.path) + 1)
                         /\ \A b \in Applicable(n) : b < a => Reached(n, b) # Reached(n, a)}

Successors(n) ==
  {Entry(Reached(n, a), Append(n.path, a), counter + Cardinality({b \in Onward(n) : b < a}))
     : a \in Onward(n)}

\* The cheapest known costs once n was expanded.
Visited(n) ==
  LET worlds == {m.world : m \in Successors(n)} IN
  [w \in DOMAIN visited \cup worlds |-> IF w \in worlds THEN Len(n.path) + 1 ELSE visited[w]]

Expands == \E n \in Least :
  /\ Pops /\ ~AtGoal(n) /\ ~TooLong(n.path)
  /\ frontier' = (frontier \ {n}) \cup Successors(n)
  /\ visited' = Visited(n) /\ counter' = counter + Cardinality(Onward(n))
  /\ UNCHANGED <<outcome, plan>>

GivesUp ==
  /\ outcome = "searching" /\ frontier # {} /\ expansions >= MaxExpansions
  /\ outcome' = "none"
  /\ UNCHANGED <<problem, frontier, visited, counter, expansions, plan, steps>>

Exhausted ==
  /\ outcome = "searching" /\ frontier = {}
  /\ outcome' = "none"
  /\ UNCHANGED <<problem, frontier, visited, counter, expansions, plan, steps>>

---------------------------------------------------------------------------------
(* The steps *)

\* The earliest step before i that produces the fact, 0 without one.
Producer(i, fact) ==
  LET makers == {j \in 1..(i - 1) : fact \in Eff(plan[j])}
  IN IF makers = {} THEN 0 ELSE CHOOSE j \in makers : \A k \in makers : j <= k

\* What step i binds: the facts it needs that the seeds do not have, by their producers.
Bindings(i) ==
  {[fact |-> fact, from |-> Producer(i, fact)] : fact \in Pre(plan[i]) \ problem.world}

\* Where step i stands once a poll follows every awaited operation before it.
Shifted(i) == i + Cardinality({j \in 1..(i - 1) : plan[j] \in Awaited})

\* Mutant: a reference is moved by the poll of the operation that it names, too.
CompiledOntoPoll(i) == [op |-> plan[i], wait |-> FALSE,
                        reads |-> {[b EXCEPT !.from = Shifted(@ + 1) - 1] : b \in Bindings(i)}]

\* inject_wait_steps moves the references along; a poll reads the job that was started.
Compiled(i) == [op |-> plan[i], wait |-> FALSE,
                reads |-> {[b EXCEPT !.from = Shifted(@)] : b \in Bindings(i)}]
Poll(i) == [op |-> plan[i], wait |-> TRUE, reads |-> {[fact |-> "job", from |-> Shifted(i)]}]

Stamped ==
  LET long == Len(plan) + Cardinality({j \in DOMAIN plan : plan[j] \in Awaited})
      at(k) == CHOOSE i \in DOMAIN plan : k \in {Shifted(i), Shifted(i) + 1}
                 /\ (k = Shifted(i) \/ plan[i] \in Awaited)
  IN [k \in 1..long |-> IF k = Shifted(at(k)) THEN Compiled(at(k)) ELSE Poll(at(k))]

Stamps ==
  /\ outcome = "found" /\ plan # <<>>
  /\ steps' = Stamped /\ outcome' = "stamped"
  /\ UNCHANGED <<problem, frontier, visited, counter, expansions, plan>>

---------------------------------------------------------------------------------
Next == ReachesGoal \/ CutsOff \/ Expands \/ GivesUp \/ Exhausted \/ Stamps

Spec == Init /\ [][Next]_vars /\ WF_vars(Next)

---------------------------------------------------------------------------------
(* Properties *)

Known(path, i) == problem.world \cup UNION {Eff(path[j]) : j \in 1..(i - 1)}

\* Every operation of the path has what it needs when its turn comes.
Executable(path) == \A i \in DOMAIN path : Pre(path[i]) \subseteq Known(path, i)

Leads(path) == Executable(path) /\ problem.goal \subseteq Known(path, Len(path) + 1)

\* Each state of the search is well formed, with the bounds that goap_max_steps and
\* goap_max_expansions put on the paths and on the expansions.
TypeOK ==
  /\ problem \in Problem
  /\ \A n \in frontier : /\ n.path \in Seq(Operations) /\ Len(n.path) <= MaxSteps
                         /\ n.world \subseteq Facts /\ n.tie \in Nat /\ n.tie < counter
  /\ counter \in Nat /\ expansions \in 0..MaxExpansions
  /\ outcome \in {"searching", "found", "none", "stamped"}
  /\ plan \in Seq(Operations) /\ Len(plan) <= MaxSteps

\* A plan that is returned can be executed from the seed facts and reaches the goal.
SoundPlan == outcome \in {"found", "stamped"} => Leads(plan)

Paths(length) == UNION {[1..n -> Operations] : n \in 0..length}

\* When the search ends without a plan, and not for its budget, there is none of that length.
CompleteSearch ==
  outcome = "none" /\ frontier = {} => \A path \in Paths(MaxSteps) : ~Leads(path)

Bundled == \E a \in Operations : Cardinality(Eff(a) \cap problem.goal) > 1

\* "A minimal sequence": the plan is a shortest one, as long as no operation yields two facts
\* of the goal (then the missing facts overestimate the way that is left).
MinimalPlan ==
  outcome = "found" /\ ~Bundled => \A path \in Paths(Len(plan) - 1) : ~Leads(path)

\* After the polls are inserted every reference still names the step whose operation produces
\* the fact, an earlier one, and every poll comes right after the operation that it awaits.
ReferencesHold ==
  outcome = "stamped" =>
    \A k \in DOMAIN steps : \A b \in steps[k].reads :
      /\ b.from \in 1..(k - 1) /\ ~steps[b.from].wait
      /\ IF steps[k].wait THEN b.from = k - 1 /\ steps[b.from].op = steps[k].op
         ELSE b.fact \in Eff(steps[b.from].op)
=================================================================================
