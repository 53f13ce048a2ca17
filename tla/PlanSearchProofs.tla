----------------------------- MODULE PlanSearchProofs -----------------------------
(* What the planner returns, for every set of operations and every budget: the    *)
(* plan can be executed from the seed facts and reaches the goal; its references  *)
(* survive the polls; no plan is missed while the budget of expansions lasts; and *)
(* none is shorter, unless an operation yields two facts of the goal. Each entry  *)
(* of the heap carries the world that its path leads to, and each world that is   *)
(* known is open or has handed on all that follows from it.                       *)
EXTENDS PlanSearch, FiniteSetTheorems, TLAPS

\* An entry's world is what its path makes known, and the path can be executed.
Truthful(world, path) ==
  /\ path \in Seq(Operations) /\ Len(path) <= MaxSteps
  /\ world = Known(path, Len(path) + 1)
  /\ Executable(path)

SearchInv ==
  /\ problem \in Problem
  /\ \A n \in frontier : Truthful(n.world, n.path)
  /\ plan \in Seq(Operations) /\ Len(plan) <= MaxSteps
  /\ outcome \in {"found", "stamped"} => Leads(plan)

\* Taking one operation more leaves what was known before as it was and adds its effects:
\* WorldState.apply is the union.
LEMMA KnownAppend ==
  ASSUME NEW path \in Seq(Operations), NEW a \in Operations
  PROVE  /\ \A i \in 1..(Len(path) + 1) : Known(Append(path, a), i) = Known(path, i)
         /\ Known(Append(path, a), Len(path) + 2) = Known(path, Len(path) + 1) \cup Eff(a)
<1> DEFINE longer == Append(path, a)
<1>1. /\ longer \in Seq(Operations) /\ Len(longer) = Len(path) + 1
      /\ \A i \in 1..Len(path) : longer[i] = path[i]
      /\ longer[Len(path) + 1] = a
  OBVIOUS
<1>2. Len(path) \in Nat
  OBVIOUS
<1>3. ASSUME NEW i \in 1..(Len(path) + 1)
      PROVE  Known(longer, i) = Known(path, i)
  <2>1. \A j \in 1..(i - 1) : longer[j] = path[j]
    BY <1>1, <1>2
  <2>2. {Eff(longer[j]) : j \in 1..(i - 1)} = {Eff(path[j]) : j \in 1..(i - 1)}
    BY <2>1
  <2> QED
    BY <2>2 DEF Known
<1>4. Known(longer, Len(path) + 2) = Known(path, Len(path) + 1) \cup Eff(a)
  <2>1. 1..(Len(path) + 2 - 1) = 1..(Len(path) + 1 - 1) \cup {Len(path) + 1}
    BY <1>2
  <2>2. \A j \in 1..(Len(path) + 1 - 1) : longer[j] = path[j]
    BY <1>1, <1>2
  <2>3. {Eff(longer[j]) : j \in 1..(Len(path) + 2 - 1)}
          = {Eff(path[j]) : j \in 1..(Len(path) + 1 - 1)} \cup {Eff(a)}
    BY <1>1, <2>1, <2>2
  <2> QED
    BY <2>3 DEF Known
<1> QED
  BY <1>3, <1>4

\* The entries that an expansion pushes are truthful when the entry it took is.
LEMMA SuccessorTruthful ==
  ASSUME NEW n, Truthful(n.world, n.path), ~TooLong(n.path), MaxSteps \in Nat,
         NEW a \in Onward(n)
  PROVE  Truthful(Reached(n, a), Append(n.path, a))
<1> DEFINE path == n.path
           longer == Append(path, a)
<1>1. /\ path \in Seq(Operations) /\ Len(path) \in Nat /\ n.world = Known(path, Len(path) + 1)
      /\ Executable(path)
  BY DEF Truthful
<1>2. a \in Operations /\ Pre(a) \subseteq n.world
  BY DEF Onward, Applicable
<1>3. longer \in Seq(Operations) /\ Len(longer) = Len(path) + 1
  BY <1>1, <1>2
<1>4. Len(longer) <= MaxSteps
  BY <1>1, <1>3 DEF TooLong
<1>5. Reached(n, a) = Known(longer, Len(longer) + 1)
  <2>1. Known(longer, Len(path) + 2) = n.world \cup Eff(a)
    BY <1>1, <1>2, KnownAppend
  <2>2. Len(longer) + 1 = Len(path) + 2
    BY <1>1, <1>3
  <2> QED
    BY <2>1, <2>2 DEF Reached
<1>6. Executable(longer)
  <2> SUFFICES ASSUME NEW i \in DOMAIN longer
               PROVE  Pre(longer[i]) \subseteq Known(longer, i)
    BY DEF Executable
  <2>1. i \in 1..(Len(path) + 1)
    BY <1>3
  <2>2. Known(longer, i) = Known(path, i)
    BY <1>1, <1>2, <2>1, KnownAppend
  <2>3. CASE i = Len(path) + 1
    <3>1. longer[i] = a
      BY <1>1, <1>2, <2>3
    <3> QED
      BY <1>1, <1>2, <2>2, <2>3, <3>1
  <2>4. CASE i \in 1..Len(path)
    <3>1. longer[i] = path[i] /\ i \in DOMAIN path
      BY <1>1, <1>2, <2>4
    <3> QED
      BY <1>1, <2>2, <3>1 DEF Executable
  <2> QED
    BY <1>1, <2>1, <2>3, <2>4
<1> QED
  BY <1>3, <1>4, <1>5, <1>6 DEF Truthful

LEMMA SearchInvInit == Init => SearchInv
<1> SUFFICES ASSUME Init PROVE SearchInv
  OBVIOUS
<1>1. problem \in Problem /\ MaxSteps \in Nat
  BY SearchAssumption DEF Init
<1>2. plan = <<>> /\ plan \in Seq(Operations) /\ Len(plan) = 0
  BY DEF Init
<1>3. Known(<<>>, 1) = problem.world /\ Executable(<<>>)
  BY DEF Known, Executable
<1>4. outcome \in {"found", "stamped"} => Leads(plan)
  <2>1. outcome \in {"found", "stamped"} => problem.goal \subseteq problem.world
    BY DEF Init
  <2> QED
    BY <1>2, <1>3, <2>1 DEF Leads
<1>5. ASSUME NEW n \in frontier PROVE Truthful(n.world, n.path)
  <2>1. n = Entry(problem.world, <<>>, 0)
    BY <1>5 DEF Init
  <2>2. n.world = problem.world /\ n.path = <<>>
    BY <2>1 DEF Entry
  <2>3. Len(<<>>) = 0 /\ <<>> \in Seq(Operations)
    OBVIOUS
  <2> QED
    BY <1>1, <1>3, <2>2, <2>3 DEF Truthful
<1> QED
  BY <1>1, <1>2, <1>4, <1>5 DEF SearchInv

\* What the invariant says of a path does not change while the problem stays the same.
LEMMA SameProblem ==
  ASSUME problem' = problem
  PROVE  /\ \A world, path : Truthful(world, path)' <=> Truthful(world, path)
         /\ Operations' = Operations
         /\ \A path : Leads(path)' <=> Leads(path)
BY DEF Truthful, Operations, Leads, Known, Executable, Pre, Eff

LEMMA SearchInvStep == SearchInv /\ [Next]_vars => SearchInv'
<1> SUFFICES ASSUME SearchInv, [Next]_vars PROVE SearchInv'
  OBVIOUS
<1>1. problem' = problem
  BY DEF Next, vars, ReachesGoal, CutsOff, Expands, GivesUp, Exhausted, Stamps, Pops
<1>2. problem' \in Problem
  BY <1>1 DEF SearchInv
<1>3. ASSUME frontier' \subseteq frontier
      PROVE  \A n \in frontier' : Truthful(n.world, n.path)'
  BY <1>1, <1>3, SameProblem DEF SearchInv
<1>4. ASSUME plan' = plan, outcome' \in {"found", "stamped"} => outcome \in {"found", "stamped"}
      PROVE  /\ (plan \in Seq(Operations) /\ Len(plan) <= MaxSteps)'
             /\ (outcome \in {"found", "stamped"} => Leads(plan))'
  <2>1. (plan \in Seq(Operations) /\ Len(plan) <= MaxSteps)'
    BY <1>1, <1>4 DEF SearchInv, Operations
  <2>2. ASSUME Leads(plan) PROVE Leads(plan)'
    BY <1>1, <1>4, <2>2 DEF Leads, Known, Executable, Pre, Eff
  <2> QED
    BY <1>4, <2>1, <2>2 DEF SearchInv
<1>5. CASE ReachesGoal
  <2>1. PICK n \in Least : /\ AtGoal(n) /\ outcome' = "found" /\ plan' = n.path
                          /\ frontier' = frontier \ {n}
    BY <1>5 DEF ReachesGoal
  <2>2. Truthful(n.world, n.path)
    BY <2>1 DEF Least, SearchInv
  <2>3. Leads(n.path)
    BY <2>1, <2>2 DEF Leads, Truthful, AtGoal
  <2>4. (plan \in Seq(Operations) /\ Len(plan) <= MaxSteps)'
    BY <1>1, <2>1, <2>2 DEF Truthful, Operations
  <2>5. Leads(plan)'
    BY <1>1, <2>1, <2>3 DEF Leads, Known, Executable, Pre, Eff
  <2> QED
    BY <1>2, <1>3, <2>1, <2>4, <2>5 DEF SearchInv
<1>6. CASE CutsOff
  <2>1. frontier' \subseteq frontier /\ plan' = plan /\ outcome' = outcome
    BY <1>6 DEF CutsOff
  <2> QED
    BY <1>2, <1>3, <1>4, <2>1 DEF SearchInv
<1>7. CASE Expands
  <2>1. PICK n \in Least : /\ ~TooLong(n.path) /\ UNCHANGED <<outcome, plan>>
                          /\ frontier' = (frontier \ {n}) \cup Successors(n)
    BY <1>7 DEF Expands
  <2>2. Truthful(n.world, n.path)
    BY <2>1 DEF Least, SearchInv
  <2>3. ASSUME NEW m \in frontier' PROVE Truthful(m.world, m.path)'
    <3>1. CASE m \in frontier
      BY <1>1, <3>1, SameProblem DEF SearchInv
    <3>2. CASE m \in Successors(n)
      <4>1. PICK a \in Onward(n) :
              m = Entry(Reached(n, a), Append(n.path, a),
                        counter + Cardinality({b \in Onward(n) : b < a}))
        BY <3>2 DEF Successors
      <4>2. m.world = Reached(n, a) /\ m.path = Append(n.path, a)
        BY <4>1 DEF Entry
      <4>3. Truthful(m.world, m.path)
        BY <2>1, <2>2, <4>2, SuccessorTruthful, SearchAssumption
      <4> QED
        BY <1>1, <4>3, SameProblem
    <3> QED
      BY <2>1, <2>3, <3>1, <3>2
  <2> QED
    BY <1>2, <1>4, <2>1, <2>3 DEF SearchInv
<1>8. CASE GivesUp \/ Exhausted
  <2>1. frontier' = frontier /\ plan' = plan /\ outcome' = "none"
    BY <1>8 DEF GivesUp, Exhausted
  <2> QED
    BY <1>2, <1>3, <1>4, <2>1 DEF SearchInv
<1>9. CASE Stamps
  <2>1. frontier' = frontier /\ plan' = plan /\ outcome = "found"
    BY <1>9 DEF Stamps
  <2> QED
    BY <1>2, <1>3, <1>4, <2>1 DEF SearchInv
<1>10. CASE UNCHANGED vars
  <2>1. frontier' = frontier /\ plan' = plan /\ outcome' = outcome
    BY <1>10 DEF vars
  <2> QED
    BY <1>2, <1>3, <1>4, <2>1 DEF SearchInv
<1> QED
  BY <1>5, <1>6, <1>7, <1>8, <1>9, <1>10 DEF Next

\* A plan that is returned can be executed from the seed facts and reaches the goal: the
\* planner never hands over a chain whose later step lacks what it needs.
THEOREM PlansAreSound == Spec => []SoundPlan
<1>1. SearchInv => SoundPlan
  BY DEF SearchInv, SoundPlan
<1> QED
  BY SearchInvInit, SearchInvStep, <1>1, PTL DEF Spec

\* No plan is longer than goap_max_steps, and each of its steps is an operation that was
\* offered.
THEOREM PlansAreBounded == Spec => [](plan \in Seq(Operations) /\ Len(plan) <= MaxSteps)
<1>1. SearchInv => plan \in Seq(Operations) /\ Len(plan) <= MaxSteps
  BY DEF SearchInv
<1> QED
  BY SearchInvInit, SearchInvStep, <1>1, PTL DEF Spec

---------------------------------------------------------------------------------
(* Types and bounds *)

\* The tie breakers an expansion hands out are new and below the next one.
LEMMA TiesBelow ==
  ASSUME problem \in Problem, NEW n
  PROVE  /\ Cardinality(Onward(n)) \in Nat
         /\ \A a \in Onward(n) : /\ Cardinality({b \in Onward(n) : b < a}) \in Nat
                                 /\ Cardinality({b \in Onward(n) : b < a})
                                      < Cardinality(Onward(n))
<1>1. Len(problem.actions) \in Nat /\ Operations = 1..Len(problem.actions)
  BY DEF Problem, Operations
<1>2. IsFiniteSet(Operations)
  BY <1>1, FS_Interval
<1>3. Onward(n) \in SUBSET Operations
  BY DEF Onward, Applicable
<1>4. IsFiniteSet(Onward(n)) /\ Cardinality(Onward(n)) \in Nat
  BY <1>2, <1>3, FS_Subset, FS_CardinalityType
<1>5. ASSUME NEW a \in Onward(n)
      PROVE  /\ Cardinality({b \in Onward(n) : b < a}) \in Nat
             /\ Cardinality({b \in Onward(n) : b < a}) < Cardinality(Onward(n))
  <2> DEFINE before == {b \in Onward(n) : b < a}
  <2>1. before \in SUBSET Onward(n) /\ before # Onward(n)
    BY <1>1, <1>3
  <2>2. IsFiniteSet(before) /\ Cardinality(before) <= Cardinality(Onward(n))
    BY <1>4, <2>1, FS_Subset
  <2>3. Cardinality(before) \in Nat
    BY <2>2, FS_CardinalityType
  <2>4. Cardinality(before) # Cardinality(Onward(n))
    BY <1>4, <2>1, FS_Subset
  <2> HIDE DEF before
  <2>5. Cardinality(before) < Cardinality(Onward(n))
    BY <1>4, <2>2, <2>3, <2>4
  <2> QED
    BY <2>3, <2>5 DEF before
<1> QED
  BY <1>4, <1>5

\* What a path makes known are facts.
LEMMA KnownFacts ==
  ASSUME problem \in Problem, NEW path \in Seq(Operations)
  PROVE  Known(path, Len(path) + 1) \subseteq Facts
<1>1. problem.world \subseteq Facts /\ problem.actions \in Seq(Action)
  BY DEF Problem
<1>2. ASSUME NEW a \in Operations PROVE Eff(a) \subseteq Facts
  <2>1. problem.actions[a] \in Action
    BY <1>1 DEF Operations
  <2> QED
    BY <2>1 DEF Eff, Action
<1>3. Len(path) \in Nat /\ \A j \in 1..Len(path) : path[j] \in Operations
  OBVIOUS
<1>4. \A j \in 1..(Len(path) + 1 - 1) : Eff(path[j]) \subseteq Facts
  BY <1>2, <1>3
<1> QED
  BY <1>1, <1>4 DEF Known

TypesInv ==
  /\ counter \in Nat /\ expansions \in 0..MaxExpansions
  /\ outcome \in {"searching", "found", "none", "stamped"}
  /\ \A n \in frontier : n.tie \in Nat /\ n.tie < counter

LEMMA TypesInvInit == Init => TypesInv
<1> SUFFICES ASSUME Init PROVE TypesInv
  OBVIOUS
<1>1. MaxExpansions \in Nat
  BY SearchAssumption
<1>2. \A n \in frontier : n.tie = 0 /\ counter = 1
  BY DEF Init, Entry
<1> QED
  BY <1>1, <1>2 DEF Init, TypesInv

LEMMA TypesInvStep == SearchInv /\ TypesInv /\ [Next]_vars => TypesInv'
<1> SUFFICES ASSUME SearchInv, TypesInv, [Next]_vars PROVE TypesInv'
  OBVIOUS
<1>1. MaxExpansions \in Nat /\ problem \in Problem
  BY SearchAssumption DEF SearchInv
<1>2. ASSUME Pops PROVE expansions' \in 0..MaxExpansions
  BY <1>1, <1>2 DEF Pops, TypesInv
<1>3. CASE ReachesGoal \/ CutsOff
  BY <1>2, <1>3 DEF ReachesGoal, CutsOff, TypesInv
<1>4. CASE Expands
  <2>1. PICK n \in Least : /\ frontier' = (frontier \ {n}) \cup Successors(n)
                          /\ counter' = counter + Cardinality(Onward(n))
                          /\ outcome' = outcome /\ Pops
    BY <1>4 DEF Expands
  <2>2. Cardinality(Onward(n)) \in Nat
    BY <1>1, TiesBelow
  <2>3. counter' \in Nat /\ counter <= counter'
    BY <2>1, <2>2 DEF TypesInv
  <2>4. ASSUME NEW m \in Successors(n) PROVE m.tie \in Nat /\ m.tie < counter'
    <3>1. PICK a \in Onward(n) :
            m = Entry(Reached(n, a), Append(n.path, a),
                      counter + Cardinality({b \in Onward(n) : b < a}))
      BY <2>4 DEF Successors
    <3>2. m.tie = counter + Cardinality({b \in Onward(n) : b < a})
      BY <3>1 DEF Entry
    <3>3. /\ Cardinality({b \in Onward(n) : b < a}) \in Nat
          /\ Cardinality({b \in Onward(n) : b < a}) < Cardinality(Onward(n))
      BY <1>1, TiesBelow
    <3> QED
      BY <2>1, <2>2, <3>2, <3>3 DEF TypesInv
  <2>5. ASSUME NEW m \in frontier PROVE m.tie \in Nat /\ m.tie < counter'
    BY <2>3 DEF TypesInv
  <2> QED
    BY <1>2, <2>1, <2>3, <2>4, <2>5 DEF TypesInv
<1>5. CASE GivesUp \/ Exhausted \/ Stamps \/ UNCHANGED vars
  BY <1>5 DEF GivesUp, Exhausted, Stamps, vars, TypesInv
<1> QED
  BY <1>3, <1>4, <1>5 DEF Next

\* Whatever operations and budgets, the search keeps its bounds: no entry's path passes
\* goap_max_steps, no more than goap_max_expansions entries are taken, and the tie breakers in
\* the heap are those already handed out.
THEOREM SearchTyped == Spec => []TypeOK
<1>1. SearchInv /\ TypesInv => TypeOK
  <2> SUFFICES ASSUME SearchInv, TypesInv PROVE TypeOK
    OBVIOUS
  <2>1. ASSUME NEW n \in frontier
        PROVE  /\ n.path \in Seq(Operations) /\ Len(n.path) <= MaxSteps
               /\ n.world \subseteq Facts
    BY KnownFacts DEF SearchInv, Truthful
  <2> QED
    BY <2>1 DEF SearchInv, TypesInv, TypeOK
<1> QED
  BY SearchInvInit, SearchInvStep, TypesInvInit, TypesInvStep, <1>1, PTL DEF Spec

---------------------------------------------------------------------------------
(* Where the steps end up once the polls are inserted *)

\* A set of numbers has a least member.
LEMMA LeastNumber ==
  ASSUME NEW S \in SUBSET Nat, S # {}
  PROVE  \E i \in S : \A j \in S : i <= j
<1>1. PICK i \in S : \A j \in S : ~(<<j, i>> \in OpToRel(<, Nat))
  BY NatLessThanWellFounded, WFMin
<1>2. \A j \in S : <<j, i>> \in OpToRel(<, Nat) <=> j < i
  BY DEF OpToRel
<1>3. \A j \in S : i <= j
  <2> SUFFICES ASSUME NEW j \in S PROVE ~(j < i)
    OBVIOUS
  <2> QED
    BY <1>1, <1>2, Zenon
<1> QED
  BY <1>3

\* The operations before i that a poll follows.
Polled(i) == {j \in 1..(i - 1) : plan[j] \in Awaited}

LEMMA PolledFinite ==
  ASSUME NEW i \in Nat \ {0}
  PROVE  /\ IsFiniteSet(Polled(i)) /\ Cardinality(Polled(i)) \in Nat
         /\ Shifted(i) = i + Cardinality(Polled(i)) /\ Shifted(i) \in Nat \ {0}
<1>1. IsFiniteSet(1..(i - 1))
  BY FS_Interval
<1>2. IsFiniteSet(Polled(i)) /\ Cardinality(Polled(i)) \in Nat
  BY <1>1, FS_Subset, FS_CardinalityType DEF Polled
<1>3. Shifted(i) = i + Cardinality(Polled(i))
  BY DEF Shifted, Polled
<1> QED
  BY <1>2, <1>3

\* The step behind an operation stands one place on, two if the operation is polled.
LEMMA ShiftedNext ==
  ASSUME NEW i \in Nat \ {0}
  PROVE  /\ plan[i] \in Awaited => Shifted(i + 1) = Shifted(i) + 2
         /\ plan[i] \notin Awaited => Shifted(i + 1) = Shifted(i) + 1
<1>1. i + 1 \in Nat \ {0} /\ i \notin Polled(i)
  BY DEF Polled
<1>2. plan[i] \in Awaited => Polled(i + 1) = Polled(i) \cup {i}
  BY DEF Polled
<1>3. plan[i] \notin Awaited => Polled(i + 1) = Polled(i)
  BY DEF Polled
<1>4. Cardinality(Polled(i) \cup {i}) = Cardinality(Polled(i)) + 1
  BY <1>1, PolledFinite, FS_AddElement
<1>5. Shifted(i) = i + Cardinality(Polled(i)) /\ Cardinality(Polled(i)) \in Nat
  BY PolledFinite
<1>6. Shifted(i + 1) = i + 1 + Cardinality(Polled(i + 1))
  BY <1>1, PolledFinite
<1>7. CASE plan[i] \in Awaited
  <2>1. Cardinality(Polled(i + 1)) = Cardinality(Polled(i)) + 1
    BY <1>2, <1>4, <1>7, Zenon
  <2> QED
    BY <1>5, <1>6, <1>7, <2>1
<1>8. CASE plan[i] \notin Awaited
  <2>1. Cardinality(Polled(i + 1)) = Cardinality(Polled(i))
    BY <1>3, <1>8, Zenon
  <2> QED
    BY <1>5, <1>6, <1>8, <2>1
<1> QED
  BY <1>7, <1>8

LEMMA ShiftedGrows ==
  ASSUME NEW i \in Nat \ {0}, NEW j \in Nat \ {0}, i <= j
  PROVE  Shifted(i) <= Shifted(j)
<1>1. Polled(i) \in SUBSET Polled(j)
  BY DEF Polled
<1>2. /\ Shifted(i) = i + Cardinality(Polled(i)) /\ Cardinality(Polled(i)) \in Nat
      /\ Shifted(j) = j + Cardinality(Polled(j)) /\ Cardinality(Polled(j)) \in Nat
      /\ IsFiniteSet(Polled(j))
  BY PolledFinite
<1>3. Cardinality(Polled(i)) <= Cardinality(Polled(j))
  BY <1>1, <1>2, FS_Subset
<1> QED
  BY <1>2, <1>3

\* Where operation i stands, or its poll.
PlaceOf(i, k) == k \in {Shifted(i), Shifted(i) + 1} /\ (k = Shifted(i) \/ plan[i] \in Awaited)

\* No place belongs to two operations.
LEMMA OneOperation ==
  ASSUME NEW i \in Nat \ {0}, NEW j \in Nat \ {0}, NEW k, PlaceOf(i, k), PlaceOf(j, k)
  PROVE  i = j
<1>1. ASSUME NEW m \in Nat \ {0}, NEW n \in Nat \ {0}, m < n, PlaceOf(m, k), PlaceOf(n, k)
      PROVE  FALSE
  <2>1. m + 1 \in Nat \ {0} /\ m + 1 <= n
    BY <1>1
  <2>2. Shifted(m + 1) <= Shifted(n)
    BY <2>1, ShiftedGrows
  <2>3. Shifted(m) \in Nat /\ Shifted(n) \in Nat /\ Shifted(m + 1) \in Nat
    BY <2>1, PolledFinite
  <2>4. /\ plan[m] \in Awaited => Shifted(m + 1) = Shifted(m) + 2
        /\ plan[m] \notin Awaited => Shifted(m + 1) = Shifted(m) + 1
    BY ShiftedNext
  <2>5. k \in Nat /\ k < Shifted(m + 1)
    BY <1>1, <2>3, <2>4 DEF PlaceOf
  <2>6. Shifted(n) <= k
    BY <1>1, <2>3 DEF PlaceOf
  <2> QED
    BY <2>2, <2>3, <2>5, <2>6
<1> QED
  BY <1>1

Length == Len(plan) + Cardinality({j \in DOMAIN plan : plan[j] \in Awaited})

\* The places of the finished plan end where one more operation would stand.
LEMMA LengthIsNext ==
  ASSUME plan \in Seq(Operations)
  PROVE  Length + 1 = Shifted(Len(plan) + 1) /\ Length \in Nat
<1>1. Len(plan) \in Nat /\ Len(plan) + 1 \in Nat \ {0}
      /\ DOMAIN plan = 1..(Len(plan) + 1 - 1)
  OBVIOUS
<1>2. {j \in DOMAIN plan : plan[j] \in Awaited} = Polled(Len(plan) + 1)
  BY <1>1 DEF Polled
<1>3. /\ Shifted(Len(plan) + 1) = Len(plan) + 1 + Cardinality(Polled(Len(plan) + 1))
      /\ Cardinality(Polled(Len(plan) + 1)) \in Nat
  BY <1>1, PolledFinite
<1>4. Length = Len(plan) + Cardinality(Polled(Len(plan) + 1))
  BY <1>2, Zenon DEF Length
<1> QED
  BY <1>1, <1>3, <1>4

\* Every place is that of an operation or of its poll.
LEMMA EveryPlaceTaken ==
  ASSUME plan \in Seq(Operations), NEW k \in 1..Length
  PROVE  \E i \in DOMAIN plan : PlaceOf(i, k)
<1> DEFINE N == Len(plan)
           Beyond == {i \in 1..(N + 1) : k < Shifted(i)}
<1>1. N \in Nat /\ DOMAIN plan = 1..N /\ k \in Nat \ {0} /\ k <= Length /\ Length \in Nat
  BY LengthIsNext
<1>2. N + 1 \in Beyond
  BY <1>1, LengthIsNext
<1>3. PICK m \in Beyond : \A j \in Beyond : m <= j
  <2> HIDE DEF N
  <2>1. Beyond \in SUBSET Nat /\ Beyond # {}
    BY <1>1, <1>2
  <2> QED
    BY <2>1, LeastNumber
<1>4. Shifted(1) = 1
  <2>1. Polled(1) = {}
    BY DEF Polled
  <2>2. Cardinality(Polled(1)) = 0
    BY <2>1, FS_EmptySet, Zenon
  <2>3. 1 \in Nat \ {0}
    OBVIOUS
  <2>4. Shifted(1) = 1 + Cardinality(Polled(1))
    BY <2>3, PolledFinite
  <2> QED
    BY <2>2, <2>4
<1>5. m # 1 /\ m \in 1..(N + 1) /\ k < Shifted(m)
  BY <1>1, <1>3, <1>4
<1> DEFINE i == m - 1
<1>6. i \in 1..N /\ i + 1 = m /\ i \notin Beyond
  BY <1>1, <1>3, <1>5
<1> HIDE DEF i
<1>7. i \in Nat \ {0} /\ i \in 1..(N + 1)
  BY <1>1, <1>6
<1>8. Shifted(i) \in Nat /\ Shifted(i) <= k
  BY <1>1, <1>6, <1>7, PolledFinite
<1>9. /\ plan[i] \in Awaited => Shifted(i + 1) = Shifted(i) + 2
      /\ plan[i] \notin Awaited => Shifted(i + 1) = Shifted(i) + 1
  BY <1>7, ShiftedNext
<1>10. k < Shifted(i + 1)
  BY <1>5, <1>6
<1>11. PlaceOf(i, k)
  BY <1>1, <1>8, <1>9, <1>10 DEF PlaceOf
<1> QED
  BY <1>1, <1>6, <1>11

\* The steps of the finished plan: each operation at its shifted place, and its poll behind it.
LEMMA StampedSteps ==
  ASSUME plan \in Seq(Operations)
  PROVE  /\ DOMAIN Stamped = 1..Length
         /\ \A i \in DOMAIN plan : Shifted(i) \in 1..Length /\ Stamped[Shifted(i)] = Compiled(i)
         /\ \A k \in 1..Length : \E i \in DOMAIN plan :
              \/ k = Shifted(i) /\ Stamped[k] = Compiled(i)
              \/ k = Shifted(i) + 1 /\ Stamped[k] = Poll(i)
<1> DEFINE at(k) == CHOOSE i \in DOMAIN plan : k \in {Shifted(i), Shifted(i) + 1}
                      /\ (k = Shifted(i) \/ plan[i] \in Awaited)
<1>1. Stamped = [k \in 1..Length |->
                   IF k = Shifted(at(k)) THEN Compiled(at(k)) ELSE Poll(at(k))]
  BY DEF Stamped, Length
<1>2. ASSUME NEW k \in 1..Length
      PROVE  at(k) \in DOMAIN plan /\ PlaceOf(at(k), k)
  <2>1. \E i \in DOMAIN plan : k \in {Shifted(i), Shifted(i) + 1}
                                /\ (k = Shifted(i) \/ plan[i] \in Awaited)
    BY EveryPlaceTaken DEF PlaceOf
  <2> QED
    BY <2>1 DEF PlaceOf
<1>3. Len(plan) \in Nat /\ DOMAIN plan = 1..Len(plan)
  OBVIOUS
<1> HIDE DEF at
<1>4. DOMAIN Stamped = 1..Length
  BY <1>1
<1>5. ASSUME NEW i \in DOMAIN plan
      PROVE  Shifted(i) \in 1..Length /\ Stamped[Shifted(i)] = Compiled(i)
  <2>1. i \in Nat \ {0} /\ i + 1 \in Nat \ {0} /\ i + 1 <= Len(plan) + 1
        /\ Len(plan) + 1 \in Nat \ {0}
    BY <1>3
  <2>2. Shifted(i) \in Nat \ {0} /\ Shifted(i) < Shifted(i + 1)
    <3>1. Shifted(i) \in Nat \ {0}
      BY <2>1, PolledFinite
    <3>2. Shifted(i + 1) = Shifted(i) + 2 \/ Shifted(i + 1) = Shifted(i) + 1
      BY <2>1, ShiftedNext
    <3> QED
      BY <3>1, <3>2
  <2>3. Shifted(i + 1) <= Length + 1 /\ Shifted(i + 1) \in Nat /\ Length \in Nat
    BY <2>1, ShiftedGrows, LengthIsNext, PolledFinite
  <2>4. Shifted(i) \in 1..Length
    BY <2>2, <2>3
  <2>5. at(Shifted(i)) = i
    <3>1. at(Shifted(i)) \in Nat \ {0} /\ PlaceOf(at(Shifted(i)), Shifted(i))
      BY <1>2, <1>3, <2>4
    <3>2. PlaceOf(i, Shifted(i))
      BY DEF PlaceOf
    <3> QED
      BY <2>1, <3>1, <3>2, OneOperation
  <2> QED
    BY <1>1, <2>4, <2>5
<1>6. ASSUME NEW k \in 1..Length
      PROVE  \E i \in DOMAIN plan : \/ k = Shifted(i) /\ Stamped[k] = Compiled(i)
                                    \/ k = Shifted(i) + 1 /\ Stamped[k] = Poll(i)
  BY <1>1, <1>2 DEF PlaceOf
<1> QED
  BY <1>4, <1>5, <1>6

\* What an executable plan needs and was not given comes from an earlier operation.
LEMMA ProducerEarlier ==
  ASSUME plan \in Seq(Operations), Executable(plan),
         NEW i \in DOMAIN plan, NEW fact \in Pre(plan[i]) \ problem.world
  PROVE  Producer(i, fact) \in 1..(i - 1) /\ fact \in Eff(plan[Producer(i, fact)])
<1> DEFINE makers == {j \in 1..(i - 1) : fact \in Eff(plan[j])}
<1>1. fact \in Known(plan, i)
  BY DEF Executable
<1>2. makers # {} /\ makers \in SUBSET Nat
  BY <1>1 DEF Known
<1>3. \E j \in makers : \A k \in makers : j <= k
  BY <1>2, LeastNumber
<1>4. Producer(i, fact) = CHOOSE j \in makers : \A k \in makers : j <= k
  BY <1>2 DEF Producer
<1>5. Producer(i, fact) \in makers
  BY <1>3, <1>4
<1> QED
  BY <1>5

\* The references of the stamped plan.
LEMMA StampedReferences ==
  ASSUME plan \in Seq(Operations), Executable(plan), steps = Stamped,
         NEW k \in DOMAIN steps, NEW b \in steps[k].reads
  PROVE  /\ b.from \in 1..(k - 1) /\ ~steps[b.from].wait
         /\ IF steps[k].wait THEN b.from = k - 1 /\ steps[b.from].op = steps[k].op
            ELSE b.fact \in Eff(steps[b.from].op)
<1>1. k \in 1..Length /\ Length \in Nat
  BY StampedSteps, LengthIsNext
<1>2. PICK i \in DOMAIN plan : \/ k = Shifted(i) /\ steps[k] = Compiled(i)
                               \/ k = Shifted(i) + 1 /\ steps[k] = Poll(i)
  BY <1>1, StampedSteps
<1>3. i \in Nat \ {0} /\ Shifted(i) \in Nat \ {0} /\ steps[Shifted(i)] = Compiled(i)
  <2>1. i \in Nat \ {0}
    OBVIOUS
  <2> QED
    BY <2>1, StampedSteps, PolledFinite
<1>4. CASE k = Shifted(i) + 1 /\ steps[k] = Poll(i)
  <2>1. b.from = Shifted(i) /\ steps[k].wait /\ steps[k].op = plan[i]
    BY <1>4 DEF Poll
  <2>2. ~steps[Shifted(i)].wait /\ steps[Shifted(i)].op = plan[i]
    BY <1>3 DEF Compiled
  <2> QED
    BY <1>3, <1>4, <2>1, <2>2
<1>5. CASE k = Shifted(i) /\ steps[k] = Compiled(i)
  <2>1. PICK fact \in Pre(plan[i]) \ problem.world :
          b = [[fact |-> fact, from |-> Producer(i, fact)]
                 EXCEPT !.from = Shifted(Producer(i, fact))]
    BY <1>5 DEF Compiled, Bindings
  <2> DEFINE j == Producer(i, fact)
  <2>2. j \in 1..(i - 1) /\ fact \in Eff(plan[j])
    BY ProducerEarlier
  <2>3. b.from = Shifted(j) /\ b.fact = fact
    BY <2>1
  <2>4. j \in Nat \ {0} /\ j \in DOMAIN plan /\ j + 1 \in Nat \ {0} /\ j + 1 <= i
    BY <1>3, <2>2
  <2> HIDE DEF j
  <2>5. Shifted(j) \in Nat \ {0} /\ steps[Shifted(j)] = Compiled(j)
    BY <2>4, StampedSteps, PolledFinite
  <2>6. Shifted(j) < Shifted(j + 1) /\ Shifted(j + 1) <= Shifted(i)
        /\ Shifted(j + 1) \in Nat
    <3>1. Shifted(j + 1) <= Shifted(i) /\ Shifted(j + 1) \in Nat
      BY <1>3, <2>4, ShiftedGrows, PolledFinite
    <3>2. Shifted(j + 1) = Shifted(j) + 2 \/ Shifted(j + 1) = Shifted(j) + 1
      BY <2>4, ShiftedNext
    <3> QED
      BY <2>5, <3>1, <3>2
  <2>7. b.from \in 1..(k - 1)
    BY <1>3, <1>5, <2>3, <2>5, <2>6
  <2>8. ~steps[k].wait
    BY <1>5 DEF Compiled
  <2>9. ~steps[b.from].wait /\ steps[b.from].op = plan[j]
    BY <2>3, <2>5 DEF Compiled
  <2> QED
    BY <2>2, <2>3, <2>7, <2>8, <2>9 DEF j
<1> QED
  BY <1>2, <1>4, <1>5

StampInv == outcome = "stamped" => steps = Stamped

LEMMA StampInvStep == StampInv /\ [Next]_vars => StampInv'
<1> SUFFICES ASSUME StampInv, [Next]_vars, outcome' = "stamped" PROVE steps' = Stamped'
  BY DEF StampInv
<1>1. \/ steps' = Stamped /\ UNCHANGED <<problem, plan>>
      \/ outcome = "stamped" /\ UNCHANGED <<problem, plan, steps>>
  BY DEF Next, vars, ReachesGoal, CutsOff, Expands, GivesUp, Exhausted, Stamps, Pops
<1>2. UNCHANGED <<problem, plan>> => Stamped' = Stamped
  BY DEF Stamped, Compiled, Poll, Bindings, Producer, Shifted, Pre, Eff
<1> QED
  BY <1>1, <1>2 DEF StampInv

\* inject_wait_steps and _compile_steps fit together for every plan that is found: whatever polls
\* are inserted, a reference names an earlier step whose operation yields the fact, and a poll
\* follows the operation it awaits.
THEOREM ReferencesAreKept == Spec => []ReferencesHold
<1>1. SearchInv /\ StampInv => ReferencesHold
  <2> SUFFICES ASSUME SearchInv, StampInv, outcome = "stamped",
                      NEW k \in DOMAIN steps, NEW b \in steps[k].reads
               PROVE  /\ b.from \in 1..(k - 1) /\ ~steps[b.from].wait
                      /\ IF steps[k].wait
                           THEN b.from = k - 1 /\ steps[b.from].op = steps[k].op
                           ELSE b.fact \in Eff(steps[b.from].op)
    BY DEF ReferencesHold
  <2>1. plan \in Seq(Operations) /\ Executable(plan) /\ steps = Stamped
    BY DEF SearchInv, StampInv, Leads
  <2> QED
    BY <2>1, StampedReferences
<1>2. Init => StampInv
  BY DEF Init, StampInv
<1> QED
  BY SearchInvInit, SearchInvStep, StampInvStep, <1>1, <1>2, PTL DEF Spec

---------------------------------------------------------------------------------
(* What the search has left to do: every world it knows is open, with an entry of  *)
(* its cheapest cost in the heap, or closed, with all that follows from it known   *)

Open(w) == \E n \in frontier : n.world = w /\ Len(n.path) = visited[w]

KnownWithin(w, cost) == w \in DOMAIN visited /\ visited[w] <= cost

Closed(w) ==
  /\ ~(problem.goal \subseteq w)
  /\ visited[w] < MaxSteps =>
       \A a \in Operations : Pre(a) \subseteq w => KnownWithin(w \cup Eff(a), visited[w] + 1)

Searched ==
  /\ \A w \in DOMAIN visited : visited[w] \in Nat /\ (Open(w) \/ Closed(w))
  /\ KnownWithin(problem.world, 0)
  /\ \A n \in frontier : /\ KnownWithin(n.world, Len(n.path))
                         /\ n.f = Len(n.path) + Cardinality(problem.goal \ n.world)

\* While it runs, and when it has given up.
CoverInv == outcome \in {"searching", "none"} => Searched

LEMMA CoverInit == Init => CoverInv
<1> SUFFICES ASSUME Init, outcome = "searching" PROVE Searched
  BY DEF Init, CoverInv
<1>1. /\ frontier = {Entry(problem.world, <<>>, 0)}
      /\ visited = [w \in {problem.world} |-> 0]
  BY DEF Init
<1>2. /\ Entry(problem.world, <<>>, 0).world = problem.world
      /\ Entry(problem.world, <<>>, 0).path = <<>>
      /\ Entry(problem.world, <<>>, 0).f
           = Len(<<>>) + Cardinality(problem.goal \ problem.world)
  BY DEF Entry
<1>3. Len(<<>>) = 0 /\ DOMAIN visited = {problem.world} /\ visited[problem.world] = 0
  BY <1>1
<1>4. Open(problem.world)
  BY <1>1, <1>2, <1>3 DEF Open
<1>5. KnownWithin(problem.world, 0)
  BY <1>3 DEF KnownWithin
<1>6. \A n \in frontier : /\ KnownWithin(n.world, Len(n.path))
                         /\ n.f = Len(n.path) + Cardinality(problem.goal \ n.world)
  BY <1>1, <1>2, <1>3, <1>5
<1>7. \A w \in DOMAIN visited : visited[w] \in Nat /\ Open(w)
  BY <1>3, <1>4
<1> QED
  BY <1>5, <1>6, <1>7 DEF Searched

\* What an entry knows already its operations do not add to.
LEMMA PathSpent ==
  ASSUME NEW n, Truthful(n.world, n.path), NEW a \in On(n.path)
  PROVE  Reached(n, a) = n.world
<1>1. PICK i \in DOMAIN n.path : n.path[i] = a
  BY DEF On
<1>2. n.path \in Seq(Operations) /\ Len(n.path) \in Nat
      /\ n.world = Known(n.path, Len(n.path) + 1)
  BY DEF Truthful
<1>3. i \in 1..(Len(n.path) + 1 - 1)
  BY <1>2
<1>4. Eff(a) \subseteq n.world
  BY <1>1, <1>2, <1>3 DEF Known
<1> QED
  BY <1>4 DEF Reached

\* The expansion of n enters every world that an operation leads to, unless it is known to be
\* as cheap already: by the first of the operations that reach it.
LEMMA ReachedIsKnown ==
  ASSUME problem \in Problem, NEW n, Truthful(n.world, n.path), Len(n.path) < MaxSteps,
         KnownWithin(n.world, Len(n.path)), visited[n.world] \in Nat,
         NEW a \in Operations, Pre(a) \subseteq n.world
  PROVE  \/ KnownAsCheap(Reached(n, a), Len(n.path) + 1)
         \/ \E b \in Onward(n) : Reached(n, b) = Reached(n, a)
<1>0. Len(n.path) \in Nat
  BY DEF Truthful
<1>1. CASE a \in On(n.path)
  BY <1>0, <1>1, PathSpent DEF KnownWithin, KnownAsCheap
<1>2. CASE a \notin On(n.path) /\ ~KnownAsCheap(Reached(n, a), Len(n.path) + 1)
  <2> DEFINE S == {b \in Applicable(n) : Reached(n, b) = Reached(n, a)}
  <2>1. a \in S
    BY <1>2 DEF Applicable
  <2>2. Operations = 1..Len(problem.actions) /\ Len(problem.actions) \in Nat
    BY DEF Problem, Operations
  <2>3. S \in SUBSET Nat /\ S # {}
    BY <2>1, <2>2 DEF Applicable
  <2>4. PICK b \in S : \A c \in S : b <= c
    <3> HIDE DEF S
    <3> QED
      BY <2>3, LeastNumber
  <2>5. b \in Applicable(n) /\ Reached(n, b) = Reached(n, a)
    OBVIOUS
  <2>6. ASSUME NEW c \in Applicable(n), c < b PROVE Reached(n, c) # Reached(n, b)
    <3>1. c \in Nat /\ b \in Nat
      BY <2>2, <2>3 DEF Applicable
    <3> QED
      BY <2>4, <2>5, <2>6, <3>1
  <2>7. b \in Onward(n)
    BY <1>2, <2>5, <2>6 DEF Onward
  <2> QED
    BY <2>5, <2>7
<1> QED
  BY <1>1, <1>2

\* The entry goes, and nothing becomes known: its world is closed, or a cheaper entry was there.
LEMMA TakenCovers ==
  ASSUME Searched, NEW n \in frontier, visited[n.world] = Len(n.path) => Closed(n.world),
         frontier' = frontier \ {n}, UNCHANGED <<problem, visited>>
  PROVE  Searched'
<1>1. \A w \in DOMAIN visited : Closed(w)' <=> Closed(w)
  BY DEF Closed, KnownWithin, Operations, Pre, Eff
<1>2. \A w \in DOMAIN visited : Open(w) => Open(w)' \/ (w = n.world /\ visited[w] = Len(n.path))
  BY DEF Open
<1>3. \A w, cost : KnownWithin(w, cost)' <=> KnownWithin(w, cost)
  BY DEF KnownWithin
<1> QED
  BY <1>1, <1>2, <1>3 DEF Searched

\* What an expansion makes of the known costs.
LEMMA VisitedAfter ==
  ASSUME problem \in Problem, Searched, NEW n \in frontier, Truthful(n.world, n.path),
         visited' = Visited(n)
  PROVE  /\ DOMAIN visited' = DOMAIN visited \cup {Reached(n, a) : a \in Onward(n)}
         /\ \A a \in Onward(n) : visited'[Reached(n, a)] = Len(n.path) + 1
         /\ \A w \in DOMAIN visited :
              visited'[w] # visited[w] => \E a \in Onward(n) : w = Reached(n, a)
         /\ \A w, cost : cost \in Nat /\ KnownWithin(w, cost) => KnownWithin(w, cost)'
         /\ visited'[n.world] = visited[n.world]
<1> DEFINE worlds == {m.world : m \in Successors(n)}
<1>0. Len(n.path) \in Nat
  BY DEF Truthful
<1>1. worlds = {Reached(n, a) : a \in Onward(n)}
  <2>1. \A a \in Onward(n) : \A tie :
          Entry(Reached(n, a), Append(n.path, a), tie).world = Reached(n, a)
    BY DEF Entry
  <2> QED
    BY <2>1 DEF Successors
<1>2. visited' = [w \in DOMAIN visited \cup worlds |->
                    IF w \in worlds THEN Len(n.path) + 1 ELSE visited[w]]
  BY DEF Visited
<1> HIDE DEF worlds
<1>3. DOMAIN visited' = DOMAIN visited \cup worlds
  BY <1>2
<1>4. \A w \in worlds : visited'[w] = Len(n.path) + 1
  BY <1>2
<1>5. \A w \in DOMAIN visited : w \notin worlds => visited'[w] = visited[w]
  BY <1>2
<1>6. \A w \in worlds : w \in DOMAIN visited => ~(visited[w] <= Len(n.path) + 1)
  BY <1>1 DEF Onward, KnownAsCheap
<1>7. ASSUME NEW w, NEW cost \in Nat, KnownWithin(w, cost) PROVE KnownWithin(w, cost)'
  <2>1. w \in DOMAIN visited /\ visited[w] \in Nat /\ visited[w] <= cost
    BY <1>7 DEF KnownWithin, Searched
  <2>2. CASE w \in worlds
    BY <1>0, <1>3, <1>4, <1>6, <2>1, <2>2 DEF KnownWithin
  <2>3. CASE w \notin worlds
    BY <1>3, <1>5, <2>1, <2>3 DEF KnownWithin
  <2> QED
    BY <2>2, <2>3
<1>8. n.world \in DOMAIN visited /\ n.world \notin worlds
  <2>1. n.world \in DOMAIN visited /\ visited[n.world] \in Nat /\ visited[n.world] <= Len(n.path)
    BY DEF Searched, KnownWithin
  <2> QED
    BY <1>0, <1>6, <2>1
<1> QED
  BY <1>1, <1>3, <1>4, <1>5, <1>7, <1>8

LEMMA ExpansionCovers ==
  ASSUME problem \in Problem, Searched, NEW n \in frontier, Truthful(n.world, n.path),
         ~AtGoal(n), ~TooLong(n.path), problem' = problem, MaxSteps \in Nat,
         frontier' = (frontier \ {n}) \cup Successors(n), visited' = Visited(n)
  PROVE  Searched'
<1>0. Len(n.path) \in Nat /\ Len(n.path) < MaxSteps
  BY DEF Truthful, TooLong
<1>1. /\ DOMAIN visited' = DOMAIN visited \cup {Reached(n, a) : a \in Onward(n)}
      /\ \A a \in Onward(n) : visited'[Reached(n, a)] = Len(n.path) + 1
      /\ \A w \in DOMAIN visited :
           visited'[w] # visited[w] => \E a \in Onward(n) : w = Reached(n, a)
      /\ \A w, cost : cost \in Nat /\ KnownWithin(w, cost) => KnownWithin(w, cost)'
      /\ visited'[n.world] = visited[n.world]
  BY VisitedAfter
<1>2. ASSUME NEW m \in Successors(n)
      PROVE  \E a \in Onward(n) :
               /\ m.world = Reached(n, a) /\ m.path = Append(n.path, a)
               /\ Len(m.path) = Len(n.path) + 1
               /\ m.f = Len(m.path) + Cardinality(problem.goal \ m.world)
  <2>1. PICK a \in Onward(n) :
          m = Entry(Reached(n, a), Append(n.path, a),
                    counter + Cardinality({b \in Onward(n) : b < a}))
    BY <1>2 DEF Successors
  <2>2. /\ m.world = Reached(n, a) /\ m.path = Append(n.path, a)
        /\ m.f = Len(m.path) + Cardinality(problem.goal \ m.world)
    BY <2>1 DEF Entry
  <2>3. Len(Append(n.path, a)) = Len(n.path) + 1
    BY DEF Truthful
  <2> QED
    BY <2>2, <2>3
<1>3. ASSUME NEW a \in Onward(n), NEW w, w = Reached(n, a) PROVE Open(w)'
  <2> DEFINE m == Entry(Reached(n, a), Append(n.path, a),
                        counter + Cardinality({b \in Onward(n) : b < a}))
  <2>1. m \in frontier'
    BY DEF Successors
  <2>2. m.world = w /\ Len(m.path) = Len(n.path) + 1
    <3>1. Len(Append(n.path, a)) = Len(n.path) + 1
      BY DEF Truthful
    <3> QED
      BY <1>3, <3>1 DEF Entry
  <2> HIDE DEF m
  <2> QED
    BY <1>1, <1>3, <2>1, <2>2 DEF Open
<1>4. ASSUME NEW w \in DOMAIN visited, visited'[w] = visited[w], Closed(w) PROVE Closed(w)'
  <2>1. visited[w] \in Nat
    BY DEF Searched
  <2>2. ASSUME visited[w] < MaxSteps, NEW a \in Operations, Pre(a) \subseteq w
        PROVE  \A v, cost : v = w \cup Eff(a) /\ cost = visited[w] + 1 => KnownWithin(v, cost)'
    BY <1>1, <1>4, <2>1, <2>2 DEF Closed
  <2> QED
    BY <1>4, <2>2 DEF Closed, Operations, Pre, Eff, KnownWithin
<1>5. ASSUME visited[n.world] = Len(n.path) PROVE Closed(n.world)'
  <2>1. ~(problem'.goal \subseteq n.world)
    BY DEF AtGoal
  <2>2. ASSUME NEW a \in Operations, Pre(a) \subseteq n.world
        PROVE  \A v : v = Reached(n, a) => KnownWithin(v, Len(n.path) + 1)'
    <3>1. KnownWithin(n.world, Len(n.path)) /\ visited[n.world] \in Nat
      BY <1>0, <1>5 DEF Searched
    <3>2. \/ KnownAsCheap(Reached(n, a), Len(n.path) + 1)
          \/ \E b \in Onward(n) : Reached(n, b) = Reached(n, a)
      BY <1>0, <2>2, <3>1, ReachedIsKnown
    <3>3. CASE KnownAsCheap(Reached(n, a), Len(n.path) + 1)
      BY <1>0, <1>1, <3>3 DEF KnownAsCheap, KnownWithin
    <3>4. CASE \E b \in Onward(n) : Reached(n, b) = Reached(n, a)
      BY <1>0, <1>1, <3>4 DEF KnownWithin
    <3> QED
      BY <3>2, <3>3, <3>4
  <2> QED
    BY <1>1, <1>5, <2>1, <2>2 DEF Closed, Operations, Pre, Eff, Reached, KnownWithin
<1>6. ASSUME NEW w \in DOMAIN visited'
      PROVE  visited'[w] \in Nat /\ (Open(w)' \/ Closed(w)')
  <2>1. CASE \E a \in Onward(n) : w = Reached(n, a)
    BY <1>0, <1>1, <1>3, <2>1
  <2>2. CASE ~\E a \in Onward(n) : w = Reached(n, a)
    <3>1. w \in DOMAIN visited /\ visited'[w] = visited[w]
      BY <1>1, <1>6, <2>2
    <3>2. visited[w] \in Nat /\ (Open(w) \/ Closed(w))
      BY <3>1 DEF Searched
    <3>3. CASE Open(w) /\ ~(w = n.world /\ Len(n.path) = visited[w])
      BY <3>1, <3>3 DEF Open
    <3> QED
      BY <1>4, <1>5, <3>1, <3>2, <3>3
  <2> QED
    BY <2>1, <2>2
<1>7. KnownWithin(problem.world, 0)'
  BY <1>1 DEF Searched, KnownWithin
<1>8. ASSUME NEW m \in frontier'
      PROVE  /\ KnownWithin(m.world, Len(m.path))'
             /\ m.f = Len(m.path) + Cardinality(problem'.goal \ m.world)
  <2>1. CASE m \in Successors(n)
    <3>1. PICK a \in Onward(n) :
            /\ m.world = Reached(n, a) /\ Len(m.path) = Len(n.path) + 1
            /\ m.f = Len(m.path) + Cardinality(problem.goal \ m.world)
      BY <1>2, <2>1
    <3>2. m.world \in DOMAIN visited' /\ visited'[m.world] = Len(m.path)
      BY <1>1, <3>1
    <3>3. Len(m.path) \in Nat
      BY <1>0, <3>1
    <3>4. KnownWithin(m.world, Len(m.path))'
      BY <3>2, <3>3 DEF KnownWithin
    <3> QED
      BY <3>1, <3>4
  <2>2. CASE m \in frontier /\ Len(m.path) \in Nat
    BY <1>1, <2>2 DEF Searched
  <2> QED
    BY <2>1, <2>2
<1> QED
  BY <1>6, <1>7, <1>8 DEF Searched

LEMMA CoverStep == SearchInv /\ CoverInv /\ [Next]_vars => CoverInv'
<1> SUFFICES ASSUME SearchInv, CoverInv, [Next]_vars PROVE CoverInv'
  OBVIOUS
<1>0. MaxSteps \in Nat /\ problem \in Problem
  BY SearchAssumption DEF SearchInv
<1>1. CASE ReachesGoal \/ Stamps
  BY <1>1 DEF ReachesGoal, Stamps, CoverInv
<1>2. CASE CutsOff
  <2>1. PICK n \in Least : /\ outcome = "searching" /\ ~AtGoal(n) /\ TooLong(n.path)
                          /\ frontier' = frontier \ {n} /\ UNCHANGED <<problem, visited>>
    BY <1>2 DEF CutsOff, Pops
  <2>2. n \in frontier /\ Truthful(n.world, n.path) /\ Searched
    BY <2>1 DEF Least, SearchInv, CoverInv
  <2>3. visited[n.world] = Len(n.path) => Closed(n.world)
    BY <1>0, <2>1, <2>2 DEF Closed, AtGoal, TooLong, Truthful
  <2>4. Searched'
    BY <2>1, <2>2, <2>3, TakenCovers
  <2> QED
    BY <2>4 DEF CoverInv
<1>3. CASE Expands
  <2>1. PICK n \in Least : /\ outcome = "searching" /\ ~AtGoal(n) /\ ~TooLong(n.path)
                          /\ frontier' = (frontier \ {n}) \cup Successors(n)
                          /\ visited' = Visited(n) /\ problem' = problem
    BY <1>3 DEF Expands, Pops
  <2>2. n \in frontier /\ Truthful(n.world, n.path) /\ Searched
    BY <2>1 DEF Least, SearchInv, CoverInv
  <2>3. Searched'
    BY <1>0, <2>1, <2>2, ExpansionCovers
  <2> QED
    BY <2>3 DEF CoverInv
<1>4. CASE GivesUp \/ Exhausted \/ UNCHANGED vars
  <2>1. /\ UNCHANGED <<problem, frontier, visited>>
        /\ outcome' \in {"searching", "none"} => outcome \in {"searching", "none"}
    BY <1>4 DEF GivesUp, Exhausted, vars
  <2>2. Searched => Searched'
    BY <2>1 DEF Searched, Open, Closed, KnownWithin, Operations, Pre, Eff
  <2> QED
    BY <2>1, <2>2 DEF CoverInv
<1> QED
  BY <1>1, <1>2, <1>3, <1>4 DEF Next

---------------------------------------------------------------------------------
(* Along a path to the goal *)

\* The members of Paths are sequences of operations.
LEMMA PathsAreSequences ==
  ASSUME NEW length \in Int, NEW path \in Paths(length)
  PROVE  path \in Seq(Operations) /\ Len(path) \in Nat /\ Len(path) <= length
         /\ DOMAIN path = 1..Len(path)
<1>1. PICK n \in 0..length : path \in [1..n -> Operations]
  BY DEF Paths
<1>2. n \in Nat /\ path \in Seq(Operations) /\ Len(path) = n
  BY <1>1
<1> QED
  BY <1>1, <1>2

LEMMA KnownNext ==
  ASSUME NEW path \in Seq(Operations), NEW i \in 0..(Len(path) - 1)
  PROVE  Known(path, i + 2) = Known(path, i + 1) \cup Eff(path[i + 1])
<1>1. Len(path) \in Nat /\ i \in Nat
  OBVIOUS
<1>2. 1..(i + 2 - 1) = 1..(i + 1 - 1) \cup {i + 1}
  BY <1>1
<1>3. {Eff(path[j]) : j \in 1..(i + 2 - 1)}
        = {Eff(path[j]) : j \in 1..(i + 1 - 1)} \cup {Eff(path[i + 1])}
  BY <1>2
<1> QED
  BY <1>3 DEF Known

\* Some world on every path to the goal is known at no more than its own steps, and open: the
\* closed ones hand on to the next, and the goal is never closed.
LEMMA OpenOnTheWay ==
  ASSUME MaxSteps \in Nat, Searched, NEW path \in Seq(Operations), Leads(path),
         Len(path) <= MaxSteps
  PROVE  \E i \in 0..Len(path) : KnownWithin(Known(path, i + 1), i) /\ Open(Known(path, i + 1))
<1> SUFFICES ASSUME \A i \in 0..Len(path) :
                      KnownWithin(Known(path, i + 1), i) => ~Open(Known(path, i + 1))
             PROVE  FALSE
  OBVIOUS
<1> DEFINE W(i) == Known(path, i + 1)
           S == {i \in 0..Len(path) : ~KnownWithin(W(i), i)}
<1>0. Len(path) \in Nat /\ DOMAIN path = 1..Len(path)
  OBVIOUS
<1>1. ASSUME NEW i \in 0..Len(path), i \notin S
      PROVE  W(i) \in DOMAIN visited /\ visited[W(i)] \in Nat /\ visited[W(i)] <= i /\ Closed(W(i))
  BY <1>1 DEF Searched, KnownWithin
<1>2. S = {}
  <2> SUFFICES ASSUME S # {} PROVE FALSE
    OBVIOUS
  <2>1. S \in SUBSET Nat
    BY <1>0
  <2>2. PICK k \in S : \A j \in S : k <= j
    <3> HIDE DEF S
    <3> QED
      BY <2>1, LeastNumber
  <2>3. k \in 0..Len(path) /\ ~KnownWithin(W(k), k)
    OBVIOUS
  <2>4. k # 0
    <3>1. Known(path, 0 + 1) = problem.world
      BY DEF Known
    <3> QED
      BY <2>3, <3>1 DEF Searched
  <2> DEFINE i == k - 1
  <2>5. i \in 0..(Len(path) - 1) /\ i + 1 = k /\ i + 2 = k + 1 /\ i \in 0..Len(path) /\ i < k
    BY <1>0, <2>3, <2>4
  <2>6. i \notin S
    BY <1>0, <2>2, <2>3, <2>5
  <2> HIDE DEF i
  <2>7. visited[W(i)] \in Nat /\ visited[W(i)] <= i /\ Closed(W(i))
    BY <1>1, <2>5, <2>6
  <2>8. k \in DOMAIN path /\ path[k] \in Operations
    BY <1>0, <2>3, <2>4
  <2>9. Pre(path[k]) \subseteq W(i)
    BY <2>5, <2>8 DEF Leads, Executable
  <2>10. W(k) = W(i) \cup Eff(path[k])
    BY <2>5, KnownNext
  <2>11. visited[W(i)] < MaxSteps
    BY <1>0, <2>5, <2>7
  <2>12. KnownWithin(W(k), visited[W(i)] + 1)
    <3> HIDE DEF W
    <3> QED
      BY <2>7, <2>8, <2>9, <2>10, <2>11 DEF Closed
  <2>13. W(k) \in DOMAIN visited /\ visited[W(k)] \in Nat /\ visited[W(k)] <= visited[W(i)] + 1
    BY <2>12 DEF KnownWithin, Searched
  <2>14. visited[W(k)] <= k
    <3> HIDE DEF W
    <3> QED
      BY <2>3, <2>5, <2>7, <2>13
  <2> QED
    BY <2>3, <2>13, <2>14 DEF KnownWithin
<1>3. Len(path) \in 0..Len(path) /\ Len(path) \notin S
  BY <1>0, <1>2
<1>4. ~(problem.goal \subseteq W(Len(path)))
  BY <1>1, <1>3 DEF Closed
<1> QED
  BY <1>4 DEF Leads

\* Every fact of the goal that is missing needs a step of its own: the heuristic of the search
\* never overestimates.
LEMMA GoalsCostSteps ==
  ASSUME IsFiniteSet(problem.goal), ~Bundled, NEW path \in Seq(Operations), Leads(path)
  PROVE  \A i \in 0..Len(path) :
           /\ Cardinality(problem.goal \ Known(path, i + 1)) \in Nat
           /\ i + Cardinality(problem.goal \ Known(path, i + 1)) <= Len(path)
<1> DEFINE Lack(i) == Cardinality(problem.goal \ Known(path, i + 1))
           S == {k \in 0..Len(path) : ~(Lack(Len(path) - k) <= k)}
<1>0. Len(path) \in Nat /\ DOMAIN path = 1..Len(path)
  OBVIOUS
<1>1. ASSUME NEW w PROVE IsFiniteSet(problem.goal \ w) /\ Cardinality(problem.goal \ w) \in Nat
  BY FS_Difference, FS_CardinalityType
<1>2. ASSUME NEW i \in 0..(Len(path) - 1) PROVE Lack(i) <= Lack(i + 1) + 1
  <2> DEFINE rest == problem.goal \ Known(path, i + 2)
             new == Eff(path[i + 1]) \cap problem.goal
  <2>1. Known(path, i + 2) = Known(path, i + 1) \cup Eff(path[i + 1])
    BY KnownNext
  <2>2. problem.goal \ Known(path, i + 1) \subseteq rest \cup new
    BY <2>1
  <2>3. IsFiniteSet(rest) /\ Cardinality(rest) \in Nat
    BY <1>1
  <2>4. IsFiniteSet(new) /\ Cardinality(new) \in Nat
    BY FS_Intersection, FS_CardinalityType
  <2>5. Cardinality(new) <= 1
    <3>1. path[i + 1] \in Operations
      BY <1>0
    <3>2. ~(Cardinality(new) > 1)
      BY <3>1, Zenon DEF Bundled
    <3> HIDE DEF new
    <3> QED
      BY <2>4, <3>2
  <2> HIDE DEF rest, new
  <2>6. /\ IsFiniteSet(rest \cup new) /\ IsFiniteSet(rest \cap new)
        /\ Cardinality(rest \cup new)
             = Cardinality(rest) + Cardinality(new) - Cardinality(rest \cap new)
    BY <2>3, <2>4, FS_Union, FS_Intersection
  <2>7. Cardinality(rest \cap new) \in Nat /\ Cardinality(rest \cup new) \in Nat
    BY <2>6, FS_CardinalityType
  <2>8. Lack(i) \in Nat /\ Lack(i) <= Cardinality(rest \cup new)
    BY <1>1, <2>2, <2>6, FS_Subset
  <2>9. Lack(i + 1) = Cardinality(rest)
    <3>1. i + 1 + 1 = i + 2
      OBVIOUS
    <3> QED
      BY <3>1 DEF rest
  <2> HIDE DEF Lack
  <2> QED
    BY <2>3, <2>4, <2>5, <2>6, <2>7, <2>8, <2>9
<1>3. \A i \in 0..Len(path) : Lack(i) \in Nat
  BY <1>1
<1>4. Lack(Len(path)) = 0
  <2>1. problem.goal \ Known(path, Len(path) + 1) = {}
    BY DEF Leads
  <2> QED
    BY <2>1, FS_EmptySet, Zenon
<1> HIDE DEF Lack
<1>5. S = {}
  <2> SUFFICES ASSUME S # {} PROVE FALSE
    OBVIOUS
  <2>1. S \in SUBSET Nat
    BY <1>0
  <2>2. PICK k \in S : \A j \in S : k <= j
    <3> HIDE DEF S
    <3> QED
      BY <2>1, LeastNumber
  <2>3. k \in 0..Len(path) /\ ~(Lack(Len(path) - k) <= k)
    OBVIOUS
  <2>4. k # 0
    BY <1>0, <1>4, <2>3
  <2>5. k - 1 \in 0..Len(path) /\ k - 1 \notin S
    BY <1>0, <2>2, <2>3, <2>4
  <2>6. Lack(Len(path) - (k - 1)) <= k - 1
    BY <2>5
  <2>7. /\ Len(path) - k \in 0..(Len(path) - 1) /\ Len(path) - k + 1 = Len(path) - (k - 1)
        /\ Len(path) - (k - 1) \in 0..Len(path)
    BY <1>0, <2>3, <2>4
  <2>8. Lack(Len(path) - k) <= Lack(Len(path) - (k - 1)) + 1
    BY <1>2, <2>7
  <2>9. Lack(Len(path) - k) \in Nat /\ Lack(Len(path) - (k - 1)) \in Nat
    BY <1>0, <1>3, <2>7
  <2> QED
    BY <2>3, <2>6, <2>8, <2>9
<1>6. ASSUME NEW i \in 0..Len(path) PROVE i + Lack(i) <= Len(path)
  <2>1. Len(path) - i \in 0..Len(path) /\ Len(path) - (Len(path) - i) = i
    BY <1>0
  <2>2. Len(path) - i \notin S
    BY <1>5
  <2>3. Lack(i) <= Len(path) - i
    BY <2>1, <2>2
  <2> QED
    BY <1>0, <1>3, <2>3
<1> QED
  BY <1>3, <1>6 DEF Lack

---------------------------------------------------------------------------------
(* What the search has found, and what there is *)

\* An empty heap means that no chain of goap_max_steps operations reaches the goal: what
\* visited leaves out, and the operations a path does not repeat, hide none. Only the budget of
\* expansions can.
THEOREM SearchIsComplete == Spec => []CompleteSearch
<1>1. SearchInv /\ CoverInv => CompleteSearch
  <2> SUFFICES ASSUME SearchInv, CoverInv, outcome = "none", frontier = {},
                      NEW path \in Paths(MaxSteps), Leads(path)
               PROVE  FALSE
    BY DEF CompleteSearch
  <2>1. MaxSteps \in Nat /\ Searched
    BY SearchAssumption DEF CoverInv
  <2>2. path \in Seq(Operations) /\ Len(path) <= MaxSteps
    BY <2>1, PathsAreSequences
  <2>3. \E w : Open(w)
    BY <2>1, <2>2, OpenOnTheWay
  <2> QED
    BY <2>3 DEF Open
<1> QED
  BY <1>1, SearchInvInit, SearchInvStep, CoverInit, CoverStep, PTL DEF Spec

FiniteGoal == IsFiniteSet(problem.goal)

\* The entry taken at the goal is a least one, and any shorter way would be open with less.
LEMMA TakenIsMinimal ==
  ASSUME SearchInv, CoverInv, FiniteGoal, ReachesGoal
  PROVE  MinimalPlan'
<1>0. MaxSteps \in Nat /\ Searched
  BY SearchAssumption DEF CoverInv, ReachesGoal, Pops
<1>1. PICK n \in Least : AtGoal(n) /\ plan' = n.path /\ problem' = problem
  BY DEF ReachesGoal, Pops
<1>2. n \in frontier /\ Truthful(n.world, n.path)
  BY <1>1 DEF Least, SearchInv
<1>3. n.path \in Seq(Operations) /\ Len(n.path) \in Nat /\ Len(n.path) <= MaxSteps
  BY <1>2 DEF Truthful
<1>4. n.f = Len(n.path)
  <2>1. problem.goal \ n.world = {}
    BY <1>1 DEF AtGoal
  <2>2. Cardinality(problem.goal \ n.world) = 0
    BY <2>1, FS_EmptySet, Zenon
  <2>3. n.f = Len(n.path) + Cardinality(problem.goal \ n.world)
    BY <1>0, <1>2 DEF Searched
  <2> QED
    BY <1>3, <2>2, <2>3
<1>5. ASSUME ~Bundled, NEW path \in Paths(Len(n.path) - 1), Leads(path) PROVE FALSE
  <2>1. /\ path \in Seq(Operations) /\ Len(path) \in Nat /\ Len(path) < Len(n.path)
        /\ Len(path) <= MaxSteps
    <3>1. Len(n.path) - 1 \in Int
      BY <1>3
    <3>2. path \in Seq(Operations) /\ Len(path) \in Nat /\ Len(path) <= Len(n.path) - 1
      BY <3>1, PathsAreSequences
    <3> QED
      BY <1>0, <1>3, <3>2
  <2>2. PICK i \in 0..Len(path) :
          KnownWithin(Known(path, i + 1), i) /\ Open(Known(path, i + 1))
    BY <1>0, <1>5, <2>1, OpenOnTheWay
  <2> DEFINE w == Known(path, i + 1)
             lack == Cardinality(problem.goal \ w)
  <2>3. lack \in Nat /\ i + lack <= Len(path)
    BY <1>5, <2>1, GoalsCostSteps DEF FiniteGoal
  <2> HIDE DEF w
  <2>4. PICK m \in frontier : m.world = w /\ Len(m.path) = visited[w]
    BY <2>2 DEF Open, w
  <2>5. visited[w] \in Nat /\ visited[w] <= i
    BY <1>0, <2>2 DEF KnownWithin, Searched, w
  <2>6. m.f = visited[w] + lack
    BY <1>0, <2>4 DEF Searched
  <2> HIDE DEF lack
  <2>7. m.f \in Nat /\ m.f < n.f
    BY <1>3, <1>4, <2>1, <2>3, <2>5, <2>6
  <2>8. m = n \/ Before(n, m)
    BY <1>1, <2>4 DEF Least
  <2> QED
    BY <1>3, <1>4, <2>7, <2>8 DEF Before
<1>6. Bundled' <=> Bundled
  BY <1>1 DEF Bundled, Operations, Eff
<1>7. Paths(Len(plan) - 1)' = Paths(Len(n.path) - 1)
  BY <1>1 DEF Paths, Operations
<1> QED
  BY <1>1, <1>5, <1>6, <1>7, SameProblem DEF MinimalPlan

LEMMA MinimalStep ==
  ASSUME SearchInv, CoverInv, FiniteGoal, MinimalPlan, [Next]_vars
  PROVE  FiniteGoal' /\ MinimalPlan'
<1>1. problem' = problem
  BY DEF Next, vars, ReachesGoal, CutsOff, Expands, GivesUp, Exhausted, Stamps, Pops
<1>2. FiniteGoal'
  BY <1>1 DEF FiniteGoal
<1>3. CASE ReachesGoal
  BY <1>2, <1>3, TakenIsMinimal
<1>4. CASE outcome' # "found"
  BY <1>2, <1>4 DEF MinimalPlan
<1>5. CASE outcome' = outcome /\ plan' = plan
  <2>1. Bundled' <=> Bundled
    BY <1>1 DEF Bundled, Operations, Eff
  <2>2. Paths(Len(plan) - 1)' = Paths(Len(plan) - 1)
    BY <1>1, <1>5 DEF Paths, Operations
  <2> QED
    BY <1>1, <1>2, <1>5, <2>1, <2>2, SameProblem DEF MinimalPlan
<1> QED
  BY <1>3, <1>4, <1>5 DEF Next, vars, CutsOff, Expands, GivesUp, Exhausted, Stamps

\* "A minimal sequence": no shorter chain of operations reaches the goal than the plan that is
\* found, unless one operation yields two facts of the goal.
THEOREM PlansAreMinimal ==
  ASSUME \A p \in Problems : IsFiniteSet(p.goal)
  PROVE  Spec => []MinimalPlan
<1>1. Init => FiniteGoal /\ MinimalPlan
  <2> SUFFICES ASSUME Init PROVE FiniteGoal /\ MinimalPlan
    OBVIOUS
  <2>1. Paths(Len(plan) - 1) = {}
    <3>1. Len(plan) - 1 = -1
      BY DEF Init
    <3>2. 0..(-1) = {}
      OBVIOUS
    <3> QED
      BY <3>1, <3>2 DEF Paths
  <2> QED
    BY <2>1 DEF Init, FiniteGoal, MinimalPlan
<1>2. SearchInv /\ CoverInv /\ FiniteGoal /\ MinimalPlan /\ [Next]_vars
        => (FiniteGoal /\ MinimalPlan)'
  BY MinimalStep
<1> QED
  BY <1>1, <1>2, SearchInvInit, SearchInvStep, CoverInit, CoverStep, PTL DEF Spec
===================================================================================
