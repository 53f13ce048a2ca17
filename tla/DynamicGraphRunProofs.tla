--------------------------- MODULE DynamicGraphRunProofs ---------------------------
(* What running a plan guarantees, for every plan, outcome and budget: the types and   *)
(* budgets of the turn, that only failures are called again, that the turn implements  *)
(* PlanRun, and that the results stay at the positions of their steps.                 *)
EXTENDS DynamicGraphProofs, FiniteSetTheorems, SequenceTheorems

---------------------------------------------------------------------------------
(* Least and greatest members, and the order in which the peers are called *)

\* A set of numbers has a least member.
LEMMA LeastMember ==
  ASSUME NEW S \in SUBSET Nat, S # {}
  PROVE  First(S) \in S /\ \A j \in S : First(S) <= j
<1>1. PICK i \in S : \A j \in S : ~(<<j, i>> \in OpToRel(<, Nat))
  BY NatLessThanWellFounded, WFMin
<1>2. \A j \in S : <<j, i>> \in OpToRel(<, Nat) <=> j < i
  BY DEF OpToRel
<1>3. \A j \in S : i <= j
  <2> SUFFICES ASSUME NEW j \in S PROVE ~(j < i)
    OBVIOUS
  <2> QED
    BY <1>1, <1>2, Zenon
<1> QED
  BY <1>3 DEF First

\* A bounded set of numbers has a greatest member.
LEMMA GreatestMember ==
  ASSUME NEW S \in SUBSET Nat, S # {}, NEW n \in Nat, \A j \in S : j <= n
  PROVE  Top(S) \in S /\ Top(S) \in Nat /\ \A j \in S : j <= Top(S)
<1> DEFINE Bounds == {m \in Nat : \A j \in S : j <= m}
           b == First(Bounds)
<1>1. b \in Bounds /\ \A m \in Bounds : b <= m
  BY LeastMember
<1> HIDE DEF b
<1>2. b \in S
  <2>1. SUFFICES ASSUME b \notin S PROVE FALSE
    OBVIOUS
  <2>2. PICK j \in S : TRUE
    OBVIOUS
  <2>3. j < b
    BY <1>1, <2>1
  <2>4. b - 1 \in Bounds
    BY <1>1, <2>1, <2>3
  <2> QED
    BY <1>1, <2>4
<1>3. \E i \in S : \A j \in S : j <= i
  BY <1>1, <1>2
<1> QED
  BY <1>3 DEF Top

\* Every peer is called exactly at the number of peers up to it.
LEMMA EveryPeerIsCalled ==
  ASSUME NEW out, DOMAIN out \in SUBSET Nat, IsFiniteSet(DOMAIN out)
  PROVE  /\ Len(PeerCalls(out)) = Cardinality(DOMAIN out)
         /\ Cardinality(DOMAIN out) \in Nat
         /\ \A k \in 1..Cardinality(DOMAIN out) : \E i \in DOMAIN out :
              PeerCalls(out)[k] = Called(i, state.idx, out[i])
         /\ \A i \in DOMAIN out : \E k \in 1..Cardinality(DOMAIN out) :
              PeerCalls(out)[k] = Called(i, state.idx, out[i])
         /\ \A k, l \in 1..Cardinality(DOMAIN out) :
              PeerCalls(out)[k].at = PeerCalls(out)[l].at => k = l
<1> DEFINE P == DOMAIN out
           n == Cardinality(P)
           Upto(i) == {j \in P : j <= i}
           rank == [i \in P |-> Cardinality(Upto(i))]
           peer(k) == CHOOSE i \in P : Cardinality(Upto(i)) = k
<1>1. n \in Nat
  BY FS_CardinalityType
<1>2. \A i \in P : rank[i] \in 1..n
  <2> SUFFICES ASSUME NEW i \in P PROVE rank[i] \in 1..n
    OBVIOUS
  <2>1. IsFiniteSet(Upto(i)) /\ Cardinality(Upto(i)) <= n
    BY FS_Subset
  <2>2. i \in Upto(i)
    OBVIOUS
  <2>3. Cardinality(Upto(i)) \in Nat /\ Cardinality(Upto(i)) # 0
    BY <2>1, <2>2, FS_EmptySet, FS_CardinalityType
  <2> QED
    BY <1>1, <2>1, <2>3
<1>3. ASSUME NEW i \in P, NEW j \in P, i < j PROVE rank[i] # rank[j]
  <2>1. IsFiniteSet(Upto(j))
    BY FS_Subset
  <2>2. Upto(i) \in SUBSET Upto(j) /\ j \in Upto(j) /\ j \notin Upto(i)
    BY <1>3
  <2>3. Cardinality(Upto(j)) = Cardinality(Upto(i)) => Upto(j) = Upto(i)
    <3> HIDE DEF Upto
    <3> QED BY <2>1, <2>2, FS_Subset
  <2> QED
    BY <2>2, <2>3
<1>4. rank \in Injection(P, 1..n)
  <2>1. rank \in [P -> 1..n]
    BY <1>2
  <2>2. \A i, j \in P : rank[i] = rank[j] => i = j
    BY <1>3
  <2> HIDE DEF rank, P, n
  <2> QED
    BY <2>1, <2>2 DEF Injection, IsInjective
<1>5. rank \in Surjection(P, 1..n)
  <2>1. IsFiniteSet(1..n) /\ Cardinality(1..n) = n
    BY <1>1, FS_Interval
  <2> HIDE DEF rank, P
  <2> QED
    BY <1>4, <2>1, FS_Injection DEF n
<1>6. \A k \in 1..n : \E i \in P : rank[i] = k
  BY <1>5 DEF Surjection
<1>7. \A k \in 1..n : peer(k) \in P /\ rank[peer(k)] = k
  BY <1>6
<1>8. \A i \in P : peer(rank[i]) = i
  <2> SUFFICES ASSUME NEW i \in P PROVE peer(rank[i]) = i
    OBVIOUS
  <2>1. peer(rank[i]) \in P /\ rank[peer(rank[i])] = rank[i]
    BY <1>2, <1>7
  <2> HIDE DEF rank, peer
  <2> QED
    BY <1>3, <2>1
<1>9. PeerCalls(out) = [k \in 1..n |-> Called(peer(k), state.idx, out[peer(k)])]
  BY DEF PeerCalls
<1>10. Len(PeerCalls(out)) = n
  <2> HIDE DEF peer, n
  <2> QED BY <1>1, <1>9
<1>11. \A i \in P : PeerCalls(out)[rank[i]] = Called(i, state.idx, out[i])
  <2> HIDE DEF peer, rank, n, P
  <2> QED BY <1>2, <1>8, <1>9
<1>12. ASSUME NEW k \in 1..n, NEW l \in 1..n, PeerCalls(out)[k].at = PeerCalls(out)[l].at
       PROVE  k = l
  <2>1. peer(k) = peer(l)
    <3> HIDE DEF peer, n
    <3> QED BY <1>9, <1>12 DEF Called
  <2> QED
    <3> HIDE DEF peer, rank, P
    <3> QED BY <1>7, <2>1
<1> QED
  <2>1. \A k \in 1..n : \E i \in P : PeerCalls(out)[k] = Called(i, state.idx, out[i])
    <3> HIDE DEF peer, n, P
    <3> QED BY <1>7, <1>9
  <2>2. \A i \in P : \E k \in 1..n : PeerCalls(out)[k] = Called(i, state.idx, out[i])
    <3> HIDE DEF rank, n, P
    <3> QED BY <1>2, <1>11
  <2> QED
    BY <1>1, <1>10, <1>12, <2>1, <2>2

---------------------------------------------------------------------------------
(* The fields of the state, and every budget of the turn. The groups are bounded, so  *)
(* that the last peer of a step is told; retry_node is reached with the retry unspent, *)
(* and rounds remain until the goal loop gives the turn to the summary.                *)

StateType ==
  [mode : {"chat", "classic", "specialist"}, plan : Seq(Step), draft : Seq(Step),
   groups : SUBSET SUBSET Nat, idx : Nat \ {0}, results : Seq(Answers),
   response : Answers, payload : {"none", "http", "fast"}, planId : Nat,
   retry : 0..1, replans : 0..MaxReplans, iterations : 0..MaxIterations,
   retriages : 0..MaxRetriages, stalled : Nat, repeats : Nat,
   decision : {"none", "continue", "retriage", "done"}, lastFailure : Answers,
   force : BOOLEAN, goal : BOOLEAN, found : BOOLEAN, unresolved : BOOLEAN,
   yaml : BOOLEAN, execution : BOOLEAN]
TurnType == [made : Nat, approved : Nat, forced : BOOLEAN, answers : 0..MaxAnswers,
             misfiled : BOOLEAN]
LogType == Seq([at : Nat, op : Nat, out : Answers])

\* The groups lie within a plan, so that the last peer of a step can be told.
Bounded(groups) == \E n \in Nat : \A g \in groups : g \subseteq 1..n

TypeInv ==
  /\ node \in Nodes /\ state \in StateType /\ log \in LogType /\ turn \in TurnType
  /\ Bounded(state.groups)
  /\ node = "retry_node" => state.retry = 0
  /\ node \notin {"summary_node", "end"} => state.iterations < MaxIterations

\* The fields of a state one by one.
LEMMA FieldsTyped ==
  ASSUME NEW s \in StateType
  PROVE  /\ DOMAIN s = DOMAIN Fresh
         /\ s.plan \in Seq(Step) /\ s.draft \in Seq(Step) /\ s.groups \in SUBSET SUBSET Nat
         /\ s.idx \in Nat \ {0} /\ s.results \in Seq(Answers) /\ s.response \in Answers
         /\ s.payload \in {"none", "http", "fast"} /\ s.planId \in Nat /\ s.retry \in 0..1
         /\ s.replans \in 0..MaxReplans /\ s.iterations \in 0..MaxIterations
         /\ s.retriages \in 0..MaxRetriages /\ s.stalled \in Nat /\ s.repeats \in Nat
         /\ s.lastFailure \in Answers /\ s.found \in BOOLEAN /\ s.execution \in BOOLEAN
         /\ s.yaml \in BOOLEAN /\ s.force \in BOOLEAN /\ s.goal \in BOOLEAN
BY DEF StateType, Fresh

\* The answers that the nodes write themselves.
LEMMA Words ==
  /\ Failures \cup CallOutcomes \subseteq Answers
  /\ {"none", "replan", "asked", "halted", "denied", "partial", "done", "connerr", "chat",
      "spec", "summary", "incomplete", "pad", "need", "recov", "fail", "noroute", "yamlerr",
      "nopayload", "ok"} \subseteq Answers
BY DEF Answers, Failures, CallOutcomes

LEMMA Constants ==
  /\ MaxReplans \in Nat /\ MaxRetriages \in Nat /\ LongChain \in Nat /\ MaxAnswers \in Nat
  /\ MaxIterations \in Nat \ {0} /\ Outcomes \subseteq Answers /\ KeptRepeats \subseteq Nat
  /\ \A steps \in GoapPlans \cup Drafts : steps \in Seq(Step) /\ steps # <<>>
BY GraphAssumption, Words

\* A step that changes neither the histories nor the groups.
LEMMA PlainStep ==
  ASSUME TypeInv, state' \in StateType, node' \in Nodes \ {"retry_node"}, UNCHANGED <<log, turn>>,
         state'.groups = state.groups, state'.iterations = state.iterations,
         node \notin {"summary_node", "end"}
  PROVE  TypeInv'
BY DEF TypeInv

\* A turn begins with its budgets unspent.
LEMMA TypeInit == Init => TypeInv
<1> SUFFICES ASSUME Init PROVE TypeInv
  OBVIOUS
<1>1. PICK force \in BOOLEAN, goal \in BOOLEAN, replans \in 0..MaxReplans,
           repeats \in KeptRepeats :
        /\ node = "turn_init" /\ log = <<>>
        /\ state = [Fresh EXCEPT !.force = force, !.goal = goal, !.replans = replans,
                                 !.repeats = repeats]
        /\ turn = [made |-> 0, approved |-> 0, forced |-> force, answers |-> 0,
                   misfiled |-> FALSE]
  BY DEF Init
<1>2. Fresh \in StateType
  <2>1. "none" \in Answers /\ <<>> \in Seq(Step) /\ <<>> \in Seq(Answers)
    BY Words
  <2>2. /\ 1 \in Nat \ {0} /\ 0 \in 0..1 /\ 0 \in 0..MaxRetriages /\ 0 \in 0..MaxIterations
        /\ {} \in SUBSET SUBSET Nat /\ 0 \in Nat /\ 0 \in 0..MaxReplans
    BY Constants
  <2> QED
    BY <2>1, <2>2, ZenonT(30) DEF StateType, Fresh
<1>3. repeats \in Nat
  BY Constants
<1>4. state \in StateType
  BY <1>1, <1>2, <1>3, ZenonT(30) DEF StateType
<1>5. state.groups = {} /\ state.iterations = 0
  BY <1>1 DEF Fresh
<1>6. turn \in TurnType /\ log \in LogType /\ node \in Nodes
  BY <1>1, Constants DEF TurnType, LogType, Nodes
<1> QED
  BY <1>1, <1>4, <1>5, <1>6, Constants DEF TypeInv, Bounded

LEMMA RoutingTypes == TypeInv /\ Routing => TypeInv'
<1> SUFFICES ASSUME TypeInv, Routing PROVE TypeInv'
  OBVIOUS
<1>0. state \in StateType /\ DOMAIN state = DOMAIN Fresh
  BY FieldsTyped DEF TypeInv
<1>1. CASE TurnInit
  <2>1. "none" \in Answers /\ <<>> \in Seq(Step) /\ <<>> \in Seq(Answers)
    BY Words
  <2>2. /\ 1 \in Nat \ {0} /\ 0 \in 0..1 /\ 0 \in 0..MaxRetriages /\ 0 \in 0..MaxIterations
        /\ {} \in SUBSET SUBSET Nat /\ 0 \in Nat
    BY Constants
  <2>3. state' \in StateType
    BY <1>0, <1>1, <2>1, <2>2, ZenonT(30) DEF TurnInit, StateType
  <2>4. state'.groups = {} /\ state'.iterations = 0 /\ node' = "triage" /\ UNCHANGED <<log, turn>>
    BY <1>0, <1>1 DEF TurnInit, Fresh
  <2> QED
    BY <2>3, <2>4, Constants DEF TypeInv, Bounded, Nodes
<1>2. CASE Triage
  <2>0. PICK mode \in {"chat", "classic", "specialist"} : state' = [state EXCEPT !.mode = mode]
    BY <1>2 DEF Triage
  <2>1. state' \in StateType
    BY <1>0, <2>0, ZenonT(30) DEF StateType
  <2>2. /\ node' \in Nodes \ {"retry_node"} /\ UNCHANGED <<log, turn>>
        /\ state'.groups = state.groups /\ state'.iterations = state.iterations
        /\ node = "triage"
    BY <1>0, <1>2, Entries DEF Triage, Nodes, Fresh
  <2> QED
    BY <2>1, <2>2, PlainStep
<1>3. CASE Chat \/ SpecialistAnswers \/ SpecialistFails
  <2>1. "none" \in Answers /\ "spec" \in Answers /\ "chat" \in Answers
    BY Words
  <2>2. state' \in StateType
    <3>1. \/ state' = [state EXCEPT !.response = "chat"]
          \/ state' = [state EXCEPT !.mode = "specialist", !.response = "spec", !.decision = "done"]
          \/ state' = [state EXCEPT !.mode = "classic", !.response = "none", !.lastFailure = "spec"]
      BY <1>3 DEF Chat, SpecialistAnswers, SpecialistFails
    <3>2. [state EXCEPT !.response = "chat"] \in StateType
      BY <1>0, <2>1, ZenonT(30) DEF StateType
    <3>3. [state EXCEPT !.mode = "specialist", !.response = "spec", !.decision = "done"]
             \in StateType
      BY <1>0, <2>1, ZenonT(30) DEF StateType
    <3>4. [state EXCEPT !.mode = "classic", !.response = "none", !.lastFailure = "spec"]
             \in StateType
      BY <1>0, <2>1, ZenonT(30) DEF StateType
    <3> QED
      BY <3>1, <3>2, <3>3, <3>4
  <2>3. /\ node' \in Nodes \ {"retry_node"} /\ UNCHANGED <<log, turn>>
        /\ state'.groups = state.groups /\ state'.iterations = state.iterations
        /\ node \in {"chat_node", "specialist_entry"}
    BY <1>0, <1>3, Entries DEF Chat, SpecialistAnswers, SpecialistFails, Nodes, Fresh
  <2> QED
    BY <2>2, <2>3, PlainStep
<1> QED
  BY <1>1, <1>2, <1>3 DEF Routing

LEMMA PlanningTypes == TypeInv /\ Planning => TypeInv'
<1> SUFFICES ASSUME TypeInv, Planning PROVE TypeInv'
  OBVIOUS
<1>0. state \in StateType /\ DOMAIN state = DOMAIN Fresh /\ turn \in TurnType
  BY FieldsTyped DEF TypeInv
<1>a. /\ "none" \in Answers /\ "connerr" \in Answers /\ "asked" \in Answers
      /\ "halted" \in Answers
      /\ <<>> \in Seq(Step) /\ <<>> \in Seq(Answers) /\ 1 \in Nat \ {0}
      /\ {} \in SUBSET SUBSET Nat
  BY Words
<1>b. ASSUME MadePlan
      PROVE  turn' \in TurnType /\ log' \in LogType
  BY <1>0, <1>b DEF MadePlan, TurnType, LogType
<1>c. \A gate : Gated(gate) \in Nodes \ {"retry_node"}
  BY DEF Gated, Nodes
<1>1. CASE Decompose \/ Embed \/ AskedInstead
  <2>1. state' \in StateType
    <3>1. CASE Decompose
      BY <1>0, <3>1 DEF Decompose
    <3>2. CASE Embed
      <4>1. PICK found \in BOOLEAN : state' = [state EXCEPT !.found = state.found \/ found]
        BY <3>2 DEF Embed
      <4>2. (state.found \/ found) \in BOOLEAN
        OBVIOUS
      <4> QED
        BY <1>0, <4>1, <4>2, ZenonT(30) DEF StateType
    <3>3. CASE AskedInstead
      <4>1. PICK answer \in {"asked", "halted"} : state' = [state EXCEPT !.response = answer]
        BY <3>3 DEF AskedInstead
      <4>2. answer \in Answers
        BY <1>a
      <4> QED
        BY <1>0, <4>1, <4>2, ZenonT(30) DEF StateType
    <3> QED
      BY <1>1, <3>1, <3>2, <3>3
  <2>2. /\ node' \in Nodes \ {"retry_node"} /\ UNCHANGED <<log, turn>>
        /\ state'.groups = state.groups /\ state'.iterations = state.iterations
        /\ node \in {"decompose", "embedder", "confirm_node", "clarify_node"}
    BY <1>0, <1>1 DEF Decompose, Embed, AskedInstead, Nodes, Fresh
  <2> QED
    BY <2>1, <2>2, PlainStep
<1>2. ASSUME NEW plan \in Seq(Step), NEW draft \in Seq(Step), NEW groups \in SUBSET SUBSET Nat,
             Bounded(groups), node = "planner", state' = Planned(plan, draft, groups),
             MadePlan, NEW gate, node' = Gated(gate)
      PROVE  TypeInv'
  <2>1. state' \in StateType
    BY <1>0, <1>a, <1>2, ZenonT(30) DEF Planned, StateType
  <2>2. state'.groups = groups /\ state'.iterations = state.iterations
    BY <1>0, <1>2 DEF Planned, Fresh
  <2> QED
    BY <1>2, <1>b, <1>c, <2>1, <2>2 DEF TypeInv
<1>3. CASE PlanByGoap
  <2>1. PICK steps \in GoapPlans, gate \in {"execute", "confirm", "clarify"} :
          /\ state' = Planned(steps, <<>>, Groups(steps)) /\ node' = Gated(gate) /\ MadePlan
          /\ node = "planner"
    BY <1>3 DEF PlanByGoap, Gates
  <2>2. steps \in Seq(Step)
    BY Constants
  <2>3. /\ Len(steps) \in Nat /\ DOMAIN steps = 1..Len(steps)
        /\ \A g \in Groups(steps) : g \subseteq DOMAIN steps
    BY <2>2 DEF Groups
  <2>4. Bounded(Groups(steps)) /\ Groups(steps) \in SUBSET SUBSET Nat
    BY <2>3 DEF Bounded
  <2> QED
    BY <1>2, <1>a, <2>1, <2>2, <2>4
<1>4. CASE PlanLinearly
  <2>1. PICK draft \in Drafts, gate \in {"execute", "confirm", "clarify"} :
          /\ state' = Planned(<<>>, draft, {}) /\ node' = Gated(gate) /\ MadePlan
          /\ node = "planner"
    BY <1>4 DEF PlanLinearly, Gates
  <2>2. draft \in Seq(Step) /\ Bounded({})
    BY Constants DEF Bounded
  <2> QED
    BY <1>2, <1>a, <2>1, <2>2
<1>5. CASE PlannerUnreachable \/ NoCandidates
  <2>1. PICK response \in {"none", "connerr"} : state' = NoPlan(response)
    BY <1>5 DEF PlannerUnreachable, NoCandidates
  <2>2. state' \in StateType
    BY <1>0, <1>a, <2>1, ZenonT(30) DEF NoPlan, StateType
  <2>3. state'.groups = {} /\ state'.iterations = state.iterations
    BY <1>0, <2>1 DEF NoPlan, Fresh
  <2>4. /\ node' \in Nodes \ {"retry_node"} /\ node = "planner"
        /\ turn' \in TurnType /\ log' \in LogType
    BY <1>5, <1>b, <1>c DEF PlannerUnreachable, NoCandidates, TypeInv, Nodes
  <2> QED
    BY <2>2, <2>3, <2>4 DEF TypeInv, Bounded
<1>6. CASE ConfirmAccepted \/ Clarified
  <2>1. state' \in StateType
    <3>1. \/ state' = [state EXCEPT !.response = "none", !.force = TRUE]
          \/ state' = [state EXCEPT !.response = "none"]
      BY <1>6 DEF ConfirmAccepted, Clarified
    <3>2. [state EXCEPT !.response = "none", !.force = TRUE] \in StateType
      BY <1>0, <1>a, ZenonT(30) DEF StateType
    <3>3. [state EXCEPT !.response = "none"] \in StateType
      BY <1>0, <1>a, ZenonT(30) DEF StateType
    <3> QED
      BY <3>1, <3>2, <3>3
  <2>2. /\ node' \in Nodes \ {"retry_node"} /\ log' = log
        /\ state'.groups = state.groups /\ state'.iterations = state.iterations
        /\ node \in {"confirm_node", "clarify_node"}
    BY <1>0, <1>6, Entries DEF ConfirmAccepted, Clarified, Nodes, Fresh
  <2>3. turn' \in TurnType
    BY <1>0, <1>6, Constants DEF ConfirmAccepted, Clarified, TurnType
  <2> QED
    BY <2>1, <2>2, <2>3 DEF TypeInv
<1> QED
  BY <1>1, <1>3, <1>4, <1>5, <1>6 DEF Planning

LEMMA PreparingTypes == TypeInv /\ Preparing => TypeInv'
<1> SUFFICES ASSUME TypeInv, Preparing PROVE TypeInv'
  OBVIOUS
<1>0. state \in StateType /\ DOMAIN state = DOMAIN Fresh /\ turn \in TurnType
  BY FieldsTyped DEF TypeInv
<1>a. ASSUME NEW v \in Answers
      PROVE  [state EXCEPT !.response = v] \in StateType
  BY <1>0, ZenonT(30) DEF StateType
<1>b. /\ Working \in Seq(Step) /\ \A saved \in BOOLEAN : SavedId(saved) \in Nat
      /\ state.plan \in Seq(Step)
  BY <1>0, FieldsTyped DEF Working, SavedId, TurnType
<1>1. CASE ContextCheck \/ ResolverFills
  <2>1. PICK unresolved \in BOOLEAN : state' = [state EXCEPT !.unresolved = unresolved]
    BY <1>1 DEF ContextCheck, ResolverFills
  <2>2. state' \in StateType
    BY <1>0, <2>1, ZenonT(30) DEF StateType
  <2>3. /\ node' \in Nodes \ {"retry_node"} /\ UNCHANGED <<log, turn>>
        /\ state'.groups = state.groups /\ state'.iterations = state.iterations
        /\ node \in {"context_check", "step_resolver"}
    BY <1>0, <1>1 DEF ContextCheck, Resolution, ResolverFills, Nodes, Fresh
  <2> QED
    BY <2>2, <2>3, PlainStep
<1>2. CASE ResolverAsks \/ PermissionDenies
  <2>1. PICK v \in {"need", "denied"} : state' = [state EXCEPT !.response = v]
    BY <1>2 DEF ResolverAsks, PermissionDenies
  <2>2. state' \in StateType
    BY <1>a, <2>1, Words
  <2>3. /\ node' \in Nodes \ {"retry_node"} /\ UNCHANGED <<log, turn>>
        /\ state'.groups = state.groups /\ state'.iterations = state.iterations
        /\ node \in {"permission_gate", "step_resolver"}
    BY <1>0, <1>2 DEF ResolverAsks, PermissionDenies, Nodes, Fresh
  <2> QED
    BY <2>2, <2>3, PlainStep
<1>3. CASE PermissionAllows \/ NothingToBuild
  BY <1>0, <1>3, PlainStep DEF PermissionAllows, NothingToBuild, Nodes
<1>4. CASE CompileFails
  <2>1. PICK parsed \in BOOLEAN : state' = [state EXCEPT !.response = "yamlerr", !.yaml = parsed]
    BY <1>4 DEF CompileFails
  <2>2. "yamlerr" \in Answers
    BY Words
  <2>3. state' \in StateType
    BY <1>0, <2>1, <2>2, ZenonT(30) DEF StateType
  <2>4. /\ node' \in Nodes \ {"retry_node"} /\ UNCHANGED <<log, turn>>
        /\ state'.groups = state.groups /\ state'.iterations = state.iterations
        /\ node = "builder"
    BY <1>0, <1>4 DEF CompileFails, Nodes, Fresh
  <2> QED
    BY <2>3, <2>4, PlainStep
<1>5. CASE BuildRefused
  <2>1. PICK refusal \in {"noroute", "need"}, saved \in BOOLEAN :
          state' = [state EXCEPT !.plan = Working, !.yaml = TRUE, !.planId = SavedId(saved),
                                 !.response = refusal]
    BY <1>5 DEF BuildRefused
  <2>2. refusal \in Answers /\ SavedId(saved) \in Nat
    BY <1>b, Words
  <2>3. state' \in StateType
    BY <1>0, <1>b, <2>1, <2>2, ZenonT(30) DEF StateType
  <2>4. /\ node' \in Nodes \ {"retry_node"} /\ UNCHANGED <<log, turn>>
        /\ state'.groups = state.groups /\ state'.iterations = state.iterations
        /\ node = "builder"
    BY <1>0, <1>5 DEF BuildRefused, Nodes, Fresh
  <2> QED
    BY <2>3, <2>4, PlainStep
<1>6. CASE Build
  <2>1. PICK saved \in BOOLEAN, payload \in {"http", "fast"} :
          state' = [state EXCEPT !.plan = Kept, !.yaml = TRUE, !.planId = SavedId(saved),
                                 !.payload = payload]
    BY <1>6 DEF Build
  <2>2. Kept \in Seq(Step) /\ SavedId(saved) \in Nat
    BY <1>b DEF Kept
  <2>3. state' \in StateType
    BY <1>0, <2>1, <2>2, ZenonT(30) DEF StateType
  <2>4. /\ node' \in Nodes \ {"retry_node"} /\ UNCHANGED <<log, turn>>
        /\ state'.groups = state.groups /\ state'.iterations = state.iterations
        /\ node = "builder"
    BY <1>0, <1>6 DEF Build, Nodes, Fresh
  <2> QED
    BY <2>3, <2>4, PlainStep
<1> QED
  BY <1>1, <1>2, <1>3, <1>4, <1>5, <1>6 DEF Preparing

\* The peers of a step are a bounded set, and the graph goes on behind the last of them.
LEMMA PeersBounded ==
  ASSUME TypeInv
  PROVE  /\ Peers \in SUBSET Nat /\ IsFiniteSet(Peers)
         /\ LastIndex \in Nat \ {0} /\ LastIndex \in {state.idx} \cup Peers
         /\ state.idx <= LastIndex /\ \A j \in Peers : j <= LastIndex
<1>1. state.idx \in Nat \ {0}
  BY FieldsTyped DEF TypeInv
<1>2. PICK n \in Nat : \A g \in state.groups : g \subseteq 1..n
  BY DEF TypeInv, Bounded
<1>3. Peers \subseteq 1..n
  BY <1>2 DEF Peers, GroupsFrom
<1>4. IsFiniteSet(Peers)
  <2>1. IsFiniteSet(1..n)
    BY FS_Interval
  <2> HIDE DEF Peers
  <2> QED
    BY <1>3, <2>1, FS_Subset
<1>5. PICK m \in Nat : n <= m /\ state.idx <= m
  <2>1. n + state.idx \in Nat /\ n <= n + state.idx /\ state.idx <= n + state.idx
    BY <1>1
  <2> QED
    BY <2>1
<1>6. \A j \in {state.idx} \cup Peers : j \in Nat /\ j <= m
  <2>1. \A j \in Peers : j \in Nat /\ j <= n
    BY <1>3
  <2>2. \A j \in Peers : j \in Nat /\ j <= m
    BY <1>5, <2>1
  <2> HIDE DEF Peers
  <2> QED
    BY <1>1, <1>5, <2>2
<1>7. /\ LastIndex \in {state.idx} \cup Peers /\ LastIndex \in Nat
      /\ \A j \in {state.idx} \cup Peers : j <= LastIndex
  BY <1>6, GreatestMember DEF LastIndex
<1> QED
  BY <1>1, <1>3, <1>4, <1>6, <1>7

\* Placed has a result or a pad at every position up to the last peer.
LEMMA PlacedTyped ==
  ASSUME TypeInv, NEW results \in Seq(Answers), NEW out \in PeersOutcomes
  PROVE  /\ Placed(results, out) \in Seq(Answers)
         /\ Len(Placed(results, out)) = Top({Len(results)} \cup Peers)
         /\ Len(results) <= Len(Placed(results, out))
         /\ \A i \in DOMAIN out : i \in 1..Len(Placed(results, out)) \/ i = 0
         /\ \A i \in 1..Len(Placed(results, out)) :
              Placed(results, out)[i] = IF i \in DOMAIN out THEN out[i]
                                        ELSE IF i <= Len(results) THEN results[i] ELSE "pad"
<1> DEFINE last == Top({Len(results)} \cup DOMAIN out)
<1>1. DOMAIN out = Peers /\ \A i \in DOMAIN out : out[i] \in Answers
  BY Constants DEF PeersOutcomes
<1>2. PICK n \in Nat : Len(results) <= n /\ \A j \in Peers : j <= n
  <2>1. Len(results) \in Nat /\ LastIndex \in Nat /\ \A j \in Peers : j \in Nat /\ j <= LastIndex
    BY PeersBounded
  <2>2. Len(results) + LastIndex \in Nat
    BY <2>1
  <2> QED
    BY <2>1, <2>2
<1>3. {Len(results)} \cup DOMAIN out \in SUBSET Nat
  BY <1>1, PeersBounded
<1>4. /\ last \in Nat /\ \A j \in {Len(results)} \cup DOMAIN out : j <= last
  BY <1>1, <1>2, <1>3, GreatestMember
<1> HIDE DEF last
<1>5. Placed(results, out)
        = [i \in 1..last |-> IF i \in DOMAIN out THEN out[i]
                             ELSE IF i <= Len(results) THEN results[i] ELSE "pad"]
  BY DEF Placed, last
<1>6. \A i \in 1..last : (IF i \in DOMAIN out THEN out[i]
                          ELSE IF i <= Len(results) THEN results[i] ELSE "pad") \in Answers
  BY <1>1, Words
<1>7. Placed(results, out) \in Seq(Answers) /\ Len(Placed(results, out)) = last
  BY <1>4, <1>5, <1>6
<1>8. last = Top({Len(results)} \cup Peers)
  BY <1>1 DEF last
<1>9. Len(Placed(results, out)) = Top({Len(results)} \cup Peers)
  BY <1>7, <1>8, Zenon
<1>10. /\ Len(results) <= Len(Placed(results, out))
       /\ \A i \in DOMAIN out : i \in 1..Len(Placed(results, out)) \/ i = 0
       /\ \A i \in 1..Len(Placed(results, out)) :
            Placed(results, out)[i] = IF i \in DOMAIN out THEN out[i]
                                      ELSE IF i <= Len(results) THEN results[i] ELSE "pad"
  BY <1>3, <1>4, <1>5, <1>7
<1> QED
  BY <1>7, <1>9, <1>10, Zenon

\* What the peers of a step add to the results and to the history.
LEMMA PeersTyped ==
  ASSUME TypeInv, NEW out \in PeersOutcomes
  PROVE  /\ Finished(out) \in Seq(Answers)
         /\ PeerCalls(out) \in LogType /\ log \o PeerCalls(out) \in LogType
<1>1. Append(state.results, state.response) \in Seq(Answers)
  BY FieldsTyped DEF TypeInv
<1>2. Finished(out) \in Seq(Answers)
  BY <1>1, PlacedTyped DEF Finished
<1>3. DOMAIN out \in SUBSET Nat /\ IsFiniteSet(DOMAIN out)
      /\ \A i \in DOMAIN out : out[i] \in Answers
  BY PeersBounded, Constants DEF PeersOutcomes
<1>4. state.idx \in Nat
  BY FieldsTyped DEF TypeInv
<1>5. \A i \in DOMAIN out : Called(i, state.idx, out[i]) \in [at : Nat, op : Nat, out : Answers]
  BY <1>3, <1>4 DEF Called
<1>6. /\ Cardinality(DOMAIN out) \in Nat
      /\ \A k \in 1..Cardinality(DOMAIN out) :
           PeerCalls(out)[k] \in [at : Nat, op : Nat, out : Answers]
  BY <1>3, <1>5, EveryPeerIsCalled
<1>8. PeerCalls(out) \in LogType
  <2> DEFINE n == Cardinality(DOMAIN out)
             T == [at : Nat, op : Nat, out : Answers]
  <2>1. PeerCalls(out) = [k \in 1..n |-> PeerCalls(out)[k]]
    BY DEF PeerCalls
  <2>2. n \in Nat /\ \A k \in 1..n : PeerCalls(out)[k] \in T
    BY <1>6
  <2> HIDE DEF n, T
  <2>3. PeerCalls(out) \in [1..n -> T]
    BY <2>1, <2>2
  <2>4. PeerCalls(out) \in Seq(T)
    BY <2>2, <2>3
  <2> QED
    BY <2>4 DEF LogType, T
<1>9. log \in LogType
  BY DEF TypeInv
<1>10. log \o PeerCalls(out) \in LogType
  BY <1>8, <1>9, ConcatProperties DEF LogType
<1> QED
  BY <1>2, <1>8, <1>10

\* What the validator leaves in the state, and where its router then goes.
LEMMA ValidatedTyped ==
  ASSUME TypeInv
  PROVE  /\ Validated \in StateType
         /\ Validated.groups = state.groups /\ Validated.iterations = state.iterations
         /\ \A to \in Routes(Validated) :
              /\ to \in Nodes
              /\ to = "retry_node" => Validated.retry = 0
<1>0. state \in StateType /\ DOMAIN state = DOMAIN Fresh
  BY FieldsTyped DEF TypeInv
<1>a. "replan" \in Answers /\ "recov" \in Answers /\ "none" \in Answers
  BY Words
<1>b. /\ state.response \in Answers /\ state.replans \in 0..MaxReplans
      /\ state.results \in Seq(Answers) /\ <<>> \in Seq(Step) /\ <<>> \in Seq(Answers)
      /\ 1 \in Nat \ {0} /\ 0 \in 0..1 /\ 0 \in Nat
  BY <1>0, FieldsTyped
<1>1. CASE ReplansNow
  <2>1. state.replans + 1 \in 0..MaxReplans
    BY <1>1, <1>b, Constants DEF ReplansNow
  <2>2. ReplanReset(state) \in StateType
    BY <1>0, <1>a, <1>b, <2>1, ZenonT(30) DEF ReplanReset, StateType
  <2>3. Validated = ReplanReset(state)
    BY <1>1 DEF Validated
  <2>4. /\ Validated.groups = state.groups /\ Validated.iterations = state.iterations
        /\ Validated.response = "replan"
    BY <1>0, <2>3 DEF ReplanReset, Fresh
  <2>5. \A to \in Routes(Validated) : to = ReplanEntry
    BY <2>4 DEF Routes, Failures
  <2> QED
    BY <2>2, <2>3, <2>4, <2>5, Entries DEF Nodes
<1>2. CASE ~ReplansNow
  <2> DEFINE error == IF state.response = "need" THEN "recov" ELSE state.response
  <2>1. Validated \in {Wrapped(state), state}
    BY <1>2 DEF Validated
  <2>2. Wrapped(state) \in StateType
    <3>1. error \in Answers
      BY <1>a, <1>b
    <3>2. Append(state.results, error) \in Seq(Answers)
      BY <1>b, <3>1
    <3> HIDE DEF error
    <3>3. CASE state.goal
      <4>1. Wrapped(state) = [state EXCEPT !.response = error, !.lastFailure = error,
                                           !.results = Append(state.results, error)]
        BY <3>3 DEF Wrapped, error
      <4>2. [state EXCEPT !.response = error, !.lastFailure = error,
                          !.results = Append(state.results, error)] \in StateType
        BY <1>0, <3>1, <3>2, ZenonT(30) DEF StateType
      <4> QED
        BY <4>1, <4>2
    <3>4. CASE ~state.goal
      <4>1. Wrapped(state) = [state EXCEPT !.response = error]
        BY <3>4 DEF Wrapped, error
      <4>2. [state EXCEPT !.response = error] \in StateType
        BY <1>0, <3>1, ZenonT(30) DEF StateType
      <4> QED
        BY <4>1, <4>2
    <3> QED
      BY <3>3, <3>4
  <2>3. /\ Wrapped(state).groups = state.groups /\ Wrapped(state).iterations = state.iterations
    BY <1>0 DEF Wrapped, Fresh
  <2>4. Validated \in StateType
    BY <1>0, <2>1, <2>2
  <2>5. Validated.retry \in 0..1
    BY <2>4, FieldsTyped
  <2>6. \A to \in Routes(Validated) :
          to \in Nodes /\ (to = "retry_node" => Validated.retry = 0)
    BY <2>5, Entries DEF Routes, Nodes
  <2> QED
    BY <2>1, <2>3, <2>4, <2>6
<1> QED
  BY <1>1, <1>2

LEMMA ExecutingTypes == TypeInv /\ Executing => TypeInv'
<1> SUFFICES ASSUME TypeInv, Executing PROVE TypeInv'
  OBVIOUS
<1>0. /\ state \in StateType /\ DOMAIN state = DOMAIN Fresh /\ turn \in TurnType
      /\ state.idx \in Nat \ {0} /\ state.retry \in 0..1 /\ log \in LogType
  BY FieldsTyped DEF TypeInv
<1>a. ASSUME NEW v \in Answers
      PROVE  [state EXCEPT !.response = v] \in StateType
  BY <1>0, ZenonT(30) DEF StateType
<1>1. CASE PassThrough
  BY <1>0, <1>1, PlainStep DEF PassThrough, Nodes
<1>2. CASE ExecuteNothing
  <2>1. state' \in StateType
    BY <1>2, <1>a, Words DEF ExecuteNothing
  <2>2. /\ node' \in Nodes \ {"retry_node"} /\ UNCHANGED <<log, turn>>
        /\ state'.groups = state.groups /\ state'.iterations = state.iterations
        /\ node = "executor"
    BY <1>0, <1>2 DEF ExecuteNothing, Nodes, Fresh
  <2> QED
    BY <2>1, <2>2, PlainStep
<1>3. CASE ExecuteCall \/ ExecuteFanOut \/ WaitPolls
  <2>1. PICK out \in Answers : Executed(out) /\ node \in {"executor", "wait_node"}
    BY <1>3, Constants, Words DEF ExecuteCall, ExecuteFanOut, WaitPolls
  <2>2. state' \in StateType
    BY <2>1, <1>a DEF Executed
  <2>3. log' \in LogType
    BY <1>0, <2>1 DEF Executed, LogType, Called
  <2>4. /\ node' = "validator" /\ UNCHANGED turn
        /\ state'.groups = state.groups /\ state'.iterations = state.iterations
    BY <1>0, <2>1 DEF Executed, Fresh
  <2> QED
    BY <2>1, <2>2, <2>3, <2>4 DEF TypeInv, Nodes
<1>4. CASE Validator
  <2>1. log' \in LogType
    BY <1>0, <1>4 DEF Validator, LogType
  <2> QED
    BY <1>4, <2>1, ValidatedTyped DEF Validator, TypeInv
<1>5. CASE Retry
  <2>1. PICK unresolved \in BOOLEAN :
          state' = [state EXCEPT !.unresolved = unresolved, !.retry = state.retry + 1,
                                 !.response = "none", !.payload = "none"]
    BY <1>5 DEF Retry
  <2>2. state.retry + 1 \in 0..1 /\ "none" \in Answers
    BY <1>5, Words DEF Retry, TypeInv
  <2>3. state' \in StateType
    BY <1>0, <2>1, <2>2, ZenonT(30) DEF StateType
  <2>4. /\ node' \in Nodes \ {"retry_node"} /\ UNCHANGED <<log, turn>>
        /\ state'.groups = state.groups /\ state'.iterations = state.iterations
        /\ node = "retry_node"
    BY <1>0, <1>5 DEF Retry, Resolution, Nodes, Fresh
  <2> QED
    BY <2>3, <2>4, PlainStep
<1>6. CASE PeersFail \/ Advance \/ NextIsGone \/ Finalise
  <2>1. PICK out \in PeersOutcomes : log' = log \o PeerCalls(out)
                                     /\ state'.results = Finished(out)
    BY <1>0, <1>6 DEF PeersFail, Advance, NextIsGone, Finalise, Fresh
  <2>2. log' \in LogType
    BY <2>1, PeersTyped
  <2>3. LastIndex \in Nat \ {0} /\ NextIndex \in Nat \ {0}
    BY PeersBounded DEF NextIndex
  <2>4. /\ "partial" \in Answers /\ "none" \in Answers /\ "noroute" \in Answers
        /\ "done" \in Answers /\ 0 \in 0..1
    BY Words
  <2>5. state' \in StateType
    <3>1. CASE PeersFail
      <4>1. PICK o \in PeersOutcomes :
              state' = [state EXCEPT !.results = Finished(o), !.idx = LastIndex,
                                     !.response = "partial"]
        BY <3>1 DEF PeersFail
      <4>2. Finished(o) \in Seq(Answers)
        BY PeersTyped
      <4> QED
        BY <1>0, <2>3, <2>4, <4>1, <4>2, ZenonT(30) DEF StateType
    <3>2. CASE Advance
      <4>1. PICK o \in PeersOutcomes :
              state' = [state EXCEPT !.results = Finished(o), !.idx = NextIndex,
                          !.payload = "none", !.response = "none", !.retry = 0]
        BY <3>2 DEF Advance
      <4>2. Finished(o) \in Seq(Answers)
        BY PeersTyped
      <4> QED
        BY <1>0, <2>3, <2>4, <4>1, <4>2, ZenonT(30) DEF StateType
    <3>3. CASE NextIsGone
      <4>1. PICK o \in PeersOutcomes :
              state' = [state EXCEPT !.results = Finished(o), !.response = "noroute"]
        BY <3>3 DEF NextIsGone
      <4>2. Finished(o) \in Seq(Answers)
        BY PeersTyped
      <4> QED
        BY <1>0, <2>4, <4>1, <4>2, ZenonT(30) DEF StateType
    <3>4. CASE Finalise
      <4>1. PICK o \in PeersOutcomes, recorded \in BOOLEAN :
              state' = [state EXCEPT !.results = Finished(o), !.response = "done",
                          !.execution = state.execution \/ (recorded /\ ~state.execution)]
        BY <3>4 DEF Finalise
      <4>2. Finished(o) \in Seq(Answers)
        BY PeersTyped
      <4>3. (state.execution \/ (recorded /\ ~state.execution)) \in BOOLEAN
        OBVIOUS
      <4> QED
        BY <1>0, <2>4, <4>1, <4>2, <4>3, ZenonT(30) DEF StateType
    <3> QED
      BY <1>6, <3>1, <3>2, <3>3, <3>4
  <2>6. /\ state'.groups = state.groups /\ state'.iterations = state.iterations
        /\ node = "step_dispatcher"
        /\ node' \in Nodes \ {"retry_node"}
    BY <1>0, <1>6 DEF PeersFail, Advance, NextIsGone, Finalise, Fresh, Nodes
  <2>7. turn' \in TurnType
    <3>1. \A b \in BOOLEAN : [turn EXCEPT !.misfiled = b] \in TurnType
      BY <1>0 DEF TurnType
    <3>2. turn' = turn \/ \E b \in BOOLEAN : turn' = [turn EXCEPT !.misfiled = b]
      BY <1>0, <1>6 DEF PeersFail, Advance, NextIsGone, Finalise, TurnType
    <3> QED
      BY <1>0, <3>1, <3>2
  <2> QED
    BY <2>2, <2>5, <2>6, <2>7 DEF TypeInv
<1> QED
  BY <1>1, <1>2, <1>3, <1>4, <1>5, <1>6 DEF Executing

LEMMA DecidingTypes == TypeInv /\ Deciding => TypeInv'
<1> SUFFICES ASSUME TypeInv, Deciding PROVE TypeInv'
  OBVIOUS
<1>0. /\ state \in StateType /\ DOMAIN state = DOMAIN Fresh /\ turn \in TurnType
      /\ state.iterations \in 0..MaxIterations /\ state.stalled \in Nat /\ state.repeats \in Nat
      /\ state.response \in Answers /\ state.lastFailure \in Answers
      /\ state.retriages \in 0..MaxRetriages
  BY FieldsTyped DEF TypeInv
<1>a. /\ <<>> \in Seq(Step) /\ <<>> \in Seq(Answers) /\ 1 \in Nat \ {0} /\ "none" \in Answers
      /\ "incomplete" \in Answers /\ "summary" \in Answers /\ 0 \in 0..1
  BY Words
<1>b. \A a, b \in BOOLEAN : Stalled(a, b) \in Nat /\ Repeats(a) \in Nat
  BY <1>0 DEF Stalled, Repeats
<1>c. node = "goap_goal" => state.iterations + 1 \in 0..MaxIterations
  BY <1>0, Constants DEF TypeInv
<1>d. ASSUME NEW a \in BOOLEAN, NEW b \in BOOLEAN, ~LoopIsOver(a, b), node = "goap_goal"
      PROVE  state.iterations + 1 < MaxIterations
  BY <1>0, <1>c, <1>d, Constants DEF LoopIsOver
<1>e. LastFailure \in Answers
  BY <1>0 DEF LastFailure
<1>1. CASE RoundSummary
  BY <1>0, <1>1, PlainStep DEF RoundSummary, Nodes
<1>2. CASE GoalDone
  <2>1. PICK a \in BOOLEAN, b \in BOOLEAN :
          state' = [Tracked(a, b) EXCEPT
                      !.response = IF @ = "none" THEN "incomplete" ELSE @,
                      !.decision = "done", !.repeats = Repeats(a)]
    BY <1>2 DEF GoalDone, Gains
  <2> DEFINE said == IF state.response = "none" THEN "incomplete" ELSE state.response
  <2>2. state' = [state EXCEPT !.iterations = state.iterations + 1, !.stalled = Stalled(a, b),
                    !.response = said, !.decision = "done", !.repeats = Repeats(a)]
    BY <1>0, <2>1 DEF Tracked, Fresh
  <2>3. /\ said \in Answers /\ Stalled(a, b) \in Nat /\ Repeats(a) \in Nat
        /\ state.iterations + 1 \in 0..MaxIterations
    BY <1>0, <1>2, <1>a, <1>b, <1>c DEF GoalDone
  <2> HIDE DEF said
  <2>4. state' \in StateType
    BY <1>0, <2>2, <2>3, ZenonT(30) DEF StateType
  <2>5. state'.groups = state.groups /\ node' = "summary_node" /\ UNCHANGED <<log, turn>>
    BY <1>0, <1>2, <2>2 DEF GoalDone, Fresh
  <2> QED
    BY <2>4, <2>5 DEF TypeInv, Nodes
<1>3. CASE GoalContinues
  <2>1. PICK a \in BOOLEAN, b \in BOOLEAN, failure \in {LastFailure, state.lastFailure} :
          /\ ~LoopIsOver(a, b)
          /\ state' = [Cleared(Tracked(a, b)) EXCEPT
                 !.yaml = FALSE, !.draft = <<>>, !.execution = FALSE, !.decision = "continue",
                 !.repeats = Repeats(a), !.lastFailure = failure]
    BY <1>3 DEF GoalContinues, Gains
  <2>2. state' = [state EXCEPT !.iterations = state.iterations + 1, !.stalled = Stalled(a, b),
                    !.plan = <<>>, !.idx = 1, !.results = <<>>, !.response = "none",
                    !.yaml = FALSE, !.draft = <<>>, !.execution = FALSE, !.decision = "continue",
                    !.repeats = Repeats(a), !.lastFailure = failure]
    BY <2>1 DEF Tracked, Cleared
  <2>3. /\ failure \in Answers /\ Stalled(a, b) \in Nat /\ Repeats(a) \in Nat
        /\ state.iterations + 1 \in 0..MaxIterations /\ state.iterations + 1 < MaxIterations
    BY <1>0, <1>3, <1>b, <1>c, <1>d, <1>e, <2>1 DEF GoalContinues
  <2>4. state' \in StateType
    BY <1>0, <1>a, <2>2, <2>3, ZenonT(30) DEF StateType
  <2>5. /\ state'.groups = state.groups /\ state'.iterations = state.iterations + 1
        /\ node' \in Nodes \ {"retry_node"} /\ log' = <<>> /\ UNCHANGED turn
    BY <1>0, <1>3, <2>2, Entries DEF GoalContinues, Fresh, Nodes
  <2> QED
    BY <2>3, <2>4, <2>5 DEF TypeInv, LogType
<1>4. CASE GoalRetriages
  <2>1. PICK a \in BOOLEAN, b \in BOOLEAN :
          /\ ~LoopIsOver(a, b)
          /\ state' = [Cleared(Tracked(a, b)) EXCEPT
                 !.retriages = @ + 1, !.force = FALSE, !.payload = "none", !.retry = 0,
                 !.decision = "retriage", !.lastFailure = LastFailure]
    BY <1>4 DEF GoalRetriages, Gains
  <2>2. state' = [state EXCEPT !.iterations = state.iterations + 1, !.stalled = Stalled(a, b),
                    !.plan = <<>>, !.idx = 1, !.results = <<>>, !.response = "none",
                    !.retriages = state.retriages + 1, !.force = FALSE, !.payload = "none",
                    !.retry = 0, !.decision = "retriage", !.lastFailure = LastFailure]
    BY <1>0, <2>1 DEF Tracked, Cleared, Fresh
  <2>a. node = "goap_goal" /\ state.retriages < MaxRetriages
    BY <1>4 DEF GoalRetriages
  <2>b. state.retriages + 1 \in 0..MaxRetriages
    BY <1>0, <2>a, Constants
  <2>3. /\ Stalled(a, b) \in Nat /\ state.retriages + 1 \in 0..MaxRetriages
        /\ state.iterations + 1 \in 0..MaxIterations /\ state.iterations + 1 < MaxIterations
    BY <1>b, <1>c, <1>d, <2>1, <2>a, <2>b
  <2>4. state' \in StateType
    BY <1>0, <1>a, <1>e, <2>2, <2>3, ZenonT(30) DEF StateType
  <2>5. /\ state'.groups = state.groups /\ state'.iterations = state.iterations + 1
        /\ node' = "triage" /\ log' = <<>> /\ UNCHANGED turn
    BY <1>0, <1>4, <2>2 DEF GoalRetriages, Fresh
  <2> QED
    BY <2>3, <2>4, <2>5 DEF TypeInv, LogType, Nodes
<1>5. CASE Summary
  <2> DEFINE said == IF state.response = "none" THEN "summary" ELSE state.response
  <2>1. state' = [state EXCEPT !.response = said] /\ said \in Answers
    BY <1>0, <1>5, <1>a DEF Summary
  <2> HIDE DEF said
  <2>2. state' \in StateType
    BY <1>0, <2>1, ZenonT(30) DEF StateType
  <2>3. state'.groups = state.groups /\ node' = "end" /\ UNCHANGED <<log, turn>>
    BY <1>0, <1>5, <2>1 DEF Summary, Fresh
  <2> QED
    BY <2>2, <2>3 DEF TypeInv, Nodes
<1> QED
  BY <1>1, <1>2, <1>3, <1>4, <1>5 DEF Deciding

LEMMA TypeStep == TypeInv /\ [Next]_vars => TypeInv'
<1> SUFFICES ASSUME TypeInv, [Next]_vars PROVE TypeInv'
  OBVIOUS
<1>1. CASE UNCHANGED vars
  BY <1>1 DEF vars, TypeInv
<1>2. CASE Next
  BY <1>2, RoutingTypes, PlanningTypes, PreparingTypes, ExecutingTypes, DecidingTypes DEF Next
<1> QED
  BY <1>1, <1>2

LEMMA Typed == Spec => []TypeInv
<1>1. Init => TypeInv
  BY TypeInit
<1>2. TypeInv /\ [Next]_vars => TypeInv'
  BY TypeStep
<1> QED
  BY <1>1, <1>2, PTL DEF Spec

\* The merged state keeps its fields, and no turn spends more than its budgets: one retry
\* of a step (retry_router), MAX_REPLANS replans, max_iterations rounds of the goal loop and
\* retriage_max new triages, whatever the plans, the calls and the earlier turns were.
THEOREM TurnTyped == Spec => []TypeOK
<1>1. TypeInv => TypeOK
  BY DEF TypeInv, TypeOK, StateType, LogType, TurnType
<1> QED
  BY <1>1, Typed, PTL

---------------------------------------------------------------------------------
(* A step whose call succeeded is not executed again. Before a call, what was tried of *)
(* the step has failed, and only once, as the retry that is then spent; the dispatcher  *)
(* goes on behind everything that was called; and whatever drops a plan drops its calls *)
(* before the gate is reached again.                                                    *)

Tries(calls, i) == {k \in DOMAIN calls : calls[k].at = i}
UpTo(calls, i) == \A k \in DOMAIN calls : calls[k].at <= i
AllFailed(calls, i) == \A k \in Tries(calls, i) : SoftFailure(calls[k].out)
Once(calls, i) == \A j, k \in Tries(calls, i) : j = k

\* Before a step is called: what was tried of it has failed, once at most and only as a retry.
Pending(calls, i, retry) ==
  /\ UpTo(calls, i) /\ AllFailed(calls, i) /\ Once(calls, i)
  /\ retry = 0 => Tries(calls, i) = {}

\* Once it was called or refused: a failed answer is the answer to its last call.
Judged(calls, i, retry, response) ==
  /\ UpTo(calls, i)
  /\ retry = 0 => Once(calls, i)
  /\ SoftFailure(response) => AllFailed(calls, i)

NoRepeats(calls) == \A i, j \in DOMAIN calls :
  i < j /\ calls[i].at = calls[j].at
    => /\ SoftFailure(calls[i].out)
       /\ \A k \in DOMAIN calls \ {i, j} : calls[k].at # calls[i].at

RepeatInv ==
  /\ NoRepeats(log)
  /\ PreparesAStep => Pending(log, state.idx, state.retry)
  /\ node \in {"builder", "wait_node", "executor"} => Pending(log, state.idx, state.retry)
  /\ node = "validator" => Judged(log, state.idx, state.retry, state.response)
  /\ node = "retry_node" => Pending(log, state.idx, 1)
  /\ node = "step_dispatcher" => UpTo(log, state.idx)
  /\ node = "confirm_node" => log = <<>>

\* Nothing was called: nothing is repeated, and every step is pending.
LEMMA EmptyHistory ==
  \A i, retry : NoRepeats(<<>>) /\ Pending(<<>>, i, retry)
BY DEF NoRepeats, Pending, UpTo, AllFailed, Once, Tries

\* Dropping the history leaves nothing to repeat.
LEMMA RepeatsFresh ==
  ASSUME log' = <<>>, node' \notin {"validator", "step_dispatcher"}
  PROVE  RepeatInv'
BY EmptyHistory DEF RepeatInv, PreparesAStep

\* A step that calls nothing and leads to no place where the history is relied on.
LEMMA RepeatsIdle ==
  ASSUME RepeatInv, log' = log,
         node' \notin PastGate \cup {"confirm_node"}
  PROVE  RepeatInv'
BY DEF RepeatInv, PreparesAStep, PastGate

LEMMA RepeatInit == Init => RepeatInv
<1> SUFFICES ASSUME Init PROVE RepeatInv
  OBVIOUS
<1>1. node = "turn_init" /\ log = <<>>
  BY DEF Init
<1> QED
  BY <1>1, EmptyHistory DEF RepeatInv, PreparesAStep

LEMMA RoutingRepeats == RepeatInv /\ Routing => RepeatInv'
<1> SUFFICES ASSUME RepeatInv, Routing PROVE RepeatInv'
  OBVIOUS
<1>1. log' = log /\ node' \notin PastGate \cup {"confirm_node"}
  BY Entries
  DEF Routing, TurnInit, Triage, Chat, SpecialistAnswers, SpecialistFails, PastGate
<1> QED
  BY <1>1, RepeatsIdle

LEMMA PlanningRepeats == RepeatInv /\ Planning => RepeatInv'
<1> SUFFICES ASSUME RepeatInv, Planning PROVE RepeatInv'
  OBVIOUS
<1>1. CASE Decompose \/ Embed \/ PlannerUnreachable \/ AskedInstead \/ Clarified
  <2>1. log' = log /\ node' \notin PastGate \cup {"confirm_node"}
    BY <1>1, Entries
    DEF Decompose, Embed, PlannerUnreachable, AskedInstead, Clarified, PastGate
  <2> QED
    BY <2>1, RepeatsIdle
<1>2. CASE PlanByGoap \/ PlanLinearly \/ NoCandidates
  <2>1. log' = <<>> /\ \E gate : node' = Gated(gate)
    BY <1>2 DEF PlanByGoap, PlanLinearly, NoCandidates, MadePlan
  <2>2. node' \notin {"validator", "step_dispatcher"}
    BY <2>1 DEF Gated
  <2> QED
    BY <2>1, <2>2, RepeatsFresh
<1>3. CASE ConfirmAccepted
  <2>1. log' = <<>> /\ node' = "context_check"
    BY <1>3 DEF ConfirmAccepted, RepeatInv
  <2> QED
    BY <2>1, RepeatsFresh
<1> QED
  BY <1>1, <1>2, <1>3 DEF Planning

LEMMA PreparingRepeats == TypeInv /\ RepeatInv /\ Preparing => RepeatInv'
<1> SUFFICES ASSUME TypeInv, RepeatInv, Preparing PROVE RepeatInv'
  OBVIOUS
<1>0. DOMAIN state = DOMAIN Fresh
  BY FieldsTyped DEF TypeInv
<1>1. CASE ContextCheck \/ ResolverFills \/ PermissionAllows
  <2>1. /\ log' = log /\ state'.idx = state.idx /\ state'.retry = state.retry
        /\ state'.response = state.response
        /\ node \in {"context_check", "step_resolver", "permission_gate"}
        /\ \/ node' \in {"step_resolver", "permission_gate"}
           \/ node' = "builder" /\ state.response = "none"
           \/ node' = "end"
    BY <1>0, <1>1 DEF ContextCheck, Resolution, ResolverFills, PermissionAllows, Fresh
  <2> QED
    BY <2>1 DEF RepeatInv, PreparesAStep
<1>2. CASE ResolverAsks \/ PermissionDenies
  <2>1. log' = log /\ node' \notin PastGate \cup {"confirm_node"}
    BY <1>2 DEF ResolverAsks, PermissionDenies, PastGate
  <2> QED
    BY <2>1, RepeatsIdle
<1>3. CASE CompileFails \/ NothingToBuild \/ BuildRefused \/ Build
  <2>1. /\ log' = log /\ state'.idx = state.idx /\ state'.retry = state.retry
        /\ node = "builder" /\ node' \in {"executor", "wait_node"}
    BY <1>0, <1>3 DEF CompileFails, NothingToBuild, BuildRefused, Build, Fresh
  <2> QED
    BY <2>1 DEF RepeatInv, PreparesAStep
<1> QED
  BY <1>1, <1>2, <1>3 DEF Preparing

\* The call of a step that was not called yet, or once in vain.
LEMMA CallsOnceMore ==
  ASSUME NEW T, NEW calls \in Seq(T), NEW i \in Nat, NEW retry, NEW call, call.at = i,
         NoRepeats(calls), Pending(calls, i, retry)
  PROVE  /\ NoRepeats(Append(calls, call))
         /\ Judged(Append(calls, call), i, retry, call.out)
<1> DEFINE more == Append(calls, call)
           n == Len(calls)
<1>1. n \in Nat /\ DOMAIN calls = 1..n /\ DOMAIN more = 1..(n + 1)
  OBVIOUS
<1>2. /\ \A k \in 1..n : more[k] = calls[k]
      /\ more[n + 1] = call
  OBVIOUS
<1>3. \A k \in 1..(n + 1) : k \in 1..n \/ k = n + 1
  BY <1>1
<1> HIDE DEF more, n
<1>4. NoRepeats(more)
  <2> SUFFICES ASSUME NEW j \in 1..(n + 1), NEW k \in 1..(n + 1), j < k,
                      more[j].at = more[k].at
               PROVE  /\ SoftFailure(more[j].out)
                      /\ \A l \in (1..(n + 1)) \ {j, k} : more[l].at # more[j].at
    BY <1>1 DEF NoRepeats
  <2>1. j \in 1..n
    BY <1>1
  <2>2. CASE k \in 1..n
    <3>1. /\ SoftFailure(calls[j].out)
          /\ \A l \in (1..n) \ {j, k} : calls[l].at # calls[j].at
      BY <1>1, <1>2, <2>1, <2>2 DEF NoRepeats
    <3>2. calls[j].at # i
      <4> SUFFICES ASSUME calls[j].at = i PROVE FALSE
        OBVIOUS
      <4>1. j \in Tries(calls, i) /\ k \in Tries(calls, i)
        BY <1>1, <1>2, <2>1, <2>2 DEF Tries
      <4> QED
        BY <4>1, <1>1 DEF Pending, Once
    <3> QED
      BY <1>2, <1>3, <2>1, <3>1, <3>2
  <2>3. CASE k = n + 1
    <3>1. j \in Tries(calls, i)
      BY <1>1, <1>2, <2>1, <2>3 DEF Tries
    <3>2. SoftFailure(calls[j].out) /\ \A l \in Tries(calls, i) : l = j
      BY <3>1 DEF Pending, AllFailed, Once
    <3>3. \A l \in 1..n : l # j => calls[l].at # i
      BY <1>1, <3>2 DEF Tries
    <3> QED
      BY <1>2, <1>3, <2>1, <2>3, <3>2, <3>3
  <2> QED
    BY <1>3, <2>2, <2>3
<1>5. Judged(more, i, retry, call.out)
  <2>1. UpTo(more, i)
    BY <1>1, <1>2, <1>3 DEF UpTo, Pending
  <2>2. \A k \in Tries(more, i) : k \in Tries(calls, i) \/ k = n + 1
    BY <1>1, <1>2, <1>3 DEF Tries
  <2>3. retry = 0 => Once(more, i)
    BY <2>2 DEF Once, Pending
  <2>4. SoftFailure(call.out) => AllFailed(more, i)
    <3> SUFFICES ASSUME SoftFailure(call.out), NEW k \in Tries(more, i)
                 PROVE  SoftFailure(more[k].out)
      BY DEF AllFailed
    <3>1. CASE k = n + 1
      BY <1>2, <3>1
    <3>2. CASE k \in Tries(calls, i)
      BY <1>1, <1>2, <3>2 DEF Pending, AllFailed, Tries
    <3> QED
      BY <2>2, <3>1, <3>2
  <2> QED
    BY <2>1, <2>3, <2>4 DEF Judged
<1> QED
  BY <1>4, <1>5 DEF more

\* Calls of other steps behind those that were called, each once.
LEMMA CallsOthers ==
  ASSUME NEW T, NEW calls \in Seq(T), NEW i \in Nat, NEW more \in Seq(T),
         NoRepeats(calls), UpTo(calls, i), \A k \in DOMAIN calls : calls[k].at \in Nat,
         \A k \in DOMAIN more : more[k].at \in Nat /\ i < more[k].at,
         \A k, l \in DOMAIN more : more[k].at = more[l].at => k = l
  PROVE  NoRepeats(calls \o more)
<1> DEFINE all == calls \o more
           n == Len(calls)
           m == Len(more)
<1>1. /\ n \in Nat /\ m \in Nat /\ DOMAIN calls = 1..n /\ DOMAIN more = 1..m
      /\ DOMAIN all = 1..(n + m)
  BY ConcatProperties
<1>2. /\ \A k \in 1..n : all[k] = calls[k]
      /\ \A k \in 1..m : all[n + k] = more[k]
  BY ConcatProperties
<1>3. \A k \in 1..(n + m) : k \in 1..n \/ (k - n \in 1..m /\ n + (k - n) = k)
  BY <1>1
<1> HIDE DEF all, n, m
<1>4. \A k \in 1..n : all[k].at \in Nat /\ all[k].at <= i
  BY <1>1, <1>2 DEF UpTo
<1>5. ASSUME NEW k \in 1..(n + m), k \notin 1..n
      PROVE  all[k].at \in Nat /\ i < all[k].at /\ all[k] = more[k - n]
  <2>1. k - n \in 1..m /\ n + (k - n) = k
    BY <1>3, <1>5
  <2>2. all[k] = more[k - n]
    BY <1>2, <2>1
  <2> QED
    BY <1>1, <2>1, <2>2
<1> SUFFICES ASSUME NEW j \in 1..(n + m), NEW k \in 1..(n + m), j < k, all[j].at = all[k].at
             PROVE  /\ SoftFailure(all[j].out)
                    /\ \A l \in (1..(n + m)) \ {j, k} : all[l].at # all[j].at
  BY <1>1 DEF NoRepeats, all
<1>6. all[j].at \in Nat
  BY <1>4, <1>5
<1>7. CASE k \in 1..n
  <2>1. j \in 1..n
    BY <1>1, <1>7
  <2>2. /\ SoftFailure(calls[j].out)
        /\ \A l \in (1..n) \ {j, k} : calls[l].at # calls[j].at
    BY <1>1, <1>2, <1>7, <2>1 DEF NoRepeats
  <2>3. \A l \in 1..(n + m) : l \notin 1..n => all[l].at # all[j].at
    BY <1>4, <1>5, <2>1
  <2> QED
    BY <1>2, <2>1, <2>2, <2>3
<1>8. CASE k \notin 1..n
  <2>1. j \notin 1..n
    BY <1>4, <1>5, <1>8, <1>1, <1>2, <1>3
  <2>2. j - n \in 1..m /\ k - n \in 1..m /\ more[j - n].at = more[k - n].at
    BY <1>3, <1>5, <1>8, <2>1
  <2> QED
    BY <1>1, <2>2
<1> QED
  BY <1>7, <1>8

\* What is said of both parts of a history is said of the whole.
LEMMA BehindEachOther ==
  ASSUME NEW T, NEW calls \in Seq(T), NEW more \in Seq(T), NEW k \in DOMAIN (calls \o more)
  PROVE  \/ k \in DOMAIN calls /\ (calls \o more)[k] = calls[k]
         \/ \E l \in DOMAIN more : (calls \o more)[k] = more[l]
<1> DEFINE all == calls \o more
           n == Len(calls)
           m == Len(more)
<1>1. /\ n \in Nat /\ m \in Nat /\ DOMAIN calls = 1..n /\ DOMAIN more = 1..m
      /\ DOMAIN all = 1..(n + m)
  BY ConcatProperties
<1>2. /\ \A j \in 1..n : all[j] = calls[j]
      /\ \A j \in 1..m : all[n + j] = more[j]
  BY ConcatProperties
<1>3. k \in 1..(n + m)
  BY <1>1
<1> HIDE DEF all, n, m
<1>4. CASE k \in 1..n
  BY <1>1, <1>2, <1>4 DEF all
<1>5. CASE k \notin 1..n
  <2>1. k - n \in 1..m /\ n + (k - n) = k
    BY <1>1, <1>3, <1>5
  <2> QED
    BY <1>1, <1>2, <2>1 DEF all
<1> QED
  BY <1>4, <1>5

\* The peers come after the step that has just finished, each is called once.
LEMMA PeersAhead ==
  ASSUME TypeInv, NEW out \in PeersOutcomes
  PROVE  /\ PeerCalls(out) \in LogType /\ DOMAIN out = Peers
         /\ \A k \in DOMAIN PeerCalls(out) :
              /\ PeerCalls(out)[k].at \in Peers /\ PeerCalls(out)[k].at \in Nat
              /\ PeerCalls(out)[k].out = out[PeerCalls(out)[k].at]
              /\ state.idx < PeerCalls(out)[k].at /\ PeerCalls(out)[k].at <= LastIndex
         /\ \A i \in Peers : \E k \in DOMAIN PeerCalls(out) :
              PeerCalls(out)[k] = Called(i, state.idx, out[i])
         /\ \A k, l \in DOMAIN PeerCalls(out) :
              PeerCalls(out)[k].at = PeerCalls(out)[l].at => k = l
<1>0. state.idx \in Nat /\ state.groups \in SUBSET SUBSET Nat
  BY FieldsTyped DEF TypeInv
<1>1. DOMAIN out = Peers
  BY DEF PeersOutcomes
<1>2. Peers \in SUBSET Nat /\ IsFiniteSet(Peers) /\ \A j \in Peers : j <= LastIndex
  BY PeersBounded
<1>3. \A j \in Peers : state.idx < j
  <2>1. ASSUME NEW i \in Nat, NEW g \in GroupsFrom(i), NEW j \in g
        PROVE  i <= j /\ j \in Nat
    BY <1>0, <2>1, LeastMember DEF GroupsFrom
  <2> SUFFICES ASSUME NEW j \in Peers PROVE state.idx < j
    OBVIOUS
  <2>2. CASE GroupsFrom(state.idx) # {}
    <3>0. j \in (UNION GroupsFrom(state.idx)) \ {state.idx}
      BY <2>2, Zenon DEF Peers
    <3>1. PICK g \in GroupsFrom(state.idx) : j \in g /\ j # state.idx
      BY <3>0, Zenon
    <3>2. state.idx <= j /\ j \in Nat
      BY <1>0, <2>1, <3>1
    <3> QED
      BY <1>0, <3>1, <3>2
  <2>3. CASE GroupsFrom(state.idx) = {}
    <3>1. PICK g \in GroupsFrom(state.idx + 1) : j \in g
      BY <2>3 DEF Peers
    <3>2. state.idx + 1 \in Nat
      BY <1>0
    <3>3. state.idx + 1 <= j /\ j \in Nat
      BY <2>1, <3>1, <3>2
    <3> QED
      BY <1>0, <3>3
  <2> QED
    BY <2>2, <2>3
<1>4. PeerCalls(out) \in LogType
  BY PeersTyped
<1>5. /\ Len(PeerCalls(out)) = Cardinality(Peers)
      /\ \A k \in 1..Cardinality(Peers) : \E i \in Peers :
           PeerCalls(out)[k] = Called(i, state.idx, out[i])
      /\ \A i \in Peers : \E k \in 1..Cardinality(Peers) :
           PeerCalls(out)[k] = Called(i, state.idx, out[i])
      /\ \A k, l \in 1..Cardinality(Peers) :
           PeerCalls(out)[k].at = PeerCalls(out)[l].at => k = l
  BY <1>1, <1>2, EveryPeerIsCalled
<1>6. DOMAIN PeerCalls(out) = 1..Cardinality(Peers)
  BY <1>4, <1>5 DEF LogType
<1>7. \A k \in DOMAIN PeerCalls(out) : \E i \in Peers :
        PeerCalls(out)[k] = Called(i, state.idx, out[i])
  BY <1>5, <1>6
<1>8. \A i : Called(i, state.idx, out[i]).at = i /\ Called(i, state.idx, out[i]).out = out[i]
  BY DEF Called
<1>9. \A k \in DOMAIN PeerCalls(out) :
        /\ PeerCalls(out)[k].at \in Peers /\ PeerCalls(out)[k].at \in Nat
        /\ PeerCalls(out)[k].out = out[PeerCalls(out)[k].at]
        /\ state.idx < PeerCalls(out)[k].at /\ PeerCalls(out)[k].at <= LastIndex
  <2> HIDE DEF Peers
  <2> QED
    BY <1>2, <1>3, <1>7, <1>8
<1> HIDE DEF Peers
<1> QED
  BY <1>1, <1>4, <1>5, <1>6, <1>9

LEMMA ExecutingRepeats == TypeInv /\ RepeatInv /\ Executing => RepeatInv'
<1> SUFFICES ASSUME TypeInv, RepeatInv, Executing PROVE RepeatInv'
  OBVIOUS
<1>0. /\ DOMAIN state = DOMAIN Fresh /\ state.idx \in Nat /\ state.retry \in 0..1
      /\ log \in LogType
  BY FieldsTyped DEF TypeInv
<1>1. CASE PassThrough \/ ExecuteNothing
  <2>1. /\ log' = log /\ state'.idx = state.idx /\ state'.retry = state.retry
        /\ node = "executor" /\ node' = "validator"
    BY <1>0, <1>1 DEF PassThrough, ExecuteNothing, Fresh
  <2> QED
    BY <2>1 DEF RepeatInv, PreparesAStep, Pending, Judged, Once
<1>2. CASE ExecuteCall \/ ExecuteFanOut \/ WaitPolls
  <2>1. PICK out : Executed(out)
    BY <1>2 DEF ExecuteCall, ExecuteFanOut, WaitPolls
  <2>2. /\ log' = Append(log, Called(state.idx, state.idx, out)) /\ node' = "validator"
        /\ state'.idx = state.idx /\ state'.retry = state.retry /\ state'.response = out
    BY <1>0, <2>1 DEF Executed, Fresh
  <2>3. Pending(log, state.idx, state.retry) /\ NoRepeats(log)
    BY <1>2 DEF ExecuteCall, ExecuteFanOut, WaitPolls, RepeatInv
  <2>4. /\ Called(state.idx, state.idx, out).at = state.idx
        /\ Called(state.idx, state.idx, out).out = out
    BY DEF Called
  <2>5. NoRepeats(log') /\ Judged(log', state.idx, state.retry, out)
    BY <1>0, <2>2, <2>3, <2>4, CallsOnceMore DEF LogType
  <2> QED
    BY <2>2, <2>5 DEF RepeatInv, PreparesAStep
<1>3. CASE Validator
  <2>1. CASE ReplansNow
    <3>1. log' = <<>> /\ node' \in Routes(Validated) /\ Validated = ReplanReset(state)
      BY <1>3, <2>1 DEF Validator, Validated
    <3>2. Validated.response = "replan"
      BY <1>0, <3>1 DEF ReplanReset, Fresh
    <3>3. \A to \in Routes(Validated) : to = ReplanEntry
      BY <3>2 DEF Routes, Failures
    <3> QED
      BY <3>1, <3>3, Entries, RepeatsFresh
  <2>2. CASE ~ReplansNow
    <3>1. /\ log' = log /\ node' \in Routes(Validated) /\ state' = Validated
          /\ node = "validator"
      BY <1>3, <2>2 DEF Validator
    <3>2. /\ Validated.idx = state.idx /\ Validated.retry = state.retry
          /\ Validated.response \in Failures => SoftFailure(state.response)
      <4>1. \/ Terminal /\ Validated = Wrapped(state)
            \/ Validated = state
        BY <2>2 DEF Validated
      <4>2. Wrapped(state).idx = state.idx /\ Wrapped(state).retry = state.retry
        BY <1>0 DEF Wrapped, Fresh
      <4> QED
        BY <4>1, <4>2 DEF Terminal, SoftFailure
    <3>3. node' \in {ReplanEntry, "end", "goap_goal", "step_dispatcher"}
          \/ (node' = "retry_node" /\ Validated.response \in Failures /\ Validated.retry < 1)
      BY <3>1 DEF Routes, Failures
    <3>4. state.retry < 1 => state.retry = 0
      BY <1>0
    <3>5. Judged(log, state.idx, state.retry, state.response) /\ NoRepeats(log)
      BY <3>1 DEF RepeatInv
    <3> QED
      BY <3>1, <3>2, <3>3, <3>4, <3>5, Entries DEF RepeatInv, PreparesAStep, Judged, Pending
  <2> QED
    BY <2>1, <2>2
<1>4. CASE Retry
  <2>1. /\ log' = log /\ state'.idx = state.idx /\ state'.retry = 1
        /\ node = "retry_node" /\ node' \in {"step_resolver", "permission_gate"}
    BY <1>0, <1>4 DEF Retry, Resolution, Fresh, TypeInv
  <2> QED
    BY <2>1 DEF RepeatInv, PreparesAStep
<1>5. CASE PeersFail \/ Advance \/ NextIsGone \/ Finalise
  <2>1. PICK out \in PeersOutcomes : log' = log \o PeerCalls(out)
    BY <1>5 DEF PeersFail, Advance, NextIsGone, Finalise
  <2>2. /\ node = "step_dispatcher"
        /\ \/ node' \in {"goap_goal", "end", "round_summary"}
           \/ node' = "context_check" /\ state'.response # "none"
           \/ /\ node' = "context_check" /\ state'.idx = NextIndex /\ state'.retry = 0
    BY <1>0, <1>5 DEF PeersFail, Advance, NextIsGone, Finalise, Fresh
  <2>3. UpTo(log, state.idx) /\ NoRepeats(log)
    BY <2>2 DEF RepeatInv
  <2>4. /\ PeerCalls(out) \in LogType
        /\ \A k \in DOMAIN PeerCalls(out) :
             /\ PeerCalls(out)[k].at \in Nat /\ state.idx < PeerCalls(out)[k].at
             /\ PeerCalls(out)[k].at <= LastIndex
        /\ \A k, l \in DOMAIN PeerCalls(out) :
             PeerCalls(out)[k].at = PeerCalls(out)[l].at => k = l
    BY PeersAhead
  <2>5. \A k \in DOMAIN log : log[k].at \in Nat
    <3> DEFINE T == [at : Nat, op : Nat, out : Answers]
    <3>0. log \in Seq(T)
      BY <1>0 DEF LogType
    <3> HIDE DEF T
    <3>1. \A k \in DOMAIN log : log[k] \in T
      BY <3>0
    <3> USE DEF T
    <3> QED
      BY <3>1
  <2>6. NoRepeats(log')
    BY <1>0, <2>1, <2>3, <2>4, <2>5, CallsOthers DEF LogType
  <2>7. \A k \in DOMAIN log' : log'[k].at \in Nat /\ log'[k].at < NextIndex
    <3>1. \A k \in DOMAIN log : log[k].at < NextIndex
      BY <1>0, <2>3, <2>5, PeersBounded DEF UpTo, NextIndex
    <3>2. \A k \in DOMAIN PeerCalls(out) : PeerCalls(out)[k].at < NextIndex
      BY <2>4, PeersBounded DEF NextIndex
    <3> QED
      BY <1>0, <2>1, <2>4, <2>5, <3>1, <3>2, BehindEachOther DEF LogType
  <2>8. Pending(log', NextIndex, 0)
    <3>1. NextIndex \in Nat
      BY PeersBounded DEF NextIndex
    <3> QED
      BY <2>7, <3>1 DEF Pending, UpTo, AllFailed, Once, Tries
  <2> QED
    BY <2>2, <2>6, <2>8 DEF RepeatInv, PreparesAStep
<1> QED
  BY <1>1, <1>2, <1>3, <1>4, <1>5 DEF Executing

LEMMA DecidingRepeats == RepeatInv /\ Deciding => RepeatInv'
<1> SUFFICES ASSUME RepeatInv, Deciding PROVE RepeatInv'
  OBVIOUS
<1>1. CASE RoundSummary \/ GoalDone \/ Summary
  <2>1. log' = log /\ node' \notin PastGate \cup {"confirm_node"}
    BY <1>1 DEF RoundSummary, GoalDone, Summary, PastGate
  <2> QED
    BY <2>1, RepeatsIdle
<1>2. CASE GoalContinues \/ GoalRetriages
  <2>1. log' = <<>> /\ node' \notin {"validator", "step_dispatcher"}
    BY <1>2, Entries DEF GoalContinues, GoalRetriages
  <2> QED
    BY <2>1, RepeatsFresh
<1> QED
  BY <1>1, <1>2 DEF Deciding

LEMMA RepeatStep == TypeInv /\ RepeatInv /\ [Next]_vars => RepeatInv'
<1> SUFFICES ASSUME TypeInv, RepeatInv, [Next]_vars PROVE RepeatInv'
  OBVIOUS
<1>1. CASE UNCHANGED vars
  BY <1>1 DEF vars, RepeatInv, PreparesAStep
<1>2. CASE Next
  BY <1>2, RoutingRepeats, PlanningRepeats, PreparingRepeats, ExecutingRepeats, DecidingRepeats
  DEF Next
<1> QED
  BY <1>1, <1>2

\* A call that succeeded is never made again for the running plan, and a failed one once at
\* most: the retries of retry_node, the peers of the dispatcher and its next index together
\* never come back to a step, for any plan and any grouping of its steps.
THEOREM FailuresOnlyAreRepeated == Spec => []RepeatsOnlyFailures
<1>1. Init => RepeatInv
  BY RepeatInit
<1>2. TypeInv /\ RepeatInv /\ [Next]_vars => RepeatInv'
  BY RepeatStep
<1>3. RepeatInv => RepeatsOnlyFailures
  BY DEF RepeatInv, NoRepeats, RepeatsOnlyFailures
<1> QED
  BY <1>1, <1>2, <1>3, Typed, PTL DEF Spec

---------------------------------------------------------------------------------
(* A plan is run as PlanRun promises. Everything before the current step is done, also *)
(* behind a group, because its last peer is behind all others and no foreign step lies  *)
(* between them: that is what the levels of the plan must see to. A finished plan is    *)
(* reported from the dispatcher only, and what the builder compiles begins a new run    *)
(* since nothing was called without a plan.                                             *)

\* No step lies between two of a group without being in it. derive_parallel_groups does not
\* see to that: the steps of one level may enclose one of another.
Contiguous(groups) == \A g \in groups : \A i, k \in g : i..k \subseteq g

Done(calls) == {calls[k].at : k \in {i \in DOMAIN calls : ~SoftFailure(calls[i].out)}}

\* Only a step of its own group is open before a step that is done.
DoneInOrder(steps, groups, done) == \A i \in done \cap steps : \A j \in steps \ done :
  j < i => \E g \in groups : {i, j} \subseteq g

NoPlanYet == {"turn_init", "triage", "chat_node", "specialist_entry", "decompose",
              "embedder", "planner", "clarify_node", "confirm_node"}
Gone == PastGate \cup {"confirm_node"}
Reported == {"round_summary", "goap_goal", "summary_node", "end"}

RunInv ==
  /\ Contiguous(state.groups)
  /\ node \in Gone /\ state.plan = <<>> => state.groups = {}
  /\ state.response = "done" => node \in Reported
  /\ node \in NoPlanYet => log = <<>>
  /\ Compiles => log = <<>>
  /\ node = "builder" => state.response = "none"
  /\ node = "executor" => /\ state.response = "none" \/ SoftFailure(state.response)
                          /\ state.response = "none" => ~Compiles
  /\ node = "wait_node" => ~Compiles
  /\ node = "validator" => /\ state.response # "replan"
                           /\ SoftFailure(state.response) \/ state.idx \in Done(log)
  /\ node = "step_dispatcher" => state.idx \in Done(log)
  /\ node \in Gone => 1..(state.idx - 1) \subseteq Done(log)
  /\ DoneInOrder(DOMAIN state.plan, state.groups, Done(log))

\* What a call adds to the steps that are done.
LEMMA DoneByCall ==
  ASSUME NEW T, NEW calls \in Seq(T), NEW call
  PROVE  Done(Append(calls, call))
           = Done(calls) \cup (IF SoftFailure(call.out) THEN {} ELSE {call.at})
<1> DEFINE more == Append(calls, call)
           n == Len(calls)
<1>1. n \in Nat /\ DOMAIN calls = 1..n /\ DOMAIN more = 1..(n + 1)
  OBVIOUS
<1>2. /\ \A k \in 1..n : more[k] = calls[k]
      /\ more[n + 1] = call
  OBVIOUS
<1>3. \A k \in 1..(n + 1) : k \in 1..n \/ k = n + 1
  BY <1>1
<1>4. \A k \in 1..n : k \in 1..(n + 1)
  BY <1>1
<1>5. n + 1 \in 1..(n + 1)
  BY <1>1
<1> HIDE DEF more, n
<1>6. ASSUME NEW i \in Done(more)
      PROVE  i \in Done(calls) \cup (IF SoftFailure(call.out) THEN {} ELSE {call.at})
  <2>1. PICK k \in 1..(n + 1) : ~SoftFailure(more[k].out) /\ i = more[k].at
    BY <1>1, <1>6 DEF Done
  <2>2. CASE k = n + 1
    BY <1>2, <2>1, <2>2
  <2>3. CASE k \in 1..n
    BY <1>1, <1>2, <2>1, <2>3 DEF Done
  <2> QED
    BY <1>3, <2>2, <2>3
<1>7. ASSUME NEW i \in Done(calls) PROVE i \in Done(more)
  BY <1>1, <1>2, <1>4, <1>7 DEF Done
<1>8. ~SoftFailure(call.out) => call.at \in Done(more)
  BY <1>1, <1>2, <1>5 DEF Done
<1> QED
  BY <1>6, <1>7, <1>8 DEF more

\* What the peers add to them.
LEMMA DoneByPeers ==
  ASSUME TypeInv, NEW out \in PeersOutcomes
  PROVE  Done(log \o PeerCalls(out)) = Done(log) \cup {i \in Peers : ~SoftFailure(out[i])}
<1> DEFINE more == PeerCalls(out)
           all == log \o more
           n == Len(log)
           m == Len(more)
<1>0. log \in LogType /\ more \in LogType
  BY PeersAhead DEF TypeInv
<1>1. /\ n \in Nat /\ m \in Nat /\ DOMAIN log = 1..n /\ DOMAIN more = 1..m
      /\ DOMAIN all = 1..(n + m)
  BY <1>0, ConcatProperties DEF LogType
<1>2. /\ \A k \in 1..n : all[k] = log[k]
      /\ \A k \in 1..m : all[n + k] = more[k]
  BY <1>0, ConcatProperties DEF LogType
<1>3. /\ \A k \in DOMAIN more : more[k].at \in Peers /\ more[k].out = out[more[k].at]
      /\ \A i \in Peers : \E k \in DOMAIN more : more[k] = Called(i, state.idx, out[i])
  BY PeersAhead
<1>a. \A k \in DOMAIN all : \/ k \in DOMAIN log /\ all[k] = log[k]
                            \/ \E l \in DOMAIN more : all[k] = more[l]
  BY <1>0, BehindEachOther DEF LogType
<1>b. /\ \A k \in 1..n : k \in 1..(n + m)
      /\ \A k \in 1..m : n + k \in 1..(n + m)
  BY <1>1
<1> HIDE DEF all, more, n, m, Peers
<1>4. ASSUME NEW i \in Done(all)
      PROVE  i \in Done(log) \cup {j \in Peers : ~SoftFailure(out[j])}
  <2>1. PICK k \in DOMAIN all : ~SoftFailure(all[k].out) /\ i = all[k].at
    BY <1>4 DEF Done
  <2>2. CASE k \in DOMAIN log /\ all[k] = log[k]
    BY <2>1, <2>2 DEF Done
  <2>3. CASE \E l \in DOMAIN more : all[k] = more[l]
    BY <1>3, <2>1, <2>3
  <2> QED
    BY <1>a, <2>2, <2>3
<1>5. ASSUME NEW i \in Done(log) PROVE i \in Done(all)
  BY <1>1, <1>2, <1>5, <1>b DEF Done
<1>6. ASSUME NEW i \in Peers, ~SoftFailure(out[i]) PROVE i \in Done(all)
  <2>1. PICK k \in 1..m : more[k] = Called(i, state.idx, out[i])
    BY <1>1, <1>3
  <2>2. all[n + k].at = i /\ all[n + k].out = out[i] /\ n + k \in DOMAIN all
    BY <1>1, <1>2, <1>b, <2>1 DEF Called
  <2> QED
    BY <1>6, <2>2 DEF Done
<1> QED
  BY <1>4, <1>5, <1>6 DEF all, more

\* Between the finished step and one of its peers there are only peers of the same group.
LEMMA PeersAdjoin ==
  ASSUME TypeInv, Contiguous(state.groups), NEW i \in Peers, NEW j \in Nat,
         state.idx < j, j < i
  PROVE  j \in Peers /\ \E g \in state.groups : {i, j} \subseteq g
<1>0. state.idx \in Nat /\ state.groups \in SUBSET SUBSET Nat
  BY FieldsTyped DEF TypeInv
<1>1. ASSUME NEW f \in Nat, NEW g \in GroupsFrom(f), i \in g, f <= j
      PROVE  j \in g /\ g \in state.groups
  <2>1. g \in state.groups /\ f \in g /\ g \in SUBSET Nat
    BY <1>0, <1>1 DEF GroupsFrom
  <2>2. j \in f..i
    BY <1>1, <2>1
  <2>3. f..i \subseteq g
    BY <1>1, <2>1 DEF Contiguous
  <2> QED
    BY <2>1, <2>2, <2>3
<1>2. CASE GroupsFrom(state.idx) # {}
  <2>0. Peers = (UNION GroupsFrom(state.idx)) \ {state.idx}
    BY <1>2, Zenon DEF Peers
  <2>1. PICK g \in GroupsFrom(state.idx) : i \in g
    BY <2>0, Zenon
  <2>2. state.idx <= j /\ j # state.idx
    BY <1>0
  <2>3. j \in g /\ g \in state.groups
    BY <1>0, <1>1, <2>1, <2>2
  <2> QED
    BY <2>0, <2>1, <2>2, <2>3, Zenon
<1>3. CASE GroupsFrom(state.idx) = {}
  <2>0. Peers = UNION GroupsFrom(state.idx + 1)
    BY <1>3, Zenon DEF Peers
  <2>1. PICK g \in GroupsFrom(state.idx + 1) : i \in g
    BY <2>0, Zenon
  <2>2. state.idx + 1 <= j /\ state.idx + 1 \in Nat
    BY <1>0
  <2>3. j \in g /\ g \in state.groups
    BY <1>1, <2>1, <2>2
  <2> QED
    BY <2>0, <2>1, <2>3, Zenon
<1> QED
  BY <1>2, <1>3

\* Behind the finished step and its peers nothing is left open.
LEMMA AllUpToLast ==
  ASSUME TypeInv, Contiguous(state.groups), NEW done,
         1..(state.idx - 1) \subseteq done, state.idx \in done, Peers \subseteq done
  PROVE  1..LastIndex \subseteq done
<1>0. state.idx \in Nat /\ LastIndex \in Nat /\ LastIndex \in {state.idx} \cup Peers
  BY FieldsTyped, PeersBounded DEF TypeInv
<1> SUFFICES ASSUME NEW j \in 1..LastIndex PROVE j \in done
  OBVIOUS
<1>1. CASE j < state.idx
  BY <1>0, <1>1
<1>2. CASE state.idx < j
  <2>1. LastIndex \in Peers
    BY <1>0, <1>2
  <2>2. j < LastIndex \/ j = LastIndex
    BY <1>0
  <2> HIDE DEF Peers, LastIndex
  <2> QED
    BY <1>0, <1>2, <2>1, <2>2, PeersAdjoin
<1> QED
  BY <1>0, <1>1, <1>2

\* A step that calls nothing, keeps the plan and leads to no place past the gate.
LEMMA RunIdle ==
  ASSUME RunInv, log' = log, state'.plan = state.plan, state'.groups = state.groups,
         state'.yaml = state.yaml, node' \notin Gone,
         node' \in NoPlanYet => node \in NoPlanYet,
         state'.response = "done" => state.response = "done" /\ node' \in Reported
  PROVE  RunInv'
BY DEF RunInv, Gone, PastGate, Compiles

\* A step that drops the plan and its history.
LEMMA RunDropped ==
  ASSUME RunInv, log' = <<>>, state'.plan = <<>>, state'.groups \in {state.groups, {}},
         node' \notin Gone, state'.response # "done"
  PROVE  RunInv'
<1>1. Done(<<>>) = {}
  BY DEF Done
<1>2. Contiguous(state'.groups)
  BY DEF RunInv, Contiguous
<1> QED
  BY <1>1, <1>2 DEF RunInv, Gone, PastGate, Compiles, DoneInOrder

\* A new plan, or none, goes to the gate.
LEMMA RunPlanned ==
  ASSUME log' = <<>>, Contiguous(state'.groups), state'.plan = <<>> => state'.groups = {},
         state'.idx = 1, state'.response = "none",
         node' \in {"context_check", "confirm_node", "clarify_node"}
  PROVE  RunInv'
<1>1. Done(<<>>) = {}
  BY DEF Done
<1>2. 1..(state'.idx - 1) = {}
  OBVIOUS
<1> QED
  BY <1>1, <1>2 DEF RunInv, Compiles, DoneInOrder, NoPlanYet, Reported

\* The levels of a plan never enclose a step of another level.
LevelsInOrder == \A steps \in GoapPlans : Contiguous(Groups(steps))

LEMMA RunInit == Init => RunInv
<1> SUFFICES ASSUME Init PROVE RunInv
  OBVIOUS
<1>1. PICK force \in BOOLEAN, goal \in BOOLEAN, replans \in 0..MaxReplans,
           repeats \in KeptRepeats :
        /\ node = "turn_init" /\ log = <<>>
        /\ state = [Fresh EXCEPT !.force = force, !.goal = goal, !.replans = replans,
                                 !.repeats = repeats]
  BY DEF Init
<1>2. state.groups = {} /\ state.plan = <<>> /\ state.response = "none"
  BY <1>1 DEF Fresh
<1>3. Contiguous({}) /\ DoneInOrder(DOMAIN <<>>, {}, Done(<<>>))
  BY DEF Contiguous, DoneInOrder
<1> QED
  BY <1>1, <1>2, <1>3 DEF RunInv, Gone, PastGate

LEMMA RoutingRuns == TypeInv /\ RunInv /\ Routing => RunInv'
<1> SUFFICES ASSUME TypeInv, RunInv, Routing PROVE RunInv'
  OBVIOUS
<1>0. DOMAIN state = DOMAIN Fresh
  BY FieldsTyped DEF TypeInv
<1>1. CASE TurnInit
  <2>1. /\ log' = <<>> /\ state'.plan = <<>> /\ state'.groups = {} /\ node' \notin Gone
        /\ state'.response # "done"
    BY <1>0, <1>1 DEF TurnInit, RunInv, NoPlanYet, Gone, PastGate, Fresh
  <2> QED
    BY <2>1, RunDropped
<1>2. CASE Triage \/ Chat \/ SpecialistAnswers \/ SpecialistFails
  <2>1. /\ log' = log /\ state'.plan = state.plan /\ state'.groups = state.groups
        /\ state'.yaml = state.yaml /\ node' \notin Gone /\ node \in NoPlanYet
        /\ state'.response # "done"
    BY <1>0, <1>2, Entries
    DEF Triage, Chat, SpecialistAnswers, SpecialistFails, RunInv, NoPlanYet, Reported, Gone,
        PastGate, Fresh
  <2> QED
    BY <2>1, RunIdle
<1> QED
  BY <1>1, <1>2 DEF Routing

LEMMA PlanningRuns ==
  ASSUME LevelsInOrder, TypeInv, RunInv, Planning
  PROVE  RunInv'
<1>0. DOMAIN state = DOMAIN Fresh
  BY FieldsTyped DEF TypeInv
<1>1. CASE Decompose \/ Embed \/ AskedInstead \/ Clarified
  <2>1. /\ log' = log /\ state'.plan = state.plan /\ state'.groups = state.groups
        /\ state'.yaml = state.yaml /\ node' \notin Gone /\ node \in NoPlanYet
        /\ state'.response # "done"
    BY <1>0, <1>1, Entries
    DEF Decompose, Embed, AskedInstead, Clarified, RunInv, NoPlanYet, Reported, Gone,
        PastGate, Fresh
  <2> QED
    BY <2>1, RunIdle
<1>2. CASE PlannerUnreachable
  <2>1. /\ log' = <<>> /\ state'.plan = <<>> /\ state'.groups = {} /\ node' \notin Gone
        /\ state'.response # "done"
    BY <1>0, <1>2 DEF PlannerUnreachable, NoPlan, RunInv, NoPlanYet, Gone, PastGate, Fresh
  <2> QED
    BY <2>1, RunDropped
<1>3. \A gate : Gated(gate) \in {"context_check", "confirm_node", "clarify_node"}
  BY DEF Gated
<1>4. CASE PlanByGoap
  <2>1. PICK steps \in GoapPlans : /\ state' = Planned(steps, <<>>, Groups(steps)) /\ MadePlan
                                   /\ \E gate : node' = Gated(gate)
    BY <1>4 DEF PlanByGoap
  <2>2. /\ state'.plan = steps /\ state'.groups = Groups(steps) /\ state'.idx = 1
        /\ state'.response = "none" /\ log' = <<>>
    BY <1>0, <2>1 DEF Planned, MadePlan, Fresh
  <2> QED
    BY <1>3, <2>1, <2>2, RunPlanned, Constants DEF LevelsInOrder
<1>5. CASE PlanLinearly \/ NoCandidates
  <2>1. /\ state'.groups = {} /\ state'.idx = 1 /\ state'.response = "none" /\ log' = <<>>
        /\ \E gate : node' = Gated(gate)
    BY <1>0, <1>5 DEF PlanLinearly, NoCandidates, Planned, NoPlan, MadePlan, Fresh
  <2>2. Contiguous({})
    BY DEF Contiguous
  <2> QED
    BY <1>3, <2>1, <2>2, RunPlanned
<1>6. CASE ConfirmAccepted
  <2>1. /\ log' = log /\ log = <<>> /\ state'.plan = state.plan /\ state'.groups = state.groups
        /\ state'.yaml = state.yaml /\ node = "confirm_node" /\ node' = "context_check"
        /\ state'.idx = state.idx /\ state'.response = "none"
    BY <1>0, <1>6 DEF ConfirmAccepted, RunInv, NoPlanYet, Fresh
  <2> QED
    BY <2>1 DEF RunInv, Gone, NoPlanYet, Reported, Compiles
<1> QED
  BY <1>1, <1>2, <1>4, <1>5, <1>6 DEF Planning

\* A step past the gate that calls nothing and keeps the plan.
LEMMA RunPasses ==
  ASSUME RunInv, node \in PastGate, node' \in PastGate, log' = log,
         state'.plan = state.plan, state'.groups = state.groups, state'.idx = state.idx,
         state.yaml => state'.yaml, state'.response # "done",
         node' = "builder" => state'.response = "none",
         node' = "executor" => /\ state'.response = "none" \/ SoftFailure(state'.response)
                               /\ state'.response = "none" => ~Compiles',
         node' = "wait_node" => ~Compiles',
         node' = "validator" => state'.response # "replan" /\ SoftFailure(state'.response),
         node' = "step_dispatcher" => state.idx \in Done(log)
  PROVE  RunInv'
<1>1. node' \in Gone /\ node \in Gone /\ node' \notin NoPlanYet
  BY DEF Gone, PastGate, NoPlanYet
<1>2. Compiles' => Compiles
  BY DEF Compiles
<1> QED
  BY <1>1, <1>2 DEF RunInv

LEMMA PreparingRuns == TypeInv /\ RunInv /\ Preparing => RunInv'
<1> SUFFICES ASSUME TypeInv, RunInv, Preparing PROVE RunInv'
  OBVIOUS
<1>0. DOMAIN state = DOMAIN Fresh
  BY FieldsTyped DEF TypeInv
<1>1. CASE ContextCheck \/ ResolverFills \/ PermissionAllows
  <2>1. /\ log' = log /\ state'.plan = state.plan /\ state'.groups = state.groups
        /\ state'.idx = state.idx /\ state'.yaml = state.yaml
        /\ state'.response = state.response
        /\ node \in {"context_check", "step_resolver", "permission_gate"}
        /\ node' \in {"step_resolver", "permission_gate", "builder", "end"}
        /\ node' = "builder" => state.response = "none"
    BY <1>0, <1>1 DEF ContextCheck, Resolution, ResolverFills, PermissionAllows, Fresh
  <2>2. state.response # "done"
    BY <2>1 DEF RunInv, Reported
  <2>3. CASE node' = "end"
    BY <2>1, <2>2, <2>3, RunIdle DEF Gone, PastGate, NoPlanYet
  <2>4. CASE node' # "end"
    BY <2>1, <2>2, <2>4, RunPasses DEF PastGate
  <2> QED
    BY <2>3, <2>4
<1>2. CASE ResolverAsks \/ PermissionDenies
  <2>1. /\ log' = log /\ state'.plan = state.plan /\ state'.groups = state.groups
        /\ state'.yaml = state.yaml /\ node' \in {"goap_goal", "end"}
        /\ state'.response # "done"
    BY <1>0, <1>2 DEF ResolverAsks, PermissionDenies, Fresh
  <2> QED
    BY <2>1, RunIdle DEF Gone, PastGate, NoPlanYet
<1>3. CASE CompileFails \/ NothingToBuild
  <2>1. /\ log' = log /\ state'.plan = state.plan /\ state'.groups = state.groups
        /\ state'.idx = state.idx /\ (state.yaml => state'.yaml)
        /\ node = "builder" /\ node' = "executor"
        /\ \/ state'.response = "yamlerr"
           \/ state'.response = state.response /\ ~Compiles'
    BY <1>0, <1>3 DEF CompileFails, NothingToBuild, Compiles, Fresh
  <2>2. state.response = "none" /\ SoftFailure("yamlerr")
    BY <2>1 DEF RunInv, SoftFailure, Failures
  <2>3. state'.response # "done" /\ (state'.response = "none" \/ SoftFailure(state'.response))
    BY <2>1, <2>2
  <2>4. state'.response = "none" => ~Compiles'
    BY <2>1
  <2>5. node \in PastGate /\ node' \in PastGate
    BY <2>1 DEF PastGate
  <2> QED
    BY <2>1, <2>3, <2>4, <2>5, RunPasses
<1>4. CASE BuildRefused \/ Build
  <2>1. /\ log' = log /\ state'.groups = state.groups /\ state'.idx = state.idx
        /\ state'.yaml = TRUE /\ node = "builder" /\ node' \in {"executor", "wait_node"}
        /\ \/ state'.response \in {"noroute", "need"} /\ node' = "executor"
           \/ state'.response = state.response
        /\ state'.plan \in {state.plan, Working}
    BY <1>0, <1>4 DEF BuildRefused, Build, Kept, Fresh
  <2>2. state.response = "none" /\ SoftFailure("noroute") /\ SoftFailure("need")
    BY <2>1 DEF RunInv, SoftFailure, Failures
  <2>3. ~Compiles'
    BY <2>1 DEF Compiles
  <2>4. CASE ~Compiles
    <3>1. state'.plan = state.plan
      BY <2>1, <2>4 DEF Working
    <3> QED
      BY <2>1, <2>2, <2>3, <3>1, RunPasses DEF PastGate
  <2>5. CASE Compiles
    <3>1. log = <<>> /\ Done(<<>>) = {} /\ state.groups = {}
      BY <2>1, <2>5 DEF RunInv, Done, Compiles, Gone, PastGate
    <3>2. 1..(state.idx - 1) \subseteq Done(log)
      BY <2>1 DEF RunInv, Gone, PastGate
    <3>3. DoneInOrder(DOMAIN state'.plan, state'.groups, Done(log'))
      BY <2>1, <3>1 DEF DoneInOrder
    <3> QED
      BY <2>1, <2>2, <2>3, <3>1, <3>2, <3>3 DEF RunInv, NoPlanYet, Reported, Gone
  <2> QED
    BY <2>4, <2>5
<1> QED
  BY <1>1, <1>2, <1>3, <1>4 DEF Preparing

LEMMA DecidingRuns == TypeInv /\ RunInv /\ Deciding => RunInv'
<1> SUFFICES ASSUME TypeInv, RunInv, Deciding PROVE RunInv'
  OBVIOUS
<1>0. DOMAIN state = DOMAIN Fresh
  BY FieldsTyped DEF TypeInv
<1>1. CASE RoundSummary \/ GoalDone \/ Summary
  <2>1. /\ log' = log /\ state'.plan = state.plan /\ state'.groups = state.groups
        /\ state'.yaml = state.yaml /\ node' \in {"goap_goal", "summary_node", "end"}
        /\ state'.response = "done" => state.response = "done"
    BY <1>0, <1>1 DEF RoundSummary, GoalDone, Summary, Tracked, Fresh
  <2> QED
    BY <2>1, RunIdle DEF Gone, PastGate, NoPlanYet, Reported
<1>2. CASE GoalContinues \/ GoalRetriages
  <2>1. log' = <<>> /\ node' \notin Gone
    BY <1>2, Entries DEF GoalContinues, GoalRetriages, Gone, PastGate
  <2>2. state'.plan = <<>> /\ state'.groups = state.groups /\ state'.response # "done"
    <3>1. CASE GoalContinues
      BY <1>0, <3>1 DEF GoalContinues, Cleared, Tracked, Fresh
    <3>2. CASE GoalRetriages
      BY <1>0, <3>2 DEF GoalRetriages, Cleared, Tracked, Fresh
    <3> QED
      BY <1>2, <3>1, <3>2
  <2> QED
    BY <2>1, <2>2, RunDropped
<1> QED
  BY <1>1, <1>2 DEF Deciding

\* The call of the step behind those that are done.
LEMMA CallRuns ==
  ASSUME TypeInv, RunInv, node \in PastGate, NEW out,
         log' = Append(log, Called(state.idx, state.idx, out))
  PROVE  /\ Done(log) \subseteq Done(log')
         /\ SoftFailure(out) \/ state.idx \in Done(log')
         /\ DoneInOrder(DOMAIN state.plan, state.groups, Done(log'))
<1>1. log \in LogType /\ state.idx \in Nat /\ state.plan \in Seq(Step)
  BY FieldsTyped DEF TypeInv
<1>2. /\ Called(state.idx, state.idx, out).at = state.idx
      /\ Called(state.idx, state.idx, out).out = out
  BY DEF Called
<1>3. Done(log') = Done(log) \cup (IF SoftFailure(out) THEN {} ELSE {state.idx})
  BY <1>1, <1>2, DoneByCall DEF LogType
<1>4. \A j \in DOMAIN state.plan : j < state.idx => j \in Done(log)
  <2>1. 1..(state.idx - 1) \subseteq Done(log)
    BY DEF RunInv, Gone
  <2>2. \A j \in DOMAIN state.plan : j \in Nat /\ 1 <= j
    BY <1>1
  <2> QED
    BY <1>1, <2>1, <2>2
<1>5. DoneInOrder(DOMAIN state.plan, state.groups, Done(log))
  BY DEF RunInv
<1> QED
  BY <1>3, <1>4, <1>5 DEF DoneInOrder

\* The calls of the peers behind the step that has just finished.
LEMMA PeersRun ==
  ASSUME TypeInv, RunInv, node = "step_dispatcher", NEW out \in PeersOutcomes,
         log' = log \o PeerCalls(out)
  PROVE  /\ Done(log) \subseteq Done(log')
         /\ DoneInOrder(DOMAIN state.plan, state.groups, Done(log'))
         /\ state.plan = <<>> => log' = log
         /\ Clean(out) => 1..LastIndex \subseteq Done(log')
<1>1. /\ log \in LogType /\ state.idx \in Nat /\ state.plan \in Seq(Step)
      /\ Contiguous(state.groups) /\ state.idx \in Done(log)
      /\ 1..(state.idx - 1) \subseteq Done(log)
  BY FieldsTyped DEF TypeInv, RunInv, Gone, PastGate
<1>2. Done(log') = Done(log) \cup {i \in Peers : ~SoftFailure(out[i])}
  BY DoneByPeers
<1>3. DoneInOrder(DOMAIN state.plan, state.groups, Done(log'))
  <2> SUFFICES ASSUME NEW i \in Done(log') \cap DOMAIN state.plan,
                      NEW j \in (DOMAIN state.plan) \ Done(log'), j < i
               PROVE  \E g \in state.groups : {i, j} \subseteq g
    BY DEF DoneInOrder
  <2>1. j \notin Done(log) /\ j \in Nat /\ 1 <= j /\ i \in Nat
    BY <1>1, <1>2
  <2>2. CASE i \in Done(log)
    BY <1>2, <2>2 DEF RunInv, DoneInOrder
  <2>3. CASE i \in Peers
    <3>1. state.idx < j
      BY <1>1, <2>1
    <3> QED
      BY <2>1, <2>3, <3>1, <1>1, PeersAdjoin
  <2> HIDE DEF Peers
  <2> QED
    BY <1>2, <2>2, <2>3
<1>4. state.plan = <<>> => log' = log
  <2> SUFFICES ASSUME state.plan = <<>> PROVE log' = log
    OBVIOUS
  <2>1. state.groups = {}
    BY DEF RunInv, Gone, PastGate
  <2>2. Peers = {}
    BY <2>1 DEF Peers, GroupsFrom
  <2>3. PeerCalls(out) \in LogType /\ DOMAIN PeerCalls(out) = {}
    <3>1. /\ PeerCalls(out) \in LogType
          /\ \A k \in DOMAIN PeerCalls(out) : PeerCalls(out)[k].at \in Peers
      BY PeersAhead
    <3> HIDE DEF Peers
    <3> QED
      BY <2>2, <3>1
  <2>4. PeerCalls(out) = <<>>
    BY <2>3, EmptySeq DEF LogType
  <2> QED
    BY <1>1, <2>4, ConcatProperties DEF LogType
<1>5. Clean(out) => 1..LastIndex \subseteq Done(log')
  <2> SUFFICES ASSUME Clean(out) PROVE 1..LastIndex \subseteq Done(log')
    OBVIOUS
  <2>1. Peers \subseteq Done(log')
    BY <1>2 DEF Clean, PeersOutcomes
  <2> HIDE DEF Peers, LastIndex
  <2> QED
    BY <1>1, <1>2, <2>1, AllUpToLast
<1> QED
  BY <1>2, <1>3, <1>4, <1>5

LEMMA ExecutingRuns ==
  ASSUME TypeInv, RunInv, Executing
  PROVE  RunInv'
<1>0. DOMAIN state = DOMAIN Fresh /\ state.idx \in Nat
  BY FieldsTyped DEF TypeInv
<1>1. CASE PassThrough \/ ExecuteNothing
  <2>1. /\ log' = log /\ state'.plan = state.plan /\ state'.groups = state.groups
        /\ state'.idx = state.idx /\ state'.yaml = state.yaml
        /\ node = "executor" /\ node' = "validator"
        /\ \/ state'.response = "nopayload"
           \/ state'.response = state.response /\ state.response # "none"
    BY <1>0, <1>1 DEF PassThrough, ExecuteNothing, Fresh
  <2>2. SoftFailure(state'.response)
    BY <2>1 DEF RunInv, SoftFailure, Failures
  <2>3. state'.response # "replan" /\ state'.response # "done"
    BY <2>2 DEF SoftFailure, Failures
  <2> QED
    BY <2>1, <2>2, <2>3, RunPasses DEF PastGate
<1>2. CASE ExecuteCall \/ ExecuteFanOut \/ WaitPolls
  <2>1. PICK out \in CallOutcomes \cup {"asked"} : Executed(out)
    BY <1>2, GraphAssumption DEF ExecuteCall, ExecuteFanOut, WaitPolls, CallOutcomes
  <2>2. node \in {"executor", "wait_node"} /\ ~Compiles
    BY <1>2 DEF ExecuteCall, ExecuteFanOut, WaitPolls, RunInv
  <2>3. /\ log' = Append(log, Called(state.idx, state.idx, out)) /\ node' = "validator"
        /\ state'.idx = state.idx /\ state'.response = out /\ state'.yaml = state.yaml
        /\ state'.plan = state.plan /\ state'.groups = state.groups
    BY <1>0, <2>1 DEF Executed, Fresh
  <2>4. out # "replan" /\ out # "done"
    BY DEF CallOutcomes
  <2>5. /\ Done(log) \subseteq Done(log')
        /\ SoftFailure(out) \/ state.idx \in Done(log')
        /\ DoneInOrder(DOMAIN state.plan, state.groups, Done(log'))
    BY <2>2, <2>3, CallRuns DEF PastGate
  <2> QED
    BY <2>2, <2>3, <2>4, <2>5 DEF RunInv, Gone, PastGate, NoPlanYet, Compiles
<1>3. CASE Validator
  <2>0. node = "validator" /\ state' = Validated /\ node' \in Routes(Validated)
    BY <1>3 DEF Validator
  <2>1. CASE ReplansNow
    <3>1. log' = <<>> /\ Validated = ReplanReset(state)
      BY <1>3, <2>1 DEF Validator, Validated
    <3>2. /\ state'.response = "replan" /\ state'.plan = <<>> /\ state'.groups = state.groups
      BY <1>0, <2>0, <3>1 DEF ReplanReset, Fresh
    <3>3. \A to \in Routes(Validated) : to = ReplanEntry
      BY <2>0, <3>2 DEF Routes, Failures
    <3> QED
      BY <2>0, <3>1, <3>2, <3>3, Entries, RunDropped DEF Gone, PastGate
  <2>2. CASE ~ReplansNow
    <3>1. log' = log
      BY <1>3, <2>2 DEF Validator
    <3>2. /\ state'.idx = state.idx /\ state'.yaml = state.yaml
          /\ state'.plan = state.plan /\ state'.groups = state.groups
          /\ \/ SoftFailure(state'.response)
             \/ state'.response = state.response
      <4>1. \/ Terminal /\ Validated = Wrapped(state)
            \/ Validated = state
        BY <2>2 DEF Validated
      <4>2. CASE Validated = state
        BY <2>0, <4>2
      <4>3. CASE Terminal /\ Validated = Wrapped(state)
        <5>1. /\ Wrapped(state).idx = state.idx /\ Wrapped(state).yaml = state.yaml
              /\ Wrapped(state).plan = state.plan /\ Wrapped(state).groups = state.groups
              /\ Wrapped(state).response
                   = IF state.response = "need" THEN "recov" ELSE state.response
          BY <1>0 DEF Wrapped, Fresh
        <5> QED
          BY <2>0, <4>3, <5>1 DEF Terminal, SoftFailure, Failures
      <4> QED
        BY <4>1, <4>2, <4>3
    <3>3. state.response # "replan" /\ state.response # "done"
      BY <2>0 DEF RunInv, Reported
    <3>4. state'.response # "replan" /\ state'.response # "done"
      BY <3>2, <3>3 DEF SoftFailure, Failures
    <3>5. /\ node' \in {"end", "goap_goal", "step_dispatcher", "retry_node"}
          /\ node' = "step_dispatcher" => ~SoftFailure(state'.response)
      BY <2>0, <3>4 DEF Routes, SoftFailure, Failures
    <3>6. node' = "step_dispatcher" => state.idx \in Done(log)
      BY <2>0, <3>2, <3>5 DEF RunInv
    <3>7. CASE node' \in {"end", "goap_goal"}
      BY <3>1, <3>2, <3>4, <3>7, RunIdle DEF Gone, PastGate, NoPlanYet
    <3>8. CASE node' \in {"step_dispatcher", "retry_node"}
      BY <2>0, <3>1, <3>2, <3>4, <3>6, <3>8, RunPasses DEF PastGate
    <3> QED
      BY <3>5, <3>7, <3>8
  <2> QED
    BY <2>1, <2>2
<1>4. CASE Retry
  <2>1. /\ log' = log /\ state'.plan = state.plan /\ state'.groups = state.groups
        /\ state'.idx = state.idx /\ state'.yaml = state.yaml /\ state'.response = "none"
        /\ node = "retry_node" /\ node' \in {"step_resolver", "permission_gate"}
    BY <1>0, <1>4 DEF Retry, Resolution, Fresh
  <2> QED
    BY <2>1, RunPasses DEF PastGate
<1>5. CASE PeersFail \/ Advance \/ NextIsGone \/ Finalise
  <2>1. PICK out \in PeersOutcomes : /\ log' = log \o PeerCalls(out)
                                     /\ Clean(out) \/ node' \in {"goap_goal", "end"}
    BY <1>5 DEF PeersFail, Advance, NextIsGone, Finalise
  <2>2. /\ node = "step_dispatcher" /\ state'.plan = state.plan
        /\ state'.groups = state.groups /\ state'.yaml = state.yaml
        /\ \/ node' \in {"goap_goal", "end"} /\ state'.response = "partial"
           \/ node' = "round_summary"
           \/ node' = "context_check" /\ state'.idx = state.idx /\ state'.response = "noroute"
           \/ node' = "context_check" /\ state'.idx = NextIndex /\ state'.response = "none"
    BY <1>0, <1>5 DEF PeersFail, Advance, NextIsGone, Finalise, Fresh
  <2>3. /\ Done(log) \subseteq Done(log')
        /\ DoneInOrder(DOMAIN state.plan, state.groups, Done(log'))
        /\ state.plan = <<>> => log' = log
        /\ Clean(out) => 1..LastIndex \subseteq Done(log')
    BY <2>1, <2>2, PeersRun
  <2>4. Compiles' => log' = <<>>
    BY <2>2, <2>3 DEF RunInv, Compiles
  <2>5. node' \in Gone => 1..(state'.idx - 1) \subseteq Done(log')
    <3> SUFFICES ASSUME node' \in Gone PROVE 1..(state'.idx - 1) \subseteq Done(log')
      OBVIOUS
    <3>1. Clean(out) /\ (state'.idx = state.idx \/ state'.idx = NextIndex)
      BY <2>1, <2>2 DEF Gone, PastGate
    <3>2. 1..(state.idx - 1) \subseteq Done(log')
      BY <2>2, <2>3 DEF RunInv, Gone, PastGate
    <3>3. NextIndex - 1 = LastIndex
      BY PeersBounded DEF NextIndex
    <3> QED
      BY <2>3, <3>1, <3>2, <3>3
  <2>6. /\ Contiguous(state'.groups)
        /\ node' \in Gone /\ state'.plan = <<>> => state'.groups = {}
    BY <2>2 DEF RunInv, Gone, PastGate
  <2>7. /\ state'.response = "done" => node' \in Reported
        /\ node' \in {"goap_goal", "end", "round_summary", "context_check"}
    BY <2>2 DEF Reported
  <2>8. DoneInOrder(DOMAIN state'.plan, state'.groups, Done(log'))
    BY <2>2, <2>3
  <2> QED
    BY <2>4, <2>5, <2>6, <2>7, <2>8 DEF RunInv, NoPlanYet
<1> QED
  BY <1>1, <1>2, <1>3, <1>4, <1>5 DEF Executing

LEMMA RunStep == 
  ASSUME LevelsInOrder
  PROVE  TypeInv /\ RunInv /\ [Next]_vars => RunInv'
<1> SUFFICES ASSUME TypeInv, RunInv, [Next]_vars PROVE RunInv'
  OBVIOUS
<1>1. CASE UNCHANGED vars
  BY <1>1 DEF vars, RunInv, Compiles
<1>2. CASE Next
  BY <1>2, RoutingRuns, PlanningRuns, PreparingRuns, ExecutingRuns, DecidingRuns DEF Next
<1> QED
  BY <1>1, <1>2

\* The step of PlanRun that a step of the turn is, if it is not a stutter.
RunMoves == Running!Next \/ UNCHANGED Running!vars

LEMMA SameNumber == \A S : Running!Cardinality(S) = Cardinality(S)
BY Zenon DEF Running!Cardinality, Cardinality

\* A plan that is not empty has a first step.
LEMMA SomeStep ==
  ASSUME NEW T, NEW steps \in Seq(T), steps # <<>>
  PROVE  Len(steps) \in Nat /\ DOMAIN steps = 1..Len(steps) /\ 1..Len(steps) # {}
<1>1. Len(steps) \in Nat /\ Len(steps) # 0 /\ DOMAIN steps = 1..Len(steps)
  BY EmptySeq
<1>2. 1 \in 1..Len(steps)
  BY <1>1
<1> QED
  BY <1>1, <1>2

\* The plan is dropped.
LEMMA DroppedIsAbandon ==
  ASSUME state.plan \in Seq(Step), state'.plan = <<>>
  PROVE  RunMoves
<1>1. DOMAIN state'.plan = {}
  BY EmptySeq
<1>2. CASE state.plan = <<>>
  <2>1. DOMAIN state.plan = {}
    BY <1>2, EmptySeq
  <2> QED
    BY <1>1, <1>2, <2>1 DEF RunMoves, Running!vars
<1>3. CASE state.plan # <<>>
  <2>1. DOMAIN state.plan # {}
    BY <1>3, SomeStep
  <2> QED
    BY <1>1, <2>1 DEF RunMoves, Running!Next, Running!Abandon
<1> QED
  BY <1>2, <1>3

\* Nothing is called, dropped or reported.
LEMMA SameIsStutter ==
  ASSUME log' = log, state'.plan = state.plan, state'.groups = state.groups,
         (state'.response = "done") <=> (state.response = "done")
  PROVE  RunMoves
BY DEF RunMoves, Running!vars

\* A plan takes the place of one of which nothing was called.
LEMMA PlannedIsBegin ==
  ASSUME log = <<>>, log' = <<>>, state.response # "done", state'.response # "done",
         state'.plan \in Seq(Step), state'.plan # <<>>
  PROVE  RunMoves
<1> DEFINE n == Len(state'.plan)
<1>1. n \in Nat /\ DOMAIN state'.plan = 1..n /\ 1..n # {}
  BY SomeStep
<1>2. Cardinality(1..n) = n
  BY <1>1, FS_Interval
<1> HIDE DEF n
<1>3. DOMAIN state'.plan = 1..Running!Cardinality(DOMAIN state'.plan)
  <2>1. Running!Cardinality(1..n) = n
    BY <1>2, SameNumber
  <2> QED
    BY <1>1, <2>1
<1>4. Done(log) = {} /\ Done(log') = {}
  BY DEF Done
<1>5. Running!Begin
  BY <1>1, <1>3, <1>4 DEF Running!Begin, Done
<1> QED
  BY <1>5 DEF RunMoves, Running!Next

\* Calls are made for the plan, which may be reported when all its steps are done.
LEMMA CalledIsComplete ==
  ASSUME RunInv, state.plan # <<>>, state.plan \in Seq(Step),
         state'.plan = state.plan, state'.groups = state.groups,
         state.response # "done", Done(log) \subseteq Done(log'),
         DoneInOrder(DOMAIN state.plan, state.groups, Done(log')),
         state'.response = "done" => DOMAIN state.plan \subseteq Done(log')
  PROVE  RunMoves
<1>1. DOMAIN state.plan # {}
  BY SomeStep
<1>2. ~(state.response = "done") /\ Done(log) \cap DOMAIN state.plan
        \subseteq Done(log') \cap DOMAIN state'.plan
  OBVIOUS
<1>3. \A i \in Done(log') \cap DOMAIN state.plan : \A j \in DOMAIN state.plan \ Done(log') :
        j < i => \E g \in state.groups : {i, j} \subseteq g
  BY Zenon DEF DoneInOrder
<1>4. Running!InOrder(Done(log') \cap DOMAIN state.plan)
  BY <1>3 DEF Running!InOrder, Running!Together
<1>5. state'.response = "done" => Done(log') \cap DOMAIN state.plan = DOMAIN state.plan
  OBVIOUS
<1>6. Running!Complete
  BY <1>1, <1>2, <1>4, <1>5, Zenon DEF Running!Complete, Done
<1> QED
  BY <1>6 DEF RunMoves, Running!Next

LEMMA PlanningMoves ==
  ASSUME TypeInv, RunInv, Routing \/ Planning
  PROVE  RunMoves
<1>0. DOMAIN state = DOMAIN Fresh /\ state.plan \in Seq(Step)
  BY FieldsTyped DEF TypeInv
<1>1. CASE TurnInit \/ PlannerUnreachable \/ NoCandidates \/ PlanLinearly
  <2>1. state'.plan = <<>>
    BY <1>0, <1>1 DEF TurnInit, PlannerUnreachable, NoCandidates, PlanLinearly, NoPlan, Planned,
                      Fresh
  <2> QED
    BY <1>0, <2>1, DroppedIsAbandon
<1>2. CASE \/ Triage \/ Chat \/ SpecialistAnswers \/ SpecialistFails
           \/ Decompose \/ Embed \/ AskedInstead \/ Clarified \/ ConfirmAccepted
  <2>1. /\ log' = log /\ state'.plan = state.plan /\ state'.groups = state.groups
        /\ state'.response = "done" => state.response = "done"
        /\ node \in NoPlanYet
    BY <1>0, <1>2
    DEF Triage, Chat, SpecialistAnswers, SpecialistFails, Decompose, Embed, AskedInstead,
        Clarified, ConfirmAccepted, Fresh, NoPlanYet
  <2>2. state.response # "done"
    BY <2>1 DEF RunInv, NoPlanYet, Reported
  <2> QED
    BY <2>1, <2>2, SameIsStutter
<1>3. CASE PlanByGoap
  <2>1. PICK steps \in GoapPlans : /\ state' = Planned(steps, <<>>, Groups(steps)) /\ MadePlan
                                   /\ node = "planner"
    BY <1>3 DEF PlanByGoap
  <2>2. /\ state'.plan \in Seq(Step) /\ state'.plan # <<>> /\ state'.response = "none"
        /\ log' = <<>>
    BY <1>0, <2>1, Constants DEF Planned, MadePlan, Fresh
  <2>3. log = <<>> /\ state.response # "done"
    BY <2>1 DEF RunInv, NoPlanYet, Reported
  <2> QED
    BY <2>2, <2>3, PlannedIsBegin
<1> QED
  BY <1>1, <1>2, <1>3 DEF Routing, Planning

LEMMA PreparingMoves ==
  ASSUME TypeInv, RunInv, Preparing
  PROVE  RunMoves
<1>0. DOMAIN state = DOMAIN Fresh /\ state.plan \in Seq(Step) /\ state.draft \in Seq(Step)
  BY FieldsTyped DEF TypeInv
<1>1. CASE \/ ContextCheck \/ ResolverFills \/ ResolverAsks \/ PermissionAllows
           \/ PermissionDenies \/ CompileFails \/ NothingToBuild
  <2>1. /\ log' = log /\ state'.plan = state.plan /\ state'.groups = state.groups
        /\ state'.response = "done" => state.response = "done"
        /\ node \in PastGate
    BY <1>0, <1>1
    DEF ContextCheck, ResolverFills, ResolverAsks, PermissionAllows, PermissionDenies,
        CompileFails, NothingToBuild, Fresh, PastGate
  <2>2. state.response # "done"
    BY <2>1 DEF RunInv, PastGate, Reported
  <2> QED
    BY <2>1, <2>2, SameIsStutter
<1>2. CASE BuildRefused \/ Build
  <2>1. /\ log' = log /\ state'.groups = state.groups /\ node = "builder"
        /\ state'.response \in {"noroute", "need"} \/ state'.response = state.response
        /\ state'.plan \in {state.plan, Working}
    BY <1>0, <1>2 DEF BuildRefused, Build, Kept, Fresh
  <2>2. state.response = "none"
    BY <2>1 DEF RunInv
  <2>3. CASE state'.plan = <<>>
    BY <1>0, <2>3, DroppedIsAbandon
  <2>4. CASE state'.plan # <<>> /\ Compiles
    <3>1. log = <<>>
      BY <2>4 DEF RunInv
    <3>2. state'.plan \in Seq(Step)
      BY <1>0, <2>1 DEF Working
    <3> QED
      BY <2>1, <2>2, <2>4, <3>1, <3>2, PlannedIsBegin
  <2>5. CASE ~Compiles
    <3>1. state'.plan = state.plan
      BY <2>1, <2>5 DEF Working
    <3> QED
      BY <2>1, <2>2, <3>1, SameIsStutter
  <2> QED
    BY <2>3, <2>4, <2>5
<1> QED
  BY <1>1, <1>2 DEF Preparing

LEMMA ExecutingMoves ==
  ASSUME TypeInv, RunInv, Executing
  PROVE  RunMoves
<1>0. /\ DOMAIN state = DOMAIN Fresh /\ state.plan \in Seq(Step)
      /\ node \in PastGate /\ state.response # "done"
  <2>1. node \in PastGate
    BY DEF Executing, PassThrough, ExecuteNothing, ExecuteCall, ExecuteFanOut, WaitPolls,
           Validator, Retry, PeersFail, Advance, NextIsGone, Finalise, PastGate
  <2> QED
    BY <2>1, FieldsTyped DEF TypeInv, RunInv, PastGate, Reported
<1>1. CASE PassThrough \/ ExecuteNothing \/ Retry
  <2>1. /\ log' = log /\ state'.plan = state.plan /\ state'.groups = state.groups
        /\ state'.response = "done" => state.response = "done"
    BY <1>0, <1>1 DEF PassThrough, ExecuteNothing, Retry, Fresh
  <2> QED
    BY <1>0, <2>1, SameIsStutter
<1>2. CASE ExecuteCall \/ ExecuteFanOut \/ WaitPolls
  <2>1. PICK out \in CallOutcomes \cup {"asked"} : Executed(out)
    BY <1>2, GraphAssumption DEF ExecuteCall, ExecuteFanOut, WaitPolls, CallOutcomes
  <2>2. /\ log' = Append(log, Called(state.idx, state.idx, out)) /\ state'.response # "done"
        /\ state'.plan = state.plan /\ state'.groups = state.groups
    BY <1>0, <2>1 DEF Executed, Fresh, CallOutcomes
  <2>3. CASE state.plan = <<>>
    BY <1>0, <2>2, <2>3, DroppedIsAbandon
  <2>4. CASE state.plan # <<>>
    BY <1>0, <2>2, <2>4, CallRuns, CalledIsComplete
  <2> QED
    BY <2>3, <2>4
<1>3. CASE Validator
  <2>1. state' = Validated /\ log' = IF ReplansNow THEN <<>> ELSE log
    BY <1>3 DEF Validator
  <2>2. CASE ReplansNow
    <3>1. state'.plan = <<>>
      BY <1>0, <2>1, <2>2 DEF Validated, ReplanReset, Fresh
    <3> QED
      BY <1>0, <3>1, DroppedIsAbandon
  <2>3. CASE ~ReplansNow
    <3>1. /\ state'.plan = state.plan /\ state'.groups = state.groups
          /\ state'.response = "done" => state.response = "done"
      <4>1. Validated \in {Wrapped(state), state}
        BY <2>3 DEF Validated
      <4>2. /\ Wrapped(state).plan = state.plan /\ Wrapped(state).groups = state.groups
            /\ Wrapped(state).response \in {"recov", state.response}
        BY <1>0 DEF Wrapped, Fresh
      <4> QED
        BY <2>1, <4>1, <4>2
    <3> QED
      BY <1>0, <2>1, <2>3, <3>1, SameIsStutter
  <2> QED
    BY <2>2, <2>3
<1>4. CASE PeersFail \/ Advance \/ NextIsGone \/ Finalise
  <2>1. PICK out \in PeersOutcomes :
          /\ log' = log \o PeerCalls(out)
          /\ \/ state'.response # "done"
             \/ Clean(out) /\ NextIndex > Len(state.plan)
    BY <1>0, <1>4 DEF PeersFail, Advance, NextIsGone, Finalise, Fresh
  <2>2. /\ node = "step_dispatcher" /\ state'.plan = state.plan
        /\ state'.groups = state.groups
    BY <1>0, <1>4 DEF PeersFail, Advance, NextIsGone, Finalise, Fresh
  <2>3. /\ Done(log) \subseteq Done(log')
        /\ DoneInOrder(DOMAIN state.plan, state.groups, Done(log'))
        /\ Clean(out) => 1..LastIndex \subseteq Done(log')
    BY <2>1, <2>2, PeersRun
  <2>4. state'.response = "done" => DOMAIN state.plan \subseteq Done(log')
    <3> SUFFICES ASSUME state'.response = "done", NEW j \in DOMAIN state.plan
                 PROVE  j \in Done(log')
      OBVIOUS
    <3>1. Clean(out) /\ NextIndex > Len(state.plan)
      BY <2>1
    <3>2. LastIndex \in Nat /\ NextIndex = LastIndex + 1
      BY PeersBounded DEF NextIndex
    <3>3. j \in 1..Len(state.plan) /\ Len(state.plan) \in Nat
      BY <1>0
    <3>4. j \in 1..LastIndex
      BY <3>1, <3>2, <3>3
    <3> QED
      BY <2>3, <3>1, <3>4
  <2>5. CASE state.plan = <<>>
    BY <1>0, <2>2, <2>5, DroppedIsAbandon
  <2>6. CASE state.plan # <<>>
    BY <1>0, <2>2, <2>3, <2>4, <2>6, CalledIsComplete
  <2> QED
    BY <2>5, <2>6
<1> QED
  BY <1>1, <1>2, <1>3, <1>4 DEF Executing

LEMMA DecidingMoves ==
  ASSUME TypeInv, RunInv, Deciding
  PROVE  RunMoves
<1>0. DOMAIN state = DOMAIN Fresh /\ state.plan \in Seq(Step)
  BY FieldsTyped DEF TypeInv
<1>1. CASE RoundSummary \/ GoalDone \/ Summary
  <2>1. /\ log' = log /\ state'.plan = state.plan /\ state'.groups = state.groups
        /\ (state'.response = "done") <=> (state.response = "done")
    BY <1>0, <1>1 DEF RoundSummary, GoalDone, Summary, Tracked, Fresh
  <2> QED
    BY <2>1, SameIsStutter
<1>2. CASE GoalContinues \/ GoalRetriages
  <2>1. state'.plan = <<>>
    BY <1>0, <1>2 DEF GoalContinues, GoalRetriages, Cleared, Tracked, Fresh
  <2> QED
    BY <1>0, <2>1, DroppedIsAbandon
<1> QED
  BY <1>1, <1>2 DEF Deciding

\* Every step of the turn is one of PlanRun, or leaves what it speaks of alone.
LEMMA TurnMoves == TypeInv /\ RunInv /\ [Next]_vars => [Running!Next]_Running!vars
<1> SUFFICES ASSUME TypeInv, RunInv, [Next]_vars PROVE RunMoves
  BY DEF RunMoves
<1>1. CASE UNCHANGED vars
  BY <1>1, SameIsStutter DEF vars
<1>2. CASE Next
  BY <1>2, PlanningMoves, PreparingMoves, ExecutingMoves, DecidingMoves DEF Next
<1> QED
  BY <1>1, <1>2

LEMMA TurnBegins == Init => Running!Init
<1> SUFFICES ASSUME Init PROVE Running!Init
  OBVIOUS
<1>1. PICK force \in BOOLEAN, goal \in BOOLEAN, replans \in 0..MaxReplans,
           repeats \in KeptRepeats :
        /\ log = <<>>
        /\ state = [Fresh EXCEPT !.force = force, !.goal = goal, !.replans = replans,
                                 !.repeats = repeats]
  BY DEF Init
<1>2. state.plan = <<>>
  BY <1>1 DEF Fresh
<1>3. DOMAIN state.plan = {}
  BY <1>2
<1> QED
  BY <1>2, <1>3 DEF Running!Init

\* The turn implements PlanRun: steps are completed in the order of the plan but for those
\* called together, none is skipped, and step_dispatcher reports a plan as done only when
\* all its steps are, provided that derive_parallel_groups has put no step of another level
\* between two steps of a group.
THEOREM PlansAreRun ==
  ASSUME LevelsInOrder
  PROVE  Spec => RunsPlans
<1>1. Init => RunInv
  BY RunInit
<1>2. TypeInv /\ RunInv /\ [Next]_vars => RunInv'
  BY RunStep
<1>3. Init => Running!Init
  BY TurnBegins
<1>4. TypeInv /\ RunInv /\ [Next]_vars => [Running!Next]_Running!vars
  BY TurnMoves
<1>5. Spec => [](TypeInv /\ RunInv)
  BY <1>1, <1>2, Typed, PTL DEF Spec
<1> QED
  BY <1>3, <1>4, <1>5, PTL DEF Spec, RunsPlans, Running!Spec

---------------------------------------------------------------------------------
(* The results by position. Only a fan-out is retried with its error among the results, *)
(* for only a fan-out reaches the validator with parameters unresolved: the text of any *)
(* other wrapped error does not make it recoverable. So in front of a call there are as  *)
(* many results as steps before it, and the dispatcher's positions are the steps' own.  *)

Answered(calls, i, out) == \E k \in DOMAIN calls : calls[k].at = i /\ calls[k].out = out

NoFan(steps, i) == \A j \in DOMAIN steps : j < i => steps[j].kind # "fan"

KindAt(steps, i) == IF i \in DOMAIN steps THEN steps[i].kind ELSE "call"

\* The first n results are successful answers to the calls of the first n steps.
Aligned(results, calls, n) ==
  /\ n <= Len(results)
  /\ \A i \in 1..n : Answered(calls, i, results[i]) /\ ~SoftFailure(results[i])

\* Nothing but a fan-out has left something behind the results of the steps before it.
Ready(steps, results, calls, i) ==
  NoFan(steps, i) => /\ Aligned(results, calls, i - 1)
                     /\ KindAt(steps, i) # "fan" => Len(results) = i - 1

NowReady == Ready(state.plan, state.results, log, state.idx)

AlignInv ==
  /\ PreparesAStep => NowReady
  /\ node \in {"confirm_node", "builder", "wait_node", "executor", "validator", "retry_node",
               "step_dispatcher"} => NowReady
  /\ node \in {"permission_gate", "builder", "wait_node", "executor", "validator"}
       => (state.unresolved => CurrentKind = "fan")
  /\ node = "validator" => SoftFailure(state.response)
                            \/ Answered(log, state.idx, state.response)
  /\ node = "step_dispatcher" => ~SoftFailure(state.response)
                                  /\ Answered(log, state.idx, state.response)

LEMMA ReadyFresh == \A steps, calls : Ready(steps, <<>>, calls, 1)
<1>1. \A calls : Aligned(<<>>, calls, 0)
  BY DEF Aligned
<1> QED
  BY <1>1 DEF Ready

\* A step that leads to no place where the results are relied on.
LEMMA AlignIdle ==
  ASSUME node' \notin Gone
  PROVE  AlignInv'
BY DEF AlignInv, PreparesAStep, Gone, PastGate

\* A new plan, or none, goes to the gate.
LEMMA AlignFresh ==
  ASSUME state'.results = <<>>, state'.idx = 1,
         node' \in {"context_check", "confirm_node", "clarify_node"}
  PROVE  AlignInv'
BY ReadyFresh DEF AlignInv, NowReady

LEMMA AlignInit == Init => AlignInv
BY DEF Init, AlignInv, PreparesAStep

LEMMA PlanningAligns ==
  ASSUME TypeInv, AlignInv, Routing \/ Planning
  PROVE  AlignInv'
<1>0. DOMAIN state = DOMAIN Fresh
  BY FieldsTyped DEF TypeInv
<1>1. CASE Routing
  <2>1. node' \notin Gone
    BY <1>1, Entries
    DEF Routing, TurnInit, Triage, Chat, SpecialistAnswers, SpecialistFails, Gone, PastGate
  <2> QED
    BY <2>1, AlignIdle
<1>2. CASE Decompose \/ Embed \/ PlannerUnreachable \/ AskedInstead \/ Clarified
  <2>1. node' \notin Gone
    BY <1>2, Entries
    DEF Decompose, Embed, PlannerUnreachable, AskedInstead, Clarified, Gone, PastGate
  <2> QED
    BY <2>1, AlignIdle
<1>3. CASE PlanByGoap \/ PlanLinearly \/ NoCandidates
  <2>1. state'.results = <<>> /\ state'.idx = 1 /\ \E gate : node' = Gated(gate)
    BY <1>0, <1>3 DEF PlanByGoap, PlanLinearly, NoCandidates, Planned, NoPlan, Fresh
  <2>2. node' \in {"context_check", "confirm_node", "clarify_node"}
    BY <2>1 DEF Gated
  <2> QED
    BY <2>1, <2>2, AlignFresh
<1>4. CASE ConfirmAccepted
  <2>1. /\ log' = log /\ state'.plan = state.plan /\ state'.results = state.results
        /\ state'.idx = state.idx /\ node = "confirm_node" /\ node' = "context_check"
    BY <1>0, <1>4 DEF ConfirmAccepted, Fresh
  <2> QED
    BY <2>1 DEF AlignInv, NowReady
<1> QED
  BY <1>1, <1>2, <1>3, <1>4 DEF Planning

LEMMA PreparingAligns ==
  ASSUME TypeInv, RunInv, AlignInv, Preparing
  PROVE  AlignInv'
<1>0. DOMAIN state = DOMAIN Fresh /\ state.unresolved \in BOOLEAN /\ state.idx \in Nat
  BY FieldsTyped DEF TypeInv, StateType
<1>1. CASE ContextCheck \/ ResolverFills \/ PermissionAllows
  <2>1. /\ log' = log /\ state'.plan = state.plan /\ state'.results = state.results
        /\ state'.idx = state.idx /\ state'.response = state.response
        /\ node \in {"context_check", "step_resolver", "permission_gate"}
        /\ \/ node' \in {"step_resolver", "permission_gate"}
           \/ node' = "builder" /\ state.response = "none"
           \/ node' = "end"
    BY <1>0, <1>1 DEF ContextCheck, Resolution, ResolverFills, PermissionAllows, Fresh
  <2>2. CurrentKind' = CurrentKind
    BY <2>1 DEF CurrentKind
  <2>3. node' \in {"permission_gate", "builder"} => (state'.unresolved => CurrentKind = "fan")
    BY <1>0, <1>1
    DEF ContextCheck, Resolution, ResolverFills, PermissionAllows, AlignInv, Fresh
  <2> QED
    BY <2>1, <2>2, <2>3 DEF AlignInv, PreparesAStep, NowReady
<1>2. CASE ResolverAsks \/ PermissionDenies
  <2>1. node' \notin Gone
    BY <1>2 DEF ResolverAsks, PermissionDenies, Gone, PastGate
  <2> QED
    BY <2>1, AlignIdle
<1>3. CASE CompileFails \/ NothingToBuild \/ BuildRefused \/ Build
  <2>1. /\ log' = log /\ state'.results = state.results /\ state'.idx = state.idx
        /\ state'.unresolved = state.unresolved /\ state'.plan \in {state.plan, Working}
        /\ node = "builder" /\ node' \in {"executor", "wait_node"}
    BY <1>0, <1>3 DEF CompileFails, NothingToBuild, BuildRefused, Build, Kept, Fresh
  <2>2. CASE state'.plan = state.plan
    <3>1. CurrentKind' = CurrentKind
      BY <2>1, <2>2 DEF CurrentKind
    <3> QED
      BY <2>1, <2>2, <3>1 DEF AlignInv, PreparesAStep, NowReady
  <2>3. CASE state'.plan # state.plan
    <3>1. Compiles
      BY <2>1, <2>3 DEF Working
    <3>2. state.plan = <<>> /\ log = <<>> /\ DOMAIN state.plan = {}
      BY <3>1 DEF Compiles, RunInv
    <3>3. state.idx = 1
      <4>1. 1..(state.idx - 1) \subseteq {}
        BY <2>1, <3>2 DEF RunInv, Gone, PastGate, Done
      <4>2. state.idx > 1 => 1 \in 1..(state.idx - 1)
        BY <1>0
      <4>3. state.idx # 0
        BY FieldsTyped DEF TypeInv
      <4> QED
        BY <1>0, <4>1, <4>2, <4>3
    <3>4. CurrentKind = "call" /\ KindAt(state.plan, state.idx) = "call"
      BY <3>2 DEF CurrentKind, KindAt
    <3>5. Len(state.results) = 0
      BY <2>1, <3>2, <3>3, <3>4 DEF AlignInv, NowReady, Ready, NoFan
    <3>6. state.results = <<>>
      BY <3>5, FieldsTyped, EmptySeq DEF TypeInv
    <3>7. NowReady'
      BY <2>1, <3>3, <3>6, ReadyFresh DEF NowReady
    <3>8. ~state'.unresolved
      BY <2>1, <3>4 DEF AlignInv
    <3> QED
      BY <2>1, <3>7, <3>8 DEF AlignInv, PreparesAStep
  <2> QED
    BY <2>2, <2>3
<1> QED
  BY <1>1, <1>2, <1>3 DEF Preparing

\* More calls leave what was answered as it is.
LEMMA ReadyStays ==
  ASSUME NEW calls, NEW more,
         \A k \in DOMAIN calls : k \in DOMAIN more /\ more[k] = calls[k],
         NEW steps, NEW results, NEW i, Ready(steps, results, calls, i)
  PROVE  Ready(steps, results, more, i)
<1>1. ASSUME NEW j, NEW out, Answered(calls, j, out) PROVE Answered(more, j, out)
  BY <1>1 DEF Answered
<1> QED
  BY <1>1 DEF Ready, Aligned

\* Both parts of a history are found in the whole.
LEMMA InTheWhole ==
  ASSUME NEW T, NEW calls \in Seq(T), NEW more \in Seq(T)
  PROVE  /\ \A k \in DOMAIN calls : k \in DOMAIN (calls \o more) /\ (calls \o more)[k] = calls[k]
         /\ \A k \in DOMAIN more : \E l \in DOMAIN (calls \o more) : (calls \o more)[l] = more[k]
<1> DEFINE n == Len(calls)
           m == Len(more)
<1>1. /\ n \in Nat /\ m \in Nat /\ DOMAIN calls = 1..n /\ DOMAIN more = 1..m
      /\ DOMAIN (calls \o more) = 1..(n + m)
  BY ConcatProperties
<1>2. /\ \A k \in 1..n : (calls \o more)[k] = calls[k]
      /\ \A k \in 1..m : (calls \o more)[n + k] = more[k]
  BY ConcatProperties
<1>3. /\ \A k \in 1..n : k \in 1..(n + m)
      /\ \A k \in 1..m : n + k \in 1..(n + m)
  BY <1>1
<1> HIDE DEF n, m
<1> QED
  BY <1>1, <1>2, <1>3

\* What the dispatcher places behind the results of the steps before.
LEMMA AdvanceAligns ==
  ASSUME TypeInv, RunInv, AlignInv, node = "step_dispatcher", NEW out \in PeersOutcomes,
         Clean(out), log' = log \o PeerCalls(out)
  PROVE  Ready(state.plan, Finished(out), log', NextIndex)
<1> DEFINE before == Append(state.results, state.response)
           after == Finished(out)
<1>0. /\ state.idx \in Nat \ {0} /\ state.results \in Seq(Answers) /\ state.response \in Answers
      /\ log \in LogType /\ state.plan \in Seq(Step)
  BY FieldsTyped DEF TypeInv
<1>1. /\ LastIndex \in Nat /\ NextIndex = LastIndex + 1 /\ state.idx <= LastIndex
      /\ Peers \in SUBSET Nat /\ \A j \in Peers : j <= LastIndex
  BY PeersBounded DEF NextIndex
<1> SUFFICES ASSUME NoFan(state.plan, NextIndex)
             PROVE  Len(after) = LastIndex /\ Aligned(after, log', LastIndex)
  BY <1>1 DEF Ready
<1>2. NoFan(state.plan, state.idx) /\ KindAt(state.plan, state.idx) # "fan"
  <2>1. \A j \in DOMAIN state.plan : j \in Nat
    BY <1>0
  <2>2. state.idx < NextIndex /\ \A j \in Nat : j < state.idx => j < NextIndex
    BY <1>0, <1>1
  <2> HIDE DEF LastIndex
  <2> QED
    BY <2>1, <2>2 DEF NoFan, KindAt
<1>3. Aligned(state.results, log, state.idx - 1) /\ Len(state.results) = state.idx - 1
  BY <1>2 DEF AlignInv, NowReady, Ready
<1>4. /\ before \in Seq(Answers) /\ Len(before) = state.idx
      /\ before[state.idx] = state.response
      /\ \A i \in 1..(state.idx - 1) : before[i] = state.results[i]
  BY <1>0, <1>3
<1>5. DOMAIN out = Peers
  BY DEF PeersOutcomes
<1>6. /\ Len(after) = LastIndex
      /\ \A i \in 1..LastIndex : after[i] = IF i \in Peers THEN out[i]
                                            ELSE IF i <= state.idx THEN before[i] ELSE "pad"
  <2>1. after = Placed(before, out)
    BY DEF Finished
  <2>2. /\ Len(Placed(before, out)) = Top({Len(before)} \cup Peers)
        /\ \A i \in 1..Len(Placed(before, out)) :
             Placed(before, out)[i] = IF i \in DOMAIN out THEN out[i]
                                      ELSE IF i <= Len(before) THEN before[i] ELSE "pad"
    <3>1. before \in Seq(Answers)
      BY <1>4
    <3> HIDE DEF before, Peers
    <3> QED
      BY <3>1, PlacedTyped, Zenon
  <2>3. Top({Len(before)} \cup Peers) = LastIndex
    BY <1>4 DEF LastIndex
  <2> HIDE DEF before, after, Peers, LastIndex
  <2> QED
    BY <1>4, <1>5, <2>1, <2>2, <2>3
<1>7. \A i \in Peers : state.idx < i
  <2>1. /\ \A i \in Peers : \E k \in DOMAIN PeerCalls(out) :
              PeerCalls(out)[k] = Called(i, state.idx, out[i])
        /\ \A k \in DOMAIN PeerCalls(out) : state.idx < PeerCalls(out)[k].at
    BY PeersAhead
  <2> HIDE DEF Peers
  <2> QED
    BY <2>1 DEF Called
<1>8. \A j, o : Answered(log, j, o) => Answered(log', j, o)
  <2>1. \A k \in DOMAIN log : k \in DOMAIN log' /\ log'[k] = log[k]
    <3>1. PeerCalls(out) \in LogType
      BY PeersAhead
    <3> QED
      BY <1>0, <3>1, InTheWhole DEF LogType
  <2> QED
    BY <2>1 DEF Answered
<1>9. \A i \in Peers : Answered(log', i, out[i])
  <2> SUFFICES ASSUME NEW i \in Peers PROVE Answered(log', i, out[i])
    OBVIOUS
  <2>1. /\ PeerCalls(out) \in LogType
        /\ \E k \in DOMAIN PeerCalls(out) : PeerCalls(out)[k] = Called(i, state.idx, out[i])
    BY PeersAhead
  <2>2. PICK k \in DOMAIN PeerCalls(out) : PeerCalls(out)[k] = Called(i, state.idx, out[i])
    BY <2>1
  <2>3. \E l \in DOMAIN log' : log'[l] = PeerCalls(out)[k]
    <3> DEFINE T == [at : Nat, op : Nat, out : Answers]
    <3>1. log \in Seq(T) /\ PeerCalls(out) \in Seq(T)
      BY <1>0, <2>1 DEF LogType
    <3> HIDE DEF T
    <3> QED
      BY <3>1, InTheWhole
  <2> QED
    BY <2>2, <2>3 DEF Answered, Called
<1>10. ASSUME NEW i \in 1..LastIndex
       PROVE  Answered(log', i, after[i]) /\ ~SoftFailure(after[i])
  <2>1. CASE i < state.idx
    <3>1. i \in 1..(state.idx - 1) /\ i \notin Peers
      BY <1>0, <1>1, <1>7, <2>1
    <3>2. after[i] = state.results[i]
      <4>1. i <= state.idx
        BY <1>0, <2>1, <3>1
      <4> HIDE DEF before, after, Peers, LastIndex
      <4> QED
        BY <1>4, <1>6, <3>1, <4>1
    <3> QED
      BY <1>3, <1>8, <3>1, <3>2 DEF Aligned
  <2>2. CASE i = state.idx
    <3>1. i \notin Peers /\ i <= state.idx /\ before[i] = state.response
      <4>1. ~(state.idx < i)
        BY <1>0, <2>2
      <4> HIDE DEF before, Peers
      <4> QED
        BY <1>0, <1>4, <1>7, <2>2, <4>1
    <3>2. after[i] = state.response
      <4> HIDE DEF before, after, Peers, LastIndex
      <4> QED
        BY <1>6, <3>1
    <3> QED
      BY <1>8, <2>2, <3>2 DEF AlignInv
  <2>3. CASE state.idx < i
    <3>1. i \in Peers
      <4>1. LastIndex \in Peers
        <5>1. LastIndex \in {state.idx} \cup Peers
          BY PeersBounded
        <5> HIDE DEF LastIndex, Peers
        <5> QED
          BY <1>0, <1>1, <2>3, <5>1
      <4>2. i = LastIndex \/ i < LastIndex
        BY <1>1
      <4>3. Contiguous(state.groups)
        BY DEF RunInv
      <4> HIDE DEF LastIndex, Peers
      <4> QED
        BY <1>1, <2>3, <4>1, <4>2, <4>3, PeersAdjoin
    <3>2. after[i] = out[i]
      BY <1>6, <3>1, Zenon
    <3>3. ~SoftFailure(out[i])
      BY <1>5, <3>1, Zenon DEF Clean
    <3> QED
      BY <1>9, <3>1, <3>2, <3>3, Zenon
  <2> QED
    BY <1>0, <1>1, <2>1, <2>2, <2>3
<1> HIDE DEF after, LastIndex
<1> QED
  BY <1>1, <1>6, <1>10 DEF Aligned

LEMMA ExecutingAligns ==
  ASSUME ~EchoedWords, TypeInv, RunInv, AlignInv, Executing
  PROVE  AlignInv'
<1>0. /\ DOMAIN state = DOMAIN Fresh /\ state.idx \in Nat \ {0} /\ log \in LogType
      /\ state.results \in Seq(Answers) /\ state.response \in Answers /\ state.retry \in 0..1
  BY FieldsTyped DEF TypeInv
<1>1. CASE PassThrough \/ ExecuteNothing
  <2>1. /\ log' = log /\ state'.plan = state.plan /\ state'.results = state.results
        /\ state'.idx = state.idx /\ state'.unresolved = state.unresolved
        /\ node = "executor" /\ node' = "validator"
        /\ \/ state'.response = "nopayload"
           \/ state'.response = state.response /\ state.response # "none"
    BY <1>0, <1>1 DEF PassThrough, ExecuteNothing, Fresh
  <2>2. SoftFailure(state'.response)
    BY <2>1 DEF RunInv, SoftFailure, Failures
  <2>3. CurrentKind' = CurrentKind
    BY <2>1 DEF CurrentKind
  <2> QED
    BY <2>1, <2>2, <2>3 DEF AlignInv, PreparesAStep, NowReady
<1>2. CASE ExecuteCall \/ ExecuteFanOut \/ WaitPolls
  <2>1. PICK out : Executed(out) /\ node \in {"executor", "wait_node"}
    BY <1>2 DEF ExecuteCall, ExecuteFanOut, WaitPolls
  <2>2. /\ log' = Append(log, Called(state.idx, state.idx, out)) /\ node' = "validator"
        /\ state'.plan = state.plan /\ state'.results = state.results
        /\ state'.idx = state.idx /\ state'.unresolved = state.unresolved
        /\ state'.response = out
    BY <1>0, <2>1 DEF Executed, Fresh
  <2>3. CurrentKind' = CurrentKind
    BY <2>2 DEF CurrentKind
  <2>4. /\ \A k \in DOMAIN log : k \in DOMAIN log' /\ log'[k] = log[k]
        /\ Len(log) + 1 \in DOMAIN log'
        /\ log'[Len(log) + 1] = Called(state.idx, state.idx, out)
    BY <1>0, <2>2 DEF LogType
  <2>5. Ready(state.plan, state.results, log', state.idx)
    BY <2>1, <2>4, ReadyStays DEF AlignInv, NowReady
  <2>6. Answered(log', state.idx, out)
    BY <2>4 DEF Answered, Called
  <2> QED
    BY <2>1, <2>2, <2>3, <2>5, <2>6 DEF AlignInv, PreparesAStep, NowReady
<1>3. CASE Validator
  <2>0. node = "validator" /\ state' = Validated /\ node' \in Routes(Validated)
    BY <1>3 DEF Validator
  <2>1. CASE node' \notin Gone
    BY <2>1, AlignIdle
  <2>2. CASE node' \in Gone
    <3>1. ~ReplansNow /\ log' = log
      <4>1. ASSUME ReplansNow PROVE FALSE
        <5>1. Validated.response = "replan"
          BY <1>0, <4>1 DEF Validated, ReplanReset, Fresh
        <5>2. \A to \in Routes(Validated) : to = ReplanEntry
          BY <5>1 DEF Routes, Failures
        <5> QED
          BY <2>0, <2>2, <5>2, Entries DEF Gone, PastGate
      <4> QED
        BY <1>3, <4>1 DEF Validator
    <3>2. \/ Terminal /\ Validated = Wrapped(state)
          \/ Validated = state
      BY <3>1 DEF Validated
    <3>3. /\ Wrapped(state).idx = state.idx /\ Wrapped(state).plan = state.plan
          /\ Wrapped(state).unresolved = state.unresolved
          /\ Wrapped(state).retry = state.retry
          /\ Wrapped(state).response = IF state.response = "need" THEN "recov"
                                       ELSE state.response
          /\ \/ Wrapped(state).results = state.results
             \/ \E error \in Answers : Wrapped(state).results = Append(state.results, error)
      BY <1>0, Words DEF Wrapped, Fresh
    <3>4. CASE Validated = state
      <4>1. /\ node' \in {"retry_node", "step_dispatcher"}
            /\ node' = "step_dispatcher" => ~SoftFailure(state.response)
        <5>1. node' \in {"retry_node", "step_dispatcher", "end", "goap_goal", ReplanEntry}
          BY <2>0 DEF Routes, Failures
        <5>2. node' = "step_dispatcher" => ~SoftFailure(state.response)
          BY <2>0, <3>4, Entries DEF Routes, SoftFailure, Failures
        <5> QED
          BY <2>2, <5>1, <5>2, Entries DEF Gone, PastGate
      <4> QED
        BY <2>0, <3>1, <3>4, <4>1 DEF AlignInv, PreparesAStep, NowReady
    <3>5. CASE Terminal /\ Validated = Wrapped(state)
      <4>1. Validated.response \in Failures
        BY <3>3, <3>5 DEF Terminal, Failures
      <4>2. PICK recoverable \in Looks(Validated) :
              node' = IF recoverable /\ Validated.retry < 1 THEN "retry_node"
                      ELSE IF Validated.goal THEN "goap_goal" ELSE "end"
        BY <2>0, <4>1 DEF Routes, Failures
      <4>3. node' = "retry_node" /\ recoverable /\ state.retry = 0
        BY <1>0, <2>2, <3>3, <3>5, <4>2 DEF Gone, PastGate
      <4>4. Validated.response # "recov"
        BY <3>3, <3>5, <4>3 DEF Terminal, Recoverable
      <4>5. Validated.unresolved
        BY <4>2, <4>3, <4>4 DEF Looks
      <4>6. CurrentKind = "fan"
        BY <2>0, <3>3, <3>5, <4>5 DEF AlignInv
      <4>7. NowReady'
        <5>1. KindAt(state.plan, state.idx) = "fan"
          BY <4>6 DEF KindAt, CurrentKind
        <5>2. Ready(state.plan, state.results, log, state.idx)
          BY <2>0 DEF AlignInv, NowReady
        <5>3. ASSUME NEW error \in Answers
              PROVE  Ready(state.plan, Append(state.results, error), log, state.idx)
          <6>1. Len(Append(state.results, error)) = Len(state.results) + 1
            BY <1>0
          <6>2. \A i \in 1..Len(state.results) :
                  Append(state.results, error)[i] = state.results[i]
            BY <1>0
          <6>3. Len(state.results) \in Nat
            BY <1>0
          <6> QED
            BY <1>0, <5>1, <5>2, <6>1, <6>2, <6>3 DEF Ready, Aligned
        <5> QED
          BY <2>0, <3>1, <3>3, <3>5, <5>2, <5>3 DEF NowReady
      <4> QED
        BY <4>3, <4>7 DEF AlignInv, PreparesAStep
    <3> QED
      BY <3>2, <3>4, <3>5
  <2> QED
    BY <2>1, <2>2
<1>4. CASE Retry
  <2>1. /\ log' = log /\ state'.plan = state.plan /\ state'.results = state.results
        /\ state'.idx = state.idx /\ node = "retry_node"
        /\ node' = Resolution(state'.unresolved)
    BY <1>0, <1>4 DEF Retry, Fresh
  <2>2. CurrentKind' = CurrentKind
    BY <2>1 DEF CurrentKind
  <2>3. /\ node' \in {"step_resolver", "permission_gate"}
        /\ node' = "permission_gate" => (state'.unresolved => CurrentKind = "fan")
    BY <2>1 DEF Resolution
  <2> QED
    BY <2>1, <2>2, <2>3 DEF AlignInv, PreparesAStep, NowReady
<1>5. CASE PeersFail \/ NextIsGone \/ Finalise
  <2>1. \/ node' \notin Gone
        \/ node' = "context_check" /\ state'.response = "noroute"
    BY <1>0, <1>5 DEF PeersFail, NextIsGone, Finalise, Gone, PastGate, Fresh
  <2> QED
    BY <2>1, AlignIdle DEF AlignInv, PreparesAStep
<1>6. CASE Advance
  <2>1. PICK out \in PeersOutcomes :
          /\ Clean(out) /\ log' = log \o PeerCalls(out) /\ node = "step_dispatcher"
          /\ node' = "context_check"
          /\ state' = [state EXCEPT !.results = Finished(out), !.idx = NextIndex,
                         !.payload = "none", !.response = "none", !.retry = 0]
    BY <1>6 DEF Advance
  <2>2. state'.plan = state.plan /\ state'.results = Finished(out) /\ state'.idx = NextIndex
    BY <1>0, <2>1 DEF Fresh
  <2>3. Ready(state.plan, Finished(out), log', NextIndex)
    BY <2>1, AdvanceAligns
  <2> QED
    BY <2>1, <2>2, <2>3 DEF AlignInv, NowReady
<1> QED
  BY <1>1, <1>2, <1>3, <1>4, <1>5, <1>6 DEF Executing

LEMMA DecidingAligns == Deciding => AlignInv'
<1> SUFFICES ASSUME Deciding PROVE AlignInv'
  OBVIOUS
<1>1. node' \notin Gone
  BY Entries DEF Deciding, RoundSummary, GoalDone, GoalContinues, GoalRetriages, Summary, Gone,
                  PastGate
<1> QED
  BY <1>1, AlignIdle

LEMMA AlignStep ==
  ASSUME ~EchoedWords
  PROVE  TypeInv /\ RunInv /\ AlignInv /\ [Next]_vars => AlignInv'
<1> SUFFICES ASSUME TypeInv, RunInv, AlignInv, [Next]_vars PROVE AlignInv'
  OBVIOUS
<1>1. CASE UNCHANGED vars
  BY <1>1 DEF vars, AlignInv, PreparesAStep, NowReady, CurrentKind
<1>2. CASE Next
  BY <1>2, PlanningAligns, PreparingAligns, ExecutingAligns, DecidingAligns DEF Next
<1> QED
  BY <1>1, <1>2

LEMMA AlignImplies == TypeInv /\ AlignInv => ResultsAligned
<1> SUFFICES ASSUME TypeInv, AlignInv, PreparesAStep, NEW i \in DOMAIN state.plan,
                    i < state.idx, NoFan(state.plan, state.idx)
             PROVE  /\ i \in DOMAIN state.results
                    /\ \E k \in DOMAIN log : /\ log[k].at = i /\ log[k].out = state.results[i]
                                             /\ ~SoftFailure(log[k].out)
  BY DEF ResultsAligned, NoFan
<1>1. state.plan \in Seq(Step) /\ state.results \in Seq(Answers) /\ state.idx \in Nat
  BY FieldsTyped DEF TypeInv
<1>2. Aligned(state.results, log, state.idx - 1)
  BY DEF AlignInv, NowReady, Ready
<1>3. i \in 1..(state.idx - 1) /\ i \in 1..Len(state.results)
  BY <1>1, <1>2 DEF Aligned
<1> QED
  BY <1>1, <1>2, <1>3 DEF Aligned, Answered

\* The results that a step's references read are those of the steps they name: across
\* retries, wrapped errors, padding and parallel groups, position i holds the successful
\* answer of step i. (Under the same condition on the levels, without which some step has
\* no answer.)
THEOREM ResultsStayAligned ==
  ASSUME LevelsInOrder
  PROVE  Spec => []ResultsAligned
<1>1. CASE EchoedWords
  <2>1. ResultsAligned
    BY <1>1 DEF ResultsAligned
  <2> QED
    BY <2>1, PTL
<1>2. CASE ~EchoedWords
  <2>1. Init => RunInv /\ AlignInv
    BY RunInit, AlignInit
  <2>2. TypeInv /\ RunInv /\ [Next]_vars => RunInv'
    BY RunStep
  <2>3. TypeInv /\ RunInv /\ AlignInv /\ [Next]_vars => AlignInv'
    BY <1>2, AlignStep
  <2>4. TypeInv /\ AlignInv => ResultsAligned
    BY AlignImplies
  <2> QED
    BY <2>1, <2>2, <2>3, <2>4, Typed, PTL DEF Spec
<1> QED
  BY <1>1, <1>2

---------------------------------------------------------------------------------
(* The order of the calls, for plans whose levels enclose no foreign step *)

\* A step of the turn drops the plan or its history, leaves both alone, or adds calls to it.
LEMMA StepsOfAPlan ==
  ASSUME TypeInv, RunInv, [Next]_vars
  PROVE  \/ state'.plan = <<>> \/ log' = <<>>
         \/ /\ state'.plan = state.plan /\ state'.groups = state.groups
            /\ \/ log' = log
               \/ \E out : /\ node \in PastGate
                           /\ log' = Append(log, Called(state.idx, state.idx, out))
               \/ \E out \in PeersOutcomes : /\ node = "step_dispatcher"
                                             /\ log' = log \o PeerCalls(out)
<1>0. DOMAIN state = DOMAIN Fresh
  BY FieldsTyped DEF TypeInv
<1>1. CASE UNCHANGED vars
  BY <1>1 DEF vars
<1>2. CASE Routing \/ Deciding
  <2>1. CASE Routing
    BY <1>0, <2>1 DEF Routing, TurnInit, Triage, Chat, SpecialistAnswers, SpecialistFails, Fresh
  <2>2. CASE RoundSummary \/ GoalDone \/ Summary
    BY <1>0, <2>2 DEF RoundSummary, GoalDone, Summary, Tracked, Fresh
  <2>3. CASE GoalContinues \/ GoalRetriages
    BY <2>3 DEF GoalContinues, GoalRetriages
  <2> QED
    BY <1>2, <2>1, <2>2, <2>3 DEF Deciding
<1>3. CASE Planning
  BY <1>0, <1>3
  DEF Planning, Decompose, Embed, PlanByGoap, PlanLinearly, PlannerUnreachable, NoCandidates,
      ConfirmAccepted, AskedInstead, Clarified, MadePlan, NoPlan, Fresh
<1>4. CASE Preparing
  <2>1. /\ log' = log /\ state'.groups = state.groups
        /\ state'.plan \in {state.plan, Working}
    BY <1>0, <1>4
    DEF Preparing, ContextCheck, ResolverFills, ResolverAsks, PermissionAllows,
        PermissionDenies, CompileFails, NothingToBuild, BuildRefused, Build, Kept, Fresh
  <2>2. log = <<>> \/ Working = state.plan
    BY DEF RunInv, Working
  <2> QED
    BY <2>1, <2>2
<1>5. CASE PassThrough \/ ExecuteNothing \/ Retry
  BY <1>0, <1>5 DEF PassThrough, ExecuteNothing, Retry, Fresh
<1>6. CASE ExecuteCall \/ ExecuteFanOut \/ WaitPolls
  <2>1. PICK out : Executed(out) /\ node \in {"executor", "wait_node"}
    BY <1>6 DEF ExecuteCall, ExecuteFanOut, WaitPolls
  <2> QED
    BY <1>0, <2>1 DEF Executed, PastGate, Fresh
<1>7. CASE Validator
  <2>1. state' = Validated /\ log' = IF ReplansNow THEN <<>> ELSE log
    BY <1>7 DEF Validator
  <2>2. ~ReplansNow => /\ Validated.plan = state.plan
                       /\ Validated.groups = state.groups
    BY <1>0 DEF Validated, Wrapped, Fresh
  <2> QED
    BY <2>1, <2>2
<1>8. CASE PeersFail \/ Advance \/ NextIsGone \/ Finalise
  BY <1>0, <1>8 DEF PeersFail, Advance, NextIsGone, Finalise, Fresh
<1> QED
  BY <1>1, <1>2, <1>3, <1>4, <1>5, <1>6, <1>7, <1>8 DEF Next, Executing

LEMMA OrderStep == TypeInv /\ RunInv /\ StepsCalledInOrder /\ [Next]_vars => StepsCalledInOrder'
<1> SUFFICES ASSUME TypeInv, RunInv, StepsCalledInOrder, [Next]_vars
             PROVE  StepsCalledInOrder'
  OBVIOUS
<1>0. /\ state.plan \in Seq(Step) /\ state.idx \in Nat /\ log \in LogType
      /\ \A i \in DOMAIN state.plan : i \in Nat /\ 1 <= i
  BY FieldsTyped DEF TypeInv
<1>1. CASE state'.plan = <<>> \/ log' = <<>>
  BY <1>1 DEF StepsCalledInOrder
<1>2. CASE state'.plan = state.plan /\ state'.groups = state.groups /\ log' = log
  BY <1>2 DEF StepsCalledInOrder
<1>a. ASSUME NEW i \in Done(log) PROVE \E l \in DOMAIN log : log[l].at = i
  BY <1>a DEF Done
<1>b. ASSUME node \in PastGate, NEW i \in DOMAIN state.plan, i < state.idx
      PROVE  \E l \in DOMAIN log : log[l].at = i
  <2>1. i \in Done(log)
    BY <1>0, <1>b DEF RunInv, Gone
  <2> QED
    BY <2>1, <1>a
<1>3. ASSUME NEW out, node \in PastGate, state'.plan = state.plan,
             state'.groups = state.groups,
             log' = Append(log, Called(state.idx, state.idx, out))
      PROVE  StepsCalledInOrder'
  <2> DEFINE n == Len(log)
  <2>1. /\ n \in Nat /\ DOMAIN log = 1..n /\ DOMAIN log' = 1..(n + 1)
        /\ \A k \in 1..n : log'[k] = log[k]
        /\ log'[n + 1] = Called(state.idx, state.idx, out)
    BY <1>0, <1>3 DEF LogType
  <2>2. /\ \A k \in 1..(n + 1) : k \in 1..n \/ k = n + 1
        /\ \A k \in 1..n : k \in 1..(n + 1)
    BY <2>1
  <2> HIDE DEF n
  <2> SUFFICES ASSUME NEW k \in 1..(n + 1), NEW i \in DOMAIN state.plan, i < log'[k].at
               PROVE  \/ \E l \in 1..n : log[l].at = i
                      \/ \E g \in state.groups : {i, log'[k].at} \subseteq g
    BY <1>3, <2>1, <2>2 DEF StepsCalledInOrder
  <2>3. CASE k \in 1..n
    BY <2>1, <2>3 DEF StepsCalledInOrder
  <2>4. CASE k = n + 1
    BY <1>3, <1>b, <2>1, <2>4 DEF Called
  <2> QED
    BY <2>2, <2>3, <2>4
<1>4. ASSUME NEW out \in PeersOutcomes, node = "step_dispatcher", state'.plan = state.plan,
             state'.groups = state.groups, log' = log \o PeerCalls(out)
      PROVE  StepsCalledInOrder'
  <2>1. PeerCalls(out) \in LogType
        /\ \A k \in DOMAIN PeerCalls(out) : PeerCalls(out)[k].at \in Peers
    BY PeersAhead
  <2>2. \A k \in DOMAIN log : k \in DOMAIN log' /\ log'[k] = log[k]
    BY <1>0, <1>4, <2>1, InTheWhole DEF LogType
  <2>3. \A k \in DOMAIN log' : \/ k \in DOMAIN log /\ log'[k] = log[k]
                               \/ \E l \in DOMAIN PeerCalls(out) : log'[k] = PeerCalls(out)[l]
    BY <1>0, <1>4, <2>1, BehindEachOther DEF LogType
  <2> SUFFICES ASSUME NEW k \in DOMAIN log', NEW i \in DOMAIN state.plan, i < log'[k].at
               PROVE  \/ \E l \in DOMAIN log : log[l].at = i
                      \/ \E g \in state.groups : {i, log'[k].at} \subseteq g
    BY <1>4, <2>2 DEF StepsCalledInOrder
  <2>4. CASE k \in DOMAIN log /\ log'[k] = log[k]
    BY <2>4 DEF StepsCalledInOrder
  <2>5. CASE \E l \in DOMAIN PeerCalls(out) : log'[k] = PeerCalls(out)[l]
    <3>1. log'[k].at \in Peers
      BY <2>1, <2>5
    <3>2. CASE i < state.idx
      BY <1>4, <1>b, <3>2 DEF PastGate
    <3>3. CASE i = state.idx
      BY <1>4, <1>a, <3>3 DEF RunInv
    <3>4. CASE state.idx < i
      BY <1>0, <3>1, <3>4, PeersAdjoin DEF RunInv
    <3> QED
      BY <1>0, <3>2, <3>3, <3>4
  <2> QED
    BY <2>3, <2>4, <2>5
<1> QED
  BY <1>1, <1>2, <1>3, <1>4, StepsOfAPlan

\* derive_parallel_groups and the dispatcher call the steps in the order of the plan whenever
\* the levels enclose no foreign step: that they may is the only way a step is passed over.
THEOREM StepsAreCalledInOrder ==
  ASSUME LevelsInOrder
  PROVE  Spec => []StepsCalledInOrder
<1>1. Init => RunInv /\ StepsCalledInOrder
  <2>1. Init => log = <<>>
    BY DEF Init
  <2>2. log = <<>> => StepsCalledInOrder
    BY DEF StepsCalledInOrder
  <2> QED
    BY <2>1, <2>2, RunInit
<1>2. TypeInv /\ RunInv /\ [Next]_vars => RunInv'
  BY RunStep
<1>3. TypeInv /\ RunInv /\ StepsCalledInOrder /\ [Next]_vars => StepsCalledInOrder'
  BY OrderStep
<1> QED
  BY <1>1, <1>2, <1>3, Typed, PTL DEF Spec
=====================================================================================
