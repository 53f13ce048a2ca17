---------------------------- MODULE DynamicGraphProofs ----------------------------
(* What the gate, the routers and the resets of a turn guarantee, for every plan,  *)
(* budget and threshold. First the gate: the forced execution that skips it is     *)
(* itself the trace of an approval, and between the gate and the executor a plan   *)
(* is only replaced by what was compiled from its own instructions.                *)
EXTENDS DynamicGraph, TLAPS

Attended == turn.forced \/ turn.approved > 0

\* The nodes that follow the gate: they are reached without a new plan.
PastGate == {"context_check", "step_resolver", "permission_gate", "builder", "wait_node",
             "executor", "validator", "retry_node", "step_dispatcher"}

Fields == /\ DOMAIN state = DOMAIN Fresh
          /\ DOMAIN turn = {"made", "approved", "forced", "answers", "misfiled"}
          /\ turn.made \in Nat /\ turn.approved \in Nat

Long(steps) == Len(steps) > LongChain

AttendInv ==
  /\ Fields
  /\ node = "confirm_node" => turn.made > 0
  /\ state.force => Attended
  /\ node \in PastGate /\ Long(state.plan) => Attended
  /\ node \in PastGate /\ Long(state.draft) => Attended
  /\ log # <<>> /\ Long(state.plan) => Attended

SameHistory == /\ DOMAIN turn' = DOMAIN turn
               /\ turn'.made = turn.made /\ turn'.approved = turn.approved
               /\ turn'.forced = turn.forced

\* A step of a node that makes no plan and is not approached from outside the gate.
Quiet ==
  /\ DOMAIN state' = DOMAIN state /\ SameHistory
  /\ state'.plan = state.plan /\ state'.draft = state.draft
  /\ state'.force = state.force
  /\ node' # "confirm_node"
  /\ node' \in PastGate => node \in PastGate
  /\ log' # <<>> => log # <<>> \/ node \in PastGate

LEMMA QuietStep == AttendInv /\ Quiet => AttendInv'
BY DEF AttendInv, Quiet, SameHistory, Fields, Attended, Long

\* A step that drops the plan or keeps it, and leaves the part behind the gate.
Dropping ==
  /\ DOMAIN state' = DOMAIN state /\ SameHistory
  /\ state'.plan = <<>>
  /\ state'.force => state.force
  /\ node' # "confirm_node" /\ node' \notin PastGate

LEMMA NoneIsShort == ~Long(<<>>)
BY GraphAssumption DEF Long

LEMMA DroppingStep == AttendInv /\ Dropping => AttendInv'
BY NoneIsShort DEF AttendInv, Dropping, SameHistory, Fields, Attended, Long

LEMMA EntriesOutside == PlanningEntry \notin PastGate \cup {"confirm_node"}
                          /\ ReplanEntry \notin PastGate \cup {"confirm_node"}
BY DEF PlanningEntry, ReplanEntry, PastGate

LEMMA AttendInit == Init => AttendInv
<1> SUFFICES ASSUME Init PROVE AttendInv
  OBVIOUS
<1>1. PICK force \in BOOLEAN, goal \in BOOLEAN, replans \in 0..MaxReplans,
           repeats \in KeptRepeats :
        /\ node = "turn_init" /\ log = <<>>
        /\ state = [Fresh EXCEPT !.force = force, !.goal = goal, !.replans = replans,
                                 !.repeats = repeats]
        /\ turn = [made |-> 0, approved |-> 0, forced |-> force, answers |-> 0,
                   misfiled |-> FALSE]
  BY DEF Init
<1>2. DOMAIN state = DOMAIN Fresh /\ (state.force => turn.forced)
  BY <1>1 DEF Fresh
<1>3. DOMAIN turn = {"made", "approved", "forced", "answers", "misfiled"}
  BY <1>1
<1> QED
  BY <1>1, <1>2, <1>3 DEF AttendInv, Fields, Attended, PastGate

LEMMA RoutingAttends == AttendInv /\ Routing => AttendInv'
<1> SUFFICES ASSUME AttendInv, Routing PROVE AttendInv'
  OBVIOUS
<1>0. DOMAIN state = DOMAIN Fresh
  BY DEF AttendInv, Fields
<1>1. CASE TurnInit
  <2>1. Dropping
    BY <1>0, <1>1 DEF TurnInit, Dropping, SameHistory, PastGate, Fresh
  <2> QED
    BY <2>1, DroppingStep
<1>2. CASE Triage
  <2>1. Quiet
    BY <1>0, <1>2, EntriesOutside DEF Triage, Quiet, SameHistory, PastGate, Fresh
  <2> QED
    BY <2>1, QuietStep
<1>3. CASE Chat \/ SpecialistAnswers \/ SpecialistFails
  <2>1. Quiet
    BY <1>0, <1>3, EntriesOutside
    DEF Chat, SpecialistAnswers, SpecialistFails, Quiet, SameHistory, PastGate, Fresh
  <2> QED
    BY <2>1, QuietStep
<1> QED
  BY <1>1, <1>2, <1>3 DEF Routing

\* What a new plan makes of the history, and where the gate sends it.
LEMMA PlanningKeepsForm ==
  ASSUME AttendInv, MadePlan
  PROVE  /\ DOMAIN turn' = DOMAIN turn /\ log' = <<>>
         /\ turn'.made \in Nat /\ turn'.made > 0
         /\ turn'.approved = turn.approved /\ turn'.forced = turn.forced
BY DEF AttendInv, Fields, MadePlan

LEMMA GateLeadsOn == ASSUME NEW S, NEW gate \in S
                     PROVE  /\ Gated(gate) \in {"context_check", "confirm_node", "clarify_node"}
                            /\ S = {"confirm"} /\ ~state.force => Gated(gate) = "confirm_node"
BY DEF Gated

LEMMA PlanningAttends == AttendInv /\ Planning => AttendInv'
<1> SUFFICES ASSUME AttendInv, Planning PROVE AttendInv'
  OBVIOUS
<1>0. DOMAIN state = DOMAIN Fresh
  BY DEF AttendInv, Fields
<1>1. CASE Decompose \/ Embed \/ AskedInstead
  <2>1. Quiet
    BY <1>0, <1>1 DEF Decompose, Embed, AskedInstead, Quiet, SameHistory, PastGate, Fresh
  <2> QED
    BY <2>1, QuietStep
<1>2. CASE PlanByGoap
  <2>0. PICK steps \in GoapPlans : \E gate \in Gates(steps) :
          state' = Planned(steps, <<>>, Groups(steps)) /\ node' = Gated(gate) /\ MadePlan
    BY <1>2 DEF PlanByGoap
  <2>1. PICK gate \in Gates(steps) :
          state' = Planned(steps, <<>>, Groups(steps)) /\ node' = Gated(gate) /\ MadePlan
    BY <2>0
  <2>2. /\ DOMAIN state' = DOMAIN state /\ state'.plan = steps /\ state'.draft = <<>>
        /\ state'.force = state.force
    BY <1>0, <2>1 DEF Planned, Fresh
  <2>3. Long(steps) /\ node' \in PastGate => state.force
    BY <2>1, GateLeadsOn DEF Gates, Long, PastGate
  <2> QED
    BY <2>1, <2>2, <2>3, PlanningKeepsForm, NoneIsShort DEF AttendInv, Fields, Attended
<1>3. CASE PlanLinearly
  <2>0. PICK draft \in Drafts : \E gate \in Gates(draft) :
          state' = Planned(<<>>, draft, {}) /\ node' = Gated(gate) /\ MadePlan
    BY <1>3 DEF PlanLinearly
  <2>1. PICK gate \in Gates(draft) :
          state' = Planned(<<>>, draft, {}) /\ node' = Gated(gate) /\ MadePlan
    BY <2>0
  <2>2. /\ DOMAIN state' = DOMAIN state /\ state'.plan = <<>> /\ state'.draft = draft
        /\ state'.force = state.force
    BY <1>0, <2>1 DEF Planned, Fresh
  <2>3. Long(draft) /\ node' \in PastGate => state.force
    BY <2>1, GateLeadsOn DEF Gates, Long, PastGate
  <2> QED
    BY <2>1, <2>2, <2>3, PlanningKeepsForm, NoneIsShort DEF AttendInv, Fields, Attended
<1>4. CASE PlannerUnreachable
  <2>1. Dropping
    BY <1>0, <1>4 DEF PlannerUnreachable, NoPlan, Dropping, SameHistory, PastGate, Fresh
  <2> QED
    BY <2>1, DroppingStep
<1>5. CASE NoCandidates
  <2>1. /\ DOMAIN state' = DOMAIN state /\ state'.plan = <<>> /\ state'.draft = <<>>
        /\ state'.force = state.force /\ MadePlan
    BY <1>0, <1>5 DEF NoCandidates, NoPlan, Fresh
  <2> QED
    BY <2>1, PlanningKeepsForm, NoneIsShort DEF AttendInv, Fields, Attended
<1>6. CASE ConfirmAccepted
  <2>1. /\ DOMAIN state' = DOMAIN state /\ node' # "confirm_node"
        /\ DOMAIN turn' = DOMAIN turn /\ turn'.made = turn.made
        /\ turn'.approved = turn.made /\ turn.made > 0
    BY <1>0, <1>6 DEF ConfirmAccepted, AttendInv, Fields, Fresh
  <2> QED
    BY <2>1 DEF AttendInv, Fields, Attended
<1>7. CASE Clarified
  <2>1. Quiet
    BY <1>0, <1>7, EntriesOutside
    DEF Clarified, Quiet, SameHistory, AttendInv, Fields, PastGate, Fresh
  <2> QED
    BY <2>1, QuietStep
<1> QED
  BY <1>1, <1>2, <1>3, <1>4, <1>5, <1>6, <1>7 DEF Planning

LEMMA PreparingAttends == AttendInv /\ Preparing => AttendInv'
<1> SUFFICES ASSUME AttendInv, Preparing PROVE AttendInv'
  OBVIOUS
<1>0. DOMAIN state = DOMAIN Fresh
  BY DEF AttendInv, Fields
<1>1. CASE ContextCheck \/ ResolverFills \/ ResolverAsks \/ PermissionAllows
             \/ PermissionDenies \/ CompileFails \/ NothingToBuild
  <2>1. Quiet
    BY <1>0, <1>1 DEF ContextCheck, Resolution, ResolverFills, ResolverAsks, PermissionAllows,
      PermissionDenies, CompileFails, NothingToBuild, Quiet, SameHistory, PastGate, Fresh
  <2> QED
    BY <2>1, QuietStep
<1>2. CASE BuildRefused \/ Build
  <2>1. /\ node = "builder" /\ node' # "confirm_node" /\ UNCHANGED <<log, turn>>
        /\ DOMAIN state' = DOMAIN state /\ state'.draft = state.draft
        /\ state'.force = state.force /\ state'.plan \in {state.plan, state.draft}
    BY <1>0, <1>2 DEF BuildRefused, Build, Kept, Working, Fresh
  <2>2. Long(state'.plan) => Attended
    BY <2>1 DEF AttendInv, PastGate
  <2> QED
    BY <2>1, <2>2 DEF AttendInv, Fields, Attended, PastGate
<1> QED
  BY <1>1, <1>2 DEF Preparing

LEMMA ExecutingAttends == AttendInv /\ Executing => AttendInv'
<1> SUFFICES ASSUME AttendInv, Executing PROVE AttendInv'
  OBVIOUS
<1>0. DOMAIN state = DOMAIN Fresh
  BY DEF AttendInv, Fields
<1>1. CASE PassThrough \/ ExecuteNothing \/ ExecuteCall \/ ExecuteFanOut \/ WaitPolls
  <2>1. Quiet
    BY <1>0, <1>1 DEF PassThrough, ExecuteNothing, ExecuteCall, ExecuteFanOut, WaitPolls,
      Executed, Quiet, SameHistory, PastGate, Fresh
  <2> QED
    BY <2>1, QuietStep
<1>2. CASE Validator /\ ReplansNow
  <2>0. ReplanReset(state).response = "replan"
    BY <1>0 DEF ReplanReset, Fresh
  <2>1. state' = ReplanReset(state) /\ node' = ReplanEntry /\ UNCHANGED turn
    <3>1. Validated = ReplanReset(state)
      BY <1>2 DEF Validated
    <3>2. Routes(Validated) = {ReplanEntry}
      BY <2>0, <3>1 DEF Routes, Failures
    <3> QED
      BY <1>2, <3>1, <3>2 DEF Validator
  <2>2. Dropping
    BY <1>0, <2>1, EntriesOutside DEF ReplanReset, Dropping, SameHistory, Fresh
  <2> QED
    BY <2>2, DroppingStep
<1>3. CASE Validator /\ ~ReplansNow
  <2>1. /\ DOMAIN state' = DOMAIN state /\ state'.plan = state.plan
        /\ state'.draft = state.draft /\ state'.force = state.force
    BY <1>0, <1>3 DEF Validator, Validated, Wrapped, Fresh
  <2>2. node' # "confirm_node" /\ node = "validator" /\ UNCHANGED <<log, turn>>
    BY <1>3, EntriesOutside DEF Validator, Routes
  <2>3. Quiet
    BY <2>1, <2>2 DEF Quiet, SameHistory, PastGate
  <2> QED
    BY <2>3, QuietStep
<1>4. CASE Retry
  <2>1. Quiet
    BY <1>0, <1>4 DEF Retry, Resolution, Quiet, SameHistory, PastGate, Fresh
  <2> QED
    BY <2>1, QuietStep
<1>5. CASE PeersFail \/ Advance \/ NextIsGone \/ Finalise
  <2>1. /\ node = "step_dispatcher" /\ node' # "confirm_node"
        /\ DOMAIN state' = DOMAIN state /\ state'.plan = state.plan
        /\ state'.draft = state.draft /\ state'.force = state.force
    BY <1>0, <1>5 DEF PeersFail, Advance, NextIsGone, Finalise, Fresh
  <2>2. SameHistory
    BY <1>5 DEF PeersFail, Advance, NextIsGone, Finalise, SameHistory, AttendInv, Fields
  <2>3. Quiet
    BY <2>1, <2>2 DEF Quiet, PastGate
  <2> QED
    BY <2>3, QuietStep
<1> QED
  BY <1>1, <1>2, <1>3, <1>4, <1>5 DEF Executing

LEMMA DecidingAttends == AttendInv /\ Deciding => AttendInv'
<1> SUFFICES ASSUME AttendInv, Deciding PROVE AttendInv'
  OBVIOUS
<1>0. DOMAIN state = DOMAIN Fresh
  BY DEF AttendInv, Fields
<1>1. CASE RoundSummary \/ GoalDone \/ Summary
  <2>1. Quiet
    BY <1>0, <1>1 DEF RoundSummary, GoalDone, Tracked, Summary, Quiet, SameHistory, PastGate,
      Fresh
  <2> QED
    BY <2>1, QuietStep
<1>2. CASE GoalContinues \/ GoalRetriages
  <2>1. Dropping
    BY <1>0, <1>2, EntriesOutside
    DEF GoalContinues, GoalRetriages, Cleared, Tracked, Dropping, SameHistory, PastGate, Fresh
  <2> QED
    BY <2>1, DroppingStep
<1> QED
  BY <1>1, <1>2 DEF Deciding

LEMMA StutterAttends == AttendInv /\ UNCHANGED vars => AttendInv'
BY DEF AttendInv, vars, Fields, Attended, Long

LEMMA AttendStep == AttendInv /\ [Next]_vars => AttendInv'
BY RoutingAttends, PlanningAttends, PreparingAttends, ExecutingAttends, DecidingAttends,
   StutterAttends DEF Next

LEMMA AttendImplies == AttendInv => LongChainsAttended
BY DEF AttendInv, Attended, Long, LongChainsAttended

\* No call is made for a long chain before the user has approved a plan in this turn,
\* unless the caller forced the execution: confirm_node lies on every way to the executor,
\* through replans, goal rounds, new triages and plans the builder compiles late.
THEOREM LongChainsAreAttended == Spec => []LongChainsAttended
BY AttendInit, AttendStep, AttendImplies, PTL DEF Spec

---------------------------------------------------------------------------------
(* A failed call and the goal loop: the nodes from which a turn may end without it see no *)
(* failure of a call, because every router that has one in hand leads to the goal loop.  *)

CallFailed == {"fail", "recov", "nopayload", "yamlerr", "partial"}

\* Before a step is built its response is empty, or says why it cannot be.
FailureInv ==
  /\ DOMAIN state = DOMAIN Fresh
  /\ node \in {"context_check", "step_resolver", "permission_gate"}
       => state.response \notin CallFailed
  /\ node = "summary_node" => state.decision = "done"
  /\ FailureReachesGoal

Preparation == {"context_check", "step_resolver", "permission_gate"}

LEMMA FailureInit == Init => FailureInv
<1> SUFFICES ASSUME Init PROVE FailureInv
  OBVIOUS
<1>1. node = "turn_init" /\ DOMAIN state = DOMAIN Fresh
  BY DEF Init, Fresh
<1> QED
  BY <1>1 DEF FailureInv, FailureReachesGoal

\* A step that keeps the fields and ends in no failure, or leads where none is looked for.
LEMMA HarmlessStep ==
  ASSUME DOMAIN state' = DOMAIN Fresh,
         \/ state'.response \notin CallFailed /\ node' # "summary_node"
         \/ node' \notin Preparation \cup {"summary_node", "end"}
         \/ node' \in {"summary_node", "end"} /\ state'.decision = "done"
         \/ node' = "end" /\ ~state'.goal
  PROVE  FailureInv'
BY DEF FailureInv, FailureReachesGoal, CallFailed, Preparation

LEMMA Entries == {PlanningEntry, ReplanEntry} \subseteq {"decompose", "embedder", "planner"}
BY DEF PlanningEntry, ReplanEntry

LEMMA RoutingFails == FailureInv /\ Routing => FailureInv'
<1> SUFFICES ASSUME FailureInv, Routing PROVE FailureInv'
  OBVIOUS
<1>0. DOMAIN state = DOMAIN Fresh
  BY DEF FailureInv
<1>1. CASE TurnInit \/ Triage \/ SpecialistFails
  BY <1>0, <1>1, Entries, HarmlessStep DEF TurnInit, Triage, SpecialistFails, Preparation, Fresh
<1>2. CASE Chat
  BY <1>0, <1>2, HarmlessStep DEF Chat, CallFailed, Fresh
<1>3. CASE SpecialistAnswers
  BY <1>0, <1>3, Entries, HarmlessStep DEF SpecialistAnswers, Preparation, Fresh
<1> QED
  BY <1>1, <1>2, <1>3 DEF Routing

LEMMA PlanningFails == FailureInv /\ Planning => FailureInv'
<1> SUFFICES ASSUME FailureInv, Planning PROVE FailureInv'
  OBVIOUS
<1>0. DOMAIN state = DOMAIN Fresh
  BY DEF FailureInv
<1>1. CASE Decompose \/ Embed
  BY <1>0, <1>1, HarmlessStep DEF Decompose, Embed, Preparation, Fresh
<1>2. CASE PlanByGoap \/ PlanLinearly \/ NoCandidates
  <2>1. DOMAIN state' = DOMAIN Fresh /\ state'.response = "none"
    BY <1>0, <1>2 DEF PlanByGoap, PlanLinearly, NoCandidates, Planned, NoPlan, Fresh
  <2>2. node' \in {"context_check", "confirm_node", "clarify_node"}
    BY <1>2 DEF PlanByGoap, PlanLinearly, NoCandidates, Gated
  <2> QED
    BY <2>1, <2>2, HarmlessStep DEF CallFailed
<1>3. CASE PlannerUnreachable \/ ConfirmAccepted \/ AskedInstead \/ Clarified
  BY <1>0, <1>3, Entries, HarmlessStep
  DEF PlannerUnreachable, NoPlan, ConfirmAccepted, AskedInstead, Clarified, CallFailed, Fresh
<1> QED
  BY <1>1, <1>2, <1>3 DEF Planning

LEMMA PreparingFails == FailureInv /\ Preparing => FailureInv'
<1> SUFFICES ASSUME FailureInv, Preparing PROVE FailureInv'
  OBVIOUS
<1>0. DOMAIN state = DOMAIN Fresh
  BY DEF FailureInv
<1>1. CASE ContextCheck \/ ResolverFills \/ PermissionAllows
  <2>1. state.response \notin CallFailed
    BY <1>1 DEF FailureInv, ContextCheck, ResolverFills, PermissionAllows
  <2>2. DOMAIN state' = DOMAIN Fresh /\ state'.response = state.response
        /\ node' # "summary_node"
    BY <1>0, <1>1 DEF ContextCheck, Resolution, ResolverFills, PermissionAllows, Fresh
  <2> QED
    BY <2>1, <2>2, HarmlessStep
<1>2. CASE ResolverAsks \/ PermissionDenies
  BY <1>0, <1>2, HarmlessStep DEF ResolverAsks, PermissionDenies, CallFailed, Fresh
<1>3. CASE CompileFails \/ NothingToBuild \/ BuildRefused \/ Build
  <2>1. DOMAIN state' = DOMAIN Fresh /\ node' \in {"wait_node", "executor"}
    BY <1>0, <1>3 DEF CompileFails, NothingToBuild, BuildRefused, Build, Fresh
  <2> QED
    BY <2>1, HarmlessStep DEF Preparation
<1> QED
  BY <1>1, <1>2, <1>3 DEF Preparing

LEMMA ExecutingFails == FailureInv /\ Executing => FailureInv'
<1> SUFFICES ASSUME FailureInv, Executing PROVE FailureInv'
  OBVIOUS
<1>0. DOMAIN state = DOMAIN Fresh
  BY DEF FailureInv
<1>1. CASE PassThrough \/ ExecuteNothing \/ ExecuteCall \/ ExecuteFanOut \/ WaitPolls
  <2>1. DOMAIN state' = DOMAIN Fresh /\ node' = "validator"
    BY <1>0, <1>1 DEF PassThrough, ExecuteNothing, ExecuteCall, ExecuteFanOut, WaitPolls,
      Executed, Fresh
  <2> QED
    BY <2>1, HarmlessStep DEF Preparation
<1>2. CASE Validator
  <2>1. DOMAIN Validated = DOMAIN Fresh
    BY <1>0 DEF Validated, ReplanReset, Wrapped, Fresh
  <2>2. state' = Validated /\ node' \in Routes(Validated)
    BY <1>2 DEF Validator
  <2>3. \/ node' \in {ReplanEntry, "retry_node", "goap_goal", "step_dispatcher"}
        \/ node' = "end" /\ (~state'.goal \/ state'.response \in {"auth", "need", "text"})
    BY <2>2 DEF Routes
  <2> QED
    BY <2>1, <2>2, <2>3, Entries, HarmlessStep DEF Preparation, CallFailed
<1>3. CASE Retry
  BY <1>0, <1>3, HarmlessStep DEF Retry, Resolution, CallFailed, Fresh
<1>4. CASE PeersFail
  BY <1>0, <1>4, HarmlessStep DEF PeersFail, Preparation, Fresh
<1>5. CASE Advance \/ NextIsGone \/ Finalise
  BY <1>0, <1>5, HarmlessStep DEF Advance, NextIsGone, Finalise, CallFailed, Preparation, Fresh
<1> QED
  BY <1>1, <1>2, <1>3, <1>4, <1>5 DEF Executing

LEMMA DecidingFails == FailureInv /\ Deciding => FailureInv'
<1> SUFFICES ASSUME FailureInv, Deciding PROVE FailureInv'
  OBVIOUS
<1>0. DOMAIN state = DOMAIN Fresh
  BY DEF FailureInv
<1>1. CASE RoundSummary \/ GoalContinues \/ GoalRetriages
  <2>1. DOMAIN state' = DOMAIN Fresh
    BY <1>0, <1>1 DEF RoundSummary, GoalContinues, GoalRetriages, Cleared, Tracked, Fresh
  <2>2. node' \notin Preparation \cup {"summary_node", "end"}
    BY <1>1, Entries DEF RoundSummary, GoalContinues, GoalRetriages, Preparation
  <2> QED
    BY <2>1, <2>2, HarmlessStep
<1>2. CASE GoalDone
  <2>1. DOMAIN state' = DOMAIN Fresh /\ state'.decision = "done" /\ node' = "summary_node"
    BY <1>0, <1>2 DEF GoalDone, Tracked, Fresh
  <2> QED
    BY <2>1, HarmlessStep
<1>3. CASE Summary
  <2>1. state.decision = "done"
    BY <1>3 DEF FailureInv, Summary
  <2>2. DOMAIN state' = DOMAIN Fresh /\ state'.decision = state.decision /\ node' = "end"
    BY <1>0, <1>3 DEF Summary, Fresh
  <2> QED
    BY <2>1, <2>2, HarmlessStep
<1> QED
  BY <1>1, <1>2, <1>3 DEF Deciding

LEMMA FailureStep == FailureInv /\ [Next]_vars => FailureInv'
<1>1. FailureInv /\ UNCHANGED vars => FailureInv'
  BY DEF FailureInv, vars, FailureReachesGoal
<1> QED
  BY <1>1, RoutingFails, PlanningFails, PreparingFails, ExecutingFails, DecidingFails DEF Next

\* A turn with a goal never ends on a failed call that the goal loop has not judged: the routers
\* of validator, dispatcher and resolver lead there, whatever was retried or replanned before.
THEOREM FailuresReachGoal == Spec => []FailureReachesGoal
<1>1. FailureInv => FailureReachesGoal
  BY DEF FailureInv
<1> QED
  BY <1>1, FailureInit, FailureStep, PTL DEF Spec

---------------------------------------------------------------------------------
(* The id of the plan: it is dropped before the next plan of the round is made. *)

Unplanned == {"turn_init", "triage", "specialist_entry", "decompose", "embedder", "planner",
              "clarify_node"}

IdInv == /\ state.planId \in {0, turn.made} /\ ~turn.misfiled
         /\ node \in Unplanned => state.planId = 0

FiledInv ==
  /\ DOMAIN state = DOMAIN Fresh
  /\ DOMAIN turn = {"made", "approved", "forced", "answers", "misfiled"}
  /\ state.iterations \in Nat
  /\ node \in PastGate => state.response # "replan"
  /\ node = "turn_init" => state.iterations = 0
  /\ state.iterations = 0 => IdInv

LEMMA FiledInit == Init => FiledInv
<1> SUFFICES ASSUME Init PROVE FiledInv
  OBVIOUS
<1>1. PICK force \in BOOLEAN, goal \in BOOLEAN, replans \in 0..MaxReplans,
           repeats \in KeptRepeats :
        /\ node = "turn_init"
        /\ state = [Fresh EXCEPT !.force = force, !.goal = goal, !.replans = replans,
                                 !.repeats = repeats]
        /\ turn = [made |-> 0, approved |-> 0, forced |-> force, answers |-> 0,
                   misfiled |-> FALSE]
  BY DEF Init
<1>2. DOMAIN state = DOMAIN Fresh /\ state.planId = 0 /\ state.iterations = 0
  BY <1>1 DEF Fresh
<1> QED
  BY <1>1, <1>2 DEF FiledInv, IdInv, PastGate

\* A step that makes no plan and records nothing.
LEMMA SameId ==
  ASSUME FiledInv, DOMAIN state' = DOMAIN Fresh, SameHistory, turn'.misfiled = turn.misfiled,
         state'.iterations = state.iterations, state'.planId \in {0, state.planId},
         node' \in PastGate => state'.response # "replan", node' # "turn_init",
         node' \in Unplanned => node \in Unplanned \/ state'.planId = 0
  PROVE  FiledInv'
BY DEF FiledInv, IdInv, SameHistory

\* The goal loop opens another round, of which nothing is claimed.
LEMMA NextRound ==
  ASSUME FiledInv, DOMAIN state' = DOMAIN Fresh, turn' = turn,
         state'.iterations = state.iterations + 1, node' \notin PastGate \cup {"turn_init"}
  PROVE  FiledInv'
BY DEF FiledInv

LEMMA RoutingFiles == FiledInv /\ Routing => FiledInv'
<1> SUFFICES ASSUME FiledInv, Routing PROVE FiledInv'
  OBVIOUS
<1>0. DOMAIN state = DOMAIN Fresh
  BY DEF FiledInv
<1>1. CASE TurnInit
  <2>1. /\ DOMAIN state' = DOMAIN Fresh /\ state'.iterations = 0 /\ state'.planId = 0
        /\ node = "turn_init" /\ node' = "triage" /\ turn' = turn
    BY <1>0, <1>1 DEF TurnInit, Fresh
  <2> QED
    BY <2>1, SameId DEF FiledInv, SameHistory, PastGate
<1>2. CASE Triage \/ Chat \/ SpecialistAnswers \/ SpecialistFails
  <2>1. /\ DOMAIN state' = DOMAIN Fresh /\ state'.iterations = state.iterations
        /\ state'.planId = state.planId /\ turn' = turn
    BY <1>0, <1>2 DEF Triage, Chat, SpecialistAnswers, SpecialistFails, Fresh
  <2>2. /\ node' \notin PastGate \cup {"turn_init"}
        /\ node' \in Unplanned => node \in Unplanned
    BY <1>2, EntriesOutside, Entries
    DEF Triage, Chat, SpecialistAnswers, SpecialistFails, PastGate, Unplanned
  <2> QED
    BY <2>1, <2>2, SameId DEF SameHistory
<1> QED
  BY <1>1, <1>2 DEF Routing

LEMMA PlanningFiles == FiledInv /\ Planning => FiledInv'
<1> SUFFICES ASSUME FiledInv, Planning PROVE FiledInv'
  OBVIOUS
<1>0. DOMAIN state = DOMAIN Fresh
  BY DEF FiledInv
<1>1. CASE Decompose \/ Embed
  <2>1. /\ DOMAIN state' = DOMAIN Fresh /\ state'.iterations = state.iterations
        /\ state'.planId = state.planId /\ turn' = turn
        /\ node' \in {"embedder", "planner"} /\ node \in Unplanned
    BY <1>0, <1>1 DEF Decompose, Embed, Unplanned, Fresh
  <2> QED
    BY <2>1, SameId DEF SameHistory, PastGate
<1>2. CASE PlanByGoap \/ PlanLinearly \/ NoCandidates
  <2>1. /\ DOMAIN state' = DOMAIN Fresh /\ state'.iterations = state.iterations
        /\ state'.planId = state.planId /\ state'.response = "none"
    BY <1>0, <1>2 DEF PlanByGoap, PlanLinearly, NoCandidates, Planned, NoPlan, Fresh
  <2>2. node = "planner" /\ node' \in {"context_check", "confirm_node", "clarify_node"}
    BY <1>2 DEF PlanByGoap, PlanLinearly, NoCandidates, Gated
  <2>3. DOMAIN turn' = DOMAIN turn /\ turn'.misfiled = turn.misfiled
    BY <1>2 DEF PlanByGoap, PlanLinearly, NoCandidates, MadePlan, FiledInv
  <2> QED
    BY <2>1, <2>2, <2>3 DEF FiledInv, IdInv, Unplanned
<1>3. CASE PlannerUnreachable \/ ConfirmAccepted \/ AskedInstead \/ Clarified
  <2>1. /\ DOMAIN state' = DOMAIN Fresh /\ state'.iterations = state.iterations
        /\ state'.planId = state.planId /\ state'.response # "replan"
    BY <1>0, <1>3
    DEF PlannerUnreachable, NoPlan, ConfirmAccepted, AskedInstead, Clarified, Fresh
  <2>2. /\ node' \in {"end", "context_check", PlanningEntry}
        /\ node' = PlanningEntry => node = "clarify_node"
    BY <1>3, Entries DEF PlannerUnreachable, ConfirmAccepted, AskedInstead, Clarified
  <2>3. /\ DOMAIN turn' = DOMAIN turn /\ turn'.misfiled = turn.misfiled
        /\ turn'.made = turn.made
    BY <1>3 DEF PlannerUnreachable, ConfirmAccepted, AskedInstead, Clarified, FiledInv
  <2> QED
    BY <2>1, <2>2, <2>3, Entries DEF FiledInv, IdInv, Unplanned
<1> QED
  BY <1>1, <1>2, <1>3 DEF Planning

LEMMA PreparingFiles == FiledInv /\ Preparing => FiledInv'
<1> SUFFICES ASSUME FiledInv, Preparing PROVE FiledInv'
  OBVIOUS
<1>0. DOMAIN state = DOMAIN Fresh
  BY DEF FiledInv
<1>1. /\ node \in PastGate /\ turn' = turn
      /\ node' \in PastGate \cup {"goap_goal", "end"}
  BY DEF Preparing, ContextCheck, Resolution, ResolverFills, ResolverAsks, PermissionAllows,
    PermissionDenies, CompileFails, NothingToBuild, BuildRefused, Build, PastGate
<1>2. DOMAIN state' = DOMAIN Fresh /\ state'.iterations = state.iterations
      /\ state'.response # "replan"
  BY <1>0, <1>1 DEF Preparing, ContextCheck, ResolverFills, ResolverAsks, PermissionAllows,
    PermissionDenies, CompileFails, NothingToBuild, BuildRefused, Build, FiledInv, Fresh
<1>3. state'.planId \in {state.planId, turn.made}
  BY <1>0 DEF Preparing, ContextCheck, ResolverFills, ResolverAsks, PermissionAllows,
    PermissionDenies, CompileFails, NothingToBuild, BuildRefused, Build, SavedId, Fresh
<1>4. node' \notin Unplanned
  BY <1>1 DEF PastGate, Unplanned
<1> QED
  BY <1>1, <1>2, <1>3, <1>4 DEF FiledInv, IdInv, Unplanned

LEMMA ExecutingFiles == FiledInv /\ Executing => FiledInv'
<1> SUFFICES ASSUME FiledInv, Executing PROVE FiledInv'
  OBVIOUS
<1>0. DOMAIN state = DOMAIN Fresh
  BY DEF FiledInv
<1>1. CASE PassThrough \/ ExecuteNothing \/ ExecuteCall \/ ExecuteFanOut \/ WaitPolls
  <2>1. /\ DOMAIN state' = DOMAIN Fresh /\ state'.iterations = state.iterations
        /\ state'.planId = state.planId /\ turn' = turn /\ node' = "validator"
    BY <1>0, <1>1 DEF PassThrough, ExecuteNothing, ExecuteCall, ExecuteFanOut, WaitPolls,
      Executed, Fresh
  <2>2. state'.response # "replan"
    BY <1>0, <1>1, GraphAssumption DEF PassThrough, ExecuteNothing, ExecuteCall, ExecuteFanOut,
      WaitPolls, Executed, Fresh, CallOutcomes, FiledInv, PastGate
  <2> QED
    BY <2>1, <2>2, SameId DEF SameHistory, Unplanned
<1>2. CASE Validator /\ ReplansNow
  <2>1. Validated = ReplanReset(state)
    BY <1>2 DEF Validated
  <2>2. /\ DOMAIN Validated = DOMAIN Fresh /\ Validated.iterations = state.iterations
        /\ Validated.planId = 0 /\ Validated.response = "replan"
    BY <1>0, <2>1 DEF ReplanReset, Fresh
  <2>3. state' = Validated /\ turn' = turn /\ node' = ReplanEntry
    <3>1. Routes(Validated) = {ReplanEntry}
      BY <2>2 DEF Routes, Failures
    <3> QED
      BY <1>2, <3>1 DEF Validator
  <2> QED
    BY <2>2, <2>3, Entries, SameId DEF SameHistory, PastGate
<1>3. CASE Validator /\ ~ReplansNow
  <2>1. state.response # "replan"
    BY <1>3 DEF Validator, FiledInv, PastGate
  <2>2. /\ DOMAIN Validated = DOMAIN Fresh /\ Validated.iterations = state.iterations
        /\ Validated.planId = state.planId /\ Validated.response # "replan"
    BY <1>0, <1>3, <2>1 DEF Validated, Wrapped, Fresh
  <2>3. state' = Validated /\ turn' = turn
        /\ node' \in {"end", "retry_node", "goap_goal", "step_dispatcher"}
    BY <1>3, <2>2 DEF Validator, Routes
  <2> QED
    BY <2>2, <2>3, SameId DEF SameHistory, Unplanned
<1>4. CASE Retry \/ PeersFail \/ Advance \/ NextIsGone
  <2>1. /\ DOMAIN state' = DOMAIN Fresh /\ state'.iterations = state.iterations
        /\ state'.planId = state.planId /\ turn' = turn /\ state'.response # "replan"
    BY <1>0, <1>4 DEF Retry, PeersFail, Advance, NextIsGone, Fresh
  <2>2. node' \notin Unplanned
    BY <1>4 DEF Retry, Resolution, PeersFail, Advance, NextIsGone, Unplanned
  <2> QED
    BY <2>1, <2>2, SameId DEF SameHistory, Unplanned
<1>5. CASE Finalise
  <2>1. /\ DOMAIN state' = DOMAIN Fresh /\ state'.iterations = state.iterations
        /\ state'.planId = state.planId /\ node' = "round_summary"
    BY <1>0, <1>5 DEF Finalise, Fresh
  <2>2. /\ DOMAIN turn' = DOMAIN turn /\ turn'.made = turn.made
        /\ turn'.misfiled = TRUE => turn.misfiled \/ state.planId \notin {0, turn.made}
    BY <1>5 DEF Finalise, FiledInv
  <2> QED
    BY <2>1, <2>2 DEF FiledInv, IdInv, PastGate, Unplanned
<1> QED
  BY <1>1, <1>2, <1>3, <1>4, <1>5 DEF Executing

LEMMA DecidingFiles == FiledInv /\ Deciding => FiledInv'
<1> SUFFICES ASSUME FiledInv, Deciding PROVE FiledInv'
  OBVIOUS
<1>0. DOMAIN state = DOMAIN Fresh
  BY DEF FiledInv
<1>1. CASE RoundSummary \/ Summary
  <2>1. /\ DOMAIN state' = DOMAIN Fresh /\ state'.iterations = state.iterations
        /\ state'.planId = state.planId /\ turn' = turn /\ node' \in {"goap_goal", "end"}
    BY <1>0, <1>1 DEF RoundSummary, Summary, Fresh
  <2> QED
    BY <2>1, SameId DEF SameHistory, PastGate, Unplanned
<1>2. CASE GoalDone \/ GoalContinues \/ GoalRetriages
  <2>1. DOMAIN state' = DOMAIN Fresh /\ state'.iterations = state.iterations + 1 /\ turn' = turn
    BY <1>0, <1>2 DEF GoalDone, GoalContinues, GoalRetriages, Cleared, Tracked, Fresh
  <2>2. node' \notin PastGate \cup {"turn_init"}
    BY <1>2, EntriesOutside, Entries DEF GoalDone, GoalContinues, GoalRetriages, PastGate
  <2> QED
    BY <2>1, <2>2, NextRound
<1> QED
  BY <1>1, <1>2 DEF Deciding

LEMMA FiledStep == FiledInv /\ [Next]_vars => FiledInv'
<1>1. FiledInv /\ UNCHANGED vars => FiledInv'
  BY DEF FiledInv, IdInv, vars
<1> QED
  BY <1>1, RoutingFiles, PlanningFiles, PreparingFiles, ExecutingFiles, DecidingFiles DEF Next

\* In the first round an execution is recorded under the id of the plan that ran, however often
\* it was replanned: build_replan_reset drops the id, and the builder saves each plan once.
THEOREM ExecutionsAreFiled == Spec => []FiledUnderOwnPlan
<1>1. FiledInv => FiledUnderOwnPlan
  BY DEF FiledInv, IdInv, FiledUnderOwnPlan
<1> QED
  BY <1>1, FiledInit, FiledStep, PTL DEF Spec
===================================================================================
