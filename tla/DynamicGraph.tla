------------------------------ MODULE DynamicGraph ------------------------------
(* One conversation turn of the agent graph (core_graph): triage, planning,     *)
(* the step loop with its retries and replans, and the goal loop around it.     *)
(* Each LangGraph node is an action; a node returns a partial update that the   *)
(* runtime merges into the shared state, and the router of the node's edge then *)
(* names the next node. Model answers, tool results and the user are choices.   *)
EXTENDS Integers, Sequences, FiniteSets

CONSTANTS
  GoapPlans,      \* plans the GOAP planner may return (sequences of steps)
  Drafts,         \* instruction lists of the linear planner, compiled by the builder
  Outcomes,       \* what one tool call may answer, a subset of CallOutcomes
  MaxReplans,     \* MAX_REPLANS
  MaxIterations,  \* max_iterations of the goal loop
  MaxRetriages,   \* graph.retriage_max
  LongChain,      \* LONG_CHAIN_THRESHOLD
  DecomposeFirst, \* graph.decompose_first
  EchoedWords,    \* the arguments of a call may contain "missing", "required", ...
  MaxAnswers,     \* bound: answers the user gives to clarifying questions in a turn
  KeptRepeats     \* bound: repeated failures that an earlier turn may have left

VARIABLES
  node,   \* the node that runs next, "end" after the turn
  state,  \* DynamicAPIState, the fields the control flow reads
  log,    \* history: the calls made for the plan in the state
  turn    \* history of the turn: plans made, approvals, answers, misfiled executions

vars == <<node, state, log, turn>>

---------------------------------------------------------------------------------
(* Steps, plans and answers *)

Nodes == {"turn_init", "triage", "chat_node", "specialist_entry", "decompose", "embedder",
          "planner", "confirm_node", "clarify_node", "context_check", "step_resolver",
          "permission_gate", "builder", "wait_node", "executor", "validator", "retry_node",
          "step_dispatcher", "round_summary", "goap_goal", "summary_node", "end"}

CallOutcomes == {"ok", "empty", "recov", "fail", "need", "auth", "text"}
Failures == {"fail", "recov", "nopayload", "noroute", "yamlerr"}   \* status: error
Answers == Failures \cup CallOutcomes
             \cup {"none", "replan", "asked", "halted", "denied", "partial", "done",
                   "connerr", "chat", "spec", "summary", "incomplete", "pad"}

Step == [http : BOOLEAN, kind : {"call", "wait", "fan"}, needs : SUBSET (1..9)]

ASSUME GraphAssumption ==
  /\ GoapPlans \subseteq Seq(Step) \ {<<>>} /\ Drafts \subseteq Seq(Step) \ {<<>>}
  /\ Outcomes \subseteq CallOutcomes
  /\ {MaxReplans, MaxRetriages, LongChain, MaxAnswers} \subseteq Nat
  /\ MaxIterations \in Nat \ {0} /\ KeptRepeats \subseteq Nat
  /\ {DecomposeFirst, EchoedWords} \subseteq BOOLEAN

Top(S) == CHOOSE i \in S : \A j \in S : j <= i
First(S) == CHOOSE i \in S : \A j \in S : i <= j

Isolated(step) == step.kind \in {"wait", "fan"}

\* The topological level of every step: one above the highest step it reads.
Levels(steps) ==
  LET level[i \in DOMAIN steps] ==
        IF steps[i].needs = {} THEN 0 ELSE 1 + Top({level[j] : j \in steps[i].needs})
  IN level

\* derive_parallel_groups: the steps of a level together, waits and fan-outs alone.
Groups(steps) ==
  LET level == Levels(steps)
      together(i, j) == /\ level[i] = level[j]
                        /\ ~Isolated(steps[i]) /\ ~Isolated(steps[j])
  IN {{j \in DOMAIN steps : j = i \/ together(i, j)} : i \in DOMAIN steps}

\* The group whose first member is i, when it has more than one.
GroupsFrom(i) == {g \in state.groups : Cardinality(g) > 1 /\ i \in g /\ First(g) = i}

CurrentKind == IF state.idx \in DOMAIN state.plan THEN state.plan[state.idx].kind ELSE "call"

HasDependents == \E j \in DOMAIN state.plan : j > state.idx /\ state.idx \in state.plan[j].needs

PlanningEntry == IF DecomposeFirst THEN "decompose" ELSE "embedder"
ReplanEntry == IF DecomposeFirst THEN "decompose" ELSE "planner"

---------------------------------------------------------------------------------
(* The turn begins *)

Fresh == [mode |-> "classic", force |-> FALSE, goal |-> FALSE, found |-> FALSE,
          draft |-> <<>>, plan |-> <<>>, groups |-> {}, idx |-> 1, results |-> <<>>,
          unresolved |-> FALSE, payload |-> "none", response |-> "none", yaml |-> FALSE,
          planId |-> 0, execution |-> FALSE, retry |-> 0, replans |-> 0, iterations |-> 0,
          retriages |-> 0, stalled |-> 0, repeats |-> 0, decision |-> "none",
          lastFailure |-> "none"]

\* build_initial_state over what the checkpointer kept of the thread's earlier turns:
\* neither it nor reset_turn_fragment clears the goal, the replans and the repeated failures.
Init == \E force, goal \in BOOLEAN, replans \in 0..MaxReplans, repeats \in KeptRepeats :
  /\ goal \/ (replans = 0 /\ repeats = 0)
  /\ node = "turn_init" /\ log = <<>>
  /\ state = [Fresh EXCEPT !.force = force, !.goal = goal, !.replans = replans,
                           !.repeats = repeats]
  /\ turn = [made |-> 0, approved |-> 0, forced |-> force, answers |-> 0, misfiled |-> FALSE]

\* reset_turn_fragment; the goal and the replan, stall and repeat counts are kept.
TurnInit ==
  /\ node = "turn_init"
  /\ node' = "triage"
  /\ state' = [state EXCEPT !.plan = <<>>, !.found = FALSE, !.idx = 1, !.results = <<>>,
                 !.response = "none", !.retry = 0, !.groups = {}, !.yaml = FALSE,
                 !.draft = <<>>, !.planId = 0, !.payload = "none", !.unresolved = FALSE,
                 !.iterations = 0, !.lastFailure = "none", !.decision = "none",
                 !.retriages = 0]
  /\ UNCHANGED <<log, turn>>

Triage == \E mode \in {"chat", "classic", "specialist"} :
  /\ node = "triage"
  /\ node' = CASE mode = "chat" -> "chat_node"
               [] mode = "specialist" -> "specialist_entry"
               [] OTHER -> PlanningEntry
  /\ state' = [state EXCEPT !.mode = mode]
  /\ UNCHANGED <<log, turn>>

Chat ==
  /\ node = "chat_node" /\ node' = "end"
  /\ state' = [state EXCEPT !.response = "chat"]
  /\ UNCHANGED <<log, turn>>

\* The pipeline finished; without a marker in the envelope the router plans anyway.
SpecialistAnswers == \E marked \in BOOLEAN :
  /\ node = "specialist_entry"
  /\ node' = IF marked THEN "summary_node" ELSE PlanningEntry
  /\ state' = [state EXCEPT !.mode = "specialist", !.response = "spec", !.decision = "done"]
  /\ UNCHANGED <<log, turn>>

SpecialistFails ==
  /\ node = "specialist_entry" /\ node' = PlanningEntry
  /\ state' = [state EXCEPT !.mode = "classic", !.response = "none", !.lastFailure = "spec"]
  /\ UNCHANGED <<log, turn>>

---------------------------------------------------------------------------------
(* Planning *)

Decompose ==
  /\ node = "decompose" /\ node' = "embedder"
  /\ UNCHANGED <<state, log, turn>>

\* Retrieval may find nothing; what an earlier round found stays in the pool.
Embed == \E found \in BOOLEAN :
  /\ node = "embedder" /\ node' = "planner"
  /\ state' = [state EXCEPT !.found = @ \/ found]
  /\ UNCHANGED <<log, turn>>

\* Mutant: a long chain is gated by its confidence like any other.
GatesByConfidence(steps) == {"execute", "confirm", "clarify"}


Gates(steps) == IF Len(steps) > LongChain THEN {"confirm"} ELSE {"execute", "confirm", "clarify"}

\* gate_router: where a plan without a response goes.
Gated(gate) == CASE state.force -> "context_check"
                 [] gate = "execute" -> "context_check"
                 [] gate = "confirm" -> "confirm_node"
                 [] OTHER -> "clarify_node"

Planned(plan, draft, groups) ==
  [state EXCEPT !.plan = plan, !.draft = draft, !.groups = groups, !.idx = 1,
                !.results = <<>>, !.response = "none", !.goal = TRUE]

MadePlan == log' = <<>> /\ turn' = [turn EXCEPT !.made = @ + 1]

PlanByGoap == \E steps \in GoapPlans : \E gate \in Gates(steps) :
  /\ node = "planner" /\ state.found
  /\ state' = Planned(steps, <<>>, Groups(steps))
  /\ node' = Gated(gate) /\ MadePlan

PlanLinearly == \E draft \in Drafts : \E gate \in Gates(draft) :
  /\ node = "planner" /\ state.found
  /\ state' = Planned(<<>>, draft, {})
  /\ node' = Gated(gate) /\ MadePlan

NoPlan(response) ==
  [state EXCEPT !.plan = <<>>, !.draft = <<>>, !.groups = {}, !.idx = 1, !.results = <<>>,
                !.response = response]

PlannerUnreachable ==
  /\ node = "planner" /\ state.found /\ node' = "end"
  /\ state' = NoPlan("connerr")
  /\ UNCHANGED <<log, turn>>

NoCandidates ==
  /\ node = "planner" /\ ~state.found
  /\ node' = Gated("clarify")
  /\ state' = NoPlan("none") /\ MadePlan

ConfirmAccepted ==
  /\ node = "confirm_node" /\ node' = "context_check"
  /\ state' = [state EXCEPT !.response = "none", !.force = TRUE]
  /\ turn' = [turn EXCEPT !.approved = turn.made]
  /\ UNCHANGED log

\* The client cannot be asked in the session, or the user declines.
AskedInstead == \E answer \in {"asked", "halted"} :
  /\ node \in {"confirm_node", "clarify_node"} /\ node' = "end"
  /\ state' = [state EXCEPT !.response = answer]
  /\ UNCHANGED <<log, turn>>

Clarified ==
  /\ node = "clarify_node" /\ turn.answers < MaxAnswers
  /\ node' = PlanningEntry
  /\ state' = [state EXCEPT !.response = "none"]
  /\ turn' = [turn EXCEPT !.answers = @ + 1]
  /\ UNCHANGED log

---------------------------------------------------------------------------------
(* One step: arguments, permission, request *)

\* context_resolution_router: a fan-out binds its parameter per item and never waits for it.
Resolution(unresolved) ==
  IF unresolved /\ CurrentKind # "fan" THEN "step_resolver" ELSE "permission_gate"

ContextCheck == \E unresolved \in BOOLEAN :
  /\ node = "context_check"
  /\ node' = Resolution(unresolved)
  /\ state' = [state EXCEPT !.unresolved = unresolved]
  /\ UNCHANGED <<log, turn>>

ResolverFills ==
  /\ node = "step_resolver"
  /\ node' = IF state.response = "none" THEN "permission_gate" ELSE "end"
  /\ state' = [state EXCEPT !.unresolved = FALSE]
  /\ UNCHANGED <<log, turn>>

ResolverAsks ==
  /\ node = "step_resolver"
  /\ node' = IF state.goal THEN "goap_goal" ELSE "end"
  /\ state' = [state EXCEPT !.response = "need"]
  /\ UNCHANGED <<log, turn>>

PermissionAllows ==
  /\ node = "permission_gate"
  /\ node' = IF state.response = "none" THEN "builder" ELSE "end"
  /\ UNCHANGED <<state, log, turn>>

\* Policy, scope, or a write the policy wants confirmed.
PermissionDenies ==
  /\ node = "permission_gate" /\ node' = "end"
  /\ state' = [state EXCEPT !.response = "denied"]
  /\ UNCHANGED <<log, turn>>

\* The plan the builder works on: the planner's, or the one it compiles now.
Compiles == state.plan = <<>> /\ ~state.yaml
Working == IF Compiles THEN state.draft ELSE state.plan

\* Saving a plan gives it an id once; a failed save leaves the id it had.
SavedId(saved) == IF (Compiles \/ (~state.yaml /\ state.planId = 0)) /\ saved
                    THEN turn.made ELSE state.planId

CompileFails == \E parsed \in BOOLEAN :
  /\ node = "builder" /\ Compiles
  /\ node' = "executor"
  /\ state' = [state EXCEPT !.response = "yamlerr", !.yaml = parsed]
  /\ UNCHANGED <<log, turn>>

\* Neither a plan nor instructions to compile: the request of the step is not built.
NothingToBuild ==
  /\ node = "builder" /\ ~Compiles /\ state.idx > Len(state.plan)
  /\ node' = "executor"
  /\ UNCHANGED <<state, log, turn>>

\* The route is unknown, or a required parameter is missing.
BuildRefused == \E refusal \in {"noroute", "need"}, saved \in BOOLEAN :
  /\ node = "builder" /\ state.idx \in DOMAIN Working
  /\ node' = "executor"
  /\ state' = [state EXCEPT !.plan = Working, !.yaml = TRUE, !.planId = SavedId(saved),
                            !.response = refusal]
  /\ UNCHANGED <<log, turn>>

\* A fast-path route keeps the compiled plan; an HTTP request is returned without it.
Kept == IF Working[state.idx].http THEN state.plan ELSE Working

Build == \E saved \in BOOLEAN :
  /\ node = "builder" /\ state.idx \in DOMAIN Working
  /\ node' = IF state.idx \in DOMAIN Kept /\ Kept[state.idx].kind = "wait"
               THEN "wait_node" ELSE "executor"
  /\ state' = [state EXCEPT !.plan = Kept, !.yaml = TRUE, !.planId = SavedId(saved),
                            !.payload = IF Working[state.idx].http THEN "http" ELSE "fast"]
  /\ UNCHANGED <<log, turn>>

---------------------------------------------------------------------------------
(* Execution *)

\* The call of step op, made while the graph stands at step `at'.
Called(at, op, out) == [at |-> at, op |-> op, out |-> out]

Executed(outcome) ==
  /\ node' = "validator"
  /\ state' = [state EXCEPT !.response = outcome]
  /\ log' = Append(log, Called(state.idx, state.idx, outcome))
  /\ UNCHANGED turn

\* What the builder refused goes on to the validator as it is.
PassThrough ==
  /\ node = "executor" /\ state.response # "none"
  /\ node' = "validator"
  /\ UNCHANGED <<state, log, turn>>

ExecuteNothing ==
  /\ node = "executor" /\ state.response = "none"
  /\ state.payload = "none" /\ CurrentKind # "fan"
  /\ node' = "validator"
  /\ state' = [state EXCEPT !.response = "nopayload"]
  /\ UNCHANGED <<log, turn>>

ExecuteCall == \E outcome \in Outcomes :
  /\ node = "executor" /\ state.response = "none"
  /\ state.payload # "none" /\ CurrentKind # "fan"
  /\ Executed(outcome)

\* A fan-out answers ok whatever its items did, or asks when it is too wide.
ExecuteFanOut == \E outcome \in {"ok"} \cup (IF state.force THEN {} ELSE {"asked"}) :
  /\ node = "executor" /\ state.response = "none" /\ CurrentKind = "fan"
  /\ Executed(outcome)

\* Mutant: a poll has no limit, it goes on until the record is there.
WaitForever == node = "wait_node" /\ UNCHANGED vars

\* The poll ends with the awaited record, a failure of the call or of the job, or in time-out.
WaitPolls == \E outcome \in (Outcomes \cap {"ok", "recov", "need", "auth"}) \cup {"fail"} :
  /\ node = "wait_node"
  /\ Executed(outcome)

---------------------------------------------------------------------------------
(* Validation, retry and replan *)

\* Mutant: the replan keeps the id of the failed plan.
ReplanKeepingId(s) ==
  [s EXCEPT !.replans = @ + 1, !.plan = <<>>, !.yaml = FALSE, !.payload = "none",
            !.response = "replan", !.idx = 1, !.results = <<>>, !.retry = 0,
            !.lastFailure = s.response]

\* build_replan_reset
ReplanReset(s) ==
  [s EXCEPT !.replans = @ + 1, !.plan = <<>>, !.yaml = FALSE, !.payload = "none",
            !.response = "replan", !.idx = 1, !.results = <<>>, !.retry = 0,
            !.planId = 0, !.lastFailure = s.response]

Agentic == state.goal \/ state.force
Recoverable == state.response \in {"recov", "need"}

Unintended ==
  \/ state.response \in {"recov", "yamlerr"}
  \/ Agentic /\ state.response = "need"

ReplansNow ==
  /\ state.replans < MaxReplans
  /\ Unintended \/ (state.response = "empty" /\ HasDependents)

\* A failure that neither a replan nor the one retry will take up.
Terminal ==
  /\ state.response \in Failures \cup {"need"}
  /\ state.retry >= 1 \/ ~Recoverable

\* The wrapped error; with a goal it is also recorded among the results.
Wrapped(s) ==
  LET error == IF s.response = "need" THEN "recov" ELSE s.response
  IN IF s.goal THEN [s EXCEPT !.response = error, !.lastFailure = error,
                              !.results = Append(@, error)]
               ELSE [s EXCEPT !.response = error]

Validated == CASE ReplansNow -> ReplanReset(state)
               [] ~ReplansNow /\ Terminal -> Wrapped(state)
               [] OTHER -> state

\* The text of a wrapped error is searched again: it says "required" when parameters
\* were unresolved, and it quotes the arguments, which may hold such a word themselves.
Looks(s) == CASE s.response = "recov" \/ s.unresolved -> {TRUE}
              [] EchoedWords -> BOOLEAN
              [] OTHER -> {FALSE}

\* Mutants: the retry budget is not looked at, or the goal is not.
RoutesRetrying(s) ==
  CASE s.response = "replan" -> {ReplanEntry}
    [] s.response \in {"auth", "need", "text"} -> {"end"}
    [] s.response \in Failures ->
         {IF recoverable THEN "retry_node" ELSE "end" : recoverable \in Looks(s)}
    [] OTHER -> {"step_dispatcher"}

RoutesWithoutGoal(s) ==
  CASE s.response = "replan" -> {ReplanEntry}
    [] s.response \in {"auth", "need", "text"} -> {"end"}
    [] s.response \in Failures ->
         {IF recoverable /\ s.retry < 1 THEN "retry_node" ELSE "end" : recoverable \in Looks(s)}
    [] OTHER -> {"step_dispatcher"}

\* retry_router
Routes(s) ==
  CASE s.response = "replan" -> {ReplanEntry}
    [] s.response \in {"auth", "need", "text"} -> {"end"}
    [] s.response \in Failures ->
         {IF recoverable /\ s.retry < 1 THEN "retry_node"
          ELSE IF s.goal THEN "goap_goal" ELSE "end" : recoverable \in Looks(s)}
    [] OTHER -> {"step_dispatcher"}

Validator ==
  /\ node = "validator"
  /\ state' = Validated
  /\ node' \in Routes(Validated)
  /\ log' = IF ReplansNow THEN <<>> ELSE log
  /\ UNCHANGED turn

\* The deep scan fills what it can; a rejected parameter becomes unresolved.
Retry == \E unresolved \in BOOLEAN :
  /\ node = "retry_node"
  /\ state' = [state EXCEPT !.unresolved = unresolved, !.retry = @ + 1,
                            !.response = "none", !.payload = "none"]
  /\ node' = Resolution(unresolved)
  /\ UNCHANGED <<log, turn>>

---------------------------------------------------------------------------------
(* The step dispatcher *)

SoftFailure(out) == out \in Failures \cup {"need"}

\* Mutant: the peers' results are dropped.
PlacedAlone(results, out) == results

\* Results by position, padded up to the steps that were fanned out.
Placed(results, out) ==
  LET last == Top({Len(results)} \cup DOMAIN out)
  IN [i \in 1..last |-> IF i \in DOMAIN out THEN out[i]
                        ELSE IF i <= Len(results) THEN results[i] ELSE "pad"]

\* The peers that run beside the finished step: the rest of its group, or the next group.
Peers ==
  IF GroupsFrom(state.idx) # {} THEN (UNION GroupsFrom(state.idx)) \ {state.idx}
  ELSE UNION GroupsFrom(state.idx + 1)

\* Every peer is executed with the request of the step that has just finished.
PeerCalls(out) ==
  LET peer(k) == CHOOSE i \in DOMAIN out : Cardinality({j \in DOMAIN out : j <= i}) = k
  IN [k \in 1..Cardinality(DOMAIN out) |-> Called(peer(k), state.idx, out[peer(k)])]

LastIndex == Top({state.idx} \cup Peers)

\* Mutants: the step after the finished one whatever its peers did, or one too many.
NextIgnoringPeers == state.idx + 1
NextSkipping == LastIndex + 2

NextIndex == LastIndex + 1

Finished(out) == Placed(Append(state.results, state.response), out)

PeersOutcomes == [Peers -> Outcomes]

\* The result that stands at a group's first position is looked at again.
FirstFailed == /\ GroupsFrom(state.idx) # {}
               /\ state.idx \in DOMAIN Append(state.results, state.response)
               /\ SoftFailure(Append(state.results, state.response)[state.idx])

Clean(out) == ~FirstFailed /\ \A i \in DOMAIN out : ~SoftFailure(out[i])

PeersFail == \E out \in PeersOutcomes :
  /\ node = "step_dispatcher" /\ ~Clean(out)
  /\ node' = IF state.goal THEN "goap_goal" ELSE "end"
  /\ state' = [state EXCEPT !.results = Finished(out), !.idx = LastIndex,
                            !.response = "partial"]
  /\ log' = log \o PeerCalls(out)
  /\ UNCHANGED turn

Advance == \E out \in PeersOutcomes :
  /\ node = "step_dispatcher" /\ Clean(out) /\ NextIndex <= Len(state.plan)
  /\ node' = "context_check"
  /\ state' = [state EXCEPT !.results = Finished(out), !.idx = NextIndex, !.payload = "none",
                            !.response = "none", !.retry = 0]
  /\ log' = log \o PeerCalls(out)
  /\ UNCHANGED turn

\* The next step's operation is gone: the error stands at the step that is done.
NextIsGone == \E out \in PeersOutcomes :
  /\ node = "step_dispatcher" /\ Clean(out) /\ NextIndex <= Len(state.plan)
  /\ node' = "context_check"
  /\ state' = [state EXCEPT !.results = Finished(out), !.response = "noroute"]
  /\ log' = log \o PeerCalls(out)
  /\ UNCHANGED turn

\* The plan is done: an execution is recorded unless one is known, and recording may fail.
Finalise == \E out \in PeersOutcomes, recorded \in BOOLEAN :
  LET records == recorded /\ ~state.execution IN
  /\ node = "step_dispatcher" /\ Clean(out) /\ NextIndex > Len(state.plan)
  /\ node' = "round_summary"
  /\ state' = [state EXCEPT !.results = Finished(out), !.response = "done",
                            !.execution = @ \/ records]
  /\ log' = log \o PeerCalls(out)
  /\ turn' = IF records
               THEN [turn EXCEPT !.misfiled = @ \/ state.planId \notin {0, turn.made}]
               ELSE turn

---------------------------------------------------------------------------------
(* The goal loop *)

RoundSummary ==
  /\ node = "round_summary" /\ node' = "goap_goal"
  /\ UNCHANGED <<state, log, turn>>

Failed == state.response \in Failures \cup {"need"}

\* Only a result that did not fail can add to the memory or to the executed operations.
MayGain == \E i \in DOMAIN state.results :
             ~SoftFailure(state.results[i]) /\ state.results[i] # "pad"

Repeats(gained) == IF Failed /\ state.response = state.lastFailure /\ ~gained
                     THEN state.repeats + 1 ELSE 0
Stalled(gained, gainedOps) ==
  IF ~gained /\ ~gainedOps /\ state.decision = "continue" THEN state.stalled + 1 ELSE 0

Tracked(gained, gainedOps) ==
  [state EXCEPT !.iterations = @ + 1, !.stalled = Stalled(gained, gainedOps)]

Cleared(s) == [s EXCEPT !.plan = <<>>, !.idx = 1, !.results = <<>>, !.response = "none"]

LoopIsOver(gained, gainedOps) ==
  \/ Stalled(gained, gainedOps) >= 2 \/ Repeats(gained) >= 2
  \/ ~state.goal \/ state.iterations + 1 >= MaxIterations

Gains == {g \in BOOLEAN \X BOOLEAN : MayGain \/ g = <<FALSE, FALSE>>}

\* The loop must stop, or the verifier says the goal is reached (or cannot be asked).
GoalDone == \E g \in Gains :
  /\ node = "goap_goal" /\ node' = "summary_node"
  /\ state' = [Tracked(g[1], g[2]) EXCEPT
                 !.response = IF @ = "none" THEN "incomplete" ELSE @,
                 !.decision = "done", !.repeats = Repeats(g[1])]
  /\ UNCHANGED <<log, turn>>

LastFailure == IF Failed THEN state.response ELSE state.lastFailure

\* The verifier asks for more; a fan-out that fell short is continued unasked, and then
\* the failure of the round is not kept.
GoalContinues == \E g \in Gains, failure \in {LastFailure, state.lastFailure} :
  /\ node = "goap_goal" /\ ~LoopIsOver(g[1], g[2])
  /\ node' = PlanningEntry
  /\ state' = [Cleared(Tracked(g[1], g[2])) EXCEPT
                 !.yaml = FALSE, !.draft = <<>>, !.execution = FALSE, !.decision = "continue",
                 !.repeats = Repeats(g[1]), !.lastFailure = failure]
  /\ log' = <<>> /\ UNCHANGED turn

GoalRetriages == \E g \in Gains :
  /\ node = "goap_goal" /\ ~LoopIsOver(g[1], g[2]) /\ state.retriages < MaxRetriages
  /\ node' = "triage"
  /\ state' = [Cleared(Tracked(g[1], g[2])) EXCEPT
                 !.retriages = @ + 1, !.force = FALSE, !.payload = "none", !.retry = 0,
                 !.decision = "retriage", !.lastFailure = LastFailure]
  /\ log' = <<>> /\ UNCHANGED turn

Summary ==
  /\ node = "summary_node" /\ node' = "end"
  /\ state' = [state EXCEPT !.response = IF @ = "none" THEN "summary" ELSE @]
  /\ UNCHANGED <<log, turn>>

---------------------------------------------------------------------------------
Planning == Decompose \/ Embed \/ PlanByGoap \/ PlanLinearly \/ PlannerUnreachable
              \/ NoCandidates \/ ConfirmAccepted \/ AskedInstead \/ Clarified
Preparing == ContextCheck \/ ResolverFills \/ ResolverAsks \/ PermissionAllows
               \/ PermissionDenies \/ CompileFails \/ NothingToBuild \/ BuildRefused \/ Build
Executing == PassThrough \/ ExecuteNothing \/ ExecuteCall \/ ExecuteFanOut \/ WaitPolls
               \/ Validator \/ Retry \/ PeersFail \/ Advance \/ NextIsGone \/ Finalise
Deciding == RoundSummary \/ GoalDone \/ GoalContinues \/ GoalRetriages \/ Summary
Routing == TurnInit \/ Triage \/ Chat \/ SpecialistAnswers \/ SpecialistFails

Next == Routing \/ Planning \/ Preparing \/ Executing \/ Deciding

\* LangGraph runs the next node as long as there is one.
Spec == Init /\ [][Next]_vars /\ WF_vars(Next)
---------------------------------------------------------------------------------
(* Properties *)

\* The fields of the state, with every budget of the turn: one retry, MAX_REPLANS replans,
\* max_iterations rounds and retriage_max new triages at most.
TypeOK ==
  /\ node \in Nodes
  /\ state \in [mode : {"chat", "classic", "specialist"}, plan : Seq(Step), draft : Seq(Step),
                groups : SUBSET SUBSET Nat, idx : Nat \ {0}, results : Seq(Answers),
                response : Answers, payload : {"none", "http", "fast"}, planId : Nat,
                retry : 0..1, replans : 0..MaxReplans, iterations : 0..MaxIterations,
                retriages : 0..MaxRetriages, stalled : Nat, repeats : Nat,
                decision : {"none", "continue", "retriage", "done"}, lastFailure : Answers,
                force : BOOLEAN, goal : BOOLEAN, found : BOOLEAN, unresolved : BOOLEAN,
                yaml : BOOLEAN, execution : BOOLEAN]
  /\ log \in Seq([at : Nat, op : Nat, out : Answers])
  /\ turn \in [made : Nat, approved : Nat, forced : BOOLEAN,
               answers : 0..MaxAnswers, misfiled : BOOLEAN]

\* A step of the running plan whose call succeeded is not executed again, and a failed one
\* once more at most, whatever retry_node, the replans and the parallel groups do in between.
RepeatsOnlyFailures == \A i, j \in DOMAIN log :
  i < j /\ log[i].at = log[j].at
    => /\ SoftFailure(log[i].out)
       /\ \A k \in DOMAIN log \ {i, j} : log[k].at # log[i].at

PreparesAStep ==
  node \in {"context_check", "step_resolver", "permission_gate", "builder"}
    /\ state.response = "none"

\* While a step is prepared, the results that its $steps[i] references read are those of the
\* steps before it, each at its own position: step_dispatcher appends, pads and places them
\* around retries and groups. (A fan-out may be retried with its error among the results.)
ResultsAligned ==
  PreparesAStep /\ ~EchoedWords =>
    \A i \in DOMAIN state.plan :
      /\ i < state.idx
      /\ \A j \in DOMAIN state.plan : j < state.idx => state.plan[j].kind # "fan"
      => /\ i \in DOMAIN state.results
         /\ \E k \in DOMAIN log : /\ log[k].at = i /\ log[k].out = state.results[i]
                                  /\ ~SoftFailure(log[k].out)

\* No call is made for a long chain before the user has approved a plan in this turn,
\* unless the caller forced the execution: confirm_node lies on every way to the executor.
LongChainsAttended ==
  Len(state.plan) > LongChain /\ log # <<>> => turn.forced \/ turn.approved > 0

\* A turn with a goal does not end on a failed call before the goal loop has judged it:
\* the routers after validator, dispatcher and resolver lead there.
FailureReachesGoal ==
  /\ node = "end" /\ state.goal
  /\ state.response \in {"fail", "recov", "nopayload", "yamlerr", "partial"}
  => state.decision = "done"

\* In the first round, whatever was replanned, an execution is recorded under the id of the
\* plan that ran: build_replan_reset drops the id of the plan that failed.
FiledUnderOwnPlan == state.iterations = 0 => ~turn.misfiled

\* A plan is run as PlanRun promises: in order, without skipping, done only when complete.
Running == INSTANCE PlanRun WITH
  steps <- DOMAIN state.plan,
  groups <- IF state.plan = <<>> THEN {} ELSE state.groups,
  completed <- {log[k].at : k \in {i \in DOMAIN log : ~SoftFailure(log[i].out)}}
                 \cap DOMAIN state.plan,
  finished <- state.plan # <<>> /\ state.response = "done"
RunsPlans == Running!Spec

\* derive_parallel_groups preserves the order of execution: when a step is called, every step
\* before it that is not in its group has been called.
StepsCalledInOrder == \A k \in DOMAIN log : \A i \in DOMAIN state.plan :
  i < log[k].at => \/ \E l \in DOMAIN log : log[l].at = i
                   \/ \E g \in state.groups : {i, log[k].at} \subseteq g

\* Every call that is made for a step of the plan is that step's own operation.
PeersRunOwnStep == \A k \in DOMAIN log : log[k].op = log[k].at

\* Every turn ends: no combination of retries, replans, rounds and new triages loops.
TurnEnds == node = "turn_init" ~> node = "end"
=================================================================================
