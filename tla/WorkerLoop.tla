------------------------------- MODULE WorkerLoop -------------------------------
(* One background worker: the entry of WorkerRegistry and the BackgroundWorker   *)
(* behind it. Everything between two awaits is one step. A loop is a task that   *)
(* start() created together with its stop event; the event is looked up by the   *)
(* loop when it first runs, and stop() forgets both when its await is over.      *)
EXTENDS Naturals

CONSTANTS
  Callers, \* the tasks that may stop the worker
  Loops,   \* bound: names for the loop tasks that exist at a time
  None

VARIABLES
  running,  \* WorkerRegistry._running_workers holds the worker
  task,     \* BackgroundWorker._task
  event,    \* BackgroundWorker._stop_event, named by the loop it was created with
  loop,     \* the tasks: where each stands and the event it watches
  signals,  \* the events that are set
  awaited   \* the task that a caller inside stop() waits for

workerVars == <<running, task, event, loop, signals, awaited>>

ASSUME LoopAssumption == None \notin Loops \cup Callers

Alive(l) == loop[l].pc \in {"new", "runs"}
Living == {l \in Loops : Alive(l)}

Unused(l) == /\ ~Alive(l) /\ l \notin {task, event}
             /\ \A c \in Callers : awaited[c] # l
             /\ \A m \in Loops : loop[m].event # l

\* BackgroundWorker.start: the task that is not over yet is returned as it is.
ScheduleLoop ==
  IF task # None /\ Alive(task) THEN UNCHANGED <<task, event, loop, signals>>
  ELSE LET l == CHOOSE m \in Loops : Unused(m) IN
         /\ task' = l /\ event' = l
         /\ loop' = [loop EXCEPT ![l] = [pc |-> "new", event |-> None]]
         /\ signals' = signals \ {l}

\* WorkerRegistry.start: the entry alone says whether the worker runs.
StartWorker ==
  /\ running' = TRUE
  /\ IF running THEN UNCHANGED <<task, event, loop, signals>> ELSE ScheduleLoop
  /\ UNCHANGED awaited

\* WorkerRegistry.stop up to its await: the entry goes first.
StopsAtOnce(c) ==
  /\ ~running \/ task = None
  /\ running' = FALSE
  /\ event' = IF running THEN None ELSE event
  /\ signals' = IF running THEN signals \cup ({event} \ {None}) ELSE signals
  /\ UNCHANGED <<task, loop, awaited>>

BeginStop(c) ==
  /\ running /\ task # None
  /\ running' = FALSE
  /\ signals' = signals \cup ({event} \ {None})
  /\ awaited' = [awaited EXCEPT ![c] = task]
  /\ UNCHANGED <<task, event, loop>>

\* Mutant: stop() does not await the task.
EndStopUnawaited(c) ==
  /\ awaited[c] # None
  /\ task' = None /\ event' = None
  /\ awaited' = [awaited EXCEPT ![c] = None]
  /\ signals' = signals \cap {loop[l].event : l \in Living}
  /\ UNCHANGED <<running, loop>>

\* The await is over: whatever stands in the worker by now is forgotten.
EndStop(c) ==
  /\ awaited[c] # None /\ ~Alive(awaited[c])
  /\ task' = None /\ event' = None
  /\ awaited' = [awaited EXCEPT ![c] = None]
  /\ signals' = signals \cap {loop[l].event : l \in Living}
  /\ UNCHANGED <<running, loop>>

\* The loop does not end within the stop time-out and is cancelled.
ExpireStop(c) ==
  /\ awaited[c] # None /\ Alive(awaited[c])
  /\ loop' = [loop EXCEPT ![awaited[c]] = [pc |-> "over", event |-> None]]
  /\ UNCHANGED <<running, task, event, signals, awaited>>

\* The first step of _loop; without an event its assertion fails.
EnterLoop(l) ==
  /\ loop[l].pc = "new"
  /\ loop' = [loop EXCEPT ![l] = IF event = None THEN [pc |-> "over", event |-> None]
                                                  ELSE [pc |-> "runs", event |-> event]]
  /\ UNCHANGED <<running, task, event, signals, awaited>>

\* Between two ticks the loop sees that its event is set.
LeaveLoop(l) ==
  /\ loop[l].pc = "runs" /\ loop[l].event \in signals
  /\ loop' = [loop EXCEPT ![l] = [pc |-> "over", event |-> None]]
  /\ UNCHANGED <<running, task, event, signals, awaited>>

LoopStep == \E l \in Loops : EnterLoop(l) \/ LeaveLoop(l)

NoLoop == [pc |-> "over", event |-> None]

WorkerInit(started) ==
  /\ running = started /\ signals = {}
  /\ awaited = [c \in Callers |-> None]
  /\ IF started
       THEN \E l \in Loops : /\ task = l /\ event = l
                             /\ loop = [m \in Loops |->
                                          IF m = l THEN [pc |-> "runs", event |-> l] ELSE NoLoop]
       ELSE task = None /\ event = None /\ loop = [m \in Loops |-> NoLoop]
=================================================================================
