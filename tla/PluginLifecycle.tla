----------------------------- MODULE PluginLifecycle -----------------------------
(* One plugin between the console's requests: enabling and disabling it, toggling *)
(* its tools, and uploads to its own routes. The handlers write the database, then *)
(* queue at the plugin's lock to unload and load it again; loading reads the tool  *)
(* rows, and starts or stops the plugin's background worker.                       *)
EXTENDS WorkerLoop, Sequences

CONSTANTS
  Tools,    \* the tools of the plugin, which its manifest lists as capabilities
  Kinds,    \* the requests a run makes
  States    \* the states a toggle may ask for

VARIABLES
  db,     \* the plugin's is_active and the tool_config rows
  live,   \* what is served: known instance, routes, MCP visibility, HTTP routes
  queue,  \* the plugin's asyncio.Lock: its holder, then those that wait
  req,    \* the requests: where each handler stands and what it holds
  seen    \* history: how the last load ended, and what went unapplied since

vars == <<db, live, queue, req, seen, workerVars>>

ASSUME PluginAssumption ==
  /\ Kinds \subseteq {"enable", "disable", "toggle", "upload"}
  /\ States \subseteq {"enabled", "hidden", "disabled", "on", "off"}

Requests == Callers

Idle == [pc |-> "idle", kind |-> "none", tool |-> None, to |-> "on", read |-> {}]

Waiting(kind) == [Idle EXCEPT !.pc = "queued", !.kind = kind]
Goes(r, pc) == [req EXCEPT ![r] = [@ EXCEPT !.pc = pc]]

\* Boot has loaded the plugin, failed to, or left it out because it is not active.
Init == \E active \in BOOLEAN, up \in {"loaded", "failed", "down"}, hidden \in SUBSET Tools,
           enabled \in SUBSET Tools :
  /\ active <=> up # "down"
  /\ db = [active |-> active, enabled |-> enabled, hidden |-> hidden]
  /\ live = [known |-> active, routes |-> IF up = "loaded" THEN enabled ELSE {},
             visible |-> IF up = "loaded" THEN enabled \ hidden ELSE {},
             mounted |-> up = "loaded"]
  /\ queue = <<>> /\ req = [r \in Requests |-> Idle]
  /\ seen = [up |-> up, stale |-> FALSE, reshown |-> FALSE, nudged |-> {}]
  /\ WorkerInit(up = "loaded")

---------------------------------------------------------------------------------
(* The handlers up to the lock *)

\* enable_plugin, disable_plugin: the row is written first.
AskEnable(r) ==
  /\ req[r].pc = "idle" /\ "enable" \in Kinds
  /\ db' = [db EXCEPT !.active = TRUE]
  /\ req' = [req EXCEPT ![r] = [Idle EXCEPT !.pc = "wants", !.kind = "enable"]]
  /\ UNCHANGED <<live, queue, seen, workerVars>>

AskDisable(r) ==
  /\ req[r].pc = "idle" /\ "disable" \in Kinds
  /\ db' = [db EXCEPT !.active = FALSE]
  /\ req' = [req EXCEPT ![r] = [Idle EXCEPT !.pc = "wants", !.kind = "disable"]]
  /\ UNCHANGED <<live, queue, seen, workerVars>>

\* set_tool_state ("enabled", "hidden", "disabled") and the older on/off handlers, which
\* do not touch the hidden flag.
AskToggle(r, t, to) ==
  /\ req[r].pc = "idle" /\ "toggle" \in Kinds
  /\ req' = [req EXCEPT ![r] = [Idle EXCEPT !.pc = "enabling", !.kind = "toggle",
                                            !.tool = t, !.to = to]]
  /\ UNCHANGED <<db, live, queue, seen, workerVars>>

With(S, t, in) == IF in THEN S \cup {t} ELSE S \ {t}

\* set_tool_enabled
WriteEnabled(r) ==
  /\ req[r].pc = "enabling"
  /\ db' = [db EXCEPT !.enabled = With(@, req[r].tool, req[r].to \notin {"disabled", "off"})]
  /\ req' = Goes(r, IF req[r].to \in {"on", "off"} THEN "showing" ELSE "hiding")
  /\ UNCHANGED <<live, queue, seen, workerVars>>

\* set_tool_hidden
WriteHidden(r) ==
  /\ req[r].pc = "hiding"
  /\ db' = [db EXCEPT !.hidden = With(@, req[r].tool, req[r].to = "hidden")]
  /\ req' = Goes(r, "showing")
  /\ UNCHANGED <<live, queue, seen, workerVars>>

\* A write fails and the handler answers with the error: what is written stays.
WriteFails(r) ==
  /\ req[r].pc \in {"enabling", "hiding"}
  /\ seen' = [seen EXCEPT !.stale = @ \/ req[r].pc = "hiding"]
  /\ req' = [req EXCEPT ![r] = Idle]
  /\ UNCHANGED <<db, live, queue, workerVars>>

Shown(to) == to \in {"enabled", "on"}

\* tool_visibility, then the lock.
ShowOrHide(r) ==
  /\ req[r].pc = "showing"
  /\ live' = [live EXCEPT !.visible = With(@, req[r].tool, Shown(req[r].to))]
  /\ req' = [req EXCEPT ![r] = Waiting("toggle")]
  /\ queue' = Append(queue, r)
  /\ UNCHANGED <<db, seen, workerVars>>

\* The plugin's lock is asked for; a disable hides the capabilities first.
Enqueue(r) ==
  /\ req[r].pc = "wants"
  /\ live' = IF req[r].kind = "disable" THEN [live EXCEPT !.visible = {}] ELSE live
  /\ req' = [req EXCEPT ![r] = Waiting(req[r].kind)]
  /\ queue' = Append(queue, r)
  /\ UNCHANGED <<db, seen, workerVars>>

---------------------------------------------------------------------------------
(* Under the lock: reinitialize_plugin and teardown_plugin *)

\* Mutant: no lock, every handler that asked for it goes on.
HoldsAtOnce(r) == \E i \in DOMAIN queue : queue[i] = r

Holds(r) == queue # <<>> /\ Head(queue) = r
Teardown(r) == req[r].kind = "disable"

\* Mutant: the lock is not released.
LeavesHolding(r) ==
  /\ queue' = queue
  /\ req' = IF req[r].kind = "enable" THEN Goes(r, "unlocked") ELSE [req EXCEPT ![r] = Idle]

\* The lock goes to the next; an enable has its capabilities left to show.
Leaves(r) ==
  /\ queue' = Tail(queue)
  /\ req' = IF req[r].kind = "enable" THEN Goes(r, "unlocked") ELSE [req EXCEPT ![r] = Idle]

\* A plugin that is not in memory: a teardown only cleans up, a reload imports it.
CleanUnknown(r) ==
  /\ req[r].pc = "queued" /\ Holds(r) /\ ~live.known /\ Teardown(r)
  /\ live' = [live EXCEPT !.routes = {}]
  /\ Leaves(r)
  /\ UNCHANGED <<db, seen, workerVars>>

LazyLoad(r) ==
  /\ req[r].pc = "queued" /\ Holds(r) /\ ~live.known /\ ~Teardown(r)
  /\ live' = [live EXCEPT !.known = TRUE]
  /\ req' = Goes(r, "loading")
  /\ UNCHANGED <<db, queue, seen, workerVars>>

LazyLoadFails(r) ==
  /\ req[r].pc = "queued" /\ Holds(r) /\ ~live.known /\ ~Teardown(r)
  /\ Leaves(r)
  /\ UNCHANGED <<db, live, seen, workerVars>>

\* on_unload begins with its worker.
Unload(r) ==
  /\ req[r].pc = "queued" /\ Holds(r) /\ live.known
  /\ BeginStop(r)
  /\ req' = Goes(r, "stopping")
  /\ seen' = [seen EXCEPT !.nudged = @ \ {"unloaded"}]
  /\ UNCHANGED <<db, live, queue>>

\* The rest of on_unload, then _host_cleanup_plugin.
Unloaded == [live EXCEPT !.routes = {}, !.visible = {}, !.mounted = FALSE]

AfterUnload(r) ==
  /\ live' = Unloaded
  /\ seen' = [seen EXCEPT !.up = "down"]
  /\ IF Teardown(r) THEN Leaves(r) ELSE req' = Goes(r, "loading") /\ UNCHANGED queue
  /\ UNCHANGED db

UnloadAtOnce(r) ==
  /\ req[r].pc = "queued" /\ Holds(r) /\ live.known
  /\ StopsAtOnce(r) /\ AfterUnload(r)

UnloadEnds(r) ==
  /\ req[r].pc = "stopping"
  /\ EndStop(r) /\ AfterUnload(r)

StopExpires(r) ==
  /\ req[r].pc = "stopping"
  /\ ExpireStop(r)
  /\ UNCHANGED <<db, live, queue, req, seen>>

\* on_unload raises before it has stopped anything: the host still cleans up.
UnloadFails(r) ==
  /\ req[r].pc = "queued" /\ Holds(r) /\ live.known
  /\ live' = [live EXCEPT !.routes = {}]
  /\ seen' = [seen EXCEPT !.up = "failed"]
  /\ IF Teardown(r) THEN Leaves(r) ELSE req' = Goes(r, "loading") /\ UNCHANGED queue
  /\ UNCHANGED <<db, workerVars>>

\* disabled_tool_names; a read that fails counts as nothing disabled.
ReadDisabled(r) == \E ok \in BOOLEAN :
  /\ req[r].pc = "loading"
  /\ req' = [req EXCEPT ![r] = [@ EXCEPT !.pc = "reading",
                                         !.read = IF ok THEN Tools \ db.enabled ELSE {}]]
  /\ seen' = [seen EXCEPT !.stale = ~ok]
  /\ UNCHANGED <<db, live, queue, workerVars>>

Kept(read) == Tools \ read
Listed(read, hidden) == Tools \ (read \cup hidden)

\* hidden_tool_names, then routes, visibility and HTTP routes, and the worker is started.
Load(r) == \E ok \in BOOLEAN :
  /\ req[r].pc = "reading"
  /\ live' = [live EXCEPT !.routes = Kept(req[r].read), !.mounted = TRUE,
                          !.visible = Listed(req[r].read, IF ok THEN db.hidden ELSE {})]
  /\ seen' = [seen EXCEPT !.up = "loaded", !.stale = @ \/ ~ok, !.reshown = FALSE]
  /\ StartWorker
  /\ req' = [req EXCEPT ![r] = [@ EXCEPT !.pc = "ready", !.read = {}]]
  /\ UNCHANGED <<db, queue>>

\* on_load raises before or after it has enabled the tools; routes are cleaned up.
LoadFails(r) == \E listed \in {live.visible, Listed(req[r].read, db.hidden)} :
  /\ req[r].pc = "reading"
  /\ live' = [live EXCEPT !.routes = {}, !.visible = listed]
  /\ seen' = [seen EXCEPT !.up = "failed", !.reshown = FALSE]
  /\ req' = [req EXCEPT ![r] = [@ EXCEPT !.pc = "ready", !.read = {}]]
  /\ UNCHANGED <<db, queue, workerVars>>

\* on_ready is over and the lock is released.
Ready(r) ==
  /\ req[r].pc = "ready" /\ Leaves(r)
  /\ UNCHANGED <<db, live, seen, workerVars>>

\* enable_plugin shows every capability of the plugin, its disabled tools included. What is
\* not in memory has no tool to show.
ShowCapabilities(r) ==
  /\ req[r].pc = "unlocked"
  /\ live' = [live EXCEPT !.visible = IF live.known THEN Tools ELSE @]
  /\ seen' = [seen EXCEPT !.reshown = TRUE]
  /\ req' = [req EXCEPT ![r] = Idle]
  /\ UNCHANGED <<db, queue, workerVars>>

---------------------------------------------------------------------------------
(* Uploads to the plugin's own route *)

Upload(r) ==
  /\ req[r].pc = "idle" /\ "upload" \in Kinds /\ live.mounted
  /\ "stopping" \notin seen.nudged  \* bound: none after one has met a stop
  /\ req' = [req EXCEPT ![r] = [Idle EXCEPT !.pc = "uploading", !.kind = "upload"]]
  /\ UNCHANGED <<db, live, queue, seen, workerVars>>

\* The job is stored; the handler starts the worker unless the registry has it.
Nudge(r) ==
  LET when == IF \E c \in Requests : awaited[c] # None THEN "stopping" ELSE "unloaded" IN
  /\ req[r].pc = "uploading"
  /\ StartWorker
  /\ seen' = IF running THEN seen ELSE [seen EXCEPT !.nudged = @ \cup {when}]
  /\ req' = [req EXCEPT ![r] = Idle]
  /\ UNCHANGED <<db, live, queue>>

---------------------------------------------------------------------------------
Asks(r) == \/ AskEnable(r) \/ AskDisable(r) \/ Upload(r)
           \/ \E t \in Tools, to \in States : AskToggle(r, t, to)

Writes(r) == \/ WriteEnabled(r) \/ WriteHidden(r) \/ WriteFails(r)
             \/ ShowOrHide(r) \/ Enqueue(r)

Reloads(r) == \/ CleanUnknown(r) \/ LazyLoad(r) \/ LazyLoadFails(r)
              \/ Unload(r) \/ UnloadAtOnce(r) \/ UnloadEnds(r) \/ UnloadFails(r)
              \/ StopExpires(r) \/ ReadDisabled(r) \/ Load(r) \/ LoadFails(r) \/ Ready(r)

Handles(r) == Writes(r) \/ Reloads(r) \/ ShowCapabilities(r) \/ Nudge(r)

Next == \/ \E r \in Requests : Asks(r) \/ Handles(r)
        \/ LoopStep /\ UNCHANGED <<db, live, queue, req, seen>>

Spec == Init /\ [][Next]_vars
---------------------------------------------------------------------------------
(* Properties *)

Locked == {"stopping", "loading", "reading", "ready"}

\* The fields of the plugin, and the lock: its holder is at work or about to begin, those
\* behind it wait, and nobody is queued twice.
TypeOK ==
  /\ db \in [active : BOOLEAN, enabled : SUBSET Tools, hidden : SUBSET Tools]
  /\ live \in [known : BOOLEAN, routes : SUBSET Tools, visible : SUBSET Tools,
               mounted : BOOLEAN]
  /\ queue \in Seq(Requests)
  /\ \A r \in Requests :
       /\ req[r].pc \in Locked => queue[1] = r
       /\ req[r].pc \in Locked \cup {"queued"} <=> \E i \in DOMAIN queue : queue[i] = r
       /\ \A i, j \in DOMAIN queue : queue[i] = queue[j] => i = j
       /\ awaited[r] \in Loops \cup {None} /\ (awaited[r] # None => req[r].pc = "stopping")
  /\ {task, event} \subseteq Loops \cup {None} /\ signals \subseteq Loops

AtRest == queue = <<>> /\ \A r \in Requests : req[r].pc \in {"idle", "uploading"}

\* With no handler at work, the routes of a loaded plugin are those of its enabled tools and
\* MCP lists those that are not hidden either, in whatever order toggles, enables and disables
\* overlapped. Excluded are a toggle that failed half-way, a load whose read failed (it counts
\* every tool as enabled), and the listing an enable has opened since the load.
ServesToggledTools ==
  AtRest /\ seen.up = "loaded" /\ ~seen.stale =>
    /\ live.routes = db.enabled
    /\ ~seen.reshown => live.visible = db.enabled \ db.hidden

\* With no handler at work, a loaded plugin has exactly one worker loop, the one that the
\* registry's stop would reach, and an unloaded one has none. Excluded are uploads that nudge
\* the worker while a stop is waiting for it, and, after an unload, uploads that came later.
WorkerFollowsPlugin ==
  AtRest /\ "stopping" \notin seen.nudged =>
    /\ seen.up = "loaded" => /\ running /\ Living = {task}
                             /\ loop[task].pc = "runs" => loop[task].event = event
                             /\ event \notin signals
    /\ seen.up = "down" /\ "unloaded" \notin seen.nudged => Living = {}

\* A tool that is disabled is not listed to MCP clients once every handler is done.
DisabledNotListed ==
  AtRest /\ seen.up = "loaded" /\ ~seen.stale => live.visible \subseteq db.enabled
=================================================================================
