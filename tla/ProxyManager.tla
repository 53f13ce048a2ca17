---------------------------- MODULE ProxyManager ----------------------------
(***************************************************************************)
(* ProxyManager (core/proxy/proxy_manager.py) and the proxy_reconnect      *)
(* worker, for one proxy name: the row in proxy_servers, the live handle,  *)
(* the providers mounted on the MCP server, and the routes contributed.    *)
(*                                                                         *)
(* The code runs on one event loop.  A step is what an operation does      *)
(* between two awaits, so unmounting, mounting, setting the handle and     *)
(* swapping the routes are one step, and a write to the row is another.    *)
(* Handlers of "proxy.tools_discovered" are plain functions: emitting the  *)
(* event is part of the step.                                              *)
(***************************************************************************)
EXTENDS Naturals, Sequences, SequencesExt

CONSTANTS
    Tasks,      \* operator requests; each runs one operation at a time
    Loader,     \* the boot task, load_persisted
    Worker,     \* the proxy_reconnect worker
    Providers,  \* the handles build_proxy returns; reused once forgotten
    RowIds,     \* primary keys of proxy_servers; reused once forgotten
    None,       \* no provider
    Kinds,      \* what happens in this instance: names of operations,
                \* "worker", "exhaust", "restart"
    AuthModes,  \* whether auth_mode = "oauth": FALSE, TRUE or both; a name keeps
                \* its mode when it is added again
    MaxTries    \* proxy_auto_reconnect_max_attempts; 0 means forever

ASSUME ActorsAssumption == Loader \notin Tasks /\ Worker \notin Tasks /\ Loader # Worker
ASSUME NoneAssumption == None \notin Providers
ASSUME AuthModesAssumption == AuthModes \subseteq BOOLEAN /\ AuthModes # {}
ASSUME TriesAssumption == MaxTries \in Nat

VARIABLES
    row,      \* the row: its id and its status, "gone" when there is none
    handle,   \* _active_handles.get(name)
    mounted,  \* the entries of mcp.providers with this namespace, in order
    routes,   \* the provider the registered routes call, None without routes
    up,       \* the upstream answers list_tools
    mark,     \* _mark_unavailable for each provider
    pc,       \* where each task stands
    prov,     \* the provider each task has in hand
    seen,     \* the row each task has read, None when it has read none
    sched,    \* the worker's _schedule entry: "unseen", "waiting" or "due"
    tries     \* its failed attempts, 0 throughout when MaxTries = 0

liveVars == <<handle, mounted, routes>>
taskVars == <<pc, prov, seen>>
workerVars == <<sched, tries>>
vars == <<row, liveVars, up, mark, taskVars, workerVars>>

Actors == Tasks \cup {Loader, Worker}
Statuses == {"active", "inactive", "error", "gone"}
Rows == [id : RowIds, status : Statuses, oauth : AuthModes]
HasRow == row.status # "gone"
Loaded == pc[Loader] = "idle"

\* A provider nothing refers to any more, or one never built.
Fresh == Providers \ ({handle, routes} \cup ToSet(mounted) \cup {prov[t] : t \in Actors}
                        \cup {p \in Providers : mark[p] # "none"})

\* _get_plugin_lock: teardown_plugin and reinitialize_plugin hold it.
PluginLocked ==
    \E t \in Tasks : pc[t] \in {"enable_write", "mount_list", "mount_write", "disable_write"}

\* Mutant of ProxyLocked: a mark does not hold the lock while it writes.
LockedByTests == \E t \in Actors : pc[t] \in {"test_list", "test_mount"}

\* _proxy_lock: test_proxy and _mark_unavailable hold it.
ProxyLocked ==
    \/ \E t \in Actors : pc[t] \in {"test_list", "test_mount"}
    \/ \E p \in Providers : mark[p] = "write"

TypeOK ==
    /\ row \in Rows
    /\ handle \in Providers \cup {None}
    /\ mounted \in Seq(Providers)
    /\ routes \in Providers \cup {None}
    /\ up \in BOOLEAN
    /\ mark \in [Providers -> {"none", "wait", "write"}]
    /\ pc \in [Actors -> {"idle", "boot", "mount_list", "mount_write", "enable_write",
                          "disable_write", "test_wait", "test_list", "test_mount",
                          "add_insert", "add_list", "add_write", "remove_unmount",
                          "describe_list", "describe_emit"}]
    /\ prov \in [Actors -> Providers \cup {None}]
    /\ seen \in [Actors -> Rows \cup {None}]
    /\ sched \in {"unseen", "waiting", "due"}
    /\ tries \in 0 .. MaxTries

\* A process just started over a table some earlier process left behind.
Init ==
    /\ row \in Rows /\ up \in BOOLEAN
    /\ handle = None /\ mounted = <<>> /\ routes = None
    /\ mark = [p \in Providers |-> "none"]
    /\ pc = [t \in Actors |-> IF t = Loader THEN "boot" ELSE "idle"]
    /\ prov = [t \in Actors |-> None]
    /\ seen = [t \in Actors |-> None]
    /\ sched = "unseen" /\ tries = 0

-----------------------------------------------------------------------------
(* The row.  Each is one committed statement.                              *)

Rewritten(i, s) == IF HasRow /\ row.id = i THEN [row EXCEPT !.status = s] ELSE row

\* UPDATE ... WHERE id / WHERE name.
UpdateById(i, s) == row' = Rewritten(i, s)
UpdateByName(s) == row' = Rewritten(row.id, s)

\* The ORM's commit: an UPDATE only when the status differs from the one read.
CommitStatus(t, s) ==
    row' = IF seen[t].status = s THEN row ELSE Rewritten(seen[t].id, s)

-----------------------------------------------------------------------------
(* The live side.  _find_mounted_provider also matches on the namespace,   *)
(* which every entry here has: the first one goes, whoever's handle it is. *)

Unmounted == IF mounted = <<>> THEN <<>> ELSE Tail(mounted)

\* mount_proxy, the handle, and the routes: the listener of the event takes
\* the provider from _active_handles.
Installs(p, rest) ==
    /\ mounted' = Append(rest, p)
    /\ handle' = p
    /\ routes' = p

\* Mutant of Replaces: the old handle is left mounted.
ReplacesKeepingOld(p) == Installs(p, mounted)

\* Unmount of the old handle, if there is one, before the mount.
Replaces(p) == Installs(p, IF handle = None THEN mounted ELSE Unmounted)

\* Unmount, drop the handle, drop the routes.
Withdraws ==
    /\ mounted' = Unmounted
    /\ handle' = None
    /\ routes' = None

-----------------------------------------------------------------------------
(* Task bookkeeping. *)

Goes(t, where) ==
    /\ pc' = [pc EXCEPT ![t] = where]
    /\ UNCHANGED <<prov, seen>>

\* t reads the row and takes provider p in hand.
Holds(t, p, where) ==
    /\ pc' = [pc EXCEPT ![t] = where]
    /\ prov' = [prov EXCEPT ![t] = p]
    /\ seen' = [seen EXCEPT ![t] = row]

Ends(t) ==
    /\ pc' = [pc EXCEPT ![t] = "idle"]
    /\ prov' = [prov EXCEPT ![t] = None]
    /\ seen' = [seen EXCEPT ![t] = None]

Idle(t) == Loaded /\ pc[t] = "idle"

-----------------------------------------------------------------------------
(* _mount_proxy_row, called at boot and by enable_proxy. *)

BuildsForMount(t) ==
    \/ row.oauth /\ Ends(t)                 \* not connected: skipped, status kept
    \/ \E p \in Fresh : Holds(t, p, "mount_list")

LoadPersisted ==
    /\ pc[Loader] = "boot"
    /\ IF row.status = "active" THEN BuildsForMount(Loader) ELSE Ends(Loader)
    /\ UNCHANGED <<row, liveVars, up, mark, workerVars>>

MountLists(t) ==
    /\ pc[t] = "mount_list"
    /\ \/ up /\ Replaces(prov[t]) /\ Goes(t, "mount_write") /\ UNCHANGED row
       \/ ~up /\ UpdateById(seen[t].id, "error") /\ Ends(t) /\ UNCHANGED liveVars
    /\ UNCHANGED <<up, mark, workerVars>>

MountWrites(t) ==
    /\ pc[t] = "mount_write"
    /\ UpdateById(seen[t].id, "active")
    /\ Ends(t)
    /\ UNCHANGED <<liveVars, up, mark, workerVars>>

-----------------------------------------------------------------------------
(* enable_proxy and disable_proxy, under the plugin lock. *)

\* Mutant of Enables: the plugin lock is not taken.
EnablesUnlocked(t) ==
    /\ Idle(t)
    /\ IF handle # None THEN Holds(t, None, "enable_write")
       ELSE IF HasRow THEN BuildsForMount(t) ELSE Ends(t)
    /\ UNCHANGED <<row, liveVars, up, mark, workerVars>>

Enables(t) ==
    /\ Idle(t) /\ ~PluginLocked
    /\ IF handle # None THEN Holds(t, None, "enable_write")
       ELSE IF HasRow THEN BuildsForMount(t) ELSE Ends(t)
    /\ UNCHANGED <<row, liveVars, up, mark, workerVars>>

EnableWrites(t) ==
    /\ pc[t] = "enable_write"
    /\ UpdateByName("active")
    /\ Ends(t)
    /\ UNCHANGED <<liveVars, up, mark, workerVars>>

Disables(t) ==
    /\ Idle(t) /\ ~PluginLocked
    /\ Withdraws
    /\ Goes(t, "disable_write")
    /\ UNCHANGED <<row, up, mark, workerVars>>

DisableWrites(t) ==
    /\ pc[t] = "disable_write"
    /\ UpdateByName("inactive")
    /\ Ends(t)
    /\ UNCHANGED <<liveVars, up, mark, workerVars>>

-----------------------------------------------------------------------------
(* test_proxy, by an operator or by the worker. *)

Tests(t) ==
    /\ Idle(t)
    /\ Goes(t, "test_wait")
    /\ UNCHANGED <<row, liveVars, up, mark, workerVars>>

\* The test is over; the worker keeps or drops its schedule entry.
TestEnds(t, ok) ==
    /\ Ends(t)
    /\ IF t # Worker THEN UNCHANGED workerVars
       ELSE /\ sched' = IF ok THEN "unseen" ELSE "waiting"
            /\ tries' = IF ok \/ MaxTries = 0 THEN 0 ELSE tries + 1

\* The lock is taken and the row read; without a row ValueError is raised.
TestReads(t) ==
    /\ pc[t] = "test_wait" /\ ~ProxyLocked
    /\ IF HasRow
       THEN (\E p \in Fresh : Holds(t, p, "test_list")) /\ UNCHANGED workerVars
       ELSE TestEnds(t, FALSE)
    /\ UNCHANGED <<row, liveVars, up, mark>>

\* The listing worked.  A commit that has something to write to a row that
\* has been deleted raises, and so does the one in the except branch.
TestCommits(t) ==
    /\ pc[t] = "test_list" /\ up
    /\ CommitStatus(t, "active")
    /\ \/ /\ (HasRow /\ row.id = seen[t].id) \/ seen[t].status = "active"
          /\ Goes(t, "test_mount") /\ UNCHANGED workerVars
       \/ /\ ~(HasRow /\ row.id = seen[t].id)
          /\ TestEnds(t, FALSE)
    /\ UNCHANGED <<liveVars, up, mark>>

TestMounts(t) ==
    /\ pc[t] = "test_mount"
    /\ Replaces(prov[t])
    /\ TestEnds(t, TRUE)
    /\ UNCHANGED <<row, up, mark>>

\* The listing failed: what is mounted stays mounted.
TestFails(t) ==
    /\ pc[t] = "test_list" /\ ~up
    /\ CommitStatus(t, "error")
    /\ TestEnds(t, FALSE)
    /\ UNCHANGED <<liveVars, up, mark>>

-----------------------------------------------------------------------------
(* add_proxy and remove_proxy, under no lock. *)

\* The early duplicate check.
Adds(t) ==
    /\ Idle(t) /\ ~HasRow
    /\ Goes(t, "add_insert")
    /\ UNCHANGED <<row, liveVars, up, mark, workerVars>>

\* The second check and the insert; the name is unique in the table.
AddInserts(t) ==
    /\ pc[t] = "add_insert"
    /\ IF HasRow THEN Ends(t) /\ UNCHANGED row
       ELSE \E i \in RowIds \ ({row.id} \cup {seen[u].id : u \in {v \in Actors : seen[v] # None}}) :
              /\ row' = [row EXCEPT !.id = i,
                                   !.status = IF row.oauth THEN "inactive" ELSE "active"]
              /\ IF row.oauth THEN Ends(t)
                 ELSE \E p \in Fresh :
                        /\ pc' = [pc EXCEPT ![t] = "add_list"]
                        /\ prov' = [prov EXCEPT ![t] = p]
                        /\ seen' = [seen EXCEPT ![t] = row']
    /\ UNCHANGED <<liveVars, up, mark, workerVars>>

\* Mounted beside whatever is mounted; or the row of that name is deleted.
AddLists(t) ==
    /\ pc[t] = "add_list"
    /\ \/ up /\ Installs(prov[t], mounted) /\ Goes(t, "add_write") /\ UNCHANGED row
       \/ ~up /\ UpdateByName("gone") /\ Ends(t) /\ UNCHANGED liveVars
    /\ UNCHANGED <<up, mark, workerVars>>

AddWrites(t) ==
    /\ pc[t] = "add_write"
    /\ UpdateById(seen[t].id, "active")
    /\ Ends(t)
    /\ UNCHANGED <<liveVars, up, mark, workerVars>>

RemoveDeletes(t) ==
    /\ Idle(t) /\ HasRow
    /\ UpdateByName("gone")
    /\ Goes(t, "remove_unmount")
    /\ UNCHANGED <<liveVars, up, mark, workerVars>>

RemoveUnmounts(t) ==
    /\ pc[t] = "remove_unmount"
    /\ Withdraws
    /\ Ends(t)
    /\ UNCHANGED <<row, up, mark, workerVars>>

-----------------------------------------------------------------------------
(* update_proxy_description and the reindex endpoint: both list the tools  *)
(* of the handle they read, delete embeddings, then swap the routes.       *)

Describes(t) ==
    /\ Idle(t) /\ handle # None
    /\ Holds(t, handle, "describe_list")
    /\ UNCHANGED <<row, liveVars, up, mark, workerVars>>

DescribeLists(t) ==
    /\ pc[t] = "describe_list"
    /\ IF up THEN Goes(t, "describe_emit") ELSE Ends(t)
    /\ UNCHANGED <<row, liveVars, up, mark, workerVars>>

\* Mutant of DescribeEmits: the routes are bound to the handle read before.
DescribeEmitsWhatItRead(t) ==
    /\ pc[t] = "describe_emit"
    /\ routes' = prov[t]
    /\ Ends(t)
    /\ UNCHANGED <<row, handle, mounted, up, mark, workerVars>>

\* The listener looks the handle up again: without one it adds no routes.
DescribeEmits(t) ==
    /\ pc[t] = "describe_emit"
    /\ routes' = handle
    /\ Ends(t)
    /\ UNCHANGED <<row, handle, mounted, up, mark, workerVars>>

-----------------------------------------------------------------------------
(* The exhausted hook and _mark_unavailable. *)

\* A provider gives up on an upstream that is down; nothing calls a tool
\* before the boot pipeline has run.
Exhausts(p) ==
    /\ Loaded /\ ~up
    /\ p \in ToSet(mounted) /\ mark[p] = "none"
    /\ mark' = [mark EXCEPT ![p] = "wait"]
    /\ UNCHANGED <<row, liveVars, up, taskVars, workerVars>>

\* Mutant of MarkRuns: the provider is not compared with the handle.
MarkRunsAnyway(p) ==
    /\ mark[p] = "wait" /\ ~ProxyLocked
    /\ Withdraws /\ mark' = [mark EXCEPT ![p] = "write"]
    /\ UNCHANGED <<row, up, taskVars, workerVars>>

MarkRuns(p) ==
    /\ mark[p] = "wait" /\ ~ProxyLocked
    /\ IF handle = p
       THEN Withdraws /\ mark' = [mark EXCEPT ![p] = "write"]
       ELSE mark' = [mark EXCEPT ![p] = "none"] /\ UNCHANGED liveVars
    /\ UNCHANGED <<row, up, taskVars, workerVars>>

\* Mutant of MarkWrites: the row is left as it is.
MarkForgets(p) ==
    /\ mark[p] = "write"
    /\ mark' = [mark EXCEPT ![p] = "none"]
    /\ UNCHANGED <<row, liveVars, up, taskVars, workerVars>>

MarkWrites(p) ==
    /\ mark[p] = "write"
    /\ UpdateByName("error")
    /\ mark' = [mark EXCEPT ![p] = "none"]
    /\ UNCHANGED <<liveVars, up, taskVars, workerVars>>

-----------------------------------------------------------------------------
(* proxy_reconnect's _tick.  The names are listed in one await and tested  *)
(* later, after the awaits of the test and of the names before it.         *)

\* Mutants of GaveUp: the limit compared one too early, and one too late.
GaveUpOneEarly == MaxTries > 0 /\ tries + 1 >= MaxTries
GaveUpOneLate == MaxTries > 0 /\ tries > MaxTries

GaveUp == MaxTries > 0 /\ tries >= MaxTries

TickForgets ==
    /\ Idle(Worker) /\ row.status # "error"
    /\ sched' = "unseen" /\ tries' = 0
    /\ UNCHANGED <<row, liveVars, up, mark, taskVars>>

TickFirstSees ==
    /\ Idle(Worker) /\ row.status = "error"
    /\ sched = "unseen" /\ sched' = "waiting"
    /\ UNCHANGED <<row, liveVars, up, mark, taskVars, tries>>

TickTests ==
    /\ Idle(Worker) /\ row.status = "error"
    /\ sched = "due" /\ ~GaveUp
    /\ Goes(Worker, "test_wait")
    /\ UNCHANGED <<row, liveVars, up, mark, workerVars>>

\* next_delay has passed.
DelayPasses ==
    /\ sched = "waiting" /\ sched' = "due"
    /\ UNCHANGED <<row, liveVars, up, mark, taskVars, tries>>

-----------------------------------------------------------------------------
UpstreamFlips == up' = ~up /\ UNCHANGED <<row, liveVars, mark, taskVars, workerVars>>

\* The process dies and another one boots over the same table.
Restarts ==
    /\ handle' = None /\ mounted' = <<>> /\ routes' = None
    /\ mark' = [p \in Providers |-> "none"]
    /\ pc' = [t \in Actors |-> IF t = Loader THEN "boot" ELSE "idle"]
    /\ prov' = [t \in Actors |-> None]
    /\ seen' = [t \in Actors |-> None]
    /\ sched' = "unseen" /\ tries' = 0
    /\ UNCHANGED <<row, up>>

Starts(t) ==
    \/ "enable" \in Kinds /\ Enables(t)
    \/ "disable" \in Kinds /\ Disables(t)
    \/ "test" \in Kinds /\ Tests(t)
    \/ "add" \in Kinds /\ Adds(t)
    \/ "remove" \in Kinds /\ RemoveDeletes(t)
    \/ "describe" \in Kinds /\ Describes(t)

Continues(t) ==
    \/ MountLists(t) \/ MountWrites(t)
    \/ EnableWrites(t) \/ DisableWrites(t)
    \/ TestReads(t) \/ TestCommits(t) \/ TestMounts(t) \/ TestFails(t)
    \/ AddInserts(t) \/ AddLists(t) \/ AddWrites(t)
    \/ RemoveUnmounts(t)
    \/ DescribeLists(t) \/ DescribeEmits(t)

Marks(p) == MarkRuns(p) \/ MarkWrites(p)

Ticks == "worker" \in Kinds /\ (TickForgets \/ TickFirstSees \/ TickTests \/ DelayPasses)

Next ==
    \/ LoadPersisted
    \/ \E t \in Tasks : Starts(t)
    \/ \E t \in Actors : Continues(t)
    \/ \E p \in Providers : ("exhaust" \in Kinds /\ Exhausts(p)) \/ Marks(p)
    \/ Ticks
    \/ UpstreamFlips
    \/ "restart" \in Kinds /\ Restarts

\* What the event loop and the worker's timer see to: everything begun goes
\* on, and the worker keeps ticking.  No operator has to do anything.
Fairness ==
    /\ WF_vars(LoadPersisted)
    /\ \A t \in Actors : WF_vars(Continues(t))
    /\ \A p \in Providers : WF_vars(Marks(p))
    /\ WF_vars(Ticks)

Spec == Init /\ [][Next]_vars /\ Fairness

-----------------------------------------------------------------------------
\* The registered routes call the provider that is mounted, and there are
\* none without one, in every interleaving of all operations: the listener's
\* second look at the handle is what keeps a description update or a reindex
\* from bringing routes of an unmounted or replaced provider back.
RoutesFollowHandle == routes = handle

\* The server has the handle's provider of an OAuth proxy mounted and nothing
\* else: no earlier connection of this proxy goes on answering beside it.
\* (Adding another proxy mounts what it has listed outside every lock.)
MountedIsHandle == row.oauth => mounted = IF handle = None THEN <<>> ELSE <<handle>>

\* A late _mark_unavailable of a connection replaced meanwhile takes nothing
\* down: the live handle goes only with its own hook, on an operator's word,
\* or with the process.
ServedUntilAsked ==
    [][handle # None /\ handle' = None =>
         \/ mark[handle] = "wait"
         \/ \E t \in Tasks : pc'[t] = "disable_write" \/ pc[t] = "remove_unmount"
         \/ pc'[Loader] = "boot"]_vars

Quiet == (\A t \in Actors : pc[t] = "idle") /\ (\A p \in Providers : mark[p] = "none")

\* When nothing is going on, a row that says active is being served.
ActiveIsServed == Quiet /\ row.status = "active" => handle # None

\* When nothing is going on, the row says active exactly when it is served.
StatusMatchesMount == Quiet => (row.status = "active" <=> handle # None)

\* _mark_unavailable is still to write "error" only while the proxy is down:
\* a reconnect never gets in between its unmount and its write, which would
\* leave a served proxy behind an error row.
NoReconnectUnderMark == (\E p \in Providers : mark[p] = "write") => handle = None

\* What the worker's docstring says of itself ("Operator-disabled proxies are
\* inactive, never error, so they are never touched"): the worker does not
\* turn an inactive row active.
DisabledNotTouched ==
    [][row.status = "inactive" /\ row'.status = "active" => pc[Worker] = pc'[Worker]]_vars

\* "An outage heals on its own": an upstream that stays up, of a proxy nobody
\* disables, is served again for good, unless the worker has spent its attempts.
OutageHeals ==
    <>[](up /\ row.status \in {"active", "error"} /\ (MaxTries = 0 \/ tries < MaxTries))
        => <>[](handle # None)
=============================================================================
