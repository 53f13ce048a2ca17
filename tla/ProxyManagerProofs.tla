---------------------------- MODULE ProxyManagerProofs ----------------------------
(* The live side of a proxy, for every number of operators, providers and rows. The *)
(* handle, the mounted providers and the routes change together in Installs and     *)
(* Withdraws; what the tasks have in hand makes sure that a mount has a provider.   *)
EXTENDS ProxyManager, SequenceTheorems, TLAPS

Places == {"idle", "boot", "mount_list", "mount_write", "enable_write", "disable_write",
           "test_wait", "test_list", "test_mount", "add_insert", "add_list", "add_write",
           "remove_unmount", "describe_list", "describe_emit"}
Testing == {"test_wait", "test_list", "test_mount"}
Mounting == {"mount_list", "test_list", "test_mount", "add_list"}

\* Where each actor may stand: the worker only tests, the boot task only mounts.
MayStand(t, where) ==
  /\ where \in Places
  /\ t = Worker => where \in {"idle"} \cup Testing
  /\ t = Loader => where \in {"idle", "boot", "mount_list", "mount_write"}

\* Adding an OAuth proxy ends with the insert.
AddsListed == \A t \in Actors : pc[t] = "add_list" => ~row.oauth

\* The worker tests only while it has attempts left.
TriesLeft == MaxTries = 0 \/ tries < MaxTries

TasksInv ==
  /\ row \in Rows /\ up \in BOOLEAN /\ mark \in [Providers -> {"none", "wait", "write"}]
  /\ pc \in [Actors -> Places]
  /\ prov \in [Actors -> Providers \cup {None}]
  /\ seen \in [Actors -> Rows \cup {None}]
  /\ sched \in {"unseen", "waiting", "due"} /\ tries \in 0 .. MaxTries
  /\ \A t \in Actors : MayStand(t, pc[t]) /\ (pc[t] \in Mounting => prov[t] \in Providers)
  /\ AddsListed
  /\ pc[Worker] \in Testing => TriesLeft

LiveInv ==
  /\ handle \in Providers \cup {None} /\ mounted \in Seq(Providers)
  /\ RoutesFollowHandle /\ MountedIsHandle

IInv == TasksInv /\ LiveInv

LEMMA ManagerInit == Init => IInv
<1> SUFFICES ASSUME Init PROVE IInv
  OBVIOUS
<1> USE ActorsAssumption, TriesAssumption DEF Init
<1>1. \A t \in Actors : pc[t] = IF t = Loader THEN "boot" ELSE "idle"
  OBVIOUS
<1>2. TasksInv
  BY <1>1 DEF TasksInv, AddsListed, MayStand, Places, Testing, Mounting, Actors
<1>3. LiveInv
  BY DEF LiveInv, RoutesFollowHandle, MountedIsHandle
<1> QED
  BY <1>2, <1>3 DEF IInv

---------------------------------------------------------------------------------
(* The live side *)

LEMMA InstallsLive ==
  ASSUME LiveInv, NEW p \in Providers, Installs(p, mounted), ~row'.oauth
  PROVE  LiveInv' /\ handle' = p
BY DEF LiveInv, Installs, RoutesFollowHandle, MountedIsHandle

LEMMA UnmountedTyped ==
  ASSUME LiveInv
  PROVE  /\ Unmounted \in Seq(Providers)
         /\ row.oauth = TRUE => Unmounted = <<>>
<1>1. \A p \in Providers : Tail(<<p>>) = <<>>
  OBVIOUS
<1>2. mounted \in Seq(Providers)
  BY DEF LiveInv
<1>3. Unmounted \in Seq(Providers)
  BY <1>2, HeadTailProperties DEF Unmounted
<1>4. ASSUME row.oauth = TRUE PROVE Unmounted = <<>>
  <2>1. mounted = <<>> \/ \E p \in Providers : mounted = <<p>>
    BY <1>4 DEF LiveInv, MountedIsHandle
  <2> QED
    BY <1>1, <2>1 DEF Unmounted
<1> QED
  BY <1>3, <1>4

LEMMA ReplacesLive ==
  ASSUME LiveInv, NEW p \in Providers, Replaces(p), row'.oauth = row.oauth
  PROVE  LiveInv' /\ handle' = p /\ p # None
<1>1. p # None
  BY NoneAssumption
<1>2. PICK rest \in Seq(Providers) : Installs(p, rest) /\ (row.oauth = TRUE => rest = <<>>)
  BY UnmountedTyped DEF LiveInv, Replaces, MountedIsHandle
<1>3. mounted' = Append(rest, p) /\ handle' = p /\ routes' = p
  BY <1>2 DEF Installs
<1>4. Append(<<>>, p) = <<p>>
  OBVIOUS
<1>5. mounted' \in Seq(Providers)
  BY <1>2, <1>3
<1>6. row.oauth = TRUE => mounted' = <<p>>
  BY <1>2, <1>3, <1>4
<1> QED
  BY <1>1, <1>3, <1>5, <1>6 DEF LiveInv, RoutesFollowHandle, MountedIsHandle

LEMMA WithdrawsLive ==
  ASSUME LiveInv, Withdraws, row'.oauth = row.oauth
  PROVE  LiveInv'
<1> QED
  BY UnmountedTyped DEF LiveInv, Withdraws, RoutesFollowHandle, MountedIsHandle

LEMMA SameLive ==
  ASSUME LiveInv, UNCHANGED liveVars, row'.oauth = row.oauth
  PROVE  LiveInv'
BY DEF LiveInv, liveVars, RoutesFollowHandle, MountedIsHandle

---------------------------------------------------------------------------------
(* The row and the tasks *)

\* No statement changes the mode of the proxy.
LEMMA RewrittenTyped ==
  ASSUME row \in Rows, NEW i, NEW s \in Statuses
  PROVE  Rewritten(i, s) \in Rows /\ Rewritten(i, s).oauth = row.oauth
BY DEF Rewritten, Rows

\* One actor moves on, the others stand where they stood.
Turn(t, where) ==
  /\ pc' \in [Actors -> Places] /\ prov' \in [Actors -> Providers \cup {None}]
  /\ seen' \in [Actors -> Rows \cup {None}]
  /\ pc'[t] = where /\ \A u \in Actors \ {t} : pc'[u] = pc[u] /\ prov'[u] = prov[u]

LEMMA GoesTurn ==
  ASSUME TasksInv, NEW t \in Actors, NEW where \in Places, Goes(t, where)
  PROVE  Turn(t, where) /\ prov' = prov
BY DEF TasksInv, Goes, Turn

LEMMA HoldsTurn ==
  ASSUME TasksInv, NEW t \in Actors, NEW where \in Places, NEW p \in Providers \cup {None},
         Holds(t, p, where)
  PROVE  Turn(t, where) /\ prov'[t] = p
BY DEF TasksInv, Holds, Turn

LEMMA EndsTurn ==
  ASSUME TasksInv, NEW t \in Actors, Ends(t)
  PROVE  Turn(t, "idle")
BY DEF TasksInv, Ends, Turn, Places

LEMMA TurnTasks ==
  ASSUME TasksInv, NEW t \in Actors, NEW where, Turn(t, where), MayStand(t, where),
         where \in Mounting => prov'[t] \in Providers, where = "add_list" => ~row.oauth,
         row' \in Rows, row'.oauth = row.oauth,
         up' \in BOOLEAN, mark' \in [Providers -> {"none", "wait", "write"}],
         sched' \in {"unseen", "waiting", "due"}, tries' \in 0 .. MaxTries,
         tries' = tries \/ (t = Worker /\ where \notin Testing),
         t = Worker /\ where \in Testing => TriesLeft
  PROVE  TasksInv'
<1>1. \A u \in Actors : MayStand(u, pc[u]) /\ (pc[u] \in Mounting => prov[u] \in Providers)
  BY DEF TasksInv
<1>2. \A u \in Actors : /\ MayStand(u, pc'[u])
                        /\ pc'[u] \in Mounting => prov'[u] \in Providers
  BY <1>1 DEF Turn
<1>3. Worker \in Actors
  BY DEF Actors
<1>4. (pc[Worker] \in Testing => TriesLeft)'
  BY <1>3 DEF TasksInv, Turn, TriesLeft
<1>5. AddsListed'
  BY DEF TasksInv, AddsListed, Turn
<1> QED
  BY <1>2, <1>4, <1>5 DEF TasksInv, Turn

---------------------------------------------------------------------------------
(* The actions. Each keeps the invariant, and takes the handle away only when asked. *)

Asked ==
  handle # None /\ handle' = None =>
    \/ mark[handle] = "wait"
    \/ \E t \in Tasks : pc'[t] = "disable_write" \/ pc[t] = "remove_unmount"
    \/ pc'[Loader] = "boot"

LEMMA TaskStands ==
  ASSUME NEW t \in Tasks
  PROVE  t \in Actors /\ t # Worker /\ \A where \in Places : MayStand(t, where)
BY ActorsAssumption DEF Actors, MayStand

LEMMA IdleStands == "idle" \in Places /\ \A t \in Actors : MayStand(t, "idle")
BY DEF MayStand, Places

\* A step of one actor that leaves the live side, the marks and the worker's schedule alone.
LEMMA QuietTurn ==
  ASSUME IInv, NEW t \in Actors, NEW where, Turn(t, where), MayStand(t, where),
         where \in Mounting => prov'[t] \in Providers, where = "add_list" => ~row.oauth,
         row' \in Rows, row'.oauth = row.oauth,
         UNCHANGED <<liveVars, up, mark, workerVars>>,
         t = Worker /\ where \in Testing => TriesLeft
  PROVE  IInv' /\ Asked
<1>1. TasksInv'
  BY TurnTasks DEF IInv, TasksInv, workerVars
<1>2. LiveInv'
  BY SameLive DEF IInv
<1> QED
  BY <1>1, <1>2 DEF IInv, Asked, liveVars

LEMMA BuildsKeep ==
  ASSUME IInv, NEW t \in Actors, BuildsForMount(t), MayStand(t, "mount_list"),
         UNCHANGED <<row, liveVars, up, mark, workerVars>>
  PROVE  IInv' /\ Asked
<1>0. TasksInv /\ row' \in Rows /\ row'.oauth = row.oauth
  BY DEF IInv, TasksInv
<1>1. CASE Ends(t)
  BY <1>0, <1>1, EndsTurn, IdleStands, QuietTurn DEF Mounting, Testing
<1>2. CASE \E p \in Fresh : Holds(t, p, "mount_list")
  <2>1. PICK p \in Providers : Holds(t, p, "mount_list")
    BY <1>2 DEF Fresh
  <2>2. Turn(t, "mount_list") /\ prov'[t] = p
    BY <1>0, <2>1, HoldsTurn DEF Places
  <2> QED
    BY <1>0, <2>2, QuietTurn DEF Testing
<1> QED
  BY <1>1, <1>2 DEF BuildsForMount

LEMMA LoadsKeep ==
  ASSUME IInv, LoadPersisted
  PROVE  IInv' /\ Asked
<1>1. Loader \in Actors /\ MayStand(Loader, "mount_list") /\ TasksInv
      /\ row' \in Rows /\ row'.oauth = row.oauth
  BY ActorsAssumption DEF Actors, MayStand, Places, IInv, LoadPersisted, TasksInv
<1>2. CASE Ends(Loader)
  BY <1>1, <1>2, EndsTurn, IdleStands, QuietTurn DEF Mounting, Testing, LoadPersisted
<1>3. CASE BuildsForMount(Loader)
  BY <1>1, <1>3, BuildsKeep DEF LoadPersisted
<1> QED
  BY <1>2, <1>3 DEF LoadPersisted

\* The first step of an operator's request.
LEMMA StartsKeep ==
  ASSUME IInv, NEW t \in Tasks, Starts(t)
  PROVE  IInv' /\ Asked
<1>0. TasksInv /\ LiveInv /\ row \in Rows /\ t \in Actors
  BY TaskStands DEF IInv, TasksInv
<1>1. CASE Enables(t)
  <2>0. row' \in Rows /\ row'.oauth = row.oauth /\ UNCHANGED <<row, liveVars, up, mark, workerVars>>
    BY <1>0, <1>1 DEF Enables
  <2>1. CASE Ends(t)
    BY <1>0, <2>0, <2>1, EndsTurn, IdleStands, QuietTurn DEF Mounting, Testing
  <2>2. CASE BuildsForMount(t)
    BY <1>0, <2>0, <2>2, TaskStands, BuildsKeep DEF Places
  <2>3. CASE Holds(t, None, "enable_write")
    <3>1. Turn(t, "enable_write") /\ MayStand(t, "enable_write")
      BY <1>0, <2>3, HoldsTurn, TaskStands DEF Places
    <3> QED
      BY <1>0, <2>0, <3>1, QuietTurn DEF Mounting, Testing
  <2> QED
    BY <1>1, <2>1, <2>2, <2>3 DEF Enables
<1>2. CASE Disables(t)
  <2>1. Turn(t, "disable_write") /\ MayStand(t, "disable_write")
    BY <1>0, <1>2, GoesTurn, TaskStands DEF Places, Disables
  <2>2. row' \in Rows /\ row'.oauth = row.oauth
    BY <1>0, <1>2 DEF Disables
  <2>3. TasksInv'
    BY <1>0, <1>2, <2>1, <2>2, TurnTasks DEF Disables, TasksInv, Mounting, Testing, workerVars
  <2>4. LiveInv'
    BY <1>0, <1>2, <2>2, WithdrawsLive DEF Disables
  <2> QED
    BY <2>1, <2>3, <2>4 DEF IInv, Asked, Turn
<1>3. CASE Tests(t) \/ Adds(t)
  <2>1. PICK where \in {"test_wait", "add_insert"} : Goes(t, where)
    BY <1>3 DEF Tests, Adds
  <2>2. Turn(t, where) /\ MayStand(t, where) /\ t # Worker
    BY <1>0, <2>1, GoesTurn, TaskStands DEF Places
  <2> QED
    BY <1>0, <1>3, <2>2, QuietTurn DEF Tests, Adds, Mounting
<1>4. CASE RemoveDeletes(t)
  <2>1. Turn(t, "remove_unmount") /\ MayStand(t, "remove_unmount")
    BY <1>0, <1>4, GoesTurn, TaskStands DEF Places, RemoveDeletes
  <2>2. row' \in Rows /\ row'.oauth = row.oauth
    BY <1>0, <1>4, RewrittenTyped DEF RemoveDeletes, UpdateByName, Statuses
  <2> QED
    BY <1>0, <1>4, <2>1, <2>2, QuietTurn DEF RemoveDeletes, Mounting, Testing
<1>5. CASE Describes(t)
  <2>1. Turn(t, "describe_list") /\ MayStand(t, "describe_list")
    BY <1>0, <1>5, HoldsTurn, TaskStands DEF Places, Describes, LiveInv
  <2> QED
    BY <1>0, <1>5, <2>1, QuietTurn DEF Describes, Mounting, Testing
<1> QED
  BY <1>1, <1>2, <1>3, <1>4, <1>5 DEF Starts

\* A mount and its write, at boot or by an enable.
LEMMA MountsKeep ==
  ASSUME IInv, NEW t \in Actors, MountLists(t) \/ MountWrites(t)
  PROVE  IInv' /\ Asked
<1>0. TasksInv /\ LiveInv /\ row \in Rows
  BY DEF IInv, TasksInv
<1>1. row' \in Rows /\ row'.oauth = row.oauth
  BY <1>0, RewrittenTyped DEF MountLists, MountWrites, UpdateById, Statuses
<1>2. pc[t] \in {"mount_list", "mount_write"} /\ MayStand(t, pc[t])
      /\ (pc[t] = "mount_list" => prov[t] \in Providers)
  BY <1>0 DEF MountLists, MountWrites, TasksInv, Mounting
<1>3. t # Worker /\ MayStand(t, "mount_write")
  BY <1>2 DEF MayStand, Places, Testing
<1>4. CASE MountLists(t) /\ up
  <2>1. Replaces(prov[t]) /\ Goes(t, "mount_write") /\ UNCHANGED <<row, up, mark, workerVars>>
    BY <1>4 DEF MountLists
  <2>2. Turn(t, "mount_write")
    BY <1>0, <2>1, GoesTurn DEF Places
  <2>3. TasksInv'
    BY <1>0, <1>1, <1>3, <2>1, <2>2, TurnTasks DEF TasksInv, Mounting, workerVars
  <2>4. LiveInv' /\ handle' # None
    BY <1>0, <1>1, <1>2, <1>4, <2>1, ReplacesLive DEF MountLists
  <2> QED
    BY <2>3, <2>4 DEF IInv, Asked
<1>5. CASE Ends(t) /\ UNCHANGED <<liveVars, up, mark, workerVars>>
  BY <1>0, <1>1, <1>5, EndsTurn, IdleStands, QuietTurn DEF Mounting, Testing
<1> QED
  BY <1>4, <1>5 DEF MountLists, MountWrites

LEMMA WritesKeep ==
  ASSUME IInv, NEW t \in Actors, EnableWrites(t) \/ DisableWrites(t) \/ AddWrites(t)
  PROVE  IInv' /\ Asked
<1>1. TasksInv /\ row \in Rows
  BY DEF IInv, TasksInv
<1>2. row' \in Rows /\ row'.oauth = row.oauth
  BY <1>1, RewrittenTyped
  DEF EnableWrites, DisableWrites, AddWrites, UpdateById, UpdateByName, Statuses
<1>3. Turn(t, "idle") /\ UNCHANGED <<liveVars, up, mark, workerVars>>
  BY <1>1, EndsTurn DEF EnableWrites, DisableWrites, AddWrites
<1> QED
  BY <1>2, <1>3, IdleStands, QuietTurn DEF Mounting, Testing

\* The worker had an attempt left when it began, and none of its own since has used it.
LEMMA TestEndsTurn ==
  ASSUME TasksInv, NEW t \in Actors, NEW ok \in BOOLEAN, TestEnds(t, ok), pc[t] \in Testing
  PROVE  /\ Turn(t, "idle")
         /\ sched' \in {"unseen", "waiting", "due"} /\ tries' \in 0 .. MaxTries
         /\ tries' = tries \/ t = Worker
<1>1. Turn(t, "idle")
  BY EndsTurn DEF TestEnds
<1>2. tries \in 0 .. MaxTries /\ (t = Worker => TriesLeft)
  BY DEF TasksInv
<1>3. tries' \in 0 .. MaxTries
  BY <1>2, TriesAssumption DEF TestEnds, TriesLeft, workerVars
<1> QED
  BY <1>1, <1>3 DEF TestEnds, workerVars, TasksInv

LEMMA TestEndsTasks ==
  ASSUME TasksInv, NEW t \in Actors, NEW ok \in BOOLEAN, TestEnds(t, ok), pc[t] \in Testing,
         row' \in Rows, row'.oauth = row.oauth, up' = up, mark' = mark
  PROVE  TasksInv'
<1>1. /\ Turn(t, "idle")
      /\ sched' \in {"unseen", "waiting", "due"} /\ tries' \in 0 .. MaxTries
      /\ tries' = tries \/ t = Worker
  BY TestEndsTurn
<1> QED
  BY <1>1, IdleStands, TurnTasks DEF TasksInv, Mounting, Testing

LEMMA TestingKeep ==
  ASSUME IInv, NEW t \in Actors,
         TestReads(t) \/ TestCommits(t) \/ TestMounts(t) \/ TestFails(t)
  PROVE  IInv' /\ Asked
<1>0. TasksInv /\ LiveInv /\ row \in Rows /\ pc[t] \in Testing
  BY DEF IInv, TasksInv, TestReads, TestCommits, TestMounts, TestFails, Testing
<1>1. row' \in Rows /\ row'.oauth = row.oauth
  BY <1>0, RewrittenTyped
  DEF TestReads, TestCommits, TestMounts, TestFails, CommitStatus, Statuses
<1>2. up' = up /\ mark' = mark
  BY DEF TestReads, TestCommits, TestMounts, TestFails
<1>3. /\ t = Worker => TriesLeft
      /\ MayStand(t, "test_list") /\ MayStand(t, "test_mount")
  <2>1. MayStand(t, pc[t]) /\ (t = Worker => TriesLeft)
    BY <1>0 DEF TasksInv
  <2> QED
    BY <1>0, <2>1 DEF MayStand, Testing, Places
<1>4. CASE UNCHANGED liveVars /\ \E ok \in BOOLEAN : TestEnds(t, ok)
  BY <1>0, <1>1, <1>2, <1>4, TestEndsTasks, SameLive DEF IInv, Asked, liveVars
<1>5. CASE TestReads(t) /\ UNCHANGED workerVars /\ \E p \in Fresh : Holds(t, p, "test_list")
  <2>1. PICK p \in Providers : Holds(t, p, "test_list")
    BY <1>5 DEF Fresh
  <2>2. Turn(t, "test_list") /\ prov'[t] = p
    BY <1>0, <2>1, HoldsTurn DEF Places
  <2> QED
    BY <1>1, <1>3, <1>5, <2>2, QuietTurn DEF TestReads
<1>6. CASE TestCommits(t) /\ Goes(t, "test_mount") /\ UNCHANGED workerVars
  <2>1. Turn(t, "test_mount") /\ prov'[t] \in Providers
    BY <1>0, <1>6, GoesTurn DEF Places, TestCommits, TasksInv, Mounting
  <2> QED
    BY <1>1, <1>3, <1>6, <2>1, QuietTurn DEF TestCommits
<1>7. CASE TestMounts(t)
  <2>1. prov[t] \in Providers
    BY <1>0, <1>7 DEF TestMounts, TasksInv, Mounting
  <2>2. LiveInv' /\ handle' # None
    BY <1>0, <1>1, <1>7, <2>1, ReplacesLive DEF TestMounts
  <2>3. TasksInv'
    BY <1>0, <1>1, <1>2, <1>7, TestEndsTasks DEF TestMounts
  <2> QED
    BY <2>2, <2>3 DEF IInv, Asked
<1> QED
  BY <1>4, <1>5, <1>6, <1>7 DEF TestReads, TestCommits, TestMounts, TestFails

LEMMA AddingKeep ==
  ASSUME IInv, NEW t \in Actors, AddInserts(t) \/ AddLists(t)
  PROVE  IInv' /\ Asked
<1>0. TasksInv /\ LiveInv /\ row \in Rows
  BY DEF IInv, TasksInv
<1>1. \A where \in {"add_list", "add_write"} : MayStand(t, where)
  <2>1. MayStand(t, pc[t]) /\ pc[t] \in {"add_insert", "add_list"}
    BY <1>0 DEF TasksInv, AddInserts, AddLists
  <2> QED
    BY <2>1 DEF MayStand, Places, Testing
<1>2. t # Worker
  BY <1>1 DEF MayStand, Testing
<1>3. CASE Ends(t) /\ UNCHANGED <<liveVars, up, mark, workerVars>>
           /\ row' \in Rows /\ row'.oauth = row.oauth
  BY <1>0, <1>3, EndsTurn, IdleStands, QuietTurn DEF Mounting, Testing
<1>4. CASE AddInserts(t)
  <2>1. row' \in Rows /\ row'.oauth = row.oauth
    BY <1>0, <1>4 DEF AddInserts, Rows, Statuses
  <2>2. CASE ~Ends(t)
    <3>1. ~row.oauth
      BY <1>4, <2>2 DEF AddInserts
    <3>2. PICK p \in Providers : /\ pc' = [pc EXCEPT ![t] = "add_list"]
                                 /\ prov' = [prov EXCEPT ![t] = p]
                                 /\ seen' = [seen EXCEPT ![t] = row']
      BY <1>4, <2>2 DEF AddInserts, Fresh
    <3>3. Turn(t, "add_list") /\ prov'[t] = p
      BY <1>0, <2>1, <3>2 DEF Turn, TasksInv, Places
    <3> QED
      BY <1>1, <1>2, <1>4, <2>1, <3>1, <3>3, QuietTurn DEF AddInserts
  <2> QED
    BY <1>3, <1>4, <2>1, <2>2 DEF AddInserts
<1>5. CASE AddLists(t)
  <2>1. row' \in Rows /\ row'.oauth = row.oauth
    BY <1>0, <1>5, RewrittenTyped DEF AddLists, UpdateByName, Statuses
  <2>2. CASE up
    <3>1. prov[t] \in Providers /\ ~row.oauth
      BY <1>0, <1>5 DEF AddLists, TasksInv, AddsListed, Mounting
    <3>2. Installs(prov[t], mounted) /\ Turn(t, "add_write")
      BY <1>0, <1>5, <2>2, GoesTurn DEF AddLists, Places
    <3>3. LiveInv' /\ handle' # None
      BY <1>0, <2>1, <3>1, <3>2, InstallsLive, NoneAssumption
    <3>4. TasksInv'
      BY <1>0, <1>1, <1>2, <1>5, <2>1, <3>2, TurnTasks DEF AddLists, TasksInv, Mounting, workerVars
    <3> QED
      BY <3>3, <3>4 DEF IInv, Asked
  <2> QED
    BY <1>3, <1>5, <2>1, <2>2 DEF AddLists
<1> QED
  BY <1>4, <1>5

LEMMA RemovesKeep ==
  ASSUME IInv, NEW t \in Actors, RemoveUnmounts(t)
  PROVE  IInv' /\ Asked
<1>0. TasksInv /\ LiveInv /\ row' \in Rows /\ row'.oauth = row.oauth
  BY DEF IInv, TasksInv, RemoveUnmounts
<1>1. MayStand(t, "remove_unmount")
  BY <1>0 DEF TasksInv, RemoveUnmounts
<1>2. t \in Tasks
  BY <1>1 DEF MayStand, Testing, Actors
<1>3. Turn(t, "idle") /\ MayStand(t, "idle")
  BY <1>0, EndsTurn, IdleStands DEF RemoveUnmounts
<1>4. TasksInv'
  BY <1>0, <1>3, TurnTasks DEF RemoveUnmounts, TasksInv, Mounting, Testing, workerVars
<1>5. LiveInv'
  BY <1>0, WithdrawsLive DEF RemoveUnmounts
<1> QED
  BY <1>2, <1>4, <1>5 DEF IInv, Asked, RemoveUnmounts

LEMMA DescribesKeep ==
  ASSUME IInv, NEW t \in Actors, DescribeLists(t) \/ DescribeEmits(t)
  PROVE  IInv' /\ Asked
<1>0. /\ TasksInv /\ LiveInv /\ row' \in Rows /\ row'.oauth = row.oauth
      /\ UNCHANGED <<handle, mounted, row, up, mark, workerVars>>
  BY DEF IInv, TasksInv, DescribeLists, DescribeEmits, liveVars
<1>1. t # Worker /\ MayStand(t, "describe_emit") /\ MayStand(t, "idle")
  <2>1. MayStand(t, pc[t]) /\ pc[t] \in {"describe_list", "describe_emit"}
    BY <1>0 DEF TasksInv, DescribeLists, DescribeEmits
  <2> QED
    BY <2>1, IdleStands DEF MayStand, Places, Testing
<1>2. PICK where \in {"idle", "describe_emit"} : Turn(t, where)
  BY <1>0, GoesTurn, EndsTurn DEF DescribeLists, DescribeEmits, Places
<1>3. TasksInv'
  BY <1>0, <1>1, <1>2, TurnTasks DEF TasksInv, Mounting, workerVars
<1>4. LiveInv'
  BY <1>0 DEF DescribeLists, DescribeEmits, LiveInv, RoutesFollowHandle, MountedIsHandle, liveVars
<1> QED
  BY <1>0, <1>3, <1>4 DEF IInv, Asked

LEMMA ContinuesKeep ==
  ASSUME IInv, NEW t \in Actors, Continues(t)
  PROVE  IInv' /\ Asked
BY MountsKeep, WritesKeep, TestingKeep, AddingKeep, RemovesKeep, DescribesKeep DEF Continues

\* The hook of a provider, and the mark that follows it.
LEMMA MarksKeep ==
  ASSUME IInv, NEW p \in Providers, Exhausts(p) \/ Marks(p)
  PROVE  IInv' /\ Asked
<1>0. TasksInv /\ LiveInv /\ row \in Rows
  BY DEF IInv, TasksInv
<1>1. row' \in Rows /\ row'.oauth = row.oauth /\ UNCHANGED <<up, taskVars, workerVars>>
  BY <1>0, RewrittenTyped
  DEF Exhausts, Marks, MarkRuns, MarkWrites, UpdateByName, Statuses
<1>2. mark' \in [Providers -> {"none", "wait", "write"}]
  BY <1>0 DEF TasksInv, Exhausts, Marks, MarkRuns, MarkWrites
<1>3. TasksInv'
  BY <1>0, <1>1, <1>2 DEF TasksInv, AddsListed, TriesLeft, taskVars, workerVars
<1>4. CASE UNCHANGED liveVars
  BY <1>0, <1>1, <1>3, <1>4, SameLive DEF IInv, Asked, liveVars
<1>5. CASE MarkRuns(p) /\ handle = p /\ Withdraws
  BY <1>0, <1>1, <1>3, <1>5, WithdrawsLive DEF IInv, Asked, MarkRuns
<1> QED
  BY <1>4, <1>5 DEF Exhausts, Marks, MarkRuns, MarkWrites

LEMMA TicksKeep ==
  ASSUME IInv, Ticks
  PROVE  IInv' /\ Asked
<1>0. TasksInv /\ LiveInv /\ row \in Rows /\ row' = row /\ UNCHANGED <<liveVars, up, mark>>
  BY DEF IInv, TasksInv, Ticks, TickForgets, TickFirstSees, TickTests, DelayPasses
<1>1. CASE TickTests
  <2>1. Worker \in Actors /\ MayStand(Worker, "test_wait") /\ TriesLeft
    <3>1. tries \in 0 .. MaxTries
      BY <1>0 DEF TasksInv
    <3> QED
      BY <1>1, <3>1, ActorsAssumption, TriesAssumption
      DEF Actors, MayStand, Places, Testing, TickTests, GaveUp, TriesLeft
  <2>2. Turn(Worker, "test_wait")
    BY <1>0, <1>1, <2>1, GoesTurn DEF TickTests, Places
  <2> QED
    BY <1>0, <1>1, <2>1, <2>2, QuietTurn DEF TickTests, Mounting
<1>2. CASE TickForgets \/ TickFirstSees \/ DelayPasses
  <2>1. UNCHANGED taskVars /\ sched' \in {"unseen", "waiting"} \cup {"due"} /\ tries' \in {0, tries}
    BY <1>2 DEF TickForgets, TickFirstSees, DelayPasses
  <2>2. tries' \in 0 .. MaxTries /\ (TriesLeft => TriesLeft')
    BY <1>0, <2>1, TriesAssumption DEF TasksInv, TriesLeft
  <2>3. TasksInv'
    BY <1>0, <2>1, <2>2 DEF TasksInv, AddsListed, taskVars
  <2> QED
    BY <1>0, <2>3, SameLive DEF IInv, Asked, liveVars
<1> QED
  BY <1>1, <1>2 DEF Ticks

LEMMA ManagerStep ==
  ASSUME IInv, [Next]_vars
  PROVE  IInv' /\ (Asked \/ UNCHANGED vars)
<1>1. CASE UNCHANGED vars
  BY <1>1 DEF IInv, TasksInv, LiveInv, AddsListed, TriesLeft, RoutesFollowHandle,
     MountedIsHandle, vars, liveVars, taskVars, workerVars
<1>2. CASE UpstreamFlips
  <2>1. TasksInv'
    BY <1>2 DEF IInv, TasksInv, AddsListed, TriesLeft, UpstreamFlips, taskVars, workerVars
  <2> QED
    BY <1>2, <2>1, SameLive DEF IInv, Asked, UpstreamFlips, liveVars
<1>3. CASE Restarts
  <2>1. \A t \in Actors : pc'[t] = IF t = Loader THEN "boot" ELSE "idle"
    BY <1>3 DEF Restarts
  <2>2. TasksInv'
    BY <1>3, <2>1, ActorsAssumption, TriesAssumption
    DEF IInv, TasksInv, AddsListed, Restarts, MayStand, Places, Testing, Mounting, Actors
  <2>3. LiveInv'
    BY <1>3 DEF LiveInv, RoutesFollowHandle, MountedIsHandle, Restarts
  <2> QED
    BY <2>1, <2>2, <2>3 DEF IInv, Asked, Actors
<1> QED
  BY <1>1, <1>2, <1>3, LoadsKeep, StartsKeep, ContinuesKeep, MarksKeep, TicksKeep DEF Next

LEMMA Invariance == Spec => []IInv
<1>1. IInv /\ [Next]_vars => IInv'
  BY ManagerStep
<1> QED
  BY <1>1, ManagerInit, PTL DEF Spec

\* Whatever ProxyManager does, the fields it keeps for a proxy have their types, and the worker
\* never counts past its attempts.
THEOREM ManagerTyping == Spec => []TypeOK
<1>1. IInv => TypeOK
  BY DEF IInv, TasksInv, LiveInv, TypeOK, Places, RoutesFollowHandle
<1> QED
  BY <1>1, Invariance, PTL

\* A description update or a reindex that emits after an unmount or a remount never brings
\* routes of another provider back.
THEOREM RoutesFollow == Spec => []RoutesFollowHandle
<1>1. IInv => RoutesFollowHandle
  BY DEF IInv, LiveInv
<1> QED
  BY <1>1, Invariance, PTL

\* However mounts, tests and marks overlap, one provider of an OAuth proxy is mounted at most,
\* the one in _active_handles.
THEOREM OneProviderMounted == Spec => []MountedIsHandle
<1>1. IInv => MountedIsHandle
  BY DEF IInv, LiveInv
<1> QED
  BY <1>1, Invariance, PTL

\* The live handle goes with its own _mark_unavailable, when an operator disables or removes the
\* proxy, or with the process; a mark that comes late for a replaced provider takes nothing down.
THEOREM ServedUntilAskedFor == Spec => ServedUntilAsked
<1>1. IInv /\ [Next]_vars => [Asked]_vars
  BY ManagerStep
<1> QED
  BY <1>1, Invariance, PTL DEF Spec, ServedUntilAsked, Asked

---------------------------------------------------------------------------------
(* Reconnects and marks. Enables and adds mount without _proxy_lock, so they are left out. *)

MarkInv ==
  /\ NoReconnectUnderMark
  /\ \A p \in Providers : mark[p] = "write" =>
       \A t \in Actors : pc[t] \notin {"test_list", "test_mount"}
  /\ \A p \in Providers : mark[p] # "none" => Loaded
  /\ \A t \in Tasks : pc[t] \notin {"mount_list", "add_insert", "add_list"}

\* A step that leaves handle and marks alone, of an actor that begins no mount.
LEMMA CalmTurn ==
  ASSUME IInv, MarkInv, NEW t \in Actors, NEW where, Turn(t, where),
         where \notin {"test_list", "mount_list", "add_insert", "add_list"},
         where = "test_mount" => pc[t] = "test_list",
         t = Loader => where = "idle" \/ \A p \in Providers : mark[p] = "none",
         mark' = mark, handle' \in {handle, None}
  PROVE  MarkInv'
<1>1. \A u \in Actors : pc'[u] = pc[u] \/ (u = t /\ pc'[u] = where)
  BY DEF Turn
<1>2. NoReconnectUnderMark'
  BY DEF MarkInv, NoReconnectUnderMark
<1>3. \A p \in Providers : mark[p] = "write" =>
        \A u \in Actors : pc'[u] \notin {"test_list", "test_mount"}
  BY <1>1 DEF MarkInv
<1>4. \A p \in Providers : mark[p] # "none" => Loaded'
  <2>1. Loader \in Actors
    BY DEF Actors
  <2> QED
    BY <1>1, <2>1 DEF MarkInv, Loaded
<1>5. \A u \in Tasks : pc'[u] \notin {"mount_list", "add_insert", "add_list"}
  BY <1>1 DEF MarkInv, Actors
<1> QED
  BY <1>2, <1>3, <1>4, <1>5 DEF MarkInv

\* While no mark is being written, a test may begin and mount.
LEMMA UnwrittenTurn ==
  ASSUME IInv, MarkInv, NEW t \in Actors \ {Loader}, NEW where, Turn(t, where),
         where \notin {"mount_list", "add_insert", "add_list"},
         mark' = mark, \A p \in Providers : mark[p] # "write"
  PROVE  MarkInv'
<1>1. pc'[Loader] = pc[Loader]
  BY DEF Turn, Actors
<1>2. \A u \in Tasks : pc'[u] \notin {"mount_list", "add_insert", "add_list"}
  BY DEF MarkInv, Turn, Actors
<1> QED
  BY <1>1, <1>2 DEF MarkInv, Loaded, NoReconnectUnderMark

\* Until the boot task is over nothing is marked.
LEMMA LoaderTurn ==
  ASSUME IInv, MarkInv, NEW where, Turn(Loader, where), pc[Loader] # "idle", mark' = mark
  PROVE  MarkInv'
<1>1. \A p \in Providers : mark'[p] = "none"
  BY DEF MarkInv, Loaded
<1>2. \A u \in Tasks : pc'[u] \notin {"mount_list", "add_insert", "add_list"}
  BY ActorsAssumption DEF MarkInv, Turn, Actors
<1> QED
  BY <1>1, <1>2 DEF MarkInv, NoReconnectUnderMark

LEMMA LoaderMarks ==
  ASSUME IInv, MarkInv, LoadPersisted \/ (\E t \in Actors : MountLists(t))
  PROVE  MarkInv'
<1>1. Loader \in Actors /\ TasksInv
  BY DEF Actors, IInv
<1>2. CASE LoadPersisted
  <2>1. Ends(Loader) \/ \E p \in Providers : Holds(Loader, p, "mount_list")
    BY <1>2 DEF LoadPersisted, BuildsForMount, Fresh
  <2>2. \E where \in Places : Turn(Loader, where)
    BY <1>1, <2>1, EndsTurn, HoldsTurn DEF Places
  <2> QED
    BY <1>2, <2>2, LoaderTurn DEF LoadPersisted
<1>3. CASE \E t \in Actors : MountLists(t)
  <2>1. PICK t \in Actors : MountLists(t)
    BY <1>3
  <2>2. t = Loader
    BY <1>1, <2>1 DEF MarkInv, MountLists, TasksInv, MayStand, Testing, Actors
  <2>3. \E where \in Places : Turn(Loader, where)
    BY <1>1, <2>1, <2>2, EndsTurn, GoesTurn DEF MountLists, Places
  <2> QED
    BY <2>1, <2>2, <2>3, LoaderTurn DEF MountLists
<1> QED
  BY <1>2, <1>3

LEMMA StartsMarks ==
  ASSUME IInv, MarkInv, Kinds \cap {"enable", "add"} = {}, NEW t \in Tasks, Starts(t)
  PROVE  MarkInv'
<1>1. t \in Actors /\ t # Loader /\ TasksInv /\ handle \in Providers \cup {None}
  BY ActorsAssumption DEF Actors, IInv, LiveInv
<1>2. Disables(t) \/ Tests(t) \/ RemoveDeletes(t) \/ Describes(t)
  BY DEF Starts
<1>3. /\ mark' = mark /\ handle' \in {handle, None}
      /\ \/ \E where \in {"disable_write", "test_wait", "remove_unmount"} : Goes(t, where)
         \/ Holds(t, handle, "describe_list")
  BY <1>2 DEF Disables, Tests, RemoveDeletes, Describes, Withdraws, liveVars
<1>4. \E where \in {"disable_write", "test_wait", "remove_unmount", "describe_list"} :
        Turn(t, where)
  BY <1>1, <1>3, GoesTurn, HoldsTurn DEF Places
<1> QED
  BY <1>1, <1>3, <1>4, CalmTurn

LEMMA ContinuesMarks ==
  ASSUME IInv, MarkInv, NEW t \in Actors, Continues(t)
  PROVE  MarkInv'
<1>1. TasksInv /\ MayStand(t, pc[t])
  BY DEF IInv, TasksInv
<1>2. CASE MountLists(t)
  BY <1>2, LoaderMarks
<1>3. CASE TestReads(t) \/ TestMounts(t)
  <2>1. t # Loader
    BY <1>1, <1>3 DEF MayStand, TestReads, TestMounts
  <2>2. mark' = mark /\ \A p \in Providers : mark[p] # "write"
    BY <1>3 DEF TestReads, TestMounts, ProxyLocked, MarkInv
  <2>3. Ends(t) \/ \E p \in Providers : Holds(t, p, "test_list")
    BY <1>3 DEF TestReads, TestMounts, TestEnds, Fresh
  <2>4. \E where \in {"idle", "test_list"} : Turn(t, where)
    BY <1>1, <2>3, EndsTurn, HoldsTurn DEF Places
  <2> QED
    BY <2>1, <2>2, <2>4, UnwrittenTurn
<1>4. CASE AddInserts(t) \/ AddLists(t)
  BY <1>1, <1>4 DEF AddInserts, AddLists, MarkInv, MayStand, Testing, Actors
<1>5. CASE TestCommits(t) \/ DescribeLists(t)
  <2>1. t # Loader /\ mark' = mark /\ handle' = handle
    BY <1>1, <1>5 DEF MayStand, TestCommits, DescribeLists, liveVars
  <2>2. Ends(t) \/ (Goes(t, "test_mount") /\ pc[t] = "test_list") \/ Goes(t, "describe_emit")
    BY <1>5 DEF TestCommits, DescribeLists, TestEnds
  <2>3. \/ Turn(t, "idle") \/ Turn(t, "describe_emit")
        \/ Turn(t, "test_mount") /\ pc[t] = "test_list"
    BY <1>1, <2>2, EndsTurn, GoesTurn DEF Places
  <2> QED
    BY <2>1, <2>3, CalmTurn
<1>6. CASE \/ MountWrites(t) \/ EnableWrites(t) \/ DisableWrites(t) \/ TestFails(t)
           \/ AddWrites(t) \/ RemoveUnmounts(t) \/ DescribeEmits(t)
  <2>1. mark' = mark /\ handle' \in {handle, None} /\ Ends(t)
    BY <1>6 DEF MountWrites, EnableWrites, DisableWrites, TestFails, AddWrites, RemoveUnmounts,
       DescribeEmits, TestEnds, Withdraws, liveVars
  <2> QED
    BY <1>1, <2>1, EndsTurn, CalmTurn
<1> QED
  BY <1>2, <1>3, <1>4, <1>5, <1>6 DEF Continues

\* _mark_unavailable writes "error" under the lock that tests mount under.
LEMMA MarksMarks ==
  ASSUME IInv, MarkInv, NEW p \in Providers, Exhausts(p) \/ Marks(p)
  PROVE  MarkInv'
<1>1. mark \in [Providers -> {"none", "wait", "write"}] /\ pc' = pc
  BY DEF IInv, TasksInv, Exhausts, Marks, MarkRuns, MarkWrites, taskVars
<1>2. CASE Exhausts(p)
  BY <1>1, <1>2 DEF Exhausts, MarkInv, NoReconnectUnderMark, Loaded, liveVars
<1>3. CASE MarkRuns(p)
  <2>1. Loaded /\ \A t \in Actors : pc[t] \notin {"test_list", "test_mount"}
    BY <1>3 DEF MarkRuns, MarkInv, ProxyLocked
  <2>2. NoReconnectUnderMark'
    BY <1>1, <1>3 DEF MarkRuns, MarkInv, NoReconnectUnderMark, Withdraws, ProxyLocked, liveVars
  <2> QED
    BY <1>1, <2>1, <2>2 DEF MarkInv, Loaded
<1>4. CASE MarkWrites(p)
  BY <1>1, <1>4 DEF MarkWrites, MarkInv, NoReconnectUnderMark, Loaded, liveVars
<1> QED
  BY <1>2, <1>3, <1>4 DEF Marks

LEMMA TicksMarks ==
  ASSUME IInv, MarkInv, Ticks
  PROVE  MarkInv'
<1>1. mark' = mark /\ handle' = handle /\ Worker \in Actors /\ TasksInv
  BY DEF Ticks, TickForgets, TickFirstSees, TickTests, DelayPasses, liveVars, Actors, IInv
<1>2. CASE TickTests
  BY <1>1, <1>2, ActorsAssumption, GoesTurn, CalmTurn DEF TickTests, Places
<1>3. CASE pc' = pc
  BY <1>1, <1>3 DEF MarkInv, NoReconnectUnderMark, Loaded
<1> QED
  BY <1>2, <1>3 DEF Ticks, TickForgets, TickFirstSees, DelayPasses, taskVars

LEMMA MarkStep ==
  ASSUME IInv, MarkInv, Kinds \cap {"enable", "add"} = {}, [Next]_vars
  PROVE  MarkInv'
<1>1. CASE UNCHANGED vars \/ UpstreamFlips
  BY <1>1 DEF MarkInv, NoReconnectUnderMark, Loaded, vars, UpstreamFlips, liveVars, taskVars
<1>2. CASE Restarts
  BY <1>2, ActorsAssumption DEF Restarts, MarkInv, NoReconnectUnderMark, Actors
<1> QED
  BY <1>1, <1>2, LoaderMarks, StartsMarks, ContinuesMarks, MarksMarks, TicksMarks DEF Next

\* When neither enable_proxy nor add_proxy runs, which mount without _proxy_lock, no reconnect
\* gets between the unmount of _mark_unavailable and its "error", whatever else overlaps.
THEOREM NoReconnectsUnderMarks ==
  ASSUME Kinds \cap {"enable", "add"} = {}
  PROVE  Spec => []NoReconnectUnderMark
<1>1. Init => MarkInv
  BY ActorsAssumption DEF Init, MarkInv, NoReconnectUnderMark, Actors
<1>2. IInv /\ MarkInv /\ [Next]_vars => MarkInv'
  BY MarkStep
<1>3. MarkInv => NoReconnectUnderMark
  BY DEF MarkInv
<1> QED
  BY <1>1, <1>2, <1>3, Invariance, PTL DEF Spec

---------------------------------------------------------------------------------
(* Rows and mounts. In instances without enables and adds a row that says active is *)
(* served, or somebody is about to see to it.                                       *)

\* What a statement leaves of the row: a deleted row stays deleted.
LEMMA RewrittenStatus ==
  ASSUME row \in Rows, NEW i, NEW s
  PROVE  /\ Rewritten(i, s) = row \/ Rewritten(i, s).status = s
         /\ HasRow /\ row.id = i => Rewritten(i, s).status = s
         /\ ~(HasRow /\ row.id = i) => Rewritten(i, s) = row
         /\ ~HasRow => Rewritten(i, s) = row
         /\ Rewritten(i, s).id = row.id
BY DEF Rewritten, Rows

SomeoneWill ==
  \/ pc[Loader] \in {"boot", "mount_list"}
  \/ \E t \in Actors : pc[t] \in {"test_mount", "disable_write"}
  \/ \E p \in Providers : mark[p] = "write"

ServedInv ==
  /\ row.status = "active" /\ handle = None => SomeoneWill
  /\ pc[Loader] \in {"boot", "mount_list"} => handle = None
  /\ pc[Loader] = "mount_list" => seen[Loader].id = row.id
  /\ pc[Loader] = "mount_write" => handle # None
  /\ ~Loaded => \A t \in Actors \ {Loader} : pc[t] = "idle"
  /\ \A t \in Actors : pc[t] = "remove_unmount" => ~HasRow
  /\ \A t \in Tasks : pc[t] \notin {"mount_write", "enable_write", "add_write"}

\* A step after boot that leaves the row and the handle as they were, or the row inactive or
\* the handle in place, by an actor nobody relies on.
LEMMA ServedTurn ==
  ASSUME IInv, ServedInv, Loaded, NEW t \in Actors \ {Loader}, NEW where, Turn(t, where),
         where \notin {"remove_unmount", "mount_write", "enable_write", "add_write"},
         mark' = mark, HasRow' => HasRow,
         \/ /\ row'.status = row.status /\ handle' = handle
            /\ pc[t] \notin {"test_mount", "disable_write"}
         \/ row'.status # "active"
         \/ handle' # None
         \/ where \in {"test_mount", "disable_write"}
  PROVE  ServedInv'
<1>1. Loader \in Actors /\ pc'[Loader] = pc[Loader] /\ Loaded'
  BY DEF Actors, Turn, Loaded
<1>2. pc'[Loader] = "idle"
  BY <1>1 DEF Loaded
<1>3. \A u \in Actors \ {t} : pc'[u] = pc[u]
  BY DEF Turn
<1>4. pc'[t] = where
  BY DEF Turn
<1>5. (row.status = "active" /\ handle = None => SomeoneWill)'
  <2>1. CASE row'.status = row.status /\ handle' = handle
             /\ pc[t] \notin {"test_mount", "disable_write"}
    BY <1>1, <1>2, <1>3, <2>1 DEF ServedInv, SomeoneWill
  <2>2. CASE where \in {"test_mount", "disable_write"}
    BY <1>4, <2>2 DEF SomeoneWill
  <2> QED
    BY <2>1, <2>2
<1>6. (\A u \in Actors : pc[u] = "remove_unmount" => ~HasRow)'
  BY <1>3, <1>4 DEF ServedInv
<1>7. (\A u \in Tasks : pc[u] \notin {"mount_write", "enable_write", "add_write"})'
  BY <1>3, <1>4 DEF ServedInv, Actors
<1> QED
  BY <1>1, <1>2, <1>5, <1>6, <1>7 DEF ServedInv

LEMMA LoadsServed ==
  ASSUME IInv, MarkInv, ServedInv, ~row.oauth, LoadPersisted
  PROVE  ServedInv'
<1>1. TasksInv /\ Loader \in Actors /\ handle' = handle /\ row' = row /\ mark' = mark
  BY DEF IInv, LoadPersisted, Actors, liveVars
<1>2. handle = None /\ ~Loaded
  BY DEF LoadPersisted, ServedInv, Loaded
<1>3. CASE row.status = "active"
  <2>1. PICK p \in Providers : Holds(Loader, p, "mount_list")
    BY <1>3 DEF LoadPersisted, BuildsForMount, Fresh
  <2>2. Turn(Loader, "mount_list") /\ seen'[Loader] = row
    BY <1>1, <2>1, HoldsTurn DEF Places, Holds, TasksInv
  <2> QED
    BY <1>1, <1>2, <2>2, ActorsAssumption
    DEF ServedInv, SomeoneWill, Turn, Loaded, HasRow, Actors
<1>4. CASE row.status # "active"
  <2>1. Turn(Loader, "idle")
    BY <1>1, <1>4, EndsTurn DEF LoadPersisted
  <2> QED
    BY <1>1, <1>2, <1>4, <2>1, ActorsAssumption
    DEF ServedInv, SomeoneWill, Turn, Loaded, HasRow, Actors
<1> QED
  BY <1>3, <1>4

\* Without enables the boot task is the only one that mounts a row.
LEMMA MountsServed ==
  ASSUME IInv, MarkInv, ServedInv, NEW t \in Actors, MountLists(t) \/ MountWrites(t)
  PROVE  ServedInv'
<1>1. TasksInv /\ row \in Rows /\ mark' = mark
  BY DEF IInv, TasksInv, MountLists, MountWrites
<1>2. t = Loader
  BY <1>1 DEF MarkInv, ServedInv, MountLists, MountWrites, TasksInv, MayStand, Testing, Actors
<1>3. ~Loaded /\ Loader \in Actors
  BY <1>2 DEF MountLists, MountWrites, Loaded
<1>4. HasRow' => HasRow
  BY <1>1, RewrittenStatus DEF MountLists, MountWrites, UpdateById, HasRow
<1>5. CASE MountLists(t) /\ up
  <2>1. Turn(Loader, "mount_write") /\ row' = row
    BY <1>1, <1>2, <1>5, GoesTurn DEF MountLists, Places
  <2>2. prov[Loader] \in Providers /\ handle' = prov[Loader]
    BY <1>2, <1>3, <1>5 DEF MountLists, IInv, TasksInv, Mounting, Replaces, Installs
  <2> QED
    BY <1>3, <1>4, <2>1, <2>2, NoneAssumption, ActorsAssumption
    DEF ServedInv, SomeoneWill, Turn, Loaded, Actors
<1>6. CASE MountLists(t) /\ ~up
  <2>1. Turn(Loader, "idle") /\ row' = Rewritten(row.id, "error")
    BY <1>1, <1>2, <1>6, EndsTurn DEF MountLists, UpdateById, ServedInv
  <2>2. row'.status # "active"
    BY <1>1, <2>1, RewrittenStatus DEF HasRow
  <2> QED
    BY <1>3, <1>4, <2>1, <2>2, ActorsAssumption
    DEF ServedInv, SomeoneWill, Turn, Loaded, Actors
<1>7. CASE MountWrites(t)
  <2>1. Turn(Loader, "idle") /\ handle' = handle /\ handle # None
    BY <1>1, <1>2, <1>7, EndsTurn DEF MountWrites, ServedInv, liveVars
  <2> QED
    BY <1>3, <1>4, <2>1, ActorsAssumption
    DEF ServedInv, SomeoneWill, Turn, Loaded, Actors
<1> QED
  BY <1>5, <1>6, <1>7

LEMMA StartsServed ==
  ASSUME IInv, MarkInv, ServedInv, Kinds \cap {"enable", "add"} = {}, NEW t \in Tasks, Starts(t)
  PROVE  ServedInv'
<1>1. /\ t \in Actors \ {Loader} /\ TasksInv /\ row \in Rows
      /\ handle \in Providers \cup {None}
  BY ActorsAssumption DEF Actors, IInv, LiveInv, TasksInv
<1>2. Disables(t) \/ Tests(t) \/ RemoveDeletes(t) \/ Describes(t)
  BY DEF Starts
<1>3. Loaded /\ pc[t] = "idle" /\ mark' = mark
  BY <1>2 DEF Disables, Tests, RemoveDeletes, Describes, Idle
<1>4. CASE Disables(t)
  <2>1. Turn(t, "disable_write") /\ row' = row
    BY <1>1, <1>4, GoesTurn DEF Disables, Places
  <2> QED
    BY <1>1, <1>3, <2>1, ServedTurn DEF HasRow
<1>5. CASE Tests(t) \/ Describes(t)
  <2>1. row' = row /\ handle' = handle
    BY <1>5 DEF Tests, Describes, liveVars
  <2>2. \E where \in {"test_wait", "describe_list"} : Turn(t, where)
    BY <1>1, <1>5, GoesTurn, HoldsTurn DEF Tests, Describes, Places
  <2> QED
    BY <1>1, <1>3, <2>1, <2>2, ServedTurn DEF HasRow
<1>6. CASE RemoveDeletes(t)
  <2>1. Turn(t, "remove_unmount") /\ row'.status = "gone"
    BY <1>1, <1>6, GoesTurn, RewrittenStatus DEF RemoveDeletes, UpdateByName, Places
  <2>2. pc'[Loader] = "idle" /\ Loader \in Actors
    BY <1>1, <1>3, <2>1 DEF Turn, Loaded, Actors
  <2>3. (\A u \in Tasks : pc[u] \notin {"mount_write", "enable_write", "add_write"})'
    BY <1>1, <2>1 DEF ServedInv, Turn, Actors
  <2> QED
    BY <2>1, <2>2, <2>3 DEF ServedInv, Loaded, HasRow
<1> QED
  BY <1>2, <1>4, <1>5, <1>6

LEMMA TestingServed ==
  ASSUME IInv, MarkInv, ServedInv, NEW t \in Actors,
         TestReads(t) \/ TestCommits(t) \/ TestMounts(t) \/ TestFails(t)
  PROVE  ServedInv'
<1>1. TasksInv /\ row \in Rows /\ mark' = mark /\ pc[t] \in Testing /\ MayStand(t, pc[t])
  BY DEF IInv, TasksInv, TestReads, TestCommits, TestMounts, TestFails, Testing
<1>2. t \in Actors \ {Loader} /\ Loaded
  BY <1>1 DEF MayStand, Testing, ServedInv
<1>3. HasRow' => HasRow
  BY <1>1, RewrittenStatus
  DEF TestReads, TestCommits, TestMounts, TestFails, CommitStatus, HasRow
<1>4. CASE TestReads(t)
  <2>1. \E where \in {"idle", "test_list"} : Turn(t, where)
    BY <1>1, <1>4, EndsTurn, HoldsTurn DEF TestReads, TestEnds, Fresh, Places
  <2>2. row' = row /\ handle' = handle /\ pc[t] = "test_wait"
    BY <1>4 DEF TestReads, liveVars
  <2> QED
    BY <1>1, <1>2, <1>3, <2>1, <2>2, ServedTurn
<1>5. CASE TestCommits(t) /\ Goes(t, "test_mount")
  <2>1. Turn(t, "test_mount")
    BY <1>1, <1>5, GoesTurn DEF Places
  <2> QED
    BY <1>1, <1>2, <1>3, <2>1, ServedTurn
<1>6. CASE TestCommits(t) /\ ~(HasRow /\ row.id = seen[t].id) /\ TestEnds(t, FALSE)
  <2>1. Turn(t, "idle")
    BY <1>1, <1>6, EndsTurn DEF TestEnds
  <2>2. row' = row /\ handle' = handle /\ pc[t] = "test_list"
    BY <1>1, <1>6, RewrittenStatus DEF TestCommits, CommitStatus, liveVars
  <2> QED
    BY <1>1, <1>2, <1>3, <2>1, <2>2, ServedTurn
<1>7. CASE TestMounts(t)
  <2>1. Turn(t, "idle")
    BY <1>1, <1>7, EndsTurn DEF TestMounts, TestEnds
  <2>2. prov[t] \in Providers /\ handle' = prov[t]
    BY <1>1, <1>7 DEF TestMounts, TasksInv, Mounting, Replaces, Installs
  <2> QED
    BY <1>1, <1>2, <1>3, <2>1, <2>2, NoneAssumption, ServedTurn
<1>8. CASE TestFails(t)
  <2>1. Turn(t, "idle") /\ handle' = handle /\ pc[t] = "test_list"
    BY <1>1, <1>8, EndsTurn DEF TestFails, TestEnds, liveVars
  <2>2. row'.status = row.status \/ row'.status = "error"
    BY <1>1, <1>8, RewrittenStatus DEF TestFails, CommitStatus
  <2> QED
    BY <1>1, <1>2, <1>3, <2>1, <2>2, ServedTurn
<1> QED
  BY <1>4, <1>5, <1>6, <1>7, <1>8 DEF TestCommits

LEMMA ContinuesServed ==
  ASSUME IInv, MarkInv, ServedInv, NEW t \in Actors, Continues(t)
  PROVE  ServedInv'
<1>1. TasksInv /\ row \in Rows /\ MayStand(t, pc[t])
  BY DEF IInv, TasksInv
<1>2. CASE MountLists(t) \/ MountWrites(t)
  BY <1>2, MountsServed
<1>3. CASE TestReads(t) \/ TestCommits(t) \/ TestMounts(t) \/ TestFails(t)
  BY <1>3, TestingServed
<1>4. CASE EnableWrites(t) \/ AddInserts(t) \/ AddLists(t) \/ AddWrites(t)
  BY <1>1, <1>4 DEF EnableWrites, AddInserts, AddLists, AddWrites, MarkInv, ServedInv, MayStand,
     Testing, Actors
<1>5. CASE DisableWrites(t) \/ RemoveUnmounts(t) \/ DescribeLists(t) \/ DescribeEmits(t)
  <2>1. t \in Actors \ {Loader} /\ Loaded
    BY <1>1, <1>5 DEF DisableWrites, RemoveUnmounts, DescribeLists, DescribeEmits, MayStand,
       ServedInv
  <2>2. mark' = mark /\ \E where \in {"idle", "describe_emit"} : Turn(t, where)
    BY <1>1, <1>5, EndsTurn, GoesTurn
    DEF DisableWrites, RemoveUnmounts, DescribeLists, DescribeEmits, Places
  <2>3. HasRow' => HasRow
    BY <1>1, <1>5, RewrittenStatus
    DEF DisableWrites, RemoveUnmounts, DescribeLists, DescribeEmits, UpdateByName, HasRow
  <2>4. CASE DisableWrites(t)
    <3>1. row'.status # "active"
      BY <1>1, <2>4, RewrittenStatus DEF DisableWrites, UpdateByName, HasRow
    <3> QED
      BY <2>1, <2>2, <2>3, <3>1, ServedTurn
  <2>5. CASE RemoveUnmounts(t)
    <3>1. row'.status # "active"
      BY <2>5 DEF RemoveUnmounts, ServedInv, HasRow
    <3> QED
      BY <2>1, <2>2, <2>3, <3>1, ServedTurn
  <2>6. CASE DescribeLists(t) \/ DescribeEmits(t)
    <3>1. row' = row /\ handle' = handle /\ pc[t] \in {"describe_list", "describe_emit"}
      BY <2>6 DEF DescribeLists, DescribeEmits, liveVars
    <3> QED
      BY <2>1, <2>2, <2>3, <3>1, ServedTurn
  <2> QED
    BY <1>5, <2>4, <2>5, <2>6
<1> QED
  BY <1>2, <1>3, <1>4, <1>5 DEF Continues

\* The mark owes "error" from its unmount on, and writes it.
LEMMA MarksServed ==
  ASSUME IInv, MarkInv, ServedInv, NEW p \in Providers, Exhausts(p) \/ Marks(p)
  PROVE  ServedInv'
<1>1. /\ mark \in [Providers -> {"none", "wait", "write"}] /\ row \in Rows
      /\ pc' = pc /\ seen' = seen
  BY DEF IInv, TasksInv, Exhausts, Marks, MarkRuns, MarkWrites, taskVars
<1>2. Loaded
  BY DEF Exhausts, Marks, MarkRuns, MarkWrites, MarkInv
<1>3. CASE Exhausts(p) \/ (MarkRuns(p) /\ handle # p)
  <2>1. /\ row' = row /\ handle' = handle
        /\ \A q \in Providers : mark[q] = "write" => mark'[q] = "write"
    BY <1>1, <1>3 DEF Exhausts, MarkRuns, liveVars
  <2> QED
    BY <1>1, <2>1 DEF ServedInv, SomeoneWill, Loaded, HasRow
<1>4. CASE MarkRuns(p) /\ handle = p
  <2>1. row' = row /\ mark'[p] = "write"
    BY <1>1, <1>4 DEF MarkRuns
  <2> QED
    BY <1>1, <1>2, <2>1 DEF ServedInv, SomeoneWill, Loaded, HasRow
<1>5. CASE MarkWrites(p)
  <2>1. row' = Rewritten(row.id, "error") /\ handle' = handle
    BY <1>5 DEF MarkWrites, UpdateByName, liveVars
  <2>2. row'.status # "active" /\ (HasRow' => HasRow)
    BY <1>1, <2>1, RewrittenStatus DEF HasRow
  <2> QED
    BY <1>1, <1>2, <2>1, <2>2 DEF ServedInv, Loaded
<1> QED
  BY <1>3, <1>4, <1>5 DEF Marks

LEMMA ServedStep ==
  ASSUME IInv, MarkInv, ServedInv, Kinds \cap {"enable", "add"} = {}, ~row.oauth, [Next]_vars
  PROVE  ServedInv'
<1>1. CASE UNCHANGED vars \/ UpstreamFlips
  BY <1>1 DEF ServedInv, SomeoneWill, Loaded, HasRow, vars, UpstreamFlips, liveVars, taskVars
<1>2. CASE Restarts
  <2>1. \A t \in Actors : pc'[t] = IF t = Loader THEN "boot" ELSE "idle"
    BY <1>2 DEF Restarts
  <2>2. Loader \in Actors /\ handle' = None
    BY <1>2 DEF Restarts, Actors
  <2> QED
    BY <2>1, <2>2, ActorsAssumption DEF ServedInv, SomeoneWill, Actors
<1>3. CASE Ticks
  <2>1. TasksInv /\ Worker \in Actors \ {Loader} /\ row' = row /\ handle' = handle /\ mark' = mark
    BY <1>3, ActorsAssumption
    DEF IInv, Actors, Ticks, TickForgets, TickFirstSees, TickTests, DelayPasses, liveVars
  <2>2. CASE TickTests
    <3>1. Turn(Worker, "test_wait") /\ Loaded /\ pc[Worker] = "idle"
      BY <2>1, <2>2, GoesTurn DEF TickTests, Idle, Places
    <3> QED
      BY <2>1, <3>1, ServedTurn DEF HasRow
  <2>3. CASE UNCHANGED taskVars
    BY <2>1, <2>3 DEF ServedInv, SomeoneWill, Loaded, HasRow, taskVars
  <2> QED
    BY <1>3, <2>2, <2>3 DEF Ticks, TickForgets, TickFirstSees, DelayPasses
<1> QED
  BY <1>1, <1>2, <1>3, LoadsServed, StartsServed, ContinuesServed, MarksServed DEF Next

\* Whatever tests, reconnects, disables, removals and restarts overlap with the marks, a row that
\* says active is served once nobody is at work. enable_proxy and add_proxy write "active" after
\* their mount, without the lock the mark holds, and load_persisted skips an OAuth proxy without
\* a session: these are left out, and the first of them does break it.
THEOREM ActivesAreServed ==
  ASSUME Kinds \cap {"enable", "add"} = {}, AuthModes = {FALSE}
  PROVE  Spec => []ActiveIsServed
<1>1. Init => MarkInv /\ ServedInv
  BY ActorsAssumption
  DEF Init, MarkInv, NoReconnectUnderMark, ServedInv, SomeoneWill, Loaded, Actors
<1>2. IInv => ~row.oauth
  BY DEF IInv, TasksInv, Rows
<1>3. IInv /\ MarkInv /\ ServedInv /\ [Next]_vars => MarkInv' /\ ServedInv'
  BY <1>2, MarkStep, ServedStep
<1>4. ServedInv => ActiveIsServed
  <2> SUFFICES ASSUME ServedInv, Quiet, row.status = "active", handle = None PROVE FALSE
    BY DEF ActiveIsServed
  <2>1. \A t \in Actors : pc[t] = "idle"
    BY DEF Quiet
  <2> QED
    BY <2>1 DEF ServedInv, SomeoneWill, Quiet, Actors
<1> QED
  BY <1>1, <1>3, <1>4, Invariance, PTL DEF Spec

---------------------------------------------------------------------------------
(* Enables, disables and restarts. While the upstream's failures, tests, adds and removals *)
(* are left out, the row and the mount are written under the plugin lock only.             *)

Toggling == {"enable_write", "mount_list", "mount_write", "disable_write"}

\* What has been done and what is owed at each place of a toggle.
Halfway(t) ==
  /\ pc[t] = "boot" => handle = None
  /\ pc[t] = "mount_list" => handle = None /\ seen[t] = row /\ HasRow
  /\ pc[t] = "mount_write" => handle # None /\ seen[t].id = row.id /\ HasRow
  /\ pc[t] = "enable_write" => handle # None /\ HasRow
  /\ pc[t] = "disable_write" => handle = None

NobodyToggles == \A t \in Actors : pc[t] \notin Toggling \cup {"boot"}

ToggleInv ==
  /\ \A p \in Providers : mark[p] = "none"
  /\ pc[Worker] = "idle"
  /\ \A t \in Tasks : pc[t] \in {"idle", "describe_list", "describe_emit"} \cup Toggling
  /\ ~Loaded => \A t \in Tasks : pc[t] = "idle"
  /\ \A t, u \in Tasks : pc[t] \in Toggling /\ pc[u] \in Toggling => t = u
  /\ \A t \in Actors : Halfway(t)
  /\ NobodyToggles => (row.status = "active" <=> handle # None)

\* Nobody else toggles while t does, or when t takes the lock.
Only(t) == \A u \in Actors \ {t} : pc[u] \notin Toggling \cup {"boot"}

LEMMA ToggleTurn ==
  ASSUME IInv, ToggleInv, NEW t \in Actors, NEW where, Turn(t, where), Only(t), t # Worker,
         t = Loader => where \in {"idle"} \cup Toggling /\ ~Loaded,
         t \in Tasks => where \in {"idle"} \cup Toggling /\ Loaded,
         mark' = mark, Halfway(t)',
         where = "idle" => (row'.status = "active" <=> handle' # None)
  PROVE  ToggleInv'
<1>1. \A u \in Actors \ {t} : pc'[u] = pc[u] /\ pc'[u] \notin Toggling \cup {"boot"}
  BY DEF Turn, Only
<1>2. pc'[t] = where /\ Loader \in Actors /\ Worker \in Actors /\ Tasks \subseteq Actors
  BY DEF Turn, Actors
<1>3. \A u \in Actors : Halfway(u)'
  BY <1>1 DEF Halfway, Toggling
<1>4. NobodyToggles' => (row'.status = "active" <=> handle' # None)
  BY <1>2 DEF NobodyToggles, Actors
<1>5. \A u \in Tasks : pc'[u] \in {"idle", "describe_list", "describe_emit"} \cup Toggling
  BY <1>1, <1>2 DEF ToggleInv
<1>6. ~Loaded' => \A u \in Tasks : pc'[u] = "idle"
  BY <1>1, <1>2, ActorsAssumption DEF ToggleInv, Loaded, Actors
<1>7. \A u, v \in Tasks : pc'[u] \in Toggling /\ pc'[v] \in Toggling => u = v
  BY <1>1, <1>2
<1> QED
  BY <1>1, <1>2, <1>3, <1>4, <1>5, <1>6, <1>7 DEF ToggleInv

\* Who holds the lock is alone, and so is the boot task.
LEMMA HolderIsAlone ==
  ASSUME ToggleInv, NEW t \in Actors,
         pc[t] \in Toggling \cup {"boot"} \/ (t \in Tasks /\ Loaded /\ ~PluginLocked)
  PROVE  Only(t)
<1>1. t # Worker
  BY ActorsAssumption DEF ToggleInv, Toggling
<1>2. ASSUME NEW u \in Actors \ {t}, pc[u] \in Toggling \cup {"boot"} PROVE FALSE
  BY <1>1, <1>2, ActorsAssumption DEF ToggleInv, Loaded, PluginLocked, Toggling, Actors
<1> QED
  BY <1>2 DEF Only

LEMMA BuildsToggle ==
  ASSUME IInv, ToggleInv, NEW t \in Actors, BuildsForMount(t), Only(t), ~row.oauth, HasRow,
         handle = None, t # Worker, t = Loader => ~Loaded, t \in Tasks => Loaded,
         UNCHANGED <<row, liveVars, up, mark, workerVars>>
  PROVE  ToggleInv'
<1>1. TasksInv
  BY DEF IInv
<1>2. PICK p \in Providers : Holds(t, p, "mount_list")
  BY DEF BuildsForMount, Fresh
<1>3. Turn(t, "mount_list") /\ seen'[t] = row
  BY <1>1, <1>2, HoldsTurn DEF Places, Holds, TasksInv
<1>4. Halfway(t)'
  BY <1>3 DEF Halfway, Turn, HasRow, liveVars
<1> QED
  BY <1>3, <1>4, ToggleTurn DEF Toggling

LEMMA LoadsToggle ==
  ASSUME IInv, ToggleInv, ~row.oauth, LoadPersisted
  PROVE  ToggleInv'
<1>1. /\ Loader \in Actors /\ Loader # Worker /\ Loader \notin Tasks /\ ~Loaded /\ Only(Loader)
      /\ TasksInv
  BY HolderIsAlone, ActorsAssumption DEF LoadPersisted, Actors, Loaded, IInv
<1>2. handle = None /\ row' = row /\ handle' = handle /\ mark' = mark
  BY <1>1 DEF ToggleInv, Halfway, LoadPersisted, liveVars
<1>3. CASE row.status = "active"
  BY <1>1, <1>2, <1>3, BuildsToggle DEF LoadPersisted, HasRow
<1>4. CASE row.status # "active"
  <2>1. Turn(Loader, "idle")
    BY <1>1, <1>4, EndsTurn DEF LoadPersisted
  <2> QED
    BY <1>1, <1>2, <1>4, <2>1, ToggleTurn DEF Halfway, Turn
<1> QED
  BY <1>3, <1>4

LEMMA StartsToggle ==
  ASSUME IInv, ToggleInv, ~row.oauth, Kinds \subseteq {"enable", "disable", "describe", "restart"},
         NEW t \in Tasks, Starts(t)
  PROVE  ToggleInv'
<1>1. t \in Actors /\ t # Worker /\ t # Loader /\ TasksInv /\ Loaded /\ pc[t] = "idle"
  BY ActorsAssumption DEF Actors, IInv, Starts, Enables, Disables, Describes, Idle, Tests, Adds,
     RemoveDeletes
<1>2. Enables(t) \/ Disables(t) \/ Describes(t)
  BY DEF Starts
<1>3. CASE Enables(t)
  <2>1. Only(t) /\ row' = row /\ handle' = handle /\ mark' = mark
    BY <1>1, <1>3, HolderIsAlone DEF Enables, liveVars
  <2>2. NobodyToggles
    BY <1>1, <2>1 DEF Only, NobodyToggles, Toggling
  <2>3. CASE handle # None
    <3>1. HasRow
      BY <2>2, <2>3 DEF ToggleInv, HasRow
    <3>2. Turn(t, "enable_write")
      BY <1>1, <1>3, <2>3, HoldsTurn DEF Enables, Places
    <3>3. Halfway(t)'
      BY <2>1, <2>3, <3>1, <3>2 DEF Halfway, Turn, HasRow
    <3> QED
      BY <1>1, <2>1, <3>2, <3>3, ToggleTurn DEF Toggling
  <2>4. CASE handle = None /\ HasRow
    BY <1>1, <1>3, <2>1, <2>4, BuildsToggle DEF Enables
  <2>5. CASE handle = None /\ ~HasRow
    <3>1. Turn(t, "idle")
      BY <1>1, <1>3, <2>5, EndsTurn DEF Enables
    <3> QED
      BY <1>1, <2>1, <2>5, <3>1, ToggleTurn DEF Halfway, Turn, HasRow
  <2> QED
    BY <2>3, <2>4, <2>5
<1>4. CASE Disables(t)
  <2>1. Only(t) /\ handle' = None /\ mark' = mark
    BY <1>1, <1>4, HolderIsAlone DEF Disables, Withdraws
  <2>2. Turn(t, "disable_write")
    BY <1>1, <1>4, GoesTurn DEF Disables, Places
  <2>3. Halfway(t)'
    BY <2>1, <2>2 DEF Halfway, Turn
  <2> QED
    BY <1>1, <2>1, <2>2, <2>3, ToggleTurn DEF Toggling
<1>5. CASE Describes(t)
  <2>1. row' = row /\ handle' = handle /\ mark' = mark /\ handle \in Providers
    BY <1>5 DEF Describes, liveVars, IInv, LiveInv
  <2>2. Turn(t, "describe_list") /\ \A u \in Actors \ {t} : seen'[u] = seen[u]
    BY <1>1, <1>5, <2>1, HoldsTurn DEF Describes, Places, Holds, TasksInv
  <2>3. \A u \in Actors : Halfway(u)'
    BY <2>1, <2>2 DEF ToggleInv, Halfway, Turn, HasRow
  <2>4. NobodyToggles' => NobodyToggles
    BY <1>1, <2>2 DEF NobodyToggles, Turn, Toggling
  <2>5. Loaded' /\ pc'[Worker] = "idle"
    BY <1>1, <2>2 DEF Loaded, Turn, Actors, ToggleInv
  <2>6. \A u \in Tasks : pc'[u] = pc[u] \/ (u = t /\ pc'[u] = "describe_list")
    BY <2>2 DEF Turn, Actors
  <2> QED
    BY <2>1, <2>3, <2>4, <2>5, <2>6 DEF ToggleInv, Toggling
<1> QED
  BY <1>2, <1>3, <1>4, <1>5

LEMMA ContinuesToggle ==
  ASSUME IInv, ToggleInv, NEW t \in Actors, Continues(t)
  PROVE  ToggleInv'
<1>1. TasksInv /\ row \in Rows /\ MayStand(t, pc[t]) /\ pc[t] # "idle" /\ Halfway(t)
  BY DEF IInv, TasksInv, ToggleInv, Continues, MountLists, MountWrites, EnableWrites,
     DisableWrites, TestReads, TestCommits, TestMounts, TestFails, AddInserts, AddLists,
     AddWrites, RemoveUnmounts, DescribeLists, DescribeEmits
<1>2. /\ t # Worker
      /\ t = Loader => ~Loaded /\ pc[t] \in {"boot", "mount_list", "mount_write"}
      /\ t \in Tasks => pc[t] \in {"describe_list", "describe_emit"} \cup Toggling /\ Loaded
  BY <1>1, ActorsAssumption DEF ToggleInv, MayStand, Loaded
<1>3. pc[t] \in {"describe_list", "describe_emit", "boot"} \cup Toggling
  BY <1>2 DEF Actors, Toggling
<1>4. CASE MountLists(t)
  <2>1. Only(t) /\ mark' = mark /\ handle = None /\ seen[t] = row /\ HasRow
    BY <1>1, <1>4, HolderIsAlone DEF MountLists, Halfway, Toggling
  <2>2. CASE up
    <3>1. Turn(t, "mount_write") /\ row' = row /\ seen' = seen
      BY <1>1, <1>4, <2>2, GoesTurn DEF MountLists, Places, Goes
    <3>2. prov[t] \in Providers /\ handle' = prov[t]
      BY <1>1, <1>4, <2>2 DEF MountLists, TasksInv, Mounting, Replaces, Installs
    <3>3. Halfway(t)'
      BY <2>1, <3>1, <3>2, NoneAssumption DEF Halfway, Turn, HasRow
    <3> QED
      BY <1>2, <2>1, <3>1, <3>3, ToggleTurn DEF Toggling
  <2>3. CASE ~up
    <3>1. Turn(t, "idle") /\ row' = Rewritten(row.id, "error") /\ handle' = None
      BY <1>1, <1>4, <2>1, <2>3, EndsTurn DEF MountLists, UpdateById, liveVars
    <3>2. row'.status = "error"
      BY <1>1, <2>1, <3>1, RewrittenStatus
    <3> QED
      BY <1>2, <2>1, <3>1, <3>2, ToggleTurn DEF Halfway, Turn
  <2> QED
    BY <2>2, <2>3
<1>5. CASE MountWrites(t) \/ EnableWrites(t)
  <2>1. Only(t) /\ mark' = mark /\ handle # None /\ HasRow /\ handle' = handle
    BY <1>1, <1>5, HolderIsAlone DEF MountWrites, EnableWrites, Halfway, Toggling, liveVars
  <2>2. Turn(t, "idle") /\ row' = Rewritten(row.id, "active")
    BY <1>1, <1>5, EndsTurn DEF MountWrites, EnableWrites, UpdateById, UpdateByName, Halfway
  <2>3. row'.status = "active"
    BY <1>1, <2>1, <2>2, RewrittenStatus
  <2> QED
    BY <1>2, <2>1, <2>2, <2>3, ToggleTurn DEF Halfway, Turn
<1>6. CASE DisableWrites(t)
  <2>1. Only(t) /\ mark' = mark /\ handle' = None
    BY <1>1, <1>6, HolderIsAlone DEF DisableWrites, Halfway, Toggling, liveVars
  <2>2. Turn(t, "idle") /\ row' = Rewritten(row.id, "inactive")
    BY <1>1, <1>6, EndsTurn DEF DisableWrites, UpdateByName
  <2>3. row'.status # "active"
    BY <1>1, <2>2, RewrittenStatus DEF HasRow
  <2> QED
    BY <1>2, <2>1, <2>2, <2>3, ToggleTurn DEF Halfway, Turn
<1>7. CASE DescribeLists(t) \/ DescribeEmits(t)
  <2>1. row' = row /\ handle' = handle /\ mark' = mark /\ t \in Tasks
    BY <1>2, <1>7 DEF DescribeLists, DescribeEmits, liveVars, Actors
  <2>2. PICK where \in {"idle", "describe_emit"} : Turn(t, where)
    BY <1>1, <1>7, EndsTurn, GoesTurn DEF DescribeLists, DescribeEmits, Places
  <2>3. \A u \in Actors \ {t} : seen'[u] = seen[u]
    BY <1>1, <1>7 DEF DescribeLists, DescribeEmits, Goes, Ends, TasksInv
  <2>4. \A u \in Actors : Halfway(u)'
    BY <2>1, <2>2, <2>3 DEF ToggleInv, Halfway, Turn, HasRow
  <2>5. pc[t] \notin Toggling \cup {"boot"}
    BY <1>7 DEF DescribeLists, DescribeEmits, Toggling
  <2>6. NobodyToggles' => NobodyToggles
    BY <2>2, <2>5 DEF NobodyToggles, Turn
  <2>7. Loaded' /\ pc'[Worker] = "idle"
    BY <1>2, <2>1, <2>2, ActorsAssumption DEF Loaded, Turn, Actors, ToggleInv
  <2>8. \A u \in Tasks : pc'[u] = pc[u] \/ (u = t /\ pc'[u] \in {"idle", "describe_emit"})
    BY <2>2 DEF Turn, Actors
  <2> QED
    BY <2>1, <2>4, <2>6, <2>7, <2>8 DEF ToggleInv, Toggling
<1>8. CASE \/ TestReads(t) \/ TestCommits(t) \/ TestMounts(t) \/ TestFails(t)
           \/ AddInserts(t) \/ AddLists(t) \/ AddWrites(t) \/ RemoveUnmounts(t)
  BY <1>3, <1>8 DEF TestReads, TestCommits, TestMounts, TestFails, AddInserts, AddLists,
     AddWrites, RemoveUnmounts, Toggling
<1> QED
  BY <1>4, <1>5, <1>6, <1>7, <1>8 DEF Continues

LEMMA ToggleStep ==
  ASSUME IInv, ToggleInv, ~row.oauth, Kinds \subseteq {"enable", "disable", "describe", "restart"},
         [Next]_vars
  PROVE  ToggleInv'
<1>1. CASE UNCHANGED vars \/ UpstreamFlips
  BY <1>1 DEF ToggleInv, Halfway, NobodyToggles, Loaded, HasRow, vars, UpstreamFlips, liveVars,
     taskVars
<1>2. CASE Restarts
  <2>1. \A t \in Actors : pc'[t] = IF t = Loader THEN "boot" ELSE "idle"
    BY <1>2 DEF Restarts
  <2>2. handle' = None /\ \A p \in Providers : mark'[p] = "none"
    BY <1>2 DEF Restarts
  <2>3. ~NobodyToggles' /\ \A t \in Actors : Halfway(t)'
    BY <2>1, <2>2 DEF NobodyToggles, Halfway, Actors
  <2> QED
    BY <2>1, <2>2, <2>3, ActorsAssumption DEF ToggleInv, Actors, Toggling
<1>3. ASSUME NEW p \in Providers, Marks(p) PROVE FALSE
  BY <1>3 DEF ToggleInv, Marks, MarkRuns, MarkWrites
<1> QED
  BY <1>1, <1>2, <1>3, LoadsToggle, StartsToggle, ContinuesToggle DEF Next, Ticks

\* However enables, disables, description updates, restarts and outages at mount time overlap,
\* the row says active exactly when the proxy is served, once nobody is at work: the plugin
\* lock covers the mount and its write. Tests, marks and removals do not take that lock.
THEOREM StatusesMatch ==
  ASSUME Kinds \subseteq {"enable", "disable", "describe", "restart"}, AuthModes = {FALSE}
  PROVE  Spec => []StatusMatchesMount
<1>1. Init => ToggleInv
  <2> SUFFICES ASSUME Init PROVE ToggleInv
    OBVIOUS
  <2>1. \A t \in Actors : pc[t] = IF t = Loader THEN "boot" ELSE "idle"
    BY DEF Init
  <2>2. ~NobodyToggles /\ \A t \in Actors : Halfway(t)
    BY <2>1 DEF NobodyToggles, Halfway, Actors, Init
  <2> QED
    BY <2>1, <2>2, ActorsAssumption DEF ToggleInv, Actors, Toggling, Init
<1>2. IInv => ~row.oauth
  BY DEF IInv, TasksInv, Rows
<1>3. IInv /\ ToggleInv /\ [Next]_vars => ToggleInv'
  BY <1>2, ToggleStep
<1>4. ToggleInv => StatusMatchesMount
  BY DEF ToggleInv, StatusMatchesMount, Quiet, NobodyToggles, Toggling
<1> QED
  BY <1>1, <1>3, <1>4, Invariance, PTL DEF Spec
=================================================================================
