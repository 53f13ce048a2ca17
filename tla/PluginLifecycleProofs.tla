-------------------------- MODULE PluginLifecycleProofs --------------------------
(* At rest a loaded plugin serves what the database says and runs its one worker, *)
(* for every number of handlers and of tools. A toggle owes the plugin a reload   *)
(* from its first write until the reload reads the rows, and the lock keeps any   *)
(* other reload from reading between that and the contribution of the routes; the *)
(* same lock covers the stop of the worker, which is up, stopping or down.        *)
EXTENDS PluginLifecycle, FiniteSetTheorems, SequenceTheorems, TLAPS

Rows == [active : BOOLEAN, enabled : SUBSET Tools, hidden : SUBSET Tools]
Served == [known : BOOLEAN, routes : SUBSET Tools, visible : SUBSET Tools, mounted : BOOLEAN]
History == [up : {"loaded", "failed", "down"}, stale : BOOLEAN, reshown : BOOLEAN,
            nudged : SUBSET {"stopping", "unloaded"}]
Places == {"idle", "wants", "enabling", "hiding", "showing", "queued", "stopping", "loading",
           "reading", "ready", "unlocked", "uploading"}
Handler ==
  [pc : Places, kind : {"none", "enable", "disable", "toggle", "upload"}, tool : Tools \cup {None},
   to : {"enabled", "hidden", "disabled", "on", "off"}, read : SUBSET Tools]

\* What the requests hold: only a toggle is on its way to write and show, about its tool.
RequestsOK ==
  /\ db \in Rows
  /\ live \in Served
  /\ seen \in History
  /\ req \in [Requests -> Handler]
  /\ \A r \in Requests : req[r].pc \in {"enabling", "hiding", "showing"} => req[r].tool \in Tools

\* The plugin's lock: who is at work under it stands first in the queue.
LockHeld ==
  /\ queue \in Seq(Requests)
  /\ \A r \in Requests : req[r].pc \in Locked => Holds(r)

\* The toggle has written and no reload has read the rows for it yet.
Owes(r) == \/ req[r].pc \in {"hiding", "showing"}
           \/ req[r].kind = "toggle" /\ req[r].pc \in {"queued", "stopping", "loading"}
Settled == \A r \in Requests : ~Owes(r)

\* The disable has hidden the tools and not unloaded the plugin yet.
Hiding(r) == req[r].kind = "disable" /\ req[r].pc \in {"queued", "stopping"}

\* A plugin that is being unloaded or loaded is in memory, and not loaded before Load says so.
LoadingOK == \A r \in Requests :
  /\ req[r].pc \in {"stopping", "loading", "reading"} => live.known
  /\ req[r].pc \in {"loading", "reading"} => seen.up # "loaded"

KnownIfLoaded == seen.up = "loaded" => live.known

ReadsFresh == \A r \in Requests :
  req[r].pc = "reading" /\ ~seen.stale /\ Settled => req[r].read = Tools \ db.enabled

RoutesFresh == seen.up = "loaded" /\ ~seen.stale /\ Settled => live.routes = db.enabled

VisibleFresh ==
  /\ seen.up = "loaded" /\ ~seen.stale /\ ~seen.reshown /\ Settled
  /\ \A r \in Requests : ~Hiding(r)
  => live.visible = db.enabled \ db.hidden

ServeInv == /\ RequestsOK /\ LockHeld /\ LoadingOK /\ KnownIfLoaded
            /\ ReadsFresh /\ RoutesFresh /\ VisibleFresh

---------------------------------------------------------------------------------
(* Types *)

\* A step that puts one handler in another place, as it was or with what it now holds.
LEMMA Put ==
  ASSUME RequestsOK, NEW r \in Requests, NEW h \in Handler, req' = [req EXCEPT ![r] = h]
  PROVE  /\ req' \in [Requests -> Handler] /\ req'[r] = h
         /\ \A q \in Requests \ {r} : req'[q] = req[q]
BY DEF RequestsOK

LEMMA Moved ==
  ASSUME RequestsOK, NEW r \in Requests, NEW pc \in Places
  PROVE  /\ [req[r] EXCEPT !.pc = pc] \in Handler
         /\ [req[r] EXCEPT !.pc = pc].pc = pc
         /\ [req[r] EXCEPT !.pc = pc].kind = req[r].kind
         /\ [req[r] EXCEPT !.pc = pc].tool = req[r].tool
         /\ [req[r] EXCEPT !.pc = pc].read = req[r].read
<1>1. req[r] \in Handler
  BY DEF RequestsOK
<1> QED
  BY <1>1 DEF Handler

LEMMA IdleTyped == Idle \in Handler /\ Idle.pc = "idle"
BY DEF Idle, Handler, Places

\* What a step of one handler leaves: the others stand where they stood.
Only(r, pc) ==
  /\ req' \in [Requests -> Handler] /\ req'[r].pc = pc
  /\ \A q \in Requests \ {r} : req'[q] = req[q]

LEMMA GoesOnly ==
  ASSUME RequestsOK, NEW r \in Requests, NEW pc \in Places, req' = Goes(r, pc)
  PROVE  /\ Only(r, pc) /\ req'[r].kind = req[r].kind /\ req'[r].read = req[r].read
         /\ req'[r].tool = req[r].tool
<1>1. /\ [req[r] EXCEPT !.pc = pc] \in Handler /\ [req[r] EXCEPT !.pc = pc].pc = pc
      /\ [req[r] EXCEPT !.pc = pc].kind = req[r].kind
      /\ [req[r] EXCEPT !.pc = pc].tool = req[r].tool
      /\ [req[r] EXCEPT !.pc = pc].read = req[r].read
  BY Moved
<1>2. req' = [req EXCEPT ![r] = [req[r] EXCEPT !.pc = pc]]
  BY DEF Goes
<1> HIDE DEF Handler
<1> QED
  BY <1>1, <1>2, Put DEF Only

LEMMA LeavesOnly ==
  ASSUME RequestsOK, NEW r \in Requests, Leaves(r)
  PROVE  Only(r, "idle") \/ Only(r, "unlocked")
<1>1. CASE req[r].kind = "enable"
  <2>1. req' = Goes(r, "unlocked") /\ "unlocked" \in Places
    BY <1>1 DEF Leaves, Places
  <2> QED
    BY <2>1, GoesOnly
<1>2. CASE req[r].kind # "enable"
  <2>1. req' = [req EXCEPT ![r] = Idle] /\ Idle \in Handler /\ Idle.pc = "idle"
    BY <1>2, IdleTyped DEF Leaves
  <2> QED
    BY <2>1, Put DEF Only
<1> QED
  BY <1>1, <1>2

LEMMA ReadsOnly ==
  ASSUME RequestsOK, NEW r \in Requests, NEW pc \in Places, NEW read \in SUBSET Tools,
         req' = [req EXCEPT ![r] = [@ EXCEPT !.pc = pc, !.read = read]]
  PROVE  Only(r, pc) /\ req'[r].kind = req[r].kind /\ req'[r].read = read
<1> DEFINE h == [req[r] EXCEPT !.pc = pc, !.read = read]
<1>1. req[r] \in Handler
  BY DEF RequestsOK
<1>2. h \in Handler /\ h.pc = pc /\ h.kind = req[r].kind /\ h.read = read
  BY <1>1 DEF Handler
<1>3. req' = [req EXCEPT ![r] = h]
  OBVIOUS
<1> HIDE DEF h
<1> QED
  BY <1>2, <1>3, Put DEF Only
---------------------------------------------------------------------------------
LEMMA ServeInit == Init => ServeInv
<1> SUFFICES ASSUME Init PROVE ServeInv
  OBVIOUS
<1>1. PICK active \in BOOLEAN, up \in {"loaded", "failed", "down"}, hidden \in SUBSET Tools,
           enabled \in SUBSET Tools :
        /\ active <=> up # "down"
        /\ db = [active |-> active, enabled |-> enabled, hidden |-> hidden]
        /\ live = [known |-> active, routes |-> IF up = "loaded" THEN enabled ELSE {},
                   visible |-> IF up = "loaded" THEN enabled \ hidden ELSE {},
                   mounted |-> up = "loaded"]
        /\ queue = <<>> /\ req = [r \in Requests |-> Idle]
        /\ seen = [up |-> up, stale |-> FALSE, reshown |-> FALSE, nudged |-> {}]
  BY DEF Init
<1>2. \A r \in Requests : req[r] = Idle
  BY <1>1
<1>3. RequestsOK
  <2>1. Idle \in Handler
    BY IdleTyped
  <2>2. seen \in History
    BY <1>1 DEF History
  <2>3. db \in Rows /\ live \in Served
    BY <1>1 DEF Rows, Served
  <2>4. \A r \in Requests : req[r].pc \notin {"enabling", "hiding", "showing"}
    BY <1>2 DEF Idle
  <2> QED
    BY <1>1, <2>1, <2>2, <2>3, <2>4 DEF RequestsOK, Served, History
<1>4. LockHeld
  BY <1>1, <1>2 DEF LockHeld, Idle, Locked
<1> QED
  BY <1>1, <1>2, <1>3, <1>4 DEF ServeInv, LoadingOK, KnownIfLoaded, ReadsFresh, RoutesFresh,
     VisibleFresh, Idle
\* A handler begins, or queues for the lock.
LEMMA BegunOnly ==
  ASSUME RequestsOK, NEW r \in Requests, NEW pc \in Places,
         NEW kind \in {"none", "enable", "disable", "toggle", "upload"},
         req' = [req EXCEPT ![r] = [Idle EXCEPT !.pc = pc, !.kind = kind]]
  PROVE  Only(r, pc) /\ req'[r].kind = kind
<1> DEFINE h == [Idle EXCEPT !.pc = pc, !.kind = kind]
<1>1. h \in Handler /\ h.pc = pc /\ h.kind = kind
  BY IdleTyped DEF Handler
<1>2. req' = [req EXCEPT ![r] = h]
  OBVIOUS
<1> HIDE DEF h
<1> QED
  BY <1>1, <1>2, Put DEF Only

LEMMA ToggleOnly ==
  ASSUME RequestsOK, NEW r \in Requests, NEW t \in Tools, NEW to \in States,
         AskToggle(r, t, to)
  PROVE  Only(r, "enabling") /\ req'[r].tool = t
<1> DEFINE h == [Idle EXCEPT !.pc = "enabling", !.kind = "toggle", !.tool = t, !.to = to]
<1>1. to \in {"enabled", "hidden", "disabled", "on", "off"} /\ "enabling" \in Places
  BY PluginAssumption DEF Places
<1>2. h \in Handler /\ h.pc = "enabling" /\ h.tool = t
  BY <1>1, IdleTyped DEF Handler
<1>3. req' = [req EXCEPT ![r] = h]
  BY DEF AskToggle
<1> HIDE DEF h
<1> QED
  BY <1>2, <1>3, Put DEF Only

LEMMA TypedOnly ==
  ASSUME RequestsOK, NEW r \in Requests, NEW pc, Only(r, pc),
         db' \in Rows, live' \in Served, seen' \in History,
         pc \in {"enabling", "hiding", "showing"} => req'[r].tool \in Tools
  PROVE  RequestsOK'
BY DEF RequestsOK, Only

---------------------------------------------------------------------------------
(* The lock *)

\* While one handler is first in the queue no other is at work under the lock.
LEMMA Alone ==
  ASSUME LockHeld, NEW r \in Requests, Holds(r)
  PROVE  \A q \in Requests \ {r} : req[q].pc \notin Locked
BY DEF LockHeld, Holds

LEMMA LockKept ==
  ASSUME LockHeld, NEW r \in Requests, NEW pc, Only(r, pc), queue' = queue,
         pc \in Locked => Holds(r)
  PROVE  LockHeld'
BY DEF LockHeld, Holds, Only

LEMMA LockAsked ==
  ASSUME LockHeld, NEW r \in Requests, Only(r, "queued"), queue' = Append(queue, r)
  PROVE  LockHeld'
<1>1. queue' \in Seq(Requests)
  BY DEF LockHeld
<1>2. ASSUME NEW q \in Requests, req'[q].pc \in Locked PROVE Holds(q)'
  <2>1. req'[q] = req[q]
    BY <1>2 DEF Only, Locked
  <2>2. queue # <<>> /\ Head(queue) = q
    BY <1>2, <2>1 DEF LockHeld, Holds
  <2>3. queue' # <<>> /\ Head(queue') = q
    BY <2>2, HeadTailAppend DEF LockHeld
  <2> QED
    BY <2>3 DEF Holds
<1> QED
  BY <1>1, <1>2 DEF LockHeld

LEMMA LockLeft ==
  ASSUME RequestsOK, LockHeld, NEW r \in Requests, Holds(r), Leaves(r)
  PROVE  LockHeld'
<1>1. \A q \in Requests : req'[q].pc \notin Locked
  BY Alone, LeavesOnly DEF Only, Locked
<1>2. queue' \in Seq(Requests)
  BY DEF LockHeld, Holds, Leaves
<1> QED
  BY <1>1, <1>2 DEF LockHeld

---------------------------------------------------------------------------------
(* Three kinds of step *)

\* The plugin is not loaded afterwards, and nobody has read its rows.
LEMMA DownServes ==
  ASSUME ServeInv, RequestsOK', LockHeld', seen'.up # "loaded",
         \A q \in Requests : req'[q].pc # "reading",
         live'.known \/ \A q \in Requests : req'[q].pc \notin {"stopping", "loading"}
  PROVE  ServeInv'
BY DEF ServeInv, LoadingOK, KnownIfLoaded, ReadsFresh, RoutesFresh, VisibleFresh

\* A toggle that has written owes a reload: nothing is claimed of what is served.
LEMMA OwingServes ==
  ASSUME ServeInv, RequestsOK', LockHeld', NEW r \in Requests, Owes(r)',
         NEW pc, Only(r, pc), pc \notin {"stopping", "loading", "reading"},
         live'.known = live.known, seen'.up = seen.up
  PROVE  ServeInv'
<1>1. ~Settled'
  BY DEF Settled
<1>2. LoadingOK' /\ KnownIfLoaded'
  BY DEF ServeInv, LoadingOK, KnownIfLoaded, Only
<1> QED
  BY <1>1, <1>2 DEF ServeInv, ReadsFresh, RoutesFresh, VisibleFresh

\* A step that leaves rows and routes alone, and nobody owes more or less than before. What
\* it shows or hides it owns up to.
Aside ==
  /\ db'.enabled = db.enabled /\ db'.hidden = db.hidden
  /\ live'.known = live.known /\ live'.routes = live.routes
  /\ seen'.up = seen.up /\ seen'.stale = seen.stale
  /\ \A q \in Requests :
       /\ Owes(q)' <=> Owes(q)
       /\ req'[q].pc = "reading" => req[q].pc = "reading" /\ req'[q].read = req[q].read
       /\ req'[q].pc \in {"stopping", "loading"} => live.known
       /\ req'[q].pc = "loading" => req[q].pc = "loading"
  /\ \/ /\ live'.visible = live.visible /\ seen'.reshown = seen.reshown
        /\ \A q \in Requests : Hiding(q) => Hiding(q)' \/ seen.up # "loaded"
     \/ seen'.reshown
     \/ \E q \in Requests : Hiding(q)'

LEMMA AsideServes ==
  ASSUME ServeInv, RequestsOK', LockHeld', Aside
  PROVE  ServeInv'
<1>1. Settled' <=> Settled
  BY DEF Settled, Aside
<1>2. LoadingOK' /\ KnownIfLoaded'
  BY DEF ServeInv, LoadingOK, KnownIfLoaded, Aside
<1>3. ReadsFresh' /\ RoutesFresh'
  BY <1>1 DEF ServeInv, ReadsFresh, RoutesFresh, Aside
<1>4. VisibleFresh'
  BY <1>1 DEF ServeInv, VisibleFresh, Aside
<1> QED
  BY <1>2, <1>3, <1>4 DEF ServeInv

---------------------------------------------------------------------------------
(* The handlers up to the lock *)

LEMMA Outside ==
  ASSUME ServeInv, NEW r \in Requests, NEW pc, Only(r, pc), queue' = queue,
         pc \in {"idle", "wants", "enabling", "uploading"},
         req[r].pc \in {"idle", "wants", "enabling", "uploading", "unlocked"},
         req'[r].pc = "enabling" => req'[r].tool \in Tools,
         db' \in Rows, db'.enabled = db.enabled, db'.hidden = db.hidden,
         live' \in Served, live'.known = live.known, live'.routes = live.routes,
         seen' \in History, seen'.up = seen.up, seen'.stale = seen.stale,
         (live'.visible = live.visible /\ seen'.reshown = seen.reshown) \/ seen'.reshown
  PROVE  ServeInv'
<1>1. RequestsOK'
  BY TypedOnly DEF ServeInv, Only
<1>2. LockHeld'
  BY LockKept DEF ServeInv, Locked
<1>3. \A q \in Requests : /\ Owes(q)' <=> Owes(q)
                          /\ Hiding(q) <=> Hiding(q)'
  BY DEF Only, Owes, Hiding
<1>4. \A q \in Requests :
        /\ req'[q].pc \in {"stopping", "loading", "reading"} => req'[q] = req[q]
        /\ req[q].pc \in {"stopping", "loading", "reading"} => live.known
  BY DEF Only, ServeInv, LoadingOK
<1>5. Aside
  BY <1>3, <1>4 DEF Aside
<1> QED
  BY <1>1, <1>2, <1>5, AsideServes

LEMMA AsksServe ==
  ASSUME ServeInv, NEW r \in Requests, Asks(r)
  PROVE  ServeInv'
<1>0. RequestsOK
  BY DEF ServeInv
<1>1. CASE AskEnable(r) \/ AskDisable(r)
  <2>1. PICK kind \in {"enable", "disable"} :
          req' = [req EXCEPT ![r] = [Idle EXCEPT !.pc = "wants", !.kind = kind]]
    BY <1>1 DEF AskEnable, AskDisable
  <2>2. "wants" \in Places
    BY DEF Places
  <2>3. Only(r, "wants")
    BY <1>0, <2>1, <2>2, BegunOnly
  <2>4. db' \in Rows /\ db'.enabled = db.enabled /\ db'.hidden = db.hidden
    BY <1>0, <1>1 DEF RequestsOK, Rows, AskEnable, AskDisable
  <2> QED
    BY <1>0, <1>1, <2>3, <2>4, Outside DEF AskEnable, AskDisable, RequestsOK, Only
<1>2. CASE Upload(r)
  <2>1. "uploading" \in Places
    BY DEF Places
  <2>2. Only(r, "uploading")
    BY <1>0, <1>2, <2>1, BegunOnly DEF Upload
  <2> QED
    BY <1>0, <1>2, <2>2, Outside DEF Upload, RequestsOK, Only
<1>3. CASE \E t \in Tools, to \in States : AskToggle(r, t, to)
  <2>1. PICK t \in Tools, to \in States : AskToggle(r, t, to)
    BY <1>3
  <2>2. Only(r, "enabling") /\ req'[r].tool = t
    BY <1>0, <2>1, ToggleOnly
  <2> QED
    BY <1>0, <2>1, <2>2, Outside DEF AskToggle, RequestsOK, Only
<1> QED
  BY <1>1, <1>2, <1>3 DEF Asks
LEMMA WritesServe ==
  ASSUME ServeInv, NEW r \in Requests, Writes(r)
  PROVE  ServeInv'
<1>0. RequestsOK /\ LockHeld
  BY DEF ServeInv
<1>1. CASE WriteEnabled(r)
  <2>1. PICK pc \in {"showing", "hiding"} : req' = Goes(r, pc)
    BY <1>1 DEF WriteEnabled
  <2>2. Only(r, pc) /\ req'[r].tool = req[r].tool
    BY <1>0, <2>1, GoesOnly DEF Places
  <2>3. db' \in Rows
    BY <1>0, <1>1 DEF WriteEnabled, RequestsOK, Rows, With
  <2>4. RequestsOK'
    BY <1>0, <1>1, <2>2, <2>3, TypedOnly DEF WriteEnabled, RequestsOK
  <2>5. LockHeld' /\ Owes(r)'
    BY <1>0, <1>1, <2>2, LockKept DEF WriteEnabled, Locked, Owes, Only
  <2> QED
    BY <1>1, <2>2, <2>4, <2>5, OwingServes DEF WriteEnabled
<1>2. CASE WriteHidden(r)
  <2>1. Only(r, "showing") /\ req'[r].tool = req[r].tool
    BY <1>0, <1>2, GoesOnly DEF Places, WriteHidden
  <2>2. db' \in Rows
    BY <1>0, <1>2 DEF WriteHidden, RequestsOK, Rows, With
  <2>3. RequestsOK'
    BY <1>0, <1>2, <2>1, <2>2, TypedOnly DEF WriteHidden, RequestsOK
  <2>4. LockHeld' /\ Owes(r)'
    BY <1>0, <1>2, <2>1, LockKept DEF WriteHidden, Locked, Owes, Only
  <2> QED
    BY <1>2, <2>1, <2>3, <2>4, OwingServes DEF WriteHidden
<1>3. CASE WriteFails(r)
  <2>1. Only(r, "idle")
    BY <1>0, <1>3, IdleTyped, Put DEF Only, WriteFails
  <2>2. seen' \in History /\ seen'.up = seen.up /\ seen'.reshown = seen.reshown
        /\ seen'.stale = (seen.stale \/ req[r].pc = "hiding")
    BY <1>0, <1>3 DEF WriteFails, RequestsOK, History
  <2>3. CASE req[r].pc = "enabling"
    BY <1>0, <1>3, <2>1, <2>2, <2>3, Outside DEF WriteFails, RequestsOK, Only, ServeInv, History
  <2>4. CASE req[r].pc = "hiding"
    <3>1. RequestsOK' /\ LockHeld' /\ seen'.stale
      BY <1>0, <1>3, <2>1, <2>2, <2>4, TypedOnly, LockKept DEF WriteFails, RequestsOK, Locked
    <3>2. LoadingOK' /\ KnownIfLoaded'
      BY <1>3, <2>1, <2>2 DEF ServeInv, LoadingOK, KnownIfLoaded, Only, WriteFails
    <3> QED
      BY <3>1, <3>2 DEF ServeInv, ReadsFresh, RoutesFresh, VisibleFresh
  <2> QED
    BY <1>3, <2>3, <2>4 DEF WriteFails
<1>4. CASE ShowOrHide(r)
  <2>1. Only(r, "queued") /\ req'[r].kind = "toggle"
    BY <1>0, <1>4, BegunOnly DEF ShowOrHide, Waiting, Places
  <2>2. live' \in Served /\ live'.known = live.known
    BY <1>0, <1>4 DEF ShowOrHide, RequestsOK, Served, With, Shown
  <2>3. RequestsOK'
    BY <1>0, <1>4, <2>1, <2>2, TypedOnly DEF ShowOrHide, RequestsOK
  <2>4. LockHeld' /\ Owes(r)'
    BY <1>0, <1>4, <2>1, LockAsked DEF ShowOrHide, Owes, Only
  <2> QED
    BY <1>4, <2>1, <2>2, <2>3, <2>4, OwingServes DEF ShowOrHide
<1>5. CASE Enqueue(r)
  <2>1. req[r].kind \in {"none", "enable", "disable", "toggle", "upload"}
    BY <1>0 DEF RequestsOK, Handler
  <2>2. Only(r, "queued") /\ req'[r].kind = req[r].kind
    BY <1>0, <1>5, <2>1, BegunOnly DEF Enqueue, Waiting, Places
  <2>3. /\ live' \in Served /\ live'.known = live.known /\ live'.routes = live.routes
        /\ req[r].kind # "disable" => live' = live
    BY <1>0, <1>5 DEF Enqueue, RequestsOK, Served
  <2>4. RequestsOK' /\ LockHeld'
    BY <1>0, <1>5, <2>2, <2>3, TypedOnly, LockAsked DEF Enqueue, RequestsOK
  <2>5. CASE req[r].kind = "toggle"
    <3>1. Owes(r)'
      BY <2>2, <2>5 DEF Owes, Only
    <3> QED
      BY <1>5, <2>2, <2>3, <2>4, <3>1, OwingServes DEF Enqueue
  <2>6. CASE req[r].kind # "toggle"
    <3>1. \A q \in Requests : Owes(q)' <=> Owes(q)
      BY <1>5, <2>2, <2>6 DEF Only, Owes, Enqueue
    <3>2. \A q \in Requests : Hiding(q) => Hiding(q)'
      BY <1>5, <2>2 DEF Only, Hiding, Enqueue
    <3>3. req[r].kind = "disable" => Hiding(r)'
      BY <2>2 DEF Hiding, Only
    <3>4. \A q \in Requests :
            /\ req'[q].pc \in {"stopping", "loading", "reading"} => req'[q] = req[q]
            /\ req[q].pc \in {"stopping", "loading", "reading"} => live.known
      BY <2>2 DEF Only, ServeInv, LoadingOK
    <3>5. Aside
      BY <1>5, <2>3, <3>1, <3>2, <3>3, <3>4 DEF Aside, Enqueue
    <3> QED
      BY <2>4, <3>5, AsideServes
  <2> QED
    BY <2>5, <2>6
<1> QED
  BY <1>1, <1>2, <1>3, <1>4, <1>5 DEF Writes

---------------------------------------------------------------------------------
(* Under the lock *)

\* The plugin is not in memory: it is cleaned up, imported, or stays away.
LEMMA UnknownServes ==
  ASSUME ServeInv, NEW r \in Requests,
         CleanUnknown(r) \/ LazyLoad(r) \/ LazyLoadFails(r)
  PROVE  ServeInv'
<1>0. RequestsOK /\ LockHeld /\ Holds(r) /\ req[r].pc = "queued" /\ ~live.known
      /\ seen.up # "loaded"
  BY DEF ServeInv, KnownIfLoaded, CleanUnknown, LazyLoad, LazyLoadFails
<1>1. \A q \in Requests : req[q].pc \notin Locked
  BY <1>0, Alone DEF Locked
<1>2. CASE CleanUnknown(r) \/ LazyLoadFails(r)
  <2>1. Leaves(r) /\ db' = db /\ seen' = seen /\ live' \in Served
    BY <1>0, <1>2 DEF CleanUnknown, LazyLoadFails, RequestsOK, Served
  <2>2. PICK pc \in {"idle", "unlocked"} : Only(r, pc)
    BY <1>0, <2>1, LeavesOnly
  <2>3. RequestsOK' /\ LockHeld'
    BY <1>0, <2>1, <2>2, TypedOnly, LockLeft DEF RequestsOK
  <2>4. \A q \in Requests : req'[q].pc \notin {"stopping", "loading", "reading"}
    BY <1>1, <2>2 DEF Only, Locked
  <2> QED
    BY <1>0, <2>1, <2>3, <2>4, DownServes
<1>3. CASE LazyLoad(r)
  <2>1. Only(r, "loading")
    BY <1>0, <1>3, GoesOnly DEF LazyLoad, Places
  <2>2. live' \in Served /\ live'.known
    BY <1>0, <1>3 DEF LazyLoad, RequestsOK, Served
  <2>3. RequestsOK' /\ LockHeld'
    BY <1>0, <1>3, <2>1, <2>2, TypedOnly, LockKept DEF RequestsOK, LazyLoad
  <2>4. \A q \in Requests : req'[q].pc # "reading"
    BY <1>1, <2>1 DEF Only, Locked
  <2> QED
    BY <1>0, <1>3, <2>2, <2>3, <2>4, DownServes DEF LazyLoad
<1> QED
  BY <1>2, <1>3

\* on_unload awaits the worker: nothing that is served has changed yet.
LEMMA UnloadServes ==
  ASSUME ServeInv, NEW r \in Requests, Unload(r) \/ StopExpires(r)
  PROVE  ServeInv'
<1>0. RequestsOK /\ LockHeld
  BY DEF ServeInv
<1>1. CASE Unload(r)
  <2>1. Only(r, "stopping") /\ req'[r].kind = req[r].kind
    BY <1>0, <1>1, GoesOnly DEF Unload, Places
  <2>2. seen' \in History /\ seen'.up = seen.up /\ seen'.stale = seen.stale
        /\ seen'.reshown = seen.reshown
    BY <1>0, <1>1 DEF Unload, RequestsOK, History
  <2>3. RequestsOK' /\ LockHeld'
    BY <1>0, <1>1, <2>1, <2>2, TypedOnly, LockKept DEF RequestsOK, Unload
  <2>4. \A q \in Requests : /\ Owes(q)' <=> Owes(q)
                            /\ Hiding(q) <=> Hiding(q)'
    BY <1>1, <2>1 DEF Only, Owes, Hiding, Unload
  <2>5. \A q \in Requests :
          /\ req'[q].pc \in {"loading", "reading"} => req'[q] = req[q]
          /\ req'[q].pc \in {"stopping", "loading"} => live.known
    BY <1>1, <2>1 DEF Only, ServeInv, LoadingOK, Unload
  <2>6. Aside
    BY <1>1, <2>2, <2>4, <2>5 DEF Aside, Unload
  <2> QED
    BY <2>3, <2>6, AsideServes
<1>2. CASE StopExpires(r)
  BY <1>2 DEF StopExpires, ServeInv, RequestsOK, LockHeld, Holds, LoadingOK, KnownIfLoaded,
     ReadsFresh, RoutesFresh, VisibleFresh, Settled, Owes, Hiding
<1> QED
  BY <1>1, <1>2

\* The plugin is unloaded, cleanly or not, and a reload goes on to load it.
LEMMA UnloadedServes ==
  ASSUME ServeInv, NEW r \in Requests,
         UnloadAtOnce(r) \/ UnloadEnds(r) \/ UnloadFails(r)
  PROVE  ServeInv'
<1>0. RequestsOK /\ LockHeld /\ Holds(r) /\ live.known
  BY DEF ServeInv, LockHeld, LoadingOK, Locked, UnloadAtOnce, UnloadEnds, UnloadFails
<1>1. PICK up \in {"down", "failed"} :
        /\ db' = db /\ seen' = [seen EXCEPT !.up = up]
        /\ live' \in {Unloaded, [live EXCEPT !.routes = {}]}
        /\ Leaves(r) \/ (req' = Goes(r, "loading") /\ queue' = queue)
  BY DEF UnloadAtOnce, UnloadEnds, UnloadFails, AfterUnload
<1>2. live' \in Served /\ live'.known
  BY <1>0, <1>1 DEF RequestsOK, Served, Unloaded
<1>3. seen' \in History /\ seen'.up # "loaded"
  BY <1>0, <1>1 DEF RequestsOK, History
<1>4. PICK pc \in {"idle", "unlocked", "loading"} : Only(r, pc)
  BY <1>0, <1>1, LeavesOnly, GoesOnly DEF Places
<1>5. RequestsOK'
  BY <1>0, <1>1, <1>2, <1>3, <1>4, TypedOnly DEF RequestsOK
<1>6. LockHeld'
  BY <1>0, <1>1, <1>4, LockKept, LockLeft
<1>7. \A q \in Requests : req'[q].pc # "reading"
  BY <1>0, <1>4, Alone DEF Only, Locked
<1> QED
  BY <1>2, <1>3, <1>5, <1>6, <1>7, DownServes

\* The toggle's debt is paid: its reload has read the rows, under the lock.
LEMMA ReadServes ==
  ASSUME ServeInv, NEW r \in Requests, ReadDisabled(r)
  PROVE  ServeInv'
<1>0. RequestsOK /\ LockHeld /\ Holds(r) /\ live.known /\ seen.up # "loaded"
  BY DEF ServeInv, LockHeld, LoadingOK, Locked, ReadDisabled
<1>1. PICK ok \in BOOLEAN :
        /\ req' = [req EXCEPT ![r] = [@ EXCEPT !.pc = "reading",
                                         !.read = IF ok THEN Tools \ db.enabled ELSE {}]]
        /\ seen' = [seen EXCEPT !.stale = ~ok]
        /\ UNCHANGED <<db, live, queue>>
  BY DEF ReadDisabled
<1> DEFINE read == IF ok THEN Tools \ db.enabled ELSE {}
<1>2. read \in SUBSET Tools /\ "reading" \in Places
  BY DEF Places
<1>3. req' = [req EXCEPT ![r] = [@ EXCEPT !.pc = "reading", !.read = read]]
  BY <1>1
<1>4. Only(r, "reading") /\ req'[r].read = read
  <2> HIDE DEF read
  <2> QED
    BY <1>0, <1>2, <1>3, ReadsOnly
<1>5. seen' \in History /\ seen'.up # "loaded" /\ seen'.stale = ~ok
  BY <1>0, <1>1 DEF RequestsOK, History
<1>6. RequestsOK'
  BY <1>0, <1>1, <1>4, <1>5, TypedOnly DEF RequestsOK
<1>7. LockHeld'
  BY <1>0, <1>1, <1>4, LockKept
<1>8. \A q \in Requests : req'[q].pc \in Locked => q = r
  BY <1>0, <1>4, Alone DEF Only
<1>9. ReadsFresh'
  BY <1>1, <1>4, <1>5, <1>8 DEF ReadsFresh, Locked
<1>10. LoadingOK'
  BY <1>0, <1>1, <1>5 DEF LoadingOK, ServeInv
<1> QED
  BY <1>5, <1>6, <1>7, <1>9, <1>10 DEF ServeInv, KnownIfLoaded, RoutesFresh, VisibleFresh

\* What was read is contributed, or the load fails.
LEMMA LoadServes ==
  ASSUME ServeInv, NEW r \in Requests, Load(r) \/ LoadFails(r)
  PROVE  ServeInv'
<1>0. RequestsOK /\ LockHeld /\ Holds(r) /\ live.known /\ req[r].pc = "reading"
  BY DEF ServeInv, LockHeld, LoadingOK, Locked, Load, LoadFails
<1>1. Only(r, "ready") /\ req'[r].kind = req[r].kind
  <2>1. "ready" \in Places /\ {} \in SUBSET Tools
    BY DEF Places
  <2>2. req' = [req EXCEPT ![r] = [@ EXCEPT !.pc = "ready", !.read = {}]]
    BY DEF Load, LoadFails
  <2> QED
    BY <1>0, <2>1, <2>2, ReadsOnly
<1>2. LockHeld'
  BY <1>0, <1>1, LockKept DEF Load, LoadFails
<1>3. \A q \in Requests : req'[q].pc \notin {"stopping", "loading", "reading"}
  BY <1>0, <1>1, Alone DEF Only, Locked
<1>4. CASE Load(r)
  <2>1. PICK ok \in BOOLEAN :
          /\ live' = [live EXCEPT !.routes = Kept(req[r].read), !.mounted = TRUE,
                          !.visible = Listed(req[r].read, IF ok THEN db.hidden ELSE {})]
          /\ seen' = [seen EXCEPT !.up = "loaded", !.stale = @ \/ ~ok, !.reshown = FALSE]
    BY <1>4 DEF Load
  <2>2. /\ live' \in Served /\ live'.known
        /\ live'.routes = Tools \ req[r].read
        /\ ok => live'.visible = Tools \ (req[r].read \cup db.hidden)
    BY <1>0, <2>1 DEF RequestsOK, Served, Rows, Kept, Listed
  <2>3. seen' \in History /\ seen'.stale = (seen.stale \/ ~ok)
    BY <1>0, <2>1 DEF RequestsOK, History
  <2>4. RequestsOK'
    BY <1>0, <1>1, <1>4, <2>2, <2>3, TypedOnly DEF RequestsOK, Load
  <2>5. Settled' => Settled
    BY <1>0, <1>1 DEF Only, Settled, Owes
  <2>6. ~seen.stale /\ Settled => req[r].read = Tools \ db.enabled
    BY <1>0 DEF ServeInv, ReadsFresh
  <2>7. db' = db /\ db.enabled \subseteq Tools
    BY <1>0, <1>4 DEF RequestsOK, Rows, Load
  <2>8. RoutesFresh'
    BY <2>2, <2>3, <2>5, <2>6, <2>7 DEF RoutesFresh
  <2>9. VisibleFresh'
    BY <2>2, <2>3, <2>5, <2>6, <2>7 DEF VisibleFresh
  <2> QED
    BY <1>2, <1>3, <2>2, <2>4, <2>8, <2>9 DEF ServeInv, LoadingOK, KnownIfLoaded, ReadsFresh
<1>5. CASE LoadFails(r)
  <2>1. PICK listed \in {live.visible, Listed(req[r].read, db.hidden)} :
          /\ live' = [live EXCEPT !.routes = {}, !.visible = listed]
          /\ seen' = [seen EXCEPT !.up = "failed", !.reshown = FALSE]
    BY <1>5 DEF LoadFails
  <2>2. live' \in Served /\ live'.known /\ seen' \in History /\ seen'.up # "loaded"
    BY <1>0, <2>1 DEF RequestsOK, Served, History, Listed
  <2>3. RequestsOK'
    BY <1>0, <1>1, <1>5, <2>2, TypedOnly DEF RequestsOK, LoadFails
  <2> QED
    BY <1>2, <1>3, <2>2, <2>3, DownServes
<1> QED
  BY <1>4, <1>5

\* The lock is handed on once the plugin is loaded.
LEMMA ReadyServes ==
  ASSUME ServeInv, NEW r \in Requests, Ready(r)
  PROVE  ServeInv'
<1>0. RequestsOK /\ LockHeld /\ Holds(r)
  BY DEF ServeInv, LockHeld, Locked, Ready
<1>1. PICK pc \in {"idle", "unlocked"} : Only(r, pc)
  BY <1>0, LeavesOnly DEF Ready
<1>2. RequestsOK' /\ LockHeld'
  BY <1>0, <1>1, TypedOnly, LockLeft DEF Ready, RequestsOK
<1>3. \A q \in Requests : /\ Owes(q)' <=> Owes(q)
                          /\ Hiding(q) <=> Hiding(q)'
  BY <1>1 DEF Only, Owes, Hiding, Ready
<1>4. \A q \in Requests :
        /\ req'[q].pc \in {"stopping", "loading", "reading"} => req'[q] = req[q]
        /\ req[q].pc \in {"stopping", "loading", "reading"} => live.known
  BY <1>1 DEF Only, ServeInv, LoadingOK
<1>5. Aside
  BY <1>3, <1>4 DEF Aside, Ready
<1> QED
  BY <1>2, <1>5, AsideServes

---------------------------------------------------------------------------------
(* Off the lock *)

LEMMA RestServes ==
  ASSUME ServeInv, NEW r \in Requests, ShowCapabilities(r) \/ Nudge(r)
  PROVE  ServeInv'
<1>0. RequestsOK
  BY DEF ServeInv
<1>1. Only(r, "idle")
  BY <1>0, IdleTyped, Put DEF Only, ShowCapabilities, Nudge
<1>2. CASE ShowCapabilities(r)
  <2>1. live' \in Served /\ live'.known = live.known /\ live'.routes = live.routes
    BY <1>0, <1>2 DEF ShowCapabilities, RequestsOK, Served
  <2>2. /\ seen' \in History /\ seen'.up = seen.up /\ seen'.stale = seen.stale
        /\ seen'.reshown
    BY <1>0, <1>2 DEF ShowCapabilities, RequestsOK, History
  <2> QED
    BY <1>0, <1>1, <1>2, <2>1, <2>2, Outside DEF ShowCapabilities, RequestsOK, Only
<1>3. CASE Nudge(r)
  <2>1. /\ seen' \in History /\ seen'.up = seen.up /\ seen'.stale = seen.stale
        /\ seen'.reshown = seen.reshown
    BY <1>0, <1>3 DEF Nudge, RequestsOK, History
  <2> QED
    BY <1>0, <1>1, <1>3, <2>1, Outside DEF Nudge, RequestsOK, Only
<1> QED
  BY <1>2, <1>3

LEMMA ServeStep == ServeInv /\ [Next]_vars => ServeInv'
<1> SUFFICES ASSUME ServeInv, [Next]_vars PROVE ServeInv'
  OBVIOUS
<1>1. CASE UNCHANGED <<db, live, queue, req, seen>>
  BY <1>1 DEF ServeInv, RequestsOK, LockHeld, Holds, LoadingOK, KnownIfLoaded,
     ReadsFresh, RoutesFresh, VisibleFresh, Settled, Owes, Hiding
<1>2. CASE \E r \in Requests : Asks(r) \/ Handles(r)
  <2>1. PICK r \in Requests : Asks(r) \/ Handles(r)
    BY <1>2
  <2>2. CASE Asks(r)
    BY <2>2, AsksServe
  <2>3. CASE Writes(r)
    BY <2>3, WritesServe
  <2>4. CASE Reloads(r)
    BY <2>4, UnknownServes, UnloadServes, UnloadedServes, ReadServes, LoadServes, ReadyServes
    DEF Reloads
  <2>5. CASE ShowCapabilities(r) \/ Nudge(r)
    BY <2>5, RestServes
  <2> QED
    BY <2>1, <2>2, <2>3, <2>4, <2>5 DEF Handles
<1> QED
  BY <1>1, <1>2 DEF Next, vars

\* At rest nobody owes a reload and nobody is hiding, so what was loaded is what is stored.
LEMMA ServeImplies == ServeInv => ServesToggledTools
BY DEF ServeInv, ServesToggledTools, AtRest, RoutesFresh, VisibleFresh, Settled, Owes, Hiding

\* In every interleaving of enable_plugin, disable_plugin, set_tool_state and uploads, once no
\* handler is at work the routes and the MCP listing of a loaded plugin are those that the
\* tool_config rows ask for, because each of them reloads under the plugin's lock after it has
\* written.
THEOREM ToggledToolsServed == Spec => []ServesToggledTools
<1> QED
  BY ServeInit, ServeStep, ServeImplies, PTL DEF Spec

---------------------------------------------------------------------------------
(* The worker: up, on its way down, or down, while no upload has met a stop *)

LoopStates == [pc : {"new", "runs", "over"}, event : Loops \cup {None}]

WorkerTyped ==
  /\ loop \in [Loops -> LoopStates] /\ awaited \in [Callers -> Loops \cup {None}]
  /\ {task, event} \subseteq Loops \cup {None} /\ signals \subseteq Loops
  /\ \A l \in Loops : loop[l].pc # "runs" => loop[l].event = None

\* The one loop watches the event that a stop would set, and nobody stops it.
WorkerUp ==
  /\ running /\ task \in Loops /\ event = task /\ task \notin signals
  /\ Living = {task} /\ (loop[task].pc = "runs" => loop[task].event = event)
  /\ \A c \in Callers : awaited[c] = None

\* One handler awaits the loop, whose event is set.
WorkerStops(c) ==
  /\ ~running /\ task \in Loops /\ event = task /\ task \in signals
  /\ Living \subseteq {task} /\ (loop[task].pc = "runs" => loop[task].event = event)
  /\ awaited[c] = task /\ \A d \in Callers \ {c} : awaited[d] = None

WorkerDown ==
  /\ ~running /\ task = None /\ event = None /\ signals = {} /\ Living = {}
  /\ \A c \in Callers : awaited[c] = None

LEMMA StartsUp ==
  ASSUME Loops # {}, WorkerTyped, WorkerUp \/ WorkerDown, StartWorker
  PROVE  WorkerTyped' /\ WorkerUp'
<1>1. CASE WorkerUp
  BY <1>1 DEF WorkerTyped, WorkerUp, StartWorker, Living, Alive
<1>2. CASE WorkerDown
  <2>1. \E l \in Loops : Unused(l)
    BY <1>2, LoopAssumption DEF WorkerTyped, WorkerDown, Unused, Living, Alive
  <2> DEFINE l == CHOOSE m \in Loops : Unused(m)
  <2>2. l \in Loops /\ Unused(l)
    BY <2>1
  <2>3. /\ running' /\ task' = l /\ event' = l /\ signals' = {} /\ awaited' = awaited
        /\ loop' = [loop EXCEPT ![l] = [pc |-> "new", event |-> None]]
    BY <1>2 DEF WorkerDown, StartWorker, ScheduleLoop
  <2> HIDE DEF l
  <2>4. [pc |-> "new", event |-> None] \in LoopStates
    BY DEF LoopStates
  <2>5. /\ loop' \in [Loops -> LoopStates] /\ loop'[l] = [pc |-> "new", event |-> None]
        /\ \A m \in Loops \ {l} : loop'[m] = loop[m]
    BY <2>2, <2>3, <2>4 DEF WorkerTyped
  <2>6. WorkerTyped'
    BY <2>2, <2>3, <2>5 DEF WorkerTyped
  <2>7. Living' = {l}
    BY <1>2, <2>2, <2>5 DEF WorkerDown, Living, Alive
  <2> QED
    BY <1>2, <2>2, <2>3, <2>5, <2>6, <2>7 DEF WorkerDown, WorkerUp
<1> QED
  BY <1>1, <1>2

\* BackgroundWorker.stop up to its await sets the event the loop watches.
LEMMA BeginsToStop ==
  ASSUME WorkerTyped, WorkerUp, NEW c \in Callers, BeginStop(c)
  PROVE  WorkerTyped' /\ WorkerStops(c)'
<1>1. /\ awaited' \in [Callers -> Loops \cup {None}] /\ awaited'[c] = task
      /\ \A d \in Callers \ {c} : awaited'[d] = awaited[d]
  BY DEF BeginStop, WorkerTyped
<1>2. signals' = signals \cup {task}
  BY LoopAssumption DEF BeginStop, WorkerUp
<1> QED
  BY <1>1, <1>2 DEF BeginStop, WorkerTyped, WorkerUp, WorkerStops, Living, Alive

LEMMA EndsDown ==
  ASSUME WorkerTyped, NEW c \in Callers, WorkerStops(c), NEW d \in Callers, EndStop(d)
  PROVE  WorkerTyped' /\ WorkerDown'
<1>1. d = c
  BY DEF WorkerStops, EndStop
<1>2. /\ awaited' \in [Callers -> Loops \cup {None}] /\ awaited'[c] = None
      /\ \A b \in Callers \ {c} : awaited'[b] = awaited[b]
  BY <1>1 DEF EndStop, WorkerTyped
<1>3. Living = {}
  BY <1>1 DEF EndStop, WorkerStops, Living
<1>4. signals' = {} /\ loop' = loop /\ Living' = {}
  BY <1>3 DEF EndStop, Living, Alive
<1> QED
  BY <1>2, <1>4 DEF EndStop, WorkerTyped, WorkerStops, WorkerDown

LEMMA OverTyped ==
  ASSUME WorkerTyped, NEW l \in Loops,
         loop' = [loop EXCEPT ![l] = [pc |-> "over", event |-> None]]
  PROVE  /\ loop' \in [Loops -> LoopStates] /\ loop'[l] = [pc |-> "over", event |-> None]
         /\ \A m \in Loops \ {l} : loop'[m] = loop[m]
<1>1. [pc |-> "over", event |-> None] \in LoopStates
  BY DEF LoopStates
<1> QED
  BY <1>1 DEF WorkerTyped

LEMMA ExpiresStopping ==
  ASSUME WorkerTyped, NEW c \in Callers, WorkerStops(c), NEW d \in Callers, ExpireStop(d)
  PROVE  WorkerTyped' /\ WorkerStops(c)'
<1>1. awaited[d] = task
  BY DEF WorkerStops, ExpireStop
<1>2. task \in Loops /\ loop' = [loop EXCEPT ![task] = [pc |-> "over", event |-> None]]
  BY <1>1 DEF ExpireStop, WorkerStops
<1>3. /\ loop' \in [Loops -> LoopStates] /\ loop'[task] = [pc |-> "over", event |-> None]
      /\ \A m \in Loops \ {task} : loop'[m] = loop[m]
  BY <1>2, OverTyped
<1>4. Living' \subseteq {task}
  BY <1>3 DEF WorkerStops, Living, Alive
<1> QED
  BY <1>2, <1>3, <1>4 DEF ExpireStop, WorkerTyped, WorkerStops

\* The loop picks up its own event, and leaves only when that is set.
LEMMA LoopKeeps ==
  ASSUME WorkerTyped, NEW l \in Loops, EnterLoop(l) \/ LeaveLoop(l)
  PROVE  /\ WorkerTyped'
         /\ WorkerUp => WorkerUp'
         /\ \A c \in Callers : WorkerStops(c) => WorkerStops(c)'
         /\ ~WorkerDown
<1>1. l \in Living
  BY DEF EnterLoop, LeaveLoop, Living, Alive
<1>2. UNCHANGED <<running, task, event, signals, awaited>>
  BY DEF EnterLoop, LeaveLoop
<1>3. CASE loop' = [loop EXCEPT ![l] = [pc |-> "over", event |-> None]]
  <2>1. /\ loop' \in [Loops -> LoopStates] /\ loop'[l] = [pc |-> "over", event |-> None]
        /\ \A m \in Loops \ {l} : loop'[m] = loop[m]
    BY <1>3, OverTyped
  <2>2. WorkerTyped'
    BY <1>2, <2>1 DEF WorkerTyped
  <2>3. ~WorkerUp
    <3>1. SUFFICES ASSUME WorkerUp PROVE FALSE
      OBVIOUS
    <3>2. l = task /\ event # None
      BY <1>1, <3>1, LoopAssumption DEF WorkerUp
    <3>3. CASE LeaveLoop(l)
      BY <3>1, <3>2, <3>3 DEF WorkerUp, LeaveLoop
    <3>4. CASE EnterLoop(l)
      BY <1>3, <2>1, <3>2, <3>4 DEF EnterLoop, WorkerTyped
    <3> QED
      BY <3>3, <3>4
  <2>4. ASSUME NEW c \in Callers, WorkerStops(c) PROVE WorkerStops(c)'
    <3>1. l = task
      BY <1>1, <2>4 DEF WorkerStops
    <3>2. Living' \subseteq {task}
      BY <2>1, <2>4, <3>1 DEF WorkerStops, Living, Alive
    <3> QED
      BY <1>2, <2>1, <2>4, <3>1, <3>2 DEF WorkerStops
  <2> QED
    BY <1>1, <2>2, <2>3, <2>4 DEF WorkerDown
<1>4. CASE event # None /\ loop' = [loop EXCEPT ![l] = [pc |-> "runs", event |-> event]]
  <2>1. [pc |-> "runs", event |-> event] \in LoopStates
    BY DEF LoopStates, WorkerTyped
  <2>2. /\ loop' \in [Loops -> LoopStates] /\ loop'[l] = [pc |-> "runs", event |-> event]
        /\ \A m \in Loops \ {l} : loop'[m] = loop[m]
    BY <1>4, <2>1 DEF WorkerTyped
  <2>3. WorkerTyped'
    BY <1>2, <2>2 DEF WorkerTyped
  <2>4. Living' = Living
    BY <1>1, <2>2 DEF Living, Alive
  <2>5. WorkerUp \/ (\E c \in Callers : WorkerStops(c)) => l = task
    BY <1>1 DEF WorkerUp, WorkerStops
  <2> QED
    BY <1>1, <1>2, <2>2, <2>3, <2>4, <2>5 DEF WorkerUp, WorkerStops, WorkerDown
<1> QED
  BY <1>3, <1>4 DEF EnterLoop, LeaveLoop

---------------------------------------------------------------------------------
(* The worker and the plugin *)

NoUploadMetAStop == "stopping" \notin seen.nudged

FollowInv ==
  NoUploadMetAStop =>
    /\ WorkerTyped
    /\ \/ WorkerUp \/ WorkerDown
       \/ \E c \in Requests : req[c].pc = "stopping" /\ WorkerStops(c)
    /\ seen.up = "loaded" => task # None
    /\ seen.up = "down" /\ "unloaded" \notin seen.nudged => ~running

LEMMA FollowInit == Init => FollowInv
<1> SUFFICES ASSUME Init PROVE FollowInv
  OBVIOUS
<1>1. PICK up \in {"loaded", "failed", "down"} : seen.up = up /\ WorkerInit(up = "loaded")
  BY DEF Init
<1>2. CASE up = "loaded"
  <2>1. PICK l \in Loops :
          /\ running /\ signals = {} /\ awaited = [c \in Callers |-> None]
          /\ task = l /\ event = l
          /\ loop = [m \in Loops |-> IF m = l THEN [pc |-> "runs", event |-> l] ELSE NoLoop]
    BY <1>1, <1>2 DEF WorkerInit
  <2>2. WorkerTyped
    BY <2>1 DEF WorkerTyped, LoopStates, NoLoop
  <2>3. WorkerUp
    BY <2>1 DEF WorkerUp, Living, Alive, NoLoop
  <2> QED
    BY <1>1, <1>2, <2>1, <2>2, <2>3, LoopAssumption DEF FollowInv
<1>3. CASE up # "loaded"
  <2>1. /\ running = FALSE /\ signals = {} /\ awaited = [c \in Callers |-> None]
        /\ task = None /\ event = None /\ loop = [m \in Loops |-> NoLoop]
    BY <1>1, <1>3 DEF WorkerInit
  <2>2. WorkerTyped
    BY <2>1 DEF WorkerTyped, LoopStates, NoLoop
  <2>3. WorkerDown
    BY <2>1 DEF WorkerDown, Living, Alive, NoLoop
  <2> QED
    BY <1>1, <1>3, <2>1, <2>2, <2>3 DEF FollowInv
<1> QED
  BY <1>2, <1>3

\* A step that neither starts nor stops the worker, and does not claim the plugin loaded.
LEMMA WorkerAside ==
  ASSUME FollowInv, UNCHANGED workerVars, seen'.nudged = seen.nudged,
         seen'.up = seen.up \/ seen'.up = "failed",
         \A q \in Requests : req[q].pc = "stopping" => req'[q].pc = "stopping"
  PROVE  FollowInv'
BY DEF FollowInv, NoUploadMetAStop, workerVars, WorkerTyped, WorkerUp, WorkerStops, WorkerDown,
   Living, Alive

\* Whoever stands first in the plugin's queue and is not stopping the worker: nobody is.
LEMMA NobodyStops ==
  ASSUME LockHeld, FollowInv, NoUploadMetAStop, NEW r \in Requests, Holds(r),
         req[r].pc # "stopping"
  PROVE  WorkerUp \/ WorkerDown
BY Alone DEF FollowInv, Locked

\* One handler goes on, from anywhere but the await of stop().
LEMMA OthersStop ==
  ASSUME RequestsOK, NEW r \in Requests, req[r].pc # "stopping",
         NEW h, req' = [req EXCEPT ![r] = h]
  PROVE  \A q \in Requests : req[q].pc = "stopping" => req'[q].pc = "stopping"
BY DEF RequestsOK

LEMMA AsideFollows ==
  ASSUME ServeInv, FollowInv, NEW r \in Requests,
         \/ Asks(r) \/ Writes(r) \/ ShowCapabilities(r) \/ ReadDisabled(r) \/ Ready(r)
         \/ CleanUnknown(r) \/ LazyLoad(r) \/ LazyLoadFails(r) \/ UnloadFails(r) \/ LoadFails(r)
  PROVE  FollowInv'
<1>0. RequestsOK
  BY DEF ServeInv
<1>1. req[r].pc # "stopping"
  BY DEF Asks, Writes, AskEnable, AskDisable, AskToggle, Upload, WriteEnabled, WriteHidden,
     WriteFails, ShowOrHide, Enqueue, ShowCapabilities, ReadDisabled, Ready, CleanUnknown,
     LazyLoad, LazyLoadFails, UnloadFails, LoadFails
<1>2. \E h : req' = [req EXCEPT ![r] = h]
  BY DEF Asks, Writes, AskEnable, AskDisable, AskToggle, Upload, WriteEnabled, WriteHidden,
     WriteFails, ShowOrHide, Enqueue, ShowCapabilities, ReadDisabled, Ready, CleanUnknown,
     LazyLoad, LazyLoadFails, UnloadFails, LoadFails, Leaves, Goes
<1>3. \A q \in Requests : req[q].pc = "stopping" => req'[q].pc = "stopping"
  BY <1>0, <1>1, <1>2, OthersStop
<1>4. UNCHANGED workerVars
  BY DEF Asks, Writes, AskEnable, AskDisable, AskToggle, Upload, WriteEnabled, WriteHidden,
     WriteFails, ShowOrHide, Enqueue, ShowCapabilities, ReadDisabled, Ready, CleanUnknown,
     LazyLoad, LazyLoadFails, UnloadFails, LoadFails
<1>5. seen'.nudged = seen.nudged /\ (seen'.up = seen.up \/ seen'.up = "failed")
  <2>1. CASE seen' = seen
    BY <2>1
  <2>2. CASE WriteFails(r)
    BY <1>0, <2>2 DEF WriteFails, RequestsOK, History
  <2>3. CASE ShowCapabilities(r)
    BY <1>0, <2>3 DEF ShowCapabilities, RequestsOK, History
  <2>4. CASE ReadDisabled(r)
    BY <1>0, <2>4 DEF ReadDisabled, RequestsOK, History
  <2>5. CASE UnloadFails(r) \/ LoadFails(r)
    BY <1>0, <2>5 DEF UnloadFails, LoadFails, RequestsOK, History
  <2> QED
    BY <2>1, <2>2, <2>3, <2>4, <2>5 DEF Asks, Writes, AskEnable, AskDisable, AskToggle, Upload,
       WriteEnabled, WriteHidden, ShowOrHide, Enqueue, Ready, CleanUnknown, LazyLoad,
       LazyLoadFails
<1> QED
  BY <1>3, <1>4, <1>5, WorkerAside

\* The stop of on_unload, which only the handler under the lock calls.
LEMMA StopFollows ==
  ASSUME ServeInv, FollowInv, NEW r \in Requests,
         Unload(r) \/ UnloadAtOnce(r) \/ UnloadEnds(r) \/ StopExpires(r)
  PROVE  FollowInv'
<1>0. RequestsOK /\ LockHeld
  BY DEF ServeInv
<1>1. SUFFICES ASSUME NoUploadMetAStop' PROVE FollowInv'
  BY DEF FollowInv
<1>2. NoUploadMetAStop
  BY <1>0, <1>1 DEF NoUploadMetAStop, Unload, UnloadAtOnce, UnloadEnds, StopExpires, AfterUnload,
     RequestsOK, History
<1>3. WorkerTyped
  BY <1>2 DEF FollowInv
<1>4. CASE Unload(r)
  <2>1. WorkerUp
    BY <1>0, <1>2, <1>4, NobodyStops DEF Unload, BeginStop, WorkerDown
  <2>2. WorkerTyped' /\ WorkerStops(r)'
    BY <1>3, <1>4, <2>1, BeginsToStop DEF Unload, Requests
  <2>3. req'[r].pc = "stopping"
    BY <1>0, <1>4, GoesOnly DEF Unload, Places, Only
  <2> QED
    BY <2>2, <2>3, LoopAssumption DEF FollowInv, WorkerStops
<1>5. CASE UnloadAtOnce(r)
  <2>1. WorkerDown
    BY <1>0, <1>2, <1>5, LoopAssumption, NobodyStops DEF UnloadAtOnce, StopsAtOnce, WorkerUp
  <2>2. WorkerTyped' /\ WorkerDown'
    BY <1>3, <1>5, <2>1 DEF UnloadAtOnce, StopsAtOnce, WorkerTyped, WorkerDown, Living, Alive
  <2>3. seen'.up = "down"
    BY <1>0, <1>5 DEF UnloadAtOnce, AfterUnload, RequestsOK, History
  <2> QED
    BY <2>2, <2>3 DEF FollowInv, WorkerDown
<1>6. CASE UnloadEnds(r)
  <2>1. PICK c \in Requests : WorkerStops(c)
    BY <1>2, <1>6 DEF FollowInv, UnloadEnds, EndStop, WorkerUp, WorkerDown, Requests
  <2>2. WorkerTyped' /\ WorkerDown'
    BY <1>3, <1>6, <2>1, EndsDown DEF UnloadEnds, Requests
  <2>3. seen'.up = "down"
    BY <1>0, <1>6 DEF UnloadEnds, AfterUnload, RequestsOK, History
  <2> QED
    BY <2>2, <2>3 DEF FollowInv, WorkerDown
<1>7. CASE StopExpires(r)
  <2>1. PICK c \in Requests : req[c].pc = "stopping" /\ WorkerStops(c)
    BY <1>2, <1>7 DEF FollowInv, StopExpires, ExpireStop, WorkerUp, WorkerDown,
       Requests
  <2>2. WorkerTyped' /\ WorkerStops(c)'
    BY <1>3, <1>7, <2>1, ExpiresStopping DEF StopExpires, Requests
  <2> QED
    BY <1>7, <2>1, <2>2, LoopAssumption DEF FollowInv, WorkerStops, StopExpires
<1> QED
  BY <1>4, <1>5, <1>6, <1>7

\* The worker is started by the load, under the lock, or by an upload: one that meets a stop
\* is excluded, one that comes after the unload is remembered.
LEMMA StartFollows ==
  ASSUME Loops # {}, ServeInv, FollowInv, NEW r \in Requests, Load(r) \/ Nudge(r)
  PROVE  FollowInv'
<1>0. RequestsOK /\ LockHeld
  BY DEF ServeInv
<1>1. SUFFICES ASSUME NoUploadMetAStop' PROVE FollowInv'
  BY DEF FollowInv
<1>2. NoUploadMetAStop
  BY <1>0, <1>1 DEF NoUploadMetAStop, Load, Nudge, RequestsOK, History
<1>3. WorkerTyped
  BY <1>2 DEF FollowInv
<1>4. CASE Load(r)
  <2>1. WorkerUp \/ WorkerDown
    BY <1>0, <1>2, <1>4, NobodyStops DEF Load, LockHeld, Locked
  <2>2. WorkerTyped' /\ WorkerUp'
    BY <1>3, <1>4, <2>1, StartsUp DEF Load
  <2>3. seen'.up = "loaded"
    BY <1>0, <1>4 DEF Load, RequestsOK, History
  <2> QED
    BY <2>2, <2>3, LoopAssumption DEF FollowInv, WorkerUp
<1>5. CASE Nudge(r) /\ running
  <2>1. WorkerUp
    BY <1>2, <1>5 DEF FollowInv, WorkerDown, WorkerStops
  <2>2. WorkerTyped' /\ WorkerUp'
    BY <1>3, <1>5, <2>1, StartsUp DEF Nudge
  <2>3. seen' = seen
    BY <1>5 DEF Nudge
  <2> QED
    BY <1>2, <1>5, <2>2, <2>3, LoopAssumption DEF FollowInv, WorkerUp
<1>6. CASE Nudge(r) /\ ~running
  <2>1. \A c \in Requests : awaited[c] = None
    BY <1>0, <1>1, <1>6 DEF Nudge, NoUploadMetAStop, RequestsOK, History
  <2>2. WorkerUp \/ WorkerDown
    BY <1>2, <2>1, LoopAssumption DEF FollowInv, WorkerStops
  <2>3. WorkerTyped' /\ WorkerUp'
    BY <1>3, <1>6, <2>2, StartsUp DEF Nudge
  <2>4. "unloaded" \in seen'.nudged
    BY <1>0, <1>6, <2>1 DEF Nudge, RequestsOK, History
  <2> QED
    BY <2>3, <2>4, LoopAssumption DEF FollowInv, WorkerUp
<1> QED
  BY <1>4, <1>5, <1>6

LEMMA LoopFollows ==
  ASSUME FollowInv, LoopStep, UNCHANGED <<db, live, queue, req, seen>>
  PROVE  FollowInv'
<1>1. PICK l \in Loops : EnterLoop(l) \/ LeaveLoop(l)
  BY DEF LoopStep
<1>2. UNCHANGED <<running, task, event>>
  BY <1>1 DEF EnterLoop, LeaveLoop
<1> QED
  BY <1>1, <1>2, LoopKeeps DEF FollowInv, NoUploadMetAStop, Requests

LEMMA FollowStep ==
  ASSUME Loops # {}, ServeInv, FollowInv, [Next]_vars
  PROVE  FollowInv'
<1>1. CASE UNCHANGED vars
  BY <1>1, WorkerAside DEF vars
<1>2. CASE \E r \in Requests : Asks(r) \/ Handles(r)
  <2>1. PICK r \in Requests : Asks(r) \/ Handles(r)
    BY <1>2
  <2> QED
    BY <2>1, AsideFollows, StopFollows, StartFollows DEF Handles, Reloads
<1> QED
  BY <1>1, <1>2, LoopFollows DEF Next

LEMMA FollowImplies == ServeInv /\ FollowInv => WorkerFollowsPlugin
<1> SUFFICES ASSUME ServeInv, FollowInv, AtRest, NoUploadMetAStop
             PROVE  /\ seen.up = "loaded" => /\ running /\ Living = {task}
                                             /\ loop[task].pc = "runs" => loop[task].event = event
                                             /\ event \notin signals
                    /\ seen.up = "down" /\ "unloaded" \notin seen.nudged => Living = {}
  BY DEF WorkerFollowsPlugin, NoUploadMetAStop
<1>1. WorkerUp \/ WorkerDown
  BY DEF FollowInv, AtRest
<1> QED
  BY <1>1 DEF FollowInv, WorkerUp, WorkerDown

\* However enables, disables, toggles and uploads overlap, for any number of handlers: at rest a
\* loaded plugin has the one worker loop that WorkerRegistry.stop would reach, and an unloaded
\* one has none, because load and unload happen under the plugin's lock and stop() forgets task
\* and event only when the loop is over. Uploads that start the worker while a stop awaits it,
\* or after the unload, are what the property excepts.
THEOREM WorkerFollows == ASSUME Loops # {} PROVE Spec => []WorkerFollowsPlugin
<1>1. ServeInv /\ FollowInv /\ [Next]_vars => (ServeInv /\ FollowInv)'
  BY ServeStep, FollowStep
<1>2. Init => ServeInv /\ FollowInv
  BY ServeInit, FollowInit
<1> QED
  BY <1>1, <1>2, FollowImplies, PTL DEF Spec

---------------------------------------------------------------------------------
(* The names of loops, which never run out *)

Used == {l \in Loops : ~Unused(l)}

Named == WorkerTyped /\ IsFiniteSet(Used)

\* At most one name is taken.
LEMMA OneMoreUsed ==
  ASSUME Named, NEW l, \A m \in Loops : Unused(m) => Unused(m)' \/ m = l
  PROVE  IsFiniteSet(Used')
<1>1. IsFiniteSet(Used \cup {l})
  BY FS_AddElement DEF Named
<1>2. Used' \subseteq Used \cup {l}
  BY DEF Used
<1> QED
  BY <1>1, <1>2, FS_Subset

LEMMA NoMoreUsed ==
  ASSUME Named, \A m \in Loops : Unused(m) => Unused(m)'
  PROVE  IsFiniteSet(Used')
BY OneMoreUsed

LEMMA StartNamed ==
  ASSUME ~IsFiniteSet(Loops), Named, StartWorker
  PROVE  Named'
<1>1. CASE UNCHANGED <<task, event, loop, signals>>
  <2>1. WorkerTyped'
    BY <1>1 DEF Named, WorkerTyped, StartWorker
  <2>2. \A m \in Loops : Unused(m) => Unused(m)'
    BY <1>1 DEF StartWorker, Unused, Alive
  <2> QED
    BY <2>1, <2>2, NoMoreUsed DEF Named
<1>2. CASE ~UNCHANGED <<task, event, loop, signals>>
  <2>1. \E m \in Loops : Unused(m)
    <3>1. SUFFICES ASSUME \A m \in Loops : ~Unused(m) PROVE Used = Loops
      BY DEF Named
    <3> QED
      BY <3>1 DEF Used
  <2> DEFINE l == CHOOSE m \in Loops : Unused(m)
  <2>2. l \in Loops /\ Unused(l)
    BY <2>1
  <2>3. /\ task' = l /\ event' = l /\ signals' = signals \ {l} /\ awaited' = awaited
        /\ loop' = [loop EXCEPT ![l] = [pc |-> "new", event |-> None]]
    BY <1>2 DEF StartWorker, ScheduleLoop
  <2> HIDE DEF l
  <2>4. [pc |-> "new", event |-> None] \in LoopStates
    BY DEF LoopStates
  <2>5. /\ loop' \in [Loops -> LoopStates] /\ loop'[l] = [pc |-> "new", event |-> None]
        /\ \A m \in Loops \ {l} : loop'[m] = loop[m]
    BY <2>2, <2>3, <2>4 DEF Named, WorkerTyped
  <2>6. WorkerTyped'
    BY <2>2, <2>3, <2>5 DEF Named, WorkerTyped
  <2>7. \A m \in Loops : Unused(m) => Unused(m)' \/ m = l
    BY <2>2, <2>3, <2>5, LoopAssumption DEF Unused, Alive
  <2> QED
    BY <2>6, <2>7, OneMoreUsed DEF Named
<1> QED
  BY <1>1, <1>2

LEMMA StopNamed ==
  ASSUME Named, NEW c \in Callers,
         BeginStop(c) \/ StopsAtOnce(c) \/ EndStop(c) \/ ExpireStop(c)
  PROVE  Named'
<1>1. WorkerTyped
  BY DEF Named
<1>2. CASE BeginStop(c) \/ EndStop(c)
  <2>1. PICK w \in {task, None} :
          /\ awaited' \in [Callers -> Loops \cup {None}] /\ awaited'[c] = w
          /\ \A d \in Callers \ {c} : awaited'[d] = awaited[d]
    BY <1>1, <1>2 DEF BeginStop, EndStop, WorkerTyped
  <2>2. loop' = loop /\ {task', event'} \subseteq {task, event, None}
    BY <1>2 DEF BeginStop, EndStop
  <2>3. signals' \subseteq Loops
    BY <1>1, <1>2 DEF BeginStop, EndStop, WorkerTyped
  <2>4. WorkerTyped'
    BY <1>1, <2>1, <2>2, <2>3 DEF WorkerTyped
  <2>5. \A m \in Loops : Unused(m) => Unused(m)'
    BY <2>1, <2>2, LoopAssumption DEF Unused, Alive
  <2> QED
    BY <2>4, <2>5, NoMoreUsed DEF Named
<1>3. CASE StopsAtOnce(c)
  <2>1. WorkerTyped'
    BY <1>1, <1>3 DEF StopsAtOnce, WorkerTyped
  <2>2. \A m \in Loops : Unused(m) => Unused(m)'
    BY <1>3, LoopAssumption DEF StopsAtOnce, Unused, Alive
  <2> QED
    BY <2>1, <2>2, NoMoreUsed DEF Named
<1>4. CASE ExpireStop(c)
  <2>1. awaited[c] \in Loops
    BY <1>1, <1>4 DEF ExpireStop, WorkerTyped
  <2>2. /\ loop' \in [Loops -> LoopStates]
        /\ loop'[awaited[c]] = [pc |-> "over", event |-> None]
        /\ \A m \in Loops \ {awaited[c]} : loop'[m] = loop[m]
    BY <1>1, <1>4, <2>1, OverTyped DEF ExpireStop
  <2>3. WorkerTyped'
    BY <1>1, <1>4, <2>2 DEF ExpireStop, WorkerTyped
  <2>4. \A m \in Loops : Unused(m) => Unused(m)'
    BY <1>4, <2>2, LoopAssumption DEF ExpireStop, Unused, Alive
  <2> QED
    BY <2>3, <2>4, NoMoreUsed DEF Named
<1> QED
  BY <1>2, <1>3, <1>4

LEMMA LoopNamed == ASSUME Named, LoopStep PROVE Named'
<1>1. PICK l \in Loops : EnterLoop(l) \/ LeaveLoop(l)
  BY DEF LoopStep
<1>2. WorkerTyped'
  BY <1>1, LoopKeeps DEF Named
<1>3. PICK pc \in {"runs", "over"}, e \in {event, None} :
        loop' = [loop EXCEPT ![l] = [pc |-> pc, event |-> e]]
  BY <1>1 DEF EnterLoop, LeaveLoop
<1>4. /\ loop'[l] = [pc |-> pc, event |-> e] /\ \A m \in Loops \ {l} : loop'[m] = loop[m]
  BY <1>3 DEF Named, WorkerTyped
<1>5. \A m \in Loops : Unused(m) => Unused(m)'
  BY <1>1, <1>3, <1>4, LoopAssumption DEF EnterLoop, LeaveLoop, Unused, Alive
<1> QED
  BY <1>2, <1>5, NoMoreUsed DEF Named

---------------------------------------------------------------------------------
(* The plugin's queue *)

Queued(r) == req[r].pc \in Locked \cup {"queued"}

\* In the queue are those that wait and the one at work, each once; only the latter awaits.
QueueOK ==
  /\ \A r \in Requests : Queued(r) <=> \E i \in DOMAIN queue : queue[i] = r
  /\ \A i, j \in DOMAIN queue : queue[i] = queue[j] => i = j

AwaitsUnderLock == \A r \in Requests : awaited[r] # None => req[r].pc = "stopping"

LEMMA QueueKept ==
  ASSUME QueueOK, NEW r \in Requests, NEW pc, Only(r, pc), queue' = queue,
         pc \in Locked \cup {"queued"} <=> Queued(r)
  PROVE  QueueOK'
BY DEF QueueOK, Queued, Only

LEMMA QueueAsked ==
  ASSUME QueueOK, LockHeld, NEW r \in Requests, Only(r, "queued"), ~Queued(r),
         queue' = Append(queue, r)
  PROVE  QueueOK'
<1>1. /\ queue \in Seq(Requests) /\ Len(queue) \in Nat /\ DOMAIN queue = 1 .. Len(queue)
      /\ DOMAIN queue' = 1 .. Len(queue) + 1
      /\ queue'[Len(queue) + 1] = r
      /\ \A i \in 1 .. Len(queue) : queue'[i] = queue[i]
  BY DEF LockHeld
<1>2. \A i \in DOMAIN queue : queue[i] # r
  BY DEF QueueOK
<1>3. \A i, j \in DOMAIN queue' : queue'[i] = queue'[j] => i = j
  BY <1>1, <1>2 DEF QueueOK
<1>4. \A q \in Requests : Queued(q)' <=> Queued(q) \/ q = r
  BY DEF Queued, Only
<1>5. \A q \in Requests :
        (\E i \in DOMAIN queue' : queue'[i] = q) <=> (\E i \in DOMAIN queue : queue[i] = q) \/ q = r
  BY <1>1
<1> QED
  BY <1>3, <1>4, <1>5 DEF QueueOK

LEMMA QueueLeft ==
  ASSUME QueueOK, LockHeld, NEW r \in Requests, Holds(r), queue' = Tail(queue),
         NEW pc \in {"idle", "unlocked"}, Only(r, pc)
  PROVE  QueueOK'
<1>1. /\ queue \in Seq(Requests) /\ Len(queue) \in Nat /\ DOMAIN queue = 1 .. Len(queue)
      /\ Len(queue) > 0 /\ queue[1] = r
  BY DEF LockHeld, Holds
<1>2. /\ DOMAIN queue' = 1 .. Len(queue) - 1
      /\ \A i \in 1 .. Len(queue) - 1 : queue'[i] = queue[i + 1]
  BY <1>1
<1>3. \A i, j \in DOMAIN queue' : queue'[i] = queue'[j] => i = j
  BY <1>1, <1>2 DEF QueueOK
<1>4. \A q \in Requests : Queued(q)' <=> Queued(q) /\ q # r
  BY DEF Queued, Only, Locked
<1>5. \A q \in Requests :
        (\E i \in DOMAIN queue' : queue'[i] = q) <=> (\E i \in DOMAIN queue : queue[i] = q) /\ q # r
  <2> TAKE q \in Requests
  <2>1. ASSUME NEW i \in DOMAIN queue' PROVE i + 1 \in DOMAIN queue /\ i + 1 # 1
    BY <1>1, <1>2
  <2>2. ASSUME NEW i \in DOMAIN queue, i # 1 PROVE i - 1 \in DOMAIN queue' /\ (i - 1) + 1 = i
    BY <1>1, <1>2, <2>2
  <2>3. 1 \in DOMAIN queue
    BY <1>1
  <2>4. \A i \in DOMAIN queue : queue[i] = r => i = 1
    BY <1>1, <2>3 DEF QueueOK
  <2> QED
    BY <1>1, <1>2, <2>1, <2>2, <2>4
<1> QED
  BY <1>3, <1>4, <1>5 DEF QueueOK

---------------------------------------------------------------------------------
(* Types of the whole *)

PlaceInv == /\ RequestsOK /\ LockHeld /\ QueueOK
            /\ Named /\ AwaitsUnderLock

LEMMA PlaceInit == Init => PlaceInv
<1> SUFFICES ASSUME Init PROVE PlaceInv
  OBVIOUS
<1>1. RequestsOK /\ LockHeld
  BY ServeInit DEF ServeInv
<1>2. queue = <<>> /\ \A r \in Requests : req[r].pc = "idle"
  BY DEF Init, Idle
<1>3. QueueOK
  BY <1>2 DEF QueueOK, Queued, Locked
<1>4. PICK started \in BOOLEAN : WorkerInit(started)
  BY DEF Init
<1>5. awaited = [c \in Callers |-> None]
  BY <1>4 DEF WorkerInit
<1>6. AwaitsUnderLock
  BY <1>5 DEF AwaitsUnderLock, Requests
<1>7. CASE started
  <2>1. PICK l \in Loops :
          /\ signals = {} /\ task = l /\ event = l
          /\ loop = [m \in Loops |-> IF m = l THEN [pc |-> "runs", event |-> l] ELSE NoLoop]
    BY <1>4, <1>7 DEF WorkerInit
  <2>2. WorkerTyped
    BY <1>5, <2>1 DEF WorkerTyped, LoopStates, NoLoop
  <2>3. Used \subseteq {l}
    BY <1>5, <2>1, LoopAssumption DEF Used, Unused, Alive, NoLoop
  <2>4. IsFiniteSet({l})
    BY FS_Singleton
  <2> QED
    BY <1>1, <1>3, <1>6, <2>2, <2>3, <2>4, FS_Subset DEF PlaceInv, Named
<1>8. CASE ~started
  <2>1. signals = {} /\ task = None /\ event = None /\ loop = [m \in Loops |-> NoLoop]
    BY <1>4, <1>8 DEF WorkerInit
  <2>2. WorkerTyped
    BY <1>5, <2>1 DEF WorkerTyped, LoopStates, NoLoop
  <2>3. Used = {}
    BY <1>5, <2>1, LoopAssumption DEF Used, Unused, Alive, NoLoop
  <2> QED
    BY <1>1, <1>3, <1>6, <2>2, <2>3, FS_EmptySet DEF PlaceInv, Named
<1> QED
  BY <1>7, <1>8

\* A step of one handler that leaves the worker alone.
LEMMA PlaceAside ==
  ASSUME PlaceInv, RequestsOK', LockHeld', QueueOK', UNCHANGED workerVars,
         NEW r \in Requests, NEW pc, Only(r, pc), req[r].pc # "stopping"
  PROVE  PlaceInv'
<1>1. Named'
  BY DEF PlaceInv, Named, WorkerTyped, workerVars, Used, Unused, Alive
<1>2. AwaitsUnderLock'
  BY DEF PlaceInv, AwaitsUnderLock, workerVars, Only
<1> QED
  BY <1>1, <1>2 DEF PlaceInv

\* A handler that steps outside the queue.
LEMMA OutsidePlaced ==
  ASSUME PlaceInv, RequestsOK', LockHeld', UNCHANGED workerVars, queue' = queue,
         NEW r \in Requests, NEW pc, Only(r, pc),
         req[r].pc \notin Locked \cup {"queued"}, pc \notin Locked \cup {"queued"}
  PROVE  PlaceInv'
<1>1. QueueOK'
  BY QueueKept DEF PlaceInv, Queued
<1> QED
  BY <1>1, PlaceAside DEF Locked

LEMMA AsksPlaced ==
  ASSUME PlaceInv, RequestsOK', LockHeld', NEW r \in Requests, Asks(r)
  PROVE  PlaceInv'
<1>0. RequestsOK
  BY DEF PlaceInv
<1>1. CASE AskEnable(r) \/ AskDisable(r)
  <2>1. PICK kind \in {"enable", "disable"} :
          req' = [req EXCEPT ![r] = [Idle EXCEPT !.pc = "wants", !.kind = kind]]
    BY <1>1 DEF AskEnable, AskDisable
  <2>2. Only(r, "wants")
    BY <1>0, <2>1, BegunOnly DEF Places
  <2> QED
    BY <1>1, <2>2, OutsidePlaced DEF AskEnable, AskDisable, Locked
<1>2. CASE Upload(r)
  <2>1. Only(r, "uploading")
    BY <1>0, <1>2, BegunOnly DEF Upload, Places
  <2> QED
    BY <1>2, <2>1, OutsidePlaced DEF Upload, Locked
<1>3. CASE \E t \in Tools, to \in States : AskToggle(r, t, to)
  <2>1. PICK t \in Tools, to \in States : AskToggle(r, t, to)
    BY <1>3
  <2>2. Only(r, "enabling")
    BY <1>0, <2>1, ToggleOnly
  <2> QED
    BY <2>1, <2>2, OutsidePlaced DEF AskToggle, Locked
<1> QED
  BY <1>1, <1>2, <1>3 DEF Asks

LEMMA WritesPlaced ==
  ASSUME PlaceInv, RequestsOK', LockHeld', NEW r \in Requests, Writes(r)
  PROVE  PlaceInv'
<1>0. RequestsOK /\ LockHeld /\ QueueOK
  BY DEF PlaceInv
<1>1. CASE WriteEnabled(r) \/ WriteHidden(r)
  <2>1. PICK pc \in {"showing", "hiding"} : req' = Goes(r, pc)
    BY <1>1 DEF WriteEnabled, WriteHidden
  <2>2. Only(r, pc)
    BY <1>0, <2>1, GoesOnly DEF Places
  <2> QED
    BY <1>1, <2>2, OutsidePlaced DEF WriteEnabled, WriteHidden, Locked
<1>2. CASE WriteFails(r)
  <2>1. Only(r, "idle")
    BY <1>0, <1>2, IdleTyped, Put DEF Only, WriteFails
  <2> QED
    BY <1>2, <2>1, OutsidePlaced DEF WriteFails, Locked
<1>3. CASE ShowOrHide(r) \/ Enqueue(r)
  <2>1. req[r].kind \in {"none", "enable", "disable", "toggle", "upload"}
    BY <1>0 DEF RequestsOK, Handler
  <2>2. PICK kind \in {"none", "enable", "disable", "toggle", "upload"} :
          req' = [req EXCEPT ![r] = [Idle EXCEPT !.pc = "queued", !.kind = kind]]
    BY <1>3, <2>1 DEF ShowOrHide, Enqueue, Waiting
  <2>3. Only(r, "queued")
    BY <1>0, <2>2, BegunOnly DEF Places
  <2>4. ~Queued(r) /\ queue' = Append(queue, r)
    BY <1>3 DEF ShowOrHide, Enqueue, Queued, Locked
  <2>5. QueueOK'
    BY <1>0, <2>3, <2>4, QueueAsked
  <2> QED
    BY <1>3, <2>3, <2>5, PlaceAside DEF ShowOrHide, Enqueue
<1> QED
  BY <1>1, <1>2, <1>3 DEF Writes

\* Who leaves the lock leaves the queue, and who goes on under it stays where it stands.
LEMMA LeavesQueue ==
  ASSUME PlaceInv, NEW r \in Requests, Holds(r), Leaves(r)
  PROVE  QueueOK' /\ \E pc : Only(r, pc) /\ pc # "stopping"
BY LeavesOnly, QueueLeft DEF PlaceInv, Leaves

LEMMA StaysQueued ==
  ASSUME PlaceInv, NEW r \in Requests, NEW pc \in Locked, Only(r, pc), Queued(r), queue' = queue
  PROVE  QueueOK'
BY QueueKept DEF PlaceInv

\* The steps under the lock that do not touch the worker.
LEMMA LockedPlaced ==
  ASSUME PlaceInv, RequestsOK', LockHeld', NEW r \in Requests,
         \/ CleanUnknown(r) \/ LazyLoad(r) \/ LazyLoadFails(r) \/ UnloadFails(r)
         \/ ReadDisabled(r) \/ LoadFails(r) \/ Ready(r)
  PROVE  PlaceInv'
<1>0. RequestsOK /\ LockHeld
  BY DEF PlaceInv
<1>1. /\ UNCHANGED workerVars /\ Queued(r)
      /\ req[r].pc # "stopping" /\ Holds(r)
  BY <1>0 DEF CleanUnknown, LazyLoad, LazyLoadFails, UnloadFails, ReadDisabled, LoadFails, Ready,
     Queued, Locked, LockHeld
<1>2. CASE Leaves(r)
  BY <1>1, <1>2, LeavesQueue, PlaceAside
<1>3. CASE queue' = queue /\ \E pc \in Locked : Only(r, pc)
  BY <1>1, <1>3, StaysQueued, PlaceAside
<1>4. CASE LazyLoad(r) \/ (UnloadFails(r) /\ ~Teardown(r))
  <2>1. req' = Goes(r, "loading") /\ queue' = queue
    BY <1>4 DEF LazyLoad, UnloadFails
  <2> QED
    BY <1>0, <1>3, <2>1, GoesOnly DEF Places, Locked
<1>5. CASE ReadDisabled(r) \/ LoadFails(r)
  <2>1. PICK pc \in {"reading", "ready"}, read \in SUBSET Tools :
          req' = [req EXCEPT ![r] = [@ EXCEPT !.pc = pc, !.read = read]]
    <3>1. CASE ReadDisabled(r)
      <4>1. PICK ok \in BOOLEAN :
              req' = [req EXCEPT ![r] = [@ EXCEPT !.pc = "reading",
                                         !.read = IF ok THEN Tools \ db.enabled ELSE {}]]
        BY <3>1 DEF ReadDisabled
      <4>2. (IF ok THEN Tools \ db.enabled ELSE {}) \in SUBSET Tools
        OBVIOUS
      <4> QED
        BY <4>1, <4>2
    <3>2. CASE LoadFails(r)
      BY <3>2 DEF LoadFails
    <3> QED
      BY <1>5, <3>1, <3>2
  <2>2. Only(r, pc)
    BY <1>0, <2>1, ReadsOnly DEF Places
  <2> QED
    BY <1>3, <1>5, <2>2 DEF ReadDisabled, LoadFails, Locked
<1> QED
  BY <1>2, <1>4, <1>5 DEF CleanUnknown, LazyLoadFails, UnloadFails, Ready

\* on_unload and the stop in it.
LEMMA UnloadPlaced ==
  ASSUME PlaceInv, RequestsOK', LockHeld', NEW r \in Requests,
         Unload(r) \/ UnloadAtOnce(r) \/ UnloadEnds(r) \/ StopExpires(r)
  PROVE  PlaceInv'
<1>0. RequestsOK /\ LockHeld /\ WorkerTyped
  BY DEF PlaceInv, Named
<1>1. Named'
  BY StopNamed DEF PlaceInv, Unload, UnloadAtOnce, UnloadEnds, StopExpires, Requests
<1>2. Queued(r) /\ Holds(r)
  BY <1>0 DEF Unload, UnloadAtOnce, UnloadEnds, StopExpires, ExpireStop, LockHeld, Queued, Locked
<1>3. CASE Unload(r)
  <2>1. Only(r, "stopping")
    BY <1>0, <1>3, GoesOnly DEF Unload, Places
  <2>2. QueueOK'
    BY <1>2, <1>3, <2>1, StaysQueued DEF Unload, Locked
  <2>3. \A q \in Requests \ {r} : awaited'[q] = awaited[q]
    BY <1>0, <1>3 DEF Unload, BeginStop, WorkerTyped, Requests
  <2>4. AwaitsUnderLock'
    BY <2>1, <2>3 DEF PlaceInv, AwaitsUnderLock, Only
  <2> QED
    BY <1>1, <2>2, <2>4 DEF PlaceInv
<1>4. CASE UnloadAtOnce(r) \/ UnloadEnds(r)
  <2>1. AfterUnload(r)
    BY <1>4 DEF UnloadAtOnce, UnloadEnds
  <2>2. QueueOK' /\ \E pc : Only(r, pc)
    <3>1. CASE Leaves(r)
      BY <1>2, <3>1, LeavesQueue
    <3>2. CASE req' = Goes(r, "loading") /\ queue' = queue
      <4>1. Only(r, "loading")
        BY <1>0, <3>2, GoesOnly DEF Places
      <4> QED
        BY <1>2, <3>2, <4>1, StaysQueued DEF Locked
    <3> QED
      BY <2>1, <3>1, <3>2 DEF AfterUnload
  <2>3. awaited'[r] = None /\ \A q \in Requests \ {r} : awaited'[q] = awaited[q]
    BY <1>0, <1>4 DEF UnloadAtOnce, UnloadEnds, StopsAtOnce, EndStop, WorkerTyped, Requests,
       PlaceInv, AwaitsUnderLock
  <2>4. AwaitsUnderLock'
    BY <2>2, <2>3 DEF PlaceInv, AwaitsUnderLock, Only
  <2> QED
    BY <1>1, <2>2, <2>4 DEF PlaceInv
<1>5. CASE StopExpires(r)
  <2>1. QueueOK' /\ AwaitsUnderLock'
    BY <1>5 DEF StopExpires, ExpireStop, PlaceInv, QueueOK, Queued, AwaitsUnderLock
  <2> QED
    BY <1>1, <2>1 DEF PlaceInv
<1> QED
  BY <1>3, <1>4, <1>5

LEMMA StartPlaced ==
  ASSUME ~IsFiniteSet(Loops), PlaceInv, RequestsOK', LockHeld', NEW r \in Requests,
         Load(r) \/ Nudge(r)
  PROVE  PlaceInv'
<1>0. RequestsOK
  BY DEF PlaceInv
<1>1. Named'
  BY StartNamed DEF PlaceInv, Load, Nudge
<1>2. QueueOK' /\ req[r].pc # "stopping" /\ \E pc : Only(r, pc)
  <2>1. CASE Load(r)
    <3>1. /\ req' = [req EXCEPT ![r] = [@ EXCEPT !.pc = "ready", !.read = {}]]
          /\ "ready" \in Places /\ {} \in SUBSET Tools
      BY <2>1 DEF Load, Places
    <3>2. Only(r, "ready")
      BY <1>0, <3>1, ReadsOnly
    <3> QED
      BY <2>1, <3>2, StaysQueued DEF Load, Queued, Locked
  <2>2. CASE Nudge(r)
    <3>1. Only(r, "idle")
      BY <1>0, <2>2, IdleTyped, Put DEF Only, Nudge
    <3> QED
      BY <2>2, <3>1, QueueKept DEF PlaceInv, Nudge, Queued, Locked
  <2> QED
    BY <2>1, <2>2
<1>3. awaited' = awaited
  BY DEF Load, Nudge, StartWorker
<1>4. AwaitsUnderLock'
  BY <1>2, <1>3 DEF PlaceInv, AwaitsUnderLock, Only
<1> QED
  BY <1>1, <1>2, <1>4 DEF PlaceInv

LEMMA PlaceStep ==
  ASSUME ~IsFiniteSet(Loops), PlaceInv, RequestsOK', LockHeld', [Next]_vars
  PROVE  PlaceInv'
<1>1. CASE UNCHANGED vars
  BY <1>1 DEF vars, workerVars, PlaceInv, QueueOK, Queued, Named, WorkerTyped, Used, Unused, Alive,
     AwaitsUnderLock
<1>2. CASE LoopStep /\ UNCHANGED <<db, live, queue, req, seen>>
  <2>1. Named'
    BY <1>2, LoopNamed DEF PlaceInv
  <2>2. awaited' = awaited
    BY <1>2 DEF LoopStep, EnterLoop, LeaveLoop
  <2> QED
    BY <1>2, <2>1, <2>2 DEF PlaceInv, QueueOK, Queued, AwaitsUnderLock
<1>3. CASE \E r \in Requests : Asks(r) \/ Handles(r)
  <2>1. PICK r \in Requests : Asks(r) \/ Handles(r)
    BY <1>3
  <2>2. CASE ShowCapabilities(r)
    <3>1. Only(r, "idle")
      BY <2>2, IdleTyped, Put DEF PlaceInv, Only, ShowCapabilities
    <3> QED
      BY <2>2, <3>1, OutsidePlaced DEF ShowCapabilities, Locked
  <2> QED
    BY <2>1, <2>2, AsksPlaced, WritesPlaced, LockedPlaced, UnloadPlaced, StartPlaced
    DEF Handles, Reloads
<1> QED
  BY <1>1, <1>2, <1>3 DEF Next

LEMMA PlaceImplies == PlaceInv => TypeOK
<1> SUFFICES ASSUME PlaceInv PROVE TypeOK
  OBVIOUS
<1>1. \A r \in Requests : req[r].pc \in Locked => queue[1] = r
  BY DEF PlaceInv, LockHeld, Holds
<1>2. \A r \in Requests : awaited[r] \in Loops \cup {None}
  BY DEF PlaceInv, Named, WorkerTyped, Requests
<1> QED
  BY <1>1, <1>2 DEF PlaceInv, TypeOK, RequestsOK, Rows, Served, LockHeld, QueueOK, Queued,
     AwaitsUnderLock, Named, WorkerTyped

\* The plugin's lock is first come, first served: whoever is in its queue waits or is at work,
\* once, and the one at work is first. Only that one awaits a worker loop. Names for loops must
\* not run out: a start that found none would be cut off.
THEOREM LifecycleTyped == ASSUME ~IsFiniteSet(Loops) PROVE Spec => []TypeOK
<1>1. Init => ServeInv /\ PlaceInv
  BY ServeInit, PlaceInit
<1>2. ServeInv /\ PlaceInv /\ [Next]_vars => (ServeInv /\ PlaceInv)'
  BY ServeStep, PlaceStep DEF ServeInv
<1> QED
  BY <1>1, <1>2, PlaceImplies, PTL DEF Spec
=================================================================================
