--------------------------- MODULE ProxySessions ---------------------------
(***************************************************************************)
(* Upstream sessions of the proxied MCP servers (core/proxy/compose.py):   *)
(* every call passes _SessionGateMixin.connect_session, which asks the     *)
(* proxy's CircuitBreaker, then the proxy's SessionGate, then the process- *)
(* wide gate, and holds both slots for the life of the session.            *)
(*                                                                         *)
(* All of it runs on one event loop, so a step of this module is what a    *)
(* task does between two awaits: the two gates are asked in one step when  *)
(* neither makes the caller wait, and both are released in one step.       *)
(***************************************************************************)
EXTENDS SessionGate

CONSTANTS
    Calls,         \* the tasks that open sessions; one runs a call at a time
    Proxies,       \* the mounted upstreams
    MaxSessions,   \* proxy_max_concurrent_sessions
    MaxTotal,      \* proxy_max_total_sessions
    MaxQueued,     \* proxy_max_queued_sessions
    MaxAttempts,   \* proxy_reconnect_max_attempts; 0 means retry forever
    Global         \* the name of the process-wide gate

ASSUME LimitsAssumption ==
    /\ MaxSessions \in Nat \ {0}
    /\ MaxTotal \in Nat \ {0}
    /\ MaxQueued \in Nat
    /\ MaxAttempts \in Nat
ASSUME GatesAssumption == Global \notin Proxies
ASSUME CallsAssumption == IsFiniteSet(Calls)

VARIABLES
    gates,      \* one record per proxy and one for Global
    pc,         \* where each call stands in connect_session
    via,        \* the proxy of each call, Global when it has none
    doom,       \* what has hit a parked call that has not run again yet
    before,     \* <<t, u>>: both are parked and t parked first, so that its
                \* acquire timeout (one value for all gates) also fires first
    failures,   \* CircuitBreaker.failures
    cooling,    \* now < CircuitBreaker.retry_at
    current     \* calls admitted in CircuitBreaker.generation as it is now

gateVars == <<gates, pc, via, doom, before>>
breakerVars == <<failures, cooling, current>>
vars == <<gateVars, breakerVars>>

Gates == Proxies \cup {Global}
Limit(g) == IF g = Global THEN MaxTotal ELSE MaxSessions

\* _get_global_gate: every proxy's queue drains into this one.
QueueCap(g) ==
    IF g # Global THEN MaxQueued
    ELSE IF MaxQueued * 4 > MaxTotal THEN MaxQueued * 4 ELSE MaxTotal

-----------------------------------------------------------------------------
(* Who stands where. *)

\* Calls parked at a gate, whatever has happened to their future.
Waiters(g) == IF g = Global THEN {t \in Calls : pc[t] = "global"}
              ELSE {t \in Calls : pc[t] = "local" /\ via[t] = g}

\* Calls inside the gate's slot() block.
Inside(g) == IF g = Global THEN {t \in Calls : pc[t] = "session"}
             ELSE {t \in Calls : pc[t] \in {"global", "session"} /\ via[t] = g}

Parked == {t \in Calls : pc[t] \in {"local", "global"}}
GateOf(t) == IF pc[t] = "global" THEN Global ELSE via[t]

-----------------------------------------------------------------------------
(* CircuitBreaker.  The generation is only ever compared with the one a   *)
(* call was admitted in, so the model keeps the calls that hold the       *)
(* current one: bumping it empties the set.                               *)

Exhausted(n) == MaxAttempts > 0 /\ n >= MaxAttempts

\* check() returns instead of raising.
Admits(p) == failures[p] = 0 \/ (~Exhausted(failures[p]) /\ ~cooling[p])

BreakerSuccess(p, t) ==
    /\ failures' = [failures EXCEPT ![p] = 0]
    /\ cooling' = [cooling EXCEPT ![p] = FALSE]
    /\ current' = [current EXCEPT ![p] = IF failures[p] > 0 THEN {} ELSE @ \ {t}]

\* Mutant of Counts: the generation is not compared.
CountsAnyGeneration(p, t) == ~Exhausted(failures[p])

\* Whether failure() counts the call, or returns early.
Counts(p, t) == t \in current[p] /\ ~Exhausted(failures[p])

BreakerFailure(p, t) ==
    IF Counts(p, t)
    THEN /\ failures' = [failures EXCEPT ![p] = @ + 1]
         /\ cooling' = [cooling EXCEPT ![p] = TRUE]
         /\ current' = [current EXCEPT ![p] = {}]
    ELSE /\ current' = [current EXCEPT ![p] = @ \ {t}]
         /\ UNCHANGED <<failures, cooling>>

\* Neither success() nor failure() is called.
BreakerIgnores(p, t) ==
    /\ current' = [current EXCEPT ![p] = @ \ {t}]
    /\ UNCHANGED <<failures, cooling>>

\* check() hands the call the generation.
BreakerAdmits(p, t) ==
    /\ current' = [current EXCEPT ![p] = @ \cup {t}]
    /\ UNCHANGED <<failures, cooling>>

-----------------------------------------------------------------------------
TypeOK ==
    /\ gates \in [Gates -> [free : Nat, pending : SUBSET Calls, granted : SUBSET Calls,
                            waiting : Nat, open : Nat]]
    /\ pc \in [Calls -> {"idle", "local", "global", "session"}]
    /\ via \in [Calls -> Gates]
    /\ doom \in [Calls -> {"no", "timeout", "cancel"}]
    /\ before \subseteq Calls \X Calls
    /\ failures \in [Proxies -> Nat]
    /\ cooling \in [Proxies -> BOOLEAN]
    /\ current \in [Proxies -> SUBSET Calls]

Init ==
    /\ gates = [g \in Gates |-> NewGate(Limit(g))]
    /\ pc = [t \in Calls |-> "idle"]
    /\ via = [t \in Calls |-> Global]
    /\ doom = [t \in Calls |-> "no"]
    /\ before = {}
    /\ failures = [p \in Proxies |-> 0]
    /\ cooling = [p \in Proxies |-> FALSE]
    /\ current = [p \in Proxies |-> {}]

-----------------------------------------------------------------------------
(* The task side of a step: where the call goes, and the line it leaves or *)
(* joins.                                                                  *)

Unlined(t) == {b \in before : b[1] # t /\ b[2] # t}

\* t parks behind everyone parked now (and is not parked itself meanwhile).
Lined(t) == Unlined(t) \cup {<<u, t>> : u \in Parked \ {t}}

ParksAt(t, p, where) ==
    /\ pc' = [pc EXCEPT ![t] = where]
    /\ via' = [via EXCEPT ![t] = p]
    /\ before' = Lined(t)
    /\ UNCHANGED doom

Opens(t, p) ==
    /\ pc' = [pc EXCEPT ![t] = "session"]
    /\ via' = [via EXCEPT ![t] = p]
    /\ before' = Unlined(t)
    /\ UNCHANGED doom

Leaves(t) ==
    /\ pc' = [pc EXCEPT ![t] = "idle"]
    /\ via' = [via EXCEPT ![t] = Global]
    /\ doom' = [doom EXCEPT ![t] = "no"]
    /\ before' = Unlined(t)

-----------------------------------------------------------------------------
(* connect_session, up to its first await. *)

\* check() raises ProxyBackoffError: no slot, no queue, no state changed.
FailFast(t, p) ==
    /\ pc[t] = "idle"
    /\ ~Admits(p)
    /\ UNCHANGED vars

\* The proxy's own queue is full: shed, and the breaker hears nothing.
ShedLocal(t, p) ==
    /\ pc[t] = "idle"
    /\ Admits(p)
    /\ Full(gates[p], QueueCap(p))
    /\ UNCHANGED vars

ParkLocal(t, p) ==
    /\ pc[t] = "idle"
    /\ Admits(p)
    /\ Locked(gates[p]) /\ ~Full(gates[p], QueueCap(p))
    /\ gates' = [gates EXCEPT ![p] = Park(@, t)]
    /\ ParksAt(t, p, "local")
    /\ BreakerAdmits(p, t)

\* t has just taken p's slot, which left p's gate as `local`; in the same
\* step it asks the global gate.  Shed there, it leaves at once, p's slot
\* goes back and the breaker hears nothing.  `admitted` is current[p] with
\* what the caller's admission made of it.
AsksGlobal(t, p, local, admitted) ==
    /\ \/ /\ Full(gates[Global], QueueCap(Global))
          /\ \E l \in Released(local, before) : gates' = [gates EXCEPT ![p] = l]
          /\ Leaves(t)
          /\ current' = [current EXCEPT ![p] = admitted \ {t}]
       \/ /\ Locked(gates[Global]) /\ ~Full(gates[Global], QueueCap(Global))
          /\ gates' = [gates EXCEPT ![p] = local, ![Global] = Park(@, t)]
          /\ ParksAt(t, p, "global")
          /\ current' = [current EXCEPT ![p] = admitted]
       \/ /\ ~Locked(gates[Global])
          /\ gates' = [gates EXCEPT ![p] = local, ![Global] = Take(@)]
          /\ Opens(t, p)
          /\ current' = [current EXCEPT ![p] = admitted]
    /\ UNCHANGED <<failures, cooling>>

TakeLocal(t, p) ==
    /\ pc[t] = "idle"
    /\ Admits(p)
    /\ ~Locked(gates[p])
    /\ AsksGlobal(t, p, Take(gates[p]), current[p] \cup {t})

-----------------------------------------------------------------------------
(* A parked call runs again. *)

ResumeLocal(t) ==
    /\ pc[t] = "local" /\ doom[t] = "no"
    /\ t \in gates[via[t]].granted
    /\ \E local \in Resumed(gates[via[t]], t, before) :
          AsksGlobal(t, via[t], local, current[via[t]])

ResumeGlobal(t) ==
    /\ pc[t] = "global" /\ doom[t] = "no"
    /\ t \in gates[Global].granted
    /\ \E g \in Resumed(gates[Global], t, before) : gates' = [gates EXCEPT ![Global] = g]
    /\ Opens(t, via[t])
    /\ UNCHANGED breakerVars

\* Only the proxy's own gate timing out counts against its breaker.
ResumeDoomedLocal(t) ==
    /\ pc[t] = "local" /\ doom[t] # "no"
    /\ \E l \in GaveUp(gates[via[t]], t, before) : gates' = [gates EXCEPT ![via[t]] = l]
    /\ Leaves(t)
    /\ IF doom[t] = "timeout" THEN BreakerFailure(via[t], t) ELSE BreakerIgnores(via[t], t)

\* The global wait failed: the call also unwinds out of the proxy's slot.
ResumeDoomedGlobal(t) ==
    /\ pc[t] = "global" /\ doom[t] # "no"
    /\ \E g \in GaveUp(gates[Global], t, before), l \in Released(gates[via[t]], before) :
          gates' = [gates EXCEPT ![Global] = g, ![via[t]] = l]
    /\ Leaves(t)
    /\ BreakerIgnores(via[t], t)

-----------------------------------------------------------------------------
(* What the event loop and the outside world do to a call. *)

Hit(t, what) ==
    /\ gates' = [gates EXCEPT ![GateOf(t)] = Abandon(@, t)]
    /\ doom' = [doom EXCEPT ![t] = what]
    /\ UNCHANGED <<pc, via, breakerVars>>

\* Mutant of Expire: no timeout around the wait for the global gate.
ExpireLocalOnly(t) ==
    /\ pc[t] = "local" /\ doom[t] = "no"
    /\ Hit(t, "timeout")
    /\ before' = Unlined(t)

\* asyncio.timeout fires.  All gates share one timeout, so the timers fire
\* in the order they were armed.
Expire(t) ==
    /\ t \in Parked /\ doom[t] = "no"
    /\ t \in Oldest({u \in Parked : doom[u] = "no"}, before)
    /\ Hit(t, "timeout")
    /\ before' = Unlined(t)

\* The caller's task is cancelled; a timeout already on its way loses.
Cancel(t) ==
    /\ t \in Parked /\ doom[t] # "cancel"
    /\ Hit(t, "cancel")
    /\ before' = Unlined(t)

\* The session block ends, both slots go back, and the breaker is told.
EndSession(t, how) ==
    /\ pc[t] = "session"
    /\ \E g \in Released(gates[Global], before), l \in Released(gates[via[t]], before) :
          gates' = [gates EXCEPT ![Global] = g, ![via[t]] = l]
    /\ Leaves(t)
    /\ CASE how = "ok"        -> BreakerSuccess(via[t], t)
         [] how = "error"     -> BreakerFailure(via[t], t)
         [] how = "cancelled" -> BreakerIgnores(via[t], t)

\* The backoff window passes.
WindowEnds(p) ==
    /\ cooling[p]
    /\ cooling' = [cooling EXCEPT ![p] = FALSE]
    /\ UNCHANGED <<gateVars, failures, current>>

-----------------------------------------------------------------------------
Connect(t, p) == FailFast(t, p) \/ ShedLocal(t, p) \/ ParkLocal(t, p) \/ TakeLocal(t, p)

Resume(t) ==
    ResumeLocal(t) \/ ResumeGlobal(t) \/ ResumeDoomedLocal(t) \/ ResumeDoomedGlobal(t)

Next ==
    \/ \E t \in Calls :
         \/ \E p \in Proxies : Connect(t, p)
         \/ Resume(t)
         \/ Expire(t)
         \/ Cancel(t)
         \/ \E how \in {"ok", "error", "cancelled"} : EndSession(t, how)
    \/ \E p \in Proxies : WindowEnds(p)

\* The event loop runs every task that is ready and every timer that is due.
\* Nothing makes an upstream answer, so no session has to end.
Fairness == \A t \in Calls : WF_vars(Resume(t)) /\ WF_vars(Expire(t))

Spec == Init /\ [][Next]_vars /\ Fairness

-----------------------------------------------------------------------------
\* SessionGate's counters and permits always agree with the calls that are
\* really parked at, and inside, each gate: no slot is leaked or handed out
\* twice by a release, a timeout, a cancellation and a grant meeting in any
\* order, and `waiting` and `open` count exactly these calls.
SlotsAccounted ==
    \A g \in Gates :
        /\ gates[g].free + Cardinality(gates[g].granted) + Cardinality(Inside(g)) = Limit(g)
        /\ gates[g].open = Cardinality(Inside(g))
        /\ gates[g].waiting = Cardinality(Waiters(g))

\* A free permit never sits beside parked calls unless a call that was
\* granted one is about to run and pass it on: no release is lost on a
\* waiter that timed out or was cancelled.
NoLostWakeup ==
    \A g \in Gates :
        gates[g].free > 0 /\ gates[g].pending # {} => gates[g].granted # {}

\* Sessions that failed together count once: after a counted failure no
\* other failure counts until the backoff window has passed, whatever calls
\* were still in flight, parked or open, when it was counted.
BurstCountsOnce ==
    [][\A p \in Proxies : failures'[p] > failures[p] => ~cooling[p]]_vars

\* A parked call is answered, by a session or by an error, even when no
\* session ever ends: the acquire timeouts see to it.
WaitersAnswered ==
    \A t \in Calls : t \in Parked ~> pc[t] \in {"idle", "session"}

\* The gates and the breaker together keep the promise of SessionPool: both
\* caps hold over the sessions really open, a window takes one strike at
\* most, none follows the last, and only a clean session end forgives.
Pool == INSTANCE SessionPool WITH
    sessions <- {<<t, via[t]>> : t \in {u \in Calls : pc[u] = "session"}},
    strikes <- failures,
    resting <- cooling
PoolSpec == Pool!Spec
=============================================================================
