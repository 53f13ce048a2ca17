---------------------------- MODULE SessionGate ----------------------------
(***************************************************************************)
(* SessionGate of core/proxy/compose.py and the asyncio.Semaphore inside   *)
(* it, as operators on one gate record.                                    *)
(*                                                                         *)
(*   free     the semaphore's value                                        *)
(*   pending  callers parked on a future that is neither set nor cancelled *)
(*   granted  callers whose future was set by a release but whose task has *)
(*            not run again yet; the permit is theirs already              *)
(*   waiting  SessionGate.waiting                                          *)
(*   open     SessionGate.open                                             *)
(*                                                                         *)
(* The order of the deque of waiters is kept once for all gates, as the    *)
(* pairs <<t, u>> of parked callers of which t parked first.  Operators    *)
(* that wake somebody take that relation, `before`, and return the set of  *)
(* gate records the step may lead to.                                      *)
(***************************************************************************)
EXTENDS Naturals, FiniteSets

NewGate(limit) ==
    [free |-> limit, pending |-> {}, granted |-> {}, waiting |-> 0, open |-> 0]

\* Semaphore.locked(): no permit, or somebody already in line for one.
Locked(g) == g.free = 0 \/ g.pending # {} \/ g.granted # {}

\* The rejection test at the top of slot().
Full(g, cap) == Locked(g) /\ g.waiting >= cap

\* acquire() finds the semaphore unlocked: the caller never suspends.
Take(g) == [g EXCEPT !.free = @ - 1, !.open = @ + 1]

\* Mutant of Park: the caller is not counted before it waits.
ParkUncounted(g, t) == [g EXCEPT !.pending = @ \cup {t}]

\* acquire() parks the caller.
Park(g, t) == [g EXCEPT !.pending = @ \cup {t}, !.waiting = @ + 1]

\* The waiter _wake_up_next() picks: the first in the deque.
Oldest(S, before) == {t \in S : \A u \in S : <<u, t>> \notin before}

\* _wake_up_next(): hand one permit to the first waiter still pending.
WakeNext(g, before) ==
    IF g.pending = {}
    THEN {g}
    ELSE {[g EXCEPT !.free = @ - 1, !.pending = @ \ {t}, !.granted = @ \cup {t}]
            : t \in Oldest(g.pending, before)}

\* A granted caller runs again: it leaves the deque, passes spare permits
\* on, and slot() moves it from `waiting` to `open`.
Resumed(g, t, before) ==
    LET h == [g EXCEPT !.granted = @ \ {t}, !.waiting = @ - 1, !.open = @ + 1]
    IN  IF h.free > 0 THEN WakeNext(h, before) ELSE {h}

\* The timeout or a cancellation hits a parked caller: its future, if still
\* pending, is cancelled and will never be set.
Abandon(g, t) == [g EXCEPT !.pending = @ \ {t}]

\* Mutants of GaveUp: the permit granted meanwhile is dropped; a permit is
\* given back whether or not one was granted.
GaveUpDropping(g, t, before) == {[g EXCEPT !.waiting = @ - 1, !.granted = @ \ {t}]}
GaveUpAlwaysReturning(g, t, before) ==
    WakeNext([g EXCEPT !.waiting = @ - 1, !.granted = @ \ {t}, !.free = @ + 1], before)

\* The abandoned caller runs again: it gives back a permit it was granted
\* meanwhile, and slot() uncounts it.
GaveUp(g, t, before) ==
    LET h == [g EXCEPT !.waiting = @ - 1]
    IN  IF t \in h.granted
        THEN WakeNext([h EXCEPT !.granted = @ \ {t}, !.free = @ + 1], before)
        ELSE {h}

\* Mutant of Released: nobody is woken.
ReleasedSilently(g, before) == {[g EXCEPT !.open = @ - 1, !.free = @ + 1]}

\* The exit of slot(): open goes down, release() wakes the next waiter.
Released(g, before) ==
    WakeNext([g EXCEPT !.open = @ - 1, !.free = @ + 1], before)
=============================================================================
