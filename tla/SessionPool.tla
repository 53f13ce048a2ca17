---------------------------- MODULE SessionPool ----------------------------
(***************************************************************************)
(* What core/proxy/compose.py promises of upstream sessions, without the   *)
(* gates, queues, timeouts and generations that make it true: a bounded    *)
(* pool of sessions, and per proxy a count of consecutive strikes of which *)
(* at most one is added per backoff window and none after the last.        *)
(***************************************************************************)
EXTENDS Naturals, FiniteSets

CONSTANTS Calls, Proxies, MaxSessions, MaxTotal, MaxAttempts

VARIABLES
    sessions,   \* the open sessions, as pairs <<call, proxy>>
    strikes,    \* consecutive failures counted against each proxy
    resting     \* each proxy inside its backoff window

vars == <<sessions, strikes, resting>>

GaveUp(p) == MaxAttempts > 0 /\ strikes[p] >= MaxAttempts
OfProxy(p) == {s \in sessions : s[2] = p}

Init ==
    /\ sessions = {}
    /\ strikes = [p \in Proxies |-> 0]
    /\ resting = [p \in Proxies |-> FALSE]

\* A call gets a session only while both caps leave room for it.
Open(t, p) ==
    /\ \A s \in sessions : s[1] # t
    /\ Cardinality(OfProxy(p)) < MaxSessions
    /\ Cardinality(sessions) < MaxTotal
    /\ sessions' = sessions \cup {<<t, p>>}
    /\ UNCHANGED <<strikes, resting>>

\* A strike is added only outside the window, and starts the next one.
Strike(p) ==
    /\ ~resting[p] /\ ~GaveUp(p)
    /\ strikes' = [strikes EXCEPT ![p] = @ + 1]
    /\ resting' = [resting EXCEPT ![p] = TRUE]

\* Only a session that ends well forgives the strikes.
Forgive(p) ==
    /\ strikes' = [strikes EXCEPT ![p] = 0]
    /\ resting' = [resting EXCEPT ![p] = FALSE]

Close(t, p) ==
    /\ <<t, p>> \in sessions
    /\ sessions' = sessions \ {<<t, p>>}
    /\ Strike(p) \/ Forgive(p) \/ UNCHANGED <<strikes, resting>>

\* A call that waited too long for a slot strikes without a session.
WaitedTooLong(p) == Strike(p) /\ UNCHANGED sessions

WindowEnds(p) ==
    /\ resting[p]
    /\ resting' = [resting EXCEPT ![p] = FALSE]
    /\ UNCHANGED <<sessions, strikes>>

Next ==
    \E p \in Proxies :
        \/ \E t \in Calls : Open(t, p) \/ Close(t, p)
        \/ WaitedTooLong(p)
        \/ WindowEnds(p)

Spec == Init /\ [][Next]_vars
=============================================================================
