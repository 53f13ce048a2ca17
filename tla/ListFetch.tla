----------------------------- MODULE ListFetch -----------------------------
(***************************************************************************)
(* CoalescingProxyProvider of core/proxy/compose.py, for one list kind     *)
(* (tools, resources, templates or prompts): callers share one upstream    *)
(* fetch, a success is memoized for list_ttl_s, and consecutive failures   *)
(* back off and give up at the attempt cap.                                *)
(*                                                                         *)
(* One event loop: _coalesced runs to its await in one step, and so does   *)
(* _finish_fetch, which the loop calls some time after the fetch is done.  *)
(***************************************************************************)
EXTENDS Naturals

CONSTANTS
    Callers,      \* tasks that list
    Fetches,      \* upstream fetches; reused once nobody holds them
    None,         \* no fetch
    MaxAttempts   \* proxy_reconnect_max_attempts; 0 means retry forever

ASSUME NoneAssumption == None \notin Fetches
ASSUME AttemptsAssumption == MaxAttempts \in Nat

VARIABLES
    memo,       \* a success younger than the ttl is in _list_memo
    inflight,   \* _list_inflight.get(kind)
    fetch,      \* how each fetch stands; "done" ones have not been finished
    outcome,    \* what a fetch that is over came to
    waits,      \* the fetch each caller awaits, None when it is not listing
    failures,   \* _list_failures: the consecutive failures
    cooling     \* now < retry_at

failVars == <<failures, cooling>>
vars == <<memo, inflight, fetch, outcome, waits, failVars>>

Outcomes == {"ok", "error", "cancelled"}

TypeOK ==
    /\ memo \in BOOLEAN
    /\ inflight \in Fetches \cup {None}
    /\ fetch \in [Fetches -> {"unused", "running", "done", "finished"}]
    /\ outcome \in [Fetches -> Outcomes \cup {"none"}]
    /\ waits \in [Callers -> Fetches \cup {None}]
    /\ failures \in Nat
    /\ cooling \in BOOLEAN

Init ==
    /\ memo = FALSE
    /\ inflight = None
    /\ fetch = [f \in Fetches |-> "unused"]
    /\ outcome = [f \in Fetches |-> "none"]
    /\ waits = [c \in Callers |-> None]
    /\ failures = 0
    /\ cooling = FALSE

Exhausted(n) == MaxAttempts > 0 /\ n >= MaxAttempts

\* _check_backoff returns instead of raising.
Admits == failures = 0 \/ (~Exhausted(failures) /\ ~cooling)

Running == {f \in Fetches : fetch[f] = "running"}

-----------------------------------------------------------------------------
(* _coalesced, up to its await.  A memo hit and a ProxyBackoffError change  *)
(* nothing and answer at once.                                             *)

Hits(c) == waits[c] = None /\ memo /\ UNCHANGED vars

FailsFast(c) == waits[c] = None /\ ~memo /\ inflight = None /\ ~Admits /\ UNCHANGED vars

Joins(c) ==
    /\ waits[c] = None /\ ~memo
    /\ inflight # None
    /\ waits' = [waits EXCEPT ![c] = inflight]
    /\ UNCHANGED <<memo, inflight, fetch, outcome, failVars>>

\* Mutant of Begins: the slot of the fetch in flight is not looked at.
BeginsAnother(c, f) ==
    /\ waits[c] = None /\ ~memo
    /\ Admits
    /\ fetch[f] = "unused"
    /\ fetch' = [fetch EXCEPT ![f] = "running"]
    /\ inflight' = f
    /\ waits' = [waits EXCEPT ![c] = f]
    /\ UNCHANGED <<memo, outcome, failVars>>

Begins(c, f) ==
    /\ waits[c] = None /\ ~memo
    /\ inflight = None /\ Admits
    /\ fetch[f] = "unused"
    /\ fetch' = [fetch EXCEPT ![f] = "running"]
    /\ inflight' = f
    /\ waits' = [waits EXCEPT ![c] = f]
    /\ UNCHANGED <<memo, outcome, failVars>>

-----------------------------------------------------------------------------
(* The fetch. *)

\* It returns, raises, or is cancelled from inside the client library.
Ends(f, how) ==
    /\ fetch[f] = "running"
    /\ fetch' = [fetch EXCEPT ![f] = "done"]
    /\ outcome' = [outcome EXCEPT ![f] = how]
    /\ UNCHANGED <<memo, inflight, waits, failVars>>

\* Mutant of Clears: the slot is cleared only by a fetch that was not cancelled.
ClearsUnlessCancelled(f) == IF outcome[f] = "cancelled" THEN inflight ELSE None

Clears(f) == IF inflight = f THEN None ELSE inflight

\* Mutant of Settles: a success takes one failure back.
SettlesByOne(f) ==
    CASE outcome[f] = "ok" -> memo' = TRUE /\ failures' = failures - 1 /\ cooling' = FALSE
      [] outcome[f] = "error" -> failures' = failures + 1 /\ cooling' = TRUE /\ UNCHANGED memo
      [] outcome[f] = "cancelled" -> UNCHANGED <<memo, failVars>>

Settles(f) ==
    CASE outcome[f] = "ok" -> memo' = TRUE /\ failures' = 0 /\ cooling' = FALSE
      [] outcome[f] = "error" -> failures' = failures + 1 /\ cooling' = TRUE /\ UNCHANGED memo
      [] outcome[f] = "cancelled" -> UNCHANGED <<memo, failVars>>

\* _finish_fetch, the done callback.
Finishes(f) ==
    /\ fetch[f] = "done"
    /\ fetch' = [fetch EXCEPT ![f] = "finished"]
    /\ inflight' = Clears(f)
    /\ Settles(f)
    /\ UNCHANGED <<outcome, waits>>

\* A caller runs again with the result or the error of the fetch it awaits.
Answers(c) ==
    /\ waits[c] # None
    /\ fetch[waits[c]] \in {"done", "finished"}
    /\ waits' = [waits EXCEPT ![c] = None]
    /\ UNCHANGED <<memo, inflight, fetch, outcome, failVars>>

\* Mutant of Cancels: without the shield the fetch goes with the caller.
CancelsFetchToo(c) ==
    /\ waits[c] # None
    /\ waits' = [waits EXCEPT ![c] = None]
    /\ fetch' = [fetch EXCEPT ![waits[c]] = IF @ = "running" THEN "done" ELSE @]
    /\ outcome' = [outcome EXCEPT ![waits[c]] = IF @ = "none" THEN "cancelled" ELSE @]
    /\ UNCHANGED <<memo, inflight, failVars>>

\* A caller is cancelled; the shield keeps the fetch going.
Cancels(c) ==
    /\ waits[c] # None
    /\ waits' = [waits EXCEPT ![c] = None]
    /\ UNCHANGED <<memo, inflight, fetch, outcome, failVars>>

\* Nobody refers to a finished fetch any more.
Forgets(f) ==
    /\ fetch[f] = "finished" /\ \A c \in Callers : waits[c] # f
    /\ fetch' = [fetch EXCEPT ![f] = "unused"]
    /\ outcome' = [outcome EXCEPT ![f] = "none"]
    /\ UNCHANGED <<memo, inflight, waits, failVars>>

-----------------------------------------------------------------------------
MemoExpires == memo /\ memo' = FALSE /\ UNCHANGED <<inflight, fetch, outcome, waits, failVars>>

WindowEnds ==
    /\ cooling /\ cooling' = FALSE
    /\ UNCHANGED <<memo, inflight, fetch, outcome, waits, failures>>

\* reset_backoff.
Resets ==
    /\ failures' = 0 /\ cooling' = FALSE
    /\ UNCHANGED <<memo, inflight, fetch, outcome, waits>>

Next ==
    \/ \E c \in Callers :
         \/ Hits(c) \/ FailsFast(c) \/ Joins(c) \/ Answers(c) \/ Cancels(c)
         \/ \E f \in Fetches : Begins(c, f)
    \/ \E f \in Fetches :
         \/ \E how \in Outcomes : Ends(f, how)
         \/ Finishes(f) \/ Forgets(f)
    \/ MemoExpires \/ WindowEnds \/ Resets

\* The loop runs callbacks and woken callers, and the client's timeouts end
\* every fetch.
Fairness ==
    /\ \A c \in Callers : WF_vars(Answers(c))
    /\ \A f \in Fetches : WF_vars(\E how \in Outcomes : Ends(f, how)) /\ WF_vars(Finishes(f))

Spec == Init /\ [][Next]_vars /\ Fairness

-----------------------------------------------------------------------------
\* However many callers list at once, are cancelled, or come between the end
\* of a fetch and its callback, the upstream sees one fetch at a time, and
\* no fetch after the provider gave up.
SingleFlight == Running \subseteq {inflight} /\ (Running # {} => ~Exhausted(failures))

\* on_exhausted, which unmounts the proxy, fires once: no failure is counted
\* past the cap.
GivesUpOnce == [][failures' > failures => ~Exhausted(failures)]_vars

\* A caller's cancellation is its own: whoever else awaits the fetch gets
\* what the upstream answers.
CancellationIsOwn ==
    [][\A f \in Fetches : fetch[f] = "running" /\ fetch'[f] # "running"
         => waits' = waits]_vars

\* However a fetch ends, its slot is free again, so that the next caller
\* starts afresh and does not join what is over.
SlotFreed == inflight # None ~> inflight = None
=============================================================================
