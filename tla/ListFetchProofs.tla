-------------------------- MODULE ListFetchProofs --------------------------
(***************************************************************************)
(* Theorems about ListFetch, for any callers, fetches and attempt cap.     *)
(*                                                                         *)
(* SingleFlight is not inductive: a fetch that is over keeps the slot      *)
(* until its callback, and only because nothing begins meanwhile is the    *)
(* failure count it adds to the one it began under.                        *)
(***************************************************************************)
EXTENDS ListFetch, TLAPS

\* The slot is held by the one fetch that is not finished, and was taken
\* below the cap.
SlotHeld ==
    /\ \A f \in Fetches : fetch[f] \in {"running", "done"} => inflight = f
    /\ inflight # None => fetch[inflight] \in {"running", "done"} /\ ~Exhausted(failures)
    /\ \A f \in Fetches : fetch[f] = "done" => outcome[f] \in Outcomes

IInv == TypeOK /\ SlotHeld

LEMMA InitIInv == Init => IInv
<1> SUFFICES ASSUME Init PROVE IInv
  OBVIOUS
<1>1. TypeOK
  BY DEF Init, TypeOK
<1>2. SlotHeld
  BY DEF Init, SlotHeld
<1> QED BY <1>1, <1>2 DEF IInv

LEMMA NextIInv == IInv /\ [Next]_vars => IInv'
<1> SUFFICES ASSUME IInv, [Next]_vars PROVE IInv'
  OBVIOUS
<1> USE NoneAssumption, AttemptsAssumption
<1>1. ASSUME NEW c \in Callers, Hits(c) \/ FailsFast(c) PROVE IInv'
  BY <1>1 DEF Hits, FailsFast, vars, failVars, IInv, TypeOK, SlotHeld, Exhausted
<1>2. ASSUME NEW c \in Callers, Joins(c) PROVE IInv'
  BY <1>2 DEF Joins, failVars, IInv, TypeOK, SlotHeld, Exhausted
<1>3. ASSUME NEW c \in Callers, Answers(c) \/ Cancels(c) PROVE IInv'
  BY <1>3 DEF Answers, Cancels, failVars, IInv, TypeOK, SlotHeld, Exhausted
<1>4. ASSUME NEW c \in Callers, NEW f \in Fetches, Begins(c, f) PROVE IInv'
  BY <1>4 DEF Begins, Admits, failVars, IInv, TypeOK, SlotHeld, Exhausted
<1>5. ASSUME NEW f \in Fetches, NEW how \in Outcomes, Ends(f, how) PROVE IInv'
  BY <1>5 DEF Ends, failVars, IInv, TypeOK, SlotHeld, Exhausted
<1>6. ASSUME NEW f \in Fetches, Finishes(f) PROVE IInv'
  <2>1. inflight = f /\ outcome[f] \in Outcomes
    BY <1>6 DEF Finishes, IInv, SlotHeld
  <2>2. inflight' = None /\ fetch' = [fetch EXCEPT ![f] = "finished"]
    BY <1>6, <2>1 DEF Finishes, Clears
  <2>3. memo' \in BOOLEAN /\ failures' \in Nat /\ cooling' \in BOOLEAN
    <3>1. CASE outcome[f] = "ok"
      <4>1. memo' = TRUE /\ failures' = 0 /\ cooling' = FALSE
        BY <1>6, <3>1 DEF Finishes, Settles
      <4> QED BY <4>1
    <3>2. CASE outcome[f] = "error"
      BY <1>6, <3>2 DEF Finishes, Settles, IInv, TypeOK
    <3>3. CASE outcome[f] = "cancelled"
      BY <1>6, <3>3 DEF Finishes, Settles, failVars, IInv, TypeOK
    <3> QED BY <2>1, <3>1, <3>2, <3>3 DEF Outcomes
  <2>4. TypeOK'
    BY <1>6, <2>2, <2>3 DEF Finishes, IInv, TypeOK
  <2>5. SlotHeld'
    BY <1>6, <2>1, <2>2 DEF Finishes, IInv, TypeOK, SlotHeld
  <2> QED BY <2>4, <2>5 DEF IInv
<1>7. ASSUME NEW f \in Fetches, Forgets(f) PROVE IInv'
  BY <1>7 DEF Forgets, failVars, IInv, TypeOK, SlotHeld, Exhausted
<1>8. CASE MemoExpires \/ WindowEnds
  BY <1>8 DEF MemoExpires, WindowEnds, failVars, IInv, TypeOK, SlotHeld, Exhausted
<1>9. CASE Resets
  <2>1. TypeOK'
    BY <1>9 DEF Resets, IInv, TypeOK
  <2>2. ~Exhausted(failures')
    BY <1>9 DEF Resets, Exhausted
  <2>3. SlotHeld'
    BY <1>9, <2>2 DEF Resets, IInv, SlotHeld
  <2> QED BY <2>1, <2>3 DEF IInv
<1>10. CASE UNCHANGED vars
  BY <1>10 DEF vars, failVars, IInv, TypeOK, SlotHeld, Exhausted
<1> QED
  BY <1>1, <1>2, <1>3, <1>4, <1>5, <1>6, <1>7, <1>8, <1>9, <1>10 DEF Next

THEOREM Invariance == Spec => []IInv
  BY InitIInv, NextIInv, PTL DEF Spec

\* _list_inflight, memo and failure count keep their types.
THEOREM ListTyping == Spec => []TypeOK
<1>1. IInv => TypeOK
  BY DEF IInv
<1> QED BY <1>1, Invariance, PTL

\* The upstream sees one fetch of a list at a time, and none past the cap.
THEOREM OneFetchAtATime == Spec => []SingleFlight
<1>1. IInv => SingleFlight
  BY NoneAssumption DEF IInv, SlotHeld, SingleFlight, Running
<1> QED BY <1>1, Invariance, PTL

\* _record_failure never counts past the cap: on_exhausted fires once.
THEOREM ExhaustedFiresOnce == Spec => GivesUpOnce
<1> DEFINE Once == failures' > failures => ~Exhausted(failures)
<1>1. IInv /\ [Next]_vars => [Once]_vars
  <2> SUFFICES ASSUME IInv, [Next]_vars, failures' > failures PROVE ~Exhausted(failures)
    OBVIOUS
  <2>1. failures \in Nat
    BY DEF IInv, TypeOK
  <2>2. PICK f \in Fetches : Finishes(f)
    <3>1. failures' # failures /\ failures' # 0
      BY <2>1
    <3> QED
      BY <3>1 DEF Next, vars, failVars, Hits, FailsFast, Joins, Answers, Cancels, Begins,
                   Ends, Forgets, MemoExpires, WindowEnds, Resets
  <2> QED BY <2>2, NoneAssumption DEF Finishes, IInv, SlotHeld
<1>2. Spec => [][Next]_vars
  BY DEF Spec
<1>3. Spec => [][Once]_vars
  BY <1>1, <1>2, Invariance, PTL
<1> QED BY <1>3 DEF GivesUpOnce

\* asyncio.shield: no step that ends a running fetch answers a caller in passing, and no caller
\* that is cancelled takes the fetch with it, however many of them share it.
THEOREM CancellationsAreOwn == Spec => CancellationIsOwn
<1> DEFINE Own == \A f \in Fetches : fetch[f] = "running" /\ fetch'[f] # "running"
                    => waits' = waits
<1>1. IInv /\ [Next]_vars => [Own]_vars
  <2> SUFFICES ASSUME IInv, [Next]_vars,
                      NEW f \in Fetches, fetch[f] = "running", fetch'[f] # "running"
               PROVE  waits' = waits
    OBVIOUS
  <2>1. fetch \in [Fetches -> {"unused", "running", "done", "finished"}]
    BY DEF IInv, TypeOK
  <2>2. ASSUME NEW c \in Callers, NEW g \in Fetches, Begins(c, g) PROVE FALSE
    BY <2>1, <2>2 DEF Begins
  <2>3. PICK g \in Fetches : Finishes(g) \/ Forgets(g) \/ \E how \in Outcomes : Ends(g, how)
    BY <2>2 DEF Next, vars, failVars, Hits, FailsFast, Joins, Answers, Cancels, MemoExpires,
                 WindowEnds, Resets
  <2> QED BY <2>3 DEF Finishes, Forgets, Ends
<1>2. Spec => [][Next]_vars
  BY DEF Spec
<1>3. Spec => [][Own]_vars
  BY <1>1, <1>2, Invariance, PTL
<1> QED BY <1>3 DEF CancellationIsOwn
=============================================================================
