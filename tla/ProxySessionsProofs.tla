------------------------ MODULE ProxySessionsProofs ------------------------
(***************************************************************************)
(* The slots of ProxySessions are accounted for, no wake-up is lost and a  *)
(* burst counts once, for any number of calls, proxies and slots.          *)
(*                                                                         *)
(* A gate is judged with the set W of calls parked at it and the set I of  *)
(* calls inside it: each operator of SessionGate keeps GateOK while the    *)
(* caller moves between W, I and neither.  The invariant of ProxySessions  *)
(* is then GateOK of every gate for its own Waiters and Inside.            *)
(***************************************************************************)
EXTENDS ProxySessions, FiniteSetTheorems, TLAPS

GateType == [free : Nat, pending : SUBSET Calls, granted : SUBSET Calls,
             waiting : Nat, open : Nat]

\* Permits and counters agree with the calls at the gate.
Accounts(r, W, I, limit) ==
    /\ r \in GateType
    /\ r.pending \subseteq W /\ r.granted \subseteq W
    /\ r.pending \cap r.granted = {}
    /\ r.free + Cardinality(r.granted) + Cardinality(I) = limit
    /\ r.open = Cardinality(I)
    /\ r.waiting = Cardinality(W)

GateOK(r, W, I, limit) ==
    /\ Accounts(r, W, I, limit)
    /\ r.free > 0 /\ r.pending # {} => r.granted # {}

-----------------------------------------------------------------------------
(* The operators of SessionGate. *)

\* Sets of calls can be counted, and adding or removing one call adds or
\* removes one.
LEMMA CallSets ==
    ASSUME NEW S \in SUBSET Calls, NEW t \in Calls
    PROVE  /\ IsFiniteSet(S) /\ Cardinality(S) \in Nat
           /\ t \notin S => Cardinality(S \cup {t}) = Cardinality(S) + 1
           /\ t \in S => /\ Cardinality(S \ {t}) = Cardinality(S) - 1
                         /\ Cardinality(S) > 0
<1>1. IsFiniteSet(S)
  BY CallsAssumption, FS_Subset
<1>2. Cardinality(S) \in Nat
  BY <1>1, FS_CardinalityType
<1>3. t \notin S => Cardinality(S \cup {t}) = Cardinality(S) + 1
  BY <1>1, FS_AddElement
<1>4. t \in S => Cardinality(S \ {t}) = Cardinality(S) - 1
  BY <1>1, FS_RemoveElement
<1>5. t \in S => Cardinality(S) > 0
  BY <1>1, <1>2, FS_EmptySet
<1> QED BY <1>1, <1>2, <1>3, <1>4, <1>5

\* Writing well-typed values to the fields of a gate keeps its type.
LEMMA GateUpdates ==
    ASSUME NEW r \in GateType, NEW f \in Nat, NEW p \in SUBSET Calls, NEW g \in SUBSET Calls,
           NEW w \in Nat, NEW o \in Nat
    PROVE  /\ [r EXCEPT !.free = f, !.open = o] \in GateType
           /\ [r EXCEPT !.open = o, !.free = f] \in GateType
           /\ [r EXCEPT !.pending = p, !.waiting = w] \in GateType
           /\ [r EXCEPT !.free = f, !.pending = p, !.granted = g] \in GateType
           /\ [r EXCEPT !.granted = g, !.waiting = w, !.open = o] \in GateType
           /\ [r EXCEPT !.waiting = w, !.granted = g, !.free = f] \in GateType
<1>1. \A s \in GateType :
         /\ [s EXCEPT !.free = f] \in GateType
         /\ [s EXCEPT !.pending = p] \in GateType
         /\ [s EXCEPT !.granted = g] \in GateType
         /\ [s EXCEPT !.waiting = w] \in GateType
         /\ [s EXCEPT !.open = o] \in GateType
  BY DEF GateType
<1>2. [[r EXCEPT !.free = f] EXCEPT !.open = o] \in GateType
  BY <1>1, Zenon
<1>3. [[r EXCEPT !.open = o] EXCEPT !.free = f] \in GateType
  BY <1>1, Zenon
<1>4. [[r EXCEPT !.pending = p] EXCEPT !.waiting = w] \in GateType
  BY <1>1, Zenon
<1>5. [[[r EXCEPT !.free = f] EXCEPT !.pending = p] EXCEPT !.granted = g] \in GateType
  BY <1>1, Zenon
<1>6. [[[r EXCEPT !.granted = g] EXCEPT !.waiting = w] EXCEPT !.open = o] \in GateType
  BY <1>1, Zenon
<1>7. [[[r EXCEPT !.waiting = w] EXCEPT !.granted = g] EXCEPT !.free = f] \in GateType
  BY <1>1, Zenon
<1> QED BY <1>2, <1>3, <1>4, <1>5, <1>6, <1>7

\* A semaphore that is not locked has a permit for the caller.
LEMMA TakeKeeps ==
    ASSUME NEW r, NEW W \in SUBSET Calls, NEW I \in SUBSET Calls, NEW limit \in Nat,
           NEW t \in Calls \ I, GateOK(r, W, I, limit), ~Locked(r)
    PROVE  GateOK(Take(r), W, I \cup {t}, limit)
<1>1. Cardinality(I \cup {t}) = Cardinality(I) + 1 /\ Cardinality(I) \in Nat
  BY CallSets
<1>2. Cardinality(r.granted) \in Nat
  BY CallSets DEF GateOK, Accounts, GateType
<1>3. /\ r.free \in Nat \ {0} /\ r.open = Cardinality(I)
      /\ r.pending = {} /\ r.granted = {}
  BY DEF GateOK, Accounts, GateType, Locked
<1>4. Take(r) \in GateType
  <2>1. r.free - 1 \in Nat /\ r.open + 1 \in Nat /\ r \in GateType
    BY <1>3 DEF GateOK, Accounts, GateType
  <2> QED BY <2>1, GateUpdates DEF Take
<1>5. /\ Take(r).free = r.free - 1 /\ Take(r).open = r.open + 1
      /\ Take(r).pending = r.pending /\ Take(r).granted = r.granted
      /\ Take(r).waiting = r.waiting
  BY DEF GateOK, Accounts, GateType, Take
<1>6. Take(r).free + Cardinality(Take(r).granted) + Cardinality(I \cup {t}) = limit
  BY <1>1, <1>2, <1>3, <1>5 DEF GateOK, Accounts
<1> QED BY <1>1, <1>3, <1>4, <1>5, <1>6 DEF GateOK, Accounts

\* Parking behind a locked semaphore loses no wake-up: if a permit is free,
\* somebody was granted one and will pass it on.
LEMMA ParkKeeps ==
    ASSUME NEW r, NEW W \in SUBSET Calls, NEW I \in SUBSET Calls, NEW limit \in Nat,
           NEW t \in Calls \ W, GateOK(r, W, I, limit), Locked(r)
    PROVE  GateOK(Park(r, t), W \cup {t}, I, limit)
<1>1. Cardinality(W \cup {t}) = Cardinality(W) + 1 /\ Cardinality(W) \in Nat
  BY CallSets
<1>2. r \in GateType /\ r.waiting = Cardinality(W) /\ r.waiting + 1 \in Nat
      /\ r.pending \cup {t} \in SUBSET Calls
  BY DEF GateOK, Accounts, GateType
<1>3. Park(r, t) \in GateType
  BY <1>1, <1>2, GateUpdates DEF Park
<1>4. /\ Park(r, t).free = r.free /\ Park(r, t).open = r.open
      /\ Park(r, t).pending = r.pending \cup {t} /\ Park(r, t).granted = r.granted
      /\ Park(r, t).waiting = r.waiting + 1
  BY <1>2 DEF GateType, Park
<1>5. r.free > 0 => r.granted # {}
  BY <1>2 DEF GateOK, Locked, GateType
<1>6. t \notin r.granted
  BY DEF GateOK, Accounts
<1> QED BY <1>1, <1>2, <1>3, <1>4, <1>5, <1>6 DEF GateOK, Accounts

\* Waking hands a free permit to a pending caller if there is one.
LEMMA WakeKeeps ==
    ASSUME NEW r, NEW W \in SUBSET Calls, NEW I \in SUBSET Calls, NEW limit \in Nat,
           NEW b, NEW h \in WakeNext(r, b),
           Accounts(r, W, I, limit), r.free > 0
    PROVE  GateOK(h, W, I, limit)
<1>1. CASE r.pending = {}
  BY <1>1 DEF WakeNext, GateOK, Accounts
<1>2. CASE r.pending # {}
  <2>1. PICK t \in r.pending :
          h = [r EXCEPT !.free = @ - 1, !.pending = @ \ {t}, !.granted = @ \cup {t}]
    BY <1>2 DEF WakeNext, Oldest
  <2>2. t \in Calls /\ t \notin r.granted
    BY DEF Accounts, GateType
  <2>3. Cardinality(r.granted \cup {t}) = Cardinality(r.granted) + 1
        /\ Cardinality(r.granted) \in Nat /\ Cardinality(I) \in Nat
    BY <2>2, CallSets DEF Accounts, GateType
  <2>4. r \in GateType /\ r.free - 1 \in Nat
        /\ r.pending \ {t} \in SUBSET Calls /\ r.granted \cup {t} \in SUBSET Calls
    BY <2>2 DEF Accounts, GateType
  <2>5. h \in GateType
    BY <2>1, <2>4, GateUpdates
  <2>6. /\ h.free = r.free - 1 /\ h.open = r.open /\ h.waiting = r.waiting
        /\ h.pending = r.pending \ {t} /\ h.granted = r.granted \cup {t}
    BY <2>1, <2>4 DEF GateType
  <2>7. h.free + Cardinality(h.granted) + Cardinality(I) = limit
    BY <2>3, <2>4, <2>6 DEF Accounts, GateType
  <2> QED BY <2>1, <2>5, <2>6, <2>7 DEF GateOK, Accounts
<1> QED BY <1>1, <1>2

\* A granted caller that runs moves from the line into the block.
LEMMA ResumedKeeps ==
    ASSUME NEW r, NEW W \in SUBSET Calls, NEW I \in SUBSET Calls, NEW limit \in Nat,
           NEW b, NEW t \in Calls \ I, t \in r.granted,
           NEW h \in Resumed(r, t, b), GateOK(r, W, I, limit)
    PROVE  GateOK(h, W \ {t}, I \cup {t}, limit)
<1> DEFINE k == [r EXCEPT !.granted = @ \ {t}, !.waiting = @ - 1, !.open = @ + 1]
<1>1. t \in W /\ W \ {t} \in SUBSET Calls /\ I \cup {t} \in SUBSET Calls
  BY DEF GateOK, Accounts
<1>2. /\ Cardinality(W \ {t}) = Cardinality(W) - 1
      /\ Cardinality(W) \in Nat /\ Cardinality(W) > 0
      /\ Cardinality(I \cup {t}) = Cardinality(I) + 1 /\ Cardinality(I) \in Nat
  BY <1>1, CallSets
<1>3. /\ Cardinality(r.granted \ {t}) = Cardinality(r.granted) - 1
      /\ Cardinality(r.granted) \in Nat
  BY CallSets DEF GateOK, Accounts, GateType
<1>4. Accounts(k, W \ {t}, I \cup {t}, limit)
  <2>1. r \in GateType /\ r.granted \ {t} \in SUBSET Calls
        /\ r.waiting - 1 \in Nat /\ r.open + 1 \in Nat
    BY <1>2 DEF GateOK, Accounts, GateType
  <2>2. k \in GateType
    BY <2>1, GateUpdates
  <2>3. /\ k.free = r.free /\ k.open = r.open + 1 /\ k.waiting = r.waiting - 1
        /\ k.pending = r.pending /\ k.granted = r.granted \ {t}
    BY <2>1 DEF GateType
  <2>4. k.free + Cardinality(k.granted) + Cardinality(I \cup {t}) = limit
    BY <1>2, <1>3, <2>1, <2>3 DEF GateOK, Accounts, GateType
  <2>5. t \notin r.pending
    BY DEF GateOK, Accounts
  <2> QED BY <1>2, <2>2, <2>3, <2>4, <2>5 DEF GateOK, Accounts
<1>5. CASE k.free > 0
  <2>1. h \in WakeNext(k, b)
    BY <1>5 DEF Resumed
  <2> QED BY <1>1, <1>4, <1>5, <2>1, WakeKeeps
<1>6. CASE ~(k.free > 0)
  BY <1>4, <1>6 DEF Resumed, GateOK
<1> QED BY <1>5, <1>6

\* Cancelling a future moves no permit.
LEMMA AbandonKeeps ==
    ASSUME NEW r, NEW W \in SUBSET Calls, NEW I \in SUBSET Calls, NEW limit \in Nat,
           NEW t \in Calls, GateOK(r, W, I, limit)
    PROVE  GateOK(Abandon(r, t), W, I, limit)
BY DEF GateOK, Accounts, GateType, Abandon

\* A caller that gives up leaves the line, and a permit it was granted goes
\* to the next one.
LEMMA GaveUpKeeps ==
    ASSUME NEW r, NEW W \in SUBSET Calls, NEW I \in SUBSET Calls, NEW limit \in Nat,
           NEW b, NEW t \in W, t \notin r.pending,
           NEW h \in GaveUp(r, t, b), GateOK(r, W, I, limit)
    PROVE  GateOK(h, W \ {t}, I, limit)
<1>1. t \in Calls /\ W \ {t} \in SUBSET Calls
  OBVIOUS
<1>2. /\ Cardinality(W \ {t}) = Cardinality(W) - 1
      /\ Cardinality(W) \in Nat /\ Cardinality(W) > 0
      /\ Cardinality(I) \in Nat
  BY <1>1, CallSets
<1>3. CASE t \in r.granted
  <2> DEFINE k == [r EXCEPT !.waiting = @ - 1, !.granted = @ \ {t}, !.free = @ + 1]
  <2>1. /\ Cardinality(r.granted \ {t}) = Cardinality(r.granted) - 1
        /\ Cardinality(r.granted) \in Nat
    BY <1>1, <1>3, CallSets DEF GateOK, Accounts, GateType
  <2>2. Accounts(k, W \ {t}, I, limit) /\ k.free > 0
    <3>1. r \in GateType /\ r.granted \ {t} \in SUBSET Calls
          /\ r.waiting - 1 \in Nat /\ r.free + 1 \in Nat
      BY <1>2 DEF GateOK, Accounts, GateType
    <3>2. k \in GateType
      BY <3>1, GateUpdates
    <3>3. /\ k.free = r.free + 1 /\ k.open = r.open /\ k.waiting = r.waiting - 1
          /\ k.pending = r.pending /\ k.granted = r.granted \ {t}
      BY <3>1 DEF GateType
    <3>4. k.free + Cardinality(k.granted) + Cardinality(I) = limit /\ k.free > 0
      BY <1>2, <2>1, <3>1, <3>3 DEF GateOK, Accounts, GateType
    <3> QED BY <1>2, <3>2, <3>3, <3>4 DEF GateOK, Accounts
  <2>3. k = [[r EXCEPT !.waiting = @ - 1] EXCEPT !.granted = @ \ {t}, !.free = @ + 1]
    BY DEF GateOK, Accounts, GateType
  <2>4. h \in WakeNext(k, b)
    BY <1>3, <2>3 DEF GaveUp, GateOK, Accounts, GateType
  <2> QED BY <1>1, <2>2, <2>4, WakeKeeps
<1>4. CASE t \notin r.granted
  BY <1>1, <1>2, <1>4 DEF GaveUp, GateOK, Accounts, GateType
<1> QED BY <1>3, <1>4

\* Leaving the block frees one permit, which goes to the next in line.
LEMMA ReleasedKeeps ==
    ASSUME NEW r, NEW W \in SUBSET Calls, NEW I \in SUBSET Calls, NEW limit \in Nat,
           NEW b, NEW t \in I, NEW h \in Released(r, b), GateOK(r, W, I, limit)
    PROVE  GateOK(h, W, I \ {t}, limit)
<1> DEFINE k == [r EXCEPT !.open = @ - 1, !.free = @ + 1]
<1>1. t \in Calls /\ I \ {t} \in SUBSET Calls
  OBVIOUS
<1>2. /\ Cardinality(I \ {t}) = Cardinality(I) - 1
      /\ Cardinality(I) \in Nat /\ Cardinality(I) > 0
  BY <1>1, CallSets
<1>3. Cardinality(r.granted) \in Nat
  BY <1>1, CallSets DEF GateOK, Accounts, GateType
<1>4. Accounts(k, W, I \ {t}, limit) /\ k.free > 0
  <2>1. r \in GateType /\ r.open - 1 \in Nat /\ r.free + 1 \in Nat
    BY <1>2 DEF GateOK, Accounts, GateType
  <2>2. k \in GateType
    BY <2>1, GateUpdates
  <2>3. /\ k.free = r.free + 1 /\ k.open = r.open - 1 /\ k.waiting = r.waiting
        /\ k.pending = r.pending /\ k.granted = r.granted
    BY <2>1 DEF GateType
  <2>4. k.free + Cardinality(k.granted) + Cardinality(I \ {t}) = limit /\ k.free > 0
    BY <1>2, <1>3, <2>1, <2>3 DEF GateOK, Accounts, GateType
  <2> QED BY <1>2, <2>2, <2>3, <2>4 DEF GateOK, Accounts
<1>5. h \in WakeNext(k, b)
  BY DEF Released
<1> QED BY <1>1, <1>4, <1>5, WakeKeeps

-----------------------------------------------------------------------------
(* The inductive invariant. *)

\* A call that is somewhere has a proxy; only a parked call can be hit, and
\* then its future is no longer pending.
TasksOK ==
    /\ \A t \in Calls : pc[t] # "idle" => via[t] \in Proxies
    /\ \A t \in Calls : doom[t] # "no" => pc[t] \in {"local", "global"}
    /\ \A g \in Gates : \A t \in gates[g].pending : doom[t] = "no"

GatesOK == \A g \in Gates : GateOK(gates[g], Waiters(g), Inside(g), Limit(g))

\* Inside a backoff window no call holds the current generation.
BreakersOK == \A p \in Proxies : cooling[p] => current[p] = {} /\ failures[p] > 0

IInv == TypeOK /\ TasksOK /\ GatesOK /\ BreakersOK

-----------------------------------------------------------------------------
(* Moving one call. *)

WaitsAt(g, where, p) == IF g = Global THEN where = "global" ELSE where = "local" /\ p = g
IsInside(g, where, p) ==
    IF g = Global THEN where = "session" ELSE where \in {"global", "session"} /\ p = g

MovesTo(t, where, p) == pc' = [pc EXCEPT ![t] = where] /\ via' = [via EXCEPT ![t] = p]

\* Only the call that moves enters or leaves a gate.
LEMMA Moves ==
    ASSUME TypeOK, NEW t \in Calls, NEW where, NEW p, MovesTo(t, where, p), NEW g
    PROVE  /\ Waiters(g)' = (Waiters(g) \ {t}) \cup {u \in {t} : WaitsAt(g, where, p)}
           /\ Inside(g)' = (Inside(g) \ {t}) \cup {u \in {t} : IsInside(g, where, p)}
           /\ t \in Waiters(g) <=> WaitsAt(g, pc[t], via[t])
           /\ t \in Inside(g) <=> IsInside(g, pc[t], via[t])
<1>1. /\ pc'[t] = where /\ via'[t] = p
      /\ \A u \in Calls \ {t} : pc'[u] = pc[u] /\ via'[u] = via[u]
  BY DEF TypeOK, MovesTo
<1>2. CASE g = Global
  BY <1>1, <1>2 DEF Waiters, Inside, WaitsAt, IsInside
<1>3. CASE g # Global
  BY <1>1, <1>3 DEF Waiters, Inside, WaitsAt, IsInside
<1> QED BY <1>2, <1>3

\* The gates' own sets and limits have the types the lemmas above ask for.
LEMMA GateSets ==
    ASSUME NEW g \in Gates
    PROVE  /\ Waiters(g) \in SUBSET Calls /\ Inside(g) \in SUBSET Calls
           /\ Limit(g) \in Nat
BY LimitsAssumption DEF Waiters, Inside, Limit, Gates

\* Steps that move no call, or move it nowhere, keep the sets.
LEMMA StaysPut ==
    ASSUME UNCHANGED <<pc, via>>, NEW g
    PROVE  Waiters(g)' = Waiters(g) /\ Inside(g)' = Inside(g)
BY DEF Waiters, Inside

-----------------------------------------------------------------------------
(* Every action keeps the gates. *)

LEMMA ParkLocalKeepsGates ==
    ASSUME IInv, NEW t \in Calls, NEW p \in Proxies, ParkLocal(t, p)
    PROVE  GatesOK'
<1> SUFFICES ASSUME NEW g \in Gates
             PROVE  GateOK(gates'[g], Waiters(g)', Inside(g)', Limit(g))
  BY DEF GatesOK
<1>1. p # Global /\ p \in Gates /\ pc[t] = "idle" /\ Locked(gates[p])
  BY GatesAssumption DEF ParkLocal, Gates
<1>2. gates' = [gates EXCEPT ![p] = Park(gates[p], t)]
  BY DEF ParkLocal
<1>3. gates'[g] = IF g = p THEN Park(gates[p], t) ELSE gates[g]
  BY <1>1, <1>2 DEF IInv, TypeOK
<1>4. MovesTo(t, "local", p)
  BY DEF ParkLocal, ParksAt, MovesTo
<1>5. /\ Waiters(g)' = (Waiters(g) \ {t}) \cup {u \in {t} : WaitsAt(g, "local", p)}
      /\ Inside(g)' = (Inside(g) \ {t}) \cup {u \in {t} : IsInside(g, "local", p)}
      /\ t \notin Waiters(g) /\ t \notin Inside(g)
  BY <1>1, <1>4, Moves DEF IInv, WaitsAt, IsInside
<1>6. Inside(g)' = Inside(g)
  BY <1>5 DEF IsInside
<1>7. GateOK(gates[g], Waiters(g), Inside(g), Limit(g))
  BY DEF IInv, GatesOK
<1>8. CASE g = p
  <2>1. Waiters(g)' = Waiters(g) \cup {t}
    BY <1>1, <1>5, <1>8 DEF WaitsAt
  <2> QED BY <1>1, <1>3, <1>5, <1>6, <1>7, <1>8, <2>1, GateSets, ParkKeeps
<1>9. CASE g # p
  <2>1. Waiters(g)' = Waiters(g)
    BY <1>5, <1>9 DEF WaitsAt
  <2> QED BY <1>3, <1>6, <1>7, <1>9, <2>1
<1> QED BY <1>8, <1>9

\* The caller holds p's slot and asks the global gate: whichever way that
\* goes, both gates end up accounted for.
LEMMA AsksGlobalKeepsGates ==
    ASSUME IInv, NEW t \in Calls, NEW p \in Proxies, NEW local, NEW admitted,
           pc[t] = "idle" \/ (pc[t] = "local" /\ via[t] = p),
           GateOK(local, Waiters(p) \ {t}, Inside(p) \cup {t}, Limit(p)),
           AsksGlobal(t, p, local, admitted)
    PROVE  GatesOK'
<1> SUFFICES ASSUME NEW g \in Gates
             PROVE  GateOK(gates'[g], Waiters(g)', Inside(g)', Limit(g))
  BY DEF GatesOK
<1>1. p # Global /\ p \in Gates /\ Global \in Gates
  BY GatesAssumption DEF Gates
<1>2. GateOK(gates[g], Waiters(g), Inside(g), Limit(g))
      /\ GateOK(gates[Global], Waiters(Global), Inside(Global), Limit(Global))
  BY <1>1 DEF IInv, GatesOK
<1>3. /\ Waiters(g) \in SUBSET Calls /\ Inside(g) \in SUBSET Calls /\ Limit(g) \in Nat
      /\ Waiters(p) \ {t} \in SUBSET Calls /\ Inside(p) \cup {t} \in SUBSET Calls
      /\ Limit(p) \in Nat
  BY <1>1, GateSets
<1>4. /\ t \notin Inside(g)
      /\ g # p => t \notin Waiters(g)
      /\ t \notin Waiters(Global) /\ t \notin Inside(Global) /\ t \notin Inside(p)
  BY <1>1 DEF Waiters, Inside
<1>5. CASE Full(gates[Global], QueueCap(Global))
           /\ (\E l \in Released(local, before) : gates' = [gates EXCEPT ![p] = l])
           /\ Leaves(t)
  <2>1. PICK l \in Released(local, before) : gates' = [gates EXCEPT ![p] = l]
    BY <1>5
  <2>2. gates'[g] = IF g = p THEN l ELSE gates[g]
    BY <1>1, <2>1 DEF IInv, TypeOK
  <2>3. MovesTo(t, "idle", Global)
    BY <1>5 DEF Leaves, MovesTo
  <2>4. /\ Waiters(g)' = (Waiters(g) \ {t}) \cup {u \in {t} : WaitsAt(g, "idle", Global)}
        /\ Inside(g)' = (Inside(g) \ {t}) \cup {u \in {t} : IsInside(g, "idle", Global)}
    BY <2>3, Moves DEF IInv
  <2>5. Waiters(g)' = Waiters(g) \ {t} /\ Inside(g)' = Inside(g)
    BY <1>4, <2>4 DEF WaitsAt, IsInside
  <2>6. CASE g = p
    <3>1. GateOK(l, Waiters(p) \ {t}, (Inside(p) \cup {t}) \ {t}, Limit(p))
      BY <1>3, ReleasedKeeps
    <3>2. (Inside(p) \cup {t}) \ {t} = Inside(p)
      BY <1>4
    <3> QED BY <2>2, <2>5, <2>6, <3>1, <3>2
  <2>7. CASE g # p
    BY <1>2, <1>4, <2>2, <2>5, <2>7
  <2> QED BY <2>6, <2>7
<1>6. CASE Locked(gates[Global])
           /\ gates' = [gates EXCEPT ![p] = local, ![Global] = Park(gates[Global], t)]
           /\ ParksAt(t, p, "global")
  <2>1. gates'[g] = IF g = Global THEN Park(gates[Global], t)
                    ELSE IF g = p THEN local ELSE gates[g]
    BY <1>1, <1>6 DEF IInv, TypeOK
  <2>2. MovesTo(t, "global", p)
    BY <1>6 DEF ParksAt, MovesTo
  <2>3. /\ Waiters(g)' = (Waiters(g) \ {t}) \cup {u \in {t} : WaitsAt(g, "global", p)}
        /\ Inside(g)' = (Inside(g) \ {t}) \cup {u \in {t} : IsInside(g, "global", p)}
    BY <2>2, Moves DEF IInv
  <2>4. CASE g = Global
    <3>1. Waiters(g)' = Waiters(g) \cup {t} /\ Inside(g)' = Inside(g)
      BY <1>4, <2>3, <2>4 DEF WaitsAt, IsInside
    <3> QED BY <1>2, <1>3, <1>4, <1>6, <2>1, <2>4, <3>1, ParkKeeps
  <2>5. CASE g = p
    <3>1. Waiters(g)' = Waiters(g) \ {t} /\ Inside(g)' = Inside(g) \cup {t}
      BY <1>1, <1>4, <2>3, <2>5 DEF WaitsAt, IsInside
    <3> QED BY <1>1, <2>1, <2>5, <3>1
  <2>6. CASE g # p /\ g # Global
    <3>1. Waiters(g)' = Waiters(g) /\ Inside(g)' = Inside(g)
      BY <1>4, <2>3, <2>6 DEF WaitsAt, IsInside
    <3> QED BY <1>2, <2>1, <2>6, <3>1
  <2> QED BY <2>4, <2>5, <2>6
<1>7. CASE ~Locked(gates[Global])
           /\ gates' = [gates EXCEPT ![p] = local, ![Global] = Take(gates[Global])]
           /\ Opens(t, p)
  <2>1. gates'[g] = IF g = Global THEN Take(gates[Global])
                    ELSE IF g = p THEN local ELSE gates[g]
    BY <1>1, <1>7 DEF IInv, TypeOK
  <2>2. MovesTo(t, "session", p)
    BY <1>7 DEF Opens, MovesTo
  <2>3. /\ Waiters(g)' = (Waiters(g) \ {t}) \cup {u \in {t} : WaitsAt(g, "session", p)}
        /\ Inside(g)' = (Inside(g) \ {t}) \cup {u \in {t} : IsInside(g, "session", p)}
    BY <2>2, Moves DEF IInv
  <2>4. CASE g = Global
    <3>1. Waiters(g)' = Waiters(g) /\ Inside(g)' = Inside(g) \cup {t}
      BY <1>4, <2>3, <2>4 DEF WaitsAt, IsInside
    <3> QED BY <1>2, <1>3, <1>4, <1>7, <2>1, <2>4, <3>1, TakeKeeps
  <2>5. CASE g = p
    <3>1. Waiters(g)' = Waiters(g) \ {t} /\ Inside(g)' = Inside(g) \cup {t}
      BY <1>1, <1>4, <2>3, <2>5 DEF WaitsAt, IsInside
    <3> QED BY <1>1, <2>1, <2>5, <3>1
  <2>6. CASE g # p /\ g # Global
    <3>1. Waiters(g)' = Waiters(g) /\ Inside(g)' = Inside(g)
      BY <1>4, <2>3, <2>6 DEF WaitsAt, IsInside
    <3> QED BY <1>2, <2>1, <2>6, <3>1
  <2> QED BY <2>4, <2>5, <2>6
<1> QED BY <1>5, <1>6, <1>7 DEF AsksGlobal

\* What an invariant says of one gate, and of one parked or admitted call.
LEMMA OneGate ==
    ASSUME IInv, NEW g \in Gates
    PROVE  /\ GateOK(gates[g], Waiters(g), Inside(g), Limit(g))
           /\ gates[g] \in GateType
           /\ gates[g].pending \subseteq Waiters(g)
           /\ gates[g].granted \subseteq Waiters(g)
           /\ \A t \in gates[g].pending : doom[t] = "no"
BY DEF IInv, GatesOK, TasksOK, GateOK, Accounts

LEMMA OneCall ==
    ASSUME IInv, NEW t \in Calls, pc[t] # "idle"
    PROVE  /\ via[t] \in Proxies /\ via[t] \in Gates /\ via[t] # Global
           /\ Global \in Gates
           /\ pc[t] = "local" => t \in Waiters(via[t]) /\ t \notin Inside(via[t])
           /\ pc[t] = "global" => t \in Waiters(Global) /\ t \in Inside(via[t])
           /\ pc[t] = "session" => t \in Inside(Global) /\ t \in Inside(via[t])
BY GatesAssumption DEF IInv, TasksOK, Gates, Waiters, Inside

LEMMA TakeLocalKeepsGates ==
    ASSUME IInv, NEW t \in Calls, NEW p \in Proxies, TakeLocal(t, p)
    PROVE  GatesOK'
<1>1. pc[t] = "idle" /\ ~Locked(gates[p]) /\ p \in Gates
      /\ AsksGlobal(t, p, Take(gates[p]), current[p] \cup {t})
  BY DEF TakeLocal, Gates
<1>2. t \notin Inside(p) /\ t \notin Waiters(p) /\ Waiters(p) \ {t} = Waiters(p)
  BY <1>1, GatesAssumption DEF Inside, Waiters
<1>3. GateOK(Take(gates[p]), Waiters(p), Inside(p) \cup {t}, Limit(p))
  BY <1>1, <1>2, OneGate, GateSets, TakeKeeps
<1> QED BY <1>1, <1>2, <1>3, AsksGlobalKeepsGates

LEMMA ResumeLocalKeepsGates ==
    ASSUME IInv, NEW t \in Calls, ResumeLocal(t)
    PROVE  GatesOK'
<1> DEFINE p == via[t]
<1>1. pc[t] = "local" /\ t \in gates[p].granted
  BY DEF ResumeLocal
<1>2. PICK local \in Resumed(gates[p], t, before) : AsksGlobal(t, p, local, current[p])
  BY DEF ResumeLocal
<1>3. p \in Proxies /\ p \in Gates /\ t \notin Inside(p)
  BY <1>1, OneCall
<1>4. GateOK(local, Waiters(p) \ {t}, Inside(p) \cup {t}, Limit(p))
  BY <1>1, <1>3, OneGate, GateSets, ResumedKeeps
<1> QED BY <1>1, <1>2, <1>3, <1>4, AsksGlobalKeepsGates

LEMMA ResumeGlobalKeepsGates ==
    ASSUME IInv, NEW t \in Calls, ResumeGlobal(t)
    PROVE  GatesOK'
<1> DEFINE p == via[t]
<1> SUFFICES ASSUME NEW g \in Gates
             PROVE  GateOK(gates'[g], Waiters(g)', Inside(g)', Limit(g))
  BY DEF GatesOK
<1>1. pc[t] = "global" /\ t \in gates[Global].granted
  BY DEF ResumeGlobal
<1>2. p \in Proxies /\ p # Global /\ Global \in Gates /\ t \in Inside(p)
  BY <1>1, OneCall
<1>3. PICK h \in Resumed(gates[Global], t, before) : gates' = [gates EXCEPT ![Global] = h]
  BY DEF ResumeGlobal
<1>4. gates'[g] = IF g = Global THEN h ELSE gates[g]
  BY <1>2, <1>3 DEF IInv, TypeOK
<1>5. MovesTo(t, "session", p)
  BY DEF ResumeGlobal, Opens, MovesTo
<1>6. /\ Waiters(g)' = (Waiters(g) \ {t}) \cup {u \in {t} : WaitsAt(g, "session", p)}
      /\ Inside(g)' = (Inside(g) \ {t}) \cup {u \in {t} : IsInside(g, "session", p)}
      /\ t \in Waiters(g) <=> WaitsAt(g, "global", p)
      /\ t \in Inside(g) <=> IsInside(g, "global", p)
  BY <1>1, <1>5, Moves DEF IInv
<1>7. CASE g = Global
  <2>1. Waiters(g)' = Waiters(g) \ {t} /\ Inside(g)' = Inside(g) \cup {t} /\ t \notin Inside(g)
    BY <1>6, <1>7 DEF WaitsAt, IsInside
  <2> QED BY <1>1, <1>4, <1>7, <2>1, OneGate, GateSets, ResumedKeeps
<1>8. CASE g # Global
  <2>1. Waiters(g)' = Waiters(g) /\ Inside(g)' = Inside(g)
    BY <1>6, <1>8 DEF WaitsAt, IsInside
  <2> QED BY <1>4, <1>8, <2>1, OneGate
<1> QED BY <1>7, <1>8

LEMMA ResumeDoomedLocalKeepsGates ==
    ASSUME IInv, NEW t \in Calls, ResumeDoomedLocal(t)
    PROVE  GatesOK'
<1> DEFINE p == via[t]
<1> SUFFICES ASSUME NEW g \in Gates
             PROVE  GateOK(gates'[g], Waiters(g)', Inside(g)', Limit(g))
  BY DEF GatesOK
<1>1. pc[t] = "local" /\ doom[t] # "no"
  BY DEF ResumeDoomedLocal
<1>2. p \in Proxies /\ p \in Gates /\ p # Global /\ t \in Waiters(p) /\ t \notin gates[p].pending
  BY <1>1, OneCall, OneGate
<1>3. PICK h \in GaveUp(gates[p], t, before) : gates' = [gates EXCEPT ![p] = h]
  BY DEF ResumeDoomedLocal
<1>4. gates'[g] = IF g = p THEN h ELSE gates[g]
  BY <1>2, <1>3 DEF IInv, TypeOK
<1>5. MovesTo(t, "idle", Global)
  BY DEF ResumeDoomedLocal, Leaves, MovesTo
<1>6. /\ Waiters(g)' = (Waiters(g) \ {t}) \cup {u \in {t} : WaitsAt(g, "idle", Global)}
      /\ Inside(g)' = (Inside(g) \ {t}) \cup {u \in {t} : IsInside(g, "idle", Global)}
      /\ t \in Waiters(g) <=> WaitsAt(g, "local", p)
      /\ t \in Inside(g) <=> IsInside(g, "local", p)
  BY <1>1, <1>5, Moves DEF IInv
<1>7. Inside(g)' = Inside(g) /\ Waiters(g)' = Waiters(g) \ {t} /\ (g # p => t \notin Waiters(g))
  BY <1>6 DEF WaitsAt, IsInside
<1>8. CASE g = p
  BY <1>2, <1>4, <1>7, <1>8, OneGate, GateSets, GaveUpKeeps
<1>9. CASE g # p
  <2>1. Waiters(g)' = Waiters(g)
    BY <1>7, <1>9
  <2> QED BY <1>4, <1>7, <1>9, <2>1, OneGate
<1> QED BY <1>8, <1>9

LEMMA ResumeDoomedGlobalKeepsGates ==
    ASSUME IInv, NEW t \in Calls, ResumeDoomedGlobal(t)
    PROVE  GatesOK'
<1> DEFINE p == via[t]
<1> SUFFICES ASSUME NEW g \in Gates
             PROVE  GateOK(gates'[g], Waiters(g)', Inside(g)', Limit(g))
  BY DEF GatesOK
<1>1. pc[t] = "global" /\ doom[t] # "no"
  BY DEF ResumeDoomedGlobal
<1>2. /\ p \in Proxies /\ p \in Gates /\ p # Global /\ Global \in Gates
      /\ t \in Waiters(Global) /\ t \in Inside(p) /\ t \notin gates[Global].pending
  BY <1>1, OneCall, OneGate
<1>3. PICK h \in GaveUp(gates[Global], t, before), l \in Released(gates[p], before) :
        gates' = [gates EXCEPT ![Global] = h, ![p] = l]
  BY DEF ResumeDoomedGlobal
<1>4. gates'[g] = IF g = p THEN l ELSE IF g = Global THEN h ELSE gates[g]
  BY <1>2, <1>3 DEF IInv, TypeOK
<1>5. MovesTo(t, "idle", Global)
  BY DEF ResumeDoomedGlobal, Leaves, MovesTo
<1>6. /\ Waiters(g)' = (Waiters(g) \ {t}) \cup {u \in {t} : WaitsAt(g, "idle", Global)}
      /\ Inside(g)' = (Inside(g) \ {t}) \cup {u \in {t} : IsInside(g, "idle", Global)}
      /\ t \in Waiters(g) <=> WaitsAt(g, "global", p)
      /\ t \in Inside(g) <=> IsInside(g, "global", p)
  BY <1>1, <1>5, Moves DEF IInv
<1>7. CASE g = Global
  <2>1. Waiters(g)' = Waiters(g) \ {t} /\ Inside(g)' = Inside(g)
    BY <1>6, <1>7 DEF WaitsAt, IsInside
  <2> QED BY <1>2, <1>4, <1>7, <2>1, OneGate, GateSets, GaveUpKeeps
<1>8. CASE g = p
  <2>1. Waiters(g)' = Waiters(g) /\ Inside(g)' = Inside(g) \ {t}
    BY <1>2, <1>6, <1>8 DEF WaitsAt, IsInside
  <2> QED BY <1>2, <1>4, <1>8, <2>1, OneGate, GateSets, ReleasedKeeps
<1>9. CASE g # p /\ g # Global
  <2>1. Waiters(g)' = Waiters(g) /\ Inside(g)' = Inside(g)
    BY <1>6, <1>9 DEF WaitsAt, IsInside
  <2> QED BY <1>4, <1>9, <2>1, OneGate
<1> QED BY <1>7, <1>8, <1>9

LEMMA HitKeepsGates ==
    ASSUME IInv, NEW t \in Calls, NEW what, t \in Parked, Hit(t, what)
    PROVE  GatesOK'
<1> SUFFICES ASSUME NEW g \in Gates
             PROVE  GateOK(gates'[g], Waiters(g)', Inside(g)', Limit(g))
  BY DEF GatesOK
<1>1. gates' = [gates EXCEPT ![GateOf(t)] = Abandon(gates[GateOf(t)], t)]
  BY DEF Hit
<1>2. gates'[g] = IF g = GateOf(t) THEN Abandon(gates[g], t) ELSE gates[g]
  BY <1>1 DEF IInv, TypeOK
<1>3. Waiters(g)' = Waiters(g) /\ Inside(g)' = Inside(g)
  BY StaysPut DEF Hit
<1> QED BY <1>2, <1>3, OneGate, GateSets, AbandonKeeps

LEMMA EndSessionKeepsGates ==
    ASSUME IInv, NEW t \in Calls, NEW how, EndSession(t, how)
    PROVE  GatesOK'
<1> DEFINE p == via[t]
<1> SUFFICES ASSUME NEW g \in Gates
             PROVE  GateOK(gates'[g], Waiters(g)', Inside(g)', Limit(g))
  BY DEF GatesOK
<1>1. pc[t] = "session"
  BY DEF EndSession
<1>2. /\ p \in Proxies /\ p \in Gates /\ p # Global /\ Global \in Gates
      /\ t \in Inside(Global) /\ t \in Inside(p)
  BY <1>1, OneCall
<1>3. PICK h \in Released(gates[Global], before), l \in Released(gates[p], before) :
        gates' = [gates EXCEPT ![Global] = h, ![p] = l]
  BY DEF EndSession
<1>4. gates'[g] = IF g = p THEN l ELSE IF g = Global THEN h ELSE gates[g]
  BY <1>2, <1>3 DEF IInv, TypeOK
<1>5. MovesTo(t, "idle", Global)
  BY DEF EndSession, Leaves, MovesTo
<1>6. /\ Waiters(g)' = (Waiters(g) \ {t}) \cup {u \in {t} : WaitsAt(g, "idle", Global)}
      /\ Inside(g)' = (Inside(g) \ {t}) \cup {u \in {t} : IsInside(g, "idle", Global)}
      /\ t \in Waiters(g) <=> WaitsAt(g, "session", p)
      /\ t \in Inside(g) <=> IsInside(g, "session", p)
  BY <1>1, <1>5, Moves DEF IInv
<1>7. Waiters(g)' = Waiters(g) /\ Inside(g)' = Inside(g) \ {t}
  BY <1>6 DEF WaitsAt, IsInside
<1>8. CASE g = Global \/ g = p
  BY <1>2, <1>4, <1>7, <1>8, OneGate, GateSets, ReleasedKeeps
<1>9. CASE g # p /\ g # Global
  <2>1. Inside(g)' = Inside(g)
    BY <1>6, <1>9 DEF IsInside, WaitsAt
  <2> QED BY <1>4, <1>7, <1>9, <2>1, OneGate
<1> QED BY <1>8, <1>9

-----------------------------------------------------------------------------
(* Every action keeps the types, the tasks and the breakers. *)

TasksType ==
    /\ pc \in [Calls -> {"idle", "local", "global", "session"}]
    /\ via \in [Calls -> Gates]
    /\ doom \in [Calls -> {"no", "timeout", "cancel"}]
    /\ before \subseteq Calls \X Calls

BreakersType ==
    /\ failures \in [Proxies -> Nat]
    /\ cooling \in [Proxies -> BOOLEAN]
    /\ current \in [Proxies -> SUBSET Calls]

IsFcn(f, S) == f = [x \in S |-> f[x]]

\* After a step too, the gates' types follow from their accounts.
LEMMA TypesFollow ==
    ASSUME GatesOK', IsFcn(gates', Gates), TasksType', BreakersType'
    PROVE  TypeOK'
<1>1. \A g \in Gates : gates'[g] \in GateType
  BY DEF GatesOK, GateOK, Accounts
<1>2. gates' \in [Gates -> GateType]
  BY <1>1 DEF IsFcn
<1> QED BY <1>2 DEF GateType, TypeOK, TasksType, BreakersType

LEMMA WritingKeepsFcn ==
    ASSUME NEW S, NEW f, IsFcn(f, S), NEW a, NEW x, NEW b, NEW y
    PROVE  IsFcn([f EXCEPT ![a] = x], S) /\ IsFcn([f EXCEPT ![a] = x, ![b] = y], S)
<1>1. \A h, c, z : IsFcn(h, S) => IsFcn([h EXCEPT ![c] = z], S)
  BY DEF IsFcn
<1>2. IsFcn([[f EXCEPT ![a] = x] EXCEPT ![b] = y], S)
  BY <1>1, Zenon
<1> QED BY <1>1, <1>2

\* The moves of a call are well-typed.
LEMMA MovesTyped ==
    ASSUME TypeOK, NEW t \in Calls, NEW p \in Gates,
           \/ ParksAt(t, p, "local") \/ ParksAt(t, p, "global")
           \/ Opens(t, p) \/ Leaves(t)
    PROVE  TasksType'
<1>1. Unlined(t) \subseteq Calls \X Calls /\ Lined(t) \subseteq Calls \X Calls
  BY DEF TypeOK, Unlined, Lined, Parked
<1>2. Global \in Gates
  BY DEF Gates
<1>3. CASE ParksAt(t, p, "local")
  BY <1>1, <1>3 DEF TypeOK, TasksType, ParksAt
<1>4. CASE ParksAt(t, p, "global")
  BY <1>1, <1>4 DEF TypeOK, TasksType, ParksAt
<1>5. CASE Opens(t, p)
  BY <1>1, <1>5 DEF TypeOK, TasksType, Opens
<1>6. CASE Leaves(t)
  BY <1>1, <1>2, <1>6 DEF TypeOK, TasksType, Leaves
<1> QED BY <1>3, <1>4, <1>5, <1>6

\* The breaker's operations are well-typed, and none lets a call hold the
\* current generation inside a window.
LEMMA BreakerSteps ==
    ASSUME TypeOK, BreakersOK, NEW p \in Proxies, NEW t \in Calls,
           \/ BreakerSuccess(p, t) \/ BreakerFailure(p, t) \/ BreakerIgnores(p, t)
           \/ Admits(p) /\ BreakerAdmits(p, t)
    PROVE  BreakersType' /\ BreakersOK'
<1>1. CASE BreakerSuccess(p, t)
  BY <1>1 DEF TypeOK, BreakersType, BreakersOK, BreakerSuccess
<1>2. CASE BreakerFailure(p, t)
  <2>1. CASE Counts(p, t)
    <3>1. /\ failures' = [failures EXCEPT ![p] = failures[p] + 1]
          /\ cooling' = [cooling EXCEPT ![p] = TRUE]
          /\ current' = [current EXCEPT ![p] = {}]
      BY <1>2, <2>1 DEF BreakerFailure
    <3> QED BY <3>1 DEF TypeOK, BreakersType, BreakersOK
  <2>2. CASE ~Counts(p, t)
    <3>1. /\ current' = [current EXCEPT ![p] = current[p] \ {t}]
          /\ failures' = failures /\ cooling' = cooling
      BY <1>2, <2>2 DEF BreakerFailure
    <3> QED BY <3>1 DEF TypeOK, BreakersType, BreakersOK
  <2> QED BY <2>1, <2>2
<1>3. CASE BreakerIgnores(p, t)
  BY <1>3 DEF TypeOK, BreakersType, BreakersOK, BreakerIgnores
<1>4. CASE Admits(p) /\ BreakerAdmits(p, t)
  BY <1>4 DEF TypeOK, BreakersType, BreakersOK, BreakerAdmits, Admits
<1> QED BY <1>1, <1>2, <1>3, <1>4

\* So does the caller that asks the global gate, whether it was admitted in
\* this step or holds what is left of an earlier admission.
LEMMA AsksGlobalBreaker ==
    ASSUME TypeOK, BreakersOK, NEW p \in Proxies, NEW t \in Calls, NEW local, NEW admitted,
           \/ admitted = current[p]
           \/ Admits(p) /\ admitted = current[p] \cup {t},
           AsksGlobal(t, p, local, admitted)
    PROVE  BreakersType' /\ BreakersOK'
<1>1. admitted \in SUBSET Calls /\ (cooling[p] => admitted = {})
  BY DEF TypeOK, BreakersOK, Admits
<1>2. PICK left \in {admitted, admitted \ {t}} : current' = [current EXCEPT ![p] = left]
  BY DEF AsksGlobal
<1>3. failures' = failures /\ cooling' = cooling
  BY DEF AsksGlobal
<1>4. left \in SUBSET Calls /\ (cooling[p] => left = {})
  BY <1>1
<1> QED BY <1>2, <1>3, <1>4 DEF TypeOK, BreakersType, BreakersOK

\* No operator makes a call pending but Park.
LEMMA PendingShrinks ==
    ASSUME NEW r \in GateType, NEW t \in Calls, NEW b
    PROVE  /\ \A h \in Resumed(r, t, b) : h.pending \subseteq r.pending
           /\ \A h \in GaveUp(r, t, b) : h.pending \subseteq r.pending
           /\ \A h \in Released(r, b) : h.pending \subseteq r.pending
           /\ Take(r).pending = r.pending
           /\ Park(r, t).pending = r.pending \cup {t}
           /\ Abandon(r, t).pending = r.pending \ {t}
<1>1. ASSUME NEW k, "pending" \in DOMAIN k, NEW h \in WakeNext(k, b)
      PROVE  h.pending \subseteq k.pending
  BY <1>1 DEF WakeNext
<1>2. ASSUME NEW h \in Resumed(r, t, b)
      PROVE  h.pending \subseteq r.pending
  <2> DEFINE k == [r EXCEPT !.granted = @ \ {t}, !.waiting = @ - 1, !.open = @ + 1]
  <2>1. "pending" \in DOMAIN k /\ k.pending = r.pending
    BY DEF GateType
  <2>2. h \in WakeNext(k, b) \/ h = k
    BY <1>2 DEF Resumed
  <2> QED BY <1>1, <2>1, <2>2
<1>3. ASSUME NEW h \in GaveUp(r, t, b)
      PROVE  h.pending \subseteq r.pending
  <2> DEFINE w == [r EXCEPT !.waiting = @ - 1]
             k == [w EXCEPT !.granted = @ \ {t}, !.free = @ + 1]
  <2>1. /\ "pending" \in DOMAIN k /\ k.pending = r.pending /\ w.pending = r.pending
    BY DEF GateType
  <2>2. h \in WakeNext(k, b) \/ h = w
    BY <1>3 DEF GaveUp
  <2> QED BY <1>1, <2>1, <2>2
<1>4. ASSUME NEW h \in Released(r, b)
      PROVE  h.pending \subseteq r.pending
  <2> DEFINE k == [r EXCEPT !.open = @ - 1, !.free = @ + 1]
  <2>1. "pending" \in DOMAIN k /\ k.pending = r.pending
    BY DEF GateType
  <2>2. h \in WakeNext(k, b)
    BY <1>4 DEF Released
  <2> QED BY <1>1, <2>1, <2>2
<1>5. /\ Take(r).pending = r.pending
      /\ Park(r, t).pending = r.pending \cup {t}
      /\ Abandon(r, t).pending = r.pending \ {t}
  BY DEF GateType, Take, Park, Abandon
<1> QED BY <1>2, <1>3, <1>4, <1>5

\* A call that moves with its doom lifted, at gates that made nobody else
\* pending and with a breaker that kept its part, keeps the invariant.
LEMMA MoveKeepsIInv ==
    ASSUME IInv, NEW t \in Calls, NEW p \in Proxies,
           \/ (ParksAt(t, p, "local") \/ ParksAt(t, p, "global") \/ Opens(t, p)) /\ doom[t] = "no"
           \/ Leaves(t),
           GatesOK', IsFcn(gates', Gates),
           \A g \in Gates : gates'[g].pending \subseteq gates[g].pending \cup {t},
           BreakersType', BreakersOK'
    PROVE  IInv'
<1>1. p \in Gates /\ TypeOK
  BY DEF Gates, IInv
<1>2. TasksType'
  BY <1>1, MovesTyped
<1>3. TypeOK'
  BY <1>2, TypesFollow
<1>4. doom'[t] = "no" /\ (\A u \in Calls \ {t} : doom'[u] = doom[u])
  BY <1>1 DEF TypeOK, ParksAt, Opens, Leaves
<1>5. (pc'[t] # "idle" => via'[t] = p)
      /\ \A u \in Calls \ {t} : pc'[u] = pc[u] /\ via'[u] = via[u]
  BY <1>1 DEF TypeOK, ParksAt, Opens, Leaves
<1>6. ASSUME NEW g \in Gates, NEW u \in gates'[g].pending
      PROVE  doom'[u] = "no"
  <2>1. u \in Calls
    BY <1>6, <1>3 DEF TypeOK
  <2>2. CASE u = t
    BY <1>4, <2>2
  <2>3. CASE u # t
    BY <1>4, <1>6, <2>1, <2>3 DEF IInv, TasksOK
  <2> QED BY <2>2, <2>3
<1>7. TasksOK'
  BY <1>4, <1>5, <1>6 DEF IInv, TasksOK
<1> QED BY <1>3, <1>7 DEF IInv

LEMMA AsksGlobalKeepsIInv ==
    ASSUME IInv, NEW t \in Calls, NEW p \in Proxies, NEW local, NEW admitted,
           doom[t] = "no", GatesOK',
           local.pending \subseteq gates[p].pending, local \in GateType,
           \/ admitted = current[p]
           \/ Admits(p) /\ admitted = current[p] \cup {t},
           AsksGlobal(t, p, local, admitted)
    PROVE  IInv'
<1>1. IsFcn(gates, Gates) /\ p \in Gates /\ Global \in Gates /\ p # Global
      /\ gates[Global] \in GateType
  BY GatesAssumption, OneGate DEF IInv, TypeOK, IsFcn, Gates
<1>2. BreakersType' /\ BreakersOK'
  BY AsksGlobalBreaker DEF IInv
<1>3. CASE (\E l \in Released(local, before) : gates' = [gates EXCEPT ![p] = l]) /\ Leaves(t)
  <2>1. PICK l \in Released(local, before) : gates' = [gates EXCEPT ![p] = l]
    BY <1>3
  <2>2. IsFcn(gates', Gates)
    BY <1>1, <2>1, WritingKeepsFcn
  <2>3. \A g \in Gates : gates'[g] = IF g = p THEN l ELSE gates[g]
    BY <2>1, <1>1 DEF IsFcn
  <2>4. l.pending \subseteq gates[p].pending
    BY PendingShrinks
  <2>5. \A g \in Gates : gates'[g].pending \subseteq gates[g].pending \cup {t}
    BY <2>3, <2>4
  <2> QED BY <1>2, <1>3, <2>2, <2>5, MoveKeepsIInv
<1>4. CASE /\ gates' = [gates EXCEPT ![p] = local, ![Global] = Park(gates[Global], t)]
           /\ ParksAt(t, p, "global")
  <2>1. IsFcn(gates', Gates)
    BY <1>1, <1>4, WritingKeepsFcn
  <2>2. \A g \in Gates : gates'[g] = IF g = Global THEN Park(gates[Global], t)
                                     ELSE IF g = p THEN local ELSE gates[g]
    BY <1>1, <1>4 DEF IsFcn
  <2>3. Park(gates[Global], t).pending = gates[Global].pending \cup {t}
    BY <1>1, PendingShrinks
  <2>4. \A g \in Gates : gates'[g].pending \subseteq gates[g].pending \cup {t}
    BY <2>2, <2>3
  <2> QED BY <1>2, <1>4, <2>1, <2>4, MoveKeepsIInv
<1>5. CASE /\ gates' = [gates EXCEPT ![p] = local, ![Global] = Take(gates[Global])]
           /\ Opens(t, p)
  <2>1. IsFcn(gates', Gates)
    BY <1>1, <1>5, WritingKeepsFcn
  <2>2. \A g \in Gates : gates'[g] = IF g = Global THEN Take(gates[Global])
                                     ELSE IF g = p THEN local ELSE gates[g]
    BY <1>1, <1>5 DEF IsFcn
  <2>3. Take(gates[Global]).pending = gates[Global].pending
    BY <1>1, PendingShrinks
  <2>4. \A g \in Gates : gates'[g].pending \subseteq gates[g].pending \cup {t}
    BY <2>2, <2>3
  <2> QED BY <1>2, <1>5, <2>1, <2>4, MoveKeepsIInv
<1> QED BY <1>3, <1>4, <1>5 DEF AsksGlobal

LEMMA ConnectKeepsIInv ==
    ASSUME IInv, NEW t \in Calls, NEW p \in Proxies, ParkLocal(t, p) \/ TakeLocal(t, p)
    PROVE  IInv'
<1>1. /\ pc[t] = "idle" /\ Admits(p) /\ p \in Gates /\ gates[p] \in GateType
      /\ IsFcn(gates, Gates)
  BY OneGate DEF ParkLocal, TakeLocal, Gates, IInv, TypeOK, IsFcn
<1>2. doom[t] = "no"
  BY <1>1 DEF IInv, TasksOK
<1>3. CASE ParkLocal(t, p)
  <2>1. gates' = [gates EXCEPT ![p] = Park(gates[p], t)]
    BY <1>3 DEF ParkLocal
  <2>2. IsFcn(gates', Gates)
    BY <1>1, <2>1, WritingKeepsFcn
  <2>3. Park(gates[p], t).pending = gates[p].pending \cup {t}
    BY <1>1, PendingShrinks
  <2>4. \A g \in Gates : gates'[g].pending \subseteq gates[g].pending \cup {t}
    BY <1>1, <2>1, <2>3 DEF IsFcn
  <2>5. BreakersType' /\ BreakersOK'
    BY <1>1, <1>3, BreakerSteps DEF ParkLocal, IInv
  <2> QED BY <1>2, <1>3, <2>2, <2>4, <2>5, ParkLocalKeepsGates, MoveKeepsIInv DEF ParkLocal
<1>4. CASE TakeLocal(t, p)
  <2>1. AsksGlobal(t, p, Take(gates[p]), current[p] \cup {t}) /\ ~Locked(gates[p])
    BY <1>4 DEF TakeLocal
  <2>2. Take(gates[p]).pending = gates[p].pending
    BY <1>1, PendingShrinks
  <2>3. Take(gates[p]) \in GateType
    <3>1. gates[p].free - 1 \in Nat /\ gates[p].open + 1 \in Nat
      BY <1>1, <2>1 DEF GateType, Locked
    <3> QED BY <1>1, <3>1, GateUpdates DEF Take, GateType
  <2> QED BY <1>1, <1>2, <1>4, <2>1, <2>2, <2>3, TakeLocalKeepsGates, AsksGlobalKeepsIInv
<1> QED BY <1>3, <1>4

LEMMA ResumeKeepsIInv ==
    ASSUME IInv, NEW t \in Calls, ResumeLocal(t) \/ ResumeGlobal(t)
    PROVE  IInv'
<1> DEFINE p == via[t]
<1>1. pc[t] # "idle" /\ doom[t] = "no"
  BY DEF ResumeLocal, ResumeGlobal
<1>2. /\ p \in Proxies /\ p \in Gates /\ Global \in Gates
      /\ gates[p] \in GateType /\ gates[Global] \in GateType
      /\ IsFcn(gates, Gates)
  BY <1>1, OneCall, OneGate DEF IInv, TypeOK, IsFcn
<1>3. CASE ResumeLocal(t)
  <2>1. PICK local \in Resumed(gates[p], t, before) : AsksGlobal(t, p, local, current[p])
    BY <1>3 DEF ResumeLocal
  <2>2. local.pending \subseteq gates[p].pending
    BY <1>2, PendingShrinks
  <2>3. local \in GateType
    <3>1. t \in gates[p].granted /\ t \notin Inside(p)
      BY <1>3, OneCall DEF ResumeLocal
    <3>2. GateOK(local, Waiters(p) \ {t}, Inside(p) \cup {t}, Limit(p))
      BY <1>2, <3>1, OneGate, GateSets, ResumedKeeps
    <3> QED BY <3>2 DEF GateOK, Accounts
  <2>4. GatesOK'
    BY <1>3, ResumeLocalKeepsGates
  <2> QED BY <1>1, <1>2, <2>1, <2>2, <2>3, <2>4, AsksGlobalKeepsIInv
<1>4. CASE ResumeGlobal(t)
  <2>1. PICK h \in Resumed(gates[Global], t, before) : gates' = [gates EXCEPT ![Global] = h]
    BY <1>4 DEF ResumeGlobal
  <2>2. h.pending \subseteq gates[Global].pending
    BY <1>2, PendingShrinks
  <2>3. IsFcn(gates', Gates)
    BY <1>2, <2>1, WritingKeepsFcn
  <2>4. \A g \in Gates : gates'[g].pending \subseteq gates[g].pending \cup {t}
    BY <1>2, <2>1, <2>2 DEF IsFcn
  <2>5. BreakersType' /\ BreakersOK'
    BY <1>4 DEF ResumeGlobal, breakerVars, IInv, TypeOK, BreakersType, BreakersOK
  <2>6. Opens(t, p) /\ GatesOK'
    BY <1>4, ResumeGlobalKeepsGates DEF ResumeGlobal
  <2> QED BY <1>1, <1>2, <2>3, <2>4, <2>5, <2>6, MoveKeepsIInv
<1> QED BY <1>3, <1>4

LEMMA LeaveKeepsIInv ==
    ASSUME IInv, NEW t \in Calls, NEW how \in {"ok", "error", "cancelled"},
           ResumeDoomedLocal(t) \/ ResumeDoomedGlobal(t) \/ EndSession(t, how)
    PROVE  IInv'
<1> DEFINE p == via[t]
<1>1. pc[t] # "idle" /\ Leaves(t)
  BY DEF ResumeDoomedLocal, ResumeDoomedGlobal, EndSession
<1>2. /\ p \in Proxies /\ p \in Gates /\ Global \in Gates
      /\ gates[p] \in GateType /\ gates[Global] \in GateType
      /\ IsFcn(gates, Gates)
  BY <1>1, OneCall, OneGate DEF IInv, TypeOK, IsFcn
<1>3. GatesOK'
  BY ResumeDoomedLocalKeepsGates, ResumeDoomedGlobalKeepsGates, EndSessionKeepsGates
<1>4. BreakersType' /\ BreakersOK'
  <2>1. BreakerSuccess(p, t) \/ BreakerFailure(p, t) \/ BreakerIgnores(p, t)
    BY DEF ResumeDoomedLocal, ResumeDoomedGlobal, EndSession
  <2> QED BY <1>2, <2>1, BreakerSteps DEF IInv
<1>5. CASE ResumeDoomedLocal(t)
  <2>1. PICK h \in GaveUp(gates[p], t, before) : gates' = [gates EXCEPT ![p] = h]
    BY <1>5 DEF ResumeDoomedLocal
  <2>2. h.pending \subseteq gates[p].pending
    BY <1>2, PendingShrinks
  <2>3. IsFcn(gates', Gates)
    BY <1>2, <2>1, WritingKeepsFcn
  <2>4. \A g \in Gates : gates'[g].pending \subseteq gates[g].pending \cup {t}
    BY <1>2, <2>1, <2>2 DEF IsFcn
  <2> QED BY <1>1, <1>2, <1>3, <1>4, <2>3, <2>4, MoveKeepsIInv
<1>6. CASE ResumeDoomedGlobal(t) \/ EndSession(t, how)
  <2>1. PICK h \in GaveUp(gates[Global], t, before) \cup Released(gates[Global], before),
             l \in Released(gates[p], before) : gates' = [gates EXCEPT ![Global] = h, ![p] = l]
    BY <1>6 DEF ResumeDoomedGlobal, EndSession
  <2>2. h.pending \subseteq gates[Global].pending /\ l.pending \subseteq gates[p].pending
    BY <1>2, PendingShrinks
  <2>3. IsFcn(gates', Gates)
    BY <1>2, <2>1, WritingKeepsFcn
  <2>4. \A g \in Gates : gates'[g].pending \subseteq gates[g].pending \cup {t}
    BY <1>2, <2>1, <2>2 DEF IsFcn
  <2> QED BY <1>1, <1>2, <1>3, <1>4, <2>3, <2>4, MoveKeepsIInv
<1> QED BY <1>5, <1>6

\* A hit only takes a future out of its line.
LEMMA HitKeepsIInv ==
    ASSUME IInv, NEW t \in Calls, Expire(t) \/ Cancel(t)
    PROVE  IInv'
<1>1. PICK what \in {"timeout", "cancel"} : Hit(t, what) /\ t \in Parked /\ before' = Unlined(t)
  BY DEF Expire, Cancel
<1>2. pc[t] \in {"local", "global"} /\ GateOf(t) \in Gates /\ IsFcn(gates, Gates)
  BY <1>1, OneCall DEF Parked, GateOf, IInv, TypeOK, IsFcn
<1>3. GatesOK'
  BY <1>1, HitKeepsGates
<1>4. gates' = [gates EXCEPT ![GateOf(t)] = Abandon(gates[GateOf(t)], t)]
  BY <1>1 DEF Hit
<1>5. IsFcn(gates', Gates)
  BY <1>2, <1>4, WritingKeepsFcn
<1>6. TasksType' /\ BreakersType' /\ BreakersOK'
  <2>1. Unlined(t) \subseteq Calls \X Calls
    BY DEF Unlined, IInv, TypeOK
  <2> QED BY <1>1, <2>1 DEF Hit, breakerVars, IInv, TypeOK, TasksType, BreakersType, BreakersOK
<1>7. ASSUME NEW g \in Gates, NEW u \in gates'[g].pending
      PROVE  doom'[u] = "no"
  <2>1. gates'[g] = IF g = GateOf(t) THEN Abandon(gates[g], t) ELSE gates[g]
    BY <1>2, <1>4 DEF IsFcn
  <2>2. Abandon(gates[g], t).pending = gates[g].pending \ {t}
    BY OneGate, PendingShrinks
  <2>3. u \in gates[g].pending /\ (g = GateOf(t) => u # t)
    BY <1>7, <2>1, <2>2
  <2>4. u \in Waiters(g) /\ u \in Calls /\ doom[u] = "no"
    BY <2>3, OneGate DEF Waiters
  <2>5. u # t
    BY <1>1, <1>2, <2>3, <2>4, OneCall DEF Waiters, GateOf, Gates
  <2> QED BY <1>1, <2>4, <2>5 DEF Hit, IInv, TypeOK
<1>8. TasksOK'
  BY <1>1, <1>2, <1>7 DEF Hit, IInv, TypeOK, TasksOK
<1> QED BY <1>3, <1>5, <1>6, <1>8, TypesFollow DEF IInv

LEMMA SameGates ==
    ASSUME IInv, UNCHANGED gateVars
    PROVE  GatesOK' /\ TasksOK' /\ TasksType' /\ IsFcn(gates', Gates)
<1>1. \A g : Waiters(g)' = Waiters(g) /\ Inside(g)' = Inside(g)
  BY StaysPut DEF gateVars
<1>2. gates' = gates /\ GatesOK
  BY DEF gateVars, IInv
<1>3. GatesOK'
  BY <1>1, <1>2 DEF GatesOK
<1> QED BY <1>3 DEF gateVars, IInv, TypeOK, TasksOK, TasksType, IsFcn

-----------------------------------------------------------------------------
(* The theorems. *)

LEMMA InitKeeps == Init => IInv
<1> SUFFICES ASSUME Init PROVE IInv
  OBVIOUS
<1>1. \A g \in Gates : Waiters(g) = {} /\ Inside(g) = {} /\ Limit(g) \in Nat
  BY LimitsAssumption DEF Init, Waiters, Inside, Limit, Gates
<1>2. \A g \in Gates : gates[g] = NewGate(Limit(g))
  BY DEF Init
<1>3. Cardinality({}) = 0
  BY FS_EmptySet
<1>4. GatesOK
  <2> SUFFICES ASSUME NEW g \in Gates
               PROVE  GateOK(gates[g], {}, {}, Limit(g))
    BY <1>1 DEF GatesOK
  <2>1. /\ NewGate(Limit(g)).free = Limit(g)
        /\ NewGate(Limit(g)).pending = {} /\ NewGate(Limit(g)).granted = {}
        /\ NewGate(Limit(g)).waiting = 0 /\ NewGate(Limit(g)).open = 0
        /\ NewGate(Limit(g)) \in GateType
    BY <1>1 DEF NewGate, GateType
  <2>2. gates[g] = NewGate(Limit(g))
    BY <1>2
  <2> QED BY <1>1, <1>3, <2>1, <2>2 DEF GateOK, Accounts
<1>5. gates \in [Gates -> GateType]
  BY <1>1 DEF Init, NewGate, GateType
<1>6. TypeOK /\ TasksOK /\ BreakersOK
  BY <1>2, <1>5 DEF Init, TypeOK, GateType, TasksOK, BreakersOK, NewGate, Gates
<1> QED BY <1>4, <1>6 DEF IInv

LEMMA NextKeeps == IInv /\ [Next]_vars => IInv'
<1> SUFFICES ASSUME IInv, [Next]_vars PROVE IInv'
  OBVIOUS
<1>1. CASE UNCHANGED vars
  <2>1. BreakersType' /\ BreakersOK'
    BY <1>1 DEF vars, breakerVars, IInv, TypeOK, BreakersType, BreakersOK
  <2>2. GatesOK' /\ TasksOK' /\ TasksType' /\ IsFcn(gates', Gates)
    BY <1>1, SameGates DEF vars
  <2> QED BY <2>1, <2>2, TypesFollow DEF IInv
<1>2. ASSUME NEW t \in Calls, NEW p \in Proxies, Connect(t, p)
      PROVE  IInv'
  BY <1>1, <1>2, ConnectKeepsIInv DEF Connect, FailFast, ShedLocal
<1>3. ASSUME NEW t \in Calls, Resume(t)
      PROVE  IInv'
  BY <1>3, ResumeKeepsIInv, LeaveKeepsIInv DEF Resume
<1>4. ASSUME NEW t \in Calls, Expire(t) \/ Cancel(t)
      PROVE  IInv'
  BY <1>4, HitKeepsIInv
<1>5. ASSUME NEW t \in Calls, NEW how \in {"ok", "error", "cancelled"}, EndSession(t, how)
      PROVE  IInv'
  BY <1>5, LeaveKeepsIInv
<1>6. ASSUME NEW p \in Proxies, WindowEnds(p)
      PROVE  IInv'
  <2>1. BreakersType' /\ BreakersOK'
    BY <1>6 DEF WindowEnds, IInv, TypeOK, BreakersType, BreakersOK
  <2>2. GatesOK' /\ TasksOK' /\ TasksType' /\ IsFcn(gates', Gates)
    BY <1>6, SameGates DEF WindowEnds
  <2> QED BY <2>1, <2>2, TypesFollow DEF IInv
<1> QED BY <1>1, <1>2, <1>3, <1>4, <1>5, <1>6 DEF Next

LEMMA Invariance == Spec => []IInv
<1> QED BY InitKeeps, NextKeeps, PTL DEF Spec

\* Every variable keeps its type; for the counters of the gates that means
\* that none is ever decremented below zero.
THEOREM Typing == Spec => []TypeOK
<1>1. IInv => TypeOK
  BY DEF IInv
<1> QED BY <1>1, Invariance, PTL

\* Permits, `open` and `waiting` agree with the calls at every gate.
THEOREM SlotsAreAccounted == Spec => []SlotsAccounted
<1>1. IInv => SlotsAccounted
  BY DEF IInv, GatesOK, GateOK, Accounts, SlotsAccounted
<1> QED BY <1>1, Invariance, PTL

\* No release of a slot is lost.
THEOREM WakeupsAreKept == Spec => []NoLostWakeup
<1>1. IInv => NoLostWakeup
  BY DEF IInv, GatesOK, GateOK, NoLostWakeup
<1> QED BY <1>1, Invariance, PTL

\* Only a call that holds the current generation raises the count, and no
\* call holds it inside a window.
LEMMA CountedOutsideWindow ==
    ASSUME IInv, Next, NEW p \in Proxies, failures'[p] > failures[p]
    PROVE  ~cooling[p]
<1>1. failures \in [Proxies -> Nat]
  BY DEF IInv, TypeOK
<1>2. PICK t \in Calls, q \in Proxies : BreakerFailure(q, t) \/ BreakerSuccess(q, t)
  <2>1. ~(UNCHANGED failures)
    BY <1>1
  <2>2. PICK t \in Calls : \/ ResumeDoomedLocal(t)
                          \/ \E how \in {"ok", "error", "cancelled"} : EndSession(t, how)
    BY <2>1 DEF Next, Connect, FailFast, ShedLocal, ParkLocal, TakeLocal, AsksGlobal, BreakerAdmits,
                Resume, ResumeLocal, ResumeGlobal, ResumeDoomedGlobal, BreakerIgnores,
                Expire, Cancel, Hit, WindowEnds, vars, breakerVars
  <2>3. via[t] \in Proxies
    BY <2>2, OneCall DEF ResumeDoomedLocal, EndSession
  <2>4. CASE ResumeDoomedLocal(t)
    BY <2>1, <2>3, <2>4 DEF ResumeDoomedLocal, BreakerIgnores
  <2>5. CASE \E how \in {"ok", "error", "cancelled"} : EndSession(t, how)
    BY <2>1, <2>3, <2>5 DEF EndSession, BreakerIgnores
  <2> QED BY <2>2, <2>4, <2>5
<1>3. CASE BreakerSuccess(q, t)
  BY <1>1, <1>3 DEF BreakerSuccess
<1>4. CASE BreakerFailure(q, t)
  <2>1. Counts(q, t)
    BY <1>1, <1>4 DEF BreakerFailure
  <2>2. p = q
    BY <1>1, <1>4, <2>1 DEF BreakerFailure
  <2> QED BY <2>1, <2>2 DEF Counts, IInv, BreakersOK
<1> QED BY <1>2, <1>3, <1>4

\* A burst of failures counts once per backoff window.
THEOREM BurstsCountOnce == Spec => BurstCountsOnce
<1>1. IInv /\ [Next]_vars
        => [\A p \in Proxies : failures'[p] > failures[p] => ~cooling[p]]_vars
  BY CountedOutsideWindow
<1> QED BY <1>1, Invariance, PTL DEF Spec, BurstCountsOnce

-----------------------------------------------------------------------------
(* SessionPool.  Its sessions are the calls in the block with their        *)
(* proxies, so a step of it is seen in who enters or leaves the block.     *)

OpenSessions == {<<t, via[t]>> : t \in {u \in Calls : pc[u] = "session"}}

\* The three ways a call that moves can change the open sessions.
LEMMA SessionsFollow ==
    ASSUME TypeOK, NEW t \in Calls, NEW where, NEW p, MovesTo(t, where, p)
    PROVE  /\ pc[t] # "session" /\ where # "session" => OpenSessions' = OpenSessions
           /\ pc[t] # "session" /\ where = "session"
                => OpenSessions' = OpenSessions \cup {<<t, p>>}
           /\ pc[t] = "session" /\ where # "session"
                => OpenSessions' = OpenSessions \ {<<t, via[t]>>}
<1>1. /\ pc'[t] = where /\ via'[t] = p
      /\ \A u \in Calls \ {t} : pc'[u] = pc[u] /\ via'[u] = via[u]
  BY DEF TypeOK, MovesTo
<1>2. OpenSessions' = {<<u, via'[u]>> : u \in {v \in Calls : pc'[v] = "session"}}
  BY DEF OpenSessions
<1>3. CASE pc[t] # "session" /\ where # "session"
  BY <1>1, <1>2, <1>3 DEF OpenSessions
<1>4. CASE pc[t] # "session" /\ where = "session"
  BY <1>1, <1>2, <1>4 DEF OpenSessions
<1>5. CASE pc[t] = "session" /\ where # "session"
  BY <1>1, <1>2, <1>5 DEF OpenSessions
<1> QED BY <1>3, <1>4, <1>5

\* There are at most as many sessions as calls that hold one.
LEMMA SessionsOfCalls ==
    ASSUME NEW S \in SUBSET Calls, NEW v
    PROVE  /\ IsFiniteSet({<<u, v[u]>> : u \in S})
           /\ Cardinality({<<u, v[u]>> : u \in S}) \in Nat
           /\ Cardinality({<<u, v[u]>> : u \in S}) <= Cardinality(S)
<1> DEFINE T == {<<u, v[u]>> : u \in S}
           f == [u \in S |-> <<u, v[u]>>]
<1>1. f \in Surjection(S, T)
  BY DEF Surjection
<1>2. IsFiniteSet(S)
  BY CallSets, CallsAssumption, FS_Subset
<1>3. IsFiniteSet(T) /\ Cardinality(T) <= Cardinality(S)
  <2> HIDE DEF f, T
  <2> QED BY <1>1, <1>2, FS_Surjection
<1>4. Cardinality(T) \in Nat
  BY <1>3, FS_CardinalityType
<1> QED BY <1>3, <1>4

\* A gate never holds more calls than its limit, so the one that has just
\* gone in found room.
LEMMA RoomBefore ==
    ASSUME NEW I \in SUBSET Calls, NEW r, NEW W, NEW limit \in Nat, GateOK(r, W, I, limit),
           NEW t \in I, NEW S \in SUBSET (I \ {t})
    PROVE  Cardinality(S) < limit
<1>1. /\ Cardinality(I \ {t}) = Cardinality(I) - 1 /\ Cardinality(I) \in Nat
      /\ IsFiniteSet(I \ {t}) /\ I \ {t} \in SUBSET Calls
  BY CallSets
<1>2. Cardinality(r.granted) \in Nat /\ r.free \in Nat
  BY CallSets DEF GateOK, Accounts, GateType
<1>3. Cardinality(I) <= limit
  BY <1>1, <1>2 DEF GateOK, Accounts
<1>4. Cardinality(S) <= Cardinality(I \ {t}) /\ S \in SUBSET Calls
  BY <1>1, FS_Subset
<1>5. Cardinality(S) \in Nat
  BY <1>4, CallSets
<1> QED BY <1>1, <1>3, <1>4, <1>5

\* SessionPool counts as this module does.
LEMMA SameCount == \A S : Pool!Cardinality(S) = Cardinality(S)
BY Zenon DEF Pool!Cardinality, Cardinality

\* A call that enters the block is one that both caps leave room for.
LEMMA OpensIsOpen ==
    ASSUME IInv, IInv', NEW t \in Calls, NEW p \in Proxies, pc[t] # "session",
           Opens(t, p), UNCHANGED <<failures, cooling>>
    PROVE  Pool!Open(t, p)
<1> DEFINE Here == {u \in Calls : pc[u] = "session" /\ via[u] = p}
           All == {u \in Calls : pc[u] = "session"}
<1>1. /\ pc'[t] = "session" /\ via'[t] = p
      /\ \A u \in Calls \ {t} : pc'[u] = pc[u] /\ via'[u] = via[u]
  BY DEF IInv, TypeOK, Opens
<1>2. p \in Gates /\ Global \in Gates /\ p # Global
  BY GatesAssumption DEF Gates
<1>3. t \in Inside(p)' /\ Here \subseteq Inside(p)' \ {t}
  BY <1>1, <1>2 DEF Inside
<1>4. t \in Inside(Global)' /\ All \subseteq Inside(Global)' \ {t}
  BY <1>1 DEF Inside
<1>5. Inside(p)' \in SUBSET Calls /\ Inside(Global)' \in SUBSET Calls
  BY DEF Inside
<1>6. Limit(p) = MaxSessions /\ Limit(Global) = MaxTotal
      /\ MaxSessions \in Nat /\ MaxTotal \in Nat
  BY <1>2, LimitsAssumption DEF Limit
<1>7. GateOK(gates'[p], Waiters(p)', Inside(p)', MaxSessions)
      /\ GateOK(gates'[Global], Waiters(Global)', Inside(Global)', MaxTotal)
  BY <1>2, <1>6 DEF IInv, GatesOK
<1>8. Cardinality(Here) < MaxSessions /\ Here \in SUBSET Calls /\ Cardinality(Here) \in Nat
  <2>1. Cardinality(Here) < MaxSessions
    BY <1>3, <1>5, <1>6, <1>7, RoomBefore
  <2> QED BY <2>1, CallSets
<1>9. Cardinality(All) < MaxTotal /\ All \in SUBSET Calls /\ Cardinality(All) \in Nat
  <2>1. Cardinality(All) < MaxTotal
    BY <1>4, <1>5, <1>6, <1>7, RoomBefore
  <2> QED BY <2>1, CallSets
<1>10. Cardinality(OpenSessions) < MaxTotal
  <2>1. /\ Cardinality({<<u, via[u]>> : u \in All}) \in Nat
        /\ Cardinality({<<u, via[u]>> : u \in All}) <= Cardinality(All)
    BY <1>9, SessionsOfCalls
  <2> QED BY <1>6, <1>9, <2>1 DEF OpenSessions
<1>11. Cardinality({s \in OpenSessions : s[2] = p}) < MaxSessions
  <2>1. {s \in OpenSessions : s[2] = p} = {<<u, via[u]>> : u \in Here}
    BY DEF OpenSessions
  <2>2. /\ Cardinality({<<u, via[u]>> : u \in Here}) \in Nat
        /\ Cardinality({<<u, via[u]>> : u \in Here}) <= Cardinality(Here)
    BY <1>8, SessionsOfCalls
  <2>3. Cardinality({s \in OpenSessions : s[2] = p}) = Cardinality({<<u, via[u]>> : u \in Here})
    BY <2>1
  <2> HIDE DEF Here
  <2> QED BY <1>6, <1>8, <2>2, <2>3
<1>12. OpenSessions' = OpenSessions \cup {<<t, p>>}
  BY SessionsFollow DEF IInv, Opens, MovesTo
<1>13. \A s \in OpenSessions : s[1] # t
  BY DEF OpenSessions
<1>14. Pool!Open(t, p) <=>
         /\ \A s \in OpenSessions : s[1] # t
         /\ Cardinality({s \in OpenSessions : s[2] = p}) < MaxSessions
         /\ Cardinality(OpenSessions) < MaxTotal
         /\ OpenSessions' = OpenSessions \cup {<<t, p>>}
         /\ UNCHANGED <<failures, cooling>>
  BY SameCount DEF Pool!Open, Pool!OfProxy, OpenSessions
<1> QED BY <1>10, <1>11, <1>12, <1>13, <1>14

\* What the breaker makes of a call is a strike, a pardon or nothing.
LEMMA BreakerIsPool ==
    ASSUME IInv, NEW t \in Calls, NEW p \in Proxies
    PROVE  /\ BreakerFailure(p, t) => Pool!Strike(p) \/ UNCHANGED <<failures, cooling>>
           /\ BreakerSuccess(p, t) => Pool!Forgive(p)
           /\ BreakerIgnores(p, t) => UNCHANGED <<failures, cooling>>
<1>1. ASSUME BreakerFailure(p, t), Counts(p, t)
      PROVE  Pool!Strike(p)
  <2>1. ~cooling[p] /\ ~Exhausted(failures[p])
    BY <1>1 DEF Counts, IInv, BreakersOK
  <2> QED BY <1>1, <2>1 DEF BreakerFailure, Exhausted, Pool!Strike, Pool!GaveUp
<1>2. ASSUME BreakerFailure(p, t), ~Counts(p, t)
      PROVE  UNCHANGED <<failures, cooling>>
  BY <1>2 DEF BreakerFailure
<1>3. BreakerSuccess(p, t) => Pool!Forgive(p)
  BY DEF BreakerSuccess, Pool!Forgive
<1>4. BreakerIgnores(p, t) => UNCHANGED <<failures, cooling>>
  BY DEF BreakerIgnores
<1> QED BY <1>1, <1>2, <1>3, <1>4

LEMMA StepIsPool ==
    ASSUME IInv, IInv', Next
    PROVE  [Pool!Next]_(Pool!vars)
<1>1. UNCHANGED OpenSessions /\ UNCHANGED <<failures, cooling>> => UNCHANGED Pool!vars
  BY DEF OpenSessions, Pool!vars
<1>2. ASSUME NEW t \in Calls, NEW p \in Proxies, NEW local, NEW admitted, pc[t] # "session",
             AsksGlobal(t, p, local, admitted)
      PROVE  [Pool!Next]_(Pool!vars)
  <2>1. UNCHANGED <<failures, cooling>>
    BY <1>2 DEF AsksGlobal
  <2>2. CASE Opens(t, p)
    BY <1>2, <2>1, <2>2, OpensIsOpen DEF Pool!Next
  <2>3. CASE Leaves(t) \/ ParksAt(t, p, "global")
    <3>1. MovesTo(t, "idle", Global) \/ MovesTo(t, "global", p)
      BY <2>3 DEF Leaves, ParksAt, MovesTo
    <3>2. UNCHANGED OpenSessions
      BY <1>2, <3>1, SessionsFollow DEF IInv
    <3> QED BY <1>1, <2>1, <3>2
  <2> QED BY <1>2, <2>2, <2>3 DEF AsksGlobal
<1>3. ASSUME NEW t \in Calls, NEW p \in Proxies, Connect(t, p)
      PROVE  [Pool!Next]_(Pool!vars)
  <2>1. CASE FailFast(t, p) \/ ShedLocal(t, p)
    <3>1. UNCHANGED <<pc, via, failures, cooling>>
      BY <2>1 DEF FailFast, ShedLocal, vars, gateVars, breakerVars
    <3> QED BY <1>1, <3>1 DEF OpenSessions
  <2>2. CASE ParkLocal(t, p)
    <3>1. pc[t] # "session" /\ MovesTo(t, "local", p) /\ UNCHANGED <<failures, cooling>>
      BY <2>2 DEF ParkLocal, ParksAt, MovesTo, BreakerAdmits
    <3>2. UNCHANGED OpenSessions
      BY <3>1, SessionsFollow DEF IInv
    <3> QED BY <1>1, <3>1, <3>2
  <2>3. CASE TakeLocal(t, p)
    <3>1. pc[t] # "session" /\ AsksGlobal(t, p, Take(gates[p]), current[p] \cup {t})
      BY <2>3 DEF TakeLocal
    <3> QED BY <1>2, <3>1
  <2> QED BY <1>3, <2>1, <2>2, <2>3 DEF Connect
<1>4. ASSUME NEW t \in Calls, Resume(t)
      PROVE  [Pool!Next]_(Pool!vars)
  <2>1. pc[t] \in {"local", "global"}
    BY <1>4 DEF Resume, ResumeLocal, ResumeGlobal, ResumeDoomedLocal, ResumeDoomedGlobal
  <2>2. via[t] \in Proxies
    BY <2>1 DEF IInv, TasksOK
  <2>3. CASE ResumeLocal(t)
    BY <1>2, <2>1, <2>2, <2>3 DEF ResumeLocal
  <2>4. CASE ResumeGlobal(t)
    <3>1. Opens(t, via[t]) /\ UNCHANGED <<failures, cooling>>
      BY <2>4 DEF ResumeGlobal, breakerVars
    <3> QED BY <2>1, <2>2, <3>1, OpensIsOpen DEF Pool!Next
  <2>5. ASSUME Leaves(t)
        PROVE  UNCHANGED OpenSessions
    <3>1. MovesTo(t, "idle", Global)
      BY <2>5 DEF Leaves, MovesTo
    <3> QED BY <2>1, <3>1, SessionsFollow DEF IInv
  <2>6. CASE ResumeDoomedLocal(t)
    <3>1. UNCHANGED OpenSessions
      BY <2>5, <2>6 DEF ResumeDoomedLocal
    <3>2. BreakerFailure(via[t], t) \/ BreakerIgnores(via[t], t)
      BY <2>6 DEF ResumeDoomedLocal
    <3>3. Pool!Strike(via[t]) \/ UNCHANGED <<failures, cooling>>
      BY <2>2, <3>2, BreakerIsPool
    <3>4. Pool!Strike(via[t]) => Pool!WaitedTooLong(via[t])
      BY <3>1 DEF Pool!WaitedTooLong, OpenSessions
    <3> QED BY <1>1, <2>2, <3>1, <3>3, <3>4 DEF Pool!Next
  <2>7. CASE ResumeDoomedGlobal(t)
    <3>1. UNCHANGED OpenSessions /\ UNCHANGED <<failures, cooling>>
      BY <2>5, <2>7 DEF ResumeDoomedGlobal, BreakerIgnores
    <3> QED BY <1>1, <3>1
  <2> QED BY <1>4, <2>3, <2>4, <2>6, <2>7 DEF Resume
<1>5. ASSUME NEW t \in Calls, Expire(t) \/ Cancel(t)
      PROVE  [Pool!Next]_(Pool!vars)
  <2>1. UNCHANGED <<pc, via, failures, cooling>>
    BY <1>5 DEF Expire, Cancel, Hit, breakerVars
  <2> QED BY <1>1, <2>1 DEF OpenSessions
<1>6. ASSUME NEW t \in Calls, NEW how \in {"ok", "error", "cancelled"}, EndSession(t, how)
      PROVE  [Pool!Next]_(Pool!vars)
  <2>1. pc[t] = "session" /\ Leaves(t)
    BY <1>6 DEF EndSession
  <2>2. PICK p \in Proxies : p = via[t]
    BY <2>1 DEF IInv, TasksOK
  <2>3. OpenSessions' = OpenSessions \ {<<t, p>>} /\ <<t, p>> \in OpenSessions
    <3>1. MovesTo(t, "idle", Global)
      BY <2>1 DEF Leaves, MovesTo
    <3>2. <<t, p>> \in OpenSessions
      BY <2>1, <2>2 DEF OpenSessions
    <3> QED BY <2>1, <2>2, <3>1, <3>2, SessionsFollow DEF IInv
  <2>4. BreakerSuccess(p, t) \/ BreakerFailure(p, t) \/ BreakerIgnores(p, t)
    BY <1>6, <2>2 DEF EndSession
  <2>5. Pool!Strike(p) \/ Pool!Forgive(p) \/ UNCHANGED <<failures, cooling>>
    BY <2>2, <2>4, BreakerIsPool
  <2>6. Pool!Close(t, p)
    BY <2>3, <2>5 DEF Pool!Close, OpenSessions
  <2> QED BY <2>6 DEF Pool!Next
<1>7. ASSUME NEW p \in Proxies, WindowEnds(p)
      PROVE  [Pool!Next]_(Pool!vars)
  <2>1. UNCHANGED OpenSessions
    BY <1>7 DEF WindowEnds, gateVars, OpenSessions
  <2>2. Pool!WindowEnds(p)
    BY <1>7, <2>1 DEF WindowEnds, Pool!WindowEnds, OpenSessions
  <2> QED BY <2>2 DEF Pool!Next
<1> QED BY <1>3, <1>4, <1>5, <1>6, <1>7 DEF Next

\* connect_session implements the bounded pool with one strike per backoff
\* window: every step of the gates and breakers is a step of SessionPool or
\* is not seen there.
THEOREM GatesImplementPool == Spec => PoolSpec
<1>1. Init => Pool!Init
  BY DEF Init, Pool!Init
<1>2. IInv /\ IInv' /\ [Next]_vars => [Pool!Next]_(Pool!vars)
  <2>1. UNCHANGED vars => UNCHANGED Pool!vars
    BY DEF vars, gateVars, breakerVars, Pool!vars
  <2> QED BY <2>1, StepIsPool
<1> QED BY <1>1, <1>2, Invariance, PTL DEF Spec, PoolSpec, Pool!Spec
=============================================================================
