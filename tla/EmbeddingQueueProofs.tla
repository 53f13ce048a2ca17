------------------------ MODULE EmbeddingQueueProofs ------------------------
(***************************************************************************)
(* Theorems about EmbeddingQueue, for any routes, versions, producers,     *)
(* workers and batch size, with every kind of event allowed; only the last *)
(* one excludes stops and content that changes.                            *)
(*                                                                         *)
(* DoneHasVector needs to know that a worker publishes a vector for every  *)
(* job it turns done; OneWorkerPerJob, that a held job is processing and   *)
(* that nothing but its worker takes it out of that status.                *)
(***************************************************************************)
EXTENDS EmbeddingQueue, TLAPS

\* A job in a worker's hands is processing.
HeldIsProcessing == \A w \in Workers : \A j \in ours[w] : job[j] = "processing"

IInv == TypeOK /\ DoneHasVector /\ HeldIsProcessing /\ OneWorkerPerJob

LEMMA InitIInv == Init => IInv
<1> SUFFICES ASSUME Init PROVE IInv
  OBVIOUS
<1>1. TypeOK
  BY DEF Init, TypeOK, Unregistered, Jobs
<1>2. DoneHasVector /\ HeldIsProcessing /\ OneWorkerPerJob
  BY DEF Init, DoneHasVector, HeldIsProcessing, OneWorkerPerJob
<1> QED BY <1>1, <1>2 DEF IInv

\* A step that leaves the tables and the workers' batches alone.
LEMMA TablesKept ==
  ASSUME IInv, UNCHANGED <<vector, job, ours>>, TypeOK'
  PROVE  IInv'
  BY DEF IInv, DoneHasVector, HeldIsProcessing, OneWorkerPerJob

-----------------------------------------------------------------------------
(* Producers. *)

LEMMA ProducerTyped ==
  ASSUME TypeOK, NEW e \in Producers,
         NEW where \in {"idle", "prune", "disabled", "existing", "insert"},
         NEW left \in [Routes -> Versions \cup {None}],
         ProducerGoes(e, where, left),
         vector' \in [Routes -> [version : Versions, enabled : BOOLEAN] \cup {None}],
         job' \in [Jobs -> {"none", "pending", "processing", "done", "failed"}],
         older' \subseteq Jobs \X Jobs
  PROVE  TypeOK' /\ ours' = ours
  BY DEF TypeOK, ProducerGoes, workerVars, envVars

LEMMA ProducesIInv == \A e \in Producers : IInv /\ (Starts(e) \/ Produces(e)) => IInv'
<1> TAKE e \in Producers
<1> SUFFICES ASSUME IInv, Starts(e) \/ Produces(e) PROVE IInv'
  OBVIOUS
<1>0. TypeOK /\ todo[e] \in [Routes -> Versions \cup {None}]
  BY DEF IInv, TypeOK
<1>u. Unregistered \in [Routes -> Versions \cup {None}]
  BY DEF Unregistered
<1>o. \A S : Only(todo[e], S) \in [Routes -> Versions \cup {None}]
  BY <1>0 DEF Only
<1>k. ASSUME NEW where \in {"existing", "insert"}, NEW S,
             ProducerKeeps(e, where, Only(todo[e], S)), UNCHANGED tableVars
      PROVE  IInv'
  <2>1. PICK at1 \in {"idle", where}, left \in [Routes -> Versions \cup {None}] :
            ProducerGoes(e, at1, left)
    BY <1>k, <1>u, <1>o DEF ProducerKeeps
  <2>2. TypeOK' /\ ours' = ours
    BY <1>0, <1>k, <2>1, ProducerTyped DEF TypeOK, tableVars
  <2> QED BY <1>k, <2>2, TablesKept DEF tableVars
<1>1. CASE Starts(e)
  <2>1. registry \in [Routes -> Versions \cup {None}]
    BY <1>0 DEF TypeOK
  <2>2. TypeOK' /\ ours' = ours
    BY <1>0, <1>1, <2>1, ProducerTyped DEF Starts, TypeOK, tableVars
  <2> QED BY <1>1, <2>2, TablesKept DEF Starts, tableVars
<1>2. CASE PruneFails(e)
  <2>1. TypeOK' /\ ours' = ours
    BY <1>0, <1>2, ProducerTyped DEF PruneFails, TypeOK, tableVars
  <2> QED BY <1>2, <2>1, TablesKept DEF PruneFails, tableVars
<1>3. CASE ReadsDisabled(e)
  BY <1>3, <1>k DEF ReadsDisabled
<1>4. CASE ReadsExisting(e)
  BY <1>4, <1>k DEF ReadsExisting
<1>5. CASE Prunes(e)
  <2>1. vector' \in [Routes -> [version : Versions, enabled : BOOLEAN] \cup {None}]
    BY <1>0, <1>5 DEF Prunes, TypeOK
  <2>2. job' \in [Jobs -> {"none", "pending", "processing", "done", "failed"}]
    BY <1>0, <1>5 DEF Prunes, TypeOK
  <2>3. TypeOK' /\ ours' = ours
    BY <1>0, <1>5, <2>1, <2>2, ProducerTyped DEF Prunes, TypeOK
  <2>4. DoneHasVector'
    <3> SUFFICES ASSUME NEW j \in Jobs, job'[j] = "done" PROVE vector'[j[1]] # None
      BY DEF DoneHasVector
    <3>1. j[1] \in Routes
      BY DEF Jobs
    <3>2. job[j] = "done" /\ j[1] \notin Stale(e)
      BY <1>5 DEF Prunes
    <3> QED BY <1>5, <3>1, <3>2 DEF Prunes, IInv, DoneHasVector
  <2>5. \A j \in Jobs : job[j] = "processing" => job'[j] = "processing"
    BY <1>5 DEF Prunes
  <2>6. HeldIsProcessing' /\ OneWorkerPerJob'
    BY <1>0, <2>3, <2>5 DEF IInv, TypeOK, HeldIsProcessing, OneWorkerPerJob
  <2> QED BY <2>3, <2>4, <2>6 DEF IInv
<1>6. CASE Inserts(e)
  <2>1. job' \in [Jobs -> {"none", "pending", "processing", "done", "failed"}]
    BY <1>0, <1>6 DEF Inserts, Queued, TypeOK
  <2>2. older' \subseteq Jobs \X Jobs
    BY <1>0, <1>6 DEF Inserts, TypeOK
  <2>3. TypeOK' /\ ours' = ours
    BY <1>0, <1>u, <1>6, <2>1, <2>2, ProducerTyped DEF Inserts, TypeOK
  <2>4. \A j \in Jobs : /\ job'[j] = "done" => job[j] = "done"
                        /\ job[j] = "processing" => job'[j] = "processing"
    BY <1>6 DEF Inserts, Queued
  <2>5. vector' = vector
    BY <1>6 DEF Inserts
  <2>6. DoneHasVector'
    BY <2>4, <2>5 DEF IInv, DoneHasVector
  <2>7. HeldIsProcessing' /\ OneWorkerPerJob'
    BY <1>0, <2>3, <2>4 DEF IInv, TypeOK, HeldIsProcessing, OneWorkerPerJob
  <2> QED BY <2>3, <2>6, <2>7 DEF IInv
<1> QED BY <1>1, <1>2, <1>3, <1>4, <1>5, <1>6 DEF Produces

LEMMA ProducerStopsIInv == \A e \in Producers : IInv /\ ProducerStops(e) => IInv'
<1> TAKE e \in Producers
<1> SUFFICES ASSUME IInv, ProducerStops(e) PROVE IInv'
  OBVIOUS
<1>1. Unregistered \in [Routes -> Versions \cup {None}]
  BY DEF Unregistered
<1>2. TypeOK' /\ ours' = ours
  BY <1>1, ProducerTyped DEF ProducerStops, IInv, TypeOK, tableVars
<1> QED BY <1>2, TablesKept DEF ProducerStops, tableVars

-----------------------------------------------------------------------------
(* Workers. *)

\* A worker that lets go of its batch leaves the others with theirs; what it
\* writes to its own jobs disturbs no one else's.
LEMMA WorkerEndsTyped ==
  ASSUME IInv, NEW w \in Workers, WorkerEnds(w),
         vector' \in [Routes -> [version : Versions, enabled : BOOLEAN] \cup {None}],
         job' \in [Jobs -> {"none", "pending", "processing", "done", "failed"}],
         older' = older,
         \A j \in Jobs : j \notin ours[w] => job'[j] = job[j]
  PROVE  TypeOK' /\ HeldIsProcessing' /\ OneWorkerPerJob'
<1>1. TypeOK'
  BY DEF IInv, TypeOK, WorkerEnds, producerVars, envVars
<1>2. \A u \in Workers : ours'[u] = IF u = w THEN {} ELSE ours[u]
  BY DEF IInv, TypeOK, WorkerEnds
<1>3. \A u \in Workers : \A j \in ours'[u] : j \in Jobs /\ j \in ours[u] /\ j \notin ours[w]
  BY <1>2 DEF IInv, TypeOK, OneWorkerPerJob
<1>4. HeldIsProcessing'
  BY <1>3 DEF IInv, HeldIsProcessing
<1>5. OneWorkerPerJob'
  BY <1>3 DEF IInv, OneWorkerPerJob
<1> QED BY <1>1, <1>4, <1>5

LEMMA ClaimsIInv == \A w \in Workers : IInv /\ Claims(w) => IInv'
<1> TAKE w \in Workers
<1> SUFFICES ASSUME IInv, Claims(w) PROVE IInv'
  OBVIOUS
<1>1. PICK S \in SUBSET Pending :
         /\ job' = [j \in Jobs |-> IF j \in S THEN "processing" ELSE job[j]]
         /\ batch' = [batch EXCEPT ![w] = S]
         /\ ours' = [ours EXCEPT ![w] = S]
  BY DEF Claims
<1>2. S \subseteq Jobs /\ \A j \in S : job[j] = "pending"
  BY <1>1 DEF Pending
<1>3. TypeOK'
  BY <1>1, <1>2 DEF IInv, TypeOK, Claims, producerVars, envVars
<1>4. \A u \in Workers : ours'[u] = IF u = w THEN S ELSE ours[u]
  BY <1>1 DEF IInv, TypeOK
<1>5. \A u \in Workers : \A j \in ours[u] : j \in Jobs /\ j \notin S
  BY <1>2 DEF IInv, TypeOK, HeldIsProcessing
<1>6. DoneHasVector'
  BY <1>1 DEF IInv, DoneHasVector, Claims
<1>7. HeldIsProcessing'
  BY <1>1, <1>2, <1>4, <1>5 DEF IInv, HeldIsProcessing
<1>8. OneWorkerPerJob'
  BY <1>4, <1>5 DEF IInv, OneWorkerPerJob
<1> QED BY <1>3, <1>6, <1>7, <1>8 DEF IInv

LEMMA PublishesIInv == \A w \in Workers : IInv /\ Publishes(w) => IInv'
<1> TAKE w \in Workers
<1> SUFFICES ASSUME IInv, Publishes(w) PROVE IInv'
  OBVIOUS
<1>1. PICK last \in [Routes -> Versions] :
         /\ \A r \in Routes : (\E v \in Versions : <<r, v>> \in batch[w])
                                => <<r, last[r]>> \in batch[w]
         /\ vector' = [r \in Routes |->
                         IF <<r, last[r]>> \in batch[w]
                         THEN [version |-> last[r],
                               enabled |-> IF vector[r] = None THEN TRUE ELSE vector[r].enabled]
                         ELSE vector[r]]
  BY DEF Publishes
<1>2. job' = [j \in Jobs |-> IF j \in ours[w] THEN "done" ELSE job[j]]
  BY DEF Publishes
<1>3. \A r \in Routes : vector'[r] \in [version : Versions, enabled : BOOLEAN] \cup {None}
  BY <1>1 DEF IInv, TypeOK
<1>4. vector' \in [Routes -> [version : Versions, enabled : BOOLEAN] \cup {None}]
  BY <1>1, <1>3
<1>5. TypeOK' /\ HeldIsProcessing' /\ OneWorkerPerJob'
  <2>1. job' \in [Jobs -> {"none", "pending", "processing", "done", "failed"}]
    BY <1>2 DEF IInv, TypeOK
  <2>2. \A j \in Jobs : j \notin ours[w] => job'[j] = job[j]
    BY <1>2
  <2> QED BY <1>4, <2>1, <2>2, WorkerEndsTyped DEF Publishes
<1>6. DoneHasVector'
  <2> SUFFICES ASSUME NEW j \in Jobs, job'[j] = "done" PROVE vector'[j[1]] # None
    BY DEF DoneHasVector
  <2>1. j[1] \in Routes /\ j[2] \in Versions /\ j = <<j[1], j[2]>>
    BY DEF Jobs
  <2>2. \A v \in Versions, b \in BOOLEAN : [version |-> v, enabled |-> b] # None
    BY RecordsAssumption
  <2>3. CASE j \in ours[w]
    <3>1. <<j[1], last[j[1]]>> \in batch[w]
      BY <1>1, <2>1, <2>3 DEF IInv, TypeOK
    <3>2. vector'[j[1]] = [version |-> last[j[1]],
            enabled |-> IF vector[j[1]] = None THEN TRUE ELSE vector[j[1]].enabled]
      BY <1>1, <2>1, <3>1
    <3>3. (IF vector[j[1]] = None THEN TRUE ELSE vector[j[1]].enabled) \in BOOLEAN
      BY <2>1 DEF IInv, TypeOK
    <3> QED BY <2>1, <2>2, <3>2, <3>3
  <2>4. CASE j \notin ours[w]
    <3>1. vector[j[1]] # None
      BY <1>2, <2>4 DEF IInv, DoneHasVector
    <3>2. CASE <<j[1], last[j[1]]>> \in batch[w]
      <4>1. vector'[j[1]] = [version |-> last[j[1]], enabled |-> vector[j[1]].enabled]
        BY <1>1, <2>1, <3>1, <3>2
      <4>2. vector[j[1]].enabled \in BOOLEAN
        BY <2>1, <3>1 DEF IInv, TypeOK
      <4> QED BY <2>1, <2>2, <4>1, <4>2
    <3>3. CASE <<j[1], last[j[1]]>> \notin batch[w]
      BY <1>1, <2>1, <3>1, <3>3
    <3> QED BY <3>2, <3>3
  <2> QED BY <2>3, <2>4
<1> QED BY <1>5, <1>6 DEF IInv

LEMMA FailsIInv == \A w \in Workers : IInv /\ Fails(w) => IInv'
<1> TAKE w \in Workers
<1> SUFFICES ASSUME IInv, Fails(w) PROVE IInv'
  OBVIOUS
<1>1. job' = [j \in Jobs |-> IF j \in ours[w] THEN "failed" ELSE job[j]]
  BY DEF Fails
<1>2. TypeOK' /\ HeldIsProcessing' /\ OneWorkerPerJob'
  <2>1. job' \in [Jobs -> {"none", "pending", "processing", "done", "failed"}]
    BY <1>1 DEF IInv, TypeOK
  <2>2. \A j \in Jobs : j \notin ours[w] => job'[j] = job[j]
    BY <1>1
  <2> QED BY <2>1, <2>2, WorkerEndsTyped DEF Fails, IInv, TypeOK
<1>3. DoneHasVector'
  BY <1>1 DEF IInv, DoneHasVector, Fails
<1> QED BY <1>2, <1>3 DEF IInv

LEMMA LosesIInv == \A w \in Workers : IInv /\ Loses(w) => IInv'
<1> TAKE w \in Workers
<1> SUFFICES ASSUME IInv, Loses(w) PROVE IInv'
  OBVIOUS
<1>1. TypeOK' /\ HeldIsProcessing' /\ OneWorkerPerJob'
  BY WorkerEndsTyped DEF Loses, IInv, TypeOK, tableVars
<1>2. DoneHasVector'
  BY DEF Loses, tableVars, IInv, DoneHasVector
<1> QED BY <1>1, <1>2 DEF IInv

LEMMA WorkerGoesIInv ==
  \A w \in Workers : IInv /\ (Embeds(w) \/ PublishFails(w)) => IInv'
<1> TAKE w \in Workers
<1> SUFFICES ASSUME IInv, Embeds(w) \/ PublishFails(w) PROVE IInv'
  OBVIOUS
<1>1. PICK where \in {"publish", "fail"} : WorkerGoes(w, where)
  BY DEF Embeds, PublishFails
<1>2. UNCHANGED tableVars
  BY DEF Embeds, PublishFails
<1>3. TypeOK'
  BY <1>1, <1>2 DEF WorkerGoes, tableVars, producerVars, envVars, IInv, TypeOK
<1> QED BY <1>1, <1>2, <1>3, TablesKept DEF WorkerGoes, tableVars

-----------------------------------------------------------------------------
(* Operators, the registry and the service. *)

LEMMA PurgesIInv == \A R \in SUBSET Routes : IInv /\ Purges(R) => IInv'
<1> TAKE R \in SUBSET Routes
<1> SUFFICES ASSUME IInv, Purges(R) PROVE IInv'
  OBVIOUS
<1>1. ours' = [w \in Workers |-> {j \in ours[w] : j[1] \notin R}]
  BY DEF Purges
<1>2. job' = [j \in Jobs |-> IF j[1] \in R THEN "none" ELSE job[j]]
  BY DEF Purges
<1>3. TypeOK'
  <2>1. job' \in [Jobs -> {"none", "pending", "processing", "done", "failed"}]
    BY <1>2 DEF IInv, TypeOK
  <2>2. ours' \in [Workers -> SUBSET Jobs] /\ \A w \in Workers : ours'[w] \subseteq batch[w]
    BY <1>1 DEF IInv, TypeOK
  <2>3. older' \subseteq Jobs \X Jobs
    BY DEF Purges, IInv, TypeOK
  <2> QED BY <2>1, <2>2, <2>3 DEF Purges, IInv, TypeOK, producerVars, envVars
<1>4. DoneHasVector'
  <2> SUFFICES ASSUME NEW j \in Jobs, job'[j] = "done" PROVE vector'[j[1]] # None
    BY DEF DoneHasVector
  <2>1. j[1] \in Routes /\ j[1] \notin R /\ job[j] = "done"
    BY <1>2 DEF Jobs
  <2> QED BY <2>1 DEF Purges, IInv, TypeOK, DoneHasVector
<1>5. HeldIsProcessing' /\ OneWorkerPerJob'
  BY <1>1, <1>2 DEF IInv, TypeOK, HeldIsProcessing, OneWorkerPerJob
<1> QED BY <1>3, <1>4, <1>5 DEF IInv

LEMMA TogglesIInv ==
  \A r \in Routes, on \in BOOLEAN : IInv /\ Toggles(r, on) => IInv'
<1> TAKE r \in Routes, on \in BOOLEAN
<1> SUFFICES ASSUME IInv, Toggles(r, on) PROVE IInv'
  OBVIOUS
<1>1. vector[r] \in [version : Versions, enabled : BOOLEAN]
  BY DEF Toggles, IInv, TypeOK
<1>2. vector' = [vector EXCEPT ![r] = [vector[r] EXCEPT !.enabled = on]]
  BY DEF Toggles
<1>3. [vector[r] EXCEPT !.enabled = on] \in [version : Versions, enabled : BOOLEAN]
  BY <1>1
<1>4. vector' \in [Routes -> [version : Versions, enabled : BOOLEAN] \cup {None}]
  BY <1>2, <1>3 DEF IInv, TypeOK
<1>5. \A q \in Routes : vector[q] # None => vector'[q] # None
  BY <1>2, <1>3, RecordsAssumption DEF IInv, TypeOK
<1>6. TypeOK'
  BY <1>4 DEF Toggles, IInv, TypeOK, producerVars, workerVars
<1>7. DoneHasVector'
  BY <1>5 DEF Toggles, IInv, DoneHasVector, Jobs
<1>8. HeldIsProcessing' /\ OneWorkerPerJob'
  BY DEF Toggles, workerVars, IInv, HeldIsProcessing, OneWorkerPerJob
<1> QED BY <1>6, <1>7, <1>8 DEF IInv

LEMMA NextIInv == IInv /\ [Next]_vars => IInv'
<1> SUFFICES ASSUME IInv, [Next]_vars PROVE IInv'
  OBVIOUS
<1>1. ASSUME NEW r \in Routes, NEW v \in Versions, Contributes(r, v) PROVE IInv'
  BY <1>1, TablesKept
     DEF Contributes, tableVars, producerVars, workerVars, IInv, TypeOK
<1>2. ASSUME NEW r \in Routes, Withdraws(r) PROVE IInv'
  BY <1>2, TablesKept
     DEF Withdraws, tableVars, producerVars, workerVars, IInv, TypeOK
<1>3. CASE ServiceFlips \/ UNCHANGED vars
  BY <1>3, TablesKept
     DEF ServiceFlips, vars, tableVars, producerVars, workerVars, envVars, IInv, TypeOK
<1>4. ASSUME NEW w \in Workers, Works(w) \/ Loses(w) PROVE IInv'
  BY <1>4, ClaimsIInv, PublishesIInv, FailsIInv, LosesIInv, WorkerGoesIInv DEF Works
<1> QED
  BY <1>1, <1>2, <1>3, <1>4, ProducesIInv, ProducerStopsIInv, PurgesIInv, TogglesIInv
     DEF Next

THEOREM Invariance == Spec => []IInv
  BY InitIInv, NextIInv, PTL DEF Spec

\* The tables, and what producers and workers carry between transactions, keep
\* their types.
THEOREM QueueTyping == Spec => []TypeOK
<1>1. IInv => TypeOK
  BY DEF IInv
<1> QED BY <1>1, Invariance, PTL

\* No prune, purge or publication leaves a done job without a vector, which
\* enqueue_pending could never bring back.
THEOREM DoneJobsHaveVectors == Spec => []DoneHasVector
<1>1. IInv => DoneHasVector
  BY DEF IInv
<1> QED BY <1>1, Invariance, PTL

\* _claim_batch hands a job to one worker at a time.
THEOREM ClaimsAreExclusive == Spec => []OneWorkerPerJob
<1>1. IInv => OneWorkerPerJob
  BY DEF IInv
<1> QED BY <1>1, Invariance, PTL

-----------------------------------------------------------------------------
(* Where no worker stops with a batch in its hands, every processing job is *)
(* in somebody's.                                                           *)

ProcessingIsHeld ==
    /\ \A j \in Jobs : job[j] = "processing" => \E w \in Workers : j \in ours[w]
    /\ \A w \in Workers : doing[w] = "idle" => ours[w] = {}

\* A step that makes no job processing and takes none from its worker.
LEMMA HandsKept ==
  ASSUME ProcessingIsHeld, UNCHANGED <<ours, doing>>,
         \A j \in Jobs : job'[j] = "processing" => job[j] = "processing"
  PROVE  ProcessingIsHeld'
BY DEF ProcessingIsHeld, Jobs

\* The worker writes another status to what it still owns, then lets go.
LEMMA EndsHeld ==
  ASSUME IInv, ProcessingIsHeld, NEW w \in Workers, WorkerEnds(w),
         NEW s \in {"done", "failed"},
         job' = [j \in Jobs |-> IF j \in ours[w] THEN s ELSE job[j]]
  PROVE  ProcessingIsHeld'
<1>1. /\ \A u \in Workers : ours'[u] = IF u = w THEN {} ELSE ours[u]
      /\ \A u \in Workers \ {w} : doing'[u] = doing[u]
  BY DEF IInv, TypeOK, WorkerEnds
<1>2. \A j \in Jobs : job'[j] = "processing" => job[j] = "processing" /\ j \notin ours[w]
  OBVIOUS
<1> QED
  BY <1>1, <1>2 DEF ProcessingIsHeld, Jobs

LEMMA ClaimsHeld ==
  ASSUME IInv, ProcessingIsHeld, NEW w \in Workers, Claims(w)
  PROVE  ProcessingIsHeld'
<1>1. PICK S \in SUBSET Pending :
         /\ job' = [j \in Jobs |-> IF j \in S THEN "processing" ELSE job[j]]
         /\ ours' = [ours EXCEPT ![w] = S]
  BY DEF Claims
<1>2. doing[w] = "idle" /\ doing' = [doing EXCEPT ![w] = "embed"]
  BY DEF Claims
<1>3. /\ \A u \in Workers : ours'[u] = IF u = w THEN S ELSE ours[u]
      /\ \A u \in Workers : doing'[u] = IF u = w THEN "embed" ELSE doing[u]
  BY <1>1, <1>2 DEF IInv, TypeOK
<1>4. ours[w] = {}
  BY <1>2 DEF ProcessingIsHeld
<1> QED
  BY <1>1, <1>3, <1>4 DEF ProcessingIsHeld, Jobs

LEMMA PurgesHeld ==
  ASSUME IInv, ProcessingIsHeld, NEW R \in SUBSET Routes, Purges(R)
  PROVE  ProcessingIsHeld'
<1>1. /\ ours' = [w \in Workers |-> {j \in ours[w] : j[1] \notin R}]
      /\ job' = [j \in Jobs |-> IF j[1] \in R THEN "none" ELSE job[j]]
      /\ doing' = doing
  BY DEF Purges
<1>2. \A j \in Jobs : job'[j] = "processing" => job[j] = "processing" /\ j[1] \notin R
  BY <1>1
<1> QED
  BY <1>1, <1>2 DEF ProcessingIsHeld, Jobs

LEMMA ProducesHeld ==
  ASSUME IInv, ProcessingIsHeld, NEW e \in Producers, Starts(e) \/ Produces(e)
  PROVE  ProcessingIsHeld'
<1>1. UNCHANGED <<ours, doing>>
  BY DEF Starts, Produces, Prunes, PruneFails, ReadsDisabled, ReadsExisting, Inserts,
     ProducerKeeps, ProducerGoes, workerVars
<1>2. CASE job' = job
  BY <1>1, <1>2, HandsKept
<1>3. CASE Prunes(e) \/ Inserts(e)
  <2>1. \A j \in Jobs : job'[j] = "processing" => job[j] = "processing"
    BY <1>3 DEF Prunes, Inserts, Queued
  <2> QED
    BY <1>1, <2>1, HandsKept
<1> QED
  BY <1>2, <1>3 DEF Starts, Produces, PruneFails, ReadsDisabled, ReadsExisting, tableVars

LEMMA HeldStep ==
  ASSUME "stop" \notin Kinds, IInv, ProcessingIsHeld, [Next]_vars
  PROVE  ProcessingIsHeld'
<1>1. ASSUME NEW r \in Routes, NEW v \in Versions, Contributes(r, v) PROVE ProcessingIsHeld'
  BY <1>1, HandsKept DEF Contributes, tableVars, workerVars
<1>2. ASSUME NEW r \in Routes, Withdraws(r) PROVE ProcessingIsHeld'
  BY <1>2, HandsKept DEF Withdraws, tableVars, workerVars
<1>3. ASSUME NEW r \in Routes, NEW on \in BOOLEAN, Toggles(r, on) PROVE ProcessingIsHeld'
  BY <1>3, HandsKept DEF Toggles, workerVars
<1>4. ASSUME ServiceFlips \/ UNCHANGED vars PROVE ProcessingIsHeld'
  BY <1>4, HandsKept DEF ServiceFlips, vars, tableVars, workerVars
<1>5. ASSUME NEW w \in Workers, Works(w) PROVE ProcessingIsHeld'
  <2>1. CASE Embeds(w) \/ PublishFails(w)
    <3>1. PICK where \in {"publish", "fail"} : WorkerGoes(w, where)
      BY <2>1 DEF Embeds, PublishFails
    <3>2. ours' = ours /\ job' = job /\ \A u \in Workers : doing'[u] = "idle" => doing[u] = "idle"
      BY <2>1, <3>1 DEF WorkerGoes, Embeds, PublishFails, tableVars, IInv, TypeOK
    <3> QED
      BY <3>2 DEF ProcessingIsHeld, Jobs
  <2>2. CASE Publishes(w)
    <3>1. job' = [j \in Jobs |-> IF j \in ours[w] THEN "done" ELSE job[j]] /\ WorkerEnds(w)
      BY <2>2 DEF Publishes
    <3> QED
      BY <3>1, EndsHeld
  <2>3. CASE Fails(w)
    <3>1. job' = [j \in Jobs |-> IF j \in ours[w] THEN "failed" ELSE job[j]] /\ WorkerEnds(w)
      BY <2>3 DEF Fails
    <3> QED
      BY <3>1, EndsHeld
  <2> QED
    BY <1>5, <2>1, <2>2, <2>3, ClaimsHeld DEF Works
<1> QED
  BY <1>1, <1>2, <1>3, <1>4, <1>5, ProducesHeld, PurgesHeld DEF Next

\* What the insert finds of each job that it wants, by its status.
LEMMA InsertCovers ==
  ASSUME \A v, u \in Versions : v = u,
         IInv, ProcessingIsHeld, NEW e \in Producers, NEW r \in Routes, NEW v \in Versions,
         Inserts(e), todo[e][r] = v
  PROVE  Covered(r, v)'
<1>1. <<r, v>> \in Jobs /\ job[<<r, v>>] \in {"none", "pending", "processing", "done", "failed"}
  BY DEF Jobs, IInv, TypeOK
<1>2. job'[<<r, v>>] = Queued(job[<<r, v>>]) /\ vector' = vector /\ batch' = batch
  BY <1>1 DEF Inserts, ProducerGoes, workerVars
<1>3. CASE job[<<r, v>>] \in {"none", "failed", "pending"}
  BY <1>2, <1>3 DEF Queued, Covered
<1>4. CASE job[<<r, v>>] = "processing"
  <2>1. PICK w \in Workers : <<r, v>> \in ours[w]
    BY <1>1, <1>4 DEF ProcessingIsHeld
  <2>2. <<r, v>> \in batch[w]
    BY <2>1 DEF IInv, TypeOK
  <2> QED
    BY <1>2, <2>2 DEF Covered
<1>5. CASE job[<<r, v>>] = "done"
  <2>1. vector[r] # None
    BY <1>1, <1>5 DEF IInv, DoneHasVector
  <2>2. vector[r].version = v
    BY <2>1 DEF IInv, TypeOK
  <2> QED
    BY <1>2, <2>1, <2>2 DEF Covered, Current
<1> QED
  BY <1>1, <1>3, <1>4, <1>5

\* When an enqueue ends, every route it found diverged is up to date, queued or being worked
\* on, whatever withdrawals, toggles and purges meet it. Two things break it and are excluded: a
\* worker that stops with its batch, whose jobs nobody claims again, and content that changes
\* and goes back to a version whose job is done.
THEOREM DivergedAreQueued ==
  ASSUME "stop" \notin Kinds, \A v, u \in Versions : v = u
  PROVE  Spec => DivergedIsQueued
<1>1. Init => ProcessingIsHeld
  BY DEF Init, ProcessingIsHeld
<1>2. IInv /\ ProcessingIsHeld /\ [Next]_vars => ProcessingIsHeld'
  BY HeldStep
<1>3. IInv /\ ProcessingIsHeld =>
        [\A e \in Producers, r \in Routes, v \in Versions :
           Inserts(e) /\ todo[e][r] = v => Covered(r, v)']_vars
  BY InsertCovers
<1> QED
  BY <1>1, <1>2, <1>3, Invariance, PTL DEF Spec, DivergedIsQueued
=============================================================================
