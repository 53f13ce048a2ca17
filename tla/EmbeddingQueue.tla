--------------------------- MODULE EmbeddingQueue ---------------------------
(***************************************************************************)
(* The durable queue of route embeddings: enqueue_pending                  *)
(* (core_graph/worker/job_producer.py) diffs the route registry against    *)
(* route_embeddings and inserts embedding_jobs; embedding_worker claims    *)
(* them, embeds them and publishes the vectors; operators disable routes   *)
(* and purge a plugin's rows.                                              *)
(*                                                                         *)
(* The tables are shared by several processes (the server and agent.py),   *)
(* so a step is one committed transaction.  Producers and workers may stop *)
(* between any two.  Versions stand for the effective hashes a route may   *)
(* have under the selected embedding model.                                *)
(***************************************************************************)
EXTENDS Naturals, FiniteSets

CONSTANTS
    Routes,     \* the (plugin_id, operation_id) pairs, one a plugin
    Versions,   \* effective content hashes
    Producers,  \* calls of enqueue_pending
    Workers,    \* embedding workers
    BatchSize,  \* the LIMIT of the claim
    None,       \* no version, no row
    Kinds       \* what happens in this instance: "withdraw", "toggle",
                \* "purge", "stop"

ASSUME NoneAssumption == None \notin Versions
ASSUME RecordsAssumption == None \notin [version : Versions, enabled : BOOLEAN]
ASSUME BatchAssumption == BatchSize \in Nat \ {0}

VARIABLES
    registry,  \* the content each route is registered with, or None
    vector,    \* its row in route_embeddings: version and is_enabled, or None
    job,       \* the status of each (route, version) in embedding_jobs
    older,     \* <<i, j>>: the row of i was created in an earlier statement
    todo,      \* what each producer still has to insert
    at,        \* where each producer stands
    batch,     \* the jobs each worker works on
    ours,      \* those of them whose rows have not been deleted since
    doing,     \* where each worker stands
    up,        \* the embedding service and the publishing statement work
    off        \* routes an operator has disabled and not enabled since

tableVars == <<vector, job, older>>
producerVars == <<todo, at>>
workerVars == <<batch, ours, doing>>
envVars == <<registry, up, off>>
vars == <<tableVars, producerVars, workerVars, envVars>>

Jobs == Routes \X Versions
Pending == {j \in Jobs : job[j] = "pending"}
Unregistered == [r \in Routes |-> None]

TypeOK ==
    /\ registry \in [Routes -> Versions \cup {None}]
    /\ vector \in [Routes -> [version : Versions, enabled : BOOLEAN] \cup {None}]
    /\ job \in [Jobs -> {"none", "pending", "processing", "done", "failed"}]
    /\ older \subseteq Jobs \X Jobs
    /\ todo \in [Producers -> [Routes -> Versions \cup {None}]]
    /\ at \in [Producers -> {"idle", "prune", "disabled", "existing", "insert"}]
    /\ batch \in [Workers -> SUBSET Jobs]
    /\ ours \in [Workers -> SUBSET Jobs]
    /\ \A w \in Workers : ours[w] \subseteq batch[w]
    /\ doing \in [Workers -> {"idle", "embed", "publish", "fail"}]
    /\ up \in BOOLEAN
    /\ off \subseteq Routes

Init ==
    /\ registry = Unregistered
    /\ vector = Unregistered
    /\ job = [j \in Jobs |-> "none"]
    /\ older = {}
    /\ todo = [e \in Producers |-> Unregistered]
    /\ at = [e \in Producers |-> "idle"]
    /\ batch = [w \in Workers |-> {}]
    /\ ours = [w \in Workers |-> {}]
    /\ doing = [w \in Workers |-> "idle"]
    /\ up \in BOOLEAN
    /\ off = {}

-----------------------------------------------------------------------------
(* The registry, in memory, as plugins load, change and unload. *)

Contributes(r, v) ==
    /\ registry[r] # v
    /\ registry' = [registry EXCEPT ![r] = v]
    /\ UNCHANGED <<tableVars, producerVars, workerVars, up, off>>

Withdraws(r) ==
    /\ registry[r] # None
    /\ registry' = [registry EXCEPT ![r] = None]
    /\ UNCHANGED <<tableVars, producerVars, workerVars, up, off>>

-----------------------------------------------------------------------------
(* enqueue_pending.  all_routes() is read once, at the start. *)

ProducerGoes(e, where, left) ==
    /\ at' = [at EXCEPT ![e] = where]
    /\ todo' = [todo EXCEPT ![e] = left]
    /\ UNCHANGED <<workerVars, envVars>>

\* With routes left the producer goes on to `where`, else it returns.
ProducerKeeps(e, where, left) ==
    IF left = Unregistered
    THEN ProducerGoes(e, "idle", Unregistered)
    ELSE ProducerGoes(e, where, left)

Only(left, S) == [r \in Routes |-> IF r \in S THEN left[r] ELSE None]

\* Without a single route nothing is pruned and nothing enqueued.
Starts(e) ==
    /\ at[e] = "idle"
    /\ registry # Unregistered
    /\ ProducerGoes(e, "prune", registry)
    /\ UNCHANGED tableVars

Stale(e) == {r \in Routes : vector[r] # None /\ todo[e][r] = None}

\* Mutant of Prunes: the jobs of the pruned rows are not reset.
PrunesVectorsOnly(e) ==
    /\ at[e] = "prune"
    /\ vector' = [r \in Routes |-> IF r \in Stale(e) THEN None ELSE vector[r]]
    /\ UNCHANGED <<job, older>>
    /\ ProducerGoes(e, "disabled", todo[e])

\* _prune_stale, one transaction.
Prunes(e) ==
    /\ at[e] = "prune"
    /\ vector' = [r \in Routes |-> IF r \in Stale(e) THEN None ELSE vector[r]]
    /\ job' = [j \in Jobs |->
                 IF j[1] \in Stale(e) /\ job[j] \notin {"none", "processing"}
                 THEN "pending" ELSE job[j]]
    /\ ProducerGoes(e, "disabled", todo[e])
    /\ UNCHANGED older

\* A prune that raises is only logged.
PruneFails(e) ==
    /\ at[e] = "prune" /\ ~up
    /\ ProducerGoes(e, "disabled", todo[e])
    /\ UNCHANGED tableVars

Disabled == {r \in Routes : vector[r] # None /\ ~vector[r].enabled}

ReadsDisabled(e) ==
    /\ at[e] = "disabled"
    /\ ProducerKeeps(e, "existing", Only(todo[e], Routes \ Disabled))
    /\ UNCHANGED tableVars

\* The stored hash is the wanted one.
Current(r, v) == vector[r] # None /\ vector[r].version = v

ReadsExisting(e) ==
    /\ at[e] = "existing"
    /\ ProducerKeeps(e, "insert",
         Only(todo[e], {r \in Routes : todo[e][r] # None /\ ~Current(r, todo[e][r])}))
    /\ UNCHANGED tableVars

\* Mutant of Queued: DO NOTHING instead of DO UPDATE WHERE status = 'failed'.
QueuedIfNew(s) == IF s = "none" THEN "pending" ELSE s

\* INSERT ... ON CONFLICT DO UPDATE ... WHERE status = 'failed'.
Queued(s) == IF s \in {"none", "failed"} THEN "pending" ELSE s

Inserts(e) ==
    /\ at[e] = "insert"
    /\ job' = [j \in Jobs |-> IF todo[e][j[1]] = j[2] THEN Queued(job[j]) ELSE job[j]]
    /\ older' = older \cup {p \in Jobs \X Jobs :
                             /\ job[p[1]] # "none" /\ job[p[2]] = "none"
                             /\ todo[e][p[2][1]] = p[2][2]}
    /\ ProducerGoes(e, "idle", Unregistered)
    /\ UNCHANGED vector

-----------------------------------------------------------------------------
(* embedding_worker: _claim_batch and process_batch on route jobs. *)

WorkerGoes(w, where) ==
    /\ doing' = [doing EXCEPT ![w] = where]
    /\ UNCHANGED <<batch, ours, producerVars, envVars>>

\* Mutant of WorkerEnds: the ids outlive the batch.
WorkerEndsKeepingIds(w) ==
    /\ batch' = [batch EXCEPT ![w] = {}]
    /\ doing' = [doing EXCEPT ![w] = "idle"]
    /\ UNCHANGED <<ours, producerVars, envVars>>

\* The batch is over, or lost.
WorkerEnds(w) ==
    /\ batch' = [batch EXCEPT ![w] = {}]
    /\ ours' = [ours EXCEPT ![w] = {}]
    /\ doing' = [doing EXCEPT ![w] = "idle"]
    /\ UNCHANGED <<producerVars, envVars>>

Smaller(a, b) == IF a < b THEN a ELSE b

\* The oldest pending rows; with FOR UPDATE SKIP LOCKED they leave `pending`
\* in the statement that finds them.
Claims(w) ==
    /\ doing[w] = "idle"
    /\ \E S \in SUBSET Pending \ {{}} :
         /\ Cardinality(S) = Smaller(BatchSize, Cardinality(Pending))
         /\ \A i \in Pending \ S, j \in S : <<i, j>> \notin older
         /\ job' = [j \in Jobs |-> IF j \in S THEN "processing" ELSE job[j]]
         /\ batch' = [batch EXCEPT ![w] = S]
         /\ ours' = [ours EXCEPT ![w] = S]
    /\ doing' = [doing EXCEPT ![w] = "embed"]
    /\ UNCHANGED <<vector, older, producerVars, envVars>>

\* All route jobs share one model: they embed together or fail together.
Embeds(w) ==
    /\ doing[w] = "embed"
    /\ WorkerGoes(w, IF up THEN "publish" ELSE "fail")
    /\ UNCHANGED tableVars

\* One transaction upserts every vector, in the order the claim returned the
\* jobs, and turns the claimed rows done.  The upsert keeps is_enabled.
Publishes(w) ==
    /\ doing[w] = "publish" /\ up
    /\ \E last \in [Routes -> Versions] :
         /\ \A r \in Routes : (\E v \in Versions : <<r, v>> \in batch[w])
                                => <<r, last[r]>> \in batch[w]
         /\ vector' = [r \in Routes |->
                         IF <<r, last[r]>> \in batch[w]
                         THEN [version |-> last[r],
                               enabled |-> IF vector[r] = None THEN TRUE ELSE vector[r].enabled]
                         ELSE vector[r]]
    /\ job' = [j \in Jobs |-> IF j \in ours[w] THEN "done" ELSE job[j]]
    /\ WorkerEnds(w)
    /\ UNCHANGED older

PublishFails(w) ==
    /\ doing[w] = "publish" /\ ~up
    /\ WorkerGoes(w, "fail")
    /\ UNCHANGED tableVars

\* _mark_failed.
Fails(w) ==
    /\ doing[w] = "fail"
    /\ job' = [j \in Jobs |-> IF j \in ours[w] THEN "failed" ELSE job[j]]
    /\ WorkerEnds(w)
    /\ UNCHANGED <<vector, older>>

\* The tick raises after the claim (resolving the model, marking failed), or
\* the worker is stopped: cancelled after the stop timeout, or killed.
Loses(w) ==
    /\ doing[w] # "idle"
    /\ WorkerEnds(w)
    /\ UNCHANGED tableVars

-----------------------------------------------------------------------------
(* Operators. *)

Toggles(r, on) ==
    /\ vector[r] # None
    /\ vector' = [vector EXCEPT ![r].enabled = on]
    /\ off' = IF on THEN off \ {r} ELSE off \cup {r}
    /\ UNCHANGED <<job, older, producerVars, workerVars, registry, up>>

\* Mutant of Purges: a job is finished by its key, not by its id.
PurgesByKey(R) ==
    /\ vector' = [r \in Routes |-> IF r \in R THEN None ELSE vector[r]]
    /\ job' = [j \in Jobs |-> IF j[1] \in R THEN "none" ELSE job[j]]
    /\ older' = {p \in older : p[1][1] \notin R /\ p[2][1] \notin R}
    /\ UNCHANGED <<ours, batch, doing, producerVars, envVars>>

\* delete_plugin_route_embeddings and delete_all_route_embeddings, before a
\* reindex.  The rows a worker has claimed go too.
Purges(R) ==
    /\ vector' = [r \in Routes |-> IF r \in R THEN None ELSE vector[r]]
    /\ job' = [j \in Jobs |-> IF j[1] \in R THEN "none" ELSE job[j]]
    /\ older' = {p \in older : p[1][1] \notin R /\ p[2][1] \notin R}
    /\ ours' = [w \in Workers |-> {j \in ours[w] : j[1] \notin R}]
    /\ UNCHANGED <<batch, doing, producerVars, envVars>>

\* The process running a producer ends.
ProducerStops(e) ==
    /\ at[e] # "idle"
    /\ ProducerGoes(e, "idle", Unregistered)
    /\ UNCHANGED tableVars

ServiceFlips ==
    /\ up' = ~up
    /\ UNCHANGED <<tableVars, producerVars, workerVars, registry, off>>

-----------------------------------------------------------------------------
Produces(e) ==
    Prunes(e) \/ PruneFails(e) \/ ReadsDisabled(e) \/ ReadsExisting(e) \/ Inserts(e)

Works(w) == Claims(w) \/ Embeds(w) \/ Publishes(w) \/ PublishFails(w) \/ Fails(w)

Next ==
    \/ \E r \in Routes :
         \/ \E v \in Versions : Contributes(r, v)
         \/ "withdraw" \in Kinds /\ Withdraws(r)
         \/ "toggle" \in Kinds /\ \E on \in BOOLEAN : Toggles(r, on)
         \/ "purge" \in Kinds /\ Purges({r})
    \/ "purge" \in Kinds /\ Purges(Routes)
    \/ \E e \in Producers : Starts(e) \/ Produces(e) \/ ("stop" \in Kinds /\ ProducerStops(e))
    \/ \E w \in Workers : Works(w) \/ ("stop" \in Kinds /\ Loses(w))
    \/ ServiceFlips

\* Workers poll and producers finish; the sync is triggered again and again,
\* by boots, plugin loads and reindex requests.
Fairness ==
    /\ \A e \in Producers : WF_vars(Starts(e) \/ Produces(e))
    /\ \A w \in Workers : WF_vars(Works(w))

Spec == Init /\ [][Next]_vars /\ Fairness

-----------------------------------------------------------------------------
\* A done job's route has a vector: nothing deletes a vector and leaves
\* behind a job that ON CONFLICT would not bring back, whatever prunes,
\* purges, publications and stops meet.
DoneHasVector == \A j \in Jobs : job[j] = "done" => vector[j[1]] # None

\* A job is in the hands of one worker at most, so no worker fails or
\* finishes what another one is still working on.
OneWorkerPerJob ==
    \A j \in Jobs, w, u \in Workers : j \in ours[w] /\ j \in ours[u] => w = u

Covered(r, v) ==
    \/ Current(r, v)
    \/ job[<<r, v>>] = "pending"
    \/ \E w \in Workers : <<r, v>> \in batch[w]

\* What job_producer says of itself ("enqueues embedding work for routes whose
\* content_hash has diverged"): when an enqueue ends, every route it found
\* diverged is up to date, queued, or being worked on.
DivergedIsQueued ==
    [][\A e \in Producers, r \in Routes, v \in Versions :
         Inserts(e) /\ todo[e][r] = v => Covered(r, v)']_vars

\* A route that stays registered is found under its content in the end, once
\* the embedding service stays up, whatever failed or was pruned before.
RoutesBecomeSearchable ==
    \A r \in Routes, v \in Versions :
        <>[](registry[r] = v /\ up) => <>[]Current(r, v)

\* What disabled_route_keys says of the routes an operator has disabled ("pairs
\* that must stay out of GOAP search"): none of them is enabled again until
\* an operator does it.
DisabledStaysOut == \A r \in off : vector[r] = None \/ ~vector[r].enabled
=============================================================================
