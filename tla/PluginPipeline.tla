--------------------------- MODULE PluginPipeline ---------------------------
(***************************************************************************)
(* The WASM pipelines (internal/app/wasm_plugins.go): an upload enqueues a *)
(* durable job for every matching plugin, a worker runs the guest on the   *)
(* object and applies what it declares (embeddings, attributes, derived    *)
(* objects, operations), and external producers import embeddings          *)
(* (embedding_import.go) for the object they were told about.              *)
(*                                                                         *)
(* A generation of an object is its checksum and its updated_at: a body    *)
(* and the tick of the clock at which its row was last written.  Bodies    *)
(* are numbered: an upload has the bytes of an earlier one or new ones.  A *)
(* guest declares any of a few results; its derived and copied objects lie *)
(* under a key of their own per source and plugin.                         *)
(***************************************************************************)
EXTENDS VectorIndex

CONSTANTS Plugin,        \* WASM plugins
          Producer,      \* the producer_id of the external worker
          Worker,        \* plugin worker loops
          Uploader,      \* client requests served at the same time
          Result,        \* what a guest may declare: a vector, a derived
                         \* object, operations in order
          Selected,      \* the keys the selectors of every plugin match
          Granted,       \* the operations the policy of every plugin allows
          MaxAttempts,   \* max_attempts of a plugin: 3 by default
          Hazards,       \* a subset of PipelineHazards
          MaxUpload,     \* bound on the uploads
          MaxChange      \* bound on the crashes, refreshes and changes of plugins

PipelineHazards ==
  {"race",      \* two uploads of a key at the same time
   "cancel",    \* the request of an overwrite ends before its invalidation
   "stall"}     \* a worker outlives its heartbeat

None == [absent |-> TRUE]
Operation == {"patch", "copy", "delete"}

ASSUME PipelineAssumption ==
  /\ Producer \notin Plugin /\ Maker = Plugin \cup {Producer}
  /\ Result \subseteq [vector : BOOLEAN, file : BOOLEAN, operations : Seq(Operation)]
  /\ Selected \in [Plugin -> SUBSET Key]
  /\ Granted \in [Plugin -> SUBSET Operation]
  /\ MaxAttempts \in Nat \ {0} /\ MaxUpload \in Nat /\ MaxChange \in Nat
  /\ Hazards \subseteq PipelineHazards

VARIABLES object,     \* the current row of every key, or None
          attributes, \* object_attributes: whose they are and who patched them
          made,       \* the body of every derived or copied object, or 0
          plugins,    \* wasm_plugins: absent, disabled or enabled
          jobs,       \* wasm_plugin_jobs by their dedupe_key
          upload,     \* what every upload has still to do
          work,       \* what every worker is doing
          told,       \* the generation the external producer works on
          clock,      \* the last updated_at
          uploads,    \* the uploads so far
          changes     \* the crashes, refreshes and changes so far

pipeVars == <<vecVars, object, attributes, made, plugins, jobs,
              upload, work, told, clock, uploads, changes>>

Idle == [op |-> "idle"]
Target == Key \X Plugin

\* The generation check of the code: the checksum and updated_at agree.
SameGeneration(o, g) == o # None /\ o.body = g.body /\ o.updated = g.updated

-----------------------------------------------------------------------------
(* PutObject, from the write of the row on.                                *)

Uploading(k) == {u \in Uploader : upload[u] # Idle /\ upload[u].key = k}

PutRow(u, k, b) ==
  /\ upload[u] = Idle /\ uploads < MaxUpload
  /\ "race" \in Hazards \/ Uploading(k) = {}
  /\ uploads' = uploads + 1 /\ clock' = clock + 1
  /\ object' = [object EXCEPT ![k] =
       [upload |-> uploads + 1, body |-> b, updated |-> clock + 1]]
  /\ upload' = [upload EXCEPT ![u] =
       [op |-> IF object[k] = None THEN "attributes" ELSE "invalidate",
        key |-> k, body |-> b, upload |-> uploads + 1]]
  /\ UNCHANGED <<attributes, vecVars, made, plugins, jobs, work, told, changes>>

\* DeleteObjectEmbeddings, when there was an object before.
Invalidate(u) ==
  /\ upload[u].op = "invalidate"
  /\ DeleteEmbeddings({e \in embeddings : e.key = upload[u].key})
  /\ upload' = [upload EXCEPT ![u].op = "attributes"]
  /\ UNCHANGED <<object, attributes, made, plugins, jobs, work, told, clock, uploads, changes>>

\* PutObjectAttributes: its foreign key refuses those of no object.
PutAttributes(u) ==
  LET k == upload[u].key
  IN  /\ upload[u].op = "attributes"
      /\ IF object[k] = None
         THEN UNCHANGED attributes /\ upload' = [upload EXCEPT ![u] = Idle]
         ELSE /\ attributes' = [attributes EXCEPT ![k] =
                   [upload |-> upload[u].upload, patched |-> {}]]
              /\ upload' = [upload EXCEPT ![u].op = "enqueue"]
      /\ UNCHANGED <<object, vecVars, made, plugins, jobs, work, told, clock,
                     uploads, changes>>

\* ListWASMPlugins and wasmPluginMatches.
Matching(k) == {p \in Plugin : plugins[p] = "enabled" /\ k \in Selected[p]}

\* The jobs of an upload: its own checksum, and the updated_at the row has now.
NewJobs(k, b) ==
  {[plugin |-> p, key |-> k, body |-> b, updated |-> object[k].updated] : p \in Matching(k)}

NoResult == [vector |-> FALSE, file |-> FALSE, operations |-> <<>>]
NewJob == [status |-> "pending", attempts |-> 0, result |-> NoResult]

\* CreateWASMPluginJob inserts nothing under a dedupe_key that is there.
Enqueued(ids) ==
  [i \in DOMAIN jobs \cup ids |->
     IF i \in DOMAIN jobs THEN jobs[i] ELSE NewJob]

EnqueueWASMPlugins(u) ==
  LET k == upload[u].key
  IN  /\ upload[u].op = "enqueue"
      /\ jobs' = IF object[k] = None THEN jobs ELSE Enqueued(NewJobs(k, upload[u].body))
      /\ upload' = [upload EXCEPT ![u] = Idle]
      /\ UNCHANGED <<object, attributes, vecVars, made, plugins, work, told, clock,
                     uploads, changes>>

\* The request is cancelled: its next write fails and PutObject returns.
CancelUpload(u) ==
  /\ upload[u] # Idle
  /\ upload[u].op = "invalidate" => "cancel" \in Hazards
  /\ upload' = [upload EXCEPT ![u] = Idle]
  /\ UNCHANGED <<object, attributes, vecVars, made, plugins, jobs, work, told, clock,
                 uploads, changes>>

\* Deleting a row takes its attributes and embeddings with it.
WithoutRow(k) ==
  /\ object' = [object EXCEPT ![k] = None]
  /\ attributes' = [attributes EXCEPT ![k] = None]
  /\ DeleteEmbeddings({e \in embeddings : e.key = k})

DeleteObject(k) ==
  /\ object[k] # None
  /\ "race" \in Hazards \/ Uploading(k) = {}
  /\ WithoutRow(k)
  /\ UNCHANGED <<made, plugins, jobs, upload, work, told, clock, uploads, changes>>

\* refreshObjectReplicaStatus: the same object under a new updated_at.
RefreshReplicaStatus(k) ==
  /\ object[k] # None /\ changes < MaxChange
  /\ clock' = clock + 1 /\ changes' = changes + 1
  /\ object' = [object EXCEPT ![k].updated = clock + 1]
  /\ UNCHANGED <<attributes, vecVars, made, plugins, jobs, upload, work, told, uploads>>

-----------------------------------------------------------------------------
(* The worker.                                                             *)

Becomes(w, r) == work' = [work EXCEPT ![w] = r]

\* UpdateWASMPluginJob: a row that is gone is not brought back.
Saved(i, status, attempts, result) ==
  IF i \notin DOMAIN jobs THEN jobs
  ELSE [jobs EXCEPT ![i] = [status |-> status, attempts |-> attempts, result |-> result]]

\* Mutant: a failure that might be repaired leaves the attempts uncounted.
FailUncounted(w) ==
  jobs' = Saved(work[w].job, "pending", work[w].attempts - 1, NoResult)

\* failWASMPluginJob for an error that may pass.
Fail(w) ==
  jobs' = Saved(work[w].job,
                IF work[w].attempts < MaxAttempts THEN "pending" ELSE "failed",
                work[w].attempts, NoResult)

Settle(w, status) ==
  /\ jobs' = Saved(work[w].job, status, work[w].attempts,
                   IF status = "succeeded" THEN work[w].result ELSE NoResult)
  /\ Becomes(w, Idle)

ClaimNextWASMPluginJob(w, i) ==
  /\ work[w] = Idle /\ jobs[i].status = "pending"
  /\ jobs' = [jobs EXCEPT ![i].status = "running", ![i].attempts = @ + 1]
  /\ Becomes(w, [op |-> "load", job |-> i, attempts |-> jobs[i].attempts + 1,
                 read |-> i.body, result |-> NoResult, attributes |-> None, next |-> 1])
  /\ UNCHANGED <<object, attributes, vecVars, made, plugins, upload, told, clock,
                 uploads, changes>>

At(w, op) == work[w].op = op
Goes(w, op) == Becomes(w, [work[w] EXCEPT !.op = op])
Id(w) == work[w].job
Source(w) == object[Id(w).key]

\* The checks of runWASMPluginJob.
LoadJob(w) ==
  /\ At(w, "load")
  /\ IF plugins[Id(w).plugin] # "enabled" \/ Source(w) = None THEN Settle(w, "failed")
     ELSE IF ~SameGeneration(Source(w), Id(w)) THEN Settle(w, "superseded")
     ELSE Goes(w, "execute") /\ UNCHANGED jobs
  /\ UNCHANGED <<object, attributes, vecVars, made, plugins, upload, told, clock,
                 uploads, changes>>

Declared(result) == {result.operations[n] : n \in 1..Len(result.operations)}

\* The whole manifest is checked before its first effect.
ValidateOperations(p, result) == Declared(result) \subseteq Granted[p]

\* GetObject and Execute: the bytes are the ones the key has by now.
ExecutePlugin(w, result) ==
  /\ At(w, "execute")
  /\ IF Source(w) = None \/ ~ValidateOperations(Id(w).plugin, result)
     THEN Fail(w) /\ Becomes(w, Idle)
     ELSE /\ Becomes(w, [work[w] EXCEPT !.op = "reload", !.read = Source(w).body,
                                        !.result = result])
          /\ UNCHANGED jobs
  /\ UNCHANGED <<object, attributes, vecVars, made, plugins, upload, told, clock,
                 uploads, changes>>

\* applyWASMPluginResult starts by reading the source again.
ReloadSource(w) ==
  /\ At(w, "reload")
  /\ IF Source(w) = None THEN Fail(w) /\ Becomes(w, Idle)
     ELSE IF ~SameGeneration(Source(w), Id(w)) THEN Settle(w, "superseded")
     ELSE /\ Becomes(w, [work[w] EXCEPT !.op = "embed",
                                        !.attributes = attributes[Id(w).key]])
          /\ UNCHANGED jobs
  /\ UNCHANGED <<object, attributes, vecVars, made, plugins, upload, told, clock,
                 uploads, changes>>

Vectors(w) ==
  IF work[w].result.vector THEN {Vector(Id(w).key, Id(w).plugin, work[w].read)} ELSE {}

\* The profiles that were written are indexed after the transaction.
Embedded(w) ==
  /\ ReplaceEmbeddings(Id(w).key, Id(w).plugin, Vectors(w))
  /\ Goes(w, IF Vectors(w) # {} /\ NeedsIndex(Id(w).plugin) THEN "index" ELSE "attributes")
  /\ UNCHANGED jobs

\* Mutant: the generation was checked by the caller, so the write is plain.
EmbedUnchecked(w) ==
  /\ At(w, "embed")
  /\ IF Source(w) # None THEN Embedded(w)
     ELSE Settle(w, "superseded") /\ UNCHANGED vecVars
  /\ UNCHANGED <<object, attributes, made, plugins, upload, told, clock, uploads, changes>>

\* ReplaceObjectEmbeddings: the check and the rows are one transaction.
Embed(w) ==
  /\ At(w, "embed")
  /\ IF SameGeneration(Source(w), Id(w)) THEN Embedded(w)
     ELSE Settle(w, "superseded") /\ UNCHANGED vecVars
  /\ UNCHANGED <<object, attributes, made, plugins, upload, told, clock, uploads, changes>>

\* A profile beyond the limit fails the job, though its vectors are stored.
IndexVectors(w) ==
  LET p == Id(w).plugin
  IN  /\ At(w, "index")
      /\ EnsurePGVectorIndex(p)
      /\ IF NeedsIndex(p) /\ LimitReached(p) THEN Fail(w) /\ Becomes(w, Idle)
         ELSE Goes(w, "attributes") /\ UNCHANGED jobs
      /\ UNCHANGED <<object, attributes, made, plugins, upload, told, clock, uploads, changes>>

IndexingFails(w) ==
  /\ At(w, "index") /\ BuildFails(Id(w).plugin)
  /\ Fail(w) /\ Becomes(w, Idle)
  /\ UNCHANGED <<object, attributes, made, plugins, upload, told, clock, uploads, changes>>

Patched(a, p) == [upload |-> IF a = None THEN 0 ELSE a.upload,
                  patched |-> {p} \cup (IF a = None THEN {} ELSE a.patched)]

\* The attributes that were read, merged with the guest's, whatever is there now.
SaveAttributes(w) ==
  LET k == Id(w).key
  IN  /\ At(w, "attributes")
      /\ IF object[k] = None
         THEN Fail(w) /\ Becomes(w, Idle) /\ UNCHANGED attributes
         ELSE /\ attributes' = [attributes EXCEPT ![k] =
                   Patched(work[w].attributes, Id(w).plugin)]
              /\ Goes(w, "derive") /\ UNCHANGED jobs
      /\ UNCHANGED <<object, vecVars, made, plugins, upload, told, clock, uploads, changes>>

\* PutObject of the derived object, with its own pipelines skipped.
Derive(w) ==
  /\ At(w, "derive")
  /\ made' = IF work[w].result.file
             THEN [made EXCEPT ![<<Id(w).key, Id(w).plugin>>] = work[w].read] ELSE made
  /\ Goes(w, "operate")
  /\ UNCHANGED <<object, attributes, vecVars, plugins, jobs, upload, told, clock,
                 uploads, changes>>

Done(w) == work[w].next > Len(work[w].result.operations)
Current(w) == work[w].result.operations[work[w].next]
Advance(w) == Becomes(w, [work[w] EXCEPT !.next = @ + 1]) /\ UNCHANGED jobs

\* applyWASMPluginOperation: on the object its key names at that moment.
PatchObject(w) ==
  LET k == Id(w).key
  IN  /\ At(w, "operate") /\ ~Done(w) /\ Current(w) = "patch" /\ object[k] # None
      /\ attributes' = [attributes EXCEPT ![k] = Patched(@, Id(w).plugin)]
      /\ Advance(w)
      /\ UNCHANGED <<object, vecVars, made, plugins, upload, told, clock, uploads, changes>>

CopyObject(w) ==
  LET k == Id(w).key
  IN  /\ At(w, "operate") /\ ~Done(w) /\ Current(w) = "copy" /\ object[k] # None
      /\ made' = [made EXCEPT ![<<k, Id(w).plugin>>] = object[k].body]
      /\ Advance(w)
      /\ UNCHANGED <<object, attributes, vecVars, plugins, upload, told, clock,
                     uploads, changes>>

\* An object that is not there counts as deleted.
DeleteByPlugin(w) ==
  /\ At(w, "operate") /\ ~Done(w) /\ Current(w) = "delete"
  /\ WithoutRow(Id(w).key)
  /\ Advance(w)
  /\ UNCHANGED <<made, plugins, upload, told, clock, uploads, changes>>

\* Mutant: a job is done once its embeddings are.
FinishEarly(w) ==
  /\ work[w].op \in {"derive", "operate"}
  /\ Settle(w, "succeeded")
  /\ UNCHANGED <<object, attributes, vecVars, made, plugins, upload, told, clock,
                 uploads, changes>>

Finish(w) ==
  /\ At(w, "operate") /\ Done(w)
  /\ Settle(w, "succeeded")
  /\ UNCHANGED <<object, attributes, vecVars, made, plugins, upload, told, clock,
                 uploads, changes>>

\* A step of the run returns an error: the guest traps, no provider takes the
\* derived object, the source of an operation is gone.
RunFails(w) ==
  /\ work[w].op \in {"execute", "embed", "attributes", "derive", "operate"}
  /\ Fail(w) /\ Becomes(w, Idle)
  /\ UNCHANGED <<object, attributes, vecVars, made, plugins, upload, told, clock,
                 uploads, changes>>

Crash(w) ==
  /\ work[w] # Idle /\ changes < MaxChange
  /\ changes' = changes + 1
  /\ Becomes(w, Idle)
  /\ UNCHANGED <<object, attributes, vecVars, made, plugins, jobs, upload, told, clock,
                 uploads>>

\* The process dies while it builds an index.
CrashIndexing(w) ==
  /\ At(w, "index") /\ BuildFails(Id(w).plugin) /\ changes < MaxChange
  /\ changes' = changes + 1
  /\ Becomes(w, Idle)
  /\ UNCHANGED <<object, attributes, made, plugins, jobs, upload, told, clock, uploads>>

\* The heartbeat of the worker that runs a job.
Touched(i) == "stall" \notin Hazards /\ \E w \in Worker : work[w] # Idle /\ Id(w) = i

\* RecoverStaleWASMPluginJobs: no heartbeat for two minutes.
RecoverStaleWASMPluginJobs(i) ==
  /\ jobs[i].status = "running" /\ ~Touched(i)
  /\ jobs' = [jobs EXCEPT ![i].status = "pending"]
  /\ UNCHANGED <<object, attributes, vecVars, made, plugins, upload, work, told, clock,
                 uploads, changes>>

-----------------------------------------------------------------------------
(* Administration and external producers.                                  *)

\* UpsertWASMPlugin: a module that validates; its jobs and vectors stay.
UpsertWASMPlugin(p, status) ==
  /\ plugins[p] # status /\ changes < MaxChange
  /\ changes' = changes + 1
  /\ plugins' = [plugins EXCEPT ![p] = status]
  /\ UNCHANGED <<object, attributes, vecVars, made, jobs, upload, work, told, clock, uploads>>

\* One transaction: its embeddings, the plugin and, by the foreign key, its jobs.
DeleteWASMPlugin(p) ==
  /\ plugins[p] # "absent" /\ changes < MaxChange
  /\ changes' = changes + 1
  /\ plugins' = [plugins EXCEPT ![p] = "absent"]
  /\ DeleteEmbeddings({e \in embeddings : e.plugin = p})
  /\ jobs' = [i \in {j \in DOMAIN jobs : j.plugin # p} |-> jobs[i]]
  /\ UNCHANGED <<object, attributes, made, upload, work, told, clock, uploads>>

\* A hook tells the external producer of the object as it is.
TellProducer(k) ==
  /\ told[k] = None /\ object[k] # None
  /\ told' = [told EXCEPT ![k] = object[k]]
  /\ UNCHANGED <<object, attributes, vecVars, made, plugins, jobs, upload, work, clock,
                 uploads, changes>>

Indexing == [indexing |-> TRUE]

\* ImportObjectEmbeddings: refused once the generation is another.
ImportObjectEmbeddings(k) ==
  /\ told[k] \notin {None, Indexing}
  /\ IF SameGeneration(object[k], told[k])
     THEN /\ ReplaceEmbeddings(k, Producer, {Vector(k, Producer, told[k].body)})
          /\ told' = [told EXCEPT ![k] = IF NeedsIndex(Producer) THEN Indexing ELSE None]
     ELSE UNCHANGED vecVars /\ told' = [told EXCEPT ![k] = None]
  /\ UNCHANGED <<object, attributes, made, plugins, jobs, upload, work, clock, uploads, changes>>

\* The producer hears of an error, or of none: the vectors are stored.
IndexImported(k) ==
  /\ told[k] = Indexing
  /\ EnsurePGVectorIndex(Producer)
  /\ told' = [told EXCEPT ![k] = None]
  /\ UNCHANGED <<object, attributes, made, plugins, jobs, upload, work, clock, uploads, changes>>

\* The process is started again, perhaps with another vector backend.
Restart(b) ==
  /\ changes < MaxChange /\ OpenStore(b)
  /\ \A u \in Uploader : upload[u] = Idle
  /\ \A w \in Worker : work[w] = Idle
  /\ \A k \in Key : told[k] # Indexing
  /\ changes' = changes + 1
  /\ UNCHANGED <<object, attributes, made, plugins, jobs, upload, work, told, clock, uploads>>

-----------------------------------------------------------------------------
PipeInit ==
  /\ object = [k \in Key |-> None] /\ attributes = [k \in Key |-> None]
  /\ VecInit /\ made = [t \in Target |-> 0]
  /\ plugins = [p \in Plugin |-> "enabled"] /\ jobs = << >>
  /\ upload = [u \in Uploader |-> Idle] /\ work = [w \in Worker |-> Idle]
  /\ told = [k \in Key |-> None]
  /\ clock = 0 /\ uploads = 0 /\ changes = 0

UploadStep(u) ==
  \/ Invalidate(u) \/ PutAttributes(u) \/ EnqueueWASMPlugins(u)

RunStep(w) ==
  \/ LoadJob(w) \/ (\E r \in Result : ExecutePlugin(w, r)) \/ ReloadSource(w)
  \/ Embed(w) \/ IndexVectors(w) \/ IndexingFails(w) \/ SaveAttributes(w)
  \/ Derive(w) \/ PatchObject(w) \/ CopyObject(w) \/ DeleteByPlugin(w) \/ Finish(w)
  \/ RunFails(w)

PipeNext ==
  \/ \E u \in Uploader :
       \/ \E k \in Key, b \in 1..(uploads + 1) : PutRow(u, k, b)
       \/ UploadStep(u) \/ CancelUpload(u)
  \/ \E k \in Key : \/ DeleteObject(k) \/ RefreshReplicaStatus(k)
                    \/ TellProducer(k) \/ ImportObjectEmbeddings(k) \/ IndexImported(k)
  \/ \E w \in Worker : \/ \E i \in DOMAIN jobs : ClaimNextWASMPluginJob(w, i)
                       \/ RunStep(w) \/ Crash(w) \/ CrashIndexing(w)
  \/ \E i \in DOMAIN jobs : RecoverStaleWASMPluginJobs(i)
  \/ \E p \in Plugin : \/ UpsertWASMPlugin(p, "enabled") \/ UpsertWASMPlugin(p, "disabled")
                       \/ DeleteWASMPlugin(p)
  \/ \E b \in Backends : Restart(b)

\* The worker loop goes on, recovers what is stale and claims what is due;
\* a request runs to its end.  Guests end by their timeout.
PipeFairness ==
  /\ \A u \in Uploader : WF_pipeVars(UploadStep(u))
  /\ \A w \in Worker :
       /\ WF_pipeVars(RunStep(w))
       /\ WF_pipeVars(\E i \in DOMAIN jobs : ClaimNextWASMPluginJob(w, i))
  /\ WF_pipeVars(\E i \in DOMAIN jobs : RecoverStaleWASMPluginJobs(i))

PipeSpec == PipeInit /\ [][PipeNext]_pipeVars /\ PipeFairness

-----------------------------------------------------------------------------
\* A search finds what an exact search of every stored vector finds, through
\* whichever backend and however the store was opened before; and once no
\* upload of its key is between its row and its invalidation, what it finds was
\* computed from the bytes the object has, by a worker or an external producer.
SearchIsCurrent ==
  \A limit \in 1..2, min \in {Rank[t].score : t \in Key \X Maker} :
    /\ SearchObjectEmbeddings(limit, min)
         = Best({e \in embeddings : Score(e) >= min}, limit)
    /\ \A e \in SearchObjectEmbeddings(limit, min) :
         \/ \E u \in Uploading(e.key) : upload[u].op = "invalidate"
         \/ object[e.key] # None /\ object[e.key].body = e.bytes

\* A job reported as succeeded for the generation that is still current has
\* left its vectors, in an index that pgvector may use, and its derived or
\* copied object made from those bytes.
SucceededIsApplied ==
  \A i \in DOMAIN jobs :
    jobs[i].status = "succeeded" /\ SameGeneration(object[i.key], i) /\ Uploading(i.key) = {} =>
      /\ jobs[i].result.vector =>
           /\ Vector(i.key, i.plugin, i.body) \in embeddings
           /\ ~NeedsIndex(i.plugin)
      /\ jobs[i].result.file \/ "copy" \in Declared(jobs[i].result)
           => made[i.key, i.plugin] = i.body

\* Whatever fails or crashes, the queue drains: a job does not stay pending
\* or running, it is done, failed, superseded, or deleted with its plugin.
JobsSettle ==
  []<>(\A i \in DOMAIN jobs : jobs[i].status \notin {"pending", "running"})
=============================================================================
