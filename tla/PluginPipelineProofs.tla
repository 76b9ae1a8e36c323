----------------------- MODULE PluginPipelineProofs -----------------------
(***************************************************************************)
(* What the pipelines leave behind, for any keys, plugins, results and     *)
(* requests.  A generation is never current again once another one was:    *)
(* updated_at only grows.  Everything below rests on that.                 *)
(*                                                                         *)
(* SucceededIsApplied is proved for one worker loop (\A v, w : v = w): a   *)
(* second one that was overtaken by an overwrite would write its derived   *)
(* object over the newer one.  That no vector is older than its object     *)
(* needs no such hypothesis, only that no overwrite ends early.            *)
(***************************************************************************)
EXTENDS PluginPipeline, FiniteSetTheorems, TLAPS

JobId == [plugin : Plugin, key : Key, body : Nat, updated : Nat]
ResultRow == [vector : BOOLEAN, file : BOOLEAN, operations : Seq(Operation)]
JobRow == [status : {"pending", "running", "succeeded", "failed", "superseded"},
           attempts : Int, result : ResultRow]
ObjectRow == [upload : Nat, body : Nat, updated : Nat]
AttributeRow == [upload : Nat, patched : SUBSET Plugin]
UploadRow == [op : {"invalidate", "attributes", "enqueue"}, key : Key, body : Nat, upload : Nat]
RunOp == {"load", "execute", "reload", "embed", "index", "attributes", "derive", "operate"}
WorkRow == [op : RunOp, job : JobId, attempts : Int, read : Nat, result : ResultRow,
            attributes : AttributeRow \cup {None}, next : Nat \ {0}]

PipeTypeOK ==
  /\ object \in [Key -> ObjectRow \cup {None}]
  /\ attributes \in [Key -> AttributeRow \cup {None}]
  /\ made \in [Target -> Nat]
  /\ DOMAIN jobs \subseteq JobId /\ jobs \in [DOMAIN jobs -> JobRow]
  /\ upload \in [Uploader -> UploadRow \cup {Idle}]
  /\ work \in [Worker -> WorkRow \cup {Idle}]
  /\ clock \in Nat /\ uploads \in Nat
  /\ hnsw \in [Maker -> {"none", "invalid", "valid"}]

IsCurrent(i) == SameGeneration(object[i.key], i)
Running == {w \in Worker : work[w] # Idle}

\* No generation is ahead of the clock.
ClockInv ==
  /\ \A k \in Key : object[k] # None => object[k].updated <= clock
  /\ \A i \in DOMAIN jobs : i.updated <= clock
  /\ \A w \in Running : Id(w).updated <= clock

\* While a key is uploaded, by one request, no job knows its generation.
FreshInv ==
  \A u \in Uploader : upload[u] # Idle =>
    /\ \A v \in Uploader : upload[v] # Idle /\ upload[v].key = upload[u].key => v = u
    /\ \A i \in DOMAIN jobs : i.key = upload[u].key => ~ IsCurrent(i)
    /\ \A w \in Running : Id(w).key = upload[u].key => ~ IsCurrent(Id(w))

\* What is being uploaded is what the key has, unless it was deleted since.
BodyInv ==
  \A u \in Uploader : upload[u] # Idle /\ object[upload[u].key] # None =>
    object[upload[u].key].body = upload[u].body

Stored(i) == Vector(i.key, i.plugin, i.body) \in embeddings
MadeOf(i) == made[<<i.key, i.plugin>>] = i.body

\* What a finished run with result r has left.
Applied(i, r) ==
  /\ r.vector => Stored(i) /\ ~ NeedsIndex(i.plugin)
  /\ r.file \/ "copy" \in Declared(r) => MadeOf(i)

JobInv ==
  \A i \in DOMAIN jobs : jobs[i].status = "succeeded" /\ IsCurrent(i) => Applied(i, jobs[i].result)

\* What a run q of job i has applied so far.
Progress(q, i) ==
  /\ q.op \in {"index", "attributes", "derive", "operate"} /\ q.result.vector => Stored(i)
  /\ q.op \in {"attributes", "derive", "operate"} /\ q.result.vector => ~ NeedsIndex(i.plugin)
  /\ q.op = "operate" /\ q.result.file => MadeOf(i)
  /\ q.op = "operate" => \A n \in 1 .. Len(q.result.operations) :
       n < q.next /\ q.result.operations[n] = "copy" => MadeOf(i)

\* The bytes a run has read are those of its generation while that is current.
ReadOK(q) ==
  q.op \in {"reload", "embed", "index", "attributes", "derive", "operate"} /\ IsCurrent(q.job)
    => q.read = q.job.body

\* A run owns its job, and past its first check no other job of its key and
\* plugin has succeeded for the current generation.
RunOK(q) ==
  /\ q.op # "operate" => q.next = 1
  /\ q.job \in DOMAIN jobs => jobs[q.job].status = "running"
  /\ q.op # "load" => \A i \in DOMAIN jobs :
       i.key = q.job.key /\ i.plugin = q.job.plugin /\ jobs[i].status = "succeeded"
         => ~ IsCurrent(i)
  /\ IsCurrent(q.job) /\ q.job \in DOMAIN jobs => Progress(q, q.job)

ReadInv == \A w \in Running : ReadOK(work[w])
RunInv == \A w \in Running : RunOK(work[w])

PipeInv == PipeTypeOK /\ ClockInv /\ ReadInv /\ FreshInv /\ BodyInv /\ JobInv /\ RunInv

\* A vector that is stored was computed from the bytes its object has, or an
\* overwrite is about to remove it.
VectorOK(e) ==
  /\ e.key \in Key /\ e.plugin \in Maker
  /\ \/ \E u \in Uploading(e.key) : upload[u].op = "invalidate"
     \/ object[e.key] # None /\ object[e.key].body = e.bytes

StoredIsCurrent == \A e \in embeddings : VectorOK(e)

\* The side table of a native backend holds every row, one per key and producer.
SideInv ==
  /\ backend \in {"exact", "turso-native", "pgvector"}
  /\ vectors \subseteq embeddings
  /\ backend # "exact" => vectors = embeddings
  /\ \A e, f \in embeddings : e.key = f.key /\ e.plugin = f.plugin => e = f

-----------------------------------------------------------------------------
(* Rows and records.                                                       *)

\* The empty values are no rows.
LEMMA EmptyIsNoRow ==
  /\ \A o \in ObjectRow : o # None /\ o.upload \in Nat /\ o.body \in Nat /\ o.updated \in Nat
  /\ \A a \in AttributeRow : a # None
  /\ \A q \in WorkRow : q # Idle
  /\ \A q \in UploadRow : q # Idle
<1>1. DOMAIN None = {"absent"} /\ DOMAIN Idle = {"op"}
  BY DEF None, Idle
<1>2. \A o \in ObjectRow : /\ DOMAIN o = {"upload", "body", "updated"}
                           /\ o.upload \in Nat /\ o.body \in Nat /\ o.updated \in Nat
  BY DEF ObjectRow
<1>3. \A a \in AttributeRow : DOMAIN a = {"upload", "patched"}
  BY DEF AttributeRow
<1>4. \A q \in WorkRow : "job" \in DOMAIN q
  BY DEF WorkRow
<1>5. \A q \in UploadRow : "key" \in DOMAIN q
  BY DEF UploadRow
<1>6. {"upload", "body", "updated"} # {"absent"} /\ {"upload", "patched"} # {"absent"}
  OBVIOUS
<1>7. "job" \notin {"op"} /\ "key" \notin {"op"}
  OBVIOUS
<1>8. (\A o \in ObjectRow : o # None) /\ (\A a \in AttributeRow : a # None)
  BY <1>1, <1>2, <1>3, <1>6
<1>9. (\A q \in WorkRow : q # Idle) /\ (\A q \in UploadRow : q # Idle)
  BY <1>1, <1>4, <1>5, <1>7
<1>10. QED
  BY <1>2, <1>8, <1>9

\* The fields of a job's id, of a run and of an upload.
LEMMA Fields ==
  /\ \A i \in JobId : i.plugin \in Plugin /\ i.key \in Key /\ i.body \in Nat /\ i.updated \in Nat
  /\ \A q \in WorkRow : /\ q.op \in RunOp /\ q.job \in JobId /\ q.attempts \in Int
                        /\ q.read \in Nat /\ q.result \in ResultRow
                        /\ q.attributes \in AttributeRow \cup {None} /\ q.next \in Nat \ {0}
  /\ \A q \in UploadRow : /\ q.op \in {"invalidate", "attributes", "enqueue"}
                          /\ q.key \in Key /\ q.body \in Nat /\ q.upload \in Nat
<1>1. \A i \in JobId : i.plugin \in Plugin /\ i.key \in Key /\ i.body \in Nat /\ i.updated \in Nat
  BY DEF JobId
<1>2. \A q \in WorkRow : /\ q.op \in RunOp /\ q.job \in JobId /\ q.attempts \in Int
                         /\ q.read \in Nat /\ q.result \in ResultRow
                         /\ q.attributes \in AttributeRow \cup {None} /\ q.next \in Nat \ {0}
  BY DEF WorkRow
<1>3. \A q \in UploadRow : /\ q.op \in {"invalidate", "attributes", "enqueue"}
                           /\ q.key \in Key /\ q.body \in Nat /\ q.upload \in Nat
  BY DEF UploadRow
<1>4. QED
  BY <1>1, <1>2, <1>3

\* Two ids of a key and plugin for the same generation are one id.
LEMMA SameId ==
  ASSUME NEW i \in JobId, NEW j \in JobId, i.plugin = j.plugin, i.key = j.key,
         i.body = j.body, i.updated = j.updated
  PROVE  i = j
BY DEF JobId

\* A run, an upload and a worker that are somewhere have a row.
LEMMA Busy ==
  ASSUME PipeTypeOK
  PROVE  /\ \A w \in Worker : work[w] # Idle => work[w] \in WorkRow
         /\ \A w \in Worker : work[w].op # "idle" => work[w] \in WorkRow
         /\ \A u \in Uploader : upload[u] # Idle => upload[u] \in UploadRow
         /\ \A u \in Uploader : upload[u].op # "idle" => upload[u] \in UploadRow
         /\ \A k \in Key : object[k] # None => object[k] \in ObjectRow
<1>1. Idle.op = "idle"
  BY DEF Idle
<1>2. QED
  BY <1>1 DEF PipeTypeOK

\* The three ways in which a worker moves on.
LEMMA RunTypes ==
  ASSUME NEW q \in WorkRow
  PROVE  /\ \A op \in RunOp : [q EXCEPT !.op = op] \in WorkRow
         /\ [q EXCEPT !.next = @ + 1] \in WorkRow
         /\ \A n \in Nat, r \in ResultRow :
              [q EXCEPT !.op = "reload", !.read = n, !.result = r] \in WorkRow
         /\ \A a \in AttributeRow \cup {None} :
              [q EXCEPT !.op = "embed", !.attributes = a] \in WorkRow
<1>1. \A op \in RunOp : [q EXCEPT !.op = op] \in WorkRow
  BY DEF WorkRow
<1>2. [q EXCEPT !.next = @ + 1] \in WorkRow
  <2>1. q.next + 1 \in Nat \ {0}
    BY Fields
  <2>2. QED
    BY <2>1 DEF WorkRow
<1>3. \A n \in Nat, r \in ResultRow :
        [q EXCEPT !.op = "reload", !.read = n, !.result = r] \in WorkRow
  BY DEF WorkRow, RunOp
<1>4. \A a \in AttributeRow \cup {None} :
        [q EXCEPT !.op = "embed", !.attributes = a] \in WorkRow
  BY DEF WorkRow, RunOp
<1>5. QED
  BY <1>1, <1>2, <1>3, <1>4

\* What is saved to a job keeps the types of the rows.
LEMMA SavedTypes ==
  ASSUME PipeTypeOK, NEW i \in JobId, NEW n \in Int, NEW r \in ResultRow,
         NEW s \in {"pending", "running", "succeeded", "failed", "superseded"},
         jobs' = Saved(i, s, n, r)
  PROVE  /\ DOMAIN jobs' = DOMAIN jobs /\ jobs' \in [DOMAIN jobs' -> JobRow]
         /\ i \in DOMAIN jobs => jobs'[i].status = s /\ jobs'[i].result = r
         /\ \A j \in DOMAIN jobs : j # i => jobs'[j] = jobs[j]
<1>1. [status |-> s, attempts |-> n, result |-> r] \in JobRow
  BY DEF JobRow
<1>2. jobs \in [DOMAIN jobs -> JobRow]
  BY DEF PipeTypeOK
<1>3. CASE i \notin DOMAIN jobs
  BY <1>2, <1>3 DEF Saved
<1>4. CASE i \in DOMAIN jobs
  <2> DEFINE row == [status |-> s, attempts |-> n, result |-> r]
  <2>1. row.status = s /\ row.result = r
    OBVIOUS
  <2>2. row \in JobRow
    BY <1>1
  <2> HIDE DEF row
  <2>3. jobs' = [jobs EXCEPT ![i] = row]
    BY <1>4 DEF Saved, row
  <2>4. QED
    BY <1>2, <1>4, <2>1, <2>2, <2>3
<1>5. QED
  BY <1>3, <1>4

\* The declared types of the empty results.
LEMMA EmptyResult == NoResult \in ResultRow /\ NewJob \in JobRow /\ NewJob.status = "pending"
<1>1. NoResult \in ResultRow
  BY DEF NoResult, ResultRow
<1>2. QED
  BY <1>1 DEF NewJob, JobRow

\* A run ends without success: its job is put back, failed or superseded, or
\* left as it is, and every other job is as it was.
Ends(w) ==
  /\ DOMAIN jobs' = DOMAIN jobs /\ jobs' \in [DOMAIN jobs' -> JobRow]
  /\ \A j \in DOMAIN jobs : j # Id(w) => jobs'[j] = jobs[j]
  /\ Id(w) \in DOMAIN jobs => jobs'[Id(w)] = jobs[Id(w)] \/ jobs'[Id(w)].status # "succeeded"
  /\ work' = [work EXCEPT ![w] = Idle]

LEMMA Ending ==
  ASSUME PipeTypeOK, NEW w \in Worker, work[w] \in WorkRow,
         \/ Fail(w) /\ Becomes(w, Idle)
         \/ Settle(w, "failed")
         \/ Settle(w, "superseded")
         \/ UNCHANGED jobs /\ Becomes(w, Idle)
  PROVE  Ends(w)
<1>1. Id(w) \in JobId /\ work[w].attempts \in Int /\ NoResult \in ResultRow
  BY Fields, EmptyResult DEF Id
<1>2. work' = [work EXCEPT ![w] = Idle]
  BY DEF Becomes, Settle
<1>3. CASE UNCHANGED jobs
  BY <1>2, <1>3 DEF Ends, PipeTypeOK
<1>4. CASE ~ UNCHANGED jobs
  <2>1. PICK s \in {"pending", "failed", "superseded"} :
          jobs' = Saved(Id(w), s, work[w].attempts, NoResult)
    BY <1>4 DEF Fail, Settle, Id
  <2>2. QED
    BY <1>1, <1>2, <2>1, SavedTypes DEF Ends
<1>5. QED
  BY <1>3, <1>4

\* A worker that gets a row, or none, keeps the types of all.
LEMMA WorkTypes ==
  ASSUME PipeTypeOK, NEW w \in Worker, NEW q \in WorkRow \cup {Idle},
         work' = [work EXCEPT ![w] = q]
  PROVE  /\ work' \in [Worker -> WorkRow \cup {Idle}]
         /\ work'[w] = q
         /\ \A v \in Worker : v # w => work'[v] = work[v]
BY DEF PipeTypeOK

\* The side effects a run may have, and their types.
LEMMA PatchTypes ==
  ASSUME NEW a \in AttributeRow \cup {None}, NEW p \in Plugin
  PROVE  Patched(a, p) \in AttributeRow
<1>1. CASE a = None
  BY <1>1 DEF Patched, AttributeRow
<1>2. CASE a # None
  BY <1>2 DEF Patched, AttributeRow
<1>3. QED
  BY <1>1, <1>2

\* A step that leaves the rows of the vectors' profiles to EnsurePGVectorIndex
\* or to a build that fails.
LEMMA IndexTypes ==
  ASSUME PipeTypeOK, NEW p \in Maker, EnsurePGVectorIndex(p) \/ BuildFails(p)
  PROVE  /\ hnsw' \in [Maker -> {"none", "invalid", "valid"}]
         /\ embeddings' = embeddings /\ vectors' = vectors /\ backend' = backend
         /\ \A q \in Maker : ~ NeedsIndex(q) => ~ NeedsIndex(q)'
<1>1. hnsw \in [Maker -> {"none", "invalid", "valid"}]
  BY DEF PipeTypeOK
<1>2. \/ UNCHANGED vecVars
      \/ \E s \in {"none", "invalid", "valid"} :
           NeedsIndex(p) /\ hnsw' = [hnsw EXCEPT ![p] = s] /\ UNCHANGED <<embeddings, vectors, backend>>
  BY DEF EnsurePGVectorIndex, BuildFails, IndexBecomes
<1>3. CASE UNCHANGED vecVars
  BY <1>1, <1>3 DEF vecVars, NeedsIndex
<1>4. CASE \E s \in {"none", "invalid", "valid"} :
           NeedsIndex(p) /\ hnsw' = [hnsw EXCEPT ![p] = s] /\ UNCHANGED <<embeddings, vectors, backend>>
  <2>1. PICK s \in {"none", "invalid", "valid"} :
           NeedsIndex(p) /\ hnsw' = [hnsw EXCEPT ![p] = s] /\ UNCHANGED <<embeddings, vectors, backend>>
    BY <1>4
  <2>2. hnsw' \in [Maker -> {"none", "invalid", "valid"}]
    BY <1>1, <2>1
  <2>3. ASSUME NEW q \in Maker, ~ NeedsIndex(q)
        PROVE  ~ NeedsIndex(q)'
    <3>1. q # p
      BY <2>1, <2>3
    <3>2. hnsw'[q] = hnsw[q]
      BY <1>1, <2>1, <3>1
    <3>3. QED
      BY <2>1, <2>3, <3>2 DEF NeedsIndex
  <2>4. QED
    BY <2>1, <2>2, <2>3
<1>5. QED
  BY <1>2, <1>3, <1>4

\* The producers of the plugins are among the makers.
LEMMA PluginsMake == Plugin \subseteq Maker /\ Producer \in Maker /\ Producer \notin Plugin
BY PipelineAssumption

-----------------------------------------------------------------------------
(* The steps of a run, as far as the invariants tell them apart.           *)

\* Nothing but attributes, index states, jobs, workers and made objects changes.
Still ==
  /\ UNCHANGED <<embeddings, vectors, backend, object, upload, clock, uploads>>
  /\ attributes' \in [Key -> AttributeRow \cup {None}]
  /\ hnsw' \in [Maker -> {"none", "invalid", "valid"}]
  /\ \A p \in Maker : ~ NeedsIndex(p) => ~ NeedsIndex(p)'

Quiet == Still /\ made' = made

Moves(w, from, to) ==
  /\ At(w, from) /\ UNCHANGED jobs
  /\ work' = [work EXCEPT ![w] = [work[w] EXCEPT !.op = to]]

Operates(w, operation) ==
  /\ At(w, "operate") /\ ~ Done(w) /\ Current(w) = operation /\ UNCHANGED jobs
  /\ work' = [work EXCEPT ![w] = [work[w] EXCEPT !.next = @ + 1]]

RunEnds(w) == Ends(w) /\ Quiet
RunLoads(w) == Moves(w, "load", "execute") /\ IsCurrent(Id(w)) /\ Quiet
RunReads(w) ==
  /\ At(w, "execute") /\ Source(w) # None /\ UNCHANGED jobs /\ Quiet
  /\ \E r \in ResultRow :
       work' = [work EXCEPT ![w] =
         [work[w] EXCEPT !.op = "reload", !.read = Source(w).body, !.result = r]]
RunReloads(w) ==
  /\ At(w, "reload") /\ IsCurrent(Id(w)) /\ UNCHANGED jobs /\ Quiet
  /\ work' = [work EXCEPT ![w] =
       [work[w] EXCEPT !.op = "embed", !.attributes = attributes[Id(w).key]]]
RunEmbeds(w) ==
  /\ At(w, "embed") /\ IsCurrent(Id(w)) /\ Embedded(w)
  /\ UNCHANGED <<object, attributes, made, upload, clock, uploads>>
RunIndexes(w) ==
  /\ Moves(w, "index", "attributes") /\ Quiet
  /\ \E p \in Plugin : p = Id(w).plugin /\ ~ NeedsIndex(p)'
RunSaves(w) == Moves(w, "attributes", "derive") /\ Quiet
RunDerives(w) ==
  /\ Moves(w, "derive", "operate") /\ Still
  /\ made' = IF work[w].result.file
             THEN [made EXCEPT ![<<Id(w).key, Id(w).plugin>>] = work[w].read] ELSE made
RunPatches(w) == Operates(w, "patch") /\ Quiet
RunCopies(w) ==
  /\ Operates(w, "copy") /\ object[Id(w).key] # None /\ Still
  /\ made' = [made EXCEPT ![<<Id(w).key, Id(w).plugin>>] = object[Id(w).key].body]
RunDeletes(w) ==
  /\ Operates(w, "delete") /\ WithoutRow(Id(w).key)
  /\ UNCHANGED <<made, upload, clock, uploads>>
RunFinishes(w) == At(w, "operate") /\ Done(w) /\ Settle(w, "succeeded") /\ Quiet

RunKinds(w) ==
  \/ RunEnds(w) \/ RunLoads(w) \/ RunReads(w) \/ RunReloads(w) \/ RunEmbeds(w) \/ RunIndexes(w)
  \/ RunSaves(w) \/ RunDerives(w) \/ RunPatches(w) \/ RunCopies(w) \/ RunDeletes(w)
  \/ RunFinishes(w)

\* Unchanged vectors and an unchanged or patched row of attributes are still.
LEMMA StillVectors ==
  ASSUME PipeTypeOK, UNCHANGED vecVars
  PROVE  /\ UNCHANGED <<embeddings, vectors, backend>>
         /\ hnsw' \in [Maker -> {"none", "invalid", "valid"}]
         /\ \A p \in Maker : ~ NeedsIndex(p) => ~ NeedsIndex(p)'
BY DEF PipeTypeOK, vecVars, NeedsIndex

LEMMA RunStepKinds ==
  ASSUME PipeTypeOK, NEW w \in Worker, RunStep(w) \/ Crash(w) \/ CrashIndexing(w)
  PROVE  work[w] \in WorkRow /\ RunKinds(w)
<1> DEFINE A == [Key -> AttributeRow \cup {None}]
<1>1. work[w] # Idle
  <2>1. Idle.op = "idle"
    BY DEF Idle
  <2>2. QED
    BY <2>1 DEF RunStep, Crash, CrashIndexing, LoadJob, ExecutePlugin, ReloadSource, Embed,
                IndexVectors, IndexingFails, SaveAttributes, Derive, PatchObject, CopyObject,
                DeleteByPlugin, Finish, RunFails, At
<1>2. /\ work[w] \in WorkRow /\ Id(w) \in JobId /\ Id(w).key \in Key /\ Id(w).plugin \in Plugin
      /\ Id(w).plugin \in Maker
  BY <1>1, Busy, Fields, PluginsMake DEF Id
<1>3. attributes \in A
  BY DEF PipeTypeOK
<1>4. CASE LoadJob(w)
  <2>1. Quiet
    BY <1>3, <1>4, StillVectors DEF LoadJob, Quiet, Still
  <2>2. CASE Settle(w, "failed") \/ Settle(w, "superseded")
    BY <1>2, <2>1, <2>2, Ending DEF RunKinds, RunEnds
  <2>3. CASE ~ (Settle(w, "failed") \/ Settle(w, "superseded"))
    BY <1>2, <1>4, <2>1, <2>3
       DEF LoadJob, RunKinds, RunLoads, Moves, Goes, Becomes, IsCurrent, Source
  <2>4. QED
    BY <2>2, <2>3
<1>5. ASSUME NEW r \in Result, ExecutePlugin(w, r)
      PROVE  RunKinds(w)
  <2>1. Quiet
    BY <1>3, <1>5, StillVectors DEF ExecutePlugin, Quiet, Still
  <2>2. CASE Fail(w) /\ Becomes(w, Idle)
    BY <1>2, <2>1, <2>2, Ending DEF RunKinds, RunEnds
  <2>3. CASE ~ (Fail(w) /\ Becomes(w, Idle))
    <3>1. r \in ResultRow
      BY PipelineAssumption DEF ResultRow
    <3>2. QED
      BY <1>2, <1>5, <2>1, <2>3, <3>1 DEF ExecutePlugin, RunKinds, RunReads, Becomes
  <2>4. QED
    BY <2>2, <2>3
<1>6. CASE ReloadSource(w)
  <2>1. Quiet
    BY <1>3, <1>6, StillVectors DEF ReloadSource, Quiet, Still
  <2>2. CASE (Fail(w) /\ Becomes(w, Idle)) \/ Settle(w, "superseded")
    BY <1>2, <2>1, <2>2, Ending DEF RunKinds, RunEnds
  <2>3. CASE ~ ((Fail(w) /\ Becomes(w, Idle)) \/ Settle(w, "superseded"))
    BY <1>2, <1>6, <2>1, <2>3
       DEF ReloadSource, RunKinds, RunReloads, Becomes, IsCurrent, Source
  <2>4. QED
    BY <2>2, <2>3
<1>7. CASE Embed(w)
  <2>1. CASE SameGeneration(Source(w), Id(w))
    BY <1>2, <1>7, <2>1 DEF Embed, RunKinds, RunEmbeds, IsCurrent, Source
  <2>2. CASE ~ SameGeneration(Source(w), Id(w))
    <3>1. Quiet
      BY <1>3, <1>7, <2>2, StillVectors DEF Embed, Quiet, Still
    <3>2. QED
      BY <1>2, <1>7, <2>2, <3>1, Ending DEF Embed, RunKinds, RunEnds
  <2>3. QED
    BY <2>1, <2>2
<1>8. CASE IndexVectors(w)
  <2>1. EnsurePGVectorIndex(Id(w).plugin)
    BY <1>8 DEF IndexVectors
  <2>2. Quiet
    BY <1>2, <1>3, <1>8, <2>1, IndexTypes DEF IndexVectors, Quiet, Still
  <2>3. CASE NeedsIndex(Id(w).plugin) /\ LimitReached(Id(w).plugin)
    BY <1>2, <1>8, <2>2, <2>3, Ending DEF IndexVectors, RunKinds, RunEnds
  <2>4. CASE ~ (NeedsIndex(Id(w).plugin) /\ LimitReached(Id(w).plugin))
    <3>1. PICK p \in Plugin : p = Id(w).plugin
      BY <1>2
    <3>2. ~ NeedsIndex(p)'
      <4>1. CASE ~ NeedsIndex(p)
        BY <2>2, <4>1, PluginsMake DEF Quiet, Still
      <4>2. CASE NeedsIndex(p)
        <5>1. hnsw' = [hnsw EXCEPT ![p] = "valid"]
          BY <2>1, <2>4, <3>1, <4>2 DEF EnsurePGVectorIndex, IndexBecomes
        <5>2. hnsw'[p] = "valid"
          BY <5>1, PluginsMake DEF PipeTypeOK
        <5>3. QED
          BY <5>2 DEF NeedsIndex
      <4>3. QED
        BY <4>1, <4>2
    <3>3. QED
      BY <1>2, <1>8, <2>2, <2>4, <3>1, <3>2
         DEF IndexVectors, RunKinds, RunIndexes, Moves, Goes, Becomes
  <2>5. QED
    BY <2>3, <2>4
<1>9. CASE IndexingFails(w) \/ CrashIndexing(w)
  <2>1. BuildFails(Id(w).plugin)
    BY <1>9 DEF IndexingFails, CrashIndexing
  <2>2. Quiet
    BY <1>2, <1>3, <1>9, <2>1, IndexTypes DEF IndexingFails, CrashIndexing, Quiet, Still
  <2>3. QED
    BY <1>2, <1>9, <2>2, Ending DEF IndexingFails, CrashIndexing, RunKinds, RunEnds
<1>10. CASE SaveAttributes(w)
  <2>1. CASE object[Id(w).key] = None
    <3>1. Quiet
      BY <1>3, <1>10, <2>1, StillVectors DEF SaveAttributes, Quiet, Still
    <3>2. QED
      BY <1>2, <1>10, <2>1, <3>1, Ending DEF SaveAttributes, RunKinds, RunEnds
  <2>2. CASE object[Id(w).key] # None
    <3>1. Patched(work[w].attributes, Id(w).plugin) \in AttributeRow
      BY <1>2, Fields, PatchTypes
    <3>2. attributes' \in A
      BY <1>2, <1>3, <1>10, <2>2, <3>1 DEF SaveAttributes
    <3>3. Quiet
      BY <1>10, <3>2, StillVectors DEF SaveAttributes, Quiet, Still
    <3>4. QED
      BY <1>2, <1>10, <2>2, <3>3 DEF SaveAttributes, RunKinds, RunSaves, Moves, Goes, Becomes
  <2>3. QED
    BY <2>1, <2>2
<1>11. CASE Derive(w)
  <2>1. Still
    BY <1>3, <1>11, StillVectors DEF Derive, Still
  <2>2. QED
    BY <1>2, <1>11, <2>1 DEF Derive, RunKinds, RunDerives, Moves, Goes, Becomes
<1>12. CASE PatchObject(w)
  <2>1. attributes' \in A
    <3>1. Patched(attributes[Id(w).key], Id(w).plugin) \in AttributeRow
      BY <1>2, <1>3, PatchTypes
    <3>2. attributes' = [attributes EXCEPT ![Id(w).key] =
                           Patched(attributes[Id(w).key], Id(w).plugin)]
      BY <1>12 DEF PatchObject
    <3>3. QED
      BY <1>2, <1>3, <3>1, <3>2
  <2>2. Quiet
    BY <1>12, <2>1, StillVectors DEF PatchObject, Quiet, Still
  <2>3. QED
    BY <1>2, <1>12, <2>2 DEF PatchObject, RunKinds, RunPatches, Operates, Advance, Becomes
<1>13. CASE CopyObject(w)
  <2>1. Still
    BY <1>3, <1>13, StillVectors DEF CopyObject, Still
  <2>2. QED
    BY <1>2, <1>13, <2>1 DEF CopyObject, RunKinds, RunCopies, Operates, Advance, Becomes
<1>14. CASE DeleteByPlugin(w)
  BY <1>2, <1>14 DEF DeleteByPlugin, RunKinds, RunDeletes, Operates, Advance, Becomes
<1>15. CASE Finish(w)
  <2>1. Quiet
    BY <1>3, <1>15, StillVectors DEF Finish, Quiet, Still
  <2>2. QED
    BY <1>2, <1>15, <2>1 DEF Finish, RunKinds, RunFinishes
<1>16. CASE RunFails(w) \/ Crash(w)
  <2>1. Quiet
    BY <1>3, <1>16, StillVectors DEF RunFails, Crash, Quiet, Still
  <2>2. QED
    BY <1>2, <1>16, <2>1, Ending DEF RunFails, Crash, RunKinds, RunEnds
<1>17. QED
  BY <1>2, <1>4, <1>5, <1>6, <1>7, <1>8, <1>9, <1>10, <1>11, <1>12, <1>13, <1>14, <1>15, <1>16
     DEF RunStep

-----------------------------------------------------------------------------
(* Types, for every step.                                                  *)

LEMMA RunKeepsTypes ==
  ASSUME PipeTypeOK, NEW w \in Worker, work[w] \in WorkRow, RunKinds(w)
  PROVE  PipeTypeOK'
<1>1. /\ Id(w) \in JobId /\ Id(w).key \in Key /\ Id(w).plugin \in Plugin
      /\ work[w].read \in Nat /\ work[w].attempts \in Int /\ work[w].result \in ResultRow
      /\ <<Id(w).key, Id(w).plugin>> \in Target
  BY Fields DEF Id, Target
<1>2. /\ object \in [Key -> ObjectRow \cup {None}]
      /\ attributes \in [Key -> AttributeRow \cup {None}] /\ made \in [Target -> Nat]
      /\ DOMAIN jobs \subseteq JobId /\ jobs \in [DOMAIN jobs -> JobRow]
      /\ upload \in [Uploader -> UploadRow \cup {Idle}]
      /\ clock \in Nat /\ uploads \in Nat /\ hnsw \in [Maker -> {"none", "invalid", "valid"}]
  BY DEF PipeTypeOK
<1>3. /\ \A op \in RunOp : [work[w] EXCEPT !.op = op] \in WorkRow
      /\ [work[w] EXCEPT !.next = @ + 1] \in WorkRow
  BY RunTypes
<1>4. /\ Still => /\ object' \in [Key -> ObjectRow \cup {None}]
                  /\ attributes' \in [Key -> AttributeRow \cup {None}]
                  /\ upload' \in [Uploader -> UploadRow \cup {Idle}]
                  /\ clock' \in Nat /\ uploads' \in Nat
                  /\ hnsw' \in [Maker -> {"none", "invalid", "valid"}]
      /\ Quiet => Still /\ made' \in [Target -> Nat]
      /\ UNCHANGED jobs => DOMAIN jobs' \subseteq JobId /\ jobs' \in [DOMAIN jobs' -> JobRow]
  BY <1>2 DEF Still, Quiet
<1>5. CASE RunEnds(w)
  <2>1. work' \in [Worker -> WorkRow \cup {Idle}]
    BY <1>5, WorkTypes DEF RunEnds, Ends
  <2>2. QED
    BY <1>2, <1>4, <1>5, <2>1 DEF RunEnds, Ends, PipeTypeOK
<1>6. CASE RunLoads(w) \/ RunIndexes(w) \/ RunSaves(w) \/ RunPatches(w)
  <2>1. work' \in [Worker -> WorkRow \cup {Idle}]
    BY <1>3, <1>6, WorkTypes
       DEF RunLoads, RunIndexes, RunSaves, RunPatches, Moves, Operates, RunOp
  <2>2. UNCHANGED jobs /\ Quiet
    BY <1>6 DEF RunLoads, RunIndexes, RunSaves, RunPatches, Moves, Operates
  <2>3. QED
    BY <1>4, <2>1, <2>2 DEF PipeTypeOK
<1>7. CASE RunReads(w)
  <2>1. Source(w).body \in Nat
    BY <1>1, <1>2, <1>7, EmptyIsNoRow DEF RunReads, Source
  <2>2. work' \in [Worker -> WorkRow \cup {Idle}]
    BY <1>7, <2>1, RunTypes, WorkTypes DEF RunReads
  <2>3. QED
    BY <1>4, <1>7, <2>2 DEF RunReads, PipeTypeOK
<1>8. CASE RunReloads(w)
  <2>1. attributes[Id(w).key] \in AttributeRow \cup {None}
    BY <1>1, <1>2
  <2>2. work' \in [Worker -> WorkRow \cup {Idle}]
    BY <1>8, <2>1, RunTypes, WorkTypes DEF RunReloads
  <2>3. QED
    BY <1>4, <1>8, <2>2 DEF RunReloads, PipeTypeOK
<1>9. CASE RunEmbeds(w)
  <2>1. work' \in [Worker -> WorkRow \cup {Idle}]
    BY <1>3, <1>9, WorkTypes DEF RunEmbeds, Embedded, Goes, Becomes, RunOp
  <2>2. UNCHANGED <<object, attributes, made, upload, clock, uploads, jobs, hnsw>>
    BY <1>9 DEF RunEmbeds, Embedded, ReplaceEmbeddings
  <2>3. QED
    BY <1>2, <2>1, <2>2 DEF PipeTypeOK
<1>10. CASE RunDerives(w) \/ RunCopies(w)
  <2>1. work' \in [Worker -> WorkRow \cup {Idle}]
    BY <1>3, <1>10, WorkTypes DEF RunDerives, RunCopies, Moves, Operates, RunOp
  <2>2. UNCHANGED jobs /\ Still
    BY <1>10 DEF RunDerives, RunCopies, Moves, Operates
  <2>3. \E n \in Nat : made' = [made EXCEPT ![<<Id(w).key, Id(w).plugin>>] = n] \/ made' = made
    <3>1. CASE RunDerives(w)
      BY <1>1, <3>1 DEF RunDerives
    <3>2. CASE RunCopies(w)
      <4>1. object[Id(w).key].body \in Nat
        BY <1>1, <1>2, <3>2, EmptyIsNoRow DEF RunCopies
      <4>2. QED
        BY <3>2, <4>1 DEF RunCopies
    <3>3. QED
      BY <1>10, <3>1, <3>2
  <2>4. made' \in [Target -> Nat]
    BY <1>2, <2>3
  <2>5. QED
    BY <1>4, <2>1, <2>2, <2>4 DEF PipeTypeOK
<1>11. CASE RunDeletes(w)
  <2>1. work' \in [Worker -> WorkRow \cup {Idle}]
    BY <1>3, <1>11, WorkTypes DEF RunDeletes, Operates
  <2>2. /\ object' \in [Key -> ObjectRow \cup {None}]
        /\ attributes' \in [Key -> AttributeRow \cup {None}]
    BY <1>1, <1>2, <1>11 DEF RunDeletes, WithoutRow
  <2>3. UNCHANGED <<made, upload, clock, uploads, jobs, hnsw>>
    BY <1>11 DEF RunDeletes, WithoutRow, Operates, DeleteEmbeddings
  <2>4. QED
    BY <1>2, <2>1, <2>2, <2>3 DEF PipeTypeOK
<1>12. CASE RunFinishes(w)
  <2>1. work' \in [Worker -> WorkRow \cup {Idle}]
    BY <1>12, WorkTypes DEF RunFinishes, Settle, Becomes
  <2>2. jobs' = Saved(Id(w), "succeeded", work[w].attempts, work[w].result)
    BY <1>12 DEF RunFinishes, Settle, Id
  <2>3. DOMAIN jobs' = DOMAIN jobs /\ jobs' \in [DOMAIN jobs' -> JobRow]
    BY <1>1, <2>2, SavedTypes
  <2>4. QED
    BY <1>2, <1>4, <1>12, <2>1, <2>3 DEF RunFinishes, PipeTypeOK
<1>13. QED
  BY <1>5, <1>6, <1>7, <1>8, <1>9, <1>10, <1>11, <1>12 DEF RunKinds

\* A new row of the index, under a later updated_at, or one that is gone.
ObjectStep ==
  \/ UNCHANGED <<object, clock>>
  \/ \E k \in Key : object' = [object EXCEPT ![k] = None] /\ clock' = clock
  \/ \E k \in Key : \E o \in ObjectRow :
       o.updated = clock + 1 /\ object' = [object EXCEPT ![k] = o] /\ clock' = clock + 1

LEMMA PutRowTypes ==
  ASSUME PipeTypeOK, NEW u \in Uploader, NEW k \in Key, NEW b \in 1 .. (uploads + 1), PutRow(u, k, b)
  PROVE  PipeTypeOK' /\ ObjectStep
<1> DEFINE o == [upload |-> uploads + 1, body |-> b, updated |-> clock + 1]
           q == [op |-> IF object[k] = None THEN "attributes" ELSE "invalidate",
                 key |-> k, body |-> b, upload |-> uploads + 1]
<1>1. uploads + 1 \in Nat /\ clock + 1 \in Nat /\ b \in Nat
  BY DEF PipeTypeOK
<1>2. o \in ObjectRow /\ o.updated = clock + 1
  BY <1>1 DEF ObjectRow
<1>3. q \in UploadRow
  BY <1>1 DEF UploadRow
<1>4. object' = [object EXCEPT ![k] = o] /\ upload' = [upload EXCEPT ![u] = q]
  BY DEF PutRow
<1> HIDE DEF o, q
<1>5. clock' = clock + 1 /\ uploads' = uploads + 1
  BY DEF PutRow
<1>6. UNCHANGED <<attributes, hnsw, made, jobs, work>>
  BY DEF PutRow, vecVars
<1>7. object' \in [Key -> ObjectRow \cup {None}] /\ upload' \in [Uploader -> UploadRow \cup {Idle}]
  BY <1>2, <1>3, <1>4 DEF PipeTypeOK
<1>8. QED
  BY <1>1, <1>2, <1>4, <1>5, <1>6, <1>7 DEF PipeTypeOK, ObjectStep

LEMMA UploadStepTypes ==
  ASSUME PipeTypeOK, NEW u \in Uploader, UploadStep(u) \/ CancelUpload(u)
  PROVE  PipeTypeOK' /\ UNCHANGED <<object, clock, work>>
<1>1. upload[u] \in UploadRow /\ upload[u] # Idle
  <2>1. Idle.op = "idle"
    BY DEF Idle
  <2>2. upload[u] # Idle
    BY <2>1 DEF UploadStep, CancelUpload, Invalidate, PutAttributes, EnqueueWASMPlugins
  <2>3. QED
    BY <2>2, Busy
<1>2. /\ upload[u].key \in Key /\ upload[u].body \in Nat /\ upload[u].upload \in Nat
      /\ [upload[u] EXCEPT !.op = "attributes"] \in UploadRow
      /\ [upload[u] EXCEPT !.op = "enqueue"] \in UploadRow
  BY <1>1, Fields DEF UploadRow
<1>3. UNCHANGED <<object, clock, work, uploads, made, hnsw>>
  BY DEF UploadStep, CancelUpload, Invalidate, PutAttributes, EnqueueWASMPlugins,
         DeleteEmbeddings, vecVars
<1>4. upload' \in [Uploader -> UploadRow \cup {Idle}]
  <2>1. \E q \in UploadRow \cup {Idle} : upload' = [upload EXCEPT ![u] = q]
    BY <1>2 DEF UploadStep, CancelUpload, Invalidate, PutAttributes, EnqueueWASMPlugins
  <2>2. QED
    BY <2>1 DEF PipeTypeOK
<1>5. attributes' \in [Key -> AttributeRow \cup {None}]
  <2>1. [upload |-> upload[u].upload, patched |-> {}] \in AttributeRow
    BY <1>2 DEF AttributeRow
  <2>2. \/ UNCHANGED attributes
        \/ attributes' = [attributes EXCEPT ![upload[u].key] =
                            [upload |-> upload[u].upload, patched |-> {}]]
    BY DEF UploadStep, CancelUpload, Invalidate, PutAttributes, EnqueueWASMPlugins
  <2>3. QED
    BY <1>2, <2>1, <2>2 DEF PipeTypeOK
<1>6. DOMAIN jobs' \subseteq JobId /\ jobs' \in [DOMAIN jobs' -> JobRow]
  <2>1. CASE UNCHANGED jobs
    BY <2>1 DEF PipeTypeOK
  <2>2. CASE ~ UNCHANGED jobs
    <3> DEFINE J == NewJobs(upload[u].key, upload[u].body)
    <3>1. jobs' = Enqueued(J) /\ object[upload[u].key] # None
      BY <2>2 DEF UploadStep, CancelUpload, Invalidate, PutAttributes, EnqueueWASMPlugins
    <3>2. object[upload[u].key].updated \in Nat
      BY <1>2, <3>1, EmptyIsNoRow DEF PipeTypeOK
    <3>3. J \subseteq JobId
      BY <1>2, <3>2 DEF NewJobs, Matching, JobId
    <3> HIDE DEF J
    <3>4. DOMAIN jobs' = DOMAIN jobs \cup J
      BY <3>1 DEF Enqueued
    <3>5. \A i \in DOMAIN jobs' : jobs'[i] \in JobRow
      BY <3>1, <3>4, EmptyResult DEF Enqueued, PipeTypeOK
    <3>6. QED
      BY <3>1, <3>3, <3>4, <3>5 DEF PipeTypeOK, Enqueued
  <2>3. QED
    BY <2>1, <2>2
<1>7. QED
  BY <1>3, <1>4, <1>5, <1>6 DEF PipeTypeOK

LEMMA RowTypes ==
  ASSUME PipeTypeOK, NEW k \in Key, DeleteObject(k) \/ RefreshReplicaStatus(k)
  PROVE  PipeTypeOK' /\ ObjectStep /\ UNCHANGED <<work, jobs, made, upload>>
<1>1. CASE DeleteObject(k)
  <2>1. /\ object' = [object EXCEPT ![k] = None] /\ attributes' = [attributes EXCEPT ![k] = None]
        /\ UNCHANGED <<hnsw, made, jobs, upload, work, clock, uploads>>
    BY <1>1 DEF DeleteObject, WithoutRow, DeleteEmbeddings
  <2>2. QED
    BY <2>1 DEF PipeTypeOK, ObjectStep
<1>2. CASE RefreshReplicaStatus(k)
  <2> DEFINE o == [object[k] EXCEPT !.updated = clock + 1]
  <2>1. o \in ObjectRow /\ o.updated = clock + 1
    BY <1>2, Busy DEF RefreshReplicaStatus, PipeTypeOK, ObjectRow
  <2>2. object' = [object EXCEPT ![k] = o]
    BY <1>2 DEF RefreshReplicaStatus
  <2> HIDE DEF o
  <2>3. /\ clock' = clock + 1
        /\ UNCHANGED <<attributes, hnsw, made, jobs, upload, work, uploads>>
    BY <1>2 DEF RefreshReplicaStatus, vecVars
  <2>4. object' \in [Key -> ObjectRow \cup {None}] /\ clock' \in Nat
    BY <2>1, <2>2, <2>3 DEF PipeTypeOK
  <2>5. ObjectStep
    BY <2>1, <2>2, <2>3 DEF ObjectStep
  <2>6. QED
    BY <2>3, <2>4, <2>5 DEF PipeTypeOK
<1>3. QED
  BY <1>1, <1>2

LEMMA ProducerTypes ==
  ASSUME PipeTypeOK, NEW k \in Key,
         TellProducer(k) \/ ImportObjectEmbeddings(k) \/ IndexImported(k)
  PROVE  PipeTypeOK' /\ UNCHANGED <<object, clock, work, jobs, made, upload>>
<1>1. UNCHANGED <<object, clock, work, jobs, made, upload, attributes, uploads>>
  BY DEF TellProducer, ImportObjectEmbeddings, IndexImported
<1>2. hnsw' \in [Maker -> {"none", "invalid", "valid"}]
  <2>1. CASE TellProducer(k) \/ ImportObjectEmbeddings(k)
    BY <2>1 DEF TellProducer, ImportObjectEmbeddings, vecVars, ReplaceEmbeddings, PipeTypeOK
  <2>2. CASE IndexImported(k)
    BY <2>2, IndexTypes, PluginsMake DEF IndexImported
  <2>3. QED
    BY <2>1, <2>2
<1>3. QED
  BY <1>1, <1>2 DEF PipeTypeOK

LEMMA ClaimTypes ==
  ASSUME PipeTypeOK, NEW w \in Worker, NEW i \in DOMAIN jobs, ClaimNextWASMPluginJob(w, i)
  PROVE  /\ PipeTypeOK' /\ work[w] = Idle
         /\ UNCHANGED <<object, clock, made, upload, embeddings, hnsw, backend, vectors>>
         /\ work'[w] \in WorkRow /\ work'[w].op = "load" /\ work'[w].job = i /\ work'[w].next = 1
         /\ \A v \in Worker : v # w => work'[v] = work[v]
         /\ DOMAIN jobs' = DOMAIN jobs /\ jobs'[i].status = "running"
         /\ \A j \in DOMAIN jobs : j # i => jobs'[j] = jobs[j]
<1> DEFINE q == [op |-> "load", job |-> i, attempts |-> jobs[i].attempts + 1,
                 read |-> i.body, result |-> NoResult, attributes |-> None, next |-> 1]
           row == [jobs[i] EXCEPT !.status = "running", !.attempts = @ + 1]
<1>1. i \in JobId /\ jobs[i] \in JobRow
  BY DEF PipeTypeOK
<1>2. i.body \in Nat /\ jobs[i].attempts + 1 \in Int
  BY <1>1, Fields DEF JobRow
<1>3. q \in WorkRow /\ q.op = "load" /\ q.job = i /\ q.next = 1
  BY <1>1, <1>2, EmptyResult DEF WorkRow, RunOp
<1>4. row \in JobRow /\ row.status = "running"
  BY <1>1, <1>2 DEF JobRow
<1>5. work[w] = Idle /\ work' = [work EXCEPT ![w] = q] /\ jobs' = [jobs EXCEPT ![i] = row]
  BY DEF ClaimNextWASMPluginJob, Becomes
<1> HIDE DEF q, row
<1>6. UNCHANGED <<object, clock, made, upload, embeddings, hnsw, backend, vectors, attributes, uploads>>
  BY DEF ClaimNextWASMPluginJob, vecVars
<1>7. /\ work' \in [Worker -> WorkRow \cup {Idle}] /\ work'[w] = q
      /\ \A v \in Worker : v # w => work'[v] = work[v]
  BY <1>3, <1>5, WorkTypes
<1>8. /\ DOMAIN jobs' = DOMAIN jobs /\ jobs' \in [DOMAIN jobs' -> JobRow] /\ jobs'[i] = row
      /\ \A j \in DOMAIN jobs : j # i => jobs'[j] = jobs[j]
  BY <1>4, <1>5 DEF PipeTypeOK
<1>9. QED
  BY <1>3, <1>4, <1>5, <1>6, <1>7, <1>8 DEF PipeTypeOK

LEMMA RecoverTypes ==
  ASSUME PipeTypeOK, NEW i \in DOMAIN jobs, RecoverStaleWASMPluginJobs(i)
  PROVE  /\ PipeTypeOK'
         /\ UNCHANGED <<object, clock, made, upload, embeddings, hnsw, backend, vectors, work>>
         /\ DOMAIN jobs' = DOMAIN jobs /\ jobs'[i].status = "pending"
         /\ \A j \in DOMAIN jobs : j # i => jobs'[j] = jobs[j]
<1> DEFINE row == [jobs[i] EXCEPT !.status = "pending"]
<1>1. row \in JobRow /\ row.status = "pending"
  BY DEF PipeTypeOK, JobRow
<1>2. jobs' = [jobs EXCEPT ![i] = row]
  BY DEF RecoverStaleWASMPluginJobs
<1> HIDE DEF row
<1>3. UNCHANGED <<object, clock, made, upload, embeddings, hnsw, backend, vectors, work, attributes, uploads>>
  BY DEF RecoverStaleWASMPluginJobs, vecVars
<1>4. /\ DOMAIN jobs' = DOMAIN jobs /\ jobs' \in [DOMAIN jobs' -> JobRow] /\ jobs'[i] = row
      /\ \A j \in DOMAIN jobs : j # i => jobs'[j] = jobs[j]
  BY <1>1, <1>2 DEF PipeTypeOK
<1>5. QED
  BY <1>1, <1>3, <1>4 DEF PipeTypeOK

LEMMA PluginTypes ==
  ASSUME PipeTypeOK, NEW p \in Plugin,
         UpsertWASMPlugin(p, "enabled") \/ UpsertWASMPlugin(p, "disabled") \/ DeleteWASMPlugin(p)
  PROVE  /\ PipeTypeOK'
         /\ UNCHANGED <<object, clock, made, upload, hnsw, backend, work>>
         /\ DOMAIN jobs' \subseteq DOMAIN jobs
         /\ \A j \in DOMAIN jobs' : jobs'[j] = jobs[j] /\ (j.plugin = p => embeddings' = embeddings)
         /\ \/ UNCHANGED vecVars
            \/ DeleteEmbeddings({e \in embeddings : e.plugin = p})
<1>1. CASE UpsertWASMPlugin(p, "enabled") \/ UpsertWASMPlugin(p, "disabled")
  BY <1>1 DEF UpsertWASMPlugin, PipeTypeOK, vecVars
<1>2. CASE DeleteWASMPlugin(p)
  <2> DEFINE D == {j \in DOMAIN jobs : j.plugin # p}
  <2>1. jobs' = [i \in D |-> jobs[i]] /\ D \subseteq DOMAIN jobs /\ \A j \in D : j.plugin # p
    BY <1>2 DEF DeleteWASMPlugin
  <2> HIDE DEF D
  <2>2. DOMAIN jobs' = D /\ \A j \in D : jobs'[j] = jobs[j]
    BY <2>1
  <2>3. UNCHANGED <<object, clock, made, upload, hnsw, backend, work, attributes, uploads>>
    BY <1>2 DEF DeleteWASMPlugin, DeleteEmbeddings
  <2>4. DOMAIN jobs' \subseteq JobId /\ jobs' \in [DOMAIN jobs' -> JobRow]
    BY <2>1, <2>2 DEF PipeTypeOK
  <2>5. QED
    BY <1>2, <2>1, <2>2, <2>3, <2>4 DEF PipeTypeOK, DeleteWASMPlugin
<1>3. QED
  BY <1>1, <1>2

LEMMA RestartTypes ==
  ASSUME PipeTypeOK, NEW b, Restart(b)
  PROVE  /\ PipeTypeOK'
         /\ UNCHANGED <<object, clock, made, upload, jobs, work, embeddings>>
         /\ \A w \in Worker : work[w] = Idle
<1>1. /\ UNCHANGED <<object, clock, made, upload, jobs, work, embeddings, attributes, uploads>>
      /\ \A w \in Worker : work[w] = Idle
  BY DEF Restart, OpenStore, ConfigurePGVector, ConfigureTursoVectors, ConfigureExact
<1>2. hnsw' \in [Maker -> {"none", "invalid", "valid"}]
  <2>1. CASE ConfigurePGVector
    BY <2>1 DEF ConfigurePGVector, Ensured, Cleaned, PipeTypeOK
  <2>2. CASE ConfigureTursoVectors \/ ConfigureExact
    BY <2>2 DEF ConfigureTursoVectors, ConfigureExact, PipeTypeOK
  <2>3. QED
    BY <2>1, <2>2 DEF Restart, OpenStore
<1>3. QED
  BY <1>1, <1>2 DEF PipeTypeOK

-----------------------------------------------------------------------------
(* Generations: none comes back.                                           *)

\* No generation that was told before becomes current.
NoReturn == \A i \in JobId : i.updated <= clock /\ IsCurrent(i)' => IsCurrent(i)

LEMMA GenerationsPass ==
  ASSUME PipeTypeOK, ClockInv, ObjectStep
  PROVE  /\ NoReturn /\ clock' \in Nat /\ clock <= clock'
         /\ \A k \in Key : object'[k] # None => object'[k].updated <= clock'
<1>1. object \in [Key -> ObjectRow \cup {None}] /\ clock \in Nat
  BY DEF PipeTypeOK
<1>2. \A k \in Key : object[k] # None => object[k].updated <= clock /\ object[k].updated \in Nat
  BY <1>1, EmptyIsNoRow DEF ClockInv
<1>3. CASE UNCHANGED <<object, clock>>
  BY <1>1, <1>2, <1>3 DEF NoReturn, IsCurrent, SameGeneration
<1>4. CASE \E k \in Key : object' = [object EXCEPT ![k] = None] /\ clock' = clock
  <2>1. PICK k \in Key : object' = [object EXCEPT ![k] = None] /\ clock' = clock
    BY <1>4
  <2>2. \A j \in Key : object'[j] = None \/ object'[j] = object[j]
    BY <1>1, <2>1
  <2>3. QED
    BY <1>1, <1>2, <2>1, <2>2, Fields DEF NoReturn, IsCurrent, SameGeneration
<1>5. CASE \E k \in Key : \E o \in ObjectRow :
             o.updated = clock + 1 /\ object' = [object EXCEPT ![k] = o] /\ clock' = clock + 1
  <2>1. PICK k \in Key, o \in ObjectRow :
             o.updated = clock + 1 /\ object' = [object EXCEPT ![k] = o] /\ clock' = clock + 1
    BY <1>5
  <2>2. \A j \in Key : object'[j] = IF j = k THEN o ELSE object[j]
    BY <1>1, <2>1
  <2>3. ASSUME NEW i \in JobId, i.updated <= clock, IsCurrent(i)'
        PROVE  IsCurrent(i)
    <3>1. i.key \in Key /\ i.updated \in Nat
      BY Fields
    <3>2. object'[i.key].updated = i.updated
      BY <2>3 DEF IsCurrent, SameGeneration
    <3>3. i.key # k
      BY <1>1, <2>1, <2>2, <2>3, <3>1, <3>2
    <3>4. object'[i.key] = object[i.key]
      BY <2>2, <3>1, <3>3
    <3>5. QED
      BY <2>3, <3>4 DEF IsCurrent, SameGeneration
  <2>4. ASSUME NEW j \in Key, object'[j] # None
        PROVE  object'[j].updated <= clock'
    <3>1. CASE j = k
      BY <1>1, <2>1, <2>2, <3>1
    <3>2. CASE j # k
      BY <1>1, <1>2, <2>1, <2>2, <2>4, <3>2
    <3>3. QED
      BY <3>1, <3>2
  <2>5. QED
    BY <1>1, <2>1, <2>3, <2>4 DEF NoReturn
<1>6. QED
  BY <1>3, <1>4, <1>5 DEF ObjectStep

BaseInv == PipeTypeOK /\ ClockInv /\ ReadInv

\* A step that leaves the workers alone, and whose new jobs are not ahead.
LEMMA BaseFrame ==
  ASSUME BaseInv, PipeTypeOK', ObjectStep, UNCHANGED work,
         \A i \in DOMAIN jobs' : i \in DOMAIN jobs \/ i.updated <= clock
  PROVE  BaseInv' /\ NoReturn
<1>1. /\ NoReturn /\ clock' \in Nat /\ clock <= clock' /\ clock \in Nat
      /\ \A k \in Key : object'[k] # None => object'[k].updated <= clock'
  BY GenerationsPass DEF BaseInv, PipeTypeOK
<1>2. \A i \in DOMAIN jobs' : i.updated <= clock /\ i.updated \in Nat
  BY Fields DEF BaseInv, ClockInv, PipeTypeOK
<1>3. \A i \in DOMAIN jobs' : i.updated <= clock'
  BY <1>1, <1>2
<1>4. Running' = Running
  BY DEF Running
<1>5. \A w \in Running : work'[w] = work[w] /\ work[w] \in WorkRow /\ work[w].job \in JobId
                         /\ work[w].job.updated \in Nat /\ work[w].job.updated <= clock
  BY Busy, Fields DEF BaseInv, Running, ClockInv, Id
<1>6. \A w \in Running' : Id(w)'.updated <= clock'
  BY <1>1, <1>4, <1>5 DEF Id
<1>7. ClockInv'
  BY <1>1, <1>3, <1>6 DEF ClockInv
<1>8. ReadInv'
  <2>1. SUFFICES ASSUME NEW w \in Running PROVE ReadOK(work[w])'
    BY <1>4 DEF ReadInv
  <2>2. IsCurrent(work[w].job)' => IsCurrent(work[w].job)
    BY <1>1, <1>5 DEF NoReturn
  <2>3. ReadOK(work[w])
    BY DEF BaseInv, ReadInv
  <2>4. QED
    BY <1>5, <2>2, <2>3 DEF ReadOK
<1>9. QED
  BY <1>1, <1>7, <1>8 DEF BaseInv

\* A worker that gets a row, or none, whose id is not ahead of the clock.
LEMMA BaseWork ==
  ASSUME BaseInv, PipeTypeOK', ObjectStep, NEW w \in Worker,
         DOMAIN jobs' = DOMAIN jobs,
         \A v \in Worker : v # w => work'[v] = work[v],
         work'[w] # Idle => work'[w].job.updated <= clock /\ ReadOK(work[w])'
  PROVE  BaseInv' /\ NoReturn
<1>1. /\ NoReturn /\ clock' \in Nat /\ clock <= clock' /\ clock \in Nat
      /\ \A k \in Key : object'[k] # None => object'[k].updated <= clock'
  BY GenerationsPass DEF BaseInv, PipeTypeOK
<1>2. \A i \in DOMAIN jobs' : i.updated <= clock /\ i.updated \in Nat
  BY Fields DEF BaseInv, ClockInv, PipeTypeOK
<1>3. \A i \in DOMAIN jobs' : i.updated <= clock'
  BY <1>1, <1>2
<1>4. ASSUME NEW v \in Running'
      PROVE  Id(v)'.updated <= clock' /\ ReadOK(work[v])'
  <2>1. CASE v = w
    <3>1. work'[w] # Idle /\ work'[w] \in WorkRow
      BY <1>4, <2>1 DEF Running, PipeTypeOK
    <3>2. work'[w].job.updated \in Nat
      BY <3>1, Fields
    <3>3. QED
      BY <1>1, <2>1, <3>1, <3>2 DEF Id
  <2>2. CASE v # w
    <3>1. v \in Running /\ work'[v] = work[v]
      BY <1>4, <2>2 DEF Running
    <3>2. /\ work[v] \in WorkRow /\ work[v].job \in JobId
          /\ work[v].job.updated \in Nat /\ work[v].job.updated <= clock
      BY <3>1, Busy, Fields DEF BaseInv, Running, ClockInv, Id
    <3>3. IsCurrent(work[v].job)' => IsCurrent(work[v].job)
      BY <1>1, <3>1, <3>2 DEF NoReturn
    <3>4. ReadOK(work[v])
      BY <3>1 DEF BaseInv, ReadInv
    <3>5. QED
      BY <1>1, <3>1, <3>2, <3>3, <3>4 DEF ReadOK, Id
  <2>3. QED
    BY <2>1, <2>2
<1>5. QED
  BY <1>1, <1>3, <1>4 DEF BaseInv, ClockInv, ReadInv

\* The rows a run moves on to, and what they keep.
MovedRow(q, n, op) ==
  n \in WorkRow /\ n.op = op /\ n.job = q.job /\ n.read = q.read /\ n.result = q.result

LEMMA RowMoves ==
  ASSUME NEW q \in WorkRow, NEW op \in RunOp
  PROVE  /\ MovedRow(q, [q EXCEPT !.op = op], op)
         /\ [q EXCEPT !.op = op].next = q.next
<1>1. [q EXCEPT !.op = op] \in WorkRow
  BY RunTypes
<1>2. QED
  BY <1>1 DEF MovedRow, WorkRow

LEMMA RowAdvances ==
  ASSUME NEW q \in WorkRow
  PROVE  /\ MovedRow(q, [q EXCEPT !.next = @ + 1], q.op)
         /\ [q EXCEPT !.next = @ + 1].next = q.next + 1
<1>1. [q EXCEPT !.next = @ + 1] \in WorkRow
  BY RunTypes
<1>2. QED
  BY <1>1 DEF MovedRow, WorkRow

LEMMA RowReloads ==
  ASSUME NEW q \in WorkRow, NEW a \in AttributeRow \cup {None}, NEW n,
         n = [q EXCEPT !.op = "embed", !.attributes = a]
  PROVE  MovedRow(q, n, "embed")
<1>1. n \in WorkRow
  BY RunTypes
<1>2. QED
  BY <1>1 DEF MovedRow, WorkRow

\* Only a plugin's delete touches the index, and no run changes the clock.
LEMMA RunObjects ==
  ASSUME PipeTypeOK, NEW w \in Worker, work[w] \in WorkRow, RunKinds(w)
  PROVE  ObjectStep /\ DOMAIN jobs' = DOMAIN jobs /\ UNCHANGED <<upload, clock>>
<1>1. Id(w) \in JobId /\ Id(w).key \in Key /\ work[w].attempts \in Int /\ work[w].result \in ResultRow
  BY Fields DEF Id
<1>2. CASE RunDeletes(w)
  BY <1>1, <1>2 DEF RunDeletes, WithoutRow, ObjectStep, Operates
<1>3. CASE RunFinishes(w)
  <2>1. jobs' = Saved(Id(w), "succeeded", work[w].attempts, work[w].result)
    BY <1>3 DEF RunFinishes, Settle, Id
  <2>2. DOMAIN jobs' = DOMAIN jobs
    BY <1>1, <2>1, SavedTypes
  <2>3. QED
    BY <1>3, <2>2 DEF RunFinishes, ObjectStep, Quiet, Still
<1>4. CASE RunEnds(w)
  BY <1>4 DEF RunEnds, Ends, ObjectStep, Quiet, Still
<1>5. CASE RunEmbeds(w)
  BY <1>5 DEF RunEmbeds, Embedded, ObjectStep
<1>6. CASE ~ RunDeletes(w) /\ ~ RunFinishes(w) /\ ~ RunEnds(w) /\ ~ RunEmbeds(w)
  <2>1. Still /\ UNCHANGED jobs
    BY <1>6 DEF RunKinds, RunLoads, RunReads, RunReloads, RunIndexes, RunSaves, RunDerives,
                RunPatches, RunCopies, Moves, Operates, Quiet
  <2>2. QED
    BY <2>1 DEF Still, ObjectStep
<1>7. QED
  BY <1>2, <1>3, <1>4, <1>5, <1>6

\* A run goes on with the job it has, or ends; no other worker moves.
LEMMA RunRows ==
  ASSUME PipeTypeOK, NEW w \in Worker, work[w] \in WorkRow, RunKinds(w)
  PROVE  /\ \A v \in Worker : v # w => work'[v] = work[v]
         /\ work'[w] = Idle \/ (work'[w] \in WorkRow /\ work'[w].job = work[w].job)
<1> DEFINE q == work[w]
<1>1. CASE work' = [work EXCEPT ![w] = Idle]
  BY <1>1, WorkTypes
<1>2. ASSUME NEW n \in WorkRow, work' = [work EXCEPT ![w] = n], n.job = q.job
      PROVE  /\ \A v \in Worker : v # w => work'[v] = work[v]
             /\ work'[w] \in WorkRow /\ work'[w].job = q.job
  BY <1>2, WorkTypes
<1>3. CASE RunEnds(w) \/ RunFinishes(w)
  BY <1>1, <1>3 DEF RunEnds, Ends, RunFinishes, Settle, Becomes
<1>4. CASE RunReads(w)
  <2>1. PICK r \in ResultRow : work' = [work EXCEPT ![w] =
           [q EXCEPT !.op = "reload", !.read = Source(w).body, !.result = r]]
    BY <1>4 DEF RunReads
  <2>2. q.job.key \in Key
    BY Fields
  <2>3. PICK b \in Nat : b = Source(w).body
    BY <1>4, <2>2, Busy, EmptyIsNoRow DEF RunReads, Source, Id
  <2>4. PICK n : n = [q EXCEPT !.op = "reload", !.read = b, !.result = r]
    OBVIOUS
  <2>5. n \in WorkRow /\ n.job = q.job
    BY <2>4 DEF WorkRow, RunOp
  <2>6. QED
    BY <1>2, <2>1, <2>3, <2>4, <2>5
<1>5. CASE RunReloads(w)
  <2>1. attributes[Id(w).key] \in AttributeRow \cup {None}
    BY Fields DEF PipeTypeOK, Id
  <2>2. PICK n : n = [q EXCEPT !.op = "embed", !.attributes = attributes[Id(w).key]]
    OBVIOUS
  <2>3. n \in WorkRow /\ n.job = q.job
    BY <2>1, <2>2, RowReloads DEF MovedRow
  <2>4. QED
    BY <1>2, <1>5, <2>2, <2>3 DEF RunReloads
<1>6. CASE RunLoads(w) \/ RunEmbeds(w) \/ RunIndexes(w) \/ RunSaves(w) \/ RunDerives(w)
  <2>1. PICK op \in RunOp : work' = [work EXCEPT ![w] = [q EXCEPT !.op = op]]
    BY <1>6 DEF RunLoads, RunEmbeds, Embedded, Goes, Becomes, RunIndexes, RunSaves, RunDerives,
                Moves, RunOp
  <2> DEFINE n == [q EXCEPT !.op = op]
  <2>2. n \in WorkRow /\ n.job = q.job
    BY RowMoves DEF MovedRow
  <2>3. work' = [work EXCEPT ![w] = n]
    BY <2>1
  <2> HIDE DEF n
  <2>4. QED
    BY <1>2, <2>2, <2>3
<1>7. CASE RunPatches(w) \/ RunCopies(w) \/ RunDeletes(w)
  <2> DEFINE n == [q EXCEPT !.next = @ + 1]
  <2>1. work' = [work EXCEPT ![w] = n]
    BY <1>7 DEF RunPatches, RunCopies, RunDeletes, Operates
  <2>2. n \in WorkRow /\ n.job = q.job
    BY RowAdvances DEF MovedRow
  <2> HIDE DEF n
  <2>3. QED
    BY <1>2, <2>1, <2>2
<1>8. QED
  BY <1>3, <1>4, <1>5, <1>6, <1>7 DEF RunKinds

LEMMA RunKeepsBase ==
  ASSUME BaseInv, NEW w \in Worker, work[w] \in WorkRow, RunKinds(w)
  PROVE  BaseInv' /\ NoReturn
<1> DEFINE q == work[w]
<1>1. PipeTypeOK /\ PipeTypeOK' /\ ObjectStep /\ DOMAIN jobs' = DOMAIN jobs
  BY RunKeepsTypes, RunObjects DEF BaseInv
<1>2. w \in Running /\ q.job \in JobId /\ q.job.key \in Key /\ q.job.updated <= clock /\ ReadOK(q)
      /\ q.next \in Nat
  BY EmptyIsNoRow, Fields DEF BaseInv, ClockInv, ReadInv, Running, Id
<1>3. \A i \in JobId : i.updated <= clock /\ IsCurrent(i)' => IsCurrent(i)
  BY <1>1, GenerationsPass DEF BaseInv, NoReturn
<1>4. IsCurrent(q.job)' /\ work'[w].job = q.job => IsCurrent(q.job)
  <2>1. PICK i \in JobId : i = q.job
    BY <1>2
  <2>2. IsCurrent(work[w].job)' /\ work'[w].job = i => IsCurrent(i)'
    BY DEF IsCurrent
  <2>3. QED
    BY <1>2, <1>3, <2>1, <2>2
<1>5. CASE work' = [work EXCEPT ![w] = Idle]
  <2>1. work'[w] = Idle /\ \A v \in Worker : v # w => work'[v] = work[v]
    BY <1>1, <1>5, WorkTypes
  <2>2. QED
    BY <1>1, <2>1, BaseWork
<1>6. ASSUME NEW n \in WorkRow, work' = [work EXCEPT ![w] = n], n.job = q.job,
             \/ n.op \in {"execute", "load"}
             \/ n.read = q.read /\ n.op \in RunOp /\ q.op \notin {"load", "execute"}
             \/ object' = object /\ n.read = object[q.job.key].body
      PROVE  BaseInv' /\ NoReturn
  <2>1. work'[w] = n /\ \A v \in Worker : v # w => work'[v] = work[v]
    BY <1>1, <1>6, WorkTypes
  <2>2. ReadOK(work[w])'
    <3>1. SUFFICES ASSUME n.op \notin {"load", "execute"}, IsCurrent(work[w].job)'
                   PROVE  n.read = n.job.body
      BY <2>1 DEF ReadOK
    <3>2. IsCurrent(q.job)
      BY <1>4, <1>6, <2>1, <3>1
    <3>3. CASE n.read = q.read /\ q.op \notin {"load", "execute"}
      BY <1>2, <1>6, <3>2, <3>3, Fields DEF ReadOK, RunOp
    <3>4. CASE n.read = object[q.job.key].body
      BY <1>6, <3>2, <3>4 DEF IsCurrent, SameGeneration
    <3>5. QED
      BY <1>6, <3>1, <3>3, <3>4
  <2>3. QED
    BY <1>1, <1>2, <1>6, <2>1, <2>2, BaseWork
<1>7. CASE RunEnds(w) \/ RunFinishes(w)
  BY <1>5, <1>7 DEF RunEnds, Ends, RunFinishes, Settle, Becomes
<1>8. CASE RunLoads(w)
  <2> DEFINE n == [q EXCEPT !.op = "execute"]
  <2>1. n \in WorkRow /\ n.job = q.job /\ n.op = "execute"
    BY RowMoves DEF MovedRow, RunOp
  <2>2. work' = [work EXCEPT ![w] = n]
    BY <1>8 DEF RunLoads, Moves
  <2> HIDE DEF n
  <2>3. QED
    BY <1>6, <2>1, <2>2
<1>9. CASE RunReads(w)
  <2>1. PICK r \in ResultRow : work' = [work EXCEPT ![w] =
           [q EXCEPT !.op = "reload", !.read = Source(w).body, !.result = r]]
    BY <1>9 DEF RunReads
  <2>2. Source(w).body = object[q.job.key].body /\ Source(w).body \in Nat /\ object' = object
    BY <1>1, <1>2, <1>9, Busy, EmptyIsNoRow DEF RunReads, Source, Id, Quiet, Still
  <2>3. PICK b \in Nat : b = Source(w).body
    BY <2>2
  <2>4. PICK n : n = [q EXCEPT !.op = "reload", !.read = b, !.result = r]
    OBVIOUS
  <2>5. n \in WorkRow /\ n.job = q.job /\ n.read = b
    BY <2>4 DEF WorkRow, RunOp
  <2>6. work' = [work EXCEPT ![w] = n]
    BY <2>1, <2>3, <2>4
  <2>7. QED
    BY <1>6, <2>2, <2>3, <2>5, <2>6
<1>10. CASE RunReloads(w)
  <2>1. attributes[Id(w).key] \in AttributeRow \cup {None}
    BY <1>1, <1>2 DEF PipeTypeOK, Id
  <2>2. PICK n : n = [q EXCEPT !.op = "embed", !.attributes = attributes[Id(w).key]]
    OBVIOUS
  <2>3. n \in WorkRow /\ n.job = q.job /\ n.read = q.read /\ n.op = "embed"
    BY <2>1, <2>2, RowReloads DEF MovedRow
  <2>4. q.op = "reload" /\ work' = [work EXCEPT ![w] = n]
    BY <1>10, <2>2 DEF RunReloads, At
  <2>5. QED
    BY <1>6, <2>3, <2>4 DEF RunOp
<1>11. CASE RunEmbeds(w)
  <2>1. PICK op \in RunOp : work' = [work EXCEPT ![w] = [q EXCEPT !.op = op]]
    BY <1>11 DEF RunEmbeds, Embedded, Goes, Becomes, RunOp
  <2> DEFINE n == [q EXCEPT !.op = op]
  <2>2. n \in WorkRow /\ n.job = q.job /\ n.read = q.read /\ n.op = op
    BY RowMoves DEF MovedRow
  <2>3. work' = [work EXCEPT ![w] = n]
    BY <2>1
  <2>4. q.op \in {"embed"}
    BY <1>11 DEF RunEmbeds, Embedded, Goes, Becomes, At
  <2> HIDE DEF n
  <2>5. QED
    BY <1>6, <2>2, <2>3, <2>4
<1>12. CASE RunIndexes(w) \/ RunSaves(w) \/ RunDerives(w)
  <2>1. PICK op \in RunOp : work' = [work EXCEPT ![w] = [q EXCEPT !.op = op]]
    BY <1>12 DEF RunIndexes, RunSaves, RunDerives, Moves, RunOp
  <2> DEFINE n == [q EXCEPT !.op = op]
  <2>2. n \in WorkRow /\ n.job = q.job /\ n.read = q.read /\ n.op = op
    BY RowMoves DEF MovedRow
  <2>3. work' = [work EXCEPT ![w] = n]
    BY <2>1
  <2>4. q.op \in {"index", "attributes", "derive"}
    BY <1>12 DEF RunIndexes, RunSaves, RunDerives, Moves, At
  <2> HIDE DEF n
  <2>5. QED
    BY <1>6, <2>2, <2>3, <2>4
<1>13. CASE RunPatches(w) \/ RunCopies(w) \/ RunDeletes(w)
  <2> DEFINE n == [q EXCEPT !.next = @ + 1]
  <2>1. work' = [work EXCEPT ![w] = n] /\ q.op = "operate"
    BY <1>13 DEF RunPatches, RunCopies, RunDeletes, Operates, At
  <2>2. n \in WorkRow /\ n.job = q.job /\ n.read = q.read /\ n.op = q.op
    BY RowAdvances DEF MovedRow
  <2> HIDE DEF n
  <2>3. QED
    BY <1>6, <2>1, <2>2 DEF RunOp
<1>14. QED
  BY <1>7, <1>8, <1>9, <1>10, <1>11, <1>12, <1>13 DEF RunKinds

\* An upload only adds jobs, pending and for the updated_at its key has, as
\* its last step.
LEMMA JobsOfUpload ==
  ASSUME PipeTypeOK, NEW u \in Uploader, UploadStep(u) \/ CancelUpload(u)
  PROVE  /\ upload[u] # Idle /\ upload[u].key \in Key
         /\ \A v \in Uploader : v # u => upload'[v] = upload[v]
         /\ upload'[u] # Idle => jobs' = jobs /\ upload'[u].key = upload[u].key
         /\ DOMAIN jobs \subseteq DOMAIN jobs'
         /\ \A i \in DOMAIN jobs : jobs'[i] = jobs[i]
         /\ \A i \in DOMAIN jobs' \ DOMAIN jobs :
              /\ i.key = upload[u].key /\ object[i.key] # None
              /\ i.updated = object[i.key].updated /\ jobs'[i].status = "pending"
<1>1. upload[u] \in UploadRow /\ upload[u] # Idle
  <2>1. Idle.op = "idle"
    BY DEF Idle
  <2>2. upload[u] # Idle
    BY <2>1 DEF UploadStep, CancelUpload, Invalidate, PutAttributes, EnqueueWASMPlugins
  <2>3. QED
    BY <2>2, Busy
<1>2. upload[u].key \in Key /\ upload \in [Uploader -> UploadRow \cup {Idle}]
  BY <1>1, Fields DEF PipeTypeOK
<1>3. PICK q : /\ upload' = [upload EXCEPT ![u] = q]
               /\ q \in {Idle, [upload[u] EXCEPT !.op = "attributes"],
                         [upload[u] EXCEPT !.op = "enqueue"]}
  BY DEF UploadStep, CancelUpload, Invalidate, PutAttributes, EnqueueWASMPlugins
<1>4. upload'[u] = q /\ \A v \in Uploader : v # u => upload'[v] = upload[v]
  BY <1>2, <1>3
<1>5. q # Idle => q.key = upload[u].key
  BY <1>1, <1>3 DEF UploadRow
<1>6. CASE UNCHANGED jobs
  BY <1>1, <1>2, <1>4, <1>5, <1>6
<1>7. CASE ~ UNCHANGED jobs
  <2> DEFINE k == upload[u].key
             J == NewJobs(k, upload[u].body)
  <2>1. jobs' = Enqueued(J) /\ object[k] # None /\ upload' = [upload EXCEPT ![u] = Idle]
    BY <1>7 DEF UploadStep, CancelUpload, Invalidate, PutAttributes, EnqueueWASMPlugins
  <2>2. \A i \in J : i.key = k /\ i.updated = object[k].updated
    BY DEF NewJobs
  <2> HIDE DEF J
  <2>3. /\ DOMAIN jobs' = DOMAIN jobs \cup J
        /\ \A i \in DOMAIN jobs' : jobs'[i] = IF i \in DOMAIN jobs THEN jobs[i] ELSE NewJob
    BY <2>1 DEF Enqueued
  <2>4. upload'[u] = Idle
    BY <1>2, <2>1
  <2>5. QED
    BY <1>1, <1>2, <1>4, <2>1, <2>2, <2>3, <2>4, EmptyResult
<1>8. QED
  BY <1>6, <1>7

LEMMA BaseStep ==
  ASSUME BaseInv, [PipeNext]_pipeVars
  PROVE  BaseInv' /\ NoReturn
<1>1. PipeTypeOK /\ clock \in Nat
  BY DEF BaseInv, PipeTypeOK
<1>2. ASSUME NEW u \in Uploader, NEW k \in Key, NEW b \in 1 .. (uploads + 1), PutRow(u, k, b)
      PROVE  BaseInv' /\ NoReturn
  <2>1. PipeTypeOK' /\ ObjectStep
    BY <1>1, <1>2, PutRowTypes
  <2>2. UNCHANGED <<work, jobs>>
    BY <1>2 DEF PutRow
  <2>3. QED
    BY <2>1, <2>2, BaseFrame
<1>3. ASSUME NEW u \in Uploader, UploadStep(u) \/ CancelUpload(u)
      PROVE  BaseInv' /\ NoReturn
  <2>1. PipeTypeOK' /\ ObjectStep /\ UNCHANGED work
    BY <1>1, <1>3, UploadStepTypes DEF ObjectStep
  <2>2. \A i \in DOMAIN jobs' : i \in DOMAIN jobs \/ i.updated <= clock
    <3>1. SUFFICES ASSUME NEW i \in DOMAIN jobs' \ DOMAIN jobs PROVE i.updated <= clock
      OBVIOUS
    <3>2. /\ i.key = upload[u].key /\ upload[u].key \in Key
          /\ object[i.key] # None /\ i.updated = object[i.key].updated
      BY <1>1, <1>3, <3>1, JobsOfUpload
    <3>3. QED
      BY <3>2 DEF BaseInv, ClockInv
  <2>3. QED
    BY <2>1, <2>2, BaseFrame
<1>4. ASSUME NEW k \in Key,
             \/ DeleteObject(k) \/ RefreshReplicaStatus(k)
             \/ TellProducer(k) \/ ImportObjectEmbeddings(k) \/ IndexImported(k)
      PROVE  BaseInv' /\ NoReturn
  <2>1. PipeTypeOK' /\ ObjectStep /\ UNCHANGED <<work, jobs>>
    BY <1>1, <1>4, RowTypes, ProducerTypes DEF ObjectStep
  <2>2. QED
    BY <2>1, BaseFrame
<1>5. ASSUME NEW w \in Worker, NEW i \in DOMAIN jobs, ClaimNextWASMPluginJob(w, i)
      PROVE  BaseInv' /\ NoReturn
  <2>1. /\ PipeTypeOK' /\ ObjectStep /\ DOMAIN jobs' = DOMAIN jobs
        /\ \A v \in Worker : v # w => work'[v] = work[v]
        /\ work'[w].op = "load" /\ work'[w].job = i
    BY <1>1, <1>5, ClaimTypes DEF ObjectStep
  <2>2. work'[w].job.updated <= clock /\ ReadOK(work[w])'
    BY <2>1 DEF BaseInv, ClockInv, ReadOK
  <2>3. QED
    BY <2>1, <2>2, BaseWork
<1>6. ASSUME NEW w \in Worker, RunStep(w) \/ Crash(w) \/ CrashIndexing(w)
      PROVE  BaseInv' /\ NoReturn
  BY <1>1, <1>6, RunStepKinds, RunKeepsBase
<1>7. ASSUME NEW i \in DOMAIN jobs, RecoverStaleWASMPluginJobs(i)
      PROVE  BaseInv' /\ NoReturn
  <2>1. PipeTypeOK' /\ ObjectStep /\ UNCHANGED work /\ DOMAIN jobs' = DOMAIN jobs
    BY <1>1, <1>7, RecoverTypes DEF ObjectStep
  <2>2. QED
    BY <2>1, BaseFrame
<1>8. ASSUME NEW p \in Plugin,
             UpsertWASMPlugin(p, "enabled") \/ UpsertWASMPlugin(p, "disabled") \/ DeleteWASMPlugin(p)
      PROVE  BaseInv' /\ NoReturn
  <2>1. PipeTypeOK' /\ ObjectStep /\ UNCHANGED work /\ DOMAIN jobs' \subseteq DOMAIN jobs
    BY <1>1, <1>8, PluginTypes DEF ObjectStep
  <2>2. QED
    BY <2>1, BaseFrame
<1>9. ASSUME NEW b \in Backends, Restart(b)
      PROVE  BaseInv' /\ NoReturn
  <2>1. PipeTypeOK' /\ ObjectStep /\ UNCHANGED <<work, jobs>>
    BY <1>1, <1>9, RestartTypes DEF ObjectStep
  <2>2. QED
    BY <2>1, BaseFrame
<1>10. CASE UNCHANGED pipeVars
  <2>1. PipeTypeOK' /\ ObjectStep /\ UNCHANGED <<work, jobs>>
    BY <1>1, <1>10 DEF pipeVars, vecVars, ObjectStep, PipeTypeOK
  <2>2. QED
    BY <2>1, BaseFrame
<1>11. QED
  BY <1>2, <1>3, <1>4, <1>5, <1>6, <1>7, <1>8, <1>9, <1>10 DEF PipeNext

LEMMA BaseHolds == PipeInit => BaseInv
<1>1. SUFFICES ASSUME PipeInit PROVE BaseInv
  OBVIOUS
<1>2. /\ object = [k \in Key |-> None] /\ attributes = [k \in Key |-> None]
      /\ made = [t \in Target |-> 0] /\ jobs = << >>
      /\ upload = [u \in Uploader |-> Idle] /\ work = [w \in Worker |-> Idle]
      /\ clock = 0 /\ uploads = 0 /\ hnsw = [p \in Maker |-> "none"]
  BY <1>1 DEF PipeInit, VecInit
<1>3. DOMAIN jobs = {}
  BY <1>2
<1>4. PipeTypeOK
  <2>1. jobs \in [DOMAIN jobs -> JobRow]
    BY <1>2, <1>3
  <2>2. QED
    BY <1>2, <1>3, <2>1 DEF PipeTypeOK
<1>5. Running = {}
  BY <1>2 DEF Running
<1>6. ClockInv /\ ReadInv
  BY <1>2, <1>3, <1>5 DEF ClockInv, ReadInv
<1>7. QED
  BY <1>4, <1>6 DEF BaseInv

-----------------------------------------------------------------------------
(* The vectors.                                                            *)

\* What a step may do to the tables of vectors.
Deletes == \E gone : DeleteEmbeddings(gone)
Replaces ==
  \E k \in Key, p \in Maker : \E b, rows : rows \subseteq {Vector(k, p, b)} /\ ReplaceEmbeddings(k, p, rows)
VecStep ==
  \/ UNCHANGED <<embeddings, vectors, backend>>
  \/ Deletes
  \/ Replaces
  \/ \E b : OpenStore(b)

LEMMA VecSteps ==
  ASSUME BaseInv, [PipeNext]_pipeVars
  PROVE  VecStep
<1>1. PipeTypeOK
  BY DEF BaseInv
<1>2. ASSUME NEW u \in Uploader, NEW k \in Key, NEW b \in 1 .. (uploads + 1), PutRow(u, k, b)
      PROVE  VecStep
  BY <1>2 DEF PutRow, vecVars, VecStep
<1>3. ASSUME NEW u \in Uploader, UploadStep(u) \/ CancelUpload(u)
      PROVE  VecStep
  BY <1>3 DEF UploadStep, CancelUpload, Invalidate, PutAttributes, EnqueueWASMPlugins, vecVars,
              VecStep, Deletes
<1>4. ASSUME NEW k \in Key,
             \/ DeleteObject(k) \/ RefreshReplicaStatus(k)
             \/ TellProducer(k) \/ ImportObjectEmbeddings(k) \/ IndexImported(k)
      PROVE  VecStep
  <2>1. CASE DeleteObject(k)
    BY <2>1 DEF DeleteObject, WithoutRow, VecStep, Deletes
  <2>2. CASE RefreshReplicaStatus(k) \/ TellProducer(k)
    BY <2>2 DEF RefreshReplicaStatus, TellProducer, vecVars, VecStep
  <2>3. CASE ImportObjectEmbeddings(k)
    <3>1. CASE UNCHANGED vecVars
      BY <3>1 DEF vecVars, VecStep
    <3>2. CASE ReplaceEmbeddings(k, Producer, {Vector(k, Producer, told[k].body)})
      BY <3>2, PluginsMake DEF VecStep, Replaces
    <3>3. QED
      BY <2>3, <3>1, <3>2 DEF ImportObjectEmbeddings
  <2>4. CASE IndexImported(k)
    BY <1>1, <2>4, PluginsMake, IndexTypes DEF IndexImported, VecStep
  <2>5. QED
    BY <1>4, <2>1, <2>2, <2>3, <2>4
<1>5. ASSUME NEW w \in Worker, NEW i \in DOMAIN jobs, ClaimNextWASMPluginJob(w, i)
      PROVE  VecStep
  BY <1>1, <1>5, ClaimTypes DEF VecStep
<1>6. ASSUME NEW w \in Worker, RunStep(w) \/ Crash(w) \/ CrashIndexing(w)
      PROVE  VecStep
  <2>1. work[w] \in WorkRow /\ RunKinds(w)
    BY <1>1, <1>6, RunStepKinds
  <2>2. CASE RunEmbeds(w)
    <3>1. Id(w).key \in Key /\ Id(w).plugin \in Maker
      BY <2>1, Fields, PluginsMake DEF Id
    <3>2. Vectors(w) \subseteq {Vector(Id(w).key, Id(w).plugin, work[w].read)}
      BY DEF Vectors
    <3>3. ReplaceEmbeddings(Id(w).key, Id(w).plugin, Vectors(w))
      BY <2>2 DEF RunEmbeds, Embedded
    <3>4. QED
      BY <3>1, <3>2, <3>3 DEF VecStep, Replaces
  <2>3. CASE RunDeletes(w)
    BY <2>3 DEF RunDeletes, WithoutRow, VecStep, Deletes
  <2>4. CASE ~ RunEmbeds(w) /\ ~ RunDeletes(w)
    <3>1. Still
      BY <2>1, <2>4 DEF RunKinds, RunEnds, RunLoads, RunReads, RunReloads, RunIndexes, RunSaves,
                        RunDerives, RunPatches, RunCopies, RunFinishes, Quiet
    <3>2. QED
      BY <3>1 DEF Still, VecStep
  <2>5. QED
    BY <2>2, <2>3, <2>4
<1>7. ASSUME NEW i \in DOMAIN jobs, RecoverStaleWASMPluginJobs(i)
      PROVE  VecStep
  BY <1>1, <1>7, RecoverTypes DEF VecStep
<1>8. ASSUME NEW p \in Plugin,
             UpsertWASMPlugin(p, "enabled") \/ UpsertWASMPlugin(p, "disabled") \/ DeleteWASMPlugin(p)
      PROVE  VecStep
  BY <1>1, <1>8, PluginTypes DEF VecStep, Deletes, vecVars
<1>9. ASSUME NEW b \in Backends, Restart(b)
      PROVE  VecStep
  BY <1>9 DEF Restart, VecStep
<1>10. CASE UNCHANGED pipeVars
  BY <1>10 DEF pipeVars, vecVars, VecStep
<1>11. QED
  BY <1>2, <1>3, <1>4, <1>5, <1>6, <1>7, <1>8, <1>9, <1>10 DEF PipeNext

LEMMA SideStep ==
  ASSUME SideInv, VecStep, Mixed = FALSE
  PROVE  SideInv'
<1>1. CASE UNCHANGED <<embeddings, vectors, backend>>
  BY <1>1 DEF SideInv
<1>2. CASE Deletes
  BY <1>2 DEF Deletes, DeleteEmbeddings, SideInv
<1>3. CASE Replaces
  <2>0. PICK k \in Key, p \in Maker :
          \E b, rows : rows \subseteq {Vector(k, p, b)} /\ ReplaceEmbeddings(k, p, rows)
    BY <1>3 DEF Replaces
  <2>1. PICK b, rows : rows \subseteq {Vector(k, p, b)} /\ ReplaceEmbeddings(k, p, rows)
    BY <2>0
  <2>2. Vector(k, p, b).key = k /\ Vector(k, p, b).plugin = p
    BY DEF Vector
  <2>3. PICK new : /\ new = IF backend = "exact" THEN {} ELSE rows
                   /\ vectors' = Others(vectors, k, p) \cup new
                   /\ embeddings' = Others(embeddings, k, p) \cup rows /\ backend' = backend
    BY <2>1 DEF ReplaceEmbeddings, Inserted
  <2>4. \A e \in rows : e = Vector(k, p, b)
    BY <2>1
  <2>5. vectors' \subseteq embeddings' /\ (backend' # "exact" => vectors' = embeddings')
    BY <2>3 DEF SideInv, Others
  <2>6. \A e, f \in embeddings' : e.key = f.key /\ e.plugin = f.plugin => e = f
    BY <2>2, <2>3, <2>4 DEF SideInv, Others
  <2>7. QED
    BY <2>3, <2>5, <2>6 DEF SideInv
<1>4. CASE \E b : OpenStore(b)
  <2>1. embeddings' = embeddings
    BY <1>4 DEF OpenStore, ConfigurePGVector, ConfigureTursoVectors, ConfigureExact
  <2>2. CASE ConfigurePGVector \/ ConfigureTursoVectors
    BY <2>1, <2>2 DEF ConfigurePGVector, ConfigureTursoVectors, BackfillPGVectors,
                      BackfillTursoVectors, SideInv
  <2>3. CASE ConfigureExact
    BY <2>1, <2>3 DEF ConfigureExact, SideInv
  <2>4. QED
    BY <1>4, <2>2, <2>3 DEF OpenStore
<1>5. QED
  BY <1>1, <1>2, <1>3, <1>4 DEF VecStep

\* What keeps a vector of key k as current as it was.
Kept(k) ==
  /\ \A u \in Uploader : upload[u] # Idle /\ upload[u].key = k /\ upload[u].op = "invalidate"
       => upload'[u] = upload[u]
  /\ object[k] # None => object'[k] # None /\ object'[k].body = object[k].body

LEMMA VectorFrame ==
  ASSUME StoredIsCurrent, \A e \in embeddings' : (e \in embeddings /\ Kept(e.key)) \/ VectorOK(e)'
  PROVE  StoredIsCurrent'
<1>1. SUFFICES ASSUME NEW e \in embeddings', e \in embeddings, Kept(e.key)
               PROVE  VectorOK(e)'
  BY DEF StoredIsCurrent
<1>2. VectorOK(e)
  BY <1>1 DEF StoredIsCurrent
<1>3. QED
  BY <1>1, <1>2 DEF VectorOK, Kept, Uploading

\* An upload of another key, or past its invalidation, does not matter.
LEMMA KeptByUpload ==
  ASSUME PipeTypeOK, NEW u \in Uploader, NEW k,
         \A v \in Uploader : v # u => upload'[v] = upload[v],
         UNCHANGED object,
         upload[u].op = "invalidate" /\ upload[u].key = k => upload'[u] = upload[u]
  PROVE  Kept(k)
BY DEF Kept

LEMMA StoredStep ==
  ASSUME BaseInv, StoredIsCurrent, [PipeNext]_pipeVars, "cancel" \notin Hazards
  PROVE  StoredIsCurrent'
<1>1. /\ PipeTypeOK /\ object \in [Key -> ObjectRow \cup {None}]
      /\ upload \in [Uploader -> UploadRow \cup {Idle}]
  BY DEF BaseInv, PipeTypeOK
<1>2. \A e \in embeddings : e.key \in Key /\ e.plugin \in Maker /\ VectorOK(e)
  BY DEF StoredIsCurrent, VectorOK
<1>3. ASSUME UNCHANGED <<object, upload>>, embeddings' \subseteq embeddings
      PROVE  StoredIsCurrent'
  BY <1>3, VectorFrame DEF Kept
<1>4. ASSUME NEW u \in Uploader, NEW k \in Key, NEW b \in 1 .. (uploads + 1), PutRow(u, k, b)
      PROVE  StoredIsCurrent'
  <2> DEFINE q == [op |-> IF object[k] = None THEN "attributes" ELSE "invalidate",
                   key |-> k, body |-> b, upload |-> uploads + 1]
  <2>1. /\ upload[u] = Idle /\ upload' = [upload EXCEPT ![u] = q] /\ embeddings' = embeddings
        /\ \A j \in Key : j # k => object'[j] = object[j]
    BY <1>1, <1>4 DEF PutRow, vecVars
  <2>2. q.key = k /\ (object[k] # None => q.op = "invalidate") /\ q # Idle
    <3>1. "key" \in DOMAIN q /\ "key" \notin DOMAIN Idle
      BY DEF Idle
    <3>2. q # Idle
      BY <3>1
    <3>3. q.key = k /\ (object[k] # None => q.op = "invalidate")
      OBVIOUS
    <3>4. QED
      BY <3>2, <3>3
  <2> HIDE DEF q
  <2>3. upload'[u] = q /\ \A v \in Uploader : v # u => upload'[v] = upload[v]
    BY <1>1, <2>1
  <2>4. ASSUME NEW e \in embeddings
        PROVE  Kept(e.key) \/ VectorOK(e)'
    <3>1. CASE e.key # k
      BY <1>2, <2>1, <2>3, <3>1 DEF Kept
    <3>2. CASE e.key = k /\ object[k] # None
      BY <1>2, <2>2, <2>3, <3>2 DEF VectorOK, Uploading
    <3>3. CASE e.key = k /\ object[k] = None
      BY <2>1, <2>3, <3>3 DEF Kept
    <3>4. QED
      BY <3>1, <3>2, <3>3
  <2>5. QED
    BY <2>1, <2>4, VectorFrame
<1>5. ASSUME NEW u \in Uploader, UploadStep(u) \/ CancelUpload(u)
      PROVE  StoredIsCurrent'
  <2>1. UNCHANGED object /\ \A v \in Uploader : v # u => upload'[v] = upload[v]
    BY <1>1, <1>5, UploadStepTypes, JobsOfUpload
  <2>2. CASE Invalidate(u)
    <3>1. embeddings' = embeddings \ {e \in embeddings : e.key = upload[u].key}
      BY <2>2 DEF Invalidate, DeleteEmbeddings
    <3>2. \A e \in embeddings' : e \in embeddings /\ Kept(e.key)
      BY <1>1, <2>1, <3>1, KeptByUpload
    <3>3. QED
      BY <3>2, VectorFrame
  <2>3. CASE ~ Invalidate(u)
    <3>1. embeddings' = embeddings
      BY <1>5, <2>3 DEF UploadStep, CancelUpload, PutAttributes, EnqueueWASMPlugins, vecVars
    <3>2. upload[u].op # "invalidate"
      BY <1>5, <2>3 DEF UploadStep, CancelUpload, PutAttributes, EnqueueWASMPlugins
    <3>3. \A e \in embeddings' : e \in embeddings /\ Kept(e.key)
      BY <1>1, <2>1, <3>1, <3>2, KeptByUpload
    <3>4. QED
      BY <3>3, VectorFrame
  <2>4. QED
    BY <2>2, <2>3
<1>6. ASSUME NEW k \in Key, WithoutRow(k), UNCHANGED upload
      PROVE  StoredIsCurrent'
  <2>1. \A e \in embeddings' : e \in embeddings /\ e.key # k
    BY <1>6 DEF WithoutRow, DeleteEmbeddings
  <2>2. \A j \in Key : j # k => object'[j] = object[j]
    BY <1>1, <1>6 DEF WithoutRow
  <2>3. \A e \in embeddings' : e \in embeddings /\ Kept(e.key)
    BY <1>2, <1>6, <2>1, <2>2 DEF Kept
  <2>4. QED
    BY <2>3, VectorFrame
<1>7. ASSUME NEW k \in Key, NEW p \in Maker, NEW b, NEW rows \in SUBSET {Vector(k, p, b)},
             ReplaceEmbeddings(k, p, rows), UNCHANGED <<object, upload>>,
             object[k] # None, object[k].body = b
      PROVE  StoredIsCurrent'
  <2>1. embeddings' \subseteq embeddings \cup {Vector(k, p, b)}
    BY <1>7 DEF ReplaceEmbeddings, Others
  <2>2. Vector(k, p, b).key = k /\ Vector(k, p, b).plugin = p /\ Vector(k, p, b).bytes = b
    BY DEF Vector
  <2>3. VectorOK(Vector(k, p, b))'
    BY <1>7, <2>2 DEF VectorOK
  <2>4. \A e \in embeddings' : (e \in embeddings /\ Kept(e.key)) \/ VectorOK(e)'
    BY <1>7, <2>1, <2>3 DEF Kept
  <2>5. QED
    BY <2>4, VectorFrame
<1>8. ASSUME NEW k \in Key,
             \/ DeleteObject(k) \/ RefreshReplicaStatus(k)
             \/ TellProducer(k) \/ ImportObjectEmbeddings(k) \/ IndexImported(k)
      PROVE  StoredIsCurrent'
  <2>1. CASE DeleteObject(k)
    BY <1>6, <2>1 DEF DeleteObject
  <2>2. CASE RefreshReplicaStatus(k)
    <3> DEFINE o == [object[k] EXCEPT !.updated = clock + 1]
    <3>1. object' = [object EXCEPT ![k] = o] /\ UNCHANGED <<upload, embeddings>> /\ object[k] # None
      BY <2>2 DEF RefreshReplicaStatus, vecVars
    <3>2. object[k] \in ObjectRow /\ o \in ObjectRow /\ o.body = object[k].body
      BY <1>1, <3>1 DEF PipeTypeOK, ObjectRow
    <3>3. o # None
      BY <3>2, EmptyIsNoRow
    <3> HIDE DEF o
    <3>4. \A j \in Key : object[j] # None => object'[j] # None /\ object'[j].body = object[j].body
      BY <1>1, <3>1, <3>2, <3>3
    <3>5. \A e \in embeddings' : e \in embeddings /\ Kept(e.key)
      BY <1>2, <3>1, <3>4 DEF Kept
    <3>6. QED
      BY <3>5, VectorFrame
  <2>3. CASE TellProducer(k)
    BY <1>3, <2>3 DEF TellProducer, vecVars
  <2>4. CASE ImportObjectEmbeddings(k)
    <3>1. CASE SameGeneration(object[k], told[k])
      <4>1. object[k] # None /\ object[k].body = told[k].body
        BY <3>1 DEF SameGeneration
      <4>2. ReplaceEmbeddings(k, Producer, {Vector(k, Producer, told[k].body)})
            /\ UNCHANGED <<object, upload>>
        BY <2>4, <3>1 DEF ImportObjectEmbeddings
      <4>3. QED
        BY <1>7, <4>1, <4>2, PluginsMake
    <3>2. CASE ~ SameGeneration(object[k], told[k])
      BY <1>3, <2>4, <3>2 DEF ImportObjectEmbeddings, vecVars
    <3>3. QED
      BY <3>1, <3>2
  <2>5. CASE IndexImported(k)
    BY <1>1, <1>3, <2>5, IndexTypes, PluginsMake DEF IndexImported
  <2>6. QED
    BY <1>8, <2>1, <2>2, <2>3, <2>4, <2>5
<1>9. ASSUME NEW w \in Worker, NEW i \in DOMAIN jobs, ClaimNextWASMPluginJob(w, i)
      PROVE  StoredIsCurrent'
  BY <1>1, <1>3, <1>9, ClaimTypes
<1>10. ASSUME NEW w \in Worker, RunStep(w) \/ Crash(w) \/ CrashIndexing(w)
       PROVE  StoredIsCurrent'
  <2>1. work[w] \in WorkRow /\ RunKinds(w)
    BY <1>1, <1>10, RunStepKinds
  <2>2. /\ w \in Running /\ ReadOK(work[w]) /\ Id(w).key \in Key /\ Id(w).plugin \in Maker
        /\ Id(w) = work[w].job
    BY <2>1, Fields, PluginsMake, EmptyIsNoRow DEF Id, Running, BaseInv, ReadInv
  <2>3. CASE RunEmbeds(w)
    <3>1. work[w].read = Id(w).body /\ object[Id(w).key] # None
          /\ object[Id(w).key].body = work[w].read
      BY <2>2, <2>3 DEF RunEmbeds, At, ReadOK, IsCurrent, SameGeneration
    <3>2. Vectors(w) \subseteq {Vector(Id(w).key, Id(w).plugin, work[w].read)}
      BY DEF Vectors
    <3>3. ReplaceEmbeddings(Id(w).key, Id(w).plugin, Vectors(w)) /\ UNCHANGED <<object, upload>>
      BY <2>3 DEF RunEmbeds, Embedded
    <3>4. QED
      BY <1>7, <2>2, <3>1, <3>2, <3>3
  <2>4. CASE RunDeletes(w)
    BY <1>6, <2>2, <2>4 DEF RunDeletes
  <2>5. CASE ~ RunEmbeds(w) /\ ~ RunDeletes(w)
    <3>1. Still
      BY <2>1, <2>5 DEF RunKinds, RunEnds, RunLoads, RunReads, RunReloads, RunIndexes, RunSaves,
                        RunDerives, RunPatches, RunCopies, RunFinishes, Quiet
    <3>2. QED
      BY <1>3, <3>1 DEF Still
  <2>6. QED
    BY <2>3, <2>4, <2>5
<1>11. ASSUME NEW i \in DOMAIN jobs, RecoverStaleWASMPluginJobs(i)
       PROVE  StoredIsCurrent'
  BY <1>1, <1>3, <1>11, RecoverTypes
<1>12. ASSUME NEW p \in Plugin,
              UpsertWASMPlugin(p, "enabled") \/ UpsertWASMPlugin(p, "disabled") \/ DeleteWASMPlugin(p)
       PROVE  StoredIsCurrent'
  BY <1>1, <1>3, <1>12, PluginTypes DEF DeleteEmbeddings, vecVars
<1>13. ASSUME NEW b \in Backends, Restart(b)
       PROVE  StoredIsCurrent'
  BY <1>1, <1>3, <1>13, RestartTypes
<1>14. CASE UNCHANGED pipeVars
  BY <1>3, <1>14 DEF pipeVars, vecVars
<1>15. QED
  BY <1>4, <1>5, <1>8, <1>9, <1>10, <1>11, <1>12, <1>13, <1>14 DEF PipeNext

\* Whatever crashes, stalls, races or is deleted, and with any number of
\* workers, a stored vector was computed from the bytes its object has, or an
\* overwrite is about to remove it (ReplaceObjectEmbeddings checks the
\* generation in its transaction), unless overwrites end before they remove
\* what they have made stale.
THEOREM VectorsCurrent ==
  ASSUME "cancel" \notin Hazards
  PROVE  PipeSpec => []StoredIsCurrent
<1>1. PipeInit => BaseInv /\ StoredIsCurrent
  BY BaseHolds DEF PipeInit, VecInit, StoredIsCurrent
<1>2. BaseInv /\ StoredIsCurrent /\ [PipeNext]_pipeVars => (BaseInv /\ StoredIsCurrent)'
  BY BaseStep, StoredStep
<1>3. QED
  BY <1>1, <1>2, PTL DEF PipeSpec

-----------------------------------------------------------------------------
(* The searches of the native backends.                                    *)

\* The rows of a search have a score.
Scored(rows) == \A e \in rows : e.key \in Key /\ e.plugin \in Maker

LEMMA ScoresAreNumbers ==
  ASSUME NEW rows, Scored(rows)
  PROVE  \A e \in rows : Score(e) \in Nat
<1>1. SUFFICES ASSUME NEW e \in rows PROVE Score(e) \in Nat
  OBVIOUS
<1>2. <<e.key, e.plugin>> \in Key \X Maker
  BY DEF Scored
<1>3. Rank[<<e.key, e.plugin>>].score \in Nat
  BY <1>2, VectorAssumption
<1>4. QED
  BY <1>3, Zenon DEF Score

\* Cutting the best rows by the least score is taking the best of those that
\* have it: what is better than such a row has it, too.
LEMMA CutIsBest ==
  ASSUME NEW rows, Scored(rows), NEW limit, NEW min \in Nat
  PROVE  {e \in Best(rows, limit) : Score(e) >= min}
           = Best({e \in rows : Score(e) >= min}, limit)
<1> DEFINE good == {e \in rows : Score(e) >= min}
<1>1. ASSUME NEW r \in good
      PROVE  {o \in rows : o = r \/ Better(o, r)} = {o \in good : o = r \/ Better(o, r)}
  <2>1. ASSUME NEW o \in rows, Better(o, r)
        PROVE  Score(o) >= min
    <3>1. Score(o) \in Nat /\ Score(r) \in Nat /\ Score(r) >= min
      BY <1>1, ScoresAreNumbers
    <3>2. Score(o) > Score(r) \/ Score(o) = Score(r)
      BY <2>1 DEF Better
    <3>3. QED
      BY <3>1, <3>2
  <2>2. QED
    BY <1>1, <2>1
<1>2. ASSUME NEW r \in good
      PROVE  r \in Best(rows, limit) <=> r \in Best(good, limit)
  BY <1>1, <1>2 DEF Best
<1>3. Best(good, limit) \subseteq good /\ Best(rows, limit) \subseteq rows
  BY DEF Best
<1>4. ASSUME NEW r
      PROVE  r \in {e \in Best(rows, limit) : Score(e) >= min} <=> r \in Best(good, limit)
  BY <1>2, <1>3
<1>5. QED
  BY <1>4

\* One row per key and producer: they all are candidates.
LEMMA AllAreCandidates ==
  ASSUME NEW rows, Scored(rows), IsFiniteSet(Key), IsFiniteSet(Maker),
         Cardinality(Key \X Maker) <= MaxCandidates,
         \A e, f \in rows : e.key = f.key /\ e.plugin = f.plugin => e = f
  PROVE  Candidates(rows) = rows
<1> DEFINE T == Key \X Maker
           g == [e \in rows |-> <<e.key, e.plugin>>]
<1>1. IsFiniteSet(T)
  BY FS_Product, Zenon
<1>2. g \in Injection(rows, T)
  <2>1. \A e \in rows : g[e] = <<e.key, e.plugin>> /\ <<e.key, e.plugin>> \in T
    BY DEF Scored
  <2>2. g \in [rows -> T]
    BY <2>1
  <2>3. \A e, f \in rows : g[e] = g[f] => e = f
    BY <2>1
  <2> HIDE DEF g
  <2>4. QED
    BY <2>2, <2>3 DEF Injection, IsInjective
<1> HIDE DEF g, T
<1>3. IsFiniteSet(rows) /\ Cardinality(rows) <= Cardinality(T)
  BY <1>1, <1>2, FS_Injection
<1>4. ASSUME NEW r \in rows
      PROVE  Cardinality({o \in rows : o = r \/ IdBefore(o, r)}) <= MaxCandidates
  <2> DEFINE S == {o \in rows : o = r \/ IdBefore(o, r)}
  <2>1. S \in SUBSET rows
    OBVIOUS
  <2> HIDE DEF S
  <2>2. IsFiniteSet(S) /\ Cardinality(S) <= Cardinality(rows)
    BY <1>3, <2>1, FS_Subset
  <2>3. /\ Cardinality(S) \in Nat /\ Cardinality(rows) \in Nat /\ Cardinality(T) \in Nat
        /\ MaxCandidates \in Nat
    BY <1>1, <1>3, <2>2, FS_CardinalityType, VectorAssumption
  <2>4. Cardinality(S) <= MaxCandidates
    BY <1>3, <2>2, <2>3 DEF T
  <2>5. QED
    BY <2>4 DEF S
<1>5. QED
  BY <1>4 DEF Candidates

LEMMA NativeSearches ==
  ASSUME StoredIsCurrent, SideInv, backend # "exact", IsFiniteSet(Key), IsFiniteSet(Maker),
         Cardinality(Key \X Maker) <= MaxCandidates
  PROVE  SearchIsCurrent
<1>1. Scored(embeddings) /\ vectors = embeddings
  BY DEF StoredIsCurrent, VectorOK, Scored, SideInv
<1>2. SUFFICES ASSUME NEW limit \in 1..2, NEW min \in {Rank[t].score : t \in Key \X Maker}
               PROVE  /\ SearchObjectEmbeddings(limit, min)
                           = Best({e \in embeddings : Score(e) >= min}, limit)
                      /\ \A e \in SearchObjectEmbeddings(limit, min) : VectorOK(e)
  BY DEF SearchIsCurrent, VectorOK
<1>3. min \in Nat
  BY VectorAssumption
<1>4. SearchObjectEmbeddings(limit, min) = Best({e \in embeddings : Score(e) >= min}, limit)
  <2>1. CASE backend = "pgvector"
    <3>1. SearchObjectEmbeddings(limit, min) = SearchPGVector(limit, min)
      BY <2>1 DEF SearchObjectEmbeddings
    <3>2. QED
      BY <1>1, <1>3, <3>1, CutIsBest DEF SearchPGVector
  <2>2. CASE backend = "turso-native"
    <3>1. SearchObjectEmbeddings(limit, min) = SearchTursoVectors(limit, min)
      BY <2>2 DEF SearchObjectEmbeddings
    <3>2. Candidates(embeddings) = embeddings
      BY <1>1, AllAreCandidates DEF SideInv
    <3>3. QED
      BY <1>1, <3>1, <3>2 DEF SearchTursoVectors
  <2>3. QED
    BY <2>1, <2>2 DEF SideInv
<1>5. Best({e \in embeddings : Score(e) >= min}, limit) \subseteq embeddings
  BY DEF Best
<1>6. QED
  BY <1>4, <1>5 DEF StoredIsCurrent

\* The native searches, Turso's and pgvector's, find what an exact search of
\* all stored vectors finds, and nothing older than its object, however the
\* store was opened before and whatever crashes or races, if no instance
\* writes without the side table, no overwrite ends before its invalidation
\* and the rows stay within max_candidates.  (The portable search is a fold.)
THEOREM NativeSearchCurrent ==
  ASSUME "cancel" \notin Hazards, Mixed = FALSE, IsFiniteSet(Key), IsFiniteSet(Maker),
         Cardinality(Key \X Maker) <= MaxCandidates
  PROVE  PipeSpec => [](backend # "exact" => SearchIsCurrent)
<1>1. PipeInit => BaseInv /\ StoredIsCurrent /\ SideInv
  <2>1. PipeInit => SideInv
    BY VectorAssumption DEF PipeInit, VecInit, SideInv
  <2>2. QED
    BY <2>1, BaseHolds DEF PipeInit, VecInit, StoredIsCurrent
<1>2. BaseInv /\ StoredIsCurrent /\ SideInv /\ [PipeNext]_pipeVars
        => (BaseInv /\ StoredIsCurrent /\ SideInv)'
  BY BaseStep, StoredStep, VecSteps, SideStep
<1>3. StoredIsCurrent /\ SideInv => (backend # "exact" => SearchIsCurrent)
  BY NativeSearches
<1>4. QED
  BY <1>1, <1>2, <1>3, PTL DEF PipeSpec

-----------------------------------------------------------------------------
(* One worker: what a succeeded job has left.                              *)

\* One worker loop that does not outlive its heartbeats, and uploads of a key
\* one after the other.
Lone == /\ "race" \notin Hazards /\ "stall" \notin Hazards
        /\ \A v, w \in Worker : v = w

\* A step that starts no upload, and adds jobs only of keys no upload is left of.
LEMMA FreshFrame ==
  ASSUME BaseInv, FreshInv, NoReturn,
         \A v \in Uploader : upload'[v] # Idle => upload[v] # Idle /\ upload'[v].key = upload[v].key,
         \A i \in DOMAIN jobs' :
           \/ i \in DOMAIN jobs
           \/ \A v \in Uploader : upload'[v] # Idle => upload'[v].key # i.key,
         \A w \in Running' : (w \in Running /\ Id(w)' = Id(w)) \/ Id(w)' \in DOMAIN jobs
  PROVE  FreshInv'
<1>1. SUFFICES ASSUME NEW u \in Uploader, upload'[u] # Idle
               PROVE  /\ \A v \in Uploader : upload'[v] # Idle /\ upload'[v].key = upload'[u].key => v = u
                      /\ \A i \in DOMAIN jobs' : i.key = upload'[u].key => ~ IsCurrent(i)'
                      /\ \A w \in Running' : Id(w)'.key = upload'[u].key => ~ IsCurrent(Id(w))'
  BY DEF FreshInv
<1>2. upload[u] # Idle /\ upload'[u].key = upload[u].key
  BY <1>1
<1>3. \A v \in Uploader : upload'[v] # Idle /\ upload'[v].key = upload'[u].key => v = u
  BY <1>2 DEF FreshInv
<1>4. \A i \in DOMAIN jobs : i \in JobId /\ i.updated <= clock
  BY DEF BaseInv, PipeTypeOK, ClockInv
<1>5. \A i \in DOMAIN jobs : i.key = upload[u].key => ~ IsCurrent(i)'
  BY <1>2, <1>4 DEF FreshInv, NoReturn
<1>6. \A i \in DOMAIN jobs' : i.key = upload'[u].key => ~ IsCurrent(i)'
  BY <1>1, <1>2, <1>5
<1>7. ASSUME NEW w \in Running', Id(w)'.key = upload'[u].key
      PROVE  ~ IsCurrent(Id(w))'
  <2>1. PICK i : i = Id(w)'
    OBVIOUS
  <2>2. i.key = upload[u].key
    BY <1>2, <1>7, <2>1
  <2>3. ~ IsCurrent(i)'
    <3>1. CASE i \in DOMAIN jobs
      BY <1>5, <2>2, <3>1
    <3>2. CASE w \in Running /\ Id(w) = i
      <4>1. i \in JobId /\ i.updated <= clock
        BY <3>2, Busy, Fields DEF BaseInv, ClockInv, Running, Id
      <4>2. ~ IsCurrent(i)
        BY <1>2, <2>2, <3>2 DEF FreshInv
      <4>3. QED
        BY <4>1, <4>2 DEF NoReturn
    <3>3. QED
      BY <1>7, <2>1, <3>1, <3>2
  <2>4. QED
    BY <2>1, <2>3 DEF IsCurrent
<1>8. QED
  BY <1>3, <1>6, <1>7

LEMMA FreshStep ==
  ASSUME BaseInv, FreshInv, NoReturn, [PipeNext]_pipeVars, "race" \notin Hazards
  PROVE  FreshInv'
<1>1. PipeTypeOK
  BY DEF BaseInv
<1>2. ASSUME UNCHANGED upload, DOMAIN jobs' \subseteq DOMAIN jobs,
             \A w \in Running' : (w \in Running /\ Id(w)' = Id(w)) \/ Id(w)' \in DOMAIN jobs
      PROVE  FreshInv'
  BY <1>2, FreshFrame
<1>3. UNCHANGED work => \A w \in Running' : w \in Running /\ Id(w)' = Id(w)
  BY DEF Running, Id
<1>4. ASSUME NEW u \in Uploader, NEW k \in Key, NEW b \in 1 .. (uploads + 1), PutRow(u, k, b)
      PROVE  FreshInv'
  <2>1. /\ Uploading(k) = {} /\ upload[u] = Idle /\ UNCHANGED <<jobs, work>>
    BY <1>4 DEF PutRow
  <2>2. upload'[u].key = k /\ \A v \in Uploader : v # u => upload'[v] = upload[v]
    BY <1>1, <1>4 DEF PutRow, PipeTypeOK
  <2>3. object'[k].updated = clock + 1
    BY <1>1, <1>4 DEF PutRow, PipeTypeOK
  <2>4. ASSUME NEW i \in JobId, i.updated <= clock, i.key = k
        PROVE  ~ IsCurrent(i)'
    <3>1. i.updated \in Nat /\ clock \in Nat
      BY <1>1, Fields DEF PipeTypeOK
    <3>2. i.updated # clock + 1
      BY <2>4, <3>1
    <3>3. QED
      BY <2>3, <2>4, <3>2 DEF IsCurrent, SameGeneration
  <2>5. \A i \in DOMAIN jobs : i \in JobId /\ i.updated <= clock
    BY DEF BaseInv, PipeTypeOK, ClockInv
  <2>6. Running' = Running /\ \A w \in Running : Id(w)' = Id(w)
    BY <2>1 DEF Running, Id
  <2>7. \A w \in Running : Id(w) \in JobId /\ Id(w).updated <= clock
    BY Busy, Fields DEF BaseInv, ClockInv, Running, Id
  <2>8. ASSUME NEW v \in Uploader, upload'[v] # Idle
        PROVE  /\ \A x \in Uploader : upload'[x] # Idle /\ upload'[x].key = upload'[v].key => x = v
               /\ \A i \in DOMAIN jobs' : i.key = upload'[v].key => ~ IsCurrent(i)'
               /\ \A w \in Running' : Id(w)'.key = upload'[v].key => ~ IsCurrent(Id(w))'
    <3>1. CASE v = u
      <4>1. \A x \in Uploader : upload'[x] # Idle /\ upload'[x].key = upload'[v].key => x = v
        BY <2>1, <2>2, <3>1 DEF Uploading
      <4>2. \A i \in DOMAIN jobs' : i.key = upload'[v].key => ~ IsCurrent(i)'
        BY <2>1, <2>2, <2>4, <2>5, <3>1
      <4>3. \A w \in Running' : Id(w)'.key = upload'[v].key => ~ IsCurrent(Id(w))'
        <5>1. SUFFICES ASSUME NEW w \in Running, NEW i, i = Id(w), i.key = k
                       PROVE  ~ IsCurrent(i)'
          BY <2>2, <2>6, <3>1 DEF IsCurrent
        <5>2. QED
          BY <2>4, <2>7, <5>1
      <4>4. QED
        BY <4>1, <4>2, <4>3
    <3>2. CASE v # u
      <4>1. upload'[v] = upload[v] /\ upload[v] # Idle /\ upload[v].key # k
        BY <2>1, <2>2, <2>8, <3>2 DEF Uploading
      <4>2. \A x \in Uploader : upload'[x] # Idle /\ upload'[x].key = upload'[v].key => x = v
        BY <2>2, <4>1 DEF FreshInv
      <4>3. \A i \in DOMAIN jobs' : i.key = upload'[v].key => ~ IsCurrent(i)'
        BY <2>1, <2>5, <4>1 DEF FreshInv, NoReturn
      <4>4. \A w \in Running' : Id(w)'.key = upload'[v].key => ~ IsCurrent(Id(w))'
        <5>1. SUFFICES ASSUME NEW w \in Running, NEW i, i = Id(w), i.key = upload[v].key
                       PROVE  ~ IsCurrent(i)'
          BY <2>6, <4>1 DEF IsCurrent
        <5>2. ~ IsCurrent(i)
          BY <4>1, <5>1 DEF FreshInv
        <5>3. QED
          BY <2>7, <5>1, <5>2 DEF NoReturn
      <4>5. QED
        BY <4>2, <4>3, <4>4
    <3>3. QED
      BY <3>1, <3>2
  <2>9. QED
    BY <2>8 DEF FreshInv
<1>5. ASSUME NEW u \in Uploader, UploadStep(u) \/ CancelUpload(u)
      PROVE  FreshInv'
  <2>1. UNCHANGED work
    BY <1>1, <1>5, UploadStepTypes
  <2>2. \A v \in Uploader : upload'[v] # Idle => upload[v] # Idle /\ upload'[v].key = upload[v].key
    BY <1>1, <1>5, JobsOfUpload
  <2>3. ASSUME NEW i \in DOMAIN jobs', i \notin DOMAIN jobs, NEW v \in Uploader, upload'[v] # Idle
        PROVE  upload'[v].key # i.key
    <3>1. i.key = upload[u].key /\ upload[u] # Idle /\ v # u /\ upload'[v] = upload[v]
      BY <1>1, <1>5, <2>3, JobsOfUpload
    <3>2. QED
      BY <2>3, <3>1 DEF FreshInv
  <2>4. QED
    BY <1>3, <2>1, <2>2, <2>3, FreshFrame
<1>6. ASSUME NEW k \in Key,
             \/ DeleteObject(k) \/ RefreshReplicaStatus(k)
             \/ TellProducer(k) \/ ImportObjectEmbeddings(k) \/ IndexImported(k)
      PROVE  FreshInv'
  <2>1. UNCHANGED <<work, jobs, upload>>
    BY <1>1, <1>6, RowTypes, ProducerTypes
  <2>2. QED
    BY <1>2, <1>3, <2>1
<1>7. ASSUME NEW w \in Worker, NEW i \in DOMAIN jobs, ClaimNextWASMPluginJob(w, i)
      PROVE  FreshInv'
  <2>1. /\ UNCHANGED upload /\ DOMAIN jobs' = DOMAIN jobs /\ work'[w].job = i
        /\ \A v \in Worker : v # w => work'[v] = work[v]
    BY <1>1, <1>7, ClaimTypes
  <2>2. \A v \in Running' : (v \in Running /\ Id(v)' = Id(v)) \/ Id(v)' \in DOMAIN jobs
    BY <2>1 DEF Running, Id
  <2>3. QED
    BY <1>2, <2>1, <2>2
<1>8. ASSUME NEW w \in Worker, RunStep(w) \/ Crash(w) \/ CrashIndexing(w)
      PROVE  FreshInv'
  <2>1. work[w] \in WorkRow /\ RunKinds(w)
    BY <1>1, <1>8, RunStepKinds
  <2>2. UNCHANGED upload /\ DOMAIN jobs' = DOMAIN jobs
    BY <1>1, <2>1, RunObjects
  <2>3. /\ \A v \in Worker : v # w => work'[v] = work[v]
        /\ work'[w] = Idle \/ work'[w].job = work[w].job
    BY <1>1, <2>1, RunRows
  <2>4. \A v \in Running' : v \in Running /\ Id(v)' = Id(v)
    BY <2>1, <2>3, EmptyIsNoRow DEF Running, Id
  <2>5. QED
    BY <1>2, <2>2, <2>4
<1>9. ASSUME NEW i \in DOMAIN jobs, RecoverStaleWASMPluginJobs(i)
      PROVE  FreshInv'
  BY <1>1, <1>2, <1>3, <1>9, RecoverTypes
<1>10. ASSUME NEW p \in Plugin,
              UpsertWASMPlugin(p, "enabled") \/ UpsertWASMPlugin(p, "disabled") \/ DeleteWASMPlugin(p)
       PROVE  FreshInv'
  BY <1>1, <1>2, <1>3, <1>10, PluginTypes
<1>11. ASSUME NEW b \in Backends, Restart(b)
       PROVE  FreshInv'
  BY <1>1, <1>2, <1>3, <1>11, RestartTypes
<1>12. CASE UNCHANGED pipeVars
  BY <1>2, <1>3, <1>12 DEF pipeVars
<1>13. QED
  BY <1>4, <1>5, <1>6, <1>7, <1>8, <1>9, <1>10, <1>11, <1>12 DEF PipeNext

\* No step but the write of a row gives a key other bytes.
LEMMA BodyStep ==
  ASSUME BaseInv, BodyInv, [PipeNext]_pipeVars, "race" \notin Hazards
  PROVE  BodyInv'
<1>1. /\ PipeTypeOK /\ object \in [Key -> ObjectRow \cup {None}]
      /\ upload \in [Uploader -> UploadRow \cup {Idle}]
  BY DEF BaseInv, PipeTypeOK
<1>2. \A u \in Uploader : upload[u] # Idle => upload[u].key \in Key
  BY <1>1, Busy, Fields
<1>3. ASSUME \A v \in Uploader : upload'[v] # Idle =>
               upload[v] # Idle /\ upload'[v].key = upload[v].key /\ upload'[v].body = upload[v].body,
             \A k \in Key : object'[k] # None => object[k] # None /\ object'[k].body = object[k].body
      PROVE  BodyInv'
  BY <1>2, <1>3 DEF BodyInv
<1>4. ASSUME UNCHANGED <<object, upload>>
      PROVE  BodyInv'
  BY <1>4 DEF BodyInv
<1>5. ASSUME NEW u \in Uploader, NEW k \in Key, NEW b \in 1 .. (uploads + 1), PutRow(u, k, b)
      PROVE  BodyInv'
  <2>1. object'[k].body = b /\ \A j \in Key : j # k => object'[j] = object[j]
    BY <1>1, <1>5 DEF PutRow
  <2>2. /\ upload'[u].key = k /\ upload'[u].body = b
        /\ \A v \in Uploader : v # u => upload'[v] = upload[v]
    BY <1>1, <1>5 DEF PutRow
  <2>3. \A v \in Uploader : upload[v] # Idle => upload[v].key # k
    BY <1>5 DEF PutRow, Uploading
  <2>4. SUFFICES ASSUME NEW v \in Uploader, upload'[v] # Idle, object'[upload'[v].key] # None
                 PROVE  object'[upload'[v].key].body = upload'[v].body
    BY DEF BodyInv
  <2>5. CASE v = u
    BY <2>1, <2>2, <2>5
  <2>6. CASE v # u
    BY <1>2, <2>1, <2>2, <2>3, <2>4, <2>6 DEF BodyInv
  <2>7. QED
    BY <2>5, <2>6
<1>6. ASSUME NEW u \in Uploader, UploadStep(u) \/ CancelUpload(u)
      PROVE  BodyInv'
  <2>1. UNCHANGED object
    BY <1>1, <1>6, UploadStepTypes
  <2>2. upload[u] \in UploadRow /\ upload[u] # Idle
    BY <1>1, <1>6, JobsOfUpload, Busy
  <2>3. PICK q : /\ upload' = [upload EXCEPT ![u] = q]
                 /\ q \in {Idle, [upload[u] EXCEPT !.op = "attributes"],
                           [upload[u] EXCEPT !.op = "enqueue"]}
    BY <1>6 DEF UploadStep, CancelUpload, Invalidate, PutAttributes, EnqueueWASMPlugins
  <2>4. q # Idle => q.key = upload[u].key /\ q.body = upload[u].body
    BY <2>2, <2>3 DEF UploadRow
  <2>5. upload'[u] = q /\ \A v \in Uploader : v # u => upload'[v] = upload[v]
    BY <1>1, <2>3
  <2>6. QED
    BY <1>3, <2>1, <2>2, <2>4, <2>5
<1>7. ASSUME NEW k \in Key, WithoutRow(k), UNCHANGED upload
      PROVE  BodyInv'
  <2>1. object' = [object EXCEPT ![k] = None]
    BY <1>7 DEF WithoutRow
  <2>2. \A j \in Key : object'[j] = None \/ object'[j] = object[j]
    BY <1>1, <2>1
  <2>3. QED
    BY <1>3, <1>7, <2>2
<1>8. ASSUME NEW k \in Key,
             \/ DeleteObject(k) \/ RefreshReplicaStatus(k)
             \/ TellProducer(k) \/ ImportObjectEmbeddings(k) \/ IndexImported(k)
      PROVE  BodyInv'
  <2>1. CASE DeleteObject(k)
    BY <1>7, <2>1 DEF DeleteObject
  <2>2. CASE RefreshReplicaStatus(k)
    <3> DEFINE o == [object[k] EXCEPT !.updated = clock + 1]
    <3>1. object' = [object EXCEPT ![k] = o] /\ UNCHANGED upload /\ object[k] # None
      BY <2>2 DEF RefreshReplicaStatus
    <3>2. o.body = object[k].body
      BY <1>1, <3>1, Busy DEF ObjectRow
    <3> HIDE DEF o
    <3>3. \A j \in Key : object'[j] # None => object[j] # None /\ object'[j].body = object[j].body
      BY <1>1, <3>1, <3>2
    <3>4. QED
      BY <1>3, <3>1, <3>3
  <2>3. CASE TellProducer(k) \/ ImportObjectEmbeddings(k) \/ IndexImported(k)
    BY <1>4, <2>3 DEF TellProducer, ImportObjectEmbeddings, IndexImported
  <2>4. QED
    BY <1>8, <2>1, <2>2, <2>3
<1>9. ASSUME NEW w \in Worker, RunStep(w) \/ Crash(w) \/ CrashIndexing(w)
      PROVE  BodyInv'
  <2>1. work[w] \in WorkRow /\ RunKinds(w)
    BY <1>1, <1>9, RunStepKinds
  <2>2. CASE RunDeletes(w)
    <3>1. Id(w).key \in Key
      BY <2>1, Fields DEF Id
    <3>2. QED
      BY <1>7, <2>2, <3>1 DEF RunDeletes
  <2>3. CASE ~ RunDeletes(w)
    BY <1>4, <2>1, <2>3 DEF RunKinds, RunEnds, RunLoads, RunReads, RunReloads, RunEmbeds,
        RunIndexes, RunSaves, RunDerives, RunPatches, RunCopies, RunFinishes, Quiet, Still
  <2>4. QED
    BY <2>2, <2>3
<1>10. ASSUME NEW w \in Worker, NEW i \in DOMAIN jobs, ClaimNextWASMPluginJob(w, i)
       PROVE  BodyInv'
  BY <1>1, <1>4, <1>10, ClaimTypes
<1>11. ASSUME NEW i \in DOMAIN jobs, RecoverStaleWASMPluginJobs(i)
       PROVE  BodyInv'
  BY <1>1, <1>4, <1>11, RecoverTypes
<1>12. ASSUME NEW p \in Plugin,
              UpsertWASMPlugin(p, "enabled") \/ UpsertWASMPlugin(p, "disabled") \/ DeleteWASMPlugin(p)
       PROVE  BodyInv'
  BY <1>1, <1>4, <1>12, PluginTypes
<1>13. ASSUME NEW b \in Backends, Restart(b)
       PROVE  BodyInv'
  BY <1>1, <1>4, <1>13, RestartTypes
<1>14. CASE UNCHANGED pipeVars
  BY <1>4, <1>14 DEF pipeVars
<1>15. QED
  BY <1>5, <1>6, <1>8, <1>9, <1>10, <1>11, <1>12, <1>13, <1>14 DEF PipeNext

\* What job i has left stays.
Keeps(i) ==
  /\ Stored(i) => Stored(i)'
  /\ Stored(i) /\ ~ NeedsIndex(i.plugin) => ~ NeedsIndex(i.plugin)'
  /\ MadeOf(i) => MadeOf(i)'

LEMMA AppliedStays ==
  ASSUME NEW i, NEW r, Keeps(i), Applied(i, r)
  PROVE  Applied(i, r)'
BY DEF Keeps, Applied

LEMMA JobFrame ==
  ASSUME BaseInv, JobInv, NoReturn,
         \A i \in DOMAIN jobs' : jobs'[i].status = "succeeded" /\ IsCurrent(i)' =>
           i \in DOMAIN jobs /\ jobs'[i] = jobs[i] /\ Keeps(i)
  PROVE  JobInv'
<1>1. SUFFICES ASSUME NEW i \in DOMAIN jobs', jobs'[i].status = "succeeded", IsCurrent(i)'
               PROVE  Applied(i, jobs[i].result)'
  BY DEF JobInv
<1>2. i \in DOMAIN jobs /\ jobs'[i] = jobs[i] /\ Keeps(i)
  BY <1>1
<1>3. i \in JobId /\ i.updated <= clock
  BY <1>2 DEF BaseInv, PipeTypeOK, ClockInv
<1>4. IsCurrent(i)
  BY <1>1, <1>3 DEF NoReturn
<1>5. Applied(i, jobs[i].result)
  BY <1>1, <1>2, <1>4 DEF JobInv
<1>6. PICK r : r = jobs[i].result
  OBVIOUS
<1>7. Applied(i, r)'
  BY <1>2, <1>5, <1>6, AppliedStays
<1>8. QED
  BY <1>2, <1>6, <1>7 DEF Applied

\* A step that leaves the runs alone: its new jobs have not succeeded and no
\* run is theirs.
LEMMA RunFrame ==
  ASSUME BaseInv, JobInv, RunInv, NoReturn, UNCHANGED work,
         \A i \in DOMAIN jobs' :
           \/ i \in DOMAIN jobs /\ jobs'[i] = jobs[i]
           \/ jobs'[i].status # "succeeded" /\ \A w \in Running : Id(w) # i,
         \A i \in DOMAIN jobs' \cap DOMAIN jobs : IsCurrent(i)' => Keeps(i)
  PROVE  JobInv' /\ RunInv'
<1>1. JobInv'
  BY JobFrame
<1>2. \A i \in DOMAIN jobs : i \in JobId /\ i.updated <= clock
  BY DEF BaseInv, PipeTypeOK, ClockInv
<1>3. Running' = Running
  BY DEF Running
<1>4. ASSUME NEW w \in Running
      PROVE  RunOK(work[w])'
  <2> DEFINE q == work[w]
             i == Id(w)
  <2>1. RunOK(q) /\ q.job = i
    BY <1>4 DEF RunInv, Id
  <2>2. i \in DOMAIN jobs' => i \in DOMAIN jobs /\ jobs'[i] = jobs[i]
    BY <1>4
  <2>3. i \in DOMAIN jobs' => jobs'[i].status = "running"
    BY <2>1, <2>2 DEF RunOK
  <2>4. ASSUME q.op # "load", NEW j \in DOMAIN jobs', j.key = i.key, j.plugin = i.plugin,
               jobs'[j].status = "succeeded"
        PROVE  ~ IsCurrent(j)'
    <3>1. j \in DOMAIN jobs /\ jobs'[j] = jobs[j]
      BY <2>4
    <3>2. ~ IsCurrent(j)
      BY <2>1, <2>4, <3>1 DEF RunOK
    <3>3. QED
      BY <1>2, <3>1, <3>2 DEF NoReturn
  <2>5. PICK c : c = i
    OBVIOUS
  <2>6. ASSUME IsCurrent(c)', c \in DOMAIN jobs'
        PROVE  Progress(work[w], c)'
    <3>1. c \in DOMAIN jobs /\ Keeps(c) /\ IsCurrent(c)
      BY <1>2, <2>2, <2>5, <2>6 DEF NoReturn
    <3>2. Progress(q, c)
      BY <2>1, <2>5, <3>1 DEF RunOK
    <3>3. QED
      BY <3>1, <3>2 DEF Progress, Keeps
  <2>7. work'[w] = q /\ work'[w].job = c /\ q.job = c
    BY <2>1, <2>5
  <2>8. IsCurrent(work[w].job)' => IsCurrent(c)'
    BY <2>7 DEF IsCurrent
  <2>9. Progress(work[w], c)' => Progress(work[w], work[w].job)'
    BY <2>7 DEF Progress, Stored, MadeOf, NeedsIndex
  <2>10. q.op # "operate" => q.next = 1
    BY <2>1 DEF RunOK
  <2> HIDE DEF q, i
  <2>11. QED
    BY <2>3, <2>4, <2>5, <2>6, <2>7, <2>8, <2>9, <2>10 DEF RunOK
<1>5. QED
  BY <1>1, <1>3, <1>4 DEF RunInv

\* Unchanged tables keep everything, and so does an index that is made.
LEMMA KeepsAll ==
  ASSUME NEW i \in JobId, embeddings' = embeddings, made' = made,
         ~ NeedsIndex(i.plugin) => ~ NeedsIndex(i.plugin)'
  PROVE  Keeps(i)
BY DEF Keeps, Stored, MadeOf

\* Rows of other keys and producers are no rows of job i.
LEMMA KeepsStored ==
  ASSUME NEW i \in JobId, made' = made, UNCHANGED <<hnsw, backend>>,
         \A e \in embeddings \ embeddings' : e.key # i.key \/ e.plugin # i.plugin
  PROVE  Keeps(i)
<1>1. Vector(i.key, i.plugin, i.body).key = i.key /\ Vector(i.key, i.plugin, i.body).plugin = i.plugin
  BY DEF Vector
<1>2. Stored(i) => Stored(i)'
  BY <1>1 DEF Stored
<1>3. QED
  BY <1>2 DEF Keeps, MadeOf, NeedsIndex

\* A store opened with pgvector has a valid index for every row it keeps.
LEMMA KeepsReopened ==
  ASSUME PipeTypeOK, NEW i \in JobId, NEW b, Restart(b)
  PROVE  Keeps(i)
<1>1. embeddings' = embeddings /\ made' = made
  BY RestartTypes
<1>2. i.plugin \in Maker /\ Vector(i.key, i.plugin, i.body).plugin = i.plugin
  BY Fields, PluginsMake DEF Vector
<1>3. ASSUME Stored(i)
      PROVE  ~ NeedsIndex(i.plugin)'
  <2>1. CASE ConfigurePGVector
    <3>1. Vector(i.key, i.plugin, i.body) \in vectors'
      BY <1>3, <2>1 DEF Stored, ConfigurePGVector, BackfillPGVectors
    <3>2. i.plugin \in Profiles(vectors')
      BY <1>2, <3>1 DEF Profiles
    <3>3. i.plugin \in Indexable => hnsw'[i.plugin] = "valid"
      BY <1>2, <2>1, <3>2 DEF ConfigurePGVector, Ensured
    <3>4. QED
      BY <3>3 DEF NeedsIndex
  <2>2. CASE ConfigureTursoVectors \/ ConfigureExact
    BY <2>2 DEF ConfigureTursoVectors, ConfigureExact, NeedsIndex
  <2>3. QED
    BY <2>1, <2>2 DEF Restart, OpenStore
<1>4. QED
  BY <1>1, <1>3 DEF Keeps, Stored, MadeOf

\* The steps of clients, administrators, producers and the clock.
LEMMA OutsideStep ==
  ASSUME BaseInv, FreshInv, BodyInv, JobInv, RunInv, NoReturn, Lone,
         \/ \E u \in Uploader : \/ \E k \in Key, b \in 1 .. (uploads + 1) : PutRow(u, k, b)
                                \/ UploadStep(u) \/ CancelUpload(u)
         \/ \E k \in Key : \/ DeleteObject(k) \/ RefreshReplicaStatus(k)
                           \/ TellProducer(k) \/ ImportObjectEmbeddings(k) \/ IndexImported(k)
         \/ \E i \in DOMAIN jobs : RecoverStaleWASMPluginJobs(i)
         \/ \E p \in Plugin : \/ UpsertWASMPlugin(p, "enabled") \/ UpsertWASMPlugin(p, "disabled")
                              \/ DeleteWASMPlugin(p)
         \/ \E b \in Backends : Restart(b)
         \/ UNCHANGED pipeVars
  PROVE  JobInv' /\ RunInv'
<1>1. PipeTypeOK
  BY DEF BaseInv
<1>2. \A i \in DOMAIN jobs : i \in JobId /\ i.plugin \in Plugin /\ i.plugin \in Maker /\ i.key \in Key
  BY <1>1, Fields, PluginsMake DEF PipeTypeOK
<1>3. ASSUME UNCHANGED <<work, jobs>>, \A i \in DOMAIN jobs : IsCurrent(i)' => Keeps(i)
      PROVE  JobInv' /\ RunInv'
  BY <1>3, RunFrame
<1>4. ASSUME UNCHANGED <<work, jobs, made, vecVars>>
      PROVE  JobInv' /\ RunInv'
  <2>1. \A i \in DOMAIN jobs : Keeps(i)
    BY <1>1, <1>2, <1>4, KeepsAll, StillVectors
  <2>2. QED
    BY <1>3, <1>4, <2>1
<1>5. ASSUME NEW u \in Uploader, NEW k \in Key, NEW b \in 1 .. (uploads + 1), PutRow(u, k, b)
      PROVE  JobInv' /\ RunInv'
  BY <1>4, <1>5 DEF PutRow
<1>6. ASSUME NEW u \in Uploader, UploadStep(u) \/ CancelUpload(u)
      PROVE  JobInv' /\ RunInv'
  <2>1. UNCHANGED <<work, made, object>>
    BY <1>1, <1>6, UploadStepTypes DEF UploadStep, CancelUpload, Invalidate, PutAttributes,
                                       EnqueueWASMPlugins
  <2>2. CASE Invalidate(u)
    <3>1. /\ embeddings' = embeddings \ {e \in embeddings : e.key = upload[u].key}
          /\ UNCHANGED <<hnsw, backend, jobs>> /\ upload[u] # Idle
      BY <1>1, <1>6, <2>2, JobsOfUpload DEF Invalidate, DeleteEmbeddings
    <3>2. \A i \in DOMAIN jobs : IsCurrent(i)' => IsCurrent(i)
      BY <2>1 DEF IsCurrent
    <3>3. ASSUME NEW i \in DOMAIN jobs, IsCurrent(i)'
          PROVE  Keeps(i)
      <4>1. i.key # upload[u].key
        BY <3>1, <3>2, <3>3 DEF FreshInv
      <4>2. \A e \in embeddings \ embeddings' : e.key # i.key
        BY <3>1, <4>1
      <4>3. QED
        BY <1>2, <2>1, <3>1, <4>2, KeepsStored
    <3>4. QED
      BY <1>3, <2>1, <3>1, <3>3
  <2>3. CASE ~ Invalidate(u)
    <3>1. UNCHANGED vecVars
      BY <1>6, <2>3 DEF UploadStep, CancelUpload, PutAttributes, EnqueueWASMPlugins
    <3>2. \A i \in DOMAIN jobs : Keeps(i)
      BY <1>1, <1>2, <2>1, <3>1, KeepsAll, StillVectors
    <3>3. ASSUME NEW i \in DOMAIN jobs', i \notin DOMAIN jobs
          PROVE  jobs'[i].status # "succeeded" /\ \A w \in Running : Id(w) # i
      <4>1. /\ upload[u] # Idle /\ i.key = upload[u].key /\ object[i.key] # None
            /\ i.updated = object[i.key].updated /\ jobs'[i].status = "pending"
        BY <1>1, <1>6, <3>3, JobsOfUpload
      <4>2. i.body = upload[u].body
        BY <1>6, <3>3 DEF UploadStep, CancelUpload, Invalidate, PutAttributes,
                          EnqueueWASMPlugins, Enqueued, NewJobs
      <4>3. IsCurrent(i)
        BY <4>1, <4>2 DEF BodyInv, IsCurrent, SameGeneration
      <4>4. QED
        BY <4>1, <4>3 DEF FreshInv
    <3>4. \A i \in DOMAIN jobs : jobs'[i] = jobs[i]
      BY <1>1, <1>6, JobsOfUpload
    <3>5. QED
      BY <2>1, <3>2, <3>3, <3>4, RunFrame
  <2>4. QED
    BY <2>2, <2>3
<1>7. ASSUME NEW k \in Key, DeleteObject(k)
      PROVE  JobInv' /\ RunInv'
  <2>1. /\ UNCHANGED <<work, jobs, made, hnsw, backend>>
        /\ embeddings' = embeddings \ {e \in embeddings : e.key = k}
        /\ object' = [object EXCEPT ![k] = None]
    BY <1>7 DEF DeleteObject, WithoutRow, DeleteEmbeddings
  <2>2. object'[k] = None
    BY <2>1 DEF BaseInv, PipeTypeOK
  <2>3. ASSUME NEW i \in DOMAIN jobs, IsCurrent(i)'
        PROVE  Keeps(i)
    <3>1. i.key # k
      BY <2>2, <2>3 DEF IsCurrent, SameGeneration
    <3>2. \A e \in embeddings \ embeddings' : e.key # i.key
      BY <2>1, <3>1
    <3>3. QED
      BY <1>2, <2>1, <3>2, KeepsStored
  <2>4. QED
    BY <1>3, <2>1, <2>3
<1>8. ASSUME NEW k \in Key, RefreshReplicaStatus(k) \/ TellProducer(k)
      PROVE  JobInv' /\ RunInv'
  BY <1>4, <1>8 DEF RefreshReplicaStatus, TellProducer
<1>9. ASSUME NEW k \in Key, ImportObjectEmbeddings(k)
      PROVE  JobInv' /\ RunInv'
  <2>1. UNCHANGED <<work, jobs, made>>
    BY <1>9 DEF ImportObjectEmbeddings
  <2>2. CASE UNCHANGED vecVars
    BY <1>4, <2>1, <2>2
  <2>3. CASE ~ UNCHANGED vecVars
    <3>1. ReplaceEmbeddings(k, Producer, {Vector(k, Producer, told[k].body)})
      BY <1>9, <2>3 DEF ImportObjectEmbeddings
    <3>2. UNCHANGED <<hnsw, backend>> /\ \A e \in embeddings \ embeddings' : e.plugin = Producer
      BY <3>1 DEF ReplaceEmbeddings, Others
    <3>3. \A i \in DOMAIN jobs : Keeps(i)
      BY <1>2, <2>1, <3>2, KeepsStored, PluginsMake
    <3>4. QED
      BY <1>3, <2>1, <3>3
  <2>4. QED
    BY <2>2, <2>3
<1>10. ASSUME NEW k \in Key, IndexImported(k)
       PROVE  JobInv' /\ RunInv'
  <2>1. UNCHANGED <<work, jobs, made>> /\ EnsurePGVectorIndex(Producer)
    BY <1>10 DEF IndexImported
  <2>2. embeddings' = embeddings /\ \A q \in Maker : ~ NeedsIndex(q) => ~ NeedsIndex(q)'
    BY <1>1, <2>1, IndexTypes, PluginsMake
  <2>3. \A i \in DOMAIN jobs : Keeps(i)
    BY <1>2, <2>1, <2>2, KeepsAll
  <2>4. QED
    BY <1>3, <2>1, <2>3
<1>11. ASSUME NEW i \in DOMAIN jobs, RecoverStaleWASMPluginJobs(i)
       PROVE  JobInv' /\ RunInv'
  <2>1. /\ UNCHANGED <<made, embeddings, vecVars, work>>
        /\ DOMAIN jobs' = DOMAIN jobs /\ jobs'[i].status = "pending"
        /\ \A j \in DOMAIN jobs : j # i => jobs'[j] = jobs[j]
    BY <1>1, <1>11, RecoverTypes DEF vecVars
  <2>2. \A w \in Running : Id(w) # i
    BY <1>11 DEF RecoverStaleWASMPluginJobs, Touched, Lone, Running
  <2>3. \A j \in DOMAIN jobs : Keeps(j)
    BY <1>1, <1>2, <2>1, KeepsAll, StillVectors
  <2>4. QED
    BY <2>1, <2>2, <2>3, RunFrame
<1>12. ASSUME NEW p \in Plugin,
              UpsertWASMPlugin(p, "enabled") \/ UpsertWASMPlugin(p, "disabled") \/ DeleteWASMPlugin(p)
       PROVE  JobInv' /\ RunInv'
  <2>1. /\ UNCHANGED <<made, hnsw, backend, work>> /\ DOMAIN jobs' \subseteq DOMAIN jobs
        /\ \A j \in DOMAIN jobs' : jobs'[j] = jobs[j] /\ (j.plugin = p => embeddings' = embeddings)
        /\ \A e \in embeddings \ embeddings' : e.plugin = p
    BY <1>1, <1>12, PluginTypes DEF vecVars, DeleteEmbeddings
  <2>2. \A j \in DOMAIN jobs' : Keeps(j)
    BY <1>2, <2>1, KeepsStored
  <2>3. QED
    BY <2>1, <2>2, RunFrame
<1>13. ASSUME NEW b \in Backends, Restart(b)
       PROVE  JobInv' /\ RunInv'
  <2>1. UNCHANGED <<work, jobs>>
    BY <1>1, <1>13, RestartTypes
  <2>2. \A j \in DOMAIN jobs : Keeps(j)
    BY <1>1, <1>2, <1>13, KeepsReopened
  <2>3. QED
    BY <1>3, <2>1, <2>2
<1>14. CASE UNCHANGED pipeVars
  BY <1>4, <1>14 DEF pipeVars
<1>15. QED
  BY <1>5, <1>6, <1>7, <1>8, <1>9, <1>10, <1>11, <1>12, <1>13, <1>14

\* With one worker, a step of its run is judged by that run alone.
LEMMA OneRun ==
  ASSUME BaseInv, JobInv, NoReturn, Lone, NEW w \in Worker, DOMAIN jobs' = DOMAIN jobs,
         \A i \in DOMAIN jobs : jobs'[i].status = "succeeded" /\ IsCurrent(i)' =>
           jobs'[i] = jobs[i] /\ Keeps(i),
         work'[w] = Idle \/ RunOK(work[w])'
  PROVE  JobInv' /\ RunInv'
<1>1. JobInv'
  BY JobFrame
<1>2. \A v \in Running' : v = w /\ work'[w] # Idle
  BY DEF Lone, Running
<1>3. RunInv'
  BY <1>2 DEF RunInv
<1>4. QED
  BY <1>1, <1>3

\* Past its first check, no other job of its key and plugin has succeeded for
\* the generation that is current.
LEMMA Alone ==
  ASSUME BaseInv, NEW q \in WorkRow, RunOK(q), q.op = "load" => IsCurrent(q.job)
  PROVE  \A i \in DOMAIN jobs :
           i.key = q.job.key /\ i.plugin = q.job.plugin /\ jobs[i].status = "succeeded"
             => ~ IsCurrent(i)
<1>1. CASE q.op # "load"
  BY <1>1 DEF RunOK
<1>2. CASE q.op = "load"
  <2>1. SUFFICES ASSUME NEW i \in DOMAIN jobs, i.key = q.job.key, i.plugin = q.job.plugin,
                        jobs[i].status = "succeeded", IsCurrent(i)
                 PROVE  FALSE
    OBVIOUS
  <2>2. i \in JobId /\ q.job \in JobId
    BY Fields DEF BaseInv, PipeTypeOK
  <2>3. i.body = q.job.body /\ i.updated = q.job.updated
    BY <1>2, <2>1 DEF IsCurrent, SameGeneration
  <2>4. i = q.job
    BY <2>1, <2>2, <2>3, SameId
  <2>5. QED
    BY <2>1, <2>4 DEF RunOK
<1>3. QED
  BY <1>1, <1>2

\* A claim: the job is running, and nothing is applied of it.
LEMMA ClaimStep ==
  ASSUME BaseInv, JobInv, RunInv, NoReturn, Lone, NEW w \in Worker, NEW i \in DOMAIN jobs,
         ClaimNextWASMPluginJob(w, i)
  PROVE  JobInv' /\ RunInv'
<1>1. /\ UNCHANGED <<object, made, embeddings, hnsw, backend, vectors>>
      /\ work'[w].op = "load" /\ work'[w].job = i /\ work'[w].next = 1
      /\ DOMAIN jobs' = DOMAIN jobs /\ jobs'[i].status = "running"
      /\ \A j \in DOMAIN jobs : j # i => jobs'[j] = jobs[j]
  BY ClaimTypes DEF BaseInv
<1>2. \A j \in DOMAIN jobs : Keeps(j)
  BY <1>1 DEF Keeps, Stored, MadeOf, NeedsIndex
<1>3. RunOK(work[w])'
  <2>1. PICK n : n = work'[w]
    OBVIOUS
  <2>2. Progress(work[w], work[w].job)'
    BY <1>1 DEF Progress
  <2>3. QED
    BY <1>1, <2>2 DEF RunOK
<1>4. QED
  BY <1>1, <1>2, <1>3, OneRun

\* A run that goes on.
LEMMA RunGoes ==
  ASSUME BaseInv, JobInv, RunInv, NoReturn, Lone, NEW w \in Worker, NEW q \in WorkRow, q = work[w],
         NEW n \in WorkRow, work' = [work EXCEPT ![w] = n], UNCHANGED jobs,
         n.job = q.job, n.op # "load", n.op # "operate" => n.next = 1,
         q.op = "load" => IsCurrent(q.job),
         \A i \in DOMAIN jobs :
           IsCurrent(i)' /\ (i.key # q.job.key \/ i.plugin # q.job.plugin) => Keeps(i),
         \A i \in DOMAIN jobs : i = q.job /\ IsCurrent(i) /\ IsCurrent(i)' => Progress(n, i)'
  PROVE  JobInv' /\ RunInv'
<1>1. \A i \in DOMAIN jobs : i \in JobId /\ i.updated <= clock
  BY DEF BaseInv, PipeTypeOK, ClockInv
<1>2. RunOK(q)
  BY EmptyIsNoRow DEF RunInv, Running
<1>3. \A i \in DOMAIN jobs :
        i.key = q.job.key /\ i.plugin = q.job.plugin /\ jobs[i].status = "succeeded"
          => ~ IsCurrent(i)'
  BY <1>1, <1>2, Alone DEF NoReturn
<1>4. work'[w] = n
  BY WorkTypes DEF BaseInv
<1>5. PICK c \in JobId : c = q.job
  BY Fields
<1>6. IsCurrent(c)' /\ c \in DOMAIN jobs => Progress(n, c)'
  BY <1>1, <1>5 DEF NoReturn
<1>7. IsCurrent(work[w].job)' => IsCurrent(c)'
  BY <1>4, <1>5 DEF IsCurrent
<1>8. Progress(n, c)' => Progress(work[w], work[w].job)'
  BY <1>4, <1>5 DEF Progress, Stored, MadeOf, NeedsIndex
<1>9. RunOK(work[w])'
  <2>1. work'[w].op # "operate" => work'[w].next = 1
    BY <1>4
  <2>2. work'[w].job \in DOMAIN jobs' => jobs'[work'[w].job].status = "running"
    BY <1>2, <1>4 DEF RunOK
  <2>3. \A i \in DOMAIN jobs' :
          i.key = work'[w].job.key /\ i.plugin = work'[w].job.plugin /\ jobs'[i].status = "succeeded"
            => ~ IsCurrent(i)'
    BY <1>3, <1>4
  <2>4. IsCurrent(work[w].job)' /\ work'[w].job \in DOMAIN jobs' => Progress(work[w], work[w].job)'
    BY <1>4, <1>5, <1>6, <1>7, <1>8
  <2>5. QED
    BY <2>1, <2>2, <2>3, <2>4 DEF RunOK
<1>10. \A i \in DOMAIN jobs : jobs'[i].status = "succeeded" /\ IsCurrent(i)' =>
         jobs'[i] = jobs[i] /\ Keeps(i)
  BY <1>3
<1>11. QED
  BY <1>9, <1>10, OneRun

\* A step of a run that leaves the vectors and the made objects alone.
LEMMA QuietRun ==
  ASSUME BaseInv, JobInv, RunInv, NoReturn, Lone, NEW w \in Worker, work[w] \in WorkRow,
         \/ RunEnds(w) \/ RunLoads(w) \/ RunReads(w) \/ RunReloads(w) \/ RunIndexes(w)
         \/ RunSaves(w) \/ RunPatches(w) \/ RunFinishes(w)
  PROVE  JobInv' /\ RunInv'
<1>1. PICK q \in WorkRow : q = work[w]
  OBVIOUS
<1>2. /\ PipeTypeOK /\ RunOK(q) /\ Quiet
      /\ q.job \in JobId /\ q.job.key \in Key /\ q.job.plugin \in Maker /\ q.result \in ResultRow
      /\ q.attempts \in Int /\ q.next \in Nat \ {0}
  <2>1. RunOK(q)
    BY <1>1, EmptyIsNoRow DEF RunInv, Running
  <2>2. Quiet
    BY DEF RunEnds, RunLoads, RunReads, RunReloads, RunIndexes, RunSaves, RunPatches, RunFinishes
  <2>3. QED
    BY <2>1, <2>2, Fields, PluginsMake DEF BaseInv
<1>3. \A i \in DOMAIN jobs : i \in JobId /\ Keeps(i)
  BY <1>2, Fields, PluginsMake, KeepsAll DEF Quiet, Still, PipeTypeOK
<1>4. \A i \in DOMAIN jobs : i = q.job /\ IsCurrent(i) => Progress(q, i)
  BY <1>2 DEF RunOK
<1>5. CASE RunEnds(w)
  <2>1. /\ DOMAIN jobs' = DOMAIN jobs
        /\ \A j \in DOMAIN jobs : jobs'[j] = jobs[j] \/ jobs'[j].status # "succeeded"
        /\ work' = [work EXCEPT ![w] = Idle]
    BY <1>5 DEF RunEnds, Ends
  <2>2. work'[w] = Idle
    BY <1>2, <2>1, WorkTypes
  <2>3. QED
    BY <1>3, <2>1, <2>2, OneRun
<1>6. ASSUME NEW n \in WorkRow, work' = [work EXCEPT ![w] = n], UNCHANGED jobs, n.job = q.job,
             n.op # "load", n.op # "operate" => n.next = 1, q.op = "load" => IsCurrent(q.job),
             \A i \in DOMAIN jobs : i = q.job /\ Progress(q, i) /\ Keeps(i) => Progress(n, i)'
      PROVE  JobInv' /\ RunInv'
  BY <1>1, <1>3, <1>4, <1>6, RunGoes
<1>7. CASE RunLoads(w)
  <2>1. PICK n : n = [q EXCEPT !.op = "execute"]
    OBVIOUS
  <2>2. n \in WorkRow /\ n.job = q.job /\ n.op = "execute" /\ n.next = q.next
    BY <2>1, RowMoves DEF MovedRow, RunOp
  <2>3. q.op = "load" /\ IsCurrent(q.job) /\ UNCHANGED jobs /\ work' = [work EXCEPT ![w] = n]
    BY <1>1, <1>7, <2>1 DEF RunLoads, Moves, At, Id
  <2>4. n.next = 1
    BY <1>2, <2>2, <2>3 DEF RunOK
  <2>5. \A i \in DOMAIN jobs : Progress(n, i)'
    BY <2>2 DEF Progress
  <2>6. QED
    BY <1>6, <2>2, <2>3, <2>4, <2>5
<1>8. CASE RunReads(w)
  <2>1. PICK r \in ResultRow : work' = [work EXCEPT ![w] =
           [q EXCEPT !.op = "reload", !.read = Source(w).body, !.result = r]]
    BY <1>1, <1>8 DEF RunReads
  <2>2. PICK b \in Nat : b = Source(w).body
    BY <1>1, <1>2, <1>8, Busy, EmptyIsNoRow DEF RunReads, Source, Id
  <2>3. PICK n : n = [q EXCEPT !.op = "reload", !.read = b, !.result = r]
    OBVIOUS
  <2>4. n \in WorkRow /\ n.job = q.job /\ n.op = "reload" /\ n.next = q.next
    BY <2>3 DEF WorkRow, RunOp
  <2>5. q.op = "execute" /\ UNCHANGED jobs /\ work' = [work EXCEPT ![w] = n]
    BY <1>1, <1>8, <2>1, <2>2, <2>3 DEF RunReads, At
  <2>6. n.next = 1
    BY <1>2, <2>4, <2>5 DEF RunOK
  <2>7. \A i \in DOMAIN jobs : Progress(n, i)'
    BY <2>4 DEF Progress
  <2>8. QED
    BY <1>6, <2>4, <2>5, <2>6, <2>7
<1>9. CASE RunReloads(w)
  <2>1. attributes[Id(w).key] \in AttributeRow \cup {None}
    BY <1>1, <1>2 DEF PipeTypeOK, Id
  <2>2. PICK n : n = [q EXCEPT !.op = "embed", !.attributes = attributes[Id(w).key]]
    OBVIOUS
  <2>3. n \in WorkRow /\ n.job = q.job /\ n.op = "embed"
    BY <2>1, <2>2, RowReloads DEF MovedRow
  <2>4. n.next = q.next
    BY <2>2 DEF WorkRow
  <2>5. q.op = "reload" /\ UNCHANGED jobs /\ work' = [work EXCEPT ![w] = n]
    BY <1>1, <1>9, <2>2 DEF RunReloads, At
  <2>6. n.next = 1
    BY <1>2, <2>4, <2>5 DEF RunOK
  <2>7. \A i \in DOMAIN jobs : Progress(n, i)'
    BY <2>3 DEF Progress
  <2>8. QED
    BY <1>6, <2>3, <2>5, <2>6, <2>7
<1>10. CASE RunIndexes(w)
  <2>1. PICK n : n = [q EXCEPT !.op = "attributes"]
    OBVIOUS
  <2>2. n \in WorkRow /\ n.job = q.job /\ n.op = "attributes" /\ n.next = q.next /\ n.result = q.result
    BY <2>1, RowMoves DEF MovedRow, RunOp
  <2>3. /\ q.op = "index" /\ UNCHANGED jobs /\ work' = [work EXCEPT ![w] = n]
        /\ \E p \in Plugin : p = q.job.plugin /\ ~ NeedsIndex(p)'
    BY <1>1, <1>10, <2>1 DEF RunIndexes, Moves, At, Id
  <2>4. n.next = 1
    BY <1>2, <2>2, <2>3 DEF RunOK
  <2>5. ASSUME NEW i \in DOMAIN jobs, i = q.job, Progress(q, i), Keeps(i)
        PROVE  Progress(n, i)'
    <3>1. ~ NeedsIndex(i.plugin)'
      BY <2>3, <2>5
    <3>2. n.result.vector => Stored(i)'
      BY <2>2, <2>3, <2>5 DEF Progress, Keeps
    <3>3. QED
      BY <2>2, <3>1, <3>2 DEF Progress
  <2>6. QED
    BY <1>6, <2>2, <2>3, <2>4, <2>5
<1>11. CASE RunSaves(w)
  <2>1. PICK n : n = [q EXCEPT !.op = "derive"]
    OBVIOUS
  <2>2. n \in WorkRow /\ n.job = q.job /\ n.op = "derive" /\ n.next = q.next /\ n.result = q.result
    BY <2>1, RowMoves DEF MovedRow, RunOp
  <2>3. q.op = "attributes" /\ UNCHANGED jobs /\ work' = [work EXCEPT ![w] = n]
    BY <1>1, <1>11, <2>1 DEF RunSaves, Moves, At
  <2>4. n.next = 1
    BY <1>2, <2>2, <2>3 DEF RunOK
  <2>5. ASSUME NEW i \in DOMAIN jobs, i = q.job, Progress(q, i), Keeps(i)
        PROVE  Progress(n, i)'
    BY <2>2, <2>3, <2>5 DEF Progress, Keeps
  <2>6. QED
    BY <1>6, <2>2, <2>3, <2>4, <2>5
<1>12. CASE RunPatches(w)
  <2>1. PICK n : n = [q EXCEPT !.next = @ + 1]
    OBVIOUS
  <2>2. n \in WorkRow /\ n.job = q.job /\ n.op = q.op /\ n.next = q.next + 1 /\ n.result = q.result
    BY <2>1, RowAdvances DEF MovedRow
  <2>3. /\ q.op = "operate" /\ UNCHANGED jobs /\ work' = [work EXCEPT ![w] = n]
        /\ q.result.operations[q.next] = "patch"
    BY <1>1, <1>12, <2>1 DEF RunPatches, Operates, At, Current
  <2>4. ASSUME NEW i \in DOMAIN jobs, i = q.job, Progress(q, i), Keeps(i)
        PROVE  Progress(n, i)'
    <3>1. ASSUME NEW m \in 1 .. Len(n.result.operations), m < n.next,
                 n.result.operations[m] = "copy"
          PROVE  MadeOf(i)'
      <4>1. m # q.next /\ m \in Nat
        BY <2>2, <2>3, <3>1
      <4>2. m < q.next
        BY <1>2, <2>2, <3>1, <4>1
      <4>3. QED
        BY <2>2, <2>3, <2>4, <3>1, <4>2 DEF Progress, Keeps
    <3>2. QED
      BY <2>2, <2>3, <2>4, <3>1 DEF Progress, Keeps
  <2>5. QED
    BY <1>6, <2>2, <2>3, <2>4
<1>13. CASE RunFinishes(w)
  <2>1. /\ q.op = "operate" /\ q.next > Len(q.result.operations)
        /\ jobs' = Saved(q.job, "succeeded", q.attempts, q.result)
        /\ work' = [work EXCEPT ![w] = Idle]
    BY <1>1, <1>13 DEF RunFinishes, At, Done, Settle, Becomes
  <2>2. /\ DOMAIN jobs' = DOMAIN jobs
        /\ q.job \in DOMAIN jobs => jobs'[q.job].result = q.result
        /\ \A j \in DOMAIN jobs : j # q.job => jobs'[j] = jobs[j]
    BY <1>2, <2>1, SavedTypes
  <2>3. work'[w] = Idle
    BY <1>2, <2>1, WorkTypes
  <2>4. RunInv'
    BY <2>3 DEF RunInv, Running, Lone
  <2>5. \A i \in DOMAIN jobs : IsCurrent(i)' => IsCurrent(i)
    BY DEF NoReturn, BaseInv, PipeTypeOK, ClockInv
  <2>6. ASSUME NEW i \in DOMAIN jobs', jobs'[i].status = "succeeded", IsCurrent(i)'
        PROVE  Applied(i, jobs[i].result)'
    <3>1. i \in DOMAIN jobs /\ IsCurrent(i) /\ Keeps(i)
      BY <1>3, <2>2, <2>5, <2>6
    <3>2. PICK r : r = jobs'[i].result
      OBVIOUS
    <3>3. CASE i # q.job
      BY <2>2, <2>6, <3>1, <3>2, <3>3, AppliedStays DEF JobInv, Applied
    <3>4. CASE i = q.job
      <4>1. Progress(q, i) /\ r = q.result
        BY <1>4, <2>2, <3>1, <3>2, <3>4
      <4>2. r.operations \in Seq(Operation)
        BY <1>2, <4>1 DEF ResultRow
      <4>3. \A m \in 1 .. Len(r.operations) : m < q.next
        BY <1>2, <2>1, <4>1, <4>2
      <4>4. "copy" \in Declared(r) => MadeOf(i)
        BY <2>1, <4>1, <4>3 DEF Progress, Declared
      <4>5. Applied(i, r)
        BY <2>1, <4>1, <4>4 DEF Progress, Applied
      <4>6. Applied(i, r)'
        BY <3>1, <4>5, AppliedStays
      <4>7. QED
        BY <3>2, <4>6 DEF Applied
    <3>5. QED
      BY <3>3, <3>4
  <2>7. QED
    BY <2>4, <2>6 DEF JobInv
<1>14. QED
  BY <1>5, <1>7, <1>8, <1>9, <1>10, <1>11, <1>12, <1>13

\* What a run makes of its key and plugin is none of another key or plugin.
LEMMA KeepsMade ==
  ASSUME PipeTypeOK, NEW i \in JobId, NEW k \in Key, NEW p \in Plugin, NEW b, Still,
         i.key # k \/ i.plugin # p, made' = [made EXCEPT ![<<k, p>>] = b]
  PROVE  Keeps(i)
<1>1. <<i.key, i.plugin>> \in Target /\ <<i.key, i.plugin>> # <<k, p>>
  BY Fields DEF Target
<1>2. made'[<<i.key, i.plugin>>] = made[<<i.key, i.plugin>>]
  BY <1>1 DEF PipeTypeOK
<1>3. embeddings' = embeddings /\ (~ NeedsIndex(i.plugin) => ~ NeedsIndex(i.plugin)')
  BY Fields, PluginsMake DEF Still
<1>4. QED
  BY <1>2, <1>3 DEF Keeps, Stored, MadeOf

\* A step of a run that writes vectors, a derived or a copied object, or
\* deletes its source.
LEMMA LoudRun ==
  ASSUME BaseInv, JobInv, RunInv, NoReturn, Lone, NEW w \in Worker, work[w] \in WorkRow,
         RunEmbeds(w) \/ RunDerives(w) \/ RunCopies(w) \/ RunDeletes(w)
  PROVE  JobInv' /\ RunInv'
<1>1. PICK q \in WorkRow : q = work[w]
  OBVIOUS
<1>2. /\ PipeTypeOK /\ RunOK(q) /\ ReadOK(q)
      /\ q.job \in JobId /\ q.job.key \in Key /\ q.job.plugin \in Plugin /\ q.job.plugin \in Maker
      /\ q.result \in ResultRow /\ q.next \in Nat \ {0} /\ q.read \in Nat
      /\ <<q.job.key, q.job.plugin>> \in Target
  <2>1. RunOK(q) /\ ReadOK(q)
    BY <1>1, EmptyIsNoRow DEF RunInv, Running, BaseInv, ReadInv
  <2>2. QED
    BY <2>1, Fields, PluginsMake DEF BaseInv, Target
<1>3. \A i \in DOMAIN jobs : i \in JobId
  BY <1>2 DEF PipeTypeOK
<1>4. \A i \in DOMAIN jobs : i = q.job /\ IsCurrent(i) => Progress(q, i)
  BY <1>2 DEF RunOK
<1>5. \A i \in DOMAIN jobs : IsCurrent(i)' => IsCurrent(i)
  BY DEF NoReturn, BaseInv, PipeTypeOK, ClockInv
<1>6. CASE RunEmbeds(w)
  <2>1. /\ q.op = "embed" /\ ReplaceEmbeddings(q.job.key, q.job.plugin, Vectors(w))
        /\ UNCHANGED <<jobs, made>>
    BY <1>1, <1>6 DEF RunEmbeds, Embedded, At, Id
  <2>2. PICK op \in {"index", "attributes"} :
          /\ op = IF Vectors(w) # {} /\ NeedsIndex(q.job.plugin) THEN "index" ELSE "attributes"
          /\ work' = [work EXCEPT ![w] = [q EXCEPT !.op = op]]
    BY <1>1, <1>6 DEF RunEmbeds, Embedded, Goes, Becomes, Id
  <2>3. PICK n : n = [q EXCEPT !.op = op]
    OBVIOUS
  <2>4. n \in WorkRow /\ n.job = q.job /\ n.op = op /\ n.next = q.next /\ n.result = q.result
    <3>1. op \in RunOp
      BY DEF RunOp
    <3>2. QED
      BY <2>3, <3>1, RowMoves DEF MovedRow
  <2>5. n.next = 1
    BY <1>2, <2>1, <2>4 DEF RunOK
  <2>6. UNCHANGED <<hnsw, backend>> /\ embeddings' = Others(embeddings, q.job.key, q.job.plugin) \cup Vectors(w)
    BY <2>1 DEF ReplaceEmbeddings
  <2>7. \A e \in embeddings \ embeddings' : e.key = q.job.key /\ e.plugin = q.job.plugin
    BY <2>6 DEF Others
  <2>8. \A i \in DOMAIN jobs : i.key # q.job.key \/ i.plugin # q.job.plugin => Keeps(i)
    BY <1>3, <2>1, <2>6, <2>7, KeepsStored
  <2>9. ASSUME NEW i \in DOMAIN jobs, i = q.job, IsCurrent(i)
        PROVE  Progress(n, i)'
    <3>1. q.read = i.body
      BY <1>2, <2>1, <2>9 DEF ReadOK
    <3>2. n.result.vector => Vectors(w) = {Vector(i.key, i.plugin, i.body)}
      BY <1>1, <2>4, <2>9, <3>1 DEF Vectors, Id
    <3>3. n.result.vector => Stored(i)'
      BY <2>6, <3>2 DEF Stored
    <3>4. n.result.vector /\ n.op = "attributes" => ~ NeedsIndex(i.plugin)
      BY <2>2, <2>4, <2>9, <3>2
    <3>5. ~ NeedsIndex(i.plugin) => ~ NeedsIndex(i.plugin)'
      BY <2>6 DEF NeedsIndex
    <3>6. QED
      BY <2>4, <3>3, <3>4, <3>5 DEF Progress
  <2>10. n.op \in {"index", "attributes"} /\ work' = [work EXCEPT ![w] = n]
    BY <2>2, <2>3, <2>4
  <2>11. QED
    BY <1>1, <2>1, <2>4, <2>5, <2>8, <2>9, <2>10, RunGoes
<1>7. CASE RunDerives(w)
  <2>1. PICK n : n = [q EXCEPT !.op = "operate"]
    OBVIOUS
  <2>2. n \in WorkRow /\ n.job = q.job /\ n.op = "operate" /\ n.next = q.next /\ n.result = q.result
    BY <2>1, RowMoves DEF MovedRow, RunOp
  <2>3. /\ q.op = "derive" /\ UNCHANGED jobs /\ work' = [work EXCEPT ![w] = n] /\ Still
        /\ made' = IF q.result.file
                   THEN [made EXCEPT ![<<q.job.key, q.job.plugin>>] = q.read] ELSE made
    BY <1>1, <1>7, <2>1 DEF RunDerives, Moves, At, Id
  <2>4. n.next = 1
    BY <1>2, <2>2, <2>3 DEF RunOK
  <2>5. ASSUME NEW i \in DOMAIN jobs, i.key # q.job.key \/ i.plugin # q.job.plugin
        PROVE  Keeps(i)
    <3>1. CASE q.result.file
      BY <1>2, <1>3, <2>3, <2>5, <3>1, KeepsMade
    <3>2. CASE ~ q.result.file
      BY <1>3, <2>3, <3>2, Fields, PluginsMake, KeepsAll DEF Still
    <3>3. QED
      BY <3>1, <3>2
  <2>6. ASSUME NEW i \in DOMAIN jobs, i = q.job, IsCurrent(i)
        PROVE  Progress(n, i)'
    <3>1. Progress(q, i) /\ q.read = i.body /\ i.plugin \in Maker
      BY <1>2, <1>4, <2>3, <2>6 DEF ReadOK
    <3>2. /\ Stored(i) => Stored(i)'
          /\ ~ NeedsIndex(i.plugin) => ~ NeedsIndex(i.plugin)'
      BY <2>3, <3>1 DEF Still, Stored
    <3>3. n.result.file => MadeOf(i)'
      BY <1>2, <2>2, <2>3, <2>6, <3>1 DEF MadeOf, PipeTypeOK
    <3>4. \A m \in 1 .. Len(n.result.operations) : ~ (m < n.next)
      <4>1. n.result.operations \in Seq(Operation)
        BY <1>2, <2>2 DEF ResultRow
      <4>2. QED
        BY <2>4, <4>1
    <3>5. QED
      BY <2>2, <2>3, <3>1, <3>2, <3>3, <3>4 DEF Progress
  <2>7. QED
    BY <1>1, <2>2, <2>3, <2>5, <2>6, RunGoes
<1>8. CASE RunCopies(w)
  <2>1. PICK n : n = [q EXCEPT !.next = @ + 1]
    OBVIOUS
  <2>2. n \in WorkRow /\ n.job = q.job /\ n.op = q.op /\ n.result = q.result
    BY <2>1, RowAdvances DEF MovedRow
  <2>3. /\ q.op = "operate" /\ UNCHANGED jobs /\ work' = [work EXCEPT ![w] = n] /\ Still
        /\ made' = [made EXCEPT ![<<q.job.key, q.job.plugin>>] = object[q.job.key].body]
    BY <1>1, <1>8, <2>1 DEF RunCopies, Operates, At, Id
  <2>4. \A i \in DOMAIN jobs : i.key # q.job.key \/ i.plugin # q.job.plugin => Keeps(i)
    BY <1>2, <1>3, <2>3, KeepsMade
  <2>5. ASSUME NEW i \in DOMAIN jobs, i = q.job, IsCurrent(i)
        PROVE  Progress(n, i)'
    <3>1. Progress(q, i) /\ i.plugin \in Maker
      BY <1>2, <1>4, <2>5
    <3>2. /\ Stored(i) => Stored(i)'
          /\ ~ NeedsIndex(i.plugin) => ~ NeedsIndex(i.plugin)'
      BY <2>3, <3>1 DEF Still, Stored
    <3>3. object[i.key].body = i.body
      BY <2>5 DEF IsCurrent, SameGeneration
    <3>4. MadeOf(i)'
      BY <1>2, <2>3, <2>5, <3>3 DEF MadeOf, PipeTypeOK
    <3>5. QED
      BY <2>2, <2>3, <3>1, <3>2, <3>4 DEF Progress
  <2>6. QED
    BY <1>1, <2>2, <2>3, <2>4, <2>5, RunGoes
<1>9. CASE RunDeletes(w)
  <2>1. PICK n : n = [q EXCEPT !.next = @ + 1]
    OBVIOUS
  <2>2. n \in WorkRow /\ n.job = q.job /\ n.op = q.op
    BY <2>1, RowAdvances DEF MovedRow
  <2>3. /\ q.op = "operate" /\ UNCHANGED <<jobs, made, hnsw, backend>>
        /\ work' = [work EXCEPT ![w] = n]
        /\ object' = [object EXCEPT ![q.job.key] = None]
        /\ embeddings' = embeddings \ {e \in embeddings : e.key = q.job.key}
    BY <1>1, <1>9, <2>1 DEF RunDeletes, Operates, At, Id, WithoutRow, DeleteEmbeddings
  <2>4. object'[q.job.key] = None
    BY <1>2, <2>3 DEF PipeTypeOK
  <2>5. \A i \in DOMAIN jobs : IsCurrent(i)' => i.key # q.job.key
    BY <2>4 DEF IsCurrent, SameGeneration
  <2>6. ASSUME NEW i \in DOMAIN jobs, IsCurrent(i)'
        PROVE  Keeps(i)
    <3>1. \A e \in embeddings \ embeddings' : e.key # i.key
      BY <2>3, <2>5, <2>6
    <3>2. QED
      BY <1>3, <2>3, <3>1, KeepsStored
  <2>7. \A i \in DOMAIN jobs : ~ (i = q.job /\ IsCurrent(i)')
    BY <2>5
  <2>8. QED
    BY <1>1, <2>2, <2>3, <2>6, <2>7, RunGoes
<1>10. QED
  BY <1>6, <1>7, <1>8, <1>9

LEMMA PipeStarts == PipeInit => PipeInv
<1>1. SUFFICES ASSUME PipeInit PROVE PipeInv
  OBVIOUS
<1>2. BaseInv
  BY <1>1, BaseHolds
<1>3. DOMAIN jobs = {} /\ Running = {} /\ \A u \in Uploader : upload[u] = Idle
  BY <1>1 DEF PipeInit, Running
<1>4. QED
  BY <1>2, <1>3 DEF PipeInv, BaseInv, FreshInv, BodyInv, JobInv, RunInv

LEMMA PipeStep ==
  ASSUME PipeInv, [PipeNext]_pipeVars, Lone
  PROVE  PipeInv'
<1>1. BaseInv /\ BaseInv' /\ NoReturn
  BY BaseStep DEF PipeInv, BaseInv
<1>2. FreshInv' /\ BodyInv'
  BY <1>1, FreshStep, BodyStep DEF PipeInv, Lone
<1>3. JobInv' /\ RunInv'
  <2>1. CASE \E w \in Worker : \E i \in DOMAIN jobs : ClaimNextWASMPluginJob(w, i)
    BY <1>1, <2>1, ClaimStep DEF PipeInv
  <2>2. CASE \E w \in Worker : RunStep(w) \/ Crash(w) \/ CrashIndexing(w)
    <3>1. PICK w \in Worker : RunStep(w) \/ Crash(w) \/ CrashIndexing(w)
      BY <2>2
    <3>2. work[w] \in WorkRow /\ RunKinds(w)
      BY <3>1, RunStepKinds DEF PipeInv
    <3>3. QED
      BY <1>1, <3>2, QuietRun, LoudRun DEF PipeInv, RunKinds
  <2>3. CASE ~ \E w \in Worker : \/ \E i \in DOMAIN jobs : ClaimNextWASMPluginJob(w, i)
                                 \/ RunStep(w) \/ Crash(w) \/ CrashIndexing(w)
    BY <1>1, <2>3, OutsideStep DEF PipeInv, PipeNext
  <2>4. QED
    BY <2>1, <2>2, <2>3
<1>4. QED
  BY <1>1, <1>2, <1>3 DEF PipeInv, BaseInv

\* With one worker that does not outlive its heartbeats, and uploads of a key
\* one after the other, whatever fails, crashes, is deleted, refreshed or
\* opened again: a job that runWASMPluginJob reported as succeeded for the
\* generation its object still has left its vectors, indexed if pgvector
\* needs it, and its derived or copied object from those bytes.
THEOREM SucceededApplied ==
  ASSUME Lone
  PROVE  PipeSpec => []SucceededIsApplied
<1>1. PipeInit => PipeInv
  BY PipeStarts
<1>2. PipeInv /\ [PipeNext]_pipeVars => PipeInv'
  BY PipeStep
<1>3. PipeInv => SucceededIsApplied
  <2>1. SUFFICES ASSUME JobInv PROVE SucceededIsApplied
    BY DEF PipeInv
  <2>2. ASSUME NEW i \in DOMAIN jobs, jobs[i].status = "succeeded", SameGeneration(object[i.key], i)
        PROVE  Applied(i, jobs[i].result)
    BY <2>1, <2>2 DEF JobInv, IsCurrent
  <2>3. QED
    BY <2>2, Zenon DEF SucceededIsApplied, Applied, Stored, MadeOf
<1>4. QED
  BY <1>1, <1>2, <1>3, PTL DEF PipeSpec
=============================================================================
