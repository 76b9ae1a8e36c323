----------------------------- MODULE Maintenance -----------------------------
(***************************************************************************)
(* The background jobs that move bodies between accounts: replication      *)
(* (internal/app/replication_queue.go), migration (migration.go), repair   *)
(* (repair.go) and inventory import (inventory.go), on the durable rows    *)
(* their workers claim, heartbeat and recover (workers.go, store.go), and  *)
(* the reads that fall back to a replica (GetObject of service.go).        *)
(*                                                                         *)
(* A body is known by the number of the upload that made it, and lives     *)
(* under its key: an unversioned bucket.  What the jobs charge to the      *)
(* accounts belongs to module ProviderQuota and is left out.               *)
(***************************************************************************)
EXTENDS Integers, FiniteSets, FiniteSetsExt

CONSTANTS Account,       \* provider accounts
          Key,           \* object keys, in the order of the index
          Worker,        \* worker loops, of one or more instances
          Source,        \* source_provider_id, or the account imported from
          Target,        \* target_provider_id
          Targets,       \* replication_provider_ids of the bucket
          Foreign,       \* keys of bodies Source held before BucketMux
          JobInput,      \* the jobs an administrator may create
          MaxAttempts,   \* max_attempts of a replica: 5 in the code
          Hazards,       \* a subset of MaintenanceHazards
          MaxUpload,     \* bound on the uploads
          MaxCrash       \* bound on the crashes

MaintenanceHazards ==
  {"overlap",    \* clients write while a worker is at work
   "mix",        \* jobs and replication run beside each other
   "reroute",    \* an upload lands where a replica of its key lies
   "stall",      \* a worker outlives its heartbeat
   "down",       \* a provider may refuse a call, or be disabled
   "damage"}     \* a provider loses a body that has a replica

None == [absent |-> TRUE]
JobKind == {"copy", "move", "repair", "import", "reconcile"}

ASSUME MaintenanceAssumption ==
  /\ Key \subseteq Nat /\ IsFiniteSet(Key)
  /\ Source \in Account /\ Target \in Account \ {Source}
  /\ Targets \subseteq Account /\ Foreign \subseteq Key
  /\ JobInput \subseteq JobKind
  /\ MaxAttempts \in Nat \ {0} /\ MaxUpload \in Nat /\ MaxCrash \in Nat
  /\ Hazards \subseteq MaintenanceHazards

VARIABLES index,     \* objects: where every key is, or None
          replica,   \* object_replicas by key and account
          blobs,     \* the body every account holds under every key, 0: none
          job,       \* the row of migration_, repair_ or inventory_jobs
          work,      \* what every worker is doing
          uploads,   \* the last upload
          crashes    \* the crashes so far

maintVars == <<index, replica, blobs, job, work, uploads, crashes>>

Status == {"pending", "running", "succeeded", "failed"}
Row == [account : Account, content : Nat,
        status : {"none", "pending", "partial", "completed", "failed"}]
\* stored: remote_key names a body.
ReplicaRow == [status : Status, attempts : Nat, max : Nat, stored : BOOLEAN]
\* total, processed, succeeded and failed of a migration; checked, repaired
\* and failed of a repair; discovered, imported and missing of an inventory.
Counts == [total : Nat, done : Nat, good : Nat, bad : Nat]
Job == [kind : JobKind, status : {"pending", "running", "completed", "failed"},
        counts : Counts]
NoCounts == [total |-> 0, done |-> 0, good |-> 0, bad |-> 0]
Idle == [op |-> "idle"]

-----------------------------------------------------------------------------
(* Reading an object: the primary, else the first replica that answers.    *)

SucceededAt(k) == {a \in Account : replica[k][a] # None
                                   /\ replica[k][a].status = "succeeded"}
FromReplica(k) ==
  {blobs[a][k] : a \in SucceededAt(k)} \ {0}

\* The bodies GetObject may answer with; none: the read fails.
Served(k) ==
  IF blobs[index[k].account][k] # 0 THEN {blobs[index[k].account][k]}
  ELSE FromReplica(k)

Stored(k, a, c) == [blobs EXCEPT ![a][k] = c]
NoReplicas == [a \in Account |-> None]
UpsertObjectReplica(k, a, row) == replica' = [replica EXCEPT ![k][a] = row]
FailedForGood == [status |-> "failed", attempts |-> 1, max |-> 1, stored |-> FALSE]

-----------------------------------------------------------------------------
(* Clients.                                                                *)

Quiet == "overlap" \in Hazards \/ \A w \in Worker : work[w] = Idle

\* An object has no replica where it is.
ReplicaTargets(a) == Targets \ {a}

\* enqueueObjectReplicas.
Enqueued(a) ==
  [t \in Account |->
     IF t \in ReplicaTargets(a)
     THEN [status |-> "pending", attempts |-> 0, max |-> MaxAttempts, stored |-> FALSE]
     ELSE None]

HasRemote(k, a) == replica[k][a] # None /\ replica[k][a].stored

\* deleteObjectReplicas: the bodies first, then the rows.
WithoutReplicas(bs, k) ==
  [a \in Account |-> IF HasRemote(k, a) THEN [bs[a] EXCEPT ![k] = 0] ELSE bs[a]]

\* Mutant: the overwritten body is deleted even where the new one lies.
OverwrittenAnywhere(bs, k, a) ==
  IF index[k] = None THEN bs ELSE [bs EXCEPT ![index[k].account][k] = 0]

\* cleanupOverwrittenObject.
Overwritten(bs, k, a) ==
  IF index[k] = None \/ index[k].account = a THEN bs
  ELSE [bs EXCEPT ![index[k].account][k] = 0]

PutObject(k, a) ==
  /\ Quiet /\ uploads < MaxUpload
  /\ "reroute" \in Hazards \/ ~HasRemote(k, a)
  /\ uploads' = uploads + 1
  /\ index' = [index EXCEPT ![k] =
       [account |-> a, content |-> uploads + 1,
        status |-> IF ReplicaTargets(a) = {} THEN "none" ELSE "pending"]]
  /\ blobs' = WithoutReplicas(Overwritten(Stored(k, a, uploads + 1), k, a), k)
  /\ replica' = [replica EXCEPT ![k] = Enqueued(a)]
  /\ UNCHANGED <<job, work, crashes>>

\* Mutant: the rows of the replicas outlive their object.
DeleteObjectKeepingReplicas(k) ==
  /\ Quiet /\ index[k] # None
  /\ index' = [index EXCEPT ![k] = None]
  /\ blobs' = Stored(k, index[k].account, 0)
  /\ UNCHANGED <<replica, job, work, uploads, crashes>>

DeleteObject(k) ==
  /\ Quiet /\ index[k] # None
  /\ index' = [index EXCEPT ![k] = None]
  /\ blobs' = WithoutReplicas(Stored(k, index[k].account, 0), k)
  /\ replica' = [replica EXCEPT ![k] = NoReplicas]
  /\ UNCHANGED <<job, work, uploads, crashes>>

\* A provider loses the primary body of an object that a replica still has.
LoseBody(k) ==
  /\ "damage" \in Hazards /\ Quiet
  /\ index[k] # None /\ blobs[index[k].account][k] # 0
  /\ \E a \in SucceededAt(k) \ {index[k].account} : blobs[a][k] = index[k].content
  /\ blobs' = Stored(k, index[k].account, 0)
  /\ UNCHANGED <<index, replica, job, work, uploads, crashes>>

-----------------------------------------------------------------------------
(* Replication.                                                            *)

Working(op) == {w \in Worker : work[w] # Idle /\ (work[w].op = "job") = (op = "job")}
MayClaim(op) ==
  "mix" \in Hazards \/ Working(IF op = "job" THEN "replica" ELSE "job") = {}

Becomes(w, r) == work' = [work EXCEPT ![w] = r]

\* Mutant: a claim is not counted as an attempt.
ClaimWithoutCounting(w, k, a) ==
  /\ work[w] = Idle /\ MayClaim("replica")
  /\ replica[k][a] # None /\ replica[k][a].status = "pending"
  /\ replica' = [replica EXCEPT ![k][a].status = "running"]
  /\ Becomes(w, [op |-> "read", key |-> k, account |-> a])
  /\ UNCHANGED <<index, blobs, job, uploads, crashes>>

\* ClaimNextObjectReplica: whoever turns pending into running owns the row.
ClaimNextObjectReplica(w, k, a) ==
  /\ work[w] = Idle /\ MayClaim("replica")
  /\ replica[k][a] # None /\ replica[k][a].status = "pending"
  /\ replica' = [replica EXCEPT ![k][a].status = "running", ![k][a].attempts = @ + 1]
  /\ Becomes(w, [op |-> "read", key |-> k, account |-> a])
  /\ UNCHANGED <<index, blobs, job, uploads, crashes>>

Holds(w, k, a) == work[w] # Idle /\ work[w].op # "job"
                  /\ work[w].key = k /\ work[w].account = a

\* RecoverStaleObjectReplicas: nobody has touched the row for staleAfter.
RecoverStaleObjectReplicas(k, a) ==
  /\ replica[k][a] # None /\ replica[k][a].status = "running"
  /\ "stall" \in Hazards \/ \A w \in Worker : ~Holds(w, k, a)
  /\ replica' = [replica EXCEPT ![k][a].status = "pending"]
  /\ UNCHANGED <<index, blobs, job, work, uploads, crashes>>

At(w, op) == work[w] # Idle /\ work[w].op = op

\* The source object is gone: the row fails for good and nothing refreshes.
\* Otherwise the object and one of the bodies GetObject answers with are read.
ReadSource(w) ==
  LET k == work[w].key
      a == work[w].account
  IN  /\ At(w, "read")
      /\ IF index[k] = None
         THEN UpsertObjectReplica(k, a, FailedForGood) /\ Becomes(w, Idle)
         ELSE /\ UNCHANGED replica
              /\ IF Served(k) = {} THEN Becomes(w, [work[w] EXCEPT !.op = "fail"])
                 ELSE \E c \in Served(k) :
                        Becomes(w, [op |-> "put", key |-> k, account |-> a,
                                    want |-> index[k].content, body |-> c])
      /\ UNCHANGED <<index, blobs, job, uploads, crashes>>

\* putOnProvider, then verifyReplica: a copy that is not the object is deleted.
PutAndVerify(w) ==
  LET k == work[w].key
      a == work[w].account
      good == work[w].body = work[w].want
  IN  /\ At(w, "put")
      /\ blobs' = Stored(k, a, IF good THEN work[w].body ELSE 0)
      /\ Becomes(w, [op |-> IF good THEN "mark" ELSE "fail", key |-> k, account |-> a])
      /\ UNCHANGED <<index, replica, job, uploads, crashes>>

MarkSucceeded(w) ==
  LET k == work[w].key
      a == work[w].account
  IN  /\ At(w, "mark")
      /\ UpsertObjectReplica(k, a,
           [status |-> "succeeded", stored |-> TRUE,
            attempts |-> IF replica[k][a] = None THEN 1 ELSE Max({replica[k][a].attempts, 1}),
            max |-> IF replica[k][a] = None THEN MaxAttempts ELSE replica[k][a].max])
      /\ Becomes(w, [work[w] EXCEPT !.op = "list"])
      /\ UNCHANGED <<index, blobs, job, uploads, crashes>>

\* The provider refuses the put, or capacity cannot be reserved.
ProviderRefuses(w) ==
  /\ "down" \in Hazards
  /\ At(w, "put")
  /\ Becomes(w, [op |-> "fail", key |-> work[w].key, account |-> work[w].account])
  /\ UNCHANGED <<index, replica, blobs, job, uploads, crashes>>

\* failObjectReplica: another attempt after a backoff, or an alert.
FailObjectReplica(w) ==
  LET k == work[w].key
      a == work[w].account
      old == IF replica[k][a] = None
             THEN [status |-> "", attempts |-> 1, max |-> MaxAttempts, stored |-> FALSE]
             ELSE replica[k][a]
  IN  /\ At(w, "fail")
      /\ UpsertObjectReplica(k, a,
           [old EXCEPT !.status = IF old.attempts < old.max THEN "pending" ELSE "failed"])
      /\ Becomes(w, [work[w] EXCEPT !.op = "list"])
      /\ UNCHANGED <<index, blobs, job, uploads, crashes>>

\* failObjectReplicaPermanently: the account was disabled.
FailObjectReplicaPermanently(w) ==
  LET k == work[w].key
      a == work[w].account
  IN  /\ "down" \in Hazards /\ At(w, "read") /\ index[k] # None
      /\ UpsertObjectReplica(k, a, FailedForGood)
      /\ Becomes(w, [work[w] EXCEPT !.op = "list"])
      /\ UNCHANGED <<index, blobs, job, uploads, crashes>>

ReplicaStatus(rows) ==
  IF rows = {} THEN "none"
  ELSE IF \A r \in rows : r.status = "succeeded" THEN "completed"
  ELSE IF \E r \in rows : r.status = "succeeded" THEN "partial"
  ELSE IF \A r \in rows : r.status = "failed" THEN "failed"
  ELSE "pending"

\* refreshObjectReplicaStatus reads the object and its replicas ...
ListReplicas(w) ==
  LET k == work[w].key
      rows == {replica[k][a] : a \in Account} \ {None}
  IN  /\ At(w, "list")
      /\ Becomes(w, IF index[k] = None THEN Idle
                    ELSE [op |-> "refresh", key |-> k, account |-> work[w].account,
                          row |-> [index[k] EXCEPT !.status = ReplicaStatus(rows)]])
      /\ UNCHANGED <<index, replica, blobs, job, uploads, crashes>>

\* ... and writes the whole row back.
RefreshObjectReplicaStatus(w) ==
  /\ At(w, "refresh")
  /\ index' = [index EXCEPT ![work[w].key] = work[w].row]
  /\ Becomes(w, Idle)
  /\ UNCHANGED <<replica, blobs, job, uploads, crashes>>

-----------------------------------------------------------------------------
(* Jobs: created, claimed, recovered, and run over what they list.         *)

Migration == {"copy", "move"}
Inventory == {"import", "reconcile"}

CreateJob(kind) ==
  /\ job = None /\ kind \in JobInput
  /\ job' = [kind |-> kind, status |-> "pending", counts |-> NoCounts]
  /\ UNCHANGED <<index, replica, blobs, work, uploads, crashes>>

CreateMigrationJob(kind) == kind \in Migration /\ CreateJob(kind)
CreateRepairJob == CreateJob("repair")
CreateInventoryJob(kind) == kind \in Inventory /\ CreateJob(kind)

\* Whoever turns pending into running runs the job.
ClaimJob(w, kinds) ==
  /\ work[w] = Idle /\ MayClaim("job")
  /\ job # None /\ job.kind \in kinds /\ job.status = "pending"
  /\ job' = [job EXCEPT !.status = "running"]
  /\ Becomes(w, [op |-> "job", step |-> "start", counts |-> job.counts])
  /\ UNCHANGED <<index, replica, blobs, uploads, crashes>>

ClaimNextMigrationJob(w) == ClaimJob(w, Migration)
ClaimNextRepairJob(w) == ClaimJob(w, {"repair"})
ClaimNextInventoryJob(w) == ClaimJob(w, Inventory)

\* A worker that runs a job touches its row before it can become stale.
Touched == "stall" \notin Hazards /\ Working("job") # {}

\* A job whose worker is gone is run again from its first object, ...
RecoverJob(kinds, counts) ==
  /\ job # None /\ job.kind \in kinds /\ job.status = "running" /\ ~Touched
  /\ job' = [job EXCEPT !.status = "pending", !.counts = counts]
  /\ UNCHANGED <<index, replica, blobs, work, uploads, crashes>>

\* ... but only a migration starts its counters again.
RecoverStaleMigrationJobs == RecoverJob(Migration, NoCounts)
RecoverStaleRepairJobs == job # None /\ RecoverJob({"repair"}, job.counts)
RecoverStaleInventoryJobs == job # None /\ RecoverJob(Inventory, job.counts)

AtStep(w, step) == At(w, "job") /\ work[w].step = step
First(w) == CHOOSE o \in work[w].todo : \A p \in work[w].todo : o.key <= p.key
Rest(w) == work[w].todo \ {First(w)}
Plus(counts, good, bad) ==
  [counts EXCEPT !.done = @ + 1, !.good = @ + good, !.bad = @ + bad]

Indexed(keys) == {[key |-> k, row |-> index[k]] : k \in {x \in keys : index[x] # None}}

\* What a migration, a repair or an inventory works on: the objects of its
\* source, all objects, or the bodies the provider lists.
MigrationObjects == {o \in Indexed(Key) : o.row.account = Source}
RemoteObjects ==
  {[key |-> k, row |-> [account |-> Source, content |-> blobs[Source][k], status |-> "none"]] :
     k \in {x \in Key : blobs[Source][x] # 0}}
Listing ==
  IF job.kind \in Migration THEN MigrationObjects
  ELSE IF job.kind = "repair" THEN Indexed(Key) ELSE RemoteObjects

\* A job that is settled by now is left alone; a migration saves its total.
ListWork(w) ==
  LET n == [work[w].counts EXCEPT !.total =
              IF job.kind \in Migration THEN Cardinality(Listing) ELSE @]
  IN  /\ AtStep(w, "start")
      /\ IF job.status \in {"completed", "failed"}
         THEN Becomes(w, Idle) /\ UNCHANGED job
         ELSE /\ Becomes(w, [op |-> "job", step |-> "next", counts |-> n,
                             todo |-> Listing, seen |-> {o.key : o \in Listing}])
              /\ job' = [job EXCEPT !.status = "running", !.counts = n]
      /\ UNCHANGED <<index, replica, blobs, uploads, crashes>>

\* The next object: the worker's counters move, a migration saves them.
Counted(w, good, bad) ==
  LET n == Plus(work[w].counts, good, bad)
  IN  /\ Becomes(w, [op |-> "job", step |-> "next", counts |-> n,
                     todo |-> Rest(w), seen |-> work[w].seen])
      /\ job' = IF job.kind \in Migration
                THEN [job EXCEPT !.counts = n, !.status = "running"] ELSE job

Onto(w, step, body) ==
  Becomes(w, [op |-> "job", step |-> step, counts |-> work[w].counts,
              todo |-> work[w].todo, seen |-> work[w].seen, body |-> body])

HasNext(w, kinds) == AtStep(w, "next") /\ work[w].todo # {} /\ job.kind \in kinds

\* migrateObjectToProvider: the source is read where the listing saw it ...
MigrateRead(w) ==
  LET k == First(w).key
  IN  /\ HasNext(w, Migration)
      /\ IF blobs[Source][k] = 0 THEN Counted(w, 0, 1)
         ELSE Onto(w, "put", blobs[Source][k]) /\ UNCHANGED job
      /\ UNCHANGED <<index, replica, blobs, uploads, crashes>>

\* ... or the target refuses the object and the next one is tried.
MigrateRefused(w) ==
  /\ "down" \in Hazards /\ AtStep(w, "put") /\ job.kind \in Migration
  /\ Counted(w, 0, 1)
  /\ UNCHANGED <<index, replica, blobs, uploads, crashes>>

MigratePut(w) ==
  /\ AtStep(w, "put") /\ job.kind \in Migration
  /\ blobs' = Stored(First(w).key, Target, work[w].body)
  /\ Onto(w, "index", work[w].body)
  /\ UNCHANGED <<index, replica, job, uploads, crashes>>

\* A copy becomes a replica; a move changes the row it listed and saves it.
MigrateIndex(w) ==
  LET k == First(w).key
  IN  /\ AtStep(w, "index")
      /\ IF job.kind = "copy"
         THEN /\ replica' = [replica EXCEPT ![k][Target] =
                 [status |-> "succeeded", attempts |-> 0, max |-> MaxAttempts, stored |-> TRUE]]
              /\ Counted(w, 1, 0) /\ UNCHANGED index
         ELSE /\ index' = [index EXCEPT ![k] = [First(w).row EXCEPT !.account = Target]]
              /\ Onto(w, "delete", work[w].body) /\ UNCHANGED <<replica, job>>
      /\ UNCHANGED <<blobs, uploads, crashes>>

\* The source's body goes; a refusal leaves it there and is not an error.
MigrateDelete(w, refused) ==
  /\ AtStep(w, "delete")
  /\ refused => "down" \in Hazards
  /\ blobs' = IF refused THEN blobs ELSE Stored(First(w).key, Source, 0)
  /\ Counted(w, 1, 0)
  /\ UNCHANGED <<index, replica, uploads, crashes>>

\* RepairObject: healthy, or restored from a replica, or not repairable.
RepairRead(w) ==
  LET k == First(w).key
  IN  /\ HasNext(w, {"repair"})
      /\ IF index[k] = None THEN Counted(w, 0, 1)
         ELSE IF blobs[index[k].account][k] # 0 THEN Counted(w, 0, 0)
         ELSE IF FromReplica(k) = {} THEN Counted(w, 0, 1)
         ELSE \E c \in FromReplica(k) :
                /\ Becomes(w, [op |-> "job", step |-> "restore", counts |-> work[w].counts,
                               todo |-> work[w].todo, seen |-> work[w].seen,
                               body |-> c, row |-> index[k]])
                /\ UNCHANGED job
      /\ UNCHANGED <<index, replica, blobs, uploads, crashes>>

RepairWrite(w, refused) ==
  LET k == First(w).key
  IN  /\ AtStep(w, "restore")
      /\ refused => "down" \in Hazards
      /\ blobs' = IF refused THEN blobs ELSE Stored(k, work[w].row.account, work[w].body)
      /\ index' = IF refused THEN index ELSE [index EXCEPT ![k] = work[w].row]
      /\ Counted(w, IF refused THEN 0 ELSE 1, IF refused THEN 1 ELSE 0)
      /\ UNCHANGED <<replica, uploads, crashes>>

\* A listed body is indexed unless another account has the key.
ImportObject(w) ==
  LET k == First(w).key
  IN  /\ HasNext(w, Inventory)
      /\ index' = IF index[k] # None /\ index[k].account # Source THEN index
                  ELSE [index EXCEPT ![k] = First(w).row]
      /\ Counted(w, IF index[k] = None THEN 1 ELSE 0, 0)
      /\ UNCHANGED <<replica, blobs, uploads, crashes>>

\* The counters of a repair or an inventory are saved at the end of a page.
SavePage(w) ==
  /\ AtStep(w, "next") /\ work[w].todo = {}
  /\ job' = [job EXCEPT !.counts = work[w].counts, !.status = "running"]
  /\ Becomes(w, [work[w] EXCEPT !.step = "finish"])
  /\ UNCHANGED <<index, replica, blobs, uploads, crashes>>

Missing(w) ==
  {k \in Key : index[k] # None /\ index[k].account = Source /\ k \notin work[w].seen}

\* Mutant: a migration with failures is reported as complete.
FinalStatusOptimistic(n) == "completed"

FinalStatus(n) ==
  IF job.kind \in Migration /\ n.bad > 0 THEN "failed" ELSE "completed"

FinishJob(w) ==
  LET n == [work[w].counts EXCEPT !.bad =
              IF job.kind = "reconcile" THEN @ + Cardinality(Missing(w)) ELSE @]
  IN  /\ AtStep(w, "finish")
      /\ job' = [job EXCEPT !.counts = n, !.status = FinalStatus(n)]
      /\ Becomes(w, Idle)
      /\ UNCHANGED <<index, replica, blobs, uploads, crashes>>

\* A listing failed, or the account is disabled.
FailAt(w, steps) ==
  /\ "down" \in Hazards /\ At(w, "job") /\ work[w].step \in steps
  /\ job' = [job EXCEPT !.counts = work[w].counts, !.status = "failed"]
  /\ Becomes(w, Idle)
  /\ UNCHANGED <<index, replica, blobs, uploads, crashes>>

\* A migration lists everything before it starts.
FailMigrationJob(w) == job # None /\ job.kind \in Migration /\ FailAt(w, {"start"})
FailRepairJob(w) == job # None /\ job.kind = "repair" /\ FailAt(w, {"start", "next"})
FailInventoryJob(w) == job # None /\ job.kind \in Inventory /\ FailAt(w, {"start", "next"})

\* The process stops, or its context is cancelled: the row stays running.
Crash(w) ==
  /\ work[w] # Idle /\ crashes < MaxCrash
  /\ crashes' = crashes + 1
  /\ Becomes(w, Idle)
  /\ UNCHANGED <<index, replica, blobs, job, uploads>>

-----------------------------------------------------------------------------
(* The specification.                                                      *)

MaintInit ==
  /\ index = [k \in Key |-> None]
  /\ replica = [k \in Key |-> NoReplicas]
  /\ blobs = [a \in Account |-> [k \in Key |->
       IF a = Source /\ k \in Foreign THEN MaxUpload + 1 ELSE 0]]
  /\ job = None
  /\ work = [w \in Worker |-> Idle]
  /\ uploads = 0 /\ crashes = 0

Replicate(w) ==
  \/ ReadSource(w) \/ PutAndVerify(w) \/ MarkSucceeded(w) \/ ProviderRefuses(w)
  \/ FailObjectReplica(w) \/ FailObjectReplicaPermanently(w)
  \/ ListReplicas(w) \/ RefreshObjectReplicaStatus(w)

RunJob(w) ==
  \/ ListWork(w) \/ FailMigrationJob(w) \/ FailRepairJob(w) \/ FailInventoryJob(w)
  \/ MigrateRead(w) \/ MigrateRefused(w) \/ MigratePut(w) \/ MigrateIndex(w)
  \/ \E refused \in BOOLEAN : MigrateDelete(w, refused) \/ RepairWrite(w, refused)
  \/ RepairRead(w) \/ ImportObject(w)
  \/ SavePage(w) \/ FinishJob(w)

Claim(w) ==
  \/ ClaimNextMigrationJob(w) \/ ClaimNextRepairJob(w) \/ ClaimNextInventoryJob(w)
  \/ \E k \in Key, a \in Account : ClaimNextObjectReplica(w, k, a)
Recover ==
  \/ RecoverStaleMigrationJobs \/ RecoverStaleRepairJobs \/ RecoverStaleInventoryJobs
  \/ \E k \in Key, a \in Account : RecoverStaleObjectReplicas(k, a)

MaintNext ==
  \/ \E k \in Key : DeleteObject(k) \/ LoseBody(k) \/ \E a \in Account : PutObject(k, a)
  \/ \E kind \in JobInput : CreateMigrationJob(kind) \/ CreateInventoryJob(kind)
  \/ CreateRepairJob
  \/ \E w \in Worker : Claim(w) \/ Replicate(w) \/ RunJob(w) \/ Crash(w)
  \/ Recover

\* A worker loop wakes every two seconds, recovers what is stale and claims
\* until nothing is pending; an item it runs comes to an end.
MaintSpec ==
  /\ MaintInit /\ [][MaintNext]_maintVars
  /\ \A w \in Worker :
       WF_maintVars(Claim(w)) /\ WF_maintVars(Replicate(w) \/ RunJob(w))
  /\ WF_maintVars(Recover)

-----------------------------------------------------------------------------
(* Properties.                                                             *)

\* GetObject answers for every indexed key, and with the last upload of it:
\* wherever a migration, a repair or a crash has left its bodies, the primary
\* or a replica it falls back to has them, and neither has an older one.
LatestIsServed ==
  \A k \in Key : index[k] # None => Served(k) = {index[k].content}

\* A replica reported as succeeded holds the object as it is now, and an
\* object is reported as completely replicated only when every replica is.
SucceededIsReplicated ==
  \A k \in Key, a \in Account :
    LET r == replica[k][a]
    IN  r # None =>
          /\ r.status = "succeeded" =>
               /\ index[k] # None
               /\ a = index[k].account \/ blobs[a][k] = index[k].content
          /\ index[k] # None /\ index[k].status = "completed" => r.status = "succeeded"

\* What each kind of job promises of the keys it was created for.
Done ==
  CASE job.kind = "copy" ->
         \A k \in Key : index[k] # None /\ index[k].account = Source => Target \in SucceededAt(k)
    [] job.kind = "move" -> \A k \in Key : index[k] # None => index[k].account # Source
    [] job.kind = "repair" ->
         job.counts.bad = 0 =>
           \A k \in Key : index[k] # None => blobs[index[k].account][k] = index[k].content
    [] OTHER -> \A k \in Key : blobs[Source][k] # 0 => index[k] # None

\* A job reported as completed has done its work on every key, however often
\* it was interrupted and run again, and a migration's counters agree.
CompletedIsDone ==
  [][job # None /\ job.status # "completed" /\ job'.status = "completed"
       => /\ Done'
          /\ job.kind \in Migration =>
               job'.counts = [total |-> job'.counts.total, done |-> job'.counts.total,
                              good |-> job'.counts.total, bad |-> 0]]_maintVars

Settled(r) == r = None \/ r.status \notin {"pending", "running"}

\* Every job and every replica is settled in the end: retries are exhausted,
\* and what a stopped worker held is recovered.
WorkIsSettled ==
  /\ <>[](Settled(job))
  /\ \A k \in Key, a \in Account : <>[](Settled(replica[k][a]))
=============================================================================
