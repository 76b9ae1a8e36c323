-------------------------- MODULE ObjectProtection --------------------------
(***************************************************************************)
(* One key of a bucket under versioning, trash, Object Lock and lifecycle  *)
(* (internal/app/protection.go, PutObject of service.go, lifecycle.go):    *)
(* the index row, its versions and trash rows, and the bodies they name.   *)
(*                                                                         *)
(* A request reads in one step and writes in another, so that whatever it  *)
(* read may be stale when it writes.  One counter numbers bodies, version  *)
(* ids, markers and created_at; every body has one byte.  The upload loop  *)
(* is module Upload's: here a body reaches some account.                   *)
(***************************************************************************)
EXTENDS Integers, FiniteSets, Sequences

CONSTANTS Account,       \* provider accounts
          Request,       \* requests served at the same time
          LockInput,     \* the lock headers of an upload: mode, days, hold
          DefaultMode,   \* the bucket's default retention: its mode ...
          DefaultDays,   \* ... and its days
          ExpireAfter,   \* ExpireAfterDays of the lifecycle rule, 0: none
          TrashDays,     \* trash_retention_days
          PurgeAfter,    \* PurgeTrashAfterDays of the rule, 0: none
          OtherBytes,    \* what other keys occupy of every account
          Hazards,       \* a subset of ProtectionHazards
          MaxStamp,      \* bound on the bodies and markers written
          MaxNow         \* bound on the days that pass

ProtectionHazards ==
  {"overlap",   \* unversioned keys and deleted versions are raced for, too
   "reuse",     \* a trashed key is uploaded again
   "suspend",   \* a bucket in use loses its versioning
   "outlive",   \* a lifecycle run takes longer than its lease
   "down"}      \* a provider may refuse a delete

Mode == {"", "GOVERNANCE", "COMPLIANCE"}
None == [absent |-> TRUE]
NoVersion == -1     \* version_id "" of an object without a version
NullVersion == 0    \* version_id "null"

ASSUME ProtectionAssumption ==
  /\ LockInput \subseteq [mode : Mode, days : Nat, hold : BOOLEAN]
  /\ DefaultMode \in Mode \ {""} /\ DefaultDays \in Nat
  /\ ExpireAfter \in Nat /\ TrashDays \in Nat /\ PurgeAfter \in Nat
  /\ OtherBytes \in Nat /\ Hazards \subseteq ProtectionHazards
  /\ MaxStamp \in Nat /\ MaxNow \in Nat

VARIABLES bucket,    \* its versioning, trash and lock columns
          object,    \* the row of objects with its object_attributes, or None
          versions,  \* object_versions of the key
          trash,     \* trash_objects of the key
          blobs,     \* the bodies the accounts hold
          used,      \* used_bytes of every account
          request,   \* what every request in flight has read
          lease,     \* whether the row "lifecycle" of maintenance_leases holds
          stamp,     \* the last number given out
          now        \* the day

protVars == <<bucket, object, versions, trash, blobs, used, request,
              lease, stamp, now>>

Lock == [mode : Mode, until : Nat, hold : BOOLEAN]
NoLock == [mode |-> "", until |-> 0, hold |-> FALSE]
Body == [account : Account, remote : Nat, content : Nat]
ObjectRow == [body : Body, created : Nat, version : Nat \cup {NoVersion},
              lock : Lock, updated : Nat]
VersionRow == [id : Nat, body : Body \cup {None}, created : Nat, lock : Lock]
TrashRow == [id : Nat, body : Body, created : Nat, due : Nat]
Bucket == [versioning : BOOLEAN, trash : BOOLEAN, lock : BOOLEAN]
Idle == [op |-> "idle"]
-----------------------------------------------------------------------------
(* Rows and bodies.                                                        *)

IsMarker(v) == v.body = None
Without(bs, place) ==
  {b \in bs : <<b.account, b.remote>> # <<place.account, place.remote>>}
Charged(a) == [used EXCEPT ![a] = @ + 1]
Uncharged(u, a) == [u EXCEPT ![a] = IF @ > 0 THEN @ - 1 ELSE 0]

\* PutObjectVersion: ON CONFLICT DO NOTHING.
Inserted(vs, v) == IF \E w \in vs : w.id = v.id THEN vs ELSE vs \cup {v}

VersionOf(o) ==
  [id |-> IF o.version = NoVersion THEN NullVersion ELSE o.version,
   body |-> o.body, created |-> o.created, lock |-> o.lock]

\* ListObjectVersions: created_at, newest first.
IsNewest(v, vs) == v \in vs /\ \A w \in vs : w.created <= v.created
NewestIsBody(vs) == \E v \in vs : IsNewest(v, vs) /\ ~IsMarker(v)

\* restoreVersionAsCurrent.
AsCurrent(vs) ==
  LET v == CHOOSE w \in vs : IsNewest(w, vs)
  IN  [body |-> v.body, created |-> v.created, version |-> v.id,
       lock |-> v.lock, updated |-> now]

\* Mutant: only the mode is looked at, as if every lock were a retention.
DeletableIgnoringHold(row, bypass) ==
  row.lock.until > now => row.lock.mode # "COMPLIANCE" /\ bypass

\* validateObjectDeletion.
Deletable(row, bypass) ==
  /\ ~row.lock.hold
  /\ row.lock.until > now => row.lock.mode # "COMPLIANCE" /\ bypass

\* Clients race for a versioned key as they like; every other race is a hazard.
Alone == \A r \in Request : request[r] = Idle
MayStart(op) ==
  \/ Alone
  \/ "overlap" \in Hazards
  \/ /\ bucket.versioning /\ op \in {"put", "delete"}
     /\ \A r \in Request : request[r].op \in {"idle", "put", "delete"}
Undisturbed == Alone \/ "overlap" \in Hazards
-----------------------------------------------------------------------------
(* PutObject.                                                              *)

LockOf(b, l) ==
  IF b.lock /\ l.mode = "" /\ DefaultDays > 0
  THEN [mode |-> DefaultMode, until |-> now + DefaultDays, hold |-> l.hold]
  ELSE [mode |-> l.mode, until |-> IF l.mode = "" THEN 0 ELSE now + l.days,
        hold |-> l.hold]

LockAllowed(b, l) ==
  /\ (l.mode # "" \/ l.hold) => b.lock
  /\ LockOf(b, l).mode # "" => LockOf(b, l).until > now

\* An upload with a lock the bucket does not allow is refused here.
ReadForPut(r, l) ==
  /\ request[r] = Idle /\ MayStart("put")
  /\ LockAllowed(bucket, l)
  /\ trash # {} => "reuse" \in Hazards
  /\ request' = [request EXCEPT ![r] =
       [op |-> "put", bucket |-> bucket, seen |-> object, lock |-> LockOf(bucket, l)]]
  /\ UNCHANGED <<bucket, object, versions, trash, blobs, used, lease, stamp, now>>

Row(r, a) ==
  LET b == request[r].bucket
  IN  [body |-> [account |-> a, remote |-> IF b.versioning THEN stamp + 1 ELSE 0,
                 content |-> stamp + 1],
       created |-> stamp + 1,
       version |-> IF b.versioning THEN stamp + 1 ELSE NoVersion,
       lock |-> request[r].lock, updated |-> now]

\* The first created_at of the row survives the upsert.
Upserted(row) ==
  IF object = None THEN row ELSE [row EXCEPT !.created = object.created]

VersionsAfterPut(q, row) ==
  IF ~q.bucket.versioning THEN versions
  ELSE Inserted(IF q.seen = None THEN versions
                ELSE Inserted(versions, VersionOf(q.seen)), VersionOf(row))

\* cleanupOverwrittenObject; whether the provider deletes, nobody looks at.
CleanupOverwrittenObject(q, row) ==
  LET stored == Without(blobs, row.body) \cup {row.body}
      replaced == q.seen # None /\ ~q.bucket.versioning
      moved == replaced /\ <<q.seen.body.account, q.seen.body.remote>>
                           # <<row.body.account, row.body.remote>>
  IN  /\ used' = IF replaced THEN Uncharged(Charged(row.body.account),
                                            q.seen.body.account)
                 ELSE Charged(row.body.account)
      /\ \/ blobs' = IF moved THEN Without(stored, q.seen.body) ELSE stored
         \/ moved /\ "down" \in Hazards /\ blobs' = stored

PutObject(r, a) ==
  LET q == request[r]
      row == Row(r, a)
  IN  /\ q.op = "put" /\ stamp < MaxStamp
      /\ object' = Upserted(row)
      /\ versions' = VersionsAfterPut(q, row)
      /\ CleanupOverwrittenObject(q, row)
      /\ stamp' = stamp + 1
      /\ request' = [request EXCEPT ![r] = Idle]
      /\ UNCHANGED <<bucket, trash, lease, now>>
-----------------------------------------------------------------------------
(* DeleteObjectWithOptions of the current object.                          *)

ReadForDelete(r, bypass) ==
  /\ \/ request[r] = Idle /\ MayStart("delete")
     \/ request[r].op = "expire" /\ ~bypass
  /\ object # None /\ Deletable(object, bypass)
  /\ request' = [request EXCEPT ![r] =
       [op |-> "delete", bucket |-> bucket, seen |-> object, lock |-> NoLock]]
  /\ UNCHANGED <<bucket, object, versions, trash, blobs, used, lease, stamp, now>>

Marker(n) == [id |-> n, body |-> None, created |-> n, lock |-> NoLock]

LeaveMarker(o) ==
  /\ versions' = Inserted(Inserted(versions, VersionOf(o)), Marker(stamp + 1))
  /\ UNCHANGED <<trash, blobs, used>>

\* Mutant: the body goes although the row in the trash still names it.
MoveToTrashDroppingBody(o) ==
  /\ trash' = trash \cup {[id |-> stamp + 1, body |-> o.body, created |-> stamp + 1,
                           due |-> now + TrashDays]}
  /\ blobs' = Without(blobs, o.body)
  /\ UNCHANGED <<versions, used>>

\* Mutant: the bytes are given back when the object enters the trash.
MoveToTrashRefunded(o) ==
  /\ trash' = trash \cup {[id |-> stamp + 1, body |-> o.body, created |-> stamp + 1,
                           due |-> now + TrashDays]}
  /\ used' = Uncharged(used, o.body.account)
  /\ UNCHANGED <<versions, blobs>>

MoveToTrash(o) ==
  /\ trash' = trash \cup {[id |-> stamp + 1, body |-> o.body, created |-> stamp + 1,
                           due |-> now + TrashDays]}
  /\ UNCHANGED <<versions, blobs, used>>

DeleteBody(o) ==
  /\ blobs' = Without(blobs, o.body)
  /\ used' = Uncharged(used, o.body.account)
  /\ UNCHANGED <<versions, trash>>

DeleteObject(r) ==
  LET q == request[r]
  IN  /\ q.op = "delete"
      /\ \/ /\ q.bucket.versioning /\ stamp < MaxStamp
            /\ LeaveMarker(q.seen) /\ stamp' = stamp + 1
         \/ /\ ~q.bucket.versioning /\ q.bucket.trash /\ stamp < MaxStamp
            /\ MoveToTrash(q.seen) /\ stamp' = stamp + 1
         \/ /\ ~q.bucket.versioning /\ ~q.bucket.trash
            /\ DeleteBody(q.seen) /\ UNCHANGED stamp
      /\ object' = None
      /\ request' = [request EXCEPT ![r] = Idle]
      /\ UNCHANGED <<bucket, lease, now>>

-----------------------------------------------------------------------------
(* deleteObjectVersion.                                                    *)

ReadVersion(r, v, bypass) ==
  /\ request[r] = Idle /\ MayStart("drop")
  /\ ~IsMarker(v) => Deletable(v, bypass)
  /\ request' = [request EXCEPT ![r] =
       [op |-> "drop", bucket |-> bucket, seen |-> v, lock |-> NoLock]]
  /\ UNCHANGED <<bucket, object, versions, trash, blobs, used, lease, stamp, now>>

\* Mutant: the newest version is restored even from under a delete marker.
RestoreLatestAnyBody(left, wasCurrent) ==
  LET bodies == {v \in left : ~IsMarker(v)}
  IN  IF bodies # {} THEN AsCurrent(bodies)
      ELSE IF wasCurrent THEN None ELSE object

\* restoreLatestObjectVersion, and the same loop in deleteObjectVersion.
RestoreLatest(left, wasCurrent) ==
  IF NewestIsBody(left) THEN AsCurrent(left)
  ELSE IF wasCurrent THEN None ELSE object

DeleteObjectVersion(r) ==
  LET v == request[r].seen
      left == {w \in versions : w.id # v.id}
      isCurrent == object # None /\ object.version = v.id
  IN  /\ request[r].op = "drop"
      /\ versions' = left
      /\ IF IsMarker(v)
         THEN object' = RestoreLatest(left, FALSE) /\ UNCHANGED <<blobs, used>>
         ELSE /\ object' = IF isCurrent THEN RestoreLatest(left, TRUE) ELSE object
              /\ blobs' = Without(blobs, v.body)
              /\ used' = Uncharged(used, v.body.account)
      /\ request' = [request EXCEPT ![r] = Idle]
      /\ UNCHANGED <<bucket, trash, lease, stamp, now>>

\* The provider refuses the delete: the handler returns before its first write.
ProviderRefuses(r) ==
  /\ "down" \in Hazards
  /\ \/ request[r].op = "delete" /\ ~request[r].bucket.versioning
                                 /\ ~request[r].bucket.trash
     \/ request[r].op = "drop" /\ ~IsMarker(request[r].seen)
  /\ request' = [request EXCEPT ![r] = Idle]
  /\ UNCHANGED <<bucket, object, versions, trash, blobs, used, lease, stamp, now>>

-----------------------------------------------------------------------------
(* Retention and legal hold: UpdateObjectProtection under its two handlers. *)

UpdateObjectVersionProtection(id, l) ==
  versions' = {IF v.id = id THEN [v EXCEPT !.lock = l] ELSE v : v \in versions}

Protect(id, l) ==
  /\ UpdateObjectVersionProtection(id, l)
  /\ object' = IF object # None /\ object.version = id
               THEN [object EXCEPT !.lock = l] ELSE object

Protected == {v \in versions : ~IsMarker(v)}
             \cup (IF object # None /\ object.version = NoVersion
                   THEN {[id |-> NoVersion, lock |-> object.lock]} ELSE {})

PutObjectRetention(row, mode, days, bypass) ==
  /\ bucket.lock /\ Undisturbed
  /\ mode # "" /\ days > 0
  /\ (row.lock.mode = "COMPLIANCE" \/ (row.lock.mode = "GOVERNANCE" /\ ~bypass))
     /\ row.lock.until > now => now + days >= row.lock.until
  /\ Protect(row.id, [mode |-> mode, until |-> now + days, hold |-> row.lock.hold])
  /\ UNCHANGED <<bucket, trash, blobs, used, request, lease, stamp, now>>

PutObjectLegalHold(row, hold) ==
  /\ bucket.lock /\ Undisturbed
  /\ Protect(row.id, [row.lock EXCEPT !.hold = hold])
  /\ UNCHANGED <<bucket, trash, blobs, used, request, lease, stamp, now>>

-----------------------------------------------------------------------------
(* Trash and lifecycle.                                                    *)

RestoreTrashObject(t) ==
  /\ object = None /\ Undisturbed
  /\ object' = [body |-> t.body, created |-> t.created, version |-> NoVersion,
                lock |-> NoLock, updated |-> now]
  /\ trash' = trash \ {t}
  /\ UNCHANGED <<bucket, versions, blobs, used, request, lease, stamp, now>>

\* PurgeTrashObject: the body, the row, the bytes; a row that is gone is no error.
Purged(t) ==
  /\ blobs' = Without(blobs, t.body)
  /\ trash' = trash \ {t}
  /\ used' = Uncharged(used, t.body.account)

PurgeTrashObject(t) ==
  /\ Undisturbed /\ Purged(t)
  /\ UNCHANGED <<bucket, object, versions, request, lease, stamp, now>>

-----------------------------------------------------------------------------
(* RunLifecycleOnce, by one instance at a time.                            *)

Sweeping == {r \in Request : request[r].op \in {"sweep", "purge"}}

\* AcquireMaintenanceLease; a run that finds no trash does nothing.
StartSweep(r) ==
  /\ request[r] = Idle /\ ~lease
  /\ "overlap" \in Hazards \/ \A q \in Request \ Sweeping : request[q] = Idle
  /\ trash # {}
  /\ lease' = TRUE
  /\ request' = [request EXCEPT ![r] = [op |-> "sweep"]]
  /\ UNCHANGED <<bucket, object, versions, trash, blobs, used, stamp, now>>

ListTrashObjectsDue == {t \in trash : t.due <= now}
ListTrashObjectsForLifecycle ==
  {t \in trash : PurgeAfter > 0 /\ t.due - TrashDays + PurgeAfter <= now}

\* Trash past its date is purged, and what has lain there as long as a rule says.
ReadTrash(r, listed) ==
  /\ request[r].op = "sweep"
  /\ \E t \in listed : request' = [request EXCEPT ![r] = [op |-> "purge", seen |-> t]]
  /\ UNCHANGED <<bucket, object, versions, trash, blobs, used, lease, stamp, now>>

PurgeListed(r) ==
  /\ request[r].op = "purge"
  /\ Purged(request[r].seen)
  /\ request' = [request EXCEPT ![r] = [op |-> "sweep"]]
  /\ UNCHANGED <<bucket, object, versions, lease, stamp, now>>

\* The provider refuses: the row stays for another run.
PurgeRefused(r) ==
  /\ "down" \in Hazards /\ request[r].op = "purge"
  /\ request' = [request EXCEPT ![r] = [op |-> "sweep"]]
  /\ UNCHANGED <<bucket, object, versions, trash, blobs, used, lease, stamp, now>>

\* ReleaseMaintenanceLease: by its name, whoever holds it now.
EndSweep(r) ==
  /\ request[r].op = "sweep"
  /\ lease' = FALSE
  /\ request' = [request EXCEPT ![r] = Idle]
  /\ UNCHANGED <<bucket, object, versions, trash, blobs, used, stamp, now>>

\* The instance stops in the middle of a run; its lease runs out later.
CrashSweep(r) ==
  /\ r \in Sweeping
  /\ request' = [request EXCEPT ![r] = Idle]
  /\ UNCHANGED <<bucket, object, versions, trash, blobs, used, lease, stamp, now>>

LeaseExpires ==
  /\ lease /\ (Sweeping # {} => "outlive" \in Hazards)
  /\ lease' = FALSE
  /\ UNCHANGED <<bucket, object, versions, trash, blobs, used, request, stamp, now>>

\* An object that is old enough in the listing is deleted by its key.  Deleting
\* it twice does no more, so these runs need no lease here.
ListForExpiry(r) ==
  /\ request[r] = Idle /\ MayStart("delete")
  /\ ExpireAfter > 0 /\ object # None /\ object.updated + ExpireAfter <= now
  /\ request' = [request EXCEPT ![r] =
       [op |-> "expire", bucket |-> bucket, seen |-> object, lock |-> NoLock]]
  /\ UNCHANGED <<bucket, object, versions, trash, blobs, used, lease, stamp, now>>

\* The delete of an expired object fails: it is gone or locked by now.
SkipExpiry(r) ==
  /\ request[r].op = "expire"
  /\ object # None => ~Deletable(object, FALSE)
  /\ request' = [request EXCEPT ![r] = Idle]
  /\ UNCHANGED <<bucket, object, versions, trash, blobs, used, lease, stamp, now>>

-----------------------------------------------------------------------------
(* The bucket's settings.                                                  *)

SetBucket(b) ==
  /\ Undisturbed /\ bucket' = b /\ b # bucket
  /\ UNCHANGED <<object, versions, trash, blobs, used, request, lease, stamp, now>>

NeverUsed == object = None /\ versions = {} /\ trash = {}

PutBucketVersioning(on) ==
  /\ on => trash = {} \/ "reuse" \in Hazards
  /\ ~on => NeverUsed \/ "suspend" \in Hazards
  /\ SetBucket([bucket EXCEPT !.versioning = on])

PutBucketObjectLock ==
  /\ trash = {} \/ "reuse" \in Hazards
  /\ SetBucket([bucket EXCEPT !.lock = TRUE, !.versioning = TRUE])

SaveBucketTrash(on) == SetBucket([bucket EXCEPT !.trash = on])

\* PUT of a bucket that exists writes every column back to its default.
CreateBucket ==
  /\ NeverUsed \/ "suspend" \in Hazards
  /\ SetBucket([versioning |-> FALSE, trash |-> FALSE, lock |-> FALSE])

DayPasses ==
  /\ now < MaxNow /\ now' = now + 1
  /\ UNCHANGED <<bucket, object, versions, trash, blobs, used, request, lease, stamp>>
-----------------------------------------------------------------------------

ProtInit ==
  /\ bucket = [versioning |-> FALSE, trash |-> FALSE, lock |-> FALSE]
  /\ object = None /\ versions = {} /\ trash = {} /\ blobs = {}
  /\ used = [a \in Account |-> OtherBytes]
  /\ lease = FALSE
  /\ request = [r \in Request |-> Idle]
  /\ stamp = 0 /\ now = 0

RequestStep(r) ==
  \/ \E l \in LockInput : ReadForPut(r, l)
  \/ \E a \in Account : PutObject(r, a)
  \/ \E bypass \in BOOLEAN : ReadForDelete(r, bypass)
  \/ DeleteObject(r)
  \/ \E v \in versions, bypass \in BOOLEAN : ReadVersion(r, v, bypass)
  \/ DeleteObjectVersion(r)
  \/ ProviderRefuses(r)
  \/ ListForExpiry(r)
  \/ SkipExpiry(r)
  \/ StartSweep(r) \/ ReadTrash(r, ListTrashObjectsDue)
  \/ ReadTrash(r, ListTrashObjectsForLifecycle)
  \/ PurgeListed(r) \/ PurgeRefused(r) \/ EndSweep(r) \/ CrashSweep(r)

ProtNext ==
  \/ \E r \in Request : RequestStep(r)
  \/ \E p \in Protected, m \in Mode, d \in 1..MaxNow, bypass \in BOOLEAN :
       PutObjectRetention(p, m, d, bypass)
  \/ \E p \in Protected, hold \in BOOLEAN : PutObjectLegalHold(p, hold)
  \/ \E t \in trash : RestoreTrashObject(t) \/ PurgeTrashObject(t)
  \/ LeaseExpires
  \/ \E on \in BOOLEAN : PutBucketVersioning(on) \/ SaveBucketTrash(on)
  \/ PutBucketObjectLock
  \/ CreateBucket
  \/ DayPasses

ProtSpec == ProtInit /\ [][ProtNext]_protVars
-----------------------------------------------------------------------------

\* Whatever was uploaded, deleted, restored and purged before, and however
\* uploads and deletes of a versioned key overlap, the body of the current
\* object, of every version and of what is in the trash is stored, with the
\* content its row describes: no delete, purge or overwrite removes a body
\* another row still names.
RowsAreStored ==
  /\ object # None => object.body \in blobs
  /\ \A v \in versions : IsMarker(v) \/ v.body \in blobs
  /\ \A t \in trash : t.body \in blobs

\* used_bytes never misses a body that a row of this or another key still names,
\* though overwrites, purges, version deletes and lifecycle runs that follow one
\* another each give back what they think they removed.
RowsAreCharged ==
  \A a \in Account :
    Cardinality({b \in {v.body : v \in versions} \cup {t.body : t \in trash}
                        \cup {IF object = None THEN None ELSE object.body} :
                  b # None /\ b.account = a}) + OtherBytes <= used[a]

Locked(v) == v.lock.hold \/ (v.lock.mode = "COMPLIANCE" /\ v.lock.until > now)

\* A version under legal hold or unexpired COMPLIANCE retention keeps its row
\* and its body through every step of every client, administrator and sweeper.
LockedIsKept ==
  [][\A v \in versions : ~IsMarker(v) /\ Locked(v) =>
       v.body \in blobs' /\ \E w \in versions' : w.id = v.id /\ w.body = v.body]_protVars

\* The versions oldest first, as KeyHistory tells them.
HistoryOf ==
  [i \in 1..Cardinality(versions) |->
     LET v == CHOOSE w \in versions :
                Cardinality({u \in versions : u.created <= w.created}) = i
     IN  [id |-> v.id, content |-> IF IsMarker(v) THEN 0 ELSE v.body.content]]

H == INSTANCE KeyHistory WITH
       Id <- 0..MaxStamp, Content <- 1..MaxStamp, NoContent <- 0,
       history <- HistoryOf,
       null <- IF object # None /\ object.version = NoVersion
               THEN object.body.content ELSE 0,
       current <- IF object = None THEN 0 ELSE object.body.content

\* The index row, the version rows and their bodies together behave as one
\* history of the key: a read answers the newest version unless a marker hides
\* it, through overlapping uploads and deletes and restored versions.
ImplementsHistory == H!HistSpec
=============================================================================
