----------------------- MODULE ObjectProtectionProofs -----------------------
(***************************************************************************)
(* The rows of a key against its bodies, its bytes and its locks, for any  *)
(* accounts, requests, lock headers, lifecycle rule and number of writes.  *)
(*                                                                         *)
(* The hypothesis Calm leaves out the races that module ObjectProtection   *)
(* lists as hazards and keeps providers that refuse deletes; uploads and   *)
(* deletes of a versioned key still overlap as they like.                  *)
(***************************************************************************)
EXTENDS ObjectProtection, FiniteSetTheorems, TLAPS

Calm == Hazards \subseteq {"down"}

KeyReq == [op : {"put", "delete", "expire"}, bucket : Bucket,
           seen : ObjectRow \cup {None}, lock : Lock]
DropReq == [op : {"drop"}, bucket : Bucket, seen : VersionRow, lock : Lock]
SweepReq == [op : {"sweep"}]
PurgeReq == [op : {"purge"}, seen : TrashRow]
RequestType == {Idle} \cup KeyReq \cup DropReq \cup SweepReq \cup PurgeReq

ProtTypeOK ==
  /\ bucket \in Bucket
  /\ object \in ObjectRow \cup {None}
  /\ versions \subseteq VersionRow
  /\ trash \subseteq TrashRow
  /\ used \in [Account -> Nat]
  /\ request \in [Request -> RequestType]
  /\ stamp \in Nat /\ now \in Nat

KeyOps == {"put", "delete", "expire"}
Writes(r) == request[r].op \in {"put", "delete"}

\* A set of version rows: ids and times of creation are unique and were given
\* out, and a version is stored under its id.
Sound(vs) ==
  /\ \A v, w \in vs : v.id = w.id \/ v.created = w.created => v = w
  /\ \A v \in vs : /\ v.id <= stamp /\ v.created <= stamp
                   /\ ~IsMarker(v) => v.body.remote = v.id

\* An object that was seen has a version row, or is about to get one.
HasRow(o, vs) == \E w \in vs : w.id = VersionOf(o).id /\ w.body = o.body
Kept(o) == (o.version = NoVersion /\ o = object) \/ HasRow(o, versions)

\* The state of the rows: versions only under versioning, trash only without
\* it and only of the last object; an object without a version is alone.
RowInv ==
  /\ ~bucket.versioning => versions = {}
  /\ trash # {} => object = None /\ versions = {} /\ ~bucket.versioning
  /\ \A t, u \in trash : t = u
  /\ \A t \in trash : t.created <= stamp /\ t.body.remote = 0
  /\ Sound(versions)
  /\ object # None =>
       /\ object.created <= stamp
       /\ object.version = NoVersion => versions = {} /\ object.body.remote = 0
       /\ object.version # NoVersion => HasRow(object, versions)

\* What requests in flight may rely on, and which exclude one another.
FlightInv ==
  /\ \A r, s \in Request : r # s /\ request[r] # Idle /\ request[s] # Idle =>
       bucket.versioning /\ request[r].op \in KeyOps
  /\ \A r \in Request : request[r].op \in KeyOps \cup {"drop"} =>
       request[r].bucket = bucket /\ trash = {}
  /\ \A r \in Request : Writes(r) =>
       /\ ~bucket.versioning => request[r].seen = object
       /\ object # None /\ object.version = NoVersion => request[r].seen = object
       /\ request[r].seen # None /\ bucket.versioning => Kept(request[r].seen)
       /\ request[r].op = "delete" => request[r].seen # None
  /\ \A r \in Request : request[r].op = "drop" =>
       /\ request[r].seen \in versions
       /\ ~IsMarker(request[r].seen) => ~Locked(request[r].seen)
  /\ \A r \in Request : request[r].op = "purge" => request[r].seen \in trash
  /\ Sweeping # {} => lease

ProtInv == ProtTypeOK /\ RowInv /\ FlightInv /\ RowsAreStored

-----------------------------------------------------------------------------
(* Rows and requests by their types.                                       *)

LEMMA NoneIsNoRow ==
  /\ \A o \in ObjectRow : o # None /\ o.body \in Body /\ o.created \in Nat /\ o.lock \in Lock
                          /\ o.version \in Nat \cup {NoVersion}
  /\ \A b \in Body : b # None /\ b.account \in Account /\ b.remote \in Nat
<1>1. \A o \in ObjectRow : DOMAIN o = {"body", "created", "version", "lock", "updated"}
  BY DEF ObjectRow
<1>2. \A b \in Body : DOMAIN b = {"account", "remote", "content"}
  BY DEF Body
<1>3. DOMAIN None = {"absent"}
  BY DEF None
<1>4. (\A o \in ObjectRow : o # None) /\ (\A b \in Body : b # None)
  BY <1>1, <1>2, <1>3
<1>5. \A o \in ObjectRow : o.body \in Body /\ o.created \in Nat /\ o.lock \in Lock
                           /\ o.version \in Nat \cup {NoVersion}
  BY DEF ObjectRow
<1>6. \A b \in Body : b.account \in Account /\ b.remote \in Nat
  BY DEF Body
<1>7. QED
  BY <1>4, <1>5, <1>6

\* The version row of an object.
LEMMA VersionOfRow ==
  ASSUME NEW o \in ObjectRow
  PROVE  /\ VersionOf(o) \in VersionRow /\ ~IsMarker(VersionOf(o))
         /\ VersionOf(o).body = o.body /\ VersionOf(o).created = o.created
         /\ VersionOf(o).id = IF o.version = NoVersion THEN 0 ELSE o.version
         /\ VersionOf(o).id \in Nat
<1>1. o.body \in Body /\ o.created \in Nat /\ o.lock \in Lock /\ o.body # None
      /\ o.version \in Nat \cup {NoVersion}
  BY NoneIsNoRow
<1>2. VersionOf(o) = [id |-> IF o.version = NoVersion THEN 0 ELSE o.version,
                      body |-> o.body, created |-> o.created, lock |-> o.lock]
  BY DEF VersionOf, NullVersion
<1>3. (IF o.version = NoVersion THEN 0 ELSE o.version) \in Nat
  BY <1>1
<1>4. QED
  BY <1>1, <1>2, <1>3 DEF VersionRow, IsMarker

LEMMA RequestShape ==
  ASSUME ProtTypeOK, NEW r \in Request
  PROVE  /\ request[r].op \in KeyOps => request[r] \in KeyReq
         /\ request[r].op = "drop" => request[r] \in DropReq
         /\ request[r].op = "purge" => request[r] \in PurgeReq
         /\ request[r].op \in {"idle", "sweep", "purge", "drop"} \cup KeyOps
         /\ request[r] = Idle <=> request[r].op = "idle"
         /\ request[r] \in RequestType
BY DEF ProtTypeOK, RequestType, Idle, KeyReq, DropReq, SweepReq, PurgeReq, KeyOps

\* A request in flight that is no upload or delete of a versioned key is alone.
LEMMA OthersIdle ==
  ASSUME ProtInv, NEW r \in Request, request[r] # Idle,
         ~bucket.versioning \/ request[r].op \notin KeyOps,
         NEW s \in Request, s # r
  PROVE  request[s] = Idle
BY DEF ProtInv, FlightInv

\* Nothing is in flight: nothing to rely on.
LEMMA AloneFlight ==
  ASSUME Alone, UNCHANGED request
  PROVE  FlightInv'
<1>1. \A r \in Request : request'[r] = Idle /\ request'[r].op = "idle"
  BY DEF Alone, Idle
<1>2. QED
  BY <1>1 DEF FlightInv, Writes, KeyOps, Sweeping

-----------------------------------------------------------------------------
(* Steps that read, or end without a write.                                *)

LEMMA RequestMoves ==
  ASSUME ProtInv, NEW r \in Request, NEW q \in RequestType,
         request' = [request EXCEPT ![r] = q],
         UNCHANGED <<bucket, object, versions, trash, blobs, used, stamp, now>>,
         q # Idle => \A s \in Request : s # r /\ request[s] # Idle =>
                       bucket.versioning /\ q.op \in KeyOps /\ request[s].op \in KeyOps,
         q.op \in KeyOps \cup {"drop"} => q.bucket = bucket /\ trash = {},
         q.op \in {"put", "delete"} => q.seen = object,
         q.op = "delete" => object # None,
         q.op = "drop" => q.seen \in versions /\ (~IsMarker(q.seen) => ~Locked(q.seen)),
         q.op = "purge" => q.seen \in trash,
         \/ lease'
         \/ q.op \notin {"sweep", "purge"} /\
            \A s \in Request : s # r => request[s].op \notin {"sweep", "purge"}
  PROVE  ProtInv'
<1>1. ProtTypeOK'
  BY DEF ProtInv, ProtTypeOK
<1>2. RowInv' /\ RowsAreStored'
  BY DEF ProtInv, RowInv, RowsAreStored, Sound, HasRow
<1>3. \A s \in Request : request'[s] = IF s = r THEN q ELSE request[s]
  BY DEF ProtInv, ProtTypeOK
<1>4. ASSUME NEW s \in Request, NEW t \in Request, s # t,
             request'[s] # Idle, request'[t] # Idle
      PROVE  bucket'.versioning /\ request'[s].op \in KeyOps
  BY <1>3, <1>4 DEF ProtInv, FlightInv
<1>5. ASSUME NEW s \in Request, request'[s].op \in KeyOps \cup {"drop"}
      PROVE  request'[s].bucket = bucket' /\ trash' = {}
  BY <1>3, <1>5 DEF ProtInv, FlightInv
<1>6. object # None => Kept(object)
  BY DEF ProtInv, RowInv, Kept
<1>7. ASSUME NEW s \in Request, request'[s].op \in {"put", "delete"}
      PROVE  /\ ~bucket'.versioning => request'[s].seen = object'
             /\ object' # None /\ object'.version = NoVersion => request'[s].seen = object'
             /\ request'[s].seen # None /\ bucket'.versioning => Kept(request'[s].seen)
             /\ request'[s].op = "delete" => request'[s].seen # None
  BY <1>3, <1>6, <1>7 DEF ProtInv, FlightInv, Writes
<1>8. ASSUME NEW s \in Request, request'[s].op = "drop"
      PROVE  /\ request'[s].seen \in versions'
             /\ ~IsMarker(request'[s].seen) => ~Locked(request'[s].seen)
  BY <1>3, <1>8 DEF ProtInv, FlightInv
<1>9. ASSUME NEW s \in Request, request'[s].op = "purge"
      PROVE  request'[s].seen \in trash'
  BY <1>3, <1>9 DEF ProtInv, FlightInv
<1>10. Sweeping' # {} => lease'
  BY <1>3 DEF Sweeping
<1>11. FlightInv'
  BY <1>4, <1>5, <1>7, <1>8, <1>9, <1>10 DEF FlightInv, Writes, Kept, HasRow, Locked
<1>12. QED
  BY <1>1, <1>2, <1>11 DEF ProtInv

\* Without the races, a request starts alone or next to uploads and deletes of
\* a versioned key.
LEMMA Starts ==
  ASSUME Calm, ProtInv, NEW r \in Request, NEW op, MayStart(op),
         NEW s \in Request, request[s] # Idle
  PROVE  bucket.versioning /\ op \in {"put", "delete"} /\ request[s].op \in KeyOps
<1>1. request[s].op # "idle"
  BY RequestShape DEF ProtInv
<1>2. QED
  BY <1>1 DEF MayStart, Calm, Alone, KeyOps

LEMMA ReadsInv ==
  ASSUME Calm, ProtInv, NEW r \in Request,
         \/ \E l \in LockInput : ReadForPut(r, l)
         \/ \E bypass \in BOOLEAN : ReadForDelete(r, bypass)
         \/ \E v \in versions, bypass \in BOOLEAN : ReadVersion(r, v, bypass)
         \/ ListForExpiry(r)
  PROVE  ProtInv'
<1> DEFINE q(op, x, l) == [op |-> op, bucket |-> bucket, seen |-> x, lock |-> l]
<1>1. bucket \in Bucket /\ object \in ObjectRow \cup {None} /\ versions \subseteq VersionRow
      /\ NoLock \in Lock /\ now \in Nat
  BY DEF ProtInv, ProtTypeOK, Lock, NoLock, Mode
<1>2. ASSUME NEW op \in KeyOps, NEW l \in Lock
      PROVE  /\ q(op, object, l) \in RequestType /\ q(op, object, l) # Idle
             /\ q(op, object, l).op = op /\ q(op, object, l).seen = object
             /\ q(op, object, l).bucket = bucket
  <2>1. q(op, object, l) \in KeyReq
    BY <1>1 DEF KeyReq, KeyOps
  <2>2. QED
    BY <2>1 DEF RequestType, KeyOps, Idle
<1>3. ASSUME NEW l \in LockInput, ReadForPut(r, l) PROVE ProtInv'
  <2>1. LockOf(bucket, l) \in Lock
    <3>1. l \in [mode : Mode, days : Nat, hold : BOOLEAN]
      BY ProtectionAssumption
    <3>2. l.mode \in Mode /\ l.days \in Nat /\ l.hold \in BOOLEAN
      BY <3>1
    <3>3. now \in Nat /\ DefaultDays \in Nat /\ DefaultMode \in Mode
      BY <1>1, ProtectionAssumption
    <3>4. now + l.days \in Nat /\ now + DefaultDays \in Nat
      BY <3>2, <3>3
    <3>5. QED
      BY <3>2, <3>3, <3>4 DEF LockOf, Lock
  <2> DEFINE p == q("put", object, LockOf(bucket, l))
  <2>2. p \in RequestType /\ p.op = "put" /\ p.seen = object /\ p.bucket = bucket
    BY <1>2, <2>1 DEF KeyOps
  <2>3. request' = [request EXCEPT ![r] = p] /\ MayStart("put")
    BY <1>3 DEF ReadForPut
  <2>4. UNCHANGED <<bucket, object, versions, trash, blobs, used, stamp, now>> /\ trash = {}
    BY <1>3 DEF ReadForPut, Calm
  <2> HIDE DEF p
  <2>5. \A s \in Request : s # r /\ request[s] # Idle =>
          bucket.versioning /\ request[s].op \in KeyOps
    BY <2>3, Starts
  <2>6. \A s \in Request : s # r => request[s].op \notin {"sweep", "purge"}
    BY <2>5 DEF KeyOps, Idle
  <2>7. QED
    BY <2>2, <2>3, <2>4, <2>5, <2>6, RequestMoves DEF KeyOps
<1>4. ASSUME NEW op \in {"delete", "expire"}, object # None,
             request' = [request EXCEPT ![r] = q(op, object, NoLock)],
             UNCHANGED <<bucket, object, versions, trash, blobs, used, stamp, now>>,
             request[r].op = "expire" \/ MayStart("delete")
      PROVE  ProtInv'
  <2> DEFINE p == q(op, object, NoLock)
  <2>1. p \in RequestType /\ p.op = op /\ p.seen = object /\ p.bucket = bucket
    BY <1>1, <1>2 DEF KeyOps
  <2> HIDE DEF p
  <2>2. trash = {}
    BY <1>4 DEF ProtInv, RowInv
  <2>3. ASSUME NEW s \in Request, s # r, request[s] # Idle
        PROVE  bucket.versioning /\ request[s].op \in KeyOps
    <3>1. CASE MayStart("delete")
      BY <2>3, <3>1, Starts
    <3>2. CASE request[r].op = "expire"
      <4>1. request[r] # Idle
        BY <3>2 DEF Idle
      <4>2. QED
        BY <2>3, <4>1 DEF ProtInv, FlightInv
    <3>3. QED
      BY <1>4, <3>1, <3>2
  <2>4. \A s \in Request : s # r => request[s].op \notin {"sweep", "purge"}
    BY <2>3 DEF KeyOps, Idle
  <2>5. request' = [request EXCEPT ![r] = p]
    BY <1>4 DEF p
  <2>6. QED
    BY <1>4, <2>1, <2>2, <2>3, <2>4, <2>5, RequestMoves DEF KeyOps
<1>5. ASSUME NEW bypass \in BOOLEAN, ReadForDelete(r, bypass) PROVE ProtInv'
  <2>1. /\ request' = [request EXCEPT ![r] = q("delete", object, NoLock)] /\ object # None
        /\ UNCHANGED <<bucket, object, versions, trash, blobs, used, stamp, now>>
        /\ request[r].op = "expire" \/ MayStart("delete")
    BY <1>5 DEF ReadForDelete
  <2>2. QED
    BY <1>4, <2>1
<1>6. CASE ListForExpiry(r)
  <2>1. /\ request' = [request EXCEPT ![r] = q("expire", object, NoLock)] /\ object # None
        /\ UNCHANGED <<bucket, object, versions, trash, blobs, used, stamp, now>>
        /\ MayStart("delete")
    BY <1>6 DEF ListForExpiry
  <2>2. QED
    BY <1>4, <2>1
<1>7. ASSUME NEW v \in versions, NEW bypass \in BOOLEAN, ReadVersion(r, v, bypass)
      PROVE  ProtInv'
  <2> DEFINE p == q("drop", v, NoLock)
  <2>1. p \in DropReq /\ p.op = "drop" /\ p.seen = v /\ p.bucket = bucket
    BY <1>1 DEF DropReq
  <2>2. p \in RequestType
    BY <2>1 DEF RequestType
  <2>3. /\ request' = [request EXCEPT ![r] = p] /\ MayStart("drop")
        /\ UNCHANGED <<bucket, object, versions, trash, blobs, used, stamp, now>>
        /\ ~IsMarker(v) => Deletable(v, bypass)
    BY <1>7 DEF ReadVersion
  <2>4. ~IsMarker(v) => ~Locked(v)
    BY <2>3 DEF Deletable, Locked
  <2>5. trash = {}
    BY DEF ProtInv, RowInv
  <2> HIDE DEF p
  <2>6. \A s \in Request : request[s] = Idle
    BY <2>3, Starts
  <2>7. \A s \in Request : request[s].op = "idle"
    BY <2>6 DEF Idle
  <2>8. QED
    BY <2>1, <2>2, <2>3, <2>4, <2>5, <2>6, <2>7, RequestMoves DEF KeyOps
<1>8. QED
  BY <1>3, <1>5, <1>6, <1>7

\* A request that gives up, and the steps of a sweep that purge nothing.
LEMMA EndsInv ==
  ASSUME Calm, ProtInv, NEW r \in Request,
         \/ ProviderRefuses(r) \/ SkipExpiry(r) \/ StartSweep(r)
         \/ ReadTrash(r, ListTrashObjectsDue) \/ ReadTrash(r, ListTrashObjectsForLifecycle)
         \/ PurgeRefused(r) \/ EndSweep(r) \/ CrashSweep(r)
  PROVE  ProtInv'
<1>1. Idle \in RequestType /\ Idle.op = "idle"
  BY DEF RequestType, Idle
<1>2. UNCHANGED <<bucket, object, versions, trash, blobs, used, stamp, now>>
  BY DEF ProviderRefuses, SkipExpiry, StartSweep, ReadTrash, PurgeRefused, EndSweep, CrashSweep
<1>3. CASE ProviderRefuses(r) \/ SkipExpiry(r) \/ CrashSweep(r)
  <2>1. request' = [request EXCEPT ![r] = Idle] /\ lease' = lease
    BY <1>3 DEF ProviderRefuses, SkipExpiry, CrashSweep
  <2>2. lease \/ \A s \in Request : request[s].op \notin {"sweep", "purge"}
    BY DEF ProtInv, FlightInv, Sweeping
  <2>3. QED
    BY <1>1, <1>2, <2>1, <2>2, RequestMoves DEF KeyOps
<1>4. ASSUME request[r].op \in {"sweep", "purge"}
      PROVE  /\ \A s \in Request : s # r => request[s] = Idle
             /\ \A s \in Request : s # r => request[s].op = "idle"
             /\ lease
  <2>1. request[r] # Idle /\ request[r].op \notin KeyOps
    BY <1>4 DEF Idle, KeyOps
  <2>2. \A s \in Request : s # r => request[s] = Idle
    BY <2>1, OthersIdle
  <2>3. lease
    BY <1>4 DEF ProtInv, FlightInv, Sweeping
  <2>4. QED
    BY <2>2, <2>3 DEF Idle
<1>5. CASE EndSweep(r)
  <2>1. request' = [request EXCEPT ![r] = Idle] /\ request[r].op = "sweep"
    BY <1>5 DEF EndSweep
  <2>2. QED
    BY <1>1, <1>2, <1>4, <2>1, RequestMoves DEF KeyOps
<1> DEFINE sw == [op |-> "sweep"]
<1>6. sw \in RequestType /\ sw.op = "sweep"
  BY DEF RequestType, SweepReq
<1> HIDE DEF sw
<1>7. CASE StartSweep(r)
  <2>1. request' = [request EXCEPT ![r] = sw] /\ lease' /\ ~lease
    BY <1>7 DEF StartSweep, sw
  <2>2. Sweeping = {}
    BY <2>1 DEF ProtInv, FlightInv
  <2>3. \A s \in Request : request[s] = Idle
    BY <1>7, <2>2 DEF StartSweep, Calm
  <2>4. QED
    BY <1>2, <1>6, <2>1, <2>3, RequestMoves DEF KeyOps
<1>8. CASE PurgeRefused(r)
  <2>1. request' = [request EXCEPT ![r] = sw] /\ lease' = lease /\ request[r].op = "purge"
    BY <1>8 DEF PurgeRefused, sw
  <2>2. QED
    BY <1>2, <1>4, <1>6, <2>1, RequestMoves DEF KeyOps
<1>9. ASSUME NEW listed, listed \subseteq trash, ReadTrash(r, listed) PROVE ProtInv'
  <2>1. PICK t \in listed : request' = [request EXCEPT ![r] = [op |-> "purge", seen |-> t]]
    BY <1>9 DEF ReadTrash
  <2> DEFINE p == [op |-> "purge", seen |-> t]
  <2>2. t \in TrashRow
    BY <1>9 DEF ProtInv, ProtTypeOK
  <2>3. p \in RequestType /\ p.op = "purge" /\ p.seen = t
    BY <2>2 DEF RequestType, PurgeReq
  <2>4. lease' = lease /\ request[r].op = "sweep" /\ request' = [request EXCEPT ![r] = p]
    BY <1>9, <2>1 DEF ReadTrash
  <2> HIDE DEF p
  <2>5. QED
    BY <1>2, <1>4, <1>9, <2>3, <2>4, RequestMoves DEF KeyOps
<1>10. QED
  BY <1>3, <1>5, <1>7, <1>8, <1>9 DEF ListTrashObjectsDue, ListTrashObjectsForLifecycle

-----------------------------------------------------------------------------
(* Uploads and delete markers of a versioned key.                          *)

Base(o) == IF o = None THEN versions ELSE Inserted(versions, VersionOf(o))

\* What a request saw is a version before its own is added.
LEMMA BaseVersions ==
  ASSUME ProtInv, NEW r \in Request, Writes(r), bucket.versioning
  PROVE  LET vs == Base(request[r].seen)
         IN  /\ versions \subseteq vs /\ vs \subseteq VersionRow
             /\ Sound(vs)
             /\ \A v \in vs : IsMarker(v) \/ v.body \in blobs
             /\ \A s \in Request : Writes(s) /\ request[s].seen # None
                  => HasRow(request[s].seen, vs)
<1> DEFINE o == request[r].seen
           vs == Base(o)
<1>1. request[r] \in KeyReq /\ o \in ObjectRow \cup {None}
  BY RequestShape DEF ProtInv, Writes, KeyOps, KeyReq
<1>2. versions \subseteq VersionRow /\ Sound(versions) /\ stamp \in Nat
      /\ \A v \in versions : IsMarker(v) \/ v.body \in blobs
  BY DEF ProtInv, ProtTypeOK, RowInv, RowsAreStored
<1>3. \A s \in Request : Writes(s) /\ request[s].seen # None => Kept(request[s].seen)
  BY DEF ProtInv, FlightInv
<1>4. CASE o = None
  <2>1. vs = versions
    BY <1>4 DEF Base
  <2>2. \A s \in Request : Writes(s) /\ request[s].seen # None
          => HasRow(request[s].seen, versions)
    <3>1. ASSUME NEW s \in Request, Writes(s), request[s].seen # None,
                 request[s].seen.version = NoVersion, request[s].seen = object
          PROVE  FALSE
      BY <1>4, <3>1 DEF ProtInv, FlightInv
    <3>2. QED
      BY <1>3, <3>1 DEF Kept
  <2>3. QED
    BY <1>2, <2>1, <2>2
<1>5. CASE o # None /\ HasRow(o, versions)
  <2>1. vs = versions
    BY <1>5 DEF Base, Inserted, HasRow
  <2>2. \A s \in Request : Writes(s) /\ request[s].seen # None
          => HasRow(request[s].seen, versions)
    <3>1. ASSUME NEW s \in Request, Writes(s), request[s].seen # None,
                 request[s].seen.version = NoVersion, request[s].seen = object
          PROVE  HasRow(request[s].seen, versions)
      BY <1>5, <3>1 DEF ProtInv, FlightInv
    <3>2. QED
      BY <1>3, <3>1 DEF Kept
  <2>3. QED
    BY <1>2, <2>1, <2>2
<1>6. CASE o # None /\ ~ HasRow(o, versions)
  <2>1. o = object /\ o.version = NoVersion
    BY <1>3, <1>6 DEF Kept
  <2>2. versions = {} /\ o.created <= stamp /\ o.body.remote = 0 /\ o.body \in blobs
    BY <1>6, <2>1 DEF ProtInv, RowInv, RowsAreStored
  <2> DEFINE v == VersionOf(o)
  <2>3. o \in ObjectRow
    BY <1>1, <1>6
  <2>4. /\ v \in VersionRow /\ ~IsMarker(v) /\ v.body = o.body
        /\ v.created = o.created /\ v.id = 0
    BY <2>1, <2>3, VersionOfRow
  <2>5. vs = {v}
    BY <1>6, <2>2 DEF Base, Inserted
  <2>6. HasRow(o, vs)
    BY <2>4, <2>5 DEF HasRow
  <2> HIDE DEF v
  <2>7. Sound(vs)
    BY <1>2, <2>2, <2>4, <2>5 DEF Sound
  <2>8. ASSUME NEW s \in Request, Writes(s), request[s].seen # None
        PROVE  HasRow(request[s].seen, vs)
    <3>1. request[s].seen = o
      BY <1>6, <2>1, <2>8 DEF ProtInv, FlightInv
    <3>2. QED
      BY <2>6, <3>1
  <2>9. QED
    BY <2>2, <2>4, <2>5, <2>7, <2>8
<1>7. QED
  BY <1>4, <1>5, <1>6

\* The row that a versioned write adds is new.
LEMMA VersionedWrite ==
  ASSUME ProtInv, NEW r \in Request, Writes(r), bucket.versioning,
         NEW x \in VersionRow, x.id = stamp + 1, x.created = stamp + 1,
         ~IsMarker(x) => x.body.remote = stamp + 1 /\ x.body \in blobs',
         versions' = Inserted(Base(request[r].seen), x),
         \A b \in blobs : b.remote # stamp + 1 => b \in blobs',
         \/ object' = None
         \/ /\ object' \in ObjectRow /\ object'.created <= stamp + 1
            /\ object'.version = x.id /\ object'.body = x.body /\ ~IsMarker(x),
         stamp' = stamp + 1, request' = [request EXCEPT ![r] = Idle],
         used' \in [Account -> Nat], UNCHANGED <<bucket, trash, lease, now>>
  PROVE  ProtInv' /\ versions' = Base(request[r].seen) \cup {x}
<1> DEFINE vs == Base(request[r].seen)
<1>1. /\ versions \subseteq vs /\ vs \subseteq VersionRow /\ Sound(vs)
      /\ \A v \in vs : IsMarker(v) \/ v.body \in blobs
      /\ \A s \in Request : Writes(s) /\ request[s].seen # None
           => HasRow(request[s].seen, vs)
  BY BaseVersions
<1> HIDE DEF vs
<1>2. stamp \in Nat /\ x.id \in Nat
  BY DEF ProtInv, ProtTypeOK, VersionRow
<1>3. \A v \in vs : v.id \in Nat /\ v.created \in Nat /\ v.id <= stamp /\ v.created <= stamp
                    /\ v.id # x.id /\ v.created # x.created
  BY <1>1, <1>2 DEF Sound, VersionRow
<1>4. versions' = vs \cup {x}
  BY <1>3 DEF Inserted, vs
<1>5. trash = {}
  BY DEF ProtInv, RowInv
<1>6. ProtTypeOK'
  BY <1>1, <1>4, <1>5 DEF ProtInv, ProtTypeOK, RequestType
<1>7. Sound(versions)'
  <2>1. ASSUME NEW v \in versions', NEW w \in versions', v.id = w.id \/ v.created = w.created
        PROVE  v = w
    BY <1>1, <1>3, <1>4, <2>1 DEF Sound
  <2>2. ASSUME NEW v \in versions'
        PROVE  /\ v.id <= stamp' /\ v.created <= stamp'
               /\ ~IsMarker(v) => v.body.remote = v.id
    BY <1>1, <1>2, <1>3, <1>4 DEF Sound
  <2>3. QED
    BY <2>1, <2>2 DEF Sound
<1>8. ASSUME object' # None
      PROVE  /\ object'.created <= stamp' /\ object'.version # NoVersion
             /\ HasRow(object', versions')
  <2>1. object' \in ObjectRow /\ object'.version = stamp + 1 /\ object'.version # NoVersion
    BY <1>2, <1>8 DEF NoVersion
  <2>2. VersionOf(object').id = stamp + 1
    BY <2>1, VersionOfRow
  <2>3. QED
    BY <1>4, <1>8, <2>1, <2>2 DEF HasRow
<1>9. RowInv'
  BY <1>5, <1>7, <1>8 DEF RowInv, HasRow
<1>10. RowsAreStored'
  <2>1. ASSUME NEW v \in vs, ~IsMarker(v) PROVE v.body \in blobs'
    <3>1. v.body \in blobs /\ v.body.remote = v.id
      BY <1>1, <2>1 DEF Sound
    <3>2. QED
      BY <1>3, <3>1
  <2>2. QED
    BY <1>4, <1>5, <2>1 DEF RowsAreStored
<1>11. \A s \in Request : /\ s # r => request'[s] = request[s]
                          /\ request'[r] = Idle
  BY DEF ProtInv, ProtTypeOK
<1>12. FlightInv'
  <2>1. ASSUME NEW s \in Request, request'[s] # Idle
        PROVE  s # r /\ request'[s] = request[s]
    BY <1>11, <2>1
  <2>2. ASSUME NEW s \in Request, request'[s].op # "idle"
        PROVE  s # r /\ request'[s] = request[s] /\ request[s].op \in KeyOps
    <3>1. s # r /\ request'[s] = request[s]
      BY <1>11, <2>2 DEF Idle
    <3>2. request[s] # Idle /\ request[r] # Idle
      BY <2>2, <3>1 DEF Idle, Writes
    <3>3. QED
      BY <3>1, <3>2 DEF ProtInv, FlightInv
  <2>3. ASSUME NEW s \in Request, request'[s].op \in {"put", "delete"}
        PROVE  /\ Writes(s) /\ request'[s] = request[s]
               /\ request'[s].seen # None => HasRow(request'[s].seen, versions')
               /\ request'[s].op = "delete" => request'[s].seen # None
    <3>1. Writes(s) /\ request'[s] = request[s]
      BY <2>2, <2>3 DEF Writes
    <3>2. request[s].seen # None => HasRow(request[s].seen, versions')
      BY <1>1, <1>4, <3>1 DEF HasRow
    <3>3. QED
      BY <2>3, <3>1, <3>2 DEF ProtInv, FlightInv
  <2>4. \A s \in Request : request'[s].op \notin {"sweep", "purge", "drop"}
    BY <2>2 DEF KeyOps
  <2>5. \A s, t \in Request : s # t /\ request'[s] # Idle /\ request'[t] # Idle =>
           bucket'.versioning /\ request'[s].op \in KeyOps
    BY <2>1 DEF ProtInv, FlightInv
  <2>6. \A s \in Request : request'[s].op \in KeyOps \cup {"drop"} =>
           request'[s].bucket = bucket' /\ trash' = {}
    BY <2>2, <2>4 DEF ProtInv, FlightInv, KeyOps
  <2>7. object' # None => object'.version # NoVersion
    BY <1>8
  <2>8. QED
    BY <2>3, <2>4, <2>5, <2>6, <2>7 DEF FlightInv, Writes, Kept, HasRow, Sweeping
<1>13. QED
  BY <1>4, <1>6, <1>9, <1>10, <1>12 DEF ProtInv, vs

\* The row an upload writes.
LEMMA RowOfPut ==
  ASSUME ProtInv, NEW r \in Request, request[r].op = "put", NEW a \in Account
  PROVE  LET row == Row(r, a)
             remote == IF bucket.versioning THEN stamp + 1 ELSE 0
         IN  /\ row \in ObjectRow
             /\ row.body = [account |-> a, remote |-> remote, content |-> stamp + 1]
             /\ row.body \in Body /\ row.body.account = a /\ row.body.remote = remote
             /\ row.created = stamp + 1
             /\ row.version = IF bucket.versioning THEN stamp + 1 ELSE NoVersion
             /\ Upserted(row) \in ObjectRow
             /\ Upserted(row).body = row.body /\ Upserted(row).version = row.version
             /\ Upserted(row).created <= stamp + 1
             /\ request[r].bucket = bucket /\ bucket.versioning \in BOOLEAN
             /\ trash = {}
<1> DEFINE remote == IF bucket.versioning THEN stamp + 1 ELSE 0
           version == IF bucket.versioning THEN stamp + 1 ELSE NoVersion
           b == [account |-> a, remote |-> remote, content |-> stamp + 1]
           row == [body |-> b, created |-> stamp + 1, version |-> version,
                   lock |-> request[r].lock, updated |-> now]
<1>1. request[r] \in KeyReq /\ request[r].bucket = bucket /\ trash = {}
  BY RequestShape DEF ProtInv, KeyOps, FlightInv
<1>2. request[r].lock \in Lock /\ stamp \in Nat /\ now \in Nat /\ bucket.versioning \in BOOLEAN
  BY <1>1 DEF KeyReq, ProtInv, ProtTypeOK, Bucket
<1>3. Row(r, a) = row
  BY <1>1 DEF Row
<1>4. remote \in Nat /\ version \in Nat \cup {NoVersion} /\ stamp + 1 \in Nat
  BY <1>2
<1> HIDE DEF remote, version
<1>5. b \in Body /\ b.account = a /\ b.remote = remote
  BY <1>4 DEF Body
<1> HIDE DEF b
<1>6. /\ row \in ObjectRow /\ row.body = b /\ row.created = stamp + 1 /\ row.version = version
  BY <1>2, <1>4, <1>5 DEF ObjectRow
<1> HIDE DEF row
<1>7. /\ Upserted(row) \in ObjectRow /\ Upserted(row).body = b
      /\ Upserted(row).version = version /\ Upserted(row).created <= stamp + 1
  <2>1. CASE object = None
    BY <1>2, <1>6, <2>1 DEF Upserted
  <2>2. CASE object # None
    <3>1. object.created \in Nat /\ object.created <= stamp
      BY <2>2, NoneIsNoRow DEF ProtInv, ProtTypeOK, RowInv
    <3>2. Upserted(row) = [row EXCEPT !.created = object.created]
      BY <2>2 DEF Upserted
    <3>3. /\ Upserted(row) \in ObjectRow /\ Upserted(row).body = b
          /\ Upserted(row).version = version /\ Upserted(row).created = object.created
      BY <1>6, <3>1, <3>2 DEF ObjectRow
    <3>4. QED
      BY <1>2, <3>1, <3>3
  <2>3. QED
    BY <2>1, <2>2
<1>8. QED
  BY <1>1, <1>2, <1>3, <1>5, <1>6, <1>7 DEF b, remote, version

LEMMA ChargedType ==
  ASSUME used \in [Account -> Nat], NEW a \in Account
  PROVE  /\ Charged(a) \in [Account -> Nat]
         /\ \A u \in [Account -> Nat] : Uncharged(u, a) \in [Account -> Nat]
BY DEF Charged, Uncharged

LEMMA PutVersioned ==
  ASSUME ProtInv, NEW r \in Request, NEW a \in Account, PutObject(r, a), bucket.versioning
  PROVE  /\ ProtInv'
         /\ versions' = Base(request[r].seen) \cup {VersionOf(Row(r, a))}
         /\ object'.body = Row(r, a).body /\ used' = Charged(a)
<1> DEFINE row == Row(r, a)
           x == VersionOf(row)
           q == request[r]
<1>1. q.op = "put" /\ Writes(r)
  BY DEF PutObject, Writes
<1>2. /\ row \in ObjectRow /\ row.body \in Body /\ row.body.account = a
      /\ row.body.remote = stamp + 1 /\ row.created = stamp + 1 /\ row.version = stamp + 1
      /\ Upserted(row) \in ObjectRow /\ Upserted(row).body = row.body
      /\ Upserted(row).version = row.version /\ Upserted(row).created <= stamp + 1
      /\ q.bucket = bucket
  BY <1>1, RowOfPut
<1> HIDE DEF row
<1>3. stamp \in Nat /\ stamp + 1 # NoVersion /\ used \in [Account -> Nat]
  BY DEF ProtInv, ProtTypeOK, NoVersion
<1>4. /\ x \in VersionRow /\ ~IsMarker(x) /\ x.body = row.body
      /\ x.created = stamp + 1 /\ x.id = stamp + 1
  BY <1>2, <1>3, VersionOfRow
<1> HIDE DEF x
<1>5. /\ object' = Upserted(row) /\ versions' = Inserted(Base(q.seen), x)
      /\ stamp' = stamp + 1 /\ request' = [request EXCEPT ![r] = Idle]
      /\ UNCHANGED <<bucket, trash, lease, now>>
  BY <1>2 DEF PutObject, VersionsAfterPut, Base, row, x
<1>6. /\ used' = Charged(a)
      /\ blobs' = Without(blobs, row.body) \cup {row.body}
  BY <1>2 DEF PutObject, CleanupOverwrittenObject, row
<1>7. /\ x.body \in blobs' /\ \A b \in blobs : b.remote # stamp + 1 => b \in blobs'
      /\ used' \in [Account -> Nat]
  BY <1>2, <1>3, <1>4, <1>6, ChargedType DEF Without
<1>8. QED
  BY <1>1, <1>2, <1>4, <1>5, <1>6, <1>7, VersionedWrite DEF row, x

\* A key without versioning has one writer at a time and no other row.
LEMMA UnversionedWrite ==
  ASSUME ProtInv, NEW r \in Request, Writes(r), ~bucket.versioning,
         request' = [request EXCEPT ![r] = Idle],
         UNCHANGED <<bucket, versions, lease, now>>,
         stamp' \in {stamp, stamp + 1},
         used' \in [Account -> Nat],
         \/ /\ object' \in ObjectRow /\ object'.created <= stamp'
            /\ object'.version = NoVersion /\ object'.body.remote = 0
            /\ object'.body \in blobs' /\ trash' = {}
         \/ /\ object' = None /\ trash' \subseteq TrashRow
            /\ \A t, u \in trash' : t = u
            /\ \A t \in trash' : /\ t.body \in blobs' /\ t.body.remote = 0
                                 /\ t.created <= stamp'
  PROVE  ProtInv'
<1>1. versions = {} /\ stamp \in Nat
  BY DEF ProtInv, RowInv, ProtTypeOK
<1>2. request[r] # Idle
  BY DEF Writes, Idle
<1>3. \A s \in Request : s # r => request[s] = Idle
  BY <1>2, OthersIdle
<1>4. \A s \in Request : request'[s] = Idle /\ request'[s].op = "idle"
  BY <1>3 DEF ProtInv, ProtTypeOK, Idle
<1>5. FlightInv'
  BY <1>4 DEF FlightInv, Writes, KeyOps, Sweeping
<1>6. ProtTypeOK'
  BY <1>1 DEF ProtInv, ProtTypeOK, RequestType
<1>7. RowInv' /\ RowsAreStored'
  BY <1>1, NoneIsNoRow DEF RowInv, Sound, RowsAreStored
<1>8. QED
  BY <1>5, <1>6, <1>7 DEF ProtInv

LEMMA PutUnversioned ==
  ASSUME ProtInv, NEW r \in Request, NEW a \in Account, PutObject(r, a), ~bucket.versioning
  PROVE  /\ ProtInv'
         /\ object'.body = Row(r, a).body /\ UNCHANGED <<versions, trash>> /\ trash = {}
         /\ used' = IF object = None THEN Charged(a)
                    ELSE Uncharged(Charged(a), object.body.account)
<1> DEFINE row == Row(r, a)
           q == request[r]
<1>1. q.op = "put" /\ Writes(r)
  BY DEF PutObject, Writes
<1>2. /\ row \in ObjectRow /\ row.body \in Body /\ row.body.account = a
      /\ row.body.remote = 0 /\ row.version = NoVersion
      /\ Upserted(row) \in ObjectRow /\ Upserted(row).body = row.body
      /\ Upserted(row).version = row.version /\ Upserted(row).created <= stamp + 1
      /\ q.bucket = bucket /\ trash = {}
  BY <1>1, RowOfPut
<1>3. q.seen = object
  BY <1>1 DEF ProtInv, FlightInv
<1>4. /\ object' = Upserted(row) /\ versions' = versions
      /\ stamp' = stamp + 1 /\ request' = [request EXCEPT ![r] = Idle]
      /\ UNCHANGED <<bucket, trash, lease, now>>
  BY <1>2 DEF PutObject, VersionsAfterPut
<1>5. CleanupOverwrittenObject(q, row)
  BY DEF PutObject
<1> HIDE DEF row
<1>6. used' = IF object = None THEN Charged(a)
              ELSE Uncharged(Charged(a), object.body.account)
  BY <1>2, <1>3, <1>5 DEF CleanupOverwrittenObject
<1>7. row.body \in blobs'
  BY <1>2, <1>5 DEF CleanupOverwrittenObject, Without
<1>8. used' \in [Account -> Nat]
  <2>1. object # None => object.body.account \in Account
    BY NoneIsNoRow DEF ProtInv, ProtTypeOK
  <2>2. QED
    BY <1>6, <2>1, ChargedType DEF ProtInv, ProtTypeOK
<1>9. ProtInv'
  BY <1>1, <1>2, <1>4, <1>7, <1>8, UnversionedWrite
<1>10. QED
  BY <1>2, <1>4, <1>6, <1>9 DEF row

-----------------------------------------------------------------------------
(* Deletes.                                                                *)

LEMMA DeleteVersioned ==
  ASSUME ProtInv, NEW r \in Request, DeleteObject(r), bucket.versioning
  PROVE  /\ ProtInv'
         /\ versions' = Base(request[r].seen) \cup {Marker(stamp + 1)}
         /\ object' = None /\ UNCHANGED <<trash, blobs, used>>
<1> DEFINE q == request[r]
           x == Marker(stamp + 1)
<1>1. q.op = "delete" /\ Writes(r)
  BY DEF DeleteObject, Writes
<1>2. q.bucket = bucket /\ q.seen # None
  BY <1>1 DEF ProtInv, FlightInv, Writes, KeyOps
<1>3. stamp \in Nat /\ NoLock \in Lock
  BY DEF ProtInv, ProtTypeOK, Lock, NoLock, Mode
<1>4. x \in VersionRow /\ x.id = stamp + 1 /\ x.created = stamp + 1 /\ IsMarker(x)
  BY <1>3 DEF Marker, VersionRow, IsMarker
<1>5. /\ versions' = Inserted(Base(q.seen), x) /\ object' = None /\ stamp' = stamp + 1
      /\ request' = [request EXCEPT ![r] = Idle]
      /\ UNCHANGED <<bucket, trash, blobs, used, lease, now>>
  BY <1>2 DEF DeleteObject, LeaveMarker, Base
<1> HIDE DEF x
<1>6. used' \in [Account -> Nat] /\ \A b \in blobs : b \in blobs'
  BY <1>5 DEF ProtInv, ProtTypeOK
<1>7. QED
  BY <1>1, <1>4, <1>5, <1>6, VersionedWrite DEF x

LEMMA DeleteUnversioned ==
  ASSUME ProtInv, NEW r \in Request, DeleteObject(r), ~bucket.versioning
  PROVE  /\ ProtInv' /\ object # None /\ object' = None /\ trash = {} /\ versions' = {}
         /\ \/ used' = used /\ {t.body : t \in trash'} = {object.body}
            \/ used' = Uncharged(used, object.body.account) /\ trash' = {}
<1> DEFINE q == request[r]
<1>1. q.op = "delete" /\ Writes(r)
  BY DEF DeleteObject, Writes
<1>2. q.bucket = bucket /\ q.seen # None /\ q.seen = object /\ trash = {}
  BY <1>1 DEF ProtInv, FlightInv, Writes, KeyOps
<1>3. /\ object \in ObjectRow /\ object.body \in Body /\ object.body.account \in Account
      /\ object.body \in blobs /\ stamp \in Nat /\ now \in Nat /\ used \in [Account -> Nat]
      /\ versions = {} /\ object.body.remote = 0
  BY <1>2, NoneIsNoRow DEF ProtInv, ProtTypeOK, RowInv, RowsAreStored, HasRow
<1>4. /\ object' = None /\ request' = [request EXCEPT ![r] = Idle]
      /\ UNCHANGED <<bucket, lease, now>>
  BY DEF DeleteObject
<1>5. CASE q.bucket.trash
  <2> DEFINE t == [id |-> stamp + 1, body |-> object.body, created |-> stamp + 1,
                   due |-> now + TrashDays]
  <2>1. trash' = trash \cup {t} /\ UNCHANGED <<versions, blobs, used>> /\ stamp' = stamp + 1
    BY <1>2, <1>5 DEF DeleteObject, MoveToTrash
  <2>2. now + TrashDays \in Nat
    <3>1. now \in Nat /\ TrashDays \in Nat
      BY <1>3, ProtectionAssumption
    <3>2. QED
      BY <3>1
  <2>3. t \in TrashRow /\ t.body = object.body /\ t.created = stamp + 1
    BY <1>3, <2>2 DEF TrashRow
  <2> HIDE DEF t
  <2>4. trash' = {t} /\ {u.body : u \in trash'} = {object.body}
    BY <1>2, <2>1, <2>3
  <2>5. ProtInv'
    <3>1. \A u \in trash' : /\ u.body \in blobs' /\ u.body.remote = 0
                            /\ u.created <= stamp'
      BY <1>3, <2>1, <2>3, <2>4
    <3>2. QED
      BY <1>1, <1>3, <1>4, <2>1, <2>3, <2>4, <3>1, UnversionedWrite
  <2>6. QED
    BY <1>2, <1>3, <1>4, <2>1, <2>4, <2>5
<1>6. CASE ~ q.bucket.trash
  <2>1. /\ used' = Uncharged(used, object.body.account)
        /\ UNCHANGED <<versions, trash, stamp>>
    BY <1>2, <1>6 DEF DeleteObject, DeleteBody
  <2>2. used' \in [Account -> Nat]
    BY <1>3, <2>1, ChargedType
  <2>3. ProtInv'
    BY <1>1, <1>2, <1>4, <2>1, <2>2, UnversionedWrite
  <2>4. QED
    BY <1>2, <1>3, <1>4, <2>1, <2>3
<1>7. QED
  BY <1>5, <1>6

\* The newest of the versions that are left becomes the object, if it has a
\* body: times of creation are unique.
LEMMA RestoredRow ==
  ASSUME ProtInv, NEW left, left \subseteq versions, NewestIsBody(left)
  PROVE  /\ AsCurrent(left) \in ObjectRow
         /\ \E w \in left : /\ ~IsMarker(w) /\ AsCurrent(left).body = w.body
                            /\ AsCurrent(left).version = w.id
                            /\ AsCurrent(left).created = w.created
<1>1. PICK v \in left : IsNewest(v, left) /\ ~IsMarker(v)
  BY DEF NewestIsBody, IsNewest
<1> DEFINE u == CHOOSE w \in left : IsNewest(w, left)
<1>2. u \in left /\ IsNewest(u, left)
  BY <1>1
<1>3. \A w \in left : w.created \in Nat /\ w \in VersionRow
  BY DEF ProtInv, ProtTypeOK, VersionRow
<1>4. u.created <= v.created /\ v.created <= u.created
  BY <1>1, <1>2 DEF IsNewest
<1>5. u.created = v.created
  BY <1>1, <1>2, <1>3, <1>4
<1>6. u = v
  BY <1>1, <1>2, <1>5 DEF ProtInv, RowInv, Sound
<1>7. AsCurrent(left) = [body |-> u.body, created |-> u.created, version |-> u.id,
                         lock |-> u.lock, updated |-> now]
  BY DEF AsCurrent
<1> HIDE DEF u
<1>8. u.body \in Body /\ u.created \in Nat /\ u.id \in Nat /\ u.lock \in Lock /\ now \in Nat
  BY <1>1, <1>3, <1>6 DEF VersionRow, IsMarker, ProtInv, ProtTypeOK
<1>9. QED
  BY <1>1, <1>2, <1>6, <1>7, <1>8 DEF ObjectRow

LEMMA DropInv ==
  ASSUME ProtInv, NEW r \in Request, DeleteObjectVersion(r)
  PROVE  LET v == request[r].seen
         IN  /\ ProtInv'
             /\ v \in versions /\ (~IsMarker(v) => ~Locked(v))
             /\ versions' = versions \ {v} /\ UNCHANGED trash
             /\ \A b \in blobs : b.remote # v.id => b \in blobs'
             /\ object' # None =>
                  \/ object' = object /\ (~IsMarker(v) => object.body # v.body)
                  \/ \E w \in versions' : ~IsMarker(w) /\ object'.body = w.body
             /\ IF IsMarker(v) THEN used' = used ELSE used' = Uncharged(used, v.body.account)
<1> DEFINE v == request[r].seen
           left == {w \in versions : w.id # v.id}
           isCurrent == object # None /\ object.version = v.id
<1>1. request[r].op = "drop"
  BY DEF DeleteObjectVersion
<1>2. v \in versions /\ (~IsMarker(v) => ~Locked(v)) /\ trash = {}
  BY <1>1 DEF ProtInv, FlightInv
<1>3. /\ v \in VersionRow /\ v.id \in Nat /\ (~IsMarker(v) => v.body \in Body)
      /\ ~IsMarker(v) => v.body.remote = v.id
  BY <1>2 DEF ProtInv, ProtTypeOK, VersionRow, IsMarker, RowInv, Sound
<1>4. left = versions \ {v}
  BY <1>2 DEF ProtInv, RowInv, Sound
<1>5. /\ versions' = left /\ request' = [request EXCEPT ![r] = Idle]
      /\ UNCHANGED <<bucket, trash, lease, stamp, now>>
  BY DEF DeleteObjectVersion
<1>6. object # None => object \in ObjectRow /\ object.version # NoVersion
                       /\ HasRow(object, versions) /\ object.created <= stamp
  BY <1>2 DEF ProtInv, RowInv, ProtTypeOK
<1>7. object # None => VersionOf(object).id = object.version
  BY <1>6, VersionOfRow
<1>8. \A w \in left : w.id # v.id
  OBVIOUS
<1>9. ASSUME object # None, object.version # v.id
      PROVE  HasRow(object, left)
  BY <1>6, <1>7, <1>9 DEF HasRow
<1>10. ASSUME IsMarker(v), object # None PROVE object.version # v.id
  <2>1. PICK w \in versions : w.id = object.version /\ w.body = object.body
    BY <1>6, <1>7, <1>10 DEF HasRow
  <2>2. ~IsMarker(w)
    BY <1>6, <1>10, <2>1, NoneIsNoRow DEF IsMarker
  <2>3. w # v
    BY <1>10, <2>2
  <2>4. QED
    BY <1>2, <2>1, <2>3 DEF ProtInv, RowInv, Sound
<1>11. \/ object' = None
       \/ object' = object /\ object # None /\ object.version # v.id
       \/ object' = AsCurrent(left) /\ NewestIsBody(left)
  <2>1. CASE IsMarker(v)
    BY <1>10, <2>1 DEF DeleteObjectVersion, RestoreLatest
  <2>2. CASE ~IsMarker(v)
    BY <2>2 DEF DeleteObjectVersion, RestoreLatest
  <2>3. QED
    BY <2>1, <2>2
<1>12. /\ \A b \in blobs : b.remote # v.id => b \in blobs'
       /\ IF IsMarker(v) THEN used' = used ELSE used' = Uncharged(used, v.body.account)
  BY <1>3 DEF DeleteObjectVersion, Without
<1>13. left \subseteq versions
  OBVIOUS
<1> HIDE DEF left
<1>14. object' # None =>
         /\ object' \in ObjectRow /\ HasRow(object', left) /\ object'.version # NoVersion
         /\ object'.created <= stamp
  <2>1. CASE object' = object /\ object # None /\ object.version # v.id
    BY <1>6, <1>9, <2>1
  <2>2. CASE object' = AsCurrent(left) /\ NewestIsBody(left)
    <3>1. AsCurrent(left) \in ObjectRow
      BY <1>13, <2>2, RestoredRow
    <3>2. PICK w \in left : /\ AsCurrent(left).body = w.body
                            /\ AsCurrent(left).version = w.id
                            /\ AsCurrent(left).created = w.created
      BY <1>13, <2>2, RestoredRow
    <3>3. w.id \in Nat /\ w.created <= stamp
      BY <1>13 DEF ProtInv, ProtTypeOK, VersionRow, RowInv, Sound
    <3>4. object'.version # NoVersion
      BY <2>2, <3>2, <3>3 DEF NoVersion
    <3>5. VersionOf(object').id = w.id
      BY <2>2, <3>1, <3>2, <3>4, VersionOfRow
    <3>6. QED
      BY <2>2, <3>1, <3>2, <3>3, <3>4, <3>5 DEF HasRow
  <2>3. QED
    BY <1>11, <2>1, <2>2
<1>15. object' # None => \E w \in versions' : ~IsMarker(w) /\ object'.body = w.body
  <2>1. ASSUME object' # None PROVE \E w \in versions' : ~IsMarker(w) /\ object'.body = w.body
    <3>1. PICK w \in left : w.body = object'.body
      BY <1>14, <2>1 DEF HasRow
    <3>2. ~IsMarker(w)
      BY <1>14, <2>1, <3>1, NoneIsNoRow DEF IsMarker
    <3>3. QED
      BY <1>5, <3>1, <3>2
  <2>2. QED
    BY <2>1
<1>16. ProtTypeOK'
  <2>1. used' \in [Account -> Nat]
    <3>1. ~IsMarker(v) => v.body.account \in Account
      BY <1>3, NoneIsNoRow
    <3>2. used \in [Account -> Nat]
      BY DEF ProtInv, ProtTypeOK
    <3>3. QED
      BY <1>12, <3>1, <3>2, ChargedType
  <2>2. QED
    BY <1>5, <1>13, <1>14, <2>1 DEF ProtInv, ProtTypeOK, RequestType
<1>17. Sound(versions)'
  BY <1>5, <1>13 DEF ProtInv, RowInv, Sound
<1>18. RowInv'
  <2>1. bucket.versioning
    BY <1>2 DEF ProtInv, RowInv
  <2>2. QED
    BY <1>2, <1>5, <1>14, <1>17, <2>1 DEF RowInv, HasRow
<1>19. RowsAreStored'
  <2>1. ASSUME NEW w \in left, ~IsMarker(w) PROVE w.body \in blobs'
    <3>1. w.body \in blobs /\ w.body.remote = w.id /\ w.id # v.id
      BY <1>8, <1>13, <2>1 DEF ProtInv, RowsAreStored, RowInv, Sound, left
    <3>2. QED
      BY <1>12, <3>1
  <2>2. QED
    BY <1>2, <1>5, <1>15, <2>1 DEF RowsAreStored
<1>20. FlightInv'
  <2>1. request[r] # Idle /\ request[r].op \notin KeyOps
    BY <1>1 DEF Idle, KeyOps
  <2>2. \A s \in Request : s # r => request[s] = Idle
    BY <2>1, OthersIdle
  <2>3. \A s \in Request : request'[s] = Idle /\ request'[s].op = "idle"
    BY <1>5, <2>2 DEF ProtInv, ProtTypeOK, Idle
  <2>4. QED
    BY <2>3 DEF FlightInv, Writes, KeyOps, Sweeping
<1>21. QED
  BY <1>2, <1>4, <1>5, <1>12, <1>15, <1>16, <1>18, <1>19, <1>20 DEF ProtInv

-----------------------------------------------------------------------------
(* The trash.                                                              *)

\* What lies in the trash is all there is of the key.
LEMMA TrashIsAll ==
  ASSUME ProtInv, NEW t \in trash
  PROVE  trash = {t} /\ object = None /\ versions = {} /\ ~bucket.versioning
         /\ t \in TrashRow /\ t.body \in Body /\ t.body.account \in Account
         /\ t.body \in blobs /\ t.created \in Nat
<1>1. trash = {t} /\ object = None /\ versions = {} /\ ~bucket.versioning
  BY DEF ProtInv, RowInv
<1>2. t \in TrashRow /\ t.body \in blobs
  BY DEF ProtInv, ProtTypeOK, RowsAreStored
<1>3. t.body \in Body /\ t.created \in Nat
  BY <1>2 DEF TrashRow
<1>4. QED
  BY <1>1, <1>2, <1>3, NoneIsNoRow

LEMMA PurgedInv ==
  ASSUME ProtInv, NEW t \in trash, Purged(t), request' \in [Request -> RequestType],
         UNCHANGED <<bucket, object, versions, stamp, now>>
  PROVE  ProtTypeOK' /\ RowInv' /\ RowsAreStored' /\ trash' = {}
<1>1. /\ trash = {t} /\ object = None /\ versions = {} /\ ~bucket.versioning
      /\ t.body.account \in Account
  BY TrashIsAll
<1>2. trash' = {} /\ used' = Uncharged(used, t.body.account)
  BY <1>1 DEF Purged
<1>3. used' \in [Account -> Nat]
  BY <1>1, <1>2, ChargedType DEF ProtInv, ProtTypeOK
<1>4. ProtTypeOK'
  BY <1>1, <1>2, <1>3 DEF ProtInv, ProtTypeOK
<1>5. QED
  BY <1>1, <1>2, <1>4 DEF RowInv, RowsAreStored, Sound

LEMMA PurgeListedInv ==
  ASSUME ProtInv, NEW r \in Request, PurgeListed(r)
  PROVE  ProtInv' /\ request[r].seen \in trash
<1> DEFINE sw == [op |-> "sweep"]
<1>1. request[r].op = "purge" /\ request[r].seen \in trash
  BY DEF PurgeListed, ProtInv, FlightInv
<1>2. request[r] # Idle /\ request[r].op \notin KeyOps /\ lease
  BY <1>1 DEF Idle, KeyOps, ProtInv, FlightInv, Sweeping
<1>3. \A s \in Request : s # r => request[s] = Idle
  BY <1>2, OthersIdle
<1>4. sw \in RequestType /\ sw.op = "sweep"
  BY DEF RequestType, SweepReq
<1>5. request' = [request EXCEPT ![r] = sw] /\ lease' = lease
  BY DEF PurgeListed
<1> HIDE DEF sw
<1>6. request' \in [Request -> RequestType]
  BY <1>4, <1>5 DEF ProtInv, ProtTypeOK
<1>7. ProtTypeOK' /\ RowInv' /\ RowsAreStored'
  <2>1. Purged(request[r].seen) /\ UNCHANGED <<bucket, object, versions, stamp, now>>
    BY DEF PurgeListed
  <2>2. QED
    BY <1>1, <1>6, <2>1, PurgedInv
<1>8. \A s \in Request : /\ request'[s].op \in {"idle", "sweep"}
                         /\ s # r => request'[s] = Idle
  BY <1>3, <1>4, <1>5 DEF ProtInv, ProtTypeOK, Idle
<1>9. FlightInv'
  BY <1>2, <1>5, <1>8 DEF FlightInv, Writes, KeyOps, Sweeping
<1>10. QED
  BY <1>1, <1>7, <1>9 DEF ProtInv

LEMMA TrashInv ==
  ASSUME Calm, ProtInv, NEW t \in trash, RestoreTrashObject(t) \/ PurgeTrashObject(t)
  PROVE  ProtInv'
<1>1. /\ trash = {t} /\ object = None /\ versions = {} /\ ~bucket.versioning
      /\ t.body \in Body /\ t.body \in blobs /\ t.created \in Nat
  BY TrashIsAll
<1>2. Alone /\ UNCHANGED request
  BY DEF RestoreTrashObject, PurgeTrashObject, Undisturbed, Calm
<1>3. FlightInv'
  BY <1>2, AloneFlight
<1>4. CASE PurgeTrashObject(t)
  <2>1. Purged(t) /\ UNCHANGED <<bucket, object, versions, request, stamp, now>>
    BY <1>4 DEF PurgeTrashObject
  <2>2. QED
    BY <1>3, <2>1, PurgedInv DEF ProtInv, ProtTypeOK
<1>5. CASE RestoreTrashObject(t)
  <2> DEFINE o == [body |-> t.body, created |-> t.created, version |-> NoVersion,
                   lock |-> NoLock, updated |-> now]
  <2>1. NoLock \in Lock /\ now \in Nat
    BY DEF ProtInv, ProtTypeOK, Lock, NoLock, Mode
  <2>2. /\ o \in ObjectRow /\ o.body = t.body /\ o.created = t.created
        /\ o.version = NoVersion
    BY <1>1, <2>1 DEF ObjectRow
  <2>3. /\ object' = o /\ trash' = {}
        /\ UNCHANGED <<bucket, versions, blobs, used, request, lease, stamp, now>>
    BY <1>1, <1>5 DEF RestoreTrashObject
  <2> HIDE DEF o
  <2>4. ProtTypeOK'
    BY <2>2, <2>3 DEF ProtInv, ProtTypeOK
  <2>5. t.created <= stamp /\ t.body.remote = 0
    BY DEF ProtInv, RowInv
  <2>6. RowInv'
    BY <1>1, <2>2, <2>3, <2>5 DEF RowInv, Sound
  <2>7. RowsAreStored'
    BY <1>1, <2>2, <2>3 DEF RowsAreStored
  <2>8. QED
    BY <1>3, <2>4, <2>6, <2>7 DEF ProtInv
<1>6. QED
  BY <1>4, <1>5

-----------------------------------------------------------------------------
(* Locks, settings and time.                                               *)

\* A new lock leaves every row its id, body and time of creation.
LEMMA ProtectInv ==
  ASSUME ProtInv, Alone, NEW id, NEW l \in Lock, Protect(id, l),
         UNCHANGED <<bucket, trash, blobs, used, request, lease, stamp, now>>
  PROVE  /\ ProtInv'
         /\ \A v \in versions : \E w \in versions' : w.id = v.id /\ w.body = v.body
         /\ {w.body : w \in versions'} = {v.body : v \in versions}
         /\ object' = None <=> object = None
         /\ object # None => object'.body = object.body
<1> DEFINE f(v) == IF v.id = id THEN [v EXCEPT !.lock = l] ELSE v
<1>1. versions \subseteq VersionRow /\ object \in ObjectRow \cup {None}
  BY DEF ProtInv, ProtTypeOK
<1>2. \A v \in versions : /\ f(v) \in VersionRow /\ f(v).id = v.id /\ f(v).body = v.body
                          /\ f(v).created = v.created
  BY <1>1 DEF VersionRow
<1>3. versions' = {f(v) : v \in versions}
  BY DEF Protect, UpdateObjectVersionProtection
<1>4. /\ object' = object \/ (object # None /\ object' = [object EXCEPT !.lock = l])
  BY DEF Protect
<1>5. /\ object' = None <=> object = None
      /\ object # None => /\ object' \in ObjectRow /\ object'.body = object.body
                          /\ object'.created = object.created
                          /\ object'.version = object.version
  <2>1. CASE object' = object
    BY <1>1, <2>1
  <2>2. CASE object # None /\ object' = [object EXCEPT !.lock = l]
    <3>1. object' \in ObjectRow /\ object'.body = object.body
          /\ object'.created = object.created /\ object'.version = object.version
      BY <1>1, <2>2 DEF ObjectRow
    <3>2. QED
      BY <2>2, <3>1, NoneIsNoRow
  <2>3. QED
    BY <1>4, <2>1, <2>2
<1> HIDE DEF f
<1>6. \A v \in versions : \E w \in versions' : w.id = v.id /\ w.body = v.body
  BY <1>2, <1>3
<1>7. {w.body : w \in versions'} = {v.body : v \in versions}
  BY <1>2, <1>3
<1>8. ProtTypeOK'
  BY <1>2, <1>3, <1>5 DEF ProtInv, ProtTypeOK
<1>9. Sound(versions)'
  <2>1. ASSUME NEW x \in versions', NEW y \in versions', x.id = y.id \/ x.created = y.created
        PROVE  x = y
    <3>1. PICK v \in versions : x = f(v)
      BY <1>3
    <3>2. PICK w \in versions : y = f(w)
      BY <1>3
    <3>3. v.id = w.id \/ v.created = w.created
      BY <1>2, <2>1, <3>1, <3>2
    <3>4. v = w
      BY <3>3 DEF ProtInv, RowInv, Sound
    <3>5. QED
      BY <3>1, <3>2, <3>4
  <2>2. ASSUME NEW x \in versions'
        PROVE  x.id <= stamp' /\ x.created <= stamp' /\ (~IsMarker(x) => x.body.remote = x.id)
    <3>1. PICK v \in versions : x = f(v)
      BY <1>3
    <3>2. QED
      BY <1>2, <3>1 DEF ProtInv, RowInv, Sound, IsMarker
  <2>3. QED
    BY <2>1, <2>2 DEF Sound
<1>10. ASSUME object # None, object.version # NoVersion PROVE HasRow(object', versions')
  <2>1. PICK v \in versions : v.id = VersionOf(object).id /\ v.body = object.body
    BY <1>10 DEF ProtInv, RowInv, HasRow
  <2>2. VersionOf(object').id = VersionOf(object).id
    BY <1>1, <1>5, <1>10, VersionOfRow
  <2>3. PICK w \in versions' : w.id = v.id /\ w.body = v.body
    BY <1>6
  <2>4. QED
    BY <1>5, <1>10, <2>1, <2>2, <2>3 DEF HasRow
<1>11. RowInv'
  <2>1. versions = {} => versions' = {}
    BY <1>3
  <2>2. QED
    BY <1>5, <1>9, <1>10, <2>1 DEF ProtInv, RowInv, HasRow
<1>12. RowsAreStored'
  BY <1>2, <1>3, <1>5 DEF ProtInv, RowsAreStored, IsMarker
<1>13. FlightInv'
  BY AloneFlight
<1>14. QED
  BY <1>5, <1>6, <1>7, <1>8, <1>11, <1>12, <1>13 DEF ProtInv

\* The rows a lock can be put on.
LEMMA ProtectedLock ==
  ASSUME ProtInv, NEW p \in Protected
  PROVE  p.lock \in Lock
<1>1. CASE p \in versions
  BY <1>1 DEF ProtInv, ProtTypeOK, VersionRow
<1>2. CASE object # None /\ p = [id |-> NoVersion, lock |-> object.lock]
  BY <1>2, NoneIsNoRow DEF ProtInv, ProtTypeOK
<1>3. QED
  BY <1>1, <1>2 DEF Protected

LEMMA RetentionIsProtect ==
  ASSUME Calm, ProtInv, NEW p \in Protected,
         \/ \E m \in Mode, d \in 1..MaxNow, bypass \in BOOLEAN :
              PutObjectRetention(p, m, d, bypass)
         \/ \E hold \in BOOLEAN : PutObjectLegalHold(p, hold)
  PROVE  /\ Alone /\ UNCHANGED <<bucket, trash, blobs, used, request, lease, stamp, now>>
         /\ \E l \in Lock : Protect(p.id, l)
<1>1. p.lock \in Lock /\ p.lock.hold \in BOOLEAN
  BY ProtectedLock DEF Lock
<1>2. now \in Nat
  BY DEF ProtInv, ProtTypeOK
<1>3. ASSUME NEW m \in Mode, NEW d \in 1..MaxNow, NEW bypass \in BOOLEAN,
             PutObjectRetention(p, m, d, bypass)
      PROVE  /\ Alone /\ UNCHANGED <<bucket, trash, blobs, used, request, lease, stamp, now>>
             /\ \E l \in Lock : Protect(p.id, l)
  <2> DEFINE l == [mode |-> m, until |-> now + d, hold |-> p.lock.hold]
  <2>1. d \in Nat
    <3>1. MaxNow \in Nat
      BY ProtectionAssumption
    <3>2. QED
      BY <3>1
  <2>2. now + d \in Nat
    BY <1>2, <2>1
  <2>3. l \in Lock
    BY <1>1, <2>2 DEF Lock
  <2>4. /\ Alone /\ Protect(p.id, l)
        /\ UNCHANGED <<bucket, trash, blobs, used, request, lease, stamp, now>>
    BY <1>3 DEF PutObjectRetention, Undisturbed, Calm
  <2> HIDE DEF l
  <2>5. QED
    BY <2>3, <2>4
<1>4. ASSUME NEW hold \in BOOLEAN, PutObjectLegalHold(p, hold)
      PROVE  /\ Alone /\ UNCHANGED <<bucket, trash, blobs, used, request, lease, stamp, now>>
             /\ \E l \in Lock : Protect(p.id, l)
  <2> DEFINE l == [p.lock EXCEPT !.hold = hold]
  <2>1. l \in Lock
    BY <1>1 DEF Lock
  <2>2. /\ Alone /\ Protect(p.id, l)
        /\ UNCHANGED <<bucket, trash, blobs, used, request, lease, stamp, now>>
    BY <1>4 DEF PutObjectLegalHold, Undisturbed, Calm
  <2> HIDE DEF l
  <2>3. QED
    BY <2>1, <2>2
<1>5. QED
  BY <1>3, <1>4

\* A bucket in use keeps its versioning, and one with trash gains none.
LEMMA SettingsInv ==
  ASSUME Calm, ProtInv,
         \/ \E on \in BOOLEAN : PutBucketVersioning(on) \/ SaveBucketTrash(on)
         \/ PutBucketObjectLock \/ CreateBucket
  PROVE  ProtInv' /\ UNCHANGED <<object, versions, trash, used>>
<1> DEFINE off == [versioning |-> FALSE, trash |-> FALSE, lock |-> FALSE]
<1>1. bucket \in Bucket /\ bucket.versioning \in BOOLEAN
  BY DEF ProtInv, ProtTypeOK, Bucket
<1>2. ASSUME NEW b \in Bucket, SetBucket(b),
             b.versioning => trash = {} \/ bucket.versioning,
             ~b.versioning => ~bucket.versioning \/ NeverUsed
      PROVE  ProtInv' /\ UNCHANGED <<object, versions, trash, used>>
  <2>1. /\ Alone /\ bucket' = b
        /\ UNCHANGED <<object, versions, trash, blobs, used, request, stamp, now>>
    BY <1>2 DEF SetBucket, Undisturbed, Calm
  <2>2. FlightInv'
    BY <2>1, AloneFlight
  <2>3. ProtTypeOK' /\ RowsAreStored'
    BY <2>1 DEF ProtInv, ProtTypeOK, RowsAreStored
  <2>4. RowInv'
    BY <1>2, <2>1 DEF ProtInv, RowInv, Sound, HasRow, NeverUsed
  <2>5. QED
    BY <2>1, <2>2, <2>3, <2>4 DEF ProtInv
<1>3. ASSUME NEW on \in BOOLEAN, PutBucketVersioning(on)
      PROVE  ProtInv' /\ UNCHANGED <<object, versions, trash, used>>
  <2> DEFINE b == [bucket EXCEPT !.versioning = on]
  <2>1. b \in Bucket /\ b.versioning = on
    BY <1>1 DEF Bucket
  <2>2. SetBucket(b) /\ (on => trash = {}) /\ (~on => NeverUsed)
    BY <1>3 DEF PutBucketVersioning, Calm
  <2> HIDE DEF b
  <2>3. QED
    BY <1>2, <2>1, <2>2
<1>4. ASSUME NEW on \in BOOLEAN, SaveBucketTrash(on)
      PROVE  ProtInv' /\ UNCHANGED <<object, versions, trash, used>>
  <2> DEFINE b == [bucket EXCEPT !.trash = on]
  <2>1. b \in Bucket /\ b.versioning = bucket.versioning
    BY <1>1 DEF Bucket
  <2>2. SetBucket(b)
    BY <1>4 DEF SaveBucketTrash
  <2> HIDE DEF b
  <2>3. QED
    BY <1>2, <2>1, <2>2
<1>5. CASE PutBucketObjectLock
  <2> DEFINE b == [bucket EXCEPT !.lock = TRUE, !.versioning = TRUE]
  <2>1. b \in Bucket /\ b.versioning
    BY <1>1 DEF Bucket
  <2>2. SetBucket(b) /\ trash = {}
    BY <1>5 DEF PutBucketObjectLock, Calm
  <2> HIDE DEF b
  <2>3. QED
    BY <1>2, <2>1, <2>2
<1>6. CASE CreateBucket
  <2>1. off \in Bucket /\ ~off.versioning
    BY DEF Bucket
  <2>2. SetBucket(off) /\ NeverUsed
    BY <1>6 DEF CreateBucket, Calm
  <2> HIDE DEF off
  <2>3. QED
    BY <1>2, <2>1, <2>2
<1>7. QED
  BY <1>3, <1>4, <1>5, <1>6

\* A day more locks nothing that was not locked.
LEMMA TimeInv ==
  ASSUME Calm, ProtInv, LeaseExpires \/ DayPasses \/ UNCHANGED protVars
  PROVE  ProtInv'
<1>1. UNCHANGED <<bucket, object, versions, trash, blobs, used, request, stamp>>
  BY DEF LeaseExpires, DayPasses, protVars
<1>2. now \in Nat /\ (now' = now \/ now' = now + 1)
  BY DEF LeaseExpires, DayPasses, protVars, ProtInv, ProtTypeOK
<1>3. ProtTypeOK' /\ RowInv' /\ RowsAreStored'
  BY <1>1, <1>2 DEF ProtInv, ProtTypeOK, RowInv, RowsAreStored, Sound, HasRow
<1>4. Sweeping' # {} => lease'
  BY <1>1 DEF LeaseExpires, DayPasses, protVars, Calm, Sweeping, ProtInv, FlightInv
<1> DEFINE LockedThen(v) == v.lock.hold \/ (v.lock.mode = "COMPLIANCE" /\ v.lock.until > now')
<1>5. ASSUME NEW v \in versions, ~Locked(v) PROVE ~LockedThen(v)
  <2>1. v.lock \in Lock
    BY DEF ProtInv, ProtTypeOK, VersionRow
  <2>2. v.lock.until \in Nat
    BY <2>1 DEF Lock
  <2>3. now' >= now
    BY <1>2
  <2>4. QED
    BY <1>2, <1>5, <2>2, <2>3 DEF Locked
<1>6. \A r \in Request : request'[r].op = "drop" =>
        /\ request'[r].seen \in versions'
        /\ ~IsMarker(request'[r].seen) => ~LockedThen(request'[r].seen)
  <2> HIDE DEF LockedThen
  <2>1. QED
    BY <1>1, <1>5 DEF ProtInv, FlightInv
<1>7. FlightInv'
  BY <1>1, <1>4, <1>6 DEF ProtInv, FlightInv, Writes, Kept, HasRow, Locked
<1>8. QED
  BY <1>3, <1>7 DEF ProtInv

-----------------------------------------------------------------------------
(* Every step.                                                             *)

\* What a step does to the versions that must not be lost.
KeepsLocked ==
  \A v \in versions : ~IsMarker(v) /\ Locked(v) =>
    \E w \in versions' : w.id = v.id /\ w.body = v.body

LEMMA PutStep ==
  ASSUME ProtInv, NEW r \in Request, NEW a \in Account, PutObject(r, a)
  PROVE  ProtInv' /\ KeepsLocked
<1>1. CASE bucket.versioning
  <2>1. ProtInv' /\ Base(request[r].seen) \subseteq versions'
    BY <1>1, PutVersioned
  <2>2. versions \subseteq Base(request[r].seen)
    BY DEF Base, Inserted
  <2>3. QED
    BY <2>1, <2>2 DEF KeepsLocked
<1>2. CASE ~bucket.versioning
  BY <1>2, PutUnversioned DEF KeepsLocked
<1>3. QED
  BY <1>1, <1>2

LEMMA DeleteStep ==
  ASSUME ProtInv, NEW r \in Request, DeleteObject(r)
  PROVE  ProtInv' /\ KeepsLocked
<1>1. CASE bucket.versioning
  <2>1. ProtInv' /\ Base(request[r].seen) \subseteq versions'
    BY <1>1, DeleteVersioned
  <2>2. versions \subseteq Base(request[r].seen)
    BY DEF Base, Inserted
  <2>3. QED
    BY <2>1, <2>2 DEF KeepsLocked
<1>2. CASE ~bucket.versioning
  <2>1. ProtInv' /\ versions = {}
    BY <1>2, DeleteUnversioned DEF ProtInv, RowInv
  <2>2. QED
    BY <2>1 DEF KeepsLocked
<1>3. QED
  BY <1>1, <1>2

LEMMA DropStep ==
  ASSUME ProtInv, NEW r \in Request, DeleteObjectVersion(r)
  PROVE  ProtInv' /\ KeepsLocked
<1> DEFINE v == request[r].seen
<1>1. ProtInv' /\ (~IsMarker(v) => ~Locked(v)) /\ versions' = versions \ {v}
  BY DropInv
<1>2. QED
  BY <1>1 DEF KeepsLocked

\* The steps of a request that leave the versions alone.
LEMMA OtherRequestStep ==
  ASSUME Calm, ProtInv, NEW r \in Request, RequestStep(r),
         ~\E a \in Account : PutObject(r, a), ~DeleteObject(r), ~DeleteObjectVersion(r)
  PROVE  /\ ProtInv' /\ UNCHANGED <<object, versions>>
         /\ \/ UNCHANGED <<trash, used>>
            \/ \E t \in trash : Purged(t)
<1>1. CASE \/ \E l \in LockInput : ReadForPut(r, l)
           \/ \E bypass \in BOOLEAN : ReadForDelete(r, bypass)
           \/ \E v \in versions, bypass \in BOOLEAN : ReadVersion(r, v, bypass)
           \/ ListForExpiry(r)
  <2>1. UNCHANGED <<object, versions, trash, used>>
    BY <1>1 DEF ReadForPut, ReadForDelete, ReadVersion, ListForExpiry
  <2>2. QED
    BY <1>1, <2>1, ReadsInv
<1>2. CASE \/ ProviderRefuses(r) \/ SkipExpiry(r) \/ StartSweep(r)
           \/ ReadTrash(r, ListTrashObjectsDue) \/ ReadTrash(r, ListTrashObjectsForLifecycle)
           \/ PurgeRefused(r) \/ EndSweep(r) \/ CrashSweep(r)
  <2>1. UNCHANGED <<object, versions, trash, used>>
    BY <1>2 DEF ProviderRefuses, SkipExpiry, StartSweep, ReadTrash, PurgeRefused,
                EndSweep, CrashSweep
  <2>2. QED
    BY <1>2, <2>1, EndsInv
<1>3. CASE PurgeListed(r)
  <2>1. Purged(request[r].seen) /\ UNCHANGED <<object, versions>>
    BY <1>3 DEF PurgeListed
  <2>2. QED
    BY <1>3, <2>1, PurgeListedInv
<1>4. QED
  BY <1>1, <1>2, <1>3 DEF RequestStep

LEMMA NextInv ==
  ASSUME Calm, ProtInv, [ProtNext]_protVars
  PROVE  ProtInv' /\ KeepsLocked
<1>1. ASSUME NEW r \in Request, RequestStep(r) PROVE ProtInv' /\ KeepsLocked
  <2>1. CASE \/ \E a \in Account : PutObject(r, a)
             \/ DeleteObject(r) \/ DeleteObjectVersion(r)
    BY <2>1, PutStep, DeleteStep, DropStep
  <2>2. CASE ~\/ \E a \in Account : PutObject(r, a)
              \/ DeleteObject(r) \/ DeleteObjectVersion(r)
    <3>1. ProtInv' /\ versions' = versions
      BY <1>1, <2>2, OtherRequestStep
    <3>2. QED
      BY <3>1 DEF KeepsLocked
  <2>3. QED
    BY <2>1, <2>2
<1>2. ASSUME NEW p \in Protected,
             \/ \E m \in Mode, d \in 1..MaxNow, bypass \in BOOLEAN :
                  PutObjectRetention(p, m, d, bypass)
             \/ \E hold \in BOOLEAN : PutObjectLegalHold(p, hold)
      PROVE  ProtInv' /\ KeepsLocked
  <2>1. /\ Alone /\ UNCHANGED <<bucket, trash, blobs, used, request, lease, stamp, now>>
        /\ \E l \in Lock : Protect(p.id, l)
    BY <1>2, RetentionIsProtect
  <2>2. PICK l \in Lock : Protect(p.id, l)
    BY <2>1
  <2>3. ProtInv' /\ \A v \in versions : \E w \in versions' : w.id = v.id /\ w.body = v.body
    BY <2>1, <2>2, ProtectInv
  <2>4. QED
    BY <2>3 DEF KeepsLocked
<1>3. ASSUME NEW t \in trash, RestoreTrashObject(t) \/ PurgeTrashObject(t)
      PROVE  ProtInv' /\ KeepsLocked
  <2>1. UNCHANGED versions
    BY <1>3 DEF RestoreTrashObject, PurgeTrashObject
  <2>2. QED
    BY <1>3, <2>1, TrashInv DEF KeepsLocked
<1>4. CASE \/ \E on \in BOOLEAN : PutBucketVersioning(on) \/ SaveBucketTrash(on)
           \/ PutBucketObjectLock \/ CreateBucket
  <2>1. ProtInv' /\ versions' = versions
    BY <1>4, SettingsInv
  <2>2. QED
    BY <2>1 DEF KeepsLocked
<1>5. CASE LeaseExpires \/ DayPasses \/ UNCHANGED protVars
  <2>1. UNCHANGED versions
    BY <1>5 DEF LeaseExpires, DayPasses, protVars
  <2>2. QED
    BY <1>5, <2>1, TimeInv DEF KeepsLocked
<1>6. QED
  BY <1>1, <1>2, <1>3, <1>4, <1>5 DEF ProtNext

LEMMA InitInv ==
  ASSUME ProtInit
  PROVE  ProtInv
<1>1. \A r \in Request : request[r] = Idle /\ request[r].op = "idle"
  BY DEF ProtInit, Idle
<1>2. OtherBytes \in Nat
  BY ProtectionAssumption
<1>3. ProtTypeOK
  <2>1. bucket \in Bucket
    BY DEF ProtInit, Bucket
  <2>2. QED
    BY <1>2, <2>1 DEF ProtInit, ProtTypeOK, RequestType
<1>4. RowInv /\ RowsAreStored
  BY DEF ProtInit, RowInv, RowsAreStored, Sound
<1>5. FlightInv
  BY <1>1 DEF FlightInv, Writes, KeyOps, Sweeping
<1>6. QED
  BY <1>3, <1>4, <1>5 DEF ProtInv

\* Without the races listed as hazards, and though providers may refuse deletes,
\* every row of the key names a body that is stored with the content the row
\* describes, through overlapping uploads and deletes of a versioned key, version
\* deletes that restore an older object, trash, purge and lifecycle runs.
THEOREM RowsStored ==
  ASSUME Calm
  PROVE  ProtSpec => []RowsAreStored
<1>1. ProtInit => ProtInv
  BY InitInv
<1>2. ProtInv /\ [ProtNext]_protVars => ProtInv'
  BY NextInv
<1>3. ProtInv => RowsAreStored
  BY DEF ProtInv
<1>4. QED
  BY <1>1, <1>2, <1>3, PTL DEF ProtSpec

\* Without those races a version under legal hold or unexpired COMPLIANCE
\* retention keeps its row and its stored body through every step: only the
\* delete of that version removes it, and that one read it unlocked.
THEOREM LockedKept ==
  ASSUME Calm
  PROVE  ProtSpec => LockedIsKept
<1>1. ProtInit => ProtInv
  BY InitInv
<1>2. ProtInv /\ [ProtNext]_protVars => ProtInv'
  BY NextInv
<1>3. ProtInv /\ [ProtNext]_protVars =>
        [\A v \in versions : ~IsMarker(v) /\ Locked(v) =>
           v.body \in blobs' /\ \E w \in versions' : w.id = v.id /\ w.body = v.body]_protVars
  <2>1. ASSUME ProtInv, [ProtNext]_protVars, NEW v \in versions, ~IsMarker(v), Locked(v)
        PROVE  v.body \in blobs' /\ \E w \in versions' : w.id = v.id /\ w.body = v.body
    <3>1. ProtInv' /\ KeepsLocked
      BY <2>1, NextInv
    <3>2. PICK w \in versions' : w.id = v.id /\ w.body = v.body
      BY <2>1, <3>1 DEF KeepsLocked
    <3>3. v.body \in blobs'
      BY <2>1, <3>1, <3>2 DEF ProtInv, RowsAreStored, IsMarker
    <3>4. QED
      BY <3>2, <3>3
  <2>2. QED
    BY <2>1
<1>4. QED
  BY <1>1, <1>2, <1>3, PTL DEF ProtSpec, LockedIsKept

-----------------------------------------------------------------------------
(* Bytes.  Names are the bodies the rows name; every account has counted    *)
(* the ones it holds.                                                      *)

Names == {v.body : v \in versions} \cup {t.body : t \in trash}
           \cup {IF object = None THEN None ELSE object.body}
HeldAt(bs, a) == {b \in bs : b # None /\ b.account = a}
Fits(bs, u) == \A a \in Account : Cardinality(HeldAt(bs, a)) + OtherBytes <= u[a]
ChargeInv == ProtInv /\ IsFiniteSet(Names) /\ Fits(Names, used)

LEMMA FewerFit ==
  ASSUME NEW bs, IsFiniteSet(bs), NEW cs, cs \subseteq bs \cup {None},
         NEW u \in [Account -> Nat], Fits(bs, u)
  PROVE  IsFiniteSet(cs) /\ Fits(cs, u)
<1>1. IsFiniteSet(cs)
  <2>1. IsFiniteSet(bs \cup {None})
    BY FS_AddElement
  <2>2. QED
    BY <2>1, FS_Subset
<1>2. ASSUME NEW a \in Account
      PROVE  Cardinality(HeldAt(cs, a)) + OtherBytes <= u[a]
  <2>1. HeldAt(cs, a) \subseteq HeldAt(bs, a) /\ HeldAt(bs, a) \subseteq bs
    BY DEF HeldAt
  <2>2. /\ Cardinality(HeldAt(cs, a)) <= Cardinality(HeldAt(bs, a))
        /\ IsFiniteSet(HeldAt(cs, a)) /\ IsFiniteSet(HeldAt(bs, a))
    BY <2>1, FS_Subset
  <2>3. /\ Cardinality(HeldAt(cs, a)) \in Nat /\ Cardinality(HeldAt(bs, a)) \in Nat
        /\ u[a] \in Nat /\ OtherBytes \in Nat
    BY <2>2, FS_CardinalityType, ProtectionAssumption
  <2>4. Cardinality(HeldAt(bs, a)) + OtherBytes <= u[a]
    BY DEF Fits
  <2>5. QED
    BY <2>2, <2>3, <2>4
<1>3. QED
  BY <1>1, <1>2 DEF Fits

\* One body more, one byte more on its account.
LEMMA OneMoreFits ==
  ASSUME NEW bs, IsFiniteSet(bs), NEW b \in Body,
         NEW u \in [Account -> Nat], Fits(bs, u)
  PROVE  /\ IsFiniteSet(bs \cup {b})
         /\ Fits(bs \cup {b}, [u EXCEPT ![b.account] = @ + 1])
<1> DEFINE w == [u EXCEPT ![b.account] = @ + 1]
           cs == bs \cup {b}
<1>1. IsFiniteSet(cs)
  BY FS_AddElement
<1>2. b.account \in Account /\ b # None
  BY NoneIsNoRow
<1>3. ASSUME NEW a \in Account
      PROVE  Cardinality(HeldAt(cs, a)) + OtherBytes <= w[a]
  <2>1. IsFiniteSet(HeldAt(bs, a))
    <3>1. HeldAt(bs, a) \subseteq bs
      BY DEF HeldAt
    <3>2. QED
      BY <3>1, FS_Subset
  <2>2. /\ Cardinality(HeldAt(bs, a)) \in Nat /\ u[a] \in Nat /\ OtherBytes \in Nat
    BY <2>1, FS_CardinalityType, ProtectionAssumption
  <2>3. Cardinality(HeldAt(bs, a)) + OtherBytes <= u[a]
    BY DEF Fits
  <2>4. CASE a = b.account
    <3>1. HeldAt(cs, a) = HeldAt(bs, a) \cup {b}
      BY <1>2, <2>4 DEF HeldAt
    <3>2. \/ Cardinality(HeldAt(cs, a)) = Cardinality(HeldAt(bs, a))
          \/ Cardinality(HeldAt(cs, a)) = Cardinality(HeldAt(bs, a)) + 1
      BY <2>1, <3>1, FS_AddElement
    <3>3. w[a] = u[a] + 1
      BY <2>4
    <3>4. QED
      BY <2>2, <2>3, <3>2, <3>3
  <2>5. CASE a # b.account
    <3>1. HeldAt(cs, a) = HeldAt(bs, a) /\ w[a] = u[a]
      BY <1>2, <2>5 DEF HeldAt
    <3>2. QED
      BY <2>3, <3>1
  <2>6. QED
    BY <2>4, <2>5
<1>4. QED
  BY <1>1, <1>3 DEF Fits

\* One body less, one byte less on its account.
LEMMA OneLessFits ==
  ASSUME NEW bs, IsFiniteSet(bs), NEW b \in Body, b \in bs,
         NEW u \in [Account -> Nat], Fits(bs, u)
  PROVE  /\ IsFiniteSet(bs \ {b}) /\ Fits(bs \ {b}, Uncharged(u, b.account))
<1> DEFINE w == Uncharged(u, b.account)
           cs == bs \ {b}
<1>1. IsFiniteSet(cs)
  BY FS_Subset
<1>2. b.account \in Account /\ b # None
  BY NoneIsNoRow
<1>3. ASSUME NEW a \in Account
      PROVE  Cardinality(HeldAt(cs, a)) + OtherBytes <= w[a]
  <2>1. IsFiniteSet(HeldAt(bs, a))
    <3>1. HeldAt(bs, a) \subseteq bs
      BY DEF HeldAt
    <3>2. QED
      BY <3>1, FS_Subset
  <2>2. /\ Cardinality(HeldAt(bs, a)) \in Nat /\ u[a] \in Nat /\ OtherBytes \in Nat
    BY <2>1, FS_CardinalityType, ProtectionAssumption
  <2>3. Cardinality(HeldAt(bs, a)) + OtherBytes <= u[a]
    BY DEF Fits
  <2>4. CASE a = b.account
    <3>1. HeldAt(cs, a) = HeldAt(bs, a) \ {b} /\ b \in HeldAt(bs, a)
      BY <1>2, <2>4 DEF HeldAt
    <3>2. IsFiniteSet(HeldAt(cs, a)) /\ Cardinality(HeldAt(cs, a)) = Cardinality(HeldAt(bs, a)) - 1
      BY <2>1, <3>1, FS_RemoveElement
    <3>3. Cardinality(HeldAt(cs, a)) \in Nat
      BY <3>2, FS_CardinalityType
    <3>4. w[a] = IF u[a] > 0 THEN u[a] - 1 ELSE 0
      BY <2>4 DEF Uncharged
    <3>5. QED
      BY <2>2, <2>3, <3>2, <3>3, <3>4
  <2>5. CASE a # b.account
    <3>1. HeldAt(cs, a) = HeldAt(bs, a) /\ w[a] = u[a]
      BY <1>2, <2>5 DEF HeldAt, Uncharged
    <3>2. QED
      BY <2>3, <3>1
  <2>6. QED
    BY <2>4, <2>5
<1>4. QED
  BY <1>1, <1>3 DEF Fits

\* How the bodies that are named may change, and what must happen to used_bytes.
LEMMA ChargeStep ==
  ASSUME ChargeInv, ProtInv',
         \/ used' = used /\ Names' \subseteq Names \cup {None}
         \/ \E b \in Body : /\ used' = Charged(b.account)
                            /\ Names' \subseteq (Names \cup {b}) \cup {None}
         \/ \E b \in Body : /\ b \in Names /\ used' = Uncharged(used, b.account)
                            /\ Names' \subseteq (Names \ {b}) \cup {None}
  PROVE  ChargeInv'
<1>1. IsFiniteSet(Names) /\ Fits(Names, used) /\ used \in [Account -> Nat]
  BY DEF ChargeInv, ProtInv, ProtTypeOK
<1>2. SUFFICES IsFiniteSet(Names') /\ Fits(Names', used')
  BY DEF ChargeInv, Fits, HeldAt
<1>3. CASE used' = used /\ Names' \subseteq Names \cup {None}
  BY <1>1, <1>3, FewerFit
<1>4. ASSUME NEW b \in Body, used' = Charged(b.account),
             Names' \subseteq (Names \cup {b}) \cup {None}
      PROVE  IsFiniteSet(Names') /\ Fits(Names', used')
  <2>1. IsFiniteSet(Names \cup {b}) /\ Fits(Names \cup {b}, used')
    BY <1>1, <1>4, OneMoreFits DEF Charged
  <2>2. used' \in [Account -> Nat]
    BY DEF ProtInv, ProtTypeOK
  <2>3. QED
    BY <1>4, <2>1, <2>2, FewerFit
<1>5. ASSUME NEW b \in Body, b \in Names, used' = Uncharged(used, b.account),
             Names' \subseteq (Names \ {b}) \cup {None}
      PROVE  IsFiniteSet(Names') /\ Fits(Names', used')
  <2>1. IsFiniteSet(Names \ {b}) /\ Fits(Names \ {b}, used')
    BY <1>1, <1>5, OneLessFits
  <2>2. used' \in [Account -> Nat]
    BY DEF ProtInv, ProtTypeOK
  <2>3. QED
    BY <1>5, <2>1, <2>2, FewerFit
<1>6. QED
  BY <1>3, <1>4, <1>5

\* What a request saw is named by a row already.
LEMMA BaseNames ==
  ASSUME ProtInv, NEW r \in Request, Writes(r), bucket.versioning
  PROVE  \A v \in Base(request[r].seen) : v.body \in Names
<1> DEFINE o == request[r].seen
<1>1. o \in ObjectRow \cup {None}
  BY RequestShape DEF ProtInv, Writes, KeyOps, KeyReq
<1>2. \A v \in versions : v.body \in Names
  BY DEF Names
<1>3. CASE o = None
  BY <1>2, <1>3 DEF Base
<1>4. CASE o # None /\ HasRow(o, versions)
  <2>1. Base(o) = versions
    BY <1>4 DEF Base, Inserted, HasRow
  <2>2. QED
    BY <1>2, <2>1
<1>5. CASE o # None /\ ~HasRow(o, versions)
  <2>1. o = object
    BY <1>5 DEF ProtInv, FlightInv, Kept
  <2>2. VersionOf(o).body = object.body
    BY <1>1, <1>5, <2>1, VersionOfRow
  <2>3. object.body \in Names
    BY <1>5, <2>1 DEF Names
  <2>4. QED
    BY <1>2, <1>5, <2>2, <2>3 DEF Base, Inserted
<1>6. QED
  BY <1>3, <1>4, <1>5

LEMMA PutCharge ==
  ASSUME ChargeInv, NEW r \in Request, NEW a \in Account, PutObject(r, a)
  PROVE  ChargeInv'
<1> DEFINE b == Row(r, a).body
           row == Row(r, a)
<1>1. ProtInv /\ ProtInv'
  BY PutStep DEF ChargeInv
<1>2. request[r].op = "put" /\ Writes(r)
  BY DEF PutObject, Writes
<1>3. b \in Body /\ b.account = a /\ row \in ObjectRow /\ trash = {}
  BY <1>1, <1>2, RowOfPut
<1>4. trash' = {}
  BY <1>3 DEF PutObject
<1>5. CASE bucket.versioning
  <2>1. /\ versions' = Base(request[r].seen) \cup {VersionOf(row)}
        /\ object'.body = b /\ used' = Charged(a)
    BY <1>1, <1>5, PutVersioned
  <2>2. VersionOf(row).body = b
    BY <1>3, VersionOfRow
  <2> HIDE DEF row, b
  <2>3. Names' \subseteq (Names \cup {b}) \cup {None}
    BY <1>1, <1>2, <1>4, <1>5, <2>1, <2>2, BaseNames DEF Names
  <2>4. QED
    BY <1>1, <1>3, <2>1, <2>3, ChargeStep
<1>6. CASE ~bucket.versioning /\ object = None
  <2>1. object'.body = b /\ used' = Charged(a) /\ versions' = versions
    BY <1>1, <1>6, PutUnversioned
  <2> HIDE DEF b
  <2>2. Names' \subseteq (Names \cup {b}) \cup {None}
    BY <1>4, <2>1 DEF Names
  <2>3. QED
    BY <1>1, <1>3, <2>1, <2>2, ChargeStep
<1>7. CASE ~bucket.versioning /\ object # None
  <2> DEFINE c == object.body
  <2>1. /\ object'.body = b /\ used' = Uncharged(Charged(a), c.account) /\ versions' = versions
    BY <1>1, <1>7, PutUnversioned
  <2>2. versions = {} /\ c \in Body /\ c.account \in Account /\ used \in [Account -> Nat]
    BY <1>1, <1>7, NoneIsNoRow DEF ProtInv, ProtTypeOK, RowInv
  <2>3. c \in Names
    BY <1>7 DEF Names
  <2> HIDE DEF b, c
  <2>4. Names' \subseteq {b, None}
    BY <1>4, <2>1, <2>2 DEF Names
  <2>5. CASE b = c
    <3>1. used' = used
      BY <1>3, <2>1, <2>2, <2>5 DEF Charged, Uncharged
    <3>2. QED
      BY <1>1, <2>3, <2>4, <2>5, <3>1, ChargeStep
  <2>6. CASE b # c
    <3>1. IsFiniteSet(Names \cup {b}) /\ Fits(Names \cup {b}, Charged(a))
      BY <1>3, <2>2, OneMoreFits DEF ChargeInv, Charged
    <3>2. Charged(a) \in [Account -> Nat] /\ used' \in [Account -> Nat]
      BY <1>1, <2>2, ChargedType DEF ProtInv, ProtTypeOK
    <3>3. /\ IsFiniteSet((Names \cup {b}) \ {c})
          /\ Fits((Names \cup {b}) \ {c}, used')
      BY <2>1, <2>2, <2>3, <3>1, <3>2, OneLessFits
    <3>4. Names' \subseteq ((Names \cup {b}) \ {c}) \cup {None}
      BY <2>4, <2>6
    <3>5. IsFiniteSet(Names') /\ Fits(Names', used')
      BY <3>2, <3>3, <3>4, FewerFit
    <3>6. QED
      BY <1>1, <3>5 DEF ChargeInv, Fits, HeldAt
  <2>7. QED
    BY <2>5, <2>6
<1>8. QED
  BY <1>5, <1>6, <1>7

LEMMA DeleteCharge ==
  ASSUME ChargeInv, NEW r \in Request, DeleteObject(r)
  PROVE  ChargeInv'
<1>1. ProtInv /\ ProtInv'
  BY DeleteStep DEF ChargeInv
<1>2. Writes(r)
  BY DEF DeleteObject, Writes
<1>3. CASE bucket.versioning
  <2>1. /\ versions' = Base(request[r].seen) \cup {Marker(stamp + 1)}
        /\ object' = None /\ UNCHANGED <<trash, used>>
    BY <1>1, <1>3, DeleteVersioned
  <2>2. Marker(stamp + 1).body = None
    BY DEF Marker
  <2>3. Names' \subseteq Names \cup {None}
    BY <1>1, <1>2, <1>3, <2>1, <2>2, BaseNames DEF Names
  <2>4. QED
    BY <1>1, <2>1, <2>3, ChargeStep
<1>4. CASE ~bucket.versioning
  <2> DEFINE c == object.body
  <2>1. /\ object # None /\ object' = None /\ trash = {} /\ versions' = {} /\ versions = {}
        /\ \/ used' = used /\ {t.body : t \in trash'} = {c}
           \/ used' = Uncharged(used, c.account) /\ trash' = {}
    BY <1>1, <1>4, DeleteUnversioned DEF ProtInv, RowInv
  <2>2. c \in Names /\ c \in Body
    BY <1>1, <2>1, NoneIsNoRow DEF Names, ProtInv, ProtTypeOK
  <2> HIDE DEF c
  <2>3. CASE used' = used /\ {t.body : t \in trash'} = {c}
    <3>1. Names' \subseteq Names \cup {None}
      BY <2>1, <2>2, <2>3 DEF Names
    <3>2. QED
      BY <1>1, <2>3, <3>1, ChargeStep
  <2>4. CASE used' = Uncharged(used, c.account) /\ trash' = {}
    <3>1. Names' \subseteq (Names \ {c}) \cup {None}
      BY <2>1, <2>4 DEF Names
    <3>2. QED
      BY <1>1, <2>2, <2>4, <3>1, ChargeStep
  <2>5. QED
    BY <2>1, <2>3, <2>4
<1>5. QED
  BY <1>3, <1>4

LEMMA DropCharge ==
  ASSUME ChargeInv, NEW r \in Request, DeleteObjectVersion(r)
  PROVE  ChargeInv'
<1> DEFINE v == request[r].seen
<1>1. ProtInv
  BY DEF ChargeInv
<1>2. /\ ProtInv' /\ v \in versions /\ versions' = versions \ {v} /\ UNCHANGED trash
      /\ object' # None =>
           \/ object' = object /\ (~IsMarker(v) => object.body # v.body)
           \/ \E w \in versions' : ~IsMarker(w) /\ object'.body = w.body
      /\ IF IsMarker(v) THEN used' = used ELSE used' = Uncharged(used, v.body.account)
  BY <1>1, DropInv
<1>3. trash = {}
  BY <1>1, <1>2 DEF ProtInv, RowInv
<1> HIDE DEF v
<1>4. Names' \subseteq Names \cup {None}
  BY <1>2, <1>3 DEF Names
<1>5. CASE IsMarker(v)
  BY <1>2, <1>4, <1>5, ChargeStep
<1>6. CASE ~IsMarker(v)
  <2>1. v.body \in Body /\ v.body \in Names
    BY <1>1, <1>2, <1>6 DEF ProtInv, ProtTypeOK, VersionRow, IsMarker, Names
  <2>2. \A w \in versions' : w.body # v.body
    <3>1. ASSUME NEW w \in versions, w.body = v.body PROVE w = v
      BY <1>1, <1>2, <1>6, <3>1 DEF ProtInv, RowInv, Sound, IsMarker
    <3>2. QED
      BY <1>2, <3>1
  <2>3. v.body # None
    BY <1>6 DEF IsMarker
  <2>4. \A b \in Names' : b # v.body
    BY <1>2, <1>3, <1>6, <2>2, <2>3 DEF Names
  <2>5. QED
    BY <1>2, <1>4, <1>6, <2>1, <2>4, ChargeStep
<1>7. QED
  BY <1>5, <1>6

LEMMA PurgeCharge ==
  ASSUME ChargeInv, ProtInv', NEW t \in trash, Purged(t), UNCHANGED <<object, versions>>
  PROVE  ChargeInv'
<1>1. /\ trash = {t} /\ object = None /\ versions = {} /\ t.body \in Body
  BY TrashIsAll DEF ChargeInv
<1>2. trash' = {} /\ used' = Uncharged(used, t.body.account)
  BY <1>1 DEF Purged
<1>3. t.body \in Names
  BY DEF Names
<1>4. Names' \subseteq (Names \ {t.body}) \cup {None}
  BY <1>1, <1>2 DEF Names
<1>5. QED
  BY <1>1, <1>2, <1>3, <1>4, ChargeStep

LEMMA ChargeNext ==
  ASSUME Calm, ChargeInv, [ProtNext]_protVars
  PROVE  ChargeInv'
<1>1. ProtInv /\ ProtInv'
  BY NextInv DEF ChargeInv
<1>2. UNCHANGED <<object, versions, trash>> => Names' = Names
  BY DEF Names
<1>3. ASSUME NEW r \in Request, RequestStep(r) PROVE ChargeInv'
  <2>1. CASE \/ \E a \in Account : PutObject(r, a)
             \/ DeleteObject(r) \/ DeleteObjectVersion(r)
    BY <2>1, PutCharge, DeleteCharge, DropCharge
  <2>2. CASE ~\/ \E a \in Account : PutObject(r, a)
              \/ DeleteObject(r) \/ DeleteObjectVersion(r)
    <3>1. /\ UNCHANGED <<object, versions>>
          /\ \/ UNCHANGED <<trash, used>>
             \/ \E t \in trash : Purged(t)
      BY <1>1, <1>3, <2>2, OtherRequestStep
    <3>2. QED
      BY <1>1, <1>2, <3>1, ChargeStep, PurgeCharge
  <2>3. QED
    BY <2>1, <2>2
<1>4. ASSUME NEW p \in Protected,
             \/ \E m \in Mode, d \in 1..MaxNow, bypass \in BOOLEAN :
                  PutObjectRetention(p, m, d, bypass)
             \/ \E hold \in BOOLEAN : PutObjectLegalHold(p, hold)
      PROVE  ChargeInv'
  <2>1. /\ Alone /\ UNCHANGED <<bucket, trash, blobs, used, request, lease, stamp, now>>
        /\ \E l \in Lock : Protect(p.id, l)
    BY <1>1, <1>4, RetentionIsProtect
  <2>2. PICK l \in Lock : Protect(p.id, l)
    BY <2>1
  <2>3. /\ {w.body : w \in versions'} = {v.body : v \in versions}
        /\ object' = None <=> object = None
        /\ object # None => object'.body = object.body
    BY <1>1, <2>1, <2>2, ProtectInv
  <2>4. Names' = Names
    BY <2>1, <2>3 DEF Names
  <2>5. QED
    BY <1>1, <2>1, <2>4, ChargeStep
<1>5. ASSUME NEW t \in trash, RestoreTrashObject(t) \/ PurgeTrashObject(t)
      PROVE  ChargeInv'
  <2>1. CASE PurgeTrashObject(t)
    BY <1>1, <2>1, PurgeCharge DEF PurgeTrashObject
  <2>2. CASE RestoreTrashObject(t)
    <3>1. object'.body = t.body /\ trash' \subseteq trash /\ UNCHANGED <<versions, used>>
      BY <2>2 DEF RestoreTrashObject
    <3>2. Names' \subseteq Names \cup {None}
      BY <3>1 DEF Names
    <3>3. QED
      BY <1>1, <3>1, <3>2, ChargeStep
  <2>3. QED
    BY <1>5, <2>1, <2>2
<1>6. CASE \/ \E on \in BOOLEAN : PutBucketVersioning(on) \/ SaveBucketTrash(on)
           \/ PutBucketObjectLock \/ CreateBucket
  BY <1>1, <1>2, <1>6, SettingsInv, ChargeStep
<1>7. CASE LeaseExpires \/ DayPasses \/ UNCHANGED protVars
  <2>1. UNCHANGED <<object, versions, trash, used>>
    BY <1>7 DEF LeaseExpires, DayPasses, protVars
  <2>2. QED
    BY <1>1, <1>2, <2>1, ChargeStep
<1>8. QED
  BY <1>3, <1>4, <1>5, <1>6, <1>7 DEF ProtNext

\* Without those races the used_bytes of an account cover every body that a row
\* of the key names there besides what other keys occupy, though overwrites,
\* purges, version deletes and lifecycle runs each give bytes back.
THEOREM RowsCharged ==
  ASSUME Calm
  PROVE  ProtSpec => []RowsAreCharged
<1>1. ProtInit => ChargeInv
  <2>1. ASSUME ProtInit PROVE ChargeInv
    <3>1. Names = {None}
      BY <2>1 DEF Names, ProtInit
    <3>2. IsFiniteSet(Names)
      <4>1. IsFiniteSet({}) /\ {} \cup {None} = {None}
        BY FS_EmptySet
      <4>2. QED
        BY <3>1, <4>1, FS_AddElement
    <3>3. \A a \in Account : HeldAt(Names, a) = {} /\ used[a] = OtherBytes
      BY <2>1, <3>1 DEF HeldAt, ProtInit
    <3>4. OtherBytes \in Nat /\ Cardinality({}) = 0
      BY ProtectionAssumption, FS_EmptySet
    <3>5. Fits(Names, used)
      BY <3>3, <3>4 DEF Fits
    <3>6. QED
      BY <2>1, <3>2, <3>5, InitInv DEF ChargeInv
  <2>2. QED
    BY <2>1
<1>2. ChargeInv /\ [ProtNext]_protVars => ChargeInv'
  BY ChargeNext
<1>3. ChargeInv => RowsAreCharged
  BY DEF ChargeInv, Fits, HeldAt, Names, RowsAreCharged
<1>4. QED
  BY <1>1, <1>2, <1>3, PTL DEF ProtSpec
=============================================================================
