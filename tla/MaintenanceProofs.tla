-------------------------- MODULE MaintenanceProofs --------------------------
(***************************************************************************)
(* What the background jobs leave of every object, for any accounts, keys, *)
(* workers, jobs, uploads and crashes.                                     *)
(*                                                                         *)
(* The hypothesis Orderly leaves out the races that module Maintenance     *)
(* lists as hazards and keeps providers that refuse calls and lose bodies; *)
(* workers of one queue still overlap as they like, and crash anywhere.    *)
(***************************************************************************)
EXTENDS Maintenance, FiniteSetTheorems, WellFoundedInduction, TLAPS

Orderly == Hazards \subseteq {"down", "damage"}

\* What a worker may be doing: on a replica, ...
Item == [key : Key, row : Row]
HoldReq == [op : {"read", "mark", "fail", "list"}, key : Key, account : Account]
PutReq == [op : {"put"}, key : Key, account : Account, want : Nat, body : Nat]
RefreshReq == [op : {"refresh"}, key : Key, account : Account, row : Row]
ReplicaReq == HoldReq \cup PutReq \cup RefreshReq
\* ... or on the job.
StartReq == [op : {"job"}, step : {"start"}, counts : Counts]
NextReq == [op : {"job"}, step : {"next", "finish"}, counts : Counts,
            todo : SUBSET Item, seen : SUBSET Key]
BodyReq == [op : {"job"}, step : {"put", "index", "delete"}, counts : Counts,
            todo : SUBSET Item, seen : SUBSET Key, body : Nat]
RestoreReq == [op : {"job"}, step : {"restore"}, counts : Counts,
               todo : SUBSET Item, seen : SUBSET Key, body : Nat, row : Row]
JobReq == StartReq \cup NextReq \cup BodyReq \cup RestoreReq

MaintTypeOK ==
  /\ index \in [Key -> Row \cup {None}]
  /\ replica \in [Key -> [Account -> ReplicaRow \cup {None}]]
  /\ blobs \in [Account -> [Key -> Nat]]
  /\ job \in Job \cup {None}
  /\ work \in [Worker -> {Idle} \cup ReplicaReq \cup JobReq]
  /\ uploads \in Nat

\* The invariants take the state they speak of as parameters, so that they are
\* the same formula before and after a step.
Good(r) == r # None /\ r.status = "succeeded"
AllGood(rs) == \A a \in Account : rs[a] # None => Good(rs[a])

\* An object: its row, its replicas and the bodies under its key.  The primary
\* has the body, or lost it to a replica that has it; a replica that succeeded
\* has the body; nothing replicates an object to where the jobs move it from.
KeyOK(k, o, rs, bs) ==
  /\ o = None => \A a \in Account : rs[a] = None
  /\ o # None =>
       /\ o.content # 0
       /\ bs[o.account][k] \in {0, o.content}
       /\ bs[o.account][k] = 0 => \E a \in Account : Good(rs[a]) /\ bs[a][k] = o.content
       /\ \A a \in Account : Good(rs[a]) /\ a # o.account => bs[a][k] = o.content
       /\ o.account = Source => rs[Source] = None
       /\ o.status = "completed" => AllGood(rs)

Busy == {"read", "put", "mark", "fail"}

\* A worker on a replica: it owns the row while it is busy, and what it carries
\* is the object as it is.
HoldOK(q, o, rs, bs) ==
  /\ o # None
  /\ q.op \in Busy => rs[q.account] # None /\ rs[q.account].status = "running"
  /\ q.op = "put" => q.body = o.content /\ q.want = o.content
  /\ q.op = "mark" => bs[q.account][q.key] = o.content
  /\ q.op = "refresh" => /\ q.row.account = o.account /\ q.row.content = o.content
                         /\ q.row.status = "completed" => AllGood(rs)

Keys(todo) == {o.key : o \in todo}
Least(todo) == CHOOSE o \in todo : \A p \in todo : o.key <= p.key

\* The list of a job: rows as they are, each key once.
ListOK(q, ix, bs, kind) ==
  /\ \A o, p \in q.todo : o.key = p.key => o = p
  /\ kind \in Migration =>
       \A o \in q.todo : q.step # "delete" \/ o # Least(q.todo) =>
         ix[o.key] = o.row /\ o.row.account = Source
  /\ kind \in Inventory =>
       \A o \in q.todo : /\ bs[Source][o.key] # 0
                         /\ o.row = [account |-> Source, content |-> bs[Source][o.key],
                                     status |-> "none"]

\* The object in hand.
CarryOK(q, ix, rp, bs, kind) ==
  LET k == Least(q.todo).key
      o == Least(q.todo).row
  IN  /\ q.step \in {"put", "index", "delete"} =>
           /\ q.todo # {} /\ kind \in Migration
           /\ o.content = q.body
      /\ q.step = "delete" => /\ kind = "move" /\ rp[k][Source] = None
                              /\ ix[k] = [o EXCEPT !.account = Target]
      /\ q.step \in {"index", "delete"} => bs[Target][k] = q.body
      /\ q.step = "restore" => /\ q.todo # {} /\ kind = "repair"
                               /\ ix[k] = q.row /\ q.row # None /\ q.body = q.row.content
      /\ q.step = "finish" => q.todo = {}

\* What is done already of what the job promises.
ProgressOK(q, ix, rp, bs, kind) ==
  /\ kind \in Migration =>
       /\ IsFiniteSet(q.todo)
       /\ q.counts.total = q.counts.done + Cardinality(q.todo)
       /\ q.counts.done = q.counts.good + q.counts.bad
       /\ q.counts.bad = 0 =>
            \A k \in Key : ix[k] # None /\ ix[k].account = Source =>
              k \in Keys(q.todo) \/ (kind = "copy" /\ Good(rp[k][Target]))
  /\ kind = "repair" /\ q.counts.bad = 0 =>
       \A k \in Key \ Keys(q.todo) : ix[k] # None => bs[ix[k].account][k] = ix[k].content
  /\ kind \in Inventory =>
       \A k \in Key \ Keys(q.todo) : bs[Source][k] # 0 => ix[k] # None

JobOK(q, ix, rp, bs, jb) ==
  /\ jb # None /\ jb.status = "running"
  /\ q.step = "start" => (jb.kind \in Migration => q.counts = NoCounts)
  /\ q.step # "start" => /\ ListOK(q, ix, bs, jb.kind)
                         /\ CarryOK(q, ix, rp, bs, jb.kind)
                         /\ ProgressOK(q, ix, rp, bs, jb.kind)

Replicating(q) == q.op \notin {"idle", "job"}
SameRow(q, p) == q.op \in Busy /\ p.op \in Busy /\ q.key = p.key /\ q.account = p.account

KeysInv == \A k \in Key : KeyOK(k, index[k], replica[k], blobs)
HoldsInv ==
  /\ \A w \in Worker : Replicating(work[w]) =>
       HoldOK(work[w], index[work[w].key], replica[work[w].key], blobs)
  /\ \A v, w \in Worker : v # w => ~SameRow(work[v], work[w])
JobsInv ==
  /\ \A w \in Worker : work[w].op = "job" =>
       /\ JobOK(work[w], index, replica, blobs, job)
       /\ \A v \in Worker \ {w} : work[v] = Idle
  /\ job # None /\ job.kind \in Migration /\ job.status = "pending" => job.counts = NoCounts

MaintInv == MaintTypeOK /\ KeysInv /\ HoldsInv /\ JobsInv

-----------------------------------------------------------------------------
(* Rows, requests and reads by their types.                                *)

LEMMA RowFacts ==
  /\ \A o \in Row : /\ o # None /\ o.account \in Account /\ o.content \in Nat
                    /\ \A a \in Account : [o EXCEPT !.account = a] \in Row
  /\ \A r \in ReplicaRow : r # None
  /\ \A j \in Job : j # None
<1>1. DOMAIN None = {"absent"}
  BY DEF None
<1>2. \A o \in Row : DOMAIN o = {"account", "content", "status"}
  BY DEF Row
<1>3. \A r \in ReplicaRow : DOMAIN r = {"status", "attempts", "max", "stored"}
  BY DEF ReplicaRow
<1>4. \A j \in Job : DOMAIN j = {"kind", "status", "counts"}
  BY DEF Job
<1>5. \A o \in Row : /\ o.account \in Account /\ o.content \in Nat
                     /\ \A a \in Account : [o EXCEPT !.account = a] \in Row
  BY DEF Row
<1>6. (\A o \in Row : o # None) /\ (\A r \in ReplicaRow : r # None) /\ (\A j \in Job : j # None)
  BY <1>1, <1>2, <1>3, <1>4
<1>7. QED
  BY <1>5, <1>6

LEMMA WorkShape ==
  ASSUME MaintTypeOK, NEW w \in Worker
  PROVE  /\ work[w] = Idle <=> work[w].op = "idle"
         /\ work[w].op = "job" => work[w] \in JobReq
         /\ Replicating(work[w]) => /\ work[w] \in ReplicaReq
                                    /\ work[w].key \in Key /\ work[w].account \in Account
         /\ work[w].op \in Busy \cup {"list", "refresh", "job", "idle"}
         /\ work[w].op = "put" => work[w] \in PutReq
         /\ work[w].op = "refresh" => work[w] \in RefreshReq
         /\ work[w].op \in {"read", "mark", "fail", "list"} => work[w] \in HoldReq
<1>1. work[w] \in {Idle} \cup ReplicaReq \cup JobReq
  BY DEF MaintTypeOK
<1>2. CASE work[w] = Idle
  BY <1>2 DEF Idle, Replicating
<1>3. CASE work[w] \in HoldReq
  BY <1>3 DEF HoldReq, ReplicaReq, Idle, Replicating, Busy
<1>4. CASE work[w] \in PutReq
  BY <1>4 DEF PutReq, ReplicaReq, Idle, Replicating, Busy
<1>5. CASE work[w] \in RefreshReq
  BY <1>5 DEF RefreshReq, ReplicaReq, Idle, Replicating, Busy
<1>6. CASE work[w] \in JobReq
  <2>1. work[w].op = "job"
    BY <1>6 DEF JobReq, StartReq, NextReq, BodyReq, RestoreReq
  <2>2. QED
    BY <1>6, <2>1 DEF Idle, Replicating, Busy
<1>7. QED
  BY <1>1, <1>2, <1>3, <1>4, <1>5, <1>6 DEF ReplicaReq

LEMMA JobShape ==
  ASSUME NEW q \in JobReq
  PROVE  /\ q.counts \in Counts
         /\ q.step \in {"start", "next", "finish", "put", "index", "delete", "restore"}
         /\ q.step # "start" => q.todo \in SUBSET Item /\ q.seen \in SUBSET Key
         /\ q.step \in {"next", "finish"} => q \in NextReq
         /\ q.step \in {"put", "index", "delete"} => q \in BodyReq /\ q.body \in Nat
         /\ q.step = "restore" => q \in RestoreReq /\ q.body \in Nat /\ q.row \in Row
<1>1. CASE q \in StartReq
  BY <1>1 DEF StartReq
<1>2. CASE q \in NextReq
  BY <1>2 DEF NextReq
<1>3. CASE q \in BodyReq
  BY <1>3 DEF BodyReq
<1>4. CASE q \in RestoreReq
  BY <1>4 DEF RestoreReq
<1>5. QED
  BY <1>1, <1>2, <1>3, <1>4 DEF JobReq

\* A set of naturals has a least member.
LEMMA LeastNatural ==
  ASSUME NEW T, T \subseteq Nat, T # {}
  PROVE  \E x \in T : \A y \in T : x <= y
<1> DEFINE R == OpToRel(<, Nat)
<1>1. IsWellFoundedOn(R, Nat)
  BY NatLessThanWellFounded
<1>2. \A x, y \in Nat : x < y => <<x, y>> \in R
  BY DEF OpToRel
<1> HIDE DEF R
<1>3. PICK x \in T : \A y \in T : ~ (<<y, x>> \in R)
  BY <1>1, WFMin, Zenon
<1>4. \A y \in T : x \in Nat /\ y \in Nat /\ ~ (y < x)
  BY <1>2, <1>3
<1>5. \A y \in T : x <= y
  BY <1>4
<1>6. QED
  BY <1>5

\* A list that is not empty has a first object.
LEMMA LeastIn ==
  ASSUME NEW todo \in SUBSET Item, todo # {}
  PROVE  Least(todo) \in todo /\ Least(todo).key \in Key /\ Least(todo).row \in Row
<1> DEFINE T == Keys(todo)
<1>1. \A o \in todo : o.key \in Key /\ o.row \in Row
  BY DEF Item
<1>2. T \subseteq Nat /\ T # {}
  BY <1>1, MaintenanceAssumption DEF Keys
<1>3. PICK x \in T : \A y \in T : x <= y
  BY <1>2, LeastNatural
<1>4. PICK o \in todo : o.key = x
  BY <1>3 DEF Keys
<1>5. \A p \in todo : o.key <= p.key
  BY <1>3, <1>4 DEF Keys
<1>6. Least(todo) \in todo
  BY <1>4, <1>5 DEF Least
<1>7. QED
  BY <1>1, <1>6

\* An object that is in order is served, and only with its content.
LEMMA ServedIsContent ==
  ASSUME MaintTypeOK, KeysInv, NEW k \in Key, index[k] # None
  PROVE  /\ Served(k) = {index[k].content}
         /\ blobs[index[k].account][k] = 0 => FromReplica(k) = {index[k].content}
<1> DEFINE o == index[k]
<1>1. o \in Row /\ o.account \in Account
  BY RowFacts DEF MaintTypeOK
<1>2. KeyOK(k, o, replica[k], blobs)
  BY DEF KeysInv
<1>3. \A a \in Account : a \in SucceededAt(k) <=> Good(replica[k][a])
  BY DEF SucceededAt, Good
<1>4. CASE blobs[o.account][k] # 0
  BY <1>1, <1>2, <1>4 DEF KeyOK, Served
<1>5. CASE blobs[o.account][k] = 0
  <2>1. FromReplica(k) \subseteq {o.content}
    BY <1>2, <1>3, <1>5 DEF KeyOK, FromReplica, SucceededAt
  <2>2. o.content \in FromReplica(k)
    BY <1>2, <1>3, <1>5 DEF KeyOK, FromReplica
  <2>3. QED
    BY <1>5, <2>1, <2>2 DEF Served
<1>6. QED
  BY <1>4, <1>5

LEMMA InvImplies ==
  ASSUME MaintInv
  PROVE  LatestIsServed /\ SucceededIsReplicated
<1>1. LatestIsServed
  BY ServedIsContent DEF MaintInv, LatestIsServed
<1>2. ASSUME NEW k \in Key, NEW a \in Account, replica[k][a] # None
      PROVE  LET r == replica[k][a]
             IN  /\ r.status = "succeeded" =>
                      /\ index[k] # None
                      /\ a = index[k].account \/ blobs[a][k] = index[k].content
                 /\ index[k] # None /\ index[k].status = "completed" => r.status = "succeeded"
  <2>1. KeyOK(k, index[k], replica[k], blobs)
    BY DEF MaintInv, KeysInv
  <2>2. QED
    BY <1>2, <2>1 DEF KeyOK, Good, AllGood
<1>3. QED
  BY <1>1, <1>2 DEF SucceededIsReplicated

\* The invariant of a key looks at the bodies under that key only.
LEMMA KeyFrame ==
  ASSUME MaintTypeOK, NEW k \in Key, KeyOK(k, index[k], replica[k], blobs),
         NEW bs, \A a \in Account : bs[a][k] = blobs[a][k]
  PROVE  KeyOK(k, index[k], replica[k], bs)
<1>1. index[k] # None => index[k].account \in Account
  BY RowFacts DEF MaintTypeOK
<1>2. QED
  BY <1>1 DEF KeyOK

\* Nobody works: there is nothing to hold or carry.
LEMMA IdleWorkers ==
  ASSUME \A w \in Worker : work[w] = Idle, UNCHANGED <<work, job>>, JobsInv
  PROVE  HoldsInv' /\ JobsInv'
<1>1. \A w \in Worker : work'[w].op = "idle"
  BY DEF Idle
<1>2. QED
  BY <1>1 DEF HoldsInv, JobsInv, Replicating, SameRow, Busy

\* Whoever works on a replica excludes the job, and the other way round.
LEMMA NoJobBeside ==
  ASSUME MaintInv, NEW w \in Worker, Replicating(work[w])
  PROVE  \A v \in Worker : work[v].op # "job"
<1>1. work[w] # Idle /\ work[w].op # "job"
  BY DEF Replicating, Idle
<1>2. QED
  BY <1>1 DEF MaintInv, JobsInv

-----------------------------------------------------------------------------
(* Clients.                                                                *)

LEMMA StoredIs ==
  ASSUME MaintTypeOK, NEW k \in Key, NEW a \in Account, NEW c \in Nat
  PROVE  /\ Stored(k, a, c) \in [Account -> [Key -> Nat]]
         /\ Stored(k, a, c)[a][k] = c
         /\ \A b \in Account, j \in Key : b # a \/ j # k =>
              Stored(k, a, c)[b][j] = blobs[b][j]
BY DEF MaintTypeOK, Stored

LEMMA WithoutReplicasIs ==
  ASSUME NEW k \in Key, NEW bs \in [Account -> [Key -> Nat]]
  PROVE  /\ WithoutReplicas(bs, k) \in [Account -> [Key -> Nat]]
         /\ \A b \in Account, j \in Key :
              WithoutReplicas(bs, k)[b][j] = IF HasRemote(k, b) /\ j = k THEN 0 ELSE bs[b][j]
BY DEF WithoutReplicas

LEMMA PutInv ==
  ASSUME Orderly, MaintInv, NEW k \in Key, NEW a \in Account, PutObject(k, a)
  PROVE  MaintInv'
<1>0. uploads \in Nat
  BY DEF MaintInv, MaintTypeOK
<1>1. PICK c \in Nat : c = uploads + 1 /\ c # 0
  BY <1>0
<1> DEFINE o == [account |-> a, content |-> c,
                 status |-> IF ReplicaTargets(a) = {} THEN "none" ELSE "pending"]
           st == Stored(k, a, c)
           ov == Overwritten(st, k, a)
<1>14. MaintTypeOK
  BY DEF MaintInv
<1>2. o \in Row /\ o.account = a /\ o.content = c /\ o.status # "completed"
  BY <1>1 DEF Row
<1>3. /\ index' = [index EXCEPT ![k] = o] /\ replica' = [replica EXCEPT ![k] = Enqueued(a)]
      /\ blobs' = WithoutReplicas(ov, k) /\ uploads' = c
      /\ UNCHANGED <<job, work>> /\ ~HasRemote(k, a) /\ \A w \in Worker : work[w] = Idle
  BY <1>1 DEF PutObject, Orderly, Quiet
<1>4. /\ st \in [Account -> [Key -> Nat]]
      /\ st[a][k] = c
      /\ \A b \in Account, j \in Key : b # a \/ j # k => st[b][j] = blobs[b][j]
  BY <1>14, StoredIs
<1> HIDE DEF o, st
<1>5. /\ ov \in [Account -> [Key -> Nat]] /\ ov[a][k] = c
      /\ \A b \in Account, j \in Key : j # k => ov[b][j] = blobs[b][j]
  <2>1. index[k] # None => index[k].account \in Account
    BY <1>14, RowFacts DEF MaintTypeOK
  <2>2. CASE index[k] = None \/ index[k].account = a
    BY <1>4, <2>2 DEF Overwritten
  <2>3. CASE index[k] # None /\ index[k].account # a
    BY <1>4, <2>1, <2>3 DEF Overwritten
  <2>4. QED
    BY <2>2, <2>3
<1> HIDE DEF ov
<1>6. /\ blobs' \in [Account -> [Key -> Nat]] /\ blobs'[a][k] = c
      /\ \A b \in Account, j \in Key : j # k => blobs'[b][j] = blobs[b][j]
  BY <1>3, <1>5, WithoutReplicasIs
<1>7. /\ Enqueued(a) \in [Account -> ReplicaRow \cup {None}]
      /\ \A t \in Account : Enqueued(a)[t] # None => Enqueued(a)[t].status = "pending"
      /\ Enqueued(a)[a] = None
  <2> DEFINE p == [status |-> "pending", attempts |-> 0, max |-> MaxAttempts, stored |-> FALSE]
  <2>1. p \in ReplicaRow /\ p.status = "pending"
    BY MaintenanceAssumption DEF ReplicaRow, Status
  <2> HIDE DEF p
  <2>2. Enqueued(a) = [t \in Account |-> IF t \in ReplicaTargets(a) THEN p ELSE None]
    BY DEF Enqueued, p
  <2>3. a \notin ReplicaTargets(a)
    BY DEF ReplicaTargets
  <2>4. QED
    BY <2>1, <2>2, <2>3
<1>8. MaintTypeOK'
  BY <1>1, <1>2, <1>3, <1>6, <1>7, <1>14 DEF MaintTypeOK
<1>9. KeyOK(k, o, Enqueued(a), blobs')
  BY <1>1, <1>2, <1>6, <1>7, RowFacts DEF KeyOK, Good
<1>10. ASSUME NEW j \in Key PROVE KeyOK(j, index'[j], replica'[j], blobs')
  <2>1. CASE j = k
    BY <1>3, <1>9, <1>14, <2>1 DEF MaintTypeOK
  <2>2. CASE j # k
    <3>1. index'[j] = index[j] /\ replica'[j] = replica[j]
      BY <1>3, <1>14, <2>2 DEF MaintTypeOK
    <3>2. KeyOK(j, index[j], replica[j], blobs')
      BY <1>6, <1>14, <2>2, KeyFrame DEF MaintInv, KeysInv
    <3>3. QED
      BY <3>1, <3>2
  <2>3. QED
    BY <2>1, <2>2
<1>11. KeysInv'
  BY <1>10 DEF KeysInv, KeyOK, Good, AllGood
<1>12. HoldsInv' /\ JobsInv'
  BY <1>3, IdleWorkers DEF MaintInv
<1>13. QED
  BY <1>8, <1>11, <1>12 DEF MaintInv

LEMMA DeleteInv ==
  ASSUME Orderly, MaintInv, NEW k \in Key, DeleteObject(k)
  PROVE  MaintInv'
<1>1. MaintTypeOK /\ index[k] # None /\ index[k].account \in Account
  BY RowFacts DEF DeleteObject, MaintInv, MaintTypeOK
<1>2. /\ index' = [index EXCEPT ![k] = None] /\ replica' = [replica EXCEPT ![k] = NoReplicas]
      /\ blobs' = WithoutReplicas(Stored(k, index[k].account, 0), k)
      /\ UNCHANGED <<job, work, uploads>> /\ \A w \in Worker : work[w] = Idle
  BY DEF DeleteObject, Orderly, Quiet
<1>3. /\ Stored(k, index[k].account, 0) \in [Account -> [Key -> Nat]]
      /\ \A b \in Account, j \in Key : j # k =>
           Stored(k, index[k].account, 0)[b][j] = blobs[b][j]
  BY <1>1, StoredIs
<1>4. /\ blobs' \in [Account -> [Key -> Nat]]
      /\ \A b \in Account, j \in Key : j # k => blobs'[b][j] = blobs[b][j]
  BY <1>2, <1>3, WithoutReplicasIs
<1>5. MaintTypeOK'
  BY <1>1, <1>2, <1>4 DEF MaintTypeOK, NoReplicas
<1>6. ASSUME NEW j \in Key PROVE KeyOK(j, index'[j], replica'[j], blobs')
  <2>1. CASE j = k
    BY <1>1, <1>2, <2>1 DEF MaintTypeOK, KeyOK, NoReplicas
  <2>2. CASE j # k
    <3>1. index'[j] = index[j] /\ replica'[j] = replica[j]
      BY <1>1, <1>2, <2>2 DEF MaintTypeOK
    <3>2. KeyOK(j, index[j], replica[j], blobs')
      BY <1>1, <1>4, <2>2, KeyFrame DEF MaintInv, KeysInv
    <3>3. QED
      BY <3>1, <3>2
  <2>3. QED
    BY <2>1, <2>2
<1>7. KeysInv'
  BY <1>6 DEF KeysInv, KeyOK, Good, AllGood
<1>8. HoldsInv' /\ JobsInv'
  BY <1>2, IdleWorkers DEF MaintInv
<1>9. QED
  BY <1>5, <1>7, <1>8 DEF MaintInv

LEMMA LoseInv ==
  ASSUME Orderly, MaintInv, NEW k \in Key, LoseBody(k)
  PROVE  MaintInv'
<1>1. MaintTypeOK /\ index[k] # None /\ index[k].account \in Account
  BY RowFacts DEF LoseBody, MaintInv, MaintTypeOK
<1>2. /\ blobs' = Stored(k, index[k].account, 0)
      /\ UNCHANGED <<index, replica, job, work, uploads>> /\ \A w \in Worker : work[w] = Idle
  BY DEF LoseBody, Orderly, Quiet
<1>3. /\ blobs' \in [Account -> [Key -> Nat]]
      /\ blobs'[index[k].account][k] = 0
      /\ \A b \in Account, j \in Key : b # index[k].account \/ j # k =>
           blobs'[b][j] = blobs[b][j]
  BY <1>1, <1>2, StoredIs
<1>4. MaintTypeOK'
  BY <1>1, <1>2, <1>3 DEF MaintTypeOK
<1>5. KeyOK(k, index[k], replica[k], blobs')
  <2>1. PICK a \in Account : /\ a # index[k].account /\ Good(replica[k][a])
                             /\ blobs[a][k] = index[k].content
    BY DEF LoseBody, SucceededAt, Good
  <2>2. KeyOK(k, index[k], replica[k], blobs)
    BY DEF MaintInv, KeysInv
  <2>3. QED
    BY <1>1, <1>3, <2>1, <2>2 DEF KeyOK
<1>6. ASSUME NEW j \in Key PROVE KeyOK(j, index[j], replica[j], blobs')
  <2>1. CASE j = k
    BY <1>5, <2>1
  <2>2. CASE j # k
    BY <1>1, <1>3, <2>2, KeyFrame DEF MaintInv, KeysInv
  <2>3. QED
    BY <2>1, <2>2
<1>7. KeysInv'
  BY <1>2, <1>6 DEF KeysInv, KeyOK, Good, AllGood
<1>8. HoldsInv' /\ JobsInv'
  BY <1>2, IdleWorkers DEF MaintInv
<1>9. QED
  BY <1>4, <1>7, <1>8 DEF MaintInv

-----------------------------------------------------------------------------
(* Replication.                                                            *)

RowSet(k, a, r) == [replica EXCEPT ![k] = [@ EXCEPT ![a] = r]]

\* A row that is pending or running changes; it succeeds only where the body is.
LEMMA RowChange ==
  ASSUME MaintInv, NEW k \in Key, NEW a \in Account, NEW r \in ReplicaRow,
         replica[k][a] # None, replica[k][a].status \in {"pending", "running"},
         replica' = RowSet(k, a, r),
         r.status = "succeeded" => blobs[a][k] = index[k].content
  PROVE  /\ replica' \in [Key -> [Account -> ReplicaRow \cup {None}]]
         /\ replica'[k][a] = r /\ index[k] # None
         /\ \A j \in Key : KeyOK(j, index[j], replica'[j], blobs)
         /\ \A q \in JobReq : \A jb : JobOK(q, index, replica, blobs, jb)
              => JobOK(q, index, replica', blobs, jb)
<1>1. MaintTypeOK /\ replica \in [Key -> [Account -> ReplicaRow \cup {None}]]
  BY DEF MaintInv, MaintTypeOK
<1>2. replica' \in [Key -> [Account -> ReplicaRow \cup {None}]]
  BY <1>1 DEF RowSet
<1>3. /\ replica'[k][a] = r
      /\ \A b \in Account : b # a => replica'[k][b] = replica[k][b]
      /\ \A j \in Key : j # k => replica'[j] = replica[j]
  BY <1>1 DEF RowSet
<1>4. KeyOK(k, index[k], replica[k], blobs)
  BY DEF MaintInv, KeysInv
<1>5. index[k] # None /\ ~AllGood(replica[k]) /\ ~Good(replica[k][a]) /\ r # None
  BY <1>4, RowFacts DEF KeyOK, AllGood, Good
<1>6. KeyOK(k, index[k], replica'[k], blobs)
  <2>1. Source \in Account
    BY MaintenanceAssumption
  <2>2. \A b \in Account : Good(replica'[k][b]) => Good(replica[k][b]) \/ blobs[b][k] = index[k].content
    BY <1>3 DEF Good
  <2>3. \A b \in Account : Good(replica[k][b]) => Good(replica'[k][b])
    BY <1>3, <1>5 DEF Good
  <2>4. index[k].account = Source => replica'[k][Source] = None
    BY <1>3, <1>4, <1>5, <2>1 DEF KeyOK
  <2>5. index[k].status # "completed"
    BY <1>4, <1>5 DEF KeyOK
  <2>6. QED
    BY <1>4, <1>5, <2>2, <2>3, <2>4, <2>5 DEF KeyOK
<1>7. ASSUME NEW j \in Key PROVE KeyOK(j, index[j], replica'[j], blobs)
  BY <1>3, <1>6 DEF MaintInv, KeysInv
<1>9. ASSUME NEW q \in JobReq, NEW jb, JobOK(q, index, replica, blobs, jb)
      PROVE  JobOK(q, index, replica', blobs, jb)
  <2>1. Target \in Account /\ Source \in Account
    BY MaintenanceAssumption
  <2>2. \A j \in Key : /\ Good(replica[j][Target]) => Good(replica'[j][Target])
                       /\ replica[j][Source] = None => replica'[j][Source] = None
    BY <1>3, <1>5, <2>1 DEF Good
  <2>3. CASE q.step = "start"
    BY <1>9, <2>3 DEF JobOK
  <2>4. CASE q.step # "start"
    <3>1. ListOK(q, index, blobs, jb.kind)
      BY <1>9, <2>4 DEF JobOK
    <3>2. CarryOK(q, index, replica', blobs, jb.kind)
      <4>1. CarryOK(q, index, replica, blobs, jb.kind)
        BY <1>9, <2>4 DEF JobOK
      <4>2. q.step = "delete" => Least(q.todo).key \in Key
        <5>1. q.step = "delete" => q.todo # {} /\ q.todo \in SUBSET Item
          BY <4>1, JobShape DEF CarryOK
        <5>2. QED
          BY <5>1, LeastIn DEF Item
      <4>3. QED
        BY <2>2, <4>1, <4>2 DEF CarryOK
    <3>3. ProgressOK(q, index, replica', blobs, jb.kind)
      <4>1. ProgressOK(q, index, replica, blobs, jb.kind)
        BY <1>9, <2>4 DEF JobOK
      <4>2. QED
        BY <2>2, <4>1 DEF ProgressOK
    <3>4. QED
      BY <1>9, <2>4, <3>1, <3>2, <3>3 DEF JobOK
  <2>5. QED
    BY <2>3, <2>4
<1>10. QED
  BY <1>2, <1>3, <1>5, <1>7, <1>9

LEMMA RowHolds ==
  ASSUME MaintTypeOK, NEW k \in Key, NEW a \in Account, NEW r \in ReplicaRow,
         replica[k][a] # None, replica[k][a].status \in {"pending", "running"},
         replica' = RowSet(k, a, r),
         NEW q \in ReplicaReq, HoldOK(q, index[q.key], replica[q.key], blobs),
         ~(q.op \in Busy /\ q.key = k /\ q.account = a)
  PROVE  HoldOK(q, index[q.key], replica'[q.key], blobs)
<1>1. q.key \in Key /\ q.account \in Account
  BY DEF ReplicaReq, HoldReq, PutReq, RefreshReq
<1>2. /\ \A b \in Account : b # a => replica'[k][b] = replica[k][b]
      /\ \A j \in Key : j # k => replica'[j] = replica[j]
  BY DEF MaintTypeOK, RowSet
<1>3. ~AllGood(replica[k])
  BY DEF AllGood, Good
<1>4. CASE q.key # k
  BY <1>1, <1>2, <1>4
<1>5. CASE q.key = k
  BY <1>1, <1>2, <1>3, <1>5 DEF HoldOK
<1>6. QED
  BY <1>4, <1>5

\* The content of an object is stored under its key somewhere.
LEMMA BlobFill ==
  ASSUME MaintInv, NEW k \in Key, NEW a \in Account, index[k] # None,
         NEW bs, bs = Stored(k, a, index[k].content)
  PROVE  /\ bs \in [Account -> [Key -> Nat]] /\ bs[a][k] = index[k].content
         /\ \A b \in Account, j \in Key : b # a \/ j # k => bs[b][j] = blobs[b][j]
         /\ \A j \in Key : KeyOK(j, index[j], replica[j], bs)
         /\ \A q \in ReplicaReq : HoldOK(q, index[q.key], replica[q.key], blobs)
              => HoldOK(q, index[q.key], replica[q.key], bs)
<1>1. MaintTypeOK /\ index[k].content \in Nat /\ index[k].account \in Account
  BY RowFacts DEF MaintInv, MaintTypeOK
<1>2. /\ bs \in [Account -> [Key -> Nat]] /\ bs[a][k] = index[k].content
      /\ \A b \in Account, j \in Key : b # a \/ j # k => bs[b][j] = blobs[b][j]
  BY <1>1 DEF Stored, MaintTypeOK
<1>3. KeyOK(k, index[k], replica[k], bs)
  <2>1. KeyOK(k, index[k], replica[k], blobs)
    BY DEF MaintInv, KeysInv
  <2>2. \A b \in Account : bs[b][k] = blobs[b][k] \/ bs[b][k] = index[k].content
    BY <1>2
  <2>3. QED
    BY <1>1, <1>2, <2>1, <2>2 DEF KeyOK
<1>4. ASSUME NEW j \in Key PROVE KeyOK(j, index[j], replica[j], bs)
  <2>1. CASE j = k
    BY <1>3, <2>1
  <2>2. CASE j # k
    BY <1>1, <1>2, <2>2, KeyFrame DEF MaintInv, KeysInv
  <2>3. QED
    BY <2>1, <2>2
<1>5. ASSUME NEW q \in ReplicaReq, HoldOK(q, index[q.key], replica[q.key], blobs)
      PROVE  HoldOK(q, index[q.key], replica[q.key], bs)
  <2>1. q.key \in Key /\ q.account \in Account
    BY DEF ReplicaReq, HoldReq, PutReq, RefreshReq
  <2>2. bs[q.account][q.key] = blobs[q.account][q.key] \/ bs[q.account][q.key] = index[q.key].content
    BY <1>2, <2>1
  <2>3. QED
    BY <1>5, <2>2 DEF HoldOK
<1>6. QED
  BY <1>2, <1>4, <1>5

\* A worker goes on with a replica, or stops.
LEMMA ReplicaMoves ==
  ASSUME MaintInv, NEW w \in Worker, \A v \in Worker : work[v].op # "job",
         NEW q \in ReplicaReq \cup {Idle}, work' = [work EXCEPT ![w] = q],
         UNCHANGED <<job, uploads>>,
         index' \in [Key -> Row \cup {None}],
         replica' \in [Key -> [Account -> ReplicaRow \cup {None}]],
         blobs' \in [Account -> [Key -> Nat]],
         \A k \in Key : KeyOK(k, index'[k], replica'[k], blobs'),
         q # Idle => HoldOK(q, index'[q.key], replica'[q.key], blobs'),
         \A v \in Worker \ {w} : Replicating(work[v]) =>
           HoldOK(work[v], index'[work[v].key], replica'[work[v].key], blobs'),
         \A v \in Worker \ {w} : ~SameRow(work[v], q)
  PROVE  MaintInv'
<1>1. MaintTypeOK'
  BY DEF MaintInv, MaintTypeOK
<1>2. \A v \in Worker : work'[v] = IF v = w THEN q ELSE work[v]
  BY DEF MaintInv, MaintTypeOK
<1>3. KeysInv'
  BY DEF KeysInv, KeyOK, Good, AllGood
<1>4. q.op # "job"
  BY DEF ReplicaReq, HoldReq, PutReq, RefreshReq, Idle
<1>5. JobsInv'
  BY <1>2, <1>4 DEF MaintInv, JobsInv
<1>6. ASSUME NEW v \in Worker, Replicating(work'[v])
      PROVE  HoldOK(work'[v], index'[work'[v].key], replica'[work'[v].key], blobs')
  <2>1. CASE v = w
    <3>1. q # Idle
      BY <1>2, <1>6, <2>1 DEF Replicating, Idle
    <3>2. QED
      BY <1>2, <2>1, <3>1
  <2>2. CASE v # w
    BY <1>2, <1>6, <2>2
  <2>3. QED
    BY <2>1, <2>2
<1>7. ASSUME NEW u \in Worker, NEW v \in Worker, u # v PROVE ~SameRow(work'[u], work'[v])
  <2>1. CASE u = w
    BY <1>2, <1>7, <2>1 DEF SameRow
  <2>2. CASE v = w
    BY <1>2, <1>7, <2>2
  <2>3. CASE u # w /\ v # w
    BY <1>2, <1>7, <2>3 DEF MaintInv, HoldsInv
  <2>4. QED
    BY <2>1, <2>2, <2>3
<1>8. HoldsInv'
  BY <1>6, <1>7 DEF HoldsInv, HoldOK, Good, AllGood, Replicating, SameRow
<1>9. QED
  BY <1>1, <1>3, <1>5, <1>8 DEF MaintInv

\* A worker and the row it owns, or takes, change together.
RowStep(w, k, a, r, q) ==
  /\ \A v \in Worker : work[v].op # "job"
  /\ replica[k][a] # None /\ replica[k][a].status \in {"pending", "running"}
  /\ replica' = RowSet(k, a, r)
  /\ r.status = "succeeded" => blobs[a][k] = index[k].content
  /\ q \in HoldReq /\ q.key = k /\ q.account = a /\ q.op \in {"read", "list"}
  /\ q.op = "read" => r.status = "running"
  /\ work' = [work EXCEPT ![w] = q] /\ UNCHANGED <<index, blobs, job, uploads>>
  /\ \A v \in Worker \ {w} : ~(work[v].op \in Busy /\ work[v].key = k /\ work[v].account = a)

LEMMA RowMoves ==
  ASSUME MaintInv, NEW w \in Worker, NEW k \in Key, NEW a \in Account, NEW r \in ReplicaRow,
         NEW q, RowStep(w, k, a, r, q)
  PROVE  MaintInv'
<1>0. /\ \A v \in Worker : work[v].op # "job"
      /\ replica[k][a] # None /\ replica[k][a].status \in {"pending", "running"}
      /\ replica' = RowSet(k, a, r)
      /\ r.status = "succeeded" => blobs[a][k] = index[k].content
      /\ q \in HoldReq /\ q.key = k /\ q.account = a /\ q.op \in {"read", "list"}
      /\ q.op = "read" => r.status = "running"
      /\ work' = [work EXCEPT ![w] = q] /\ UNCHANGED <<index, blobs, job, uploads>>
      /\ \A v \in Worker \ {w} : ~(work[v].op \in Busy /\ work[v].key = k /\ work[v].account = a)
  BY DEF RowStep
<1>1. MaintTypeOK /\ q \in ReplicaReq
  BY <1>0 DEF MaintInv, ReplicaReq
<1>2. /\ replica' \in [Key -> [Account -> ReplicaRow \cup {None}]]
      /\ replica'[k][a] = r /\ index[k] # None
  BY <1>0, RowChange
<1>7. \A j \in Key : KeyOK(j, index[j], replica'[j], blobs)
  BY <1>0, RowChange
<1>8. ASSUME NEW p \in ReplicaReq, HoldOK(p, index[p.key], replica[p.key], blobs),
             ~(p.op \in Busy /\ p.key = k /\ p.account = a)
      PROVE  HoldOK(p, index[p.key], replica'[p.key], blobs)
  BY <1>0, <1>1, <1>8, RowHolds
<1>3. HoldOK(q, index[k], replica'[k], blobs)
  BY <1>0, <1>2, RowFacts DEF HoldOK, Busy
<1>4. ASSUME NEW v \in Worker \ {w}, Replicating(work[v])
      PROVE  HoldOK(work[v], index[work[v].key], replica'[work[v].key], blobs)
  <2>1. work[v] \in ReplicaReq
    BY <1>1, <1>4, WorkShape
  <2>2. HoldOK(work[v], index[work[v].key], replica[work[v].key], blobs)
    BY <1>4 DEF MaintInv, HoldsInv
  <2>3. ~(work[v].op \in Busy /\ work[v].key = k /\ work[v].account = a)
    BY <1>0
  <2>4. QED
    BY <1>8, <2>1, <2>2, <2>3
<1>5. \A v \in Worker \ {w} : ~SameRow(work[v], q)
  BY <1>0 DEF SameRow
<1>6. QED
  <2>1. index' \in [Key -> Row \cup {None}] /\ blobs' \in [Account -> [Key -> Nat]]
    BY <1>0, <1>1 DEF MaintTypeOK
  <2>2. \A j \in Key : KeyOK(j, index'[j], replica'[j], blobs')
    BY <1>0, <1>7
  <2>3. HoldOK(q, index'[q.key], replica'[q.key], blobs')
    BY <1>0, <1>3
  <2>4. \A v \in Worker \ {w} : Replicating(work[v]) =>
          HoldOK(work[v], index'[work[v].key], replica'[work[v].key], blobs')
    BY <1>0, <1>4
  <2>5. QED
    BY <1>0, <1>1, <1>2, <1>5, <2>1, <2>2, <2>3, <2>4, ReplicaMoves

LEMMA ClaimReplicaInv ==
  ASSUME Orderly, MaintInv, NEW w \in Worker, NEW k \in Key, NEW a \in Account,
         ClaimNextObjectReplica(w, k, a)
  PROVE  MaintInv'
<1> DEFINE old == replica[k][a]
           r == [old EXCEPT !.status = "running", !.attempts = @ + 1]
           q == [op |-> "read", key |-> k, account |-> a]
<1>1. MaintTypeOK /\ old # None /\ old \in ReplicaRow /\ old.status = "pending"
  BY DEF MaintInv, MaintTypeOK, ClaimNextObjectReplica
<1>2. r \in ReplicaRow /\ r.status = "running"
  <2>1. old.attempts \in Nat
    BY <1>1 DEF ReplicaRow
  <2>2. old.attempts + 1 \in Nat
    BY <2>1
  <2>3. QED
    BY <1>1, <2>2 DEF ReplicaRow, Status
<1>3. /\ replica' = RowSet(k, a, r)
      /\ work' = [work EXCEPT ![w] = q] /\ UNCHANGED <<index, blobs, job, uploads>>
      /\ work[w] = Idle
  BY <1>1 DEF ClaimNextObjectReplica, Becomes, MaintTypeOK, RowSet
<1>4. q \in HoldReq /\ q.key = k /\ q.account = a /\ q.op = "read"
  BY DEF HoldReq
<1> HIDE DEF r, q
<1>5. \A v \in Worker : work[v].op # "job"
  <2>1. Working("job") = {}
    BY DEF ClaimNextObjectReplica, MayClaim, Orderly
  <2>2. QED
    BY <2>1 DEF Working, Idle
<1>6. \A v \in Worker \ {w} : ~(work[v].op \in Busy /\ work[v].key = k /\ work[v].account = a)
  <2>1. ASSUME NEW v \in Worker, work[v].op \in Busy, work[v].key = k, work[v].account = a
        PROVE  FALSE
    <3>1. HoldOK(work[v], index[k], replica[k], blobs)
      BY <2>1 DEF MaintInv, HoldsInv, Replicating, Busy
    <3>2. QED
      BY <1>1, <2>1, <3>1 DEF HoldOK
  <2>2. QED
    BY <2>1
<1>7. /\ replica[k][a] # None /\ replica[k][a].status \in {"pending", "running"}
      /\ r.status = "succeeded" => blobs[a][k] = index[k].content
      /\ q.op \in {"read", "list"} /\ (q.op = "read" => r.status = "running")
  BY <1>1, <1>2, <1>4
<1> HIDE DEF old
<1>8. RowStep(w, k, a, r, q)
  BY <1>3, <1>4, <1>5, <1>6, <1>7 DEF RowStep
<1>9. QED
  BY <1>2, <1>8, RowMoves

\* What is known of a worker on a replica.
LEMMA Held ==
  ASSUME MaintInv, NEW w \in Worker, Replicating(work[w])
  PROVE  LET k == work[w].key
             a == work[w].account
         IN  /\ MaintTypeOK /\ k \in Key /\ a \in Account
             /\ index[k] # None /\ index[k] \in Row
             /\ HoldOK(work[w], index[k], replica[k], blobs)
             /\ \A v \in Worker : work[v].op # "job"
             /\ work[w].op \in Busy =>
                  \A v \in Worker \ {w} :
                    ~(work[v].op \in Busy /\ work[v].key = k /\ work[v].account = a)
<1>1. MaintTypeOK
  BY DEF MaintInv
<1>2. HoldOK(work[w], index[work[w].key], replica[work[w].key], blobs)
  BY DEF MaintInv, HoldsInv
<1>3. work[w].key \in Key /\ work[w].account \in Account
  BY <1>1, WorkShape
<1>4. index[work[w].key] # None
  BY <1>2 DEF HoldOK
<1>5. index[work[w].key] \in Row
  BY <1>1, <1>3, <1>4 DEF MaintTypeOK
<1>6. work[w].op \in Busy => \A v \in Worker \ {w} :
        ~(work[v].op \in Busy /\ work[v].key = work[w].key /\ work[v].account = work[w].account)
  BY DEF MaintInv, HoldsInv, SameRow
<1>7. QED
  BY <1>1, <1>2, <1>3, <1>4, <1>5, <1>6, NoJobBeside

\* Nothing but the worker changes.
LEMMA OnlyWorkerMoves ==
  ASSUME MaintInv, NEW w \in Worker, Replicating(work[w]),
         NEW q \in ReplicaReq \cup {Idle}, work' = [work EXCEPT ![w] = q],
         UNCHANGED <<index, replica, blobs, job, uploads>>,
         q # Idle => /\ q.key = work[w].key /\ q.account = work[w].account
                     /\ HoldOK(q, index[q.key], replica[q.key], blobs),
         q.op \in Busy => work[w].op \in Busy
  PROVE  MaintInv'
<1>1. /\ MaintTypeOK /\ \A v \in Worker : work[v].op # "job"
      /\ work[w].op \in Busy =>
           \A v \in Worker \ {w} : ~(work[v].op \in Busy /\ work[v].key = work[w].key
                                     /\ work[v].account = work[w].account)
  BY Held
<1>2. \A v \in Worker \ {w} : ~SameRow(work[v], q)
  BY <1>1 DEF SameRow, Idle, Busy
<1>3. \A k \in Key : KeyOK(k, index'[k], replica'[k], blobs')
  BY DEF MaintInv, KeysInv
<1>4. \A v \in Worker \ {w} : Replicating(work[v]) =>
        HoldOK(work[v], index'[work[v].key], replica'[work[v].key], blobs')
  BY DEF MaintInv, HoldsInv
<1>5. /\ index' \in [Key -> Row \cup {None}] /\ blobs' \in [Account -> [Key -> Nat]]
      /\ replica' \in [Key -> [Account -> ReplicaRow \cup {None}]]
  BY <1>1 DEF MaintTypeOK
<1>6. q # Idle => HoldOK(q, index'[q.key], replica'[q.key], blobs')
  OBVIOUS
<1>7. QED
  BY <1>1, <1>2, <1>3, <1>4, <1>5, <1>6, ReplicaMoves

LEMMA ReadInv ==
  ASSUME MaintInv, NEW w \in Worker, ReadSource(w)
  PROVE  MaintInv'
<1> DEFINE k == work[w].key
           a == work[w].account
           c == index[k].content
           q == [op |-> "put", key |-> k, account |-> a, want |-> c, body |-> c]
<1>1. work[w].op = "read" /\ Replicating(work[w]) /\ work[w].op \in Busy
  BY DEF ReadSource, At, Replicating, Busy
<1>2. /\ MaintTypeOK /\ k \in Key /\ a \in Account /\ index[k] # None /\ index[k] \in Row
      /\ HoldOK(work[w], index[k], replica[k], blobs)
  BY <1>1, Held
<1>3. Served(k) = {c} /\ c \in Nat
  BY <1>2, ServedIsContent, RowFacts DEF MaintInv
<1>4. work' = [work EXCEPT ![w] = q] /\ UNCHANGED <<index, replica, blobs, job, uploads>>
  BY <1>2, <1>3 DEF ReadSource, Becomes
<1>5. q \in PutReq /\ q.key = k /\ q.account = a /\ q.op = "put" /\ q.body = c /\ q.want = c
  BY <1>2, <1>3 DEF PutReq
<1> HIDE DEF q
<1>6. HoldOK(q, index[k], replica[k], blobs)
  BY <1>1, <1>2, <1>5 DEF HoldOK, Busy
<1>7. q \in ReplicaReq
  BY <1>5 DEF ReplicaReq
<1>8. QED
  BY <1>1, <1>4, <1>5, <1>6, <1>7, OnlyWorkerMoves

LEMMA RefusedInv ==
  ASSUME MaintInv, NEW w \in Worker, ProviderRefuses(w)
  PROVE  MaintInv'
<1> DEFINE k == work[w].key
           a == work[w].account
           q == [op |-> "fail", key |-> k, account |-> a]
<1>1. work[w].op = "put" /\ Replicating(work[w]) /\ work[w].op \in Busy
  BY DEF ProviderRefuses, At, Replicating, Busy
<1>2. /\ k \in Key /\ a \in Account /\ HoldOK(work[w], index[k], replica[k], blobs)
  BY <1>1, Held
<1>3. work' = [work EXCEPT ![w] = q] /\ UNCHANGED <<index, replica, blobs, job, uploads>>
  BY DEF ProviderRefuses, Becomes
<1>4. q \in ReplicaReq /\ q.key = k /\ q.account = a /\ q.op = "fail"
  BY <1>2 DEF ReplicaReq, HoldReq
<1> HIDE DEF q
<1>5. HoldOK(q, index[k], replica[k], blobs)
  BY <1>1, <1>2, <1>4 DEF HoldOK, Busy
<1>6. QED
  BY <1>1, <1>3, <1>4, <1>5, OnlyWorkerMoves

LEMMA ListInv ==
  ASSUME MaintInv, NEW w \in Worker, ListReplicas(w)
  PROVE  MaintInv'
<1> DEFINE k == work[w].key
           a == work[w].account
           rows == {replica[k][b] : b \in Account} \ {None}
           o == [index[k] EXCEPT !.status = ReplicaStatus(rows)]
           q == [op |-> "refresh", key |-> k, account |-> a, row |-> o]
<1>1. work[w].op = "list" /\ Replicating(work[w])
  BY DEF ListReplicas, At, Replicating
<1>2. /\ k \in Key /\ a \in Account /\ HoldOK(work[w], index[k], replica[k], blobs)
      /\ index[k] # None /\ index[k] \in Row
  BY <1>1, Held
<1>3. work' = [work EXCEPT ![w] = q] /\ UNCHANGED <<index, replica, blobs, job, uploads>>
  BY <1>2 DEF ListReplicas, Becomes
<1>4. ReplicaStatus(rows) \in {"none", "pending", "partial", "completed", "failed"}
  BY DEF ReplicaStatus
<1>5. /\ o \in Row /\ o.account = index[k].account /\ o.content = index[k].content
      /\ o.status = ReplicaStatus(rows)
  BY <1>2, <1>4 DEF Row
<1>6. ReplicaStatus(rows) = "completed" => AllGood(replica[k])
  <2>1. ReplicaStatus(rows) = "completed" => \A r \in rows : r.status = "succeeded"
    BY DEF ReplicaStatus
  <2>2. QED
    BY <2>1 DEF AllGood, Good
<1> HIDE DEF o
<1>7. q \in RefreshReq /\ q.key = k /\ q.account = a /\ q.op = "refresh" /\ q.row = o
  BY <1>2, <1>5 DEF RefreshReq
<1> HIDE DEF q
<1>8. HoldOK(q, index[k], replica[k], blobs)
  BY <1>2, <1>5, <1>6, <1>7 DEF HoldOK, Busy
<1>9. q \in ReplicaReq
  BY <1>7 DEF ReplicaReq
<1>10. QED
  BY <1>1, <1>3, <1>7, <1>8, <1>9, OnlyWorkerMoves DEF Busy

LEMMA RefreshInv ==
  ASSUME MaintInv, NEW w \in Worker, RefreshObjectReplicaStatus(w)
  PROVE  MaintInv'
<1> DEFINE k == work[w].key
           o == work[w].row
<1>1. work[w].op = "refresh" /\ Replicating(work[w])
  BY DEF RefreshObjectReplicaStatus, At, Replicating
<1>2. /\ MaintTypeOK /\ k \in Key /\ HoldOK(work[w], index[k], replica[k], blobs)
      /\ index[k] # None /\ index[k] \in Row /\ \A v \in Worker : work[v].op # "job"
  BY <1>1, Held
<1>3. o \in Row /\ o # None
  <2>1. work[w] \in RefreshReq
    BY <1>1, <1>2, WorkShape
  <2>2. QED
    BY <2>1, RowFacts DEF RefreshReq
<1>4. /\ o.account = index[k].account /\ o.content = index[k].content
      /\ o.status = "completed" => AllGood(replica[k])
  BY <1>1, <1>2 DEF HoldOK
<1>5. /\ index' = [index EXCEPT ![k] = o] /\ work' = [work EXCEPT ![w] = Idle]
      /\ UNCHANGED <<replica, blobs, job, uploads>>
  BY DEF RefreshObjectReplicaStatus, Becomes
<1>6. /\ index' \in [Key -> Row \cup {None}] /\ blobs' \in [Account -> [Key -> Nat]]
      /\ replica' \in [Key -> [Account -> ReplicaRow \cup {None}]]
  BY <1>2, <1>3, <1>5 DEF MaintTypeOK
<1>7. index'[k] = o /\ \A j \in Key : j # k => index'[j] = index[j]
  BY <1>2, <1>5 DEF MaintTypeOK
<1> HIDE DEF o
<1>8. ASSUME NEW j \in Key PROVE KeyOK(j, index'[j], replica'[j], blobs')
  <2>1. KeyOK(j, index[j], replica[j], blobs)
    BY DEF MaintInv, KeysInv
  <2>2. CASE j # k
    BY <1>5, <1>7, <2>1, <2>2
  <2>3. CASE j = k
    <3>1. KeyOK(k, o, replica[k], blobs)
      BY <1>2, <1>3, <1>4, <2>1, <2>3 DEF KeyOK
    <3>2. QED
      BY <1>5, <1>7, <2>3, <3>1
  <2>4. QED
    BY <2>2, <2>3
<1>9. ASSUME NEW v \in Worker \ {w}, Replicating(work[v])
      PROVE  HoldOK(work[v], index'[work[v].key], replica'[work[v].key], blobs')
  <2>1. HoldOK(work[v], index[work[v].key], replica[work[v].key], blobs) /\ work[v].key \in Key
    BY <1>9, Held
  <2>2. CASE work[v].key # k
    BY <1>5, <1>7, <2>1, <2>2
  <2>3. CASE work[v].key = k
    <3>1. HoldOK(work[v], o, replica[k], blobs)
      BY <1>2, <1>3, <1>4, <2>1, <2>3 DEF HoldOK
    <3>2. QED
      BY <1>5, <1>7, <2>3, <3>1
  <2>4. QED
    BY <2>2, <2>3
<1>10. \A v \in Worker \ {w} : ~SameRow(work[v], Idle)
  BY DEF SameRow, Idle, Busy
<1>11. QED
  BY <1>2, <1>5, <1>6, <1>8, <1>9, <1>10, ReplicaMoves

LEMMA PutVerifyInv ==
  ASSUME MaintInv, NEW w \in Worker, PutAndVerify(w)
  PROVE  MaintInv'
<1> DEFINE k == work[w].key
           a == work[w].account
           q == [op |-> "mark", key |-> k, account |-> a]
<1>1. work[w].op = "put" /\ Replicating(work[w]) /\ work[w].op \in Busy
  BY DEF PutAndVerify, At, Replicating, Busy
<1>2. /\ MaintTypeOK /\ k \in Key /\ a \in Account /\ HoldOK(work[w], index[k], replica[k], blobs)
      /\ index[k] # None /\ \A v \in Worker : work[v].op # "job"
      /\ \A v \in Worker \ {w} : ~(work[v].op \in Busy /\ work[v].key = k /\ work[v].account = a)
  BY <1>1, Held
<1>3. work[w].body = index[k].content /\ work[w].want = index[k].content
  BY <1>1, <1>2 DEF HoldOK
<1>4. /\ blobs' = Stored(k, a, index[k].content) /\ work' = [work EXCEPT ![w] = q]
      /\ UNCHANGED <<index, replica, job, uploads>>
  BY <1>3 DEF PutAndVerify, Becomes
<1>5. q \in ReplicaReq /\ q.key = k /\ q.account = a /\ q.op = "mark"
  BY <1>2 DEF ReplicaReq, HoldReq
<1> HIDE DEF q
<1>6. /\ blobs' \in [Account -> [Key -> Nat]] /\ blobs'[a][k] = index[k].content
      /\ \A j \in Key : KeyOK(j, index[j], replica[j], blobs')
      /\ \A p \in ReplicaReq : HoldOK(p, index[p.key], replica[p.key], blobs)
           => HoldOK(p, index[p.key], replica[p.key], blobs')
  BY <1>2, <1>4, BlobFill
<1>7. HoldOK(q, index'[q.key], replica'[q.key], blobs')
  <2>1. HoldOK(q, index[k], replica[k], blobs')
    BY <1>1, <1>2, <1>5, <1>6 DEF HoldOK, Busy
  <2>2. QED
    BY <1>4, <1>5, <2>1
<1>8. ASSUME NEW v \in Worker \ {w}, Replicating(work[v])
      PROVE  HoldOK(work[v], index'[work[v].key], replica'[work[v].key], blobs')
  <2>1. work[v] \in ReplicaReq
    BY <1>2, <1>8, WorkShape
  <2>2. HoldOK(work[v], index[work[v].key], replica[work[v].key], blobs)
    BY <1>8 DEF MaintInv, HoldsInv
  <2>3. QED
    BY <1>4, <1>6, <2>1, <2>2
<1>9. \A v \in Worker \ {w} : ~SameRow(work[v], q)
  BY <1>2, <1>5 DEF SameRow
<1>10. /\ index' \in [Key -> Row \cup {None}]
       /\ replica' \in [Key -> [Account -> ReplicaRow \cup {None}]]
       /\ \A j \in Key : KeyOK(j, index'[j], replica'[j], blobs')
  BY <1>2, <1>4, <1>6 DEF MaintTypeOK
<1>11. QED
  BY <1>2, <1>4, <1>5, <1>6, <1>7, <1>8, <1>9, <1>10, ReplicaMoves

\* A worker settles its row, or hands it back, and goes on to refresh the object.
LEMMA SettleInv ==
  ASSUME MaintInv, NEW w \in Worker,
         MarkSucceeded(w) \/ FailObjectReplica(w) \/ FailObjectReplicaPermanently(w)
  PROVE  MaintInv'
<1> DEFINE k == work[w].key
           a == work[w].account
           old == replica[k][a]
           q == [work[w] EXCEPT !.op = "list"]
<1>1. work[w].op \in {"mark", "fail", "read"} /\ Replicating(work[w]) /\ work[w].op \in Busy
  BY DEF MarkSucceeded, FailObjectReplica, FailObjectReplicaPermanently, At, Replicating, Busy
<1>2. /\ MaintTypeOK /\ k \in Key /\ a \in Account /\ HoldOK(work[w], index[k], replica[k], blobs)
      /\ \A v \in Worker : work[v].op # "job"
      /\ \A v \in Worker \ {w} : ~(work[v].op \in Busy /\ work[v].key = k /\ work[v].account = a)
  BY <1>1, Held
<1>3. work[w] \in HoldReq
  BY <1>1, <1>2, WorkShape
<1>4. q \in HoldReq /\ q.key = k /\ q.account = a /\ q.op = "list"
  BY <1>3 DEF HoldReq
<1>5. old # None /\ old.status = "running" /\ old \in ReplicaRow
  BY <1>1, <1>2 DEF HoldOK, MaintTypeOK
<1>6. old.attempts \in Nat /\ old.max \in Nat
  BY <1>5 DEF ReplicaRow
<1>7. /\ work' = [work EXCEPT ![w] = q] /\ UNCHANGED <<index, blobs, job, uploads>>
  BY DEF MarkSucceeded, FailObjectReplica, FailObjectReplicaPermanently, Becomes
<1>8. \E r \in ReplicaRow : /\ replica' = RowSet(k, a, r)
                            /\ r.status = "succeeded" => blobs[a][k] = index[k].content
  <2>1. CASE MarkSucceeded(w)
    <3> DEFINE n == Max({old.attempts, 1})
               r == [status |-> "succeeded", stored |-> TRUE, attempts |-> n, max |-> old.max]
    <3>1. n \in Nat
      <4>1. \E x \in {old.attempts, 1} : \A y \in {old.attempts, 1} : x >= y
        BY <1>6
      <4>2. n \in {old.attempts, 1}
        BY <4>1 DEF Max
      <4>3. QED
        BY <1>6, <4>2
    <3>2. replica' = [replica EXCEPT ![k][a] = r]
      BY <1>5, <2>1 DEF MarkSucceeded, UpsertObjectReplica
    <3> HIDE DEF n
    <3>3. r \in ReplicaRow
      BY <1>6, <3>1 DEF ReplicaRow, Status
    <3>4. blobs[a][k] = index[k].content
      BY <1>2, <2>1 DEF MarkSucceeded, At, HoldOK
    <3> HIDE DEF r
    <3>5. QED
      BY <3>2, <3>3, <3>4 DEF RowSet
  <2>2. CASE FailObjectReplica(w)
    <3> DEFINE r == [old EXCEPT !.status = IF old.attempts < old.max THEN "pending" ELSE "failed"]
    <3>1. replica' = [replica EXCEPT ![k][a] = r]
      BY <1>5, <2>2 DEF FailObjectReplica, UpsertObjectReplica
    <3>2. r \in ReplicaRow /\ r.status # "succeeded"
      BY <1>5 DEF ReplicaRow, Status
    <3> HIDE DEF r
    <3>3. QED
      BY <3>1, <3>2 DEF RowSet
  <2>3. CASE FailObjectReplicaPermanently(w)
    <3>1. replica' = [replica EXCEPT ![k][a] = FailedForGood]
      BY <2>3 DEF FailObjectReplicaPermanently, UpsertObjectReplica
    <3>2. FailedForGood \in ReplicaRow /\ FailedForGood.status # "succeeded"
      BY DEF FailedForGood, ReplicaRow, Status
    <3>3. QED
      BY <3>1, <3>2 DEF RowSet
  <2>4. QED
    BY <2>1, <2>2, <2>3
<1>9. PICK r \in ReplicaRow : /\ replica' = RowSet(k, a, r)
                              /\ r.status = "succeeded" => blobs[a][k] = index[k].content
  BY <1>8
<1>10. /\ replica[k][a] # None /\ replica[k][a].status \in {"pending", "running"}
       /\ q.op \in {"read", "list"} /\ (q.op = "read" => r.status = "running")
  BY <1>4, <1>5
<1> HIDE DEF old, q, k, a
<1>11. RowStep(w, k, a, r, q)
  BY <1>2, <1>4, <1>7, <1>9, <1>10 DEF RowStep
<1>12. QED
  BY <1>2, <1>11, RowMoves

LEMMA ReplicateInv ==
  ASSUME MaintInv, NEW w \in Worker, Replicate(w)
  PROVE  MaintInv'
BY ReadInv, PutVerifyInv, SettleInv, RefusedInv, ListInv, RefreshInv DEF Replicate

\* The row of a worker that is gone, while others work, on the job too.
LEMMA RecoverReplicaInv ==
  ASSUME Orderly, MaintInv, NEW k \in Key, NEW a \in Account, RecoverStaleObjectReplicas(k, a)
  PROVE  MaintInv'
<1> DEFINE old == replica[k][a]
           r == [old EXCEPT !.status = "pending"]
<1>1. /\ MaintTypeOK /\ old # None /\ old \in ReplicaRow /\ old.status = "running"
      /\ \A w \in Worker : ~Holds(w, k, a)
  BY DEF MaintInv, MaintTypeOK, RecoverStaleObjectReplicas, Orderly
<1>2. r \in ReplicaRow /\ r.status = "pending"
  BY <1>1 DEF ReplicaRow, Status
<1>3. replica' = RowSet(k, a, r) /\ UNCHANGED <<index, blobs, job, work, uploads>>
  BY <1>1 DEF RecoverStaleObjectReplicas, MaintTypeOK, RowSet
<1> HIDE DEF r
<1>4. /\ replica' \in [Key -> [Account -> ReplicaRow \cup {None}]]
      /\ \A j \in Key : KeyOK(j, index[j], replica'[j], blobs)
  BY <1>1, <1>2, <1>3, RowChange
<1>5. \A q \in JobReq : \A jb : JobOK(q, index, replica, blobs, jb)
        => JobOK(q, index, replica', blobs, jb)
  BY <1>1, <1>2, <1>3, RowChange
<1>6. ASSUME NEW w \in Worker, Replicating(work[w])
      PROVE  HoldOK(work[w], index[work[w].key], replica'[work[w].key], blobs)
  <2>1. HoldOK(work[w], index[work[w].key], replica[work[w].key], blobs) /\ work[w] \in ReplicaReq
    BY <1>1, <1>6, WorkShape DEF MaintInv, HoldsInv
  <2>2. ~(work[w].op \in Busy /\ work[w].key = k /\ work[w].account = a)
    BY <1>1, <1>6 DEF Holds, Replicating, Idle
  <2>3. QED
    BY <1>1, <1>2, <1>3, <2>1, <2>2, RowHolds
<1>7. ASSUME NEW w \in Worker, work[w].op = "job"
      PROVE  JobOK(work[w], index, replica', blobs, job)
  <2>1. work[w] \in JobReq /\ JobOK(work[w], index, replica, blobs, job)
    BY <1>1, <1>7, WorkShape DEF MaintInv, JobsInv
  <2>2. QED
    BY <1>5, <2>1
<1>8. MaintTypeOK'
  BY <1>1, <1>3, <1>4 DEF MaintTypeOK
<1>9. KeysInv'
  BY <1>3, <1>4 DEF KeysInv, KeyOK, Good, AllGood
<1>10. HoldsInv'
  BY <1>3, <1>6 DEF MaintInv, HoldsInv, HoldOK, Good, AllGood, Replicating, SameRow
<1>11. JobsInv'
  <2>1. ASSUME NEW w \in Worker, work'[w].op = "job"
        PROVE  /\ JobOK(work'[w], index', replica', blobs', job')
               /\ \A v \in Worker \ {w} : work'[v] = Idle
    BY <1>3, <1>7, <2>1 DEF MaintInv, JobsInv
  <2>2. job' # None /\ job'.kind \in Migration /\ job'.status = "pending" => job'.counts = NoCounts
    BY <1>3 DEF MaintInv, JobsInv
  <2>3. QED
    BY <2>1, <2>2 DEF JobsInv, JobOK, ListOK, CarryOK, ProgressOK, Good
<1>12. QED
  BY <1>8, <1>9, <1>10, <1>11 DEF MaintInv

-----------------------------------------------------------------------------
(* Jobs: the row.                                                          *)

\* Nothing but the workers and the row of the job change, and no worker but one
\* that runs the job is left.
LEMMA JobMoves ==
  ASSUME MaintInv, UNCHANGED <<index, replica, blobs, uploads>>,
         work' \in [Worker -> {Idle} \cup ReplicaReq \cup JobReq], job' \in Job \cup {None},
         job' # None /\ job'.kind \in Migration /\ job'.status = "pending"
           => job'.counts = NoCounts,
         \A w \in Worker : Replicating(work'[w]) => work'[w] = work[w],
         \A w \in Worker : work'[w].op = "job" =>
           /\ JobOK(work'[w], index, replica, blobs, job')
           /\ \A v \in Worker \ {w} : work'[v] = Idle
  PROVE  MaintInv'
<1>1. MaintTypeOK'
  BY DEF MaintInv, MaintTypeOK
<1>2. KeysInv'
  BY DEF MaintInv, KeysInv, KeyOK, Good, AllGood
<1>3. HoldsInv'
  <2>1. ASSUME NEW w \in Worker, Replicating(work'[w])
        PROVE  HoldOK(work'[w], index'[work'[w].key], replica'[work'[w].key], blobs')
    BY <2>1 DEF MaintInv, HoldsInv
  <2>2. ASSUME NEW v \in Worker, NEW w \in Worker, v # w, SameRow(work'[v], work'[w])
        PROVE  FALSE
    <3>1. work'[v] = work[v] /\ work'[w] = work[w]
      BY <2>2 DEF SameRow, Busy, Replicating
    <3>2. QED
      BY <2>2, <3>1 DEF MaintInv, HoldsInv
  <2>3. QED
    BY <2>1, <2>2 DEF HoldsInv, HoldOK, Good, AllGood, Replicating, SameRow
<1>4. JobsInv'
  <2>1. ASSUME NEW w \in Worker, work'[w].op = "job"
        PROVE  /\ JobOK(work'[w], index', replica', blobs', job')
               /\ \A v \in Worker \ {w} : work'[v] = Idle
    BY <2>1
  <2>2. QED
    BY <2>1 DEF JobsInv, JobOK, ListOK, CarryOK, ProgressOK, Good
<1>5. QED
  BY <1>1, <1>2, <1>3, <1>4 DEF MaintInv

\* A worker stops, at a crash or at the end: what it held stays as it is.
LEMMA StopsInv ==
  ASSUME MaintInv, NEW w \in Worker, work' = [work EXCEPT ![w] = Idle],
         UNCHANGED <<index, replica, blobs, uploads>>,
         \/ job' = job
         \/ job' \in Job /\ job'.status # "pending" /\ work[w].op = "job"
  PROVE  MaintInv'
<1>1. MaintTypeOK /\ work \in [Worker -> {Idle} \cup ReplicaReq \cup JobReq]
  BY DEF MaintInv, MaintTypeOK
<1>2. \A v \in Worker : work'[v] = IF v = w THEN Idle ELSE work[v]
  BY <1>1
<1>3. work' \in [Worker -> {Idle} \cup ReplicaReq \cup JobReq] /\ job' \in Job \cup {None}
  BY <1>1 DEF MaintTypeOK
<1>4. \A v \in Worker : Replicating(work'[v]) => work'[v] = work[v]
  BY <1>2 DEF Replicating, Idle
<1>5. ASSUME NEW v \in Worker, work'[v].op = "job"
      PROVE  /\ JobOK(work'[v], index, replica, blobs, job')
             /\ \A u \in Worker \ {v} : work'[u] = Idle
  <2>1. v # w /\ work'[v] = work[v]
    BY <1>2, <1>5 DEF Idle
  <2>2. /\ JobOK(work[v], index, replica, blobs, job)
        /\ \A u \in Worker \ {v} : work[u] = Idle
    BY <1>5, <2>1 DEF MaintInv, JobsInv
  <2>3. job' = job
    BY <2>1, <2>2 DEF Idle
  <2>4. QED
    BY <1>2, <2>1, <2>2, <2>3
<1>6. job' # None /\ job'.kind \in Migration /\ job'.status = "pending" => job'.counts = NoCounts
  BY DEF MaintInv, JobsInv
<1>7. QED
  BY <1>3, <1>4, <1>5, <1>6, JobMoves

LEMMA CrashInv ==
  ASSUME MaintInv, NEW w \in Worker, Crash(w)
  PROVE  MaintInv'
<1>1. work' = [work EXCEPT ![w] = Idle] /\ UNCHANGED <<index, replica, blobs, job, uploads>>
  BY DEF Crash, Becomes
<1>2. QED
  BY <1>1, StopsInv

\* Nobody runs the job: its row changes alone.
LEMMA JobRowInv ==
  ASSUME MaintInv, \A w \in Worker : work[w].op # "job", job' \in Job,
         job'.kind \in Migration /\ job'.status = "pending" => job'.counts = NoCounts,
         UNCHANGED <<index, replica, blobs, work, uploads>>
  PROVE  MaintInv'
<1>1. work' \in [Worker -> {Idle} \cup ReplicaReq \cup JobReq]
  BY DEF MaintInv, MaintTypeOK
<1>2. \A w \in Worker : work'[w].op # "job"
  OBVIOUS
<1>3. QED
  BY <1>1, <1>2, JobMoves

LEMMA CreateInv ==
  ASSUME MaintInv, NEW kind, CreateJob(kind)
  PROVE  MaintInv'
<1> DEFINE n == NoCounts
           jb == [kind |-> kind, status |-> "pending", counts |-> n]
<1>1. n \in Counts
  BY DEF NoCounts, Counts
<1>2. kind \in JobKind /\ job = None
  BY MaintenanceAssumption DEF CreateJob
<1>3. job' = jb /\ UNCHANGED <<index, replica, blobs, work, uploads>>
  BY DEF CreateJob
<1> HIDE DEF n
<1>4. jb \in Job /\ jb.counts = n
  BY <1>1, <1>2 DEF Job
<1>5. \A w \in Worker : work[w].op # "job"
  BY <1>2 DEF MaintInv, JobsInv, JobOK
<1> HIDE DEF jb
<1>6. QED
  BY <1>3, <1>4, <1>5, JobRowInv DEF n

LEMMA RecoverJobInv ==
  ASSUME Orderly, MaintInv,
         RecoverStaleMigrationJobs \/ RecoverStaleRepairJobs \/ RecoverStaleInventoryJobs
  PROVE  MaintInv'
<1>1. PICK n : /\ job' = [job EXCEPT !.status = "pending", !.counts = n]
               /\ (job.kind \in Migration => n = NoCounts) /\ (n = NoCounts \/ n = job.counts)
               /\ job # None /\ ~Touched
               /\ UNCHANGED <<index, replica, blobs, work, uploads>>
  BY DEF RecoverStaleMigrationJobs, RecoverStaleRepairJobs, RecoverStaleInventoryJobs,
         RecoverJob, Migration, Inventory
<1>2. job \in Job /\ NoCounts \in Counts
  BY <1>1 DEF MaintInv, MaintTypeOK, NoCounts, Counts
<1>3. n \in Counts
  BY <1>1, <1>2 DEF Job
<1>4. job' \in Job /\ job'.counts = n /\ job'.kind = job.kind
  BY <1>1, <1>2, <1>3 DEF Job
<1>5. \A w \in Worker : work[w].op # "job"
  <2>1. Working("job") = {}
    BY <1>1 DEF Touched, Orderly
  <2>2. QED
    BY <2>1 DEF Working, Idle
<1>6. QED
  BY <1>1, <1>4, <1>5, JobRowInv

LEMMA ClaimJobInv ==
  ASSUME Orderly, MaintInv, NEW w \in Worker, NEW kinds, ClaimJob(w, kinds)
  PROVE  MaintInv'
<1> DEFINE q == [op |-> "job", step |-> "start", counts |-> job.counts]
<1>1. /\ work[w] = Idle /\ job # None /\ job.status = "pending"
      /\ job' = [job EXCEPT !.status = "running"] /\ work' = [work EXCEPT ![w] = q]
      /\ UNCHANGED <<index, replica, blobs, uploads>>
  BY DEF ClaimJob, Becomes
<1>2. MaintTypeOK /\ job \in Job
  BY <1>1 DEF MaintInv, MaintTypeOK
<1>3. job.counts \in Counts /\ job' \in Job /\ job'.status = "running" /\ job'.kind = job.kind
  BY <1>1, <1>2 DEF Job
<1>4. q \in JobReq /\ q.op = "job" /\ q.step = "start" /\ q.counts = job.counts
  BY <1>3 DEF JobReq, StartReq
<1> HIDE DEF q
<1>5. \A v \in Worker : work[v] = Idle
  <2>1. \A v \in Worker : work[v].op # "job"
    BY <1>1 DEF MaintInv, JobsInv, JobOK
  <2>2. Working("replica") = {}
    BY DEF ClaimJob, MayClaim, Orderly
  <2>3. QED
    BY <2>1, <2>2 DEF Working
<1>6. \A v \in Worker : work'[v] = IF v = w THEN q ELSE Idle
  BY <1>1, <1>2, <1>5 DEF MaintTypeOK
<1>7. JobOK(q, index, replica, blobs, job')
  <2>1. job' # None
    BY <1>3, RowFacts
  <2>2. job.kind \in Migration => job.counts = NoCounts
    BY <1>1 DEF MaintInv, JobsInv
  <2>3. QED
    BY <1>3, <1>4, <2>1, <2>2 DEF JobOK
<1>8. work' \in [Worker -> {Idle} \cup ReplicaReq \cup JobReq]
  BY <1>1, <1>2, <1>4 DEF MaintTypeOK
<1>9. ASSUME NEW v \in Worker
      PROVE  /\ Replicating(work'[v]) => work'[v] = work[v]
             /\ work'[v].op = "job" => /\ JobOK(work'[v], index, replica, blobs, job')
                                       /\ \A u \in Worker \ {v} : work'[u] = Idle
  BY <1>4, <1>6, <1>7 DEF Replicating, Idle
<1>10. QED
  BY <1>1, <1>3, <1>8, <1>9, JobMoves

-----------------------------------------------------------------------------
(* Jobs: the steps of the worker that runs one.                            *)

\* Who runs the job: it has the row, and every other worker is idle.
LEMMA Runner ==
  ASSUME MaintInv, NEW w \in Worker, At(w, "job")
  PROVE  /\ MaintTypeOK /\ work[w] \in JobReq /\ work[w].op = "job" /\ work[w].counts \in Counts
         /\ JobOK(work[w], index, replica, blobs, job) /\ job \in Job /\ job.status = "running"
         /\ \A v \in Worker \ {w} : work[v] = Idle
<1>1. MaintTypeOK /\ work[w].op = "job"
  BY DEF MaintInv, At
<1>2. /\ JobOK(work[w], index, replica, blobs, job)
      /\ \A v \in Worker \ {w} : work[v] = Idle
  BY <1>1 DEF MaintInv, JobsInv
<1>3. job # None /\ job.status = "running"
  BY <1>2 DEF JobOK
<1>4. job \in Job
  BY <1>1, <1>3 DEF MaintTypeOK
<1>5. work[w] \in JobReq
  BY <1>1, WorkShape
<1>6. work[w].counts \in Counts
  BY <1>5, JobShape
<1>7. QED
  BY <1>1, <1>2, <1>3, <1>4, <1>5, <1>6

\* It goes on with what its request, the row and the objects allow.
LEMMA RunnerMoves ==
  ASSUME MaintInv, NEW w \in Worker, At(w, "job"),
         NEW q \in JobReq, work' = [work EXCEPT ![w] = q], uploads' = uploads,
         index' \in [Key -> Row \cup {None}],
         replica' \in [Key -> [Account -> ReplicaRow \cup {None}]],
         blobs' \in [Account -> [Key -> Nat]],
         \A k \in Key : KeyOK(k, index'[k], replica'[k], blobs'),
         job' \in Job, JobOK(q, index', replica', blobs', job')
  PROVE  MaintInv'
<1>1. MaintTypeOK /\ \A v \in Worker \ {w} : work[v] = Idle
  BY Runner
<1>2. /\ work' \in [Worker -> {Idle} \cup ReplicaReq \cup JobReq]
      /\ \A v \in Worker : work'[v] = IF v = w THEN q ELSE Idle
  BY <1>1 DEF MaintTypeOK
<1>3. q.op = "job" /\ Idle.op = "idle"
  BY DEF JobReq, StartReq, NextReq, BodyReq, RestoreReq, Idle
<1>4. MaintTypeOK'
  BY <1>1, <1>2 DEF MaintTypeOK
<1>5. KeysInv'
  BY DEF KeysInv, KeyOK, Good, AllGood
<1>6. HoldsInv'
  <2>1. \A v \in Worker : work'[v].op \in {"idle", "job"}
    BY <1>2, <1>3
  <2>2. QED
    BY <2>1 DEF HoldsInv, Replicating, SameRow, Busy
<1>7. JobsInv'
  <2>1. ASSUME NEW v \in Worker, work'[v].op = "job"
        PROVE  /\ JobOK(work'[v], index', replica', blobs', job')
               /\ \A u \in Worker \ {v} : work'[u] = Idle
    BY <1>2, <1>3, <2>1
  <2>2. job'.status = "running"
    BY DEF JobOK
  <2>3. QED
    BY <2>1, <2>2 DEF JobsInv, JobOK, ListOK, CarryOK, ProgressOK, Good
<1>8. QED
  BY <1>4, <1>5, <1>6, <1>7 DEF MaintInv

\* A list with each key once is finite.
LEMMA FiniteTodo ==
  ASSUME NEW todo \in SUBSET Item, \A o, p \in todo : o.key = p.key => o = p
  PROVE  IsFiniteSet(todo)
<1> DEFINE f == [o \in todo |-> o.key]
<1>1. f \in [todo -> Key]
  BY DEF Item
<1>2. \A o, p \in todo : f[o] = f[p] => o = p
  OBVIOUS
<1>3. f \in Injection(todo, Key)
  BY <1>1, <1>2 DEF Injection, IsInjective
<1>4. QED
  BY <1>3, FS_Injection, MaintenanceAssumption

LEMMA IndexedIs ==
  ASSUME MaintTypeOK
  PROVE  /\ Indexed(Key) \subseteq Item
         /\ \A o \in Indexed(Key) : o.key \in Key /\ index[o.key] = o.row /\ o.row # None
         /\ \A o, p \in Indexed(Key) : o.key = p.key => o = p
         /\ \A k \in Key : index[k] # None => \E o \in Indexed(Key) : o.key = k /\ o.row = index[k]
<1>1. \A k \in Key : index[k] # None => index[k] \in Row
  BY DEF MaintTypeOK
<1>2. \A o \in Indexed(Key) : \E k \in Key : index[k] # None /\ o = [key |-> k, row |-> index[k]]
  BY DEF Indexed
<1>3. \A k \in Key : index[k] # None => [key |-> k, row |-> index[k]] \in Indexed(Key)
  BY DEF Indexed
<1>4. \A k, r : [key |-> k, row |-> r].key = k /\ [key |-> k, row |-> r].row = r
  OBVIOUS
<1>5. \A k \in Key, r \in Row : [key |-> k, row |-> r] \in Item
  BY DEF Item
<1>6. Indexed(Key) \subseteq Item
  BY <1>1, <1>2, <1>5
<1>7. \A o \in Indexed(Key) : o.key \in Key /\ index[o.key] = o.row /\ o.row # None
  BY <1>2, <1>4
<1>8. \A o, p \in Indexed(Key) : o.key = p.key => o = p
  BY <1>2, <1>4
<1>9. \A k \in Key : index[k] # None => \E o \in Indexed(Key) : o.key = k /\ o.row = index[k]
  BY <1>3, <1>4
<1>10. QED
  BY <1>6, <1>7, <1>8, <1>9

RemoteRow(k) == [account |-> Source, content |-> blobs[Source][k], status |-> "none"]

LEMMA RemoteIs ==
  ASSUME MaintTypeOK
  PROVE  /\ RemoteObjects \subseteq Item
         /\ \A o \in RemoteObjects : blobs[Source][o.key] # 0 /\ o.row = RemoteRow(o.key)
         /\ \A o, p \in RemoteObjects : o.key = p.key => o = p
         /\ \A k \in Key : blobs[Source][k] # 0 => \E o \in RemoteObjects : o.key = k
<1>1. \A k \in Key : RemoteRow(k) \in Row
  BY MaintenanceAssumption DEF MaintTypeOK, Row, RemoteRow
<1>2. \A o \in RemoteObjects : \E k \in Key :
        blobs[Source][k] # 0 /\ o = [key |-> k, row |-> RemoteRow(k)]
  BY DEF RemoteObjects, RemoteRow
<1>3. \A k \in Key : blobs[Source][k] # 0 => [key |-> k, row |-> RemoteRow(k)] \in RemoteObjects
  BY DEF RemoteObjects, RemoteRow
<1>4. \A k, r : [key |-> k, row |-> r].key = k /\ [key |-> k, row |-> r].row = r
  OBVIOUS
<1>5. \A k \in Key, r \in Row : [key |-> k, row |-> r] \in Item
  BY DEF Item
<1> HIDE DEF RemoteRow
<1>6. RemoteObjects \subseteq Item
  BY <1>1, <1>2, <1>5
<1>7. \A o \in RemoteObjects : blobs[Source][o.key] # 0 /\ o.row = RemoteRow(o.key)
  BY <1>2, <1>4
<1>8. \A o, p \in RemoteObjects : o.key = p.key => o = p
  BY <1>2, <1>4
<1>9. \A k \in Key : blobs[Source][k] # 0 => \E o \in RemoteObjects : o.key = k
  BY <1>3, <1>4
<1>10. QED
  BY <1>6, <1>7, <1>8, <1>9

LEMMA ListingIs ==
  ASSUME MaintTypeOK, job \in Job
  PROVE  /\ Listing \in SUBSET Item
         /\ \A o, p \in Listing : o.key = p.key => o = p
         /\ job.kind \in Migration =>
              /\ \A o \in Listing : index[o.key] = o.row /\ o.row.account = Source
              /\ \A k \in Key : index[k] # None /\ index[k].account = Source => k \in Keys(Listing)
         /\ job.kind = "repair" => \A k \in Key : index[k] # None => k \in Keys(Listing)
         /\ job.kind \in Inventory =>
              /\ \A o \in Listing : blobs[Source][o.key] # 0 /\ o.row = RemoteRow(o.key)
              /\ \A k \in Key : blobs[Source][k] # 0 => k \in Keys(Listing)
<1>1. job.kind \in Migration \cup {"repair"} \cup Inventory
  BY DEF Job, JobKind, Migration, Inventory
<1>2. CASE job.kind \in Migration
  <2>1. Listing = MigrationObjects /\ job.kind # "repair" /\ job.kind \notin Inventory
    BY <1>2 DEF Listing, Migration, Inventory
  <2>2. MigrationObjects \subseteq Indexed(Key) /\ \A o \in MigrationObjects : o.row.account = Source
    BY DEF MigrationObjects
  <2>3. ASSUME NEW k \in Key, index[k] # None, index[k].account = Source
        PROVE  k \in Keys(Listing)
    <3>1. PICK o \in Indexed(Key) : o.key = k /\ o.row = index[k]
      BY <2>3, IndexedIs
    <3>2. o \in MigrationObjects
      BY <2>3, <3>1 DEF MigrationObjects
    <3>3. QED
      BY <2>1, <3>1, <3>2 DEF Keys
  <2>4. QED
    BY <2>1, <2>2, <2>3, IndexedIs
<1>3. CASE job.kind = "repair"
  <2>1. Listing = Indexed(Key) /\ job.kind \notin Migration /\ job.kind \notin Inventory
    BY <1>3 DEF Listing, Migration, Inventory
  <2>2. QED
    BY <1>3, <2>1, IndexedIs DEF Keys
<1>4. CASE job.kind \in Inventory
  <2>1. Listing = RemoteObjects /\ job.kind # "repair" /\ job.kind \notin Migration
    BY <1>4 DEF Listing, Migration, Inventory
  <2>2. QED
    BY <2>1, RemoteIs DEF Keys
<1>5. QED
  BY <1>1, <1>2, <1>3, <1>4

LEMMA ListWorkInv ==
  ASSUME MaintInv, NEW w \in Worker, ListWork(w)
  PROVE  MaintInv'
<1> DEFINE old == work[w].counts
           L == Listing
           S == {o.key : o \in L}
           n == [old EXCEPT !.total = IF job.kind \in Migration THEN Cardinality(L) ELSE @]
           q == [op |-> "job", step |-> "next", counts |-> n, todo |-> L, seen |-> S]
<1>1. At(w, "job") /\ work[w].step = "start"
  BY DEF ListWork, AtStep
<1>2. /\ MaintTypeOK /\ old \in Counts /\ job \in Job /\ job.status = "running"
      /\ JobOK(work[w], index, replica, blobs, job)
  BY <1>1, Runner
<1>3. /\ work' = [work EXCEPT ![w] = q] /\ job' = [job EXCEPT !.status = "running", !.counts = n]
      /\ UNCHANGED <<index, replica, blobs, uploads>>
  BY <1>2 DEF ListWork, Becomes
<1>4. L \in SUBSET Item /\ \A o, p \in L : o.key = p.key => o = p
  BY <1>2, ListingIs
<1>5. IsFiniteSet(L) /\ Cardinality(L) \in Nat
  BY <1>4, FiniteTodo, FS_CardinalityType
<1>6. S \in SUBSET Key
  BY <1>4 DEF Item
<1>7. job.kind \in Migration => old = NoCounts
  BY <1>1, <1>2 DEF JobOK
<1> HIDE DEF L, S
<1>8. /\ n \in Counts
      /\ job.kind \in Migration => /\ n.total = Cardinality(L) /\ n.done = 0
                                   /\ n.good = 0 /\ n.bad = 0
  BY <1>2, <1>5, <1>7 DEF Counts, NoCounts
<1> HIDE DEF n, old
<1>9. /\ q \in JobReq /\ q.todo = L /\ q.counts = n /\ q.step = "next"
  BY <1>4, <1>6, <1>8 DEF JobReq, NextReq
<1>10. job' \in Job /\ job'.status = "running" /\ job'.kind = job.kind /\ job' # None
  BY <1>2, <1>3, <1>8, RowFacts DEF Job
<1> HIDE DEF q
<1>11. ListOK(q, index, blobs, job.kind)
  <2>1. job.kind \in Migration => \A o \in L : index[o.key] = o.row /\ o.row.account = Source
    BY <1>2, ListingIs DEF L
  <2>2. job.kind \in Inventory => \A o \in L : blobs[Source][o.key] # 0 /\ o.row = RemoteRow(o.key)
    BY <1>2, ListingIs DEF L
  <2>3. QED
    BY <1>4, <1>9, <2>1, <2>2 DEF ListOK, RemoteRow
<1>12. CarryOK(q, index, replica, blobs, job.kind)
  BY <1>9 DEF CarryOK
<1>13. ProgressOK(q, index, replica, blobs, job.kind)
  <2>1. job.kind \in Migration => n.total = n.done + Cardinality(L) /\ n.done = n.good + n.bad
    BY <1>5, <1>8
  <2>2. /\ job.kind \in Migration =>
             \A k \in Key : index[k] # None /\ index[k].account = Source => k \in Keys(L)
        /\ job.kind = "repair" => \A k \in Key : index[k] # None => k \in Keys(L)
        /\ job.kind \in Inventory => \A k \in Key : blobs[Source][k] # 0 => k \in Keys(L)
    BY <1>2, ListingIs DEF L
  <2>3. QED
    BY <1>5, <1>9, <2>1, <2>2 DEF ProgressOK
<1>14. JobOK(q, index', replica', blobs', job')
  BY <1>3, <1>9, <1>10, <1>11, <1>12, <1>13 DEF JobOK
<1>15. /\ index' \in [Key -> Row \cup {None}]
       /\ replica' \in [Key -> [Account -> ReplicaRow \cup {None}]]
       /\ blobs' \in [Account -> [Key -> Nat]]
       /\ \A k \in Key : KeyOK(k, index'[k], replica'[k], blobs')
  BY <1>2, <1>3 DEF MaintInv, MaintTypeOK, KeysInv
<1>16. QED
  BY <1>1, <1>3, <1>9, <1>10, <1>14, <1>15, RunnerMoves

\* What a job promises of one key.
KeyDone(k, o, rs, bs, kind) ==
  /\ kind \in Migration /\ o # None /\ o.account = Source => kind = "copy" /\ Good(rs[Target])
  /\ kind = "repair" /\ o # None => bs[o.account][k] = o.content
  /\ kind \in Inventory /\ bs[Source][k] # 0 => o # None

\* The objects after a step of the job: those of one key only change.
KeyStep(k) ==
  /\ uploads' = uploads
  /\ index' \in [Key -> Row \cup {None}]
  /\ replica' \in [Key -> [Account -> ReplicaRow \cup {None}]]
  /\ blobs' \in [Account -> [Key -> Nat]]
  /\ \A j \in Key : KeyOK(j, index'[j], replica'[j], blobs')
  /\ \A j \in Key \ {k} : /\ index'[j] = index[j] /\ replica'[j] = replica[j]
                          /\ \A a \in Account : blobs'[a][j] = blobs[a][j]

CountStep(w, k, good, bad) ==
  /\ work[w].step # "start" /\ work[w].todo # {} /\ k = First(w).key
  /\ good \in {0, 1} /\ bad \in {0, 1} /\ (job.kind \in Migration => good + bad = 1)
  /\ job.kind \in Inventory => bad = 0
  /\ bad = 0 => KeyDone(k, index'[k], replica'[k], blobs', job.kind)
  /\ KeyStep(k)

LEMMA Frame ==
  ASSUME MaintInv, UNCHANGED <<index, replica, blobs, uploads>>, NEW k \in Key
  PROVE  KeyStep(k)
<1>1. MaintTypeOK /\ KeysInv
  BY DEF MaintInv
<1>2. QED
  BY <1>1 DEF KeyStep, KeysInv, MaintTypeOK

\* The first object of the list, and the rest.
LEMMA TodoRest ==
  ASSUME MaintInv, NEW w \in Worker, At(w, "job"), work[w].step # "start", work[w].todo # {}
  PROVE  /\ First(w) = Least(work[w].todo) /\ First(w) \in work[w].todo
         /\ First(w).key \in Key /\ First(w).row \in Row
         /\ work[w].todo \in SUBSET Item /\ work[w].seen \in SUBSET Key
         /\ \A o \in Rest(w) : o \in work[w].todo /\ o # Least(work[w].todo) /\ o.key \in Key
                               /\ o.key # First(w).key
         /\ \A j : j \in Keys(work[w].todo) => j = First(w).key \/ j \in Keys(Rest(w))
         /\ IsFiniteSet(work[w].todo) => /\ IsFiniteSet(Rest(w))
                                         /\ Cardinality(work[w].todo) = Cardinality(Rest(w)) + 1
                                         /\ Cardinality(Rest(w)) \in Nat
<1> DEFINE todo == work[w].todo
           f == First(w)
<1>1. work[w] \in JobReq /\ JobOK(work[w], index, replica, blobs, job)
  BY Runner
<1>2. todo \in SUBSET Item /\ work[w].seen \in SUBSET Key
  BY <1>1, JobShape
<1>3. f = Least(todo)
  BY DEF First, Least
<1>4. f \in todo /\ f.key \in Key /\ f.row \in Row
  BY <1>2, <1>3, LeastIn
<1>5. \A o, p \in todo : o.key = p.key => o = p
  BY <1>1 DEF JobOK, ListOK
<1>6. Rest(w) = todo \ {f} /\ \A o \in todo : o.key \in Key
  BY <1>2 DEF Rest, Item
<1>7. \A o \in Rest(w) : o \in todo /\ o # f /\ o.key \in Key /\ o.key # f.key
  BY <1>4, <1>5, <1>6
<1>8. \A j : j \in Keys(todo) => j = f.key \/ j \in Keys(Rest(w))
  BY <1>4, <1>6 DEF Keys
<1>9. ASSUME IsFiniteSet(todo)
      PROVE  /\ IsFiniteSet(Rest(w)) /\ Cardinality(todo) = Cardinality(Rest(w)) + 1
             /\ Cardinality(Rest(w)) \in Nat
  <2> HIDE DEF todo, f
  <2>0. /\ IsFiniteSet(todo \ {f})
        /\ Cardinality(todo \ {f}) = IF f \in todo THEN Cardinality(todo) - 1
                                     ELSE Cardinality(todo)
    BY <1>9, FS_RemoveElement, Zenon
  <2>1. /\ IsFiniteSet(Rest(w)) /\ Cardinality(Rest(w)) = Cardinality(todo) - 1
    BY <1>4, <1>6, <2>0
  <2>2. Cardinality(Rest(w)) \in Nat /\ Cardinality(todo) \in Nat
    BY <1>9, <2>1, FS_CardinalityType
  <2>3. QED
    BY <2>1, <2>2
<1>10. QED
  BY <1>2, <1>3, <1>4, <1>7, <1>8, <1>9

\* An object of the list is finished and counted, well or badly.
LEMMA CountInv ==
  ASSUME MaintInv, NEW w \in Worker, At(w, "job"), NEW k, NEW good, NEW bad,
         CountStep(w, k, good, bad), Counted(w, good, bad)
  PROVE  MaintInv'
<1> DEFINE old == work[w].counts
           n == Plus(old, good, bad)
           R == Rest(w)
           S == work[w].seen
           q == [op |-> "job", step |-> "next", counts |-> n, todo |-> R, seen |-> S]
<1>0. /\ work[w].step # "start" /\ work[w].todo # {} /\ k = First(w).key
      /\ good \in {0, 1} /\ bad \in {0, 1} /\ (job.kind \in Migration => good + bad = 1)
      /\ job.kind \in Inventory => bad = 0
      /\ bad = 0 => KeyDone(k, index'[k], replica'[k], blobs', job.kind)
      /\ KeyStep(k)
  BY DEF CountStep
<1>1. /\ MaintTypeOK /\ work[w] \in JobReq /\ old \in Counts /\ job \in Job
      /\ job.status = "running" /\ JobOK(work[w], index, replica, blobs, job)
  BY Runner
<1>2. /\ k = Least(work[w].todo).key /\ k \in Key
      /\ work[w].todo \in SUBSET Item /\ S \in SUBSET Key
      /\ \A o \in R : /\ o \in work[w].todo /\ o # Least(work[w].todo)
                      /\ o.key \in Key /\ o.key # k
      /\ \A j : j \in Keys(work[w].todo) => j = k \/ j \in Keys(R)
      /\ IsFiniteSet(work[w].todo) => /\ IsFiniteSet(R) /\ Cardinality(R) \in Nat
                                      /\ Cardinality(work[w].todo) = Cardinality(R) + 1
  BY <1>0, TodoRest
<1>3. /\ ListOK(work[w], index, blobs, job.kind)
      /\ ProgressOK(work[w], index, replica, blobs, job.kind)
  BY <1>0, <1>1 DEF JobOK
<1>4. /\ work' = [work EXCEPT ![w] = q]
      /\ job' = IF job.kind \in Migration
                THEN [job EXCEPT !.counts = n, !.status = "running"] ELSE job
  BY DEF Counted, Becomes
<1>5. /\ old.total \in Nat /\ old.done \in Nat /\ old.good \in Nat /\ old.bad \in Nat
      /\ n.total = old.total /\ n.done = old.done + 1
      /\ n.good = old.good + good /\ n.bad = old.bad + bad /\ n \in Counts
  <2>1. /\ old.total \in Nat /\ old.done \in Nat /\ old.good \in Nat /\ old.bad \in Nat
        /\ n = [old EXCEPT !.done = old.done + 1, !.good = old.good + good, !.bad = old.bad + bad]
    BY <1>1 DEF Counts, Plus
  <2>2. old.done + 1 \in Nat /\ old.good + good \in Nat /\ old.bad + bad \in Nat
    BY <1>0, <2>1
  <2> HIDE DEF n, old
  <2>3. QED
    BY <1>1, <2>1, <2>2 DEF Counts
<1> HIDE DEF R, S, n, old
<1>6. R \in SUBSET Item
  BY <1>2
<1>7. q \in JobReq /\ q.todo = R /\ q.counts = n /\ q.step = "next"
  BY <1>2, <1>5, <1>6 DEF JobReq, NextReq
<1>8. job' \in Job /\ job'.status = "running" /\ job'.kind = job.kind /\ job' # None
  BY <1>1, <1>4, <1>5, RowFacts DEF Job
<1> HIDE DEF q
<1>9. \A j \in Key \ {k} : /\ index'[j] = index[j] /\ replica'[j] = replica[j]
                           /\ \A a \in Account : blobs'[a][j] = blobs[a][j]
  BY <1>0 DEF KeyStep
<1>10. Source \in Account /\ Target \in Account
  BY MaintenanceAssumption
<1>11. ListOK(q, index', blobs', job.kind)
  <2>1. \A o, p \in R : o.key = p.key => o = p
    BY <1>2, <1>3 DEF ListOK
  <2>2. ASSUME job.kind \in Migration, NEW o \in R
        PROVE  index'[o.key] = o.row /\ o.row.account = Source
    BY <1>2, <1>3, <1>9, <2>2 DEF ListOK
  <2>3. ASSUME job.kind \in Inventory, NEW o \in R
        PROVE  /\ blobs'[Source][o.key] # 0
               /\ o.row = [account |-> Source, content |-> blobs'[Source][o.key], status |-> "none"]
    <3>1. blobs'[Source][o.key] = blobs[Source][o.key]
      BY <1>2, <1>9, <1>10
    <3>2. QED
      BY <1>2, <1>3, <2>3, <3>1 DEF ListOK
  <2>4. QED
    BY <1>7, <2>1, <2>2, <2>3 DEF ListOK
<1>12. CarryOK(q, index', replica', blobs', job.kind)
  BY <1>7 DEF CarryOK
<1>13. ProgressOK(q, index', replica', blobs', job.kind)
  <2>1. CASE job.kind \in Migration
    <3>1. /\ IsFiniteSet(work[w].todo) /\ old.total = old.done + Cardinality(work[w].todo)
          /\ old.done = old.good + old.bad
      BY <1>3, <2>1 DEF ProgressOK, old
    <3>2. /\ IsFiniteSet(R) /\ Cardinality(R) \in Nat
          /\ Cardinality(work[w].todo) = Cardinality(R) + 1
      BY <1>2, <3>1
    <3>3. n.total = n.done + Cardinality(R)
      BY <1>5, <3>1, <3>2
    <3>4. n.done = n.good + n.bad
      BY <1>0, <1>5, <2>1, <3>1
    <3>5. ASSUME n.bad = 0, NEW j \in Key, index'[j] # None, index'[j].account = Source
          PROVE  j \in Keys(R) \/ (job.kind = "copy" /\ Good(replica'[j][Target]))
      <4>1. old.bad = 0 /\ bad = 0
        BY <1>0, <1>5, <3>5
      <4>2. CASE j = k
        BY <1>0, <2>1, <3>5, <4>1, <4>2 DEF KeyDone
      <4>3. CASE j # k
        <5>1. j \in Keys(work[w].todo) \/ (job.kind = "copy" /\ Good(replica[j][Target]))
          BY <1>3, <1>9, <2>1, <3>5, <4>1, <4>3 DEF ProgressOK, old
        <5>2. QED
          BY <1>2, <1>9, <4>3, <5>1
      <4>4. QED
        BY <4>2, <4>3
    <3>6. job.kind # "repair" /\ job.kind \notin Inventory
      BY <2>1 DEF Migration, Inventory
    <3>7. QED
      BY <1>7, <3>2, <3>3, <3>4, <3>5, <3>6 DEF ProgressOK
  <2>2. CASE job.kind = "repair"
    <3>1. job.kind \notin Migration /\ job.kind \notin Inventory
      BY <2>2 DEF Migration, Inventory
    <3>2. ASSUME n.bad = 0, NEW j \in Key \ Keys(R), index'[j] # None
          PROVE  blobs'[index'[j].account][j] = index'[j].content
      <4>1. old.bad = 0 /\ bad = 0
        BY <1>0, <1>5, <3>2
      <4>2. CASE j = k
        BY <1>0, <2>2, <3>2, <4>1, <4>2 DEF KeyDone
      <4>3. CASE j # k
        <5>1. index'[j] = index[j] /\ index[j].account \in Account
          BY <1>1, <1>9, <3>2, <4>3, RowFacts DEF MaintTypeOK
        <5>2. blobs[index[j].account][j] = index[j].content
          BY <1>2, <1>3, <2>2, <3>2, <4>1, <4>3, <5>1 DEF ProgressOK, old
        <5>3. QED
          BY <1>9, <4>3, <5>1, <5>2
      <4>4. QED
        BY <4>2, <4>3
    <3>3. QED
      BY <1>7, <3>1, <3>2 DEF ProgressOK
  <2>3. CASE job.kind \in Inventory
    <3>1. job.kind \notin Migration /\ job.kind # "repair"
      BY <2>3 DEF Migration, Inventory
    <3>2. ASSUME NEW j \in Key \ Keys(R), blobs'[Source][j] # 0
          PROVE  index'[j] # None
      <4>1. CASE j = k
        BY <1>0, <2>3, <3>2, <4>1 DEF KeyDone
      <4>2. CASE j # k
        BY <1>2, <1>3, <1>9, <1>10, <2>3, <3>2, <4>2 DEF ProgressOK
      <4>3. QED
        BY <4>1, <4>2
    <3>3. QED
      BY <1>7, <3>1, <3>2 DEF ProgressOK
  <2>4. job.kind \in Migration \cup {"repair"} \cup Inventory
    BY <1>1 DEF Job, JobKind, Migration, Inventory
  <2>5. QED
    BY <2>1, <2>2, <2>3, <2>4
<1>14. JobOK(q, index', replica', blobs', job')
  BY <1>7, <1>8, <1>11, <1>12, <1>13 DEF JobOK
<1>15. QED
  BY <1>0, <1>4, <1>7, <1>8, <1>14, RunnerMoves DEF KeyStep

\* The worker goes on with the object in hand.
LEMMA OntoInv ==
  ASSUME MaintInv, NEW w \in Worker, At(w, "job"), work[w].step # "start",
         NEW step \in {"put", "index", "delete"}, NEW body \in Nat, Onto(w, step, body),
         job' = job, NEW k, KeyStep(k),
         \A q : q.todo = work[w].todo /\ q.step = step /\ q.counts = work[w].counts
                  /\ q.body = body =>
                  /\ ListOK(q, index', blobs', job.kind)
                  /\ CarryOK(q, index', replica', blobs', job.kind)
                  /\ ProgressOK(q, index', replica', blobs', job.kind)
  PROVE  MaintInv'
<1> DEFINE n == work[w].counts
           todo == work[w].todo
           seen == work[w].seen
           q == [op |-> "job", step |-> step, counts |-> n, todo |-> todo, seen |-> seen,
                 body |-> body]
<1>1. /\ MaintTypeOK /\ work[w] \in JobReq /\ n \in Counts /\ job \in Job
      /\ job.status = "running" /\ job # None
  BY Runner, RowFacts
<1>2. todo \in SUBSET Item /\ seen \in SUBSET Key
  BY <1>1, JobShape
<1>3. work' = [work EXCEPT ![w] = q]
  BY DEF Onto, Becomes
<1> HIDE DEF n, todo, seen
<1>4. q \in JobReq /\ q.todo = todo /\ q.step = step /\ q.counts = n /\ q.body = body
  BY <1>1, <1>2 DEF JobReq, BodyReq
<1> HIDE DEF q
<1>5. /\ ListOK(q, index', blobs', job.kind) /\ CarryOK(q, index', replica', blobs', job.kind)
      /\ ProgressOK(q, index', replica', blobs', job.kind)
  BY <1>4 DEF n, todo
<1>6. JobOK(q, index', replica', blobs', job')
  BY <1>1, <1>4, <1>5 DEF JobOK
<1>7. QED
  BY <1>1, <1>3, <1>4, <1>6, RunnerMoves DEF KeyStep

LEMMA MigrateReadInv ==
  ASSUME MaintInv, NEW w \in Worker, MigrateRead(w)
  PROVE  MaintInv'
<1> DEFINE k == First(w).key
           b == blobs[Source][k]
<1>1. /\ At(w, "job") /\ work[w].step = "next" /\ work[w].todo # {} /\ job.kind \in Migration
      /\ UNCHANGED <<index, replica, blobs, uploads>>
  BY DEF MigrateRead, HasNext, AtStep
<1>2. /\ MaintTypeOK /\ work[w] \in JobReq /\ JobOK(work[w], index, replica, blobs, job)
  BY <1>1, Runner
<1>3. /\ First(w) = Least(work[w].todo) /\ First(w) \in work[w].todo /\ k \in Key
  BY <1>1, TodoRest
<1>4. KeyStep(k)
  BY <1>1, <1>3, Frame
<1>5. CASE b = 0
  <2>1. Counted(w, 0, 1)
    BY <1>5 DEF MigrateRead
  <2>2. CountStep(w, k, 0, 1)
    BY <1>1, <1>4 DEF CountStep, Migration, Inventory
  <2>3. QED
    BY <1>1, <2>1, <2>2, CountInv
<1>6. CASE b # 0
  <2>1. Onto(w, "put", b) /\ job' = job
    BY <1>6 DEF MigrateRead
  <2>2. /\ ListOK(work[w], index, blobs, job.kind)
        /\ ProgressOK(work[w], index, replica, blobs, job.kind)
    BY <1>1, <1>2 DEF JobOK
  <2>3. index[k] = First(w).row /\ index[k].account = Source
    BY <1>1, <1>3, <2>2 DEF ListOK
  <2>4. First(w).row \in Row /\ First(w).row # None
    BY <1>1, TodoRest, RowFacts
  <2>5. b = index[k].content /\ b \in Nat
    BY <1>2, <1>3, <1>6, <2>3, <2>4, RowFacts DEF MaintInv, KeysInv, KeyOK
  <2>6. ASSUME NEW q, q.todo = work[w].todo, q.step = "put", q.counts = work[w].counts, q.body = b
        PROVE  /\ ListOK(q, index', blobs', job.kind)
               /\ CarryOK(q, index', replica', blobs', job.kind)
               /\ ProgressOK(q, index', replica', blobs', job.kind)
    <3>1. ListOK(q, index, blobs, job.kind)
      BY <1>1, <2>2, <2>6 DEF ListOK
    <3>2. CarryOK(q, index, replica, blobs, job.kind)
      BY <1>1, <1>3, <2>3, <2>5, <2>6 DEF CarryOK
    <3>3. ProgressOK(q, index, replica, blobs, job.kind)
      BY <2>2, <2>6 DEF ProgressOK
    <3>4. QED
      BY <1>1, <3>1, <3>2, <3>3
  <2> HIDE DEF b, k
  <2>7. QED
    BY <1>1, <1>4, <2>1, <2>5, <2>6, OntoInv
<1>7. QED
  BY <1>5, <1>6

LEMMA MigrateRefusedInv ==
  ASSUME MaintInv, NEW w \in Worker, MigrateRefused(w)
  PROVE  MaintInv'
<1> DEFINE k == First(w).key
<1>1. /\ At(w, "job") /\ work[w].step = "put" /\ job.kind \in Migration /\ Counted(w, 0, 1)
      /\ UNCHANGED <<index, replica, blobs, uploads>>
  BY DEF MigrateRefused, AtStep
<1>2. work[w].todo # {}
  BY <1>1, Runner DEF JobOK, CarryOK
<1>3. k \in Key
  BY <1>1, <1>2, TodoRest
<1>4. KeyStep(k)
  BY <1>1, <1>3, Frame
<1>5. CountStep(w, k, 0, 1)
  BY <1>1, <1>2, <1>4 DEF CountStep, Migration, Inventory
<1>6. QED
  BY <1>1, <1>5, CountInv

\* The object a migration has in hand, before its row is changed.
LEMMA InHand ==
  ASSUME MaintInv, NEW w \in Worker, At(w, "job"), work[w].step \in {"put", "index"}
  PROVE  /\ First(w) = Least(work[w].todo) /\ First(w).key \in Key /\ work[w].todo # {}
         /\ index[First(w).key] = First(w).row /\ First(w).row \in Row /\ First(w).row # None
         /\ First(w).row.account = Source /\ First(w).row.content = work[w].body
         /\ replica[First(w).key][Source] = None
         /\ work[w].body \in Nat /\ job.kind \in Migration
         /\ ListOK(work[w], index, blobs, job.kind)
         /\ CarryOK(work[w], index, replica, blobs, job.kind)
         /\ ProgressOK(work[w], index, replica, blobs, job.kind)
<1>1. work[w] \in JobReq /\ JobOK(work[w], index, replica, blobs, job)
  BY Runner
<1>2. /\ ListOK(work[w], index, blobs, job.kind)
      /\ CarryOK(work[w], index, replica, blobs, job.kind)
      /\ ProgressOK(work[w], index, replica, blobs, job.kind)
  BY <1>1 DEF JobOK
<1>3. /\ work[w].todo # {} /\ job.kind \in Migration /\ Least(work[w].todo).row.content = work[w].body
  BY <1>2 DEF CarryOK
<1>4. /\ First(w) = Least(work[w].todo) /\ First(w) \in work[w].todo
      /\ First(w).key \in Key /\ First(w).row \in Row
  BY <1>3, TodoRest
<1>5. index[First(w).key] = First(w).row /\ First(w).row.account = Source
  BY <1>2, <1>3, <1>4 DEF ListOK
<1>6. First(w).row # None /\ work[w].body \in Nat
  BY <1>1, <1>4, JobShape, RowFacts
<1>7. replica[First(w).key][Source] = None
  BY <1>4, <1>5, <1>6 DEF MaintInv, KeysInv, KeyOK
<1>8. QED
  BY <1>2, <1>3, <1>4, <1>5, <1>6, <1>7

LEMMA MigratePutInv ==
  ASSUME MaintInv, NEW w \in Worker, MigratePut(w)
  PROVE  MaintInv'
<1> DEFINE k == First(w).key
           b == work[w].body
<1>1. /\ At(w, "job") /\ work[w].step = "put" /\ Onto(w, "index", b) /\ job' = job
      /\ blobs' = Stored(k, Target, b) /\ UNCHANGED <<index, replica, uploads>>
  BY DEF MigratePut, AtStep
<1>2. /\ First(w) = Least(work[w].todo) /\ k \in Key /\ work[w].todo # {}
      /\ index[k] = First(w).row /\ index[k] # None /\ index[k].account = Source
      /\ index[k].content = b /\ b \in Nat /\ job.kind \in Migration
  BY <1>1, InHand
<1>3. /\ ListOK(work[w], index, blobs, job.kind)
      /\ CarryOK(work[w], index, replica, blobs, job.kind)
      /\ ProgressOK(work[w], index, replica, blobs, job.kind)
  BY <1>1, InHand
<1>4. MaintTypeOK /\ Target \in Account
  BY MaintenanceAssumption DEF MaintInv
<1>5. /\ blobs' \in [Account -> [Key -> Nat]] /\ blobs'[Target][k] = b
      /\ \A a \in Account, j \in Key : a # Target \/ j # k => blobs'[a][j] = blobs[a][j]
      /\ \A j \in Key : KeyOK(j, index[j], replica[j], blobs')
  BY <1>1, <1>2, <1>4, BlobFill
<1>6. KeyStep(k)
  BY <1>1, <1>4, <1>5 DEF KeyStep, MaintTypeOK
<1>7. job.kind # "repair" /\ job.kind \notin Inventory
  BY <1>2 DEF Migration, Inventory
<1>8. ASSUME NEW q, q.todo = work[w].todo, q.step = "index", q.counts = work[w].counts, q.body = b
      PROVE  /\ ListOK(q, index', blobs', job.kind)
             /\ CarryOK(q, index', replica', blobs', job.kind)
             /\ ProgressOK(q, index', replica', blobs', job.kind)
  <2>1. ListOK(q, index', blobs', job.kind)
    BY <1>1, <1>3, <1>7, <1>8 DEF ListOK
  <2>2. CarryOK(q, index', replica', blobs', job.kind)
    BY <1>1, <1>2, <1>3, <1>5, <1>8 DEF CarryOK
  <2>3. ProgressOK(q, index', replica', blobs', job.kind)
    BY <1>1, <1>3, <1>7, <1>8 DEF ProgressOK
  <2>4. QED
    BY <2>1, <2>2, <2>3
<1> HIDE DEF b, k
<1>9. QED
  BY <1>1, <1>2, <1>6, <1>8, OntoInv

\* A copy: the target's body is the object, so its replica has succeeded.
LEMMA CopyInv ==
  ASSUME MaintInv, NEW w \in Worker, MigrateIndex(w), job.kind = "copy"
  PROVE  MaintInv'
<1> DEFINE k == First(w).key
           b == work[w].body
           r == [status |-> "succeeded", attempts |-> 0, max |-> MaxAttempts, stored |-> TRUE]
<1>1. /\ At(w, "job") /\ work[w].step = "index" /\ Counted(w, 1, 0)
      /\ replica' = RowSet(k, Target, r) /\ UNCHANGED <<index, blobs, uploads>>
  <2>1. /\ At(w, "job") /\ work[w].step = "index" /\ Counted(w, 1, 0)
        /\ replica' = [replica EXCEPT ![k][Target] = r] /\ UNCHANGED <<index, blobs, uploads>>
    BY DEF MigrateIndex, AtStep
  <2>2. QED
    BY <2>1 DEF RowSet
<1>2. /\ First(w) = Least(work[w].todo) /\ k \in Key /\ work[w].todo # {}
      /\ index[k] = First(w).row /\ index[k] # None /\ index[k].account = Source
      /\ index[k].content = b /\ CarryOK(work[w], index, replica, blobs, job.kind)
  BY <1>1, InHand
<1>3. MaintTypeOK /\ Target \in Account /\ Source \in Account /\ Target # Source
  BY MaintenanceAssumption DEF MaintInv
<1>4. r \in ReplicaRow /\ Good(r)
  <2>1. r \in ReplicaRow /\ r.status = "succeeded"
    BY MaintenanceAssumption DEF ReplicaRow, Status
  <2>2. QED
    BY <2>1, RowFacts DEF Good
<1> HIDE DEF r
<1>5. /\ replica' \in [Key -> [Account -> ReplicaRow \cup {None}]]
      /\ replica'[k][Target] = r
      /\ \A a \in Account : a # Target => replica'[k][a] = replica[k][a]
      /\ \A j \in Key : j # k => replica'[j] = replica[j]
  BY <1>1, <1>2, <1>3, <1>4 DEF MaintTypeOK, RowSet
<1>6. blobs[Target][k] = index[k].content
  BY <1>1, <1>2 DEF CarryOK
<1>7. KeyOK(k, index[k], replica'[k], blobs)
  <2>1. KeyOK(k, index[k], replica[k], blobs)
    BY <1>2 DEF MaintInv, KeysInv
  <2>2. \A a \in Account : Good(replica'[k][a]) => Good(replica[k][a]) \/ blobs[a][k] = index[k].content
    BY <1>5, <1>6
  <2>3. \A a \in Account : Good(replica[k][a]) => Good(replica'[k][a])
    BY <1>4, <1>5
  <2>4. replica'[k][Source] = None
    BY <1>2, <1>3, <1>5, <2>1 DEF KeyOK
  <2>5. AllGood(replica[k]) => AllGood(replica'[k])
    BY <1>4, <1>5 DEF AllGood
  <2>6. QED
    BY <1>2, <2>1, <2>2, <2>3, <2>4, <2>5 DEF KeyOK
<1>8. ASSUME NEW j \in Key PROVE KeyOK(j, index'[j], replica'[j], blobs')
  <2>1. CASE j = k
    BY <1>1, <1>7, <2>1
  <2>2. CASE j # k
    BY <1>1, <1>5, <2>2 DEF MaintInv, KeysInv
  <2>3. QED
    BY <2>1, <2>2
<1>9. KeyStep(k)
  BY <1>1, <1>3, <1>5, <1>8 DEF KeyStep, MaintTypeOK
<1>10. KeyDone(k, index'[k], replica'[k], blobs', job.kind)
  BY <1>4, <1>5 DEF KeyDone, Inventory
<1>11. CountStep(w, k, 1, 0)
  BY <1>1, <1>2, <1>9, <1>10 DEF CountStep, Inventory
<1>12. QED
  BY <1>1, <1>11, CountInv

\* A move: the row names the target, which has the body.
LEMMA MoveInv ==
  ASSUME MaintInv, NEW w \in Worker, MigrateIndex(w), job.kind # "copy"
  PROVE  MaintInv'
<1> DEFINE k == First(w).key
           b == work[w].body
           o == First(w).row
           p == [o EXCEPT !.account = Target]
<1>1. /\ At(w, "job") /\ work[w].step = "index" /\ Onto(w, "delete", b) /\ job' = job
      /\ index' = [index EXCEPT ![k] = p] /\ UNCHANGED <<replica, blobs, uploads>>
  BY DEF MigrateIndex, AtStep
<1>2. /\ First(w) = Least(work[w].todo) /\ k \in Key /\ work[w].todo # {}
      /\ index[k] = o /\ o \in Row /\ o # None /\ o.account = Source /\ o.content = b
      /\ replica[k][Source] = None /\ b \in Nat /\ job.kind \in Migration
  BY <1>1, InHand
<1>3. /\ ListOK(work[w], index, blobs, job.kind)
      /\ CarryOK(work[w], index, replica, blobs, job.kind)
      /\ ProgressOK(work[w], index, replica, blobs, job.kind)
  BY <1>1, InHand
<1>4. /\ MaintTypeOK /\ Target \in Account /\ Source \in Account /\ Target # Source
      /\ job.kind = "move" /\ job.kind # "repair" /\ job.kind \notin Inventory
  BY <1>2, MaintenanceAssumption DEF MaintInv, Migration, Inventory
<1>5. p \in Row /\ p # None /\ p.account = Target /\ p.content = b /\ p.status = o.status
  <2>1. p \in Row /\ p.account = Target /\ p.content = b /\ p.status = o.status
    BY <1>2, <1>4 DEF Row
  <2>2. QED
    BY <2>1, RowFacts
<1>6. blobs[Target][k] = b
  BY <1>1, <1>2, <1>3 DEF CarryOK
<1> HIDE DEF p
<1>7. /\ index' \in [Key -> Row \cup {None}] /\ index'[k] = p
      /\ \A j \in Key : j # k => index'[j] = index[j]
  BY <1>1, <1>2, <1>4, <1>5 DEF MaintTypeOK
<1>8. KeyOK(k, p, replica[k], blobs)
  <2>1. KeyOK(k, o, replica[k], blobs)
    BY <1>2 DEF MaintInv, KeysInv
  <2>2. ~Good(replica[k][Source])
    BY <1>2 DEF Good
  <2>3. /\ b # 0 /\ \A a \in Account : Good(replica[k][a]) => blobs[a][k] = b
    BY <1>2, <2>1, <2>2 DEF KeyOK
  <2>4. o.status = "completed" => AllGood(replica[k])
    BY <1>2, <2>1 DEF KeyOK
  <2>5. QED
    BY <1>4, <1>5, <1>6, <2>3, <2>4 DEF KeyOK
<1>9. ASSUME NEW j \in Key PROVE KeyOK(j, index'[j], replica'[j], blobs')
  <2>1. CASE j = k
    BY <1>1, <1>7, <1>8, <2>1
  <2>2. CASE j # k
    BY <1>1, <1>7, <2>2 DEF MaintInv, KeysInv
  <2>3. QED
    BY <2>1, <2>2
<1>10. KeyStep(k)
  BY <1>1, <1>4, <1>7, <1>9 DEF KeyStep, MaintTypeOK
<1>11. ASSUME NEW q, q.todo = work[w].todo, q.step = "delete", q.counts = work[w].counts, q.body = b
       PROVE  /\ ListOK(q, index', blobs', job.kind)
              /\ CarryOK(q, index', replica', blobs', job.kind)
              /\ ProgressOK(q, index', replica', blobs', job.kind)
  <2>1. ListOK(q, index', blobs', job.kind)
    <3>1. ASSUME NEW x \in q.todo, x # Least(q.todo)
          PROVE  index'[x.key] = x.row /\ x.row.account = Source
      <4>1. x \in Rest(w)
        BY <1>2, <1>11, <3>1 DEF Rest
      <4>2. x.key \in Key /\ x.key # k
        BY <1>1, <1>2, <4>1, TodoRest
      <4>3. index[x.key] = x.row /\ x.row.account = Source
        BY <1>1, <1>2, <1>3, <1>11, <3>1 DEF ListOK
      <4>4. QED
        BY <1>7, <4>2, <4>3
    <3>2. \A x, y \in q.todo : x.key = y.key => x = y
      BY <1>3, <1>11 DEF ListOK
    <3>3. QED
      BY <1>4, <1>11, <3>1, <3>2 DEF ListOK
  <2>2. CarryOK(q, index', replica', blobs', job.kind)
    BY <1>1, <1>2, <1>4, <1>6, <1>7, <1>11 DEF CarryOK, p
  <2>3. ProgressOK(q, index', replica', blobs', job.kind)
    <3>1. \A j \in Key : index'[j] # None /\ index'[j].account = Source =>
            index[j] # None /\ index[j].account = Source
      BY <1>4, <1>5, <1>7
    <3>2. QED
      BY <1>1, <1>3, <1>4, <1>11, <3>1 DEF ProgressOK
  <2>4. QED
    BY <2>1, <2>2, <2>3
<1>12. /\ b \in Nat /\ At(w, "job") /\ work[w].step # "start" /\ Onto(w, "delete", b)
       /\ job' = job
  BY <1>1, <1>2
<1> HIDE DEF b, k, o
<1>13. QED
  BY <1>10, <1>11, <1>12, OntoInv

\* The source's body goes once the row names the target: nothing needs it.
LEMMA MigrateDeleteInv ==
  ASSUME MaintInv, NEW w \in Worker, NEW refused \in BOOLEAN, MigrateDelete(w, refused)
  PROVE  MaintInv'
<1> DEFINE k == First(w).key
           b == work[w].body
           o == First(w).row
<1>1. /\ At(w, "job") /\ work[w].step = "delete" /\ Counted(w, 1, 0)
      /\ blobs' = IF refused THEN blobs ELSE Stored(k, Source, 0)
      /\ UNCHANGED <<index, replica, uploads>>
  BY DEF MigrateDelete, AtStep
<1>2. work[w] \in JobReq /\ JobOK(work[w], index, replica, blobs, job)
  BY <1>1, Runner
<1>3. CarryOK(work[w], index, replica, blobs, job.kind)
  BY <1>1, <1>2 DEF JobOK
<1>4. work[w].todo # {} /\ job.kind = "move"
  BY <1>1, <1>3 DEF CarryOK
<1>5. First(w) = Least(work[w].todo) /\ k \in Key /\ o \in Row
  BY <1>1, <1>4, TodoRest
<1>6. /\ replica[k][Source] = None /\ index[k] = [o EXCEPT !.account = Target]
      /\ o.content = b /\ blobs[Target][k] = b
  BY <1>1, <1>3, <1>5 DEF CarryOK
<1>7. MaintTypeOK /\ Target \in Account /\ Source \in Account /\ Target # Source
  BY MaintenanceAssumption DEF MaintInv
<1>8. index[k].account = Target /\ index[k].content = b /\ index[k] # None
  <2>1. index[k] \in Row /\ index[k].account = Target /\ index[k].content = b
    BY <1>5, <1>6, <1>7 DEF Row
  <2>2. QED
    BY <2>1, RowFacts
<1>9. /\ blobs' \in [Account -> [Key -> Nat]]
      /\ \A a \in Account, j \in Key : a # Source \/ j # k => blobs'[a][j] = blobs[a][j]
  <2>1. CASE refused
    BY <1>1, <1>7, <2>1 DEF MaintTypeOK
  <2>2. CASE ~refused
    BY <1>1, <1>5, <1>7, <2>2, StoredIs
  <2>3. QED
    BY <2>1, <2>2
<1>10. ASSUME NEW j \in Key PROVE KeyOK(j, index[j], replica[j], blobs')
  <2>1. KeyOK(j, index[j], replica[j], blobs)
    BY DEF MaintInv, KeysInv
  <2>2. CASE j = k
    <3>1. ~Good(replica[k][Source])
      BY <1>6 DEF Good
    <3>2. blobs'[Target][k] = b
      BY <1>5, <1>6, <1>7, <1>9
    <3>3. \A a \in Account : Good(replica[k][a]) => blobs'[a][k] = blobs[a][k]
      BY <1>5, <1>9, <3>1
    <3>4. QED
      BY <1>7, <1>8, <2>1, <2>2, <3>2, <3>3 DEF KeyOK
  <2>3. CASE j # k
    BY <1>7, <1>9, <2>1, <2>3, KeyFrame
  <2>4. QED
    BY <2>2, <2>3
<1>11. KeyStep(k)
  BY <1>1, <1>7, <1>9, <1>10 DEF KeyStep, MaintTypeOK
<1>12. KeyDone(k, index'[k], replica'[k], blobs', job.kind)
  BY <1>1, <1>4, <1>7, <1>8 DEF KeyDone, Inventory
<1>13. CountStep(w, k, 1, 0)
  BY <1>1, <1>4, <1>11, <1>12 DEF CountStep, Inventory
<1>14. QED
  BY <1>1, <1>13, CountInv

LEMMA MigrateIndexInv ==
  ASSUME MaintInv, NEW w \in Worker, MigrateIndex(w)
  PROVE  MaintInv'
BY CopyInv, MoveInv

LEMMA RepairReadInv ==
  ASSUME MaintInv, NEW w \in Worker, RepairRead(w)
  PROVE  MaintInv'
<1> DEFINE k == First(w).key
           n == work[w].counts
           todo == work[w].todo
           seen == work[w].seen
<1>1. /\ At(w, "job") /\ work[w].step = "next" /\ todo # {} /\ job.kind = "repair"
      /\ UNCHANGED <<index, replica, blobs, uploads>>
  BY DEF RepairRead, HasNext, AtStep
<1>2. /\ MaintTypeOK /\ KeysInv /\ work[w] \in JobReq /\ n \in Counts /\ job \in Job
      /\ JobOK(work[w], index, replica, blobs, job)
  BY <1>1, Runner DEF MaintInv
<1>3. /\ First(w) = Least(todo) /\ k \in Key /\ todo \in SUBSET Item /\ seen \in SUBSET Key
  BY <1>1, TodoRest
<1>4. KeyStep(k)
  BY <1>1, <1>3, Frame
<1>5. job.kind \notin Migration /\ job.kind \notin Inventory
  BY <1>1 DEF Migration, Inventory
<1>6. CASE Counted(w, 0, 1)
  <2>1. CountStep(w, k, 0, 1)
    BY <1>1, <1>4, <1>5 DEF CountStep
  <2>2. QED
    BY <1>1, <1>6, <2>1, CountInv
<1>7. CASE index[k] # None /\ blobs[index[k].account][k] # 0 /\ Counted(w, 0, 0)
  <2>1. blobs[index[k].account][k] = index[k].content
    BY <1>2, <1>3, <1>7 DEF KeysInv, KeyOK
  <2>2. KeyDone(k, index'[k], replica'[k], blobs', job.kind)
    BY <1>1, <1>5, <2>1 DEF KeyDone
  <2>3. CountStep(w, k, 0, 0)
    BY <1>1, <1>4, <1>5, <2>2 DEF CountStep
  <2>4. QED
    BY <1>1, <1>7, <2>3, CountInv
<1>8. CASE index[k] # None /\ blobs[index[k].account][k] = 0
  <2>1. FromReplica(k) = {index[k].content}
    BY <1>2, <1>3, <1>8, ServedIsContent
  <2> DEFINE o == index[k]
             c == index[k].content
             q == [op |-> "job", step |-> "restore", counts |-> n, todo |-> todo, seen |-> seen,
                   body |-> c, row |-> o]
  <2>2. work' = [work EXCEPT ![w] = q] /\ job' = job
    BY <1>8, <2>1 DEF RepairRead, Becomes
  <2>3. o \in Row /\ c \in Nat
    BY <1>2, <1>3, <1>8, RowFacts DEF MaintTypeOK
  <2> HIDE DEF n, todo, seen, o, c
  <2>4. /\ q \in JobReq /\ q.todo = todo /\ q.step = "restore" /\ q.counts = n
        /\ q.body = c /\ q.row = o
    BY <1>2, <1>3, <2>3 DEF JobReq, RestoreReq
  <2> HIDE DEF q
  <2>5. /\ ListOK(work[w], index, blobs, job.kind)
        /\ ProgressOK(work[w], index, replica, blobs, job.kind)
    BY <1>1, <1>2 DEF JobOK
  <2>6. ListOK(q, index, blobs, job.kind)
    BY <1>5, <2>4, <2>5 DEF ListOK, todo
  <2>7. CarryOK(q, index, replica, blobs, job.kind)
    BY <1>1, <1>3, <1>8, <2>4 DEF CarryOK, o, c
  <2>8. ProgressOK(q, index, replica, blobs, job.kind)
    BY <1>5, <2>4, <2>5 DEF ProgressOK, todo, n
  <2>9. JobOK(q, index', replica', blobs', job')
    BY <1>1, <1>2, <2>2, <2>4, <2>6, <2>7, <2>8 DEF JobOK
  <2>10. job' \in Job
    BY <1>2, <2>2
  <2>11. QED
    BY <1>1, <1>4, <2>2, <2>4, <2>9, <2>10, RunnerMoves DEF KeyStep
<1>9. \/ Counted(w, 0, 1)
      \/ index[k] # None /\ blobs[index[k].account][k] # 0 /\ Counted(w, 0, 0)
      \/ index[k] # None /\ blobs[index[k].account][k] = 0
  BY DEF RepairRead
<1>10. QED
  BY <1>6, <1>7, <1>8, <1>9

\* The body of a replica is the object, and goes where its row says.
LEMMA RepairWriteInv ==
  ASSUME MaintInv, NEW w \in Worker, NEW refused \in BOOLEAN, RepairWrite(w, refused)
  PROVE  MaintInv'
<1> DEFINE k == First(w).key
           o == work[w].row
<1>1. /\ At(w, "job") /\ work[w].step = "restore" /\ UNCHANGED <<replica, uploads>>
      /\ blobs' = IF refused THEN blobs ELSE Stored(k, o.account, work[w].body)
      /\ index' = IF refused THEN index ELSE [index EXCEPT ![k] = o]
      /\ refused => Counted(w, 0, 1)
      /\ ~refused => Counted(w, 1, 0)
  BY DEF RepairWrite, AtStep
<1>2. MaintTypeOK /\ work[w] \in JobReq /\ JobOK(work[w], index, replica, blobs, job)
  BY <1>1, Runner
<1>3. CarryOK(work[w], index, replica, blobs, job.kind)
  BY <1>1, <1>2 DEF JobOK
<1>4. work[w].todo # {} /\ job.kind = "repair"
  BY <1>1, <1>3 DEF CarryOK
<1>5. First(w) = Least(work[w].todo) /\ k \in Key
  BY <1>1, <1>4, TodoRest
<1>6. index[k] = o /\ o # None /\ work[w].body = o.content
  BY <1>1, <1>3, <1>5 DEF CarryOK
<1>7. job.kind \notin Migration /\ job.kind \notin Inventory
  BY <1>4 DEF Migration, Inventory
<1>8. index' = index
  BY <1>1, <1>2, <1>5, <1>6 DEF MaintTypeOK
<1>9. CASE refused
  <2>1. KeyStep(k)
    BY <1>1, <1>5, <1>8, <1>9, Frame
  <2>2. CountStep(w, k, 0, 1)
    BY <1>1, <1>4, <1>7, <2>1 DEF CountStep
  <2>3. QED
    BY <1>1, <1>9, <2>2, CountInv
<1>10. CASE ~refused
  <2>1. o.account \in Account
    BY <1>2, <1>5, <1>6, RowFacts DEF MaintTypeOK
  <2>2. blobs' = Stored(k, o.account, index[k].content)
    BY <1>1, <1>6, <1>10
  <2>3. /\ blobs' \in [Account -> [Key -> Nat]] /\ blobs'[o.account][k] = index[k].content
        /\ \A a \in Account, j \in Key : a # o.account \/ j # k => blobs'[a][j] = blobs[a][j]
        /\ \A j \in Key : KeyOK(j, index[j], replica[j], blobs')
    BY <1>5, <1>6, <2>1, <2>2, BlobFill
  <2>4. KeyStep(k)
    BY <1>1, <1>2, <1>8, <2>1, <2>3 DEF KeyStep, MaintTypeOK
  <2>5. KeyDone(k, index'[k], replica'[k], blobs', job.kind)
    BY <1>6, <1>7, <1>8, <2>3 DEF KeyDone
  <2>6. CountStep(w, k, 1, 0)
    BY <1>1, <1>4, <1>7, <2>4, <2>5 DEF CountStep
  <2>7. QED
    BY <1>1, <1>10, <2>6, CountInv
<1>11. QED
  BY <1>9, <1>10

\* A body that is listed becomes an object, or is the object already.
LEMMA ImportInv ==
  ASSUME MaintInv, NEW w \in Worker, ImportObject(w)
  PROVE  MaintInv'
<1> DEFINE k == First(w).key
           o == First(w).row
           good == IF index[k] = None THEN 1 ELSE 0
<1>1. /\ At(w, "job") /\ work[w].step = "next" /\ work[w].todo # {} /\ job.kind \in Inventory
      /\ index' = IF index[k] # None /\ index[k].account # Source THEN index
                  ELSE [index EXCEPT ![k] = o]
      /\ Counted(w, good, 0) /\ UNCHANGED <<replica, blobs, uploads>>
  BY DEF ImportObject, HasNext, AtStep
<1>2. MaintTypeOK /\ work[w] \in JobReq /\ JobOK(work[w], index, replica, blobs, job)
  BY <1>1, Runner
<1>3. First(w) \in work[w].todo /\ k \in Key /\ o \in Row /\ o # None
  BY <1>1, TodoRest, RowFacts
<1>4. blobs[Source][k] # 0 /\ o = RemoteRow(k)
  <2>1. ListOK(work[w], index, blobs, job.kind)
    BY <1>1, <1>2 DEF JobOK
  <2>2. QED
    BY <1>1, <1>3, <2>1 DEF ListOK, RemoteRow
<1>5. o.account = Source /\ o.content = blobs[Source][k] /\ o.status = "none" /\ Source \in Account
  BY <1>4, MaintenanceAssumption DEF RemoteRow
<1> HIDE DEF o
<1>6. /\ index' \in [Key -> Row \cup {None}] /\ index'[k] # None
      /\ index'[k] = IF index[k] # None /\ index[k].account # Source THEN index[k] ELSE o
      /\ \A j \in Key : j # k => index'[j] = index[j]
  BY <1>1, <1>2, <1>3 DEF MaintTypeOK
<1>7. KeyOK(k, index'[k], replica[k], blobs)
  <2>1. KeyOK(k, index[k], replica[k], blobs)
    BY <1>3 DEF MaintInv, KeysInv
  <2>2. CASE index[k] = None
    <3>1. \A a \in Account : replica[k][a] = None
      BY <2>1, <2>2 DEF KeyOK
    <3>2. index'[k] = o
      BY <1>6, <2>2
    <3>3. QED
      BY <1>3, <1>4, <1>5, <3>1, <3>2 DEF KeyOK, Good
  <2>3. CASE index[k] # None /\ index[k].account = Source
    <3>1. index'[k] = o /\ o.content = index[k].content
      BY <1>4, <1>5, <1>6, <2>1, <2>3 DEF KeyOK
    <3>2. QED
      BY <1>3, <1>4, <1>5, <2>1, <2>3, <3>1 DEF KeyOK
  <2>4. CASE index[k] # None /\ index[k].account # Source
    BY <1>6, <2>1, <2>4
  <2>5. QED
    BY <2>2, <2>3, <2>4
<1>8. ASSUME NEW j \in Key PROVE KeyOK(j, index'[j], replica'[j], blobs')
  <2>1. CASE j = k
    BY <1>1, <1>7, <2>1
  <2>2. CASE j # k
    BY <1>1, <1>6, <2>2 DEF MaintInv, KeysInv
  <2>3. QED
    BY <2>1, <2>2
<1>9. KeyStep(k)
  BY <1>1, <1>2, <1>6, <1>8 DEF KeyStep, MaintTypeOK
<1>10. job.kind \notin Migration /\ job.kind # "repair" /\ good \in {0, 1}
  BY <1>1 DEF Migration, Inventory
<1>11. KeyDone(k, index'[k], replica'[k], blobs', job.kind)
  BY <1>6, <1>10 DEF KeyDone
<1> HIDE DEF good
<1>12. CountStep(w, k, good, 0)
  BY <1>1, <1>9, <1>10, <1>11 DEF CountStep
<1>13. QED
  BY <1>1, <1>12, CountInv

LEMMA SavePageInv ==
  ASSUME MaintInv, NEW w \in Worker, SavePage(w)
  PROVE  MaintInv'
<1> DEFINE n == work[w].counts
           q == [work[w] EXCEPT !.step = "finish"]
<1>1. /\ At(w, "job") /\ work[w].step = "next" /\ work[w].todo = {}
      /\ job' = [job EXCEPT !.counts = n, !.status = "running"]
      /\ work' = [work EXCEPT ![w] = q] /\ UNCHANGED <<index, replica, blobs, uploads>>
  BY DEF SavePage, AtStep, Becomes
<1>2. /\ MaintTypeOK /\ work[w] \in JobReq /\ n \in Counts /\ job \in Job
      /\ JobOK(work[w], index, replica, blobs, job)
  BY <1>1, Runner
<1>3. work[w] \in NextReq
  BY <1>1, <1>2, JobShape
<1>4. q \in NextReq /\ q.todo = {} /\ q.counts = n /\ q.step = "finish"
  BY <1>1, <1>3 DEF NextReq
<1> HIDE DEF n
<1>5. job' \in Job /\ job'.status = "running" /\ job'.kind = job.kind /\ job' # None
  BY <1>1, <1>2, RowFacts DEF Job
<1>6. /\ ListOK(work[w], index, blobs, job.kind)
      /\ ProgressOK(work[w], index, replica, blobs, job.kind)
  BY <1>1, <1>2 DEF JobOK
<1> HIDE DEF q
<1>7. ListOK(q, index, blobs, job.kind)
  BY <1>4 DEF ListOK
<1>8. CarryOK(q, index, replica, blobs, job.kind)
  BY <1>4 DEF CarryOK
<1>9. ProgressOK(q, index, replica, blobs, job.kind)
  BY <1>1, <1>4, <1>6 DEF ProgressOK, n
<1>10. JobOK(q, index', replica', blobs', job')
  BY <1>1, <1>4, <1>5, <1>7, <1>8, <1>9 DEF JobOK
<1>11. /\ index' \in [Key -> Row \cup {None}]
       /\ replica' \in [Key -> [Account -> ReplicaRow \cup {None}]]
       /\ blobs' \in [Account -> [Key -> Nat]]
       /\ \A k \in Key : KeyOK(k, index'[k], replica'[k], blobs')
  BY <1>1, <1>2 DEF MaintInv, MaintTypeOK, KeysInv
<1>12. q \in JobReq
  BY <1>4 DEF JobReq
<1>13. QED
  BY <1>1, <1>5, <1>10, <1>11, <1>12, RunnerMoves

\* The counters a job ends with.
FinalCounts(w) ==
  [work[w].counts EXCEPT !.bad =
     IF job.kind = "reconcile" THEN @ + Cardinality(Missing(w)) ELSE @]

LEMMA FinalJob ==
  ASSUME MaintInv, NEW w \in Worker, FinishJob(w)
  PROVE  /\ At(w, "job") /\ work[w].step = "finish" /\ work' = [work EXCEPT ![w] = Idle]
         /\ UNCHANGED <<index, replica, blobs, uploads>>
         /\ FinalCounts(w) \in Counts /\ job' \in Job /\ job'.kind = job.kind
         /\ job'.counts = FinalCounts(w) /\ job'.status = FinalStatus(FinalCounts(w))
         /\ job'.status \in {"completed", "failed"}
         /\ job.kind # "reconcile" => FinalCounts(w) = work[w].counts
<1> DEFINE n == FinalCounts(w)
           old == work[w].counts
<1>1. /\ At(w, "job") /\ work[w].step = "finish" /\ work' = [work EXCEPT ![w] = Idle]
      /\ job' = [job EXCEPT !.counts = n, !.status = FinalStatus(n)]
      /\ UNCHANGED <<index, replica, blobs, uploads>>
  BY DEF FinishJob, AtStep, Becomes, FinalCounts
<1>2. old \in Counts /\ job \in Job
  BY <1>1, Runner
<1>3. Missing(w) \subseteq Key /\ IsFiniteSet(Key)
  BY MaintenanceAssumption DEF Missing
<1>4. Cardinality(Missing(w)) \in Nat
  BY <1>3, FS_Subset, FS_CardinalityType
<1>5. old.bad \in Nat
  BY <1>2 DEF Counts
<1>6. PICK x \in Nat : x = IF job.kind = "reconcile" THEN old.bad + Cardinality(Missing(w))
                            ELSE old.bad
  BY <1>4, <1>5
<1>7. n = [old EXCEPT !.bad = x] /\ (job.kind # "reconcile" => x = old.bad)
  BY <1>6 DEF FinalCounts
<1> HIDE DEF n, old
<1>8. n \in Counts /\ (job.kind # "reconcile" => n = old)
  BY <1>2, <1>7 DEF Counts
<1>9. FinalStatus(n) \in {"completed", "failed"}
  BY DEF FinalStatus
<1>10. job' \in Job /\ job'.kind = job.kind /\ job'.counts = n /\ job'.status = FinalStatus(n)
  BY <1>1, <1>2, <1>8, <1>9 DEF Job
<1>11. QED
  BY <1>1, <1>8, <1>9, <1>10 DEF n, old

LEMMA FinishInv ==
  ASSUME MaintInv, NEW w \in Worker, FinishJob(w)
  PROVE  MaintInv'
<1>1. /\ work[w].op = "job" /\ work' = [work EXCEPT ![w] = Idle]
      /\ UNCHANGED <<index, replica, blobs, uploads>>
      /\ job' \in Job /\ job'.status # "pending"
  BY FinalJob DEF At
<1>2. QED
  BY <1>1, StopsInv

LEMMA FailInv ==
  ASSUME MaintInv, NEW w \in Worker, NEW steps, FailAt(w, steps)
  PROVE  MaintInv' /\ job'.status = "failed"
<1>1. /\ At(w, "job") /\ work' = [work EXCEPT ![w] = Idle]
      /\ job' = [job EXCEPT !.counts = work[w].counts, !.status = "failed"]
      /\ UNCHANGED <<index, replica, blobs, uploads>>
  BY DEF FailAt, Becomes
<1>2. work[w].counts \in Counts /\ job \in Job /\ work[w].op = "job"
  BY <1>1, Runner
<1>3. job' \in Job /\ job'.status = "failed"
  BY <1>1, <1>2 DEF Job
<1>4. MaintInv'
  BY <1>1, <1>2, <1>3, StopsInv
<1>5. QED
  BY <1>3, <1>4

LEMMA RunJobInv ==
  ASSUME MaintInv, NEW w \in Worker, RunJob(w)
  PROVE  MaintInv'
<1>1. CASE FailMigrationJob(w) \/ FailRepairJob(w) \/ FailInventoryJob(w)
  BY <1>1, FailInv DEF FailMigrationJob, FailRepairJob, FailInventoryJob
<1>2. CASE \E refused \in BOOLEAN : MigrateDelete(w, refused) \/ RepairWrite(w, refused)
  BY <1>2, MigrateDeleteInv, RepairWriteInv
<1>3. CASE ListWork(w) \/ SavePage(w) \/ FinishJob(w)
  BY <1>3, ListWorkInv, SavePageInv, FinishInv
<1>4. CASE MigrateRead(w) \/ MigrateRefused(w) \/ MigratePut(w) \/ MigrateIndex(w)
  BY <1>4, MigrateReadInv, MigrateRefusedInv, MigratePutInv, MigrateIndexInv
<1>5. CASE RepairRead(w) \/ ImportObject(w)
  BY <1>5, RepairReadInv, ImportInv
<1>6. QED
  BY <1>1, <1>2, <1>3, <1>4, <1>5 DEF RunJob

-----------------------------------------------------------------------------
(* The invariant, and what a completed job has done.                       *)

LEMMA InitInv ==
  ASSUME MaintInit
  PROVE  MaintInv
<1>1. /\ \A k \in Key : index[k] = None
      /\ \A k \in Key, a \in Account : replica[k][a] = None
      /\ job = None /\ \A w \in Worker : work[w] = Idle
  BY DEF MaintInit, NoReplicas
<1>2. MaintTypeOK
  <2>1. MaxUpload + 1 \in Nat
    BY MaintenanceAssumption
  <2>2. index \in [Key -> Row \cup {None}] /\ job \in Job \cup {None} /\ uploads \in Nat
    BY DEF MaintInit
  <2>3. replica \in [Key -> [Account -> ReplicaRow \cup {None}]]
    BY DEF MaintInit, NoReplicas
  <2>4. blobs \in [Account -> [Key -> Nat]]
    BY <2>1 DEF MaintInit
  <2>5. work \in [Worker -> {Idle} \cup ReplicaReq \cup JobReq]
    BY DEF MaintInit
  <2>6. QED
    BY <2>2, <2>3, <2>4, <2>5 DEF MaintTypeOK
<1>3. KeysInv
  BY <1>1 DEF KeysInv, KeyOK
<1>4. HoldsInv /\ JobsInv
  <2>1. \A w \in Worker : work[w].op = "idle"
    BY <1>1 DEF Idle
  <2>2. QED
    BY <1>1, <2>1 DEF HoldsInv, JobsInv, Replicating, SameRow, Busy
<1>5. QED
  BY <1>2, <1>3, <1>4 DEF MaintInv

LEMMA StutterInv ==
  ASSUME MaintInv, UNCHANGED maintVars
  PROVE  MaintInv'
<1>1. /\ UNCHANGED <<index, replica, blobs, uploads>> /\ work' = work /\ job' = job
  BY DEF maintVars
<1>2. /\ work' \in [Worker -> {Idle} \cup ReplicaReq \cup JobReq] /\ job' \in Job \cup {None}
      /\ job' # None /\ job'.kind \in Migration /\ job'.status = "pending"
           => job'.counts = NoCounts
      /\ \A w \in Worker : work'[w].op = "job" =>
           /\ JobOK(work'[w], index, replica, blobs, job')
           /\ \A v \in Worker \ {w} : work'[v] = Idle
  BY <1>1 DEF MaintInv, MaintTypeOK, JobsInv
<1>3. QED
  BY <1>1, <1>2, JobMoves

LEMMA ClaimInv ==
  ASSUME Orderly, MaintInv, NEW w \in Worker, Claim(w)
  PROVE  MaintInv'
<1>1. CASE ClaimNextMigrationJob(w) \/ ClaimNextRepairJob(w) \/ ClaimNextInventoryJob(w)
  BY <1>1, ClaimJobInv DEF ClaimNextMigrationJob, ClaimNextRepairJob, ClaimNextInventoryJob
<1>2. CASE \E k \in Key, a \in Account : ClaimNextObjectReplica(w, k, a)
  BY <1>2, ClaimReplicaInv
<1>3. QED
  BY <1>1, <1>2 DEF Claim

LEMMA NextInv ==
  ASSUME Orderly, MaintInv, [MaintNext]_maintVars
  PROVE  MaintInv'
<1>1. CASE \E k \in Key : DeleteObject(k) \/ LoseBody(k) \/ \E a \in Account : PutObject(k, a)
  BY <1>1, DeleteInv, LoseInv, PutInv
<1>2. CASE \/ \E kind \in JobInput : CreateMigrationJob(kind) \/ CreateInventoryJob(kind)
           \/ CreateRepairJob
  BY <1>2, CreateInv DEF CreateMigrationJob, CreateInventoryJob, CreateRepairJob
<1>3. CASE \E w \in Worker : Claim(w) \/ Replicate(w) \/ RunJob(w) \/ Crash(w)
  BY <1>3, ClaimInv, ReplicateInv, RunJobInv, CrashInv
<1>4. CASE Recover
  BY <1>4, RecoverJobInv, RecoverReplicaInv DEF Recover
<1>5. CASE UNCHANGED maintVars
  BY <1>5, StutterInv
<1>6. QED
  BY <1>1, <1>2, <1>3, <1>4, <1>5 DEF MaintNext

\* No other step than the end of its run reports a job as completed.
LEMMA OnlyFinish ==
  ASSUME MaintInv, MaintNext, job # None, job.status # "completed", job'.status = "completed"
  PROVE  \E w \in Worker : FinishJob(w)
<1>1. job \in Job /\ job' # job
  BY DEF MaintInv, MaintTypeOK
<1>2. ASSUME NEW j, NEW n, j = [job EXCEPT !.status = "running", !.counts = n]
      PROVE  j.status = "running"
  BY <1>1, <1>2 DEF Job
<1>3. ~\E k \in Key : DeleteObject(k) \/ LoseBody(k) \/ \E a \in Account : PutObject(k, a)
  BY <1>1 DEF DeleteObject, LoseBody, PutObject
<1>4. /\ ~\E kind \in JobInput : CreateMigrationJob(kind) \/ CreateInventoryJob(kind)
      /\ ~CreateRepairJob
  BY DEF CreateMigrationJob, CreateInventoryJob, CreateRepairJob, CreateJob
<1>5. ASSUME NEW w \in Worker, Claim(w) PROVE FALSE
  <2>1. ASSUME NEW kinds, ClaimJob(w, kinds) PROVE FALSE
    BY <1>1, <2>1 DEF ClaimJob, Job
  <2>2. ~\E k \in Key, a \in Account : ClaimNextObjectReplica(w, k, a)
    BY <1>1 DEF ClaimNextObjectReplica
  <2>3. QED
    BY <1>5, <2>1, <2>2 DEF Claim, ClaimNextMigrationJob, ClaimNextRepairJob,
                            ClaimNextInventoryJob
<1>6. ASSUME NEW w \in Worker, Replicate(w) \/ Crash(w) PROVE FALSE
  BY <1>1, <1>6 DEF Replicate, ReadSource, PutAndVerify, MarkSucceeded, ProviderRefuses,
                    FailObjectReplica, FailObjectReplicaPermanently, ListReplicas,
                    RefreshObjectReplicaStatus, Crash
<1>7. ~Recover
  <2>1. ASSUME NEW kinds, NEW n, RecoverJob(kinds, n) PROVE FALSE
    BY <1>1, <2>1 DEF RecoverJob, Job
  <2>2. ~\E k \in Key, a \in Account : RecoverStaleObjectReplicas(k, a)
    BY <1>1 DEF RecoverStaleObjectReplicas
  <2>3. QED
    BY <2>1, <2>2 DEF Recover, RecoverStaleMigrationJobs, RecoverStaleRepairJobs,
                      RecoverStaleInventoryJobs
<1>8. ASSUME NEW w \in Worker, RunJob(w) PROVE FinishJob(w)
  <2>1. ASSUME NEW good, NEW bad, Counted(w, good, bad) PROVE FALSE
    <3>1. \/ job' = job
          \/ \E n : job' = [job EXCEPT !.counts = n, !.status = "running"]
      BY <2>1 DEF Counted
    <3>2. QED
      BY <1>1, <3>1 DEF Job
  <2>2. ~ListWork(w)
    <3>1. ListWork(w) => \/ job' = job
                         \/ \E n : job' = [job EXCEPT !.status = "running", !.counts = n]
      BY DEF ListWork
    <3>2. QED
      BY <1>1, <1>2, <3>1
  <2>3. ~SavePage(w)
    BY <1>1 DEF SavePage, Job
  <2>4. ~(FailMigrationJob(w) \/ FailRepairJob(w) \/ FailInventoryJob(w))
    BY FailInv DEF FailMigrationJob, FailRepairJob, FailInventoryJob
  <2>5. ~(MigrateRead(w) \/ MigrateRefused(w) \/ MigratePut(w) \/ MigrateIndex(w))
    BY <1>1, <2>1 DEF MigrateRead, MigrateRefused, MigratePut, MigrateIndex
  <2>6. ~\E refused \in BOOLEAN : MigrateDelete(w, refused) \/ RepairWrite(w, refused)
    BY <2>1 DEF MigrateDelete, RepairWrite
  <2>7. ~(RepairRead(w) \/ ImportObject(w))
    BY <1>1, <2>1 DEF RepairRead, ImportObject
  <2>8. QED
    BY <1>8, <2>2, <2>3, <2>4, <2>5, <2>6, <2>7 DEF RunJob
<1>9. QED
  BY <1>3, <1>4, <1>5, <1>6, <1>7, <1>8 DEF MaintNext

\* The end of a run: the list is empty, so what is left to do is nothing.
LEMMA FinishIsDone ==
  ASSUME MaintInv, NEW w \in Worker, FinishJob(w), job'.status = "completed"
  PROVE  /\ Done'
         /\ job.kind \in Migration =>
              job'.counts = [total |-> job'.counts.total, done |-> job'.counts.total,
                             good |-> job'.counts.total, bad |-> 0]
<1> DEFINE q == work[w]
           n == FinalCounts(w)
<1>1. /\ At(w, "job") /\ q.step = "finish" /\ UNCHANGED <<index, replica, blobs>>
      /\ n \in Counts /\ job'.kind = job.kind /\ job'.counts = n
      /\ FinalStatus(n) = "completed" /\ (job.kind # "reconcile" => n = q.counts)
  BY FinalJob
<1>2. /\ job \in Job /\ JobOK(q, index, replica, blobs, job)
  BY <1>1, Runner
<1>3. ProgressOK(q, index, replica, blobs, job.kind) /\ q.todo = {}
  BY <1>1, <1>2 DEF JobOK, CarryOK
<1>4. Keys(q.todo) = {} /\ Cardinality(q.todo) = 0
  BY <1>3, FS_EmptySet DEF Keys
<1>5. n.total \in Nat /\ n.done \in Nat /\ n.good \in Nat /\ n.bad \in Nat
  BY <1>1 DEF Counts
<1>6. CASE job.kind \in Migration
  <2>1. n = q.counts /\ n.bad = 0 /\ job.kind \in {"copy", "move"}
    BY <1>1, <1>5, <1>6 DEF FinalStatus, Migration
  <2>2. /\ q.counts.total = q.counts.done + Cardinality(q.todo)
        /\ q.counts.done = q.counts.good + q.counts.bad
        /\ \A k \in Key : index[k] # None /\ index[k].account = Source =>
              job.kind = "copy" /\ Good(replica[k][Target])
    BY <1>3, <1>4, <1>6, <2>1 DEF ProgressOK
  <2>3. n.done = n.total /\ n.good = n.total
    BY <1>4, <1>5, <2>1, <2>2
  <2> HIDE DEF n
  <2>4. n = [total |-> n.total, done |-> n.total, good |-> n.total, bad |-> 0]
    BY <1>1, <2>1, <2>3 DEF Counts
  <2>5. Done'
    <3>1. CASE job.kind = "copy"
      <4>1. \A k \in Key : index'[k] # None /\ index'[k].account = Source =>
              Target \in {a \in Account : replica'[k][a] # None
                                          /\ replica'[k][a].status = "succeeded"}
        BY <1>1, <2>2, MaintenanceAssumption DEF Good
      <4>2. QED
        BY <1>1, <3>1, <4>1 DEF Done, SucceededAt
    <3>2. CASE job.kind = "move"
      BY <1>1, <2>2, <3>2 DEF Done
    <3>3. QED
      BY <2>1, <3>1, <3>2
  <2>6. QED
    BY <1>1, <2>4, <2>5
<1>7. CASE job.kind = "repair"
  <2>1. n.bad = 0 => \A k \in Key : index[k] # None => blobs[index[k].account][k] = index[k].content
    BY <1>1, <1>3, <1>4, <1>7 DEF ProgressOK
  <2>2. QED
    BY <1>1, <1>7, <2>1 DEF Done, Migration
<1>8. CASE job.kind \in Inventory
  <2>1. \A k \in Key : blobs[Source][k] # 0 => index[k] # None
    BY <1>3, <1>4, <1>8 DEF ProgressOK
  <2>2. job.kind \notin Migration /\ job.kind \notin {"copy", "move", "repair"}
    BY <1>8 DEF Migration, Inventory
  <2>3. QED
    BY <1>1, <2>1, <2>2 DEF Done
<1>9. job.kind \in Migration \cup {"repair"} \cup Inventory
  BY <1>2 DEF Job, JobKind, Migration, Inventory
<1>10. QED
  BY <1>6, <1>7, <1>8, <1>9

LEMMA SpecInv ==
  ASSUME Orderly
  PROVE  MaintSpec => []MaintInv
<1>1. MaintInit => MaintInv
  BY InitInv
<1>2. MaintInv /\ [MaintNext]_maintVars => MaintInv'
  BY NextInv
<1>3. MaintSpec => MaintInit /\ [][MaintNext]_maintVars
  BY PTL DEF MaintSpec
<1>4. QED
  BY <1>1, <1>2, <1>3, PTL

\* GetObject answers for every indexed key, with the last upload of it and
\* nothing else, however replication, migrations, repairs and imports follow
\* each other, providers refuse and lose bodies, and workers crash.
THEOREM LatestServed ==
  ASSUME Orderly
  PROVE  MaintSpec => []LatestIsServed
<1>1. MaintInv => LatestIsServed
  BY InvImplies
<1>2. QED
  BY <1>1, SpecInv, PTL

\* A replica that object_replicas reports as succeeded holds the object as it
\* is, and an object is completely replicated only when every replica is.
THEOREM SucceededReplicated ==
  ASSUME Orderly
  PROVE  MaintSpec => []SucceededIsReplicated
<1>1. MaintInv => SucceededIsReplicated
  BY InvImplies
<1>2. QED
  BY <1>1, SpecInv, PTL

\* A migration, repair or import that its row reports as completed has done its
\* work on every key, and a migration has counted every object once, however
\* often the job was interrupted, recovered and run again.
THEOREM CompletedDone ==
  ASSUME Orderly
  PROVE  MaintSpec => CompletedIsDone
<1>1. ASSUME MaintInv, [MaintNext]_maintVars
      PROVE  [job # None /\ job.status # "completed" /\ job'.status = "completed"
                => /\ Done'
                   /\ job.kind \in Migration =>
                        job'.counts = [total |-> job'.counts.total, done |-> job'.counts.total,
                                       good |-> job'.counts.total, bad |-> 0]]_maintVars
  <2>1. CASE UNCHANGED maintVars
    BY <2>1
  <2>2. ASSUME MaintNext, job # None, job.status # "completed", job'.status = "completed"
        PROVE  /\ Done'
               /\ job.kind \in Migration =>
                    job'.counts = [total |-> job'.counts.total, done |-> job'.counts.total,
                                   good |-> job'.counts.total, bad |-> 0]
    <3>1. PICK w \in Worker : FinishJob(w)
      BY <1>1, <2>2, OnlyFinish
    <3>2. QED
      BY <1>1, <2>2, <3>1, FinishIsDone
  <2>3. QED
    BY <1>1, <2>1, <2>2
<1>2. MaintSpec => [][MaintNext]_maintVars
  BY PTL DEF MaintSpec
<1>3. QED
  BY <1>1, <1>2, SpecInv, PTL DEF CompletedIsDone
=============================================================================
