--------------------------- MODULE MultipartProofs ---------------------------
(***************************************************************************)
(* What a completed multipart upload holds, and what an ended one leaves   *)
(* behind, for every set of parts, requests and part lists.                *)
(*                                                                         *)
(* CompletedIsCurrent rests on one fact about the staged files: a file     *)
(* that is there is never older than a body that was acknowledged for its  *)
(* part, nor than one whose row is still to be written.  It needs no       *)
(* hypothesis on the hazards.  StagingIsOwned needs "late" left out.       *)
(***************************************************************************)
EXTENDS Multipart, FiniteSetTheorems, WellFoundedInduction, TLAPS

PartReq == [op : {"mkdir", "write"}, part : Part]
RowReq == [op : {"row"}, part : Part, body : Nat]
OpenReq == [op : {"open"}, parts : Seq(Part), bodies : Seq(Nat),
            due : [Part -> Nat], asked : Seq(Part)]
EndReq == [op : {"remove", "drop"}]
RequestType == {Idle} \cup PartReq \cup RowReq \cup OpenReq \cup EndReq
ObjectType == [parts : Seq(Part), bodies : Seq(Nat),
               due : [Part -> Nat], asked : Seq(Part)]

MultiTypeOK ==
  /\ upload \in {"none", "open", "gone"}
  /\ rows \in [Part -> Nat] /\ files \in [Part -> Nat] /\ acked \in [Part -> Nat]
  /\ body \in Nat
  /\ request \in [Request -> RequestType]
  /\ object \in ObjectType

\* Bodies are numbered in the order of their renames, so a staged file is at
\* least as new as every body acknowledged, or on its way to a row, before.
FileInv ==
  /\ \A n \in Part : /\ files[n] <= body /\ acked[n] <= body
                     /\ files[n] # 0 => acked[n] <= files[n]
  /\ \A r \in Request : request[r].op = "row" =>
       /\ 0 < request[r].body /\ request[r].body <= body
       /\ files[request[r].part] # 0 => request[r].body <= files[request[r].part]

\* A part that was acknowledged has a row until the upload is gone.
AckInv == upload # "gone" => \A n \in Part : acked[n] # 0 => rows[n] # 0

\* What a completion holds, whether it is still opening its parts or done.
Joined(q) ==
  /\ Len(q.bodies) <= Len(q.parts)
  /\ \A i \in 1..Len(q.bodies) : q.bodies[i] >= q.due[q.parts[i]]
  /\ \A i, j \in 1..Len(q.parts) : i < j => q.parts[i] < q.parts[j]
  /\ q.asked = <<>> =>
       {n \in Part : q.due[n] # 0} \subseteq {q.parts[i] : i \in 1..Len(q.parts)}

OpenInv == \A r \in Request : request[r].op = "open" =>
  /\ Joined(request[r])
  /\ \A n \in Part : request[r].due[n] <= acked[n]

ObjectInv == Joined(object) /\ Len(object.bodies) = Len(object.parts)

MultiInv == MultiTypeOK /\ FileInv /\ AckInv /\ OpenInv /\ ObjectInv

\* Without late parts, removal and staging never overlap.
StageInv ==
  /\ InFlight({"drop"}) # {} => InFlight(PartOps) = {} /\ files = Nothing
  /\ upload = "gone" => InFlight(PartOps) = {} /\ files = Nothing

-----------------------------------------------------------------------------
(* Numbers, sequences and finite sets.                                     *)

\* A nonempty set of naturals has a least element.
LEMMA LeastNat ==
  ASSUME NEW T, T \subseteq Nat, T # {}
  PROVE  \E x \in T : \A y \in T : x <= y
<1> DEFINE R == OpToRel(<, Nat)
<1>1. IsWellFoundedOn(R, Nat)
  BY NatLessThanWellFounded
<1>2. \A x, y \in Nat : x < y => <<x, y>> \in R
  BY DEF OpToRel
<1> HIDE DEF R
<1>3. PICK x \in T : \A y \in T : ~ (<<y, x>> \in R)
  BY <1>1, WFMin, Zenon
<1>4. \A y \in T : x \in Nat /\ y \in Nat /\ ~ (y < x)
  BY <1>2, <1>3
<1>5. \A y \in T : x <= y
  BY <1>4
<1>6. QED
  BY <1>5

\* Part numbers that ascend from each one to the next ascend throughout.
LEMMA Ascending ==
  ASSUME NEW S \in SUBSET Nat, NEW s \in Seq(S),
         \A i \in 1..(Len(s) - 1) : s[i] < s[i + 1]
  PROVE  \A i, j \in 1..Len(s) : i < j => s[i] < s[j]
<1> DEFINE T == {j \in 1..Len(s) : \E i \in 1..Len(s) : i < j /\ ~ (s[i] < s[j])}
<1>1. SUFFICES ASSUME T # {} PROVE FALSE
  OBVIOUS
<1>2. T \subseteq Nat
  OBVIOUS
<1> HIDE DEF T
<1>3. PICK j \in T : \A k \in T : j <= k
  BY <1>1, <1>2, LeastNat
<1>4. PICK i \in 1..Len(s) : i < j /\ ~ (s[i] < s[j]) /\ j \in 1..Len(s)
  BY <1>3 DEF T
<1>5. j - 1 \in 1..(Len(s) - 1) /\ (j - 1) + 1 = j /\ i <= j - 1 /\ Len(s) \in Nat
  BY <1>4
<1>6. s[j - 1] < s[j]
  BY <1>5
<1>7. s[i] \in Nat /\ s[j - 1] \in Nat /\ s[j] \in Nat
  <2>1. s[i] \in S /\ s[j - 1] \in S /\ s[j] \in S
    BY <1>4, <1>5
  <2>2. QED
    BY <2>1
<1>8. i # j - 1
  BY <1>4, <1>6
<1>9. j - 1 \notin T
  BY <1>3, <1>5
<1>10. s[i] < s[j - 1]
  BY <1>4, <1>5, <1>8, <1>9 DEF T
<1>11. QED
  BY <1>4, <1>6, <1>7, <1>10

\* Max of two numbers.
LEMMA MaxOfTwo ==
  ASSUME NEW a \in Nat, NEW b \in Nat
  PROVE  Max({a, b}) \in {a, b} /\ a <= Max({a, b}) /\ b <= Max({a, b})
<1>1. \E x \in {a, b} : \A y \in {a, b} : x >= y
  <2>1. CASE a >= b
    BY <2>1
  <2>2. CASE ~ (a >= b)
    BY <2>2
  <2>3. QED
    BY <2>1, <2>2
<1>2. QED
  BY <1>1 DEF Max

\* The order a completion asks for, or that of all parts, is a sequence of
\* part numbers; when none is named it holds every part that has a row.
LEMMA OrderedParts ==
  ASSUME NEW asked \in PartList, NEW ps \in Ordered(asked)
  PROVE  /\ ps \in Seq(Part)
         /\ asked = <<>> => Uploaded = {ps[i] : i \in 1..Len(ps)}
<1>1. CASE asked # <<>>
  BY <1>1, MultipartAssumption DEF Ordered
<1>2. CASE asked = <<>>
  <2>1. Uploaded \subseteq Part
    BY DEF Uploaded
  <2>2. IsFiniteSet(Uploaded)
    <3>1. PICK m \in Int : m = 10000
      OBVIOUS
    <3>2. IsFiniteSet(1..m)
      BY FS_Interval
    <3>3. Uploaded \in SUBSET (1..m)
      BY <2>1, <3>1, MultipartAssumption
    <3>4. QED
      BY <3>2, <3>3, FS_Subset, Zenon
  <2>3. Cardinality(Uploaded) \in Nat
    BY <2>2, FS_CardinalityType, Zenon
  <2>4. /\ ps \in [1..Cardinality(Uploaded) -> Uploaded]
        /\ Uploaded = {ps[i] : i \in DOMAIN ps}
    BY <1>2 DEF Ordered
  <2>5. ps \in Seq(Part) /\ DOMAIN ps = 1..Cardinality(Uploaded)
    BY <2>1, <2>3, <2>4
  <2>6. Len(ps) = Cardinality(Uploaded)
    BY <2>3, <2>5
  <2>7. QED
    BY <2>4, <2>5, <2>6
<1>3. QED
  BY <1>1, <1>2
-----------------------------------------------------------------------------
(* The inductive invariant.                                                *)

LEMMA MultiInit_Inv == MultiInit => MultiInv
<1> SUFFICES ASSUME MultiInit PROVE MultiInv
  OBVIOUS
<1> USE DEF MultiInit, Nothing, Idle
<1>1. MultiTypeOK
  BY DEF MultiTypeOK, RequestType, NoObject, ObjectType
<1>2. FileInv /\ AckInv /\ OpenInv
  BY DEF FileInv, AckInv, OpenInv
<1>3. ObjectInv
  BY DEF ObjectInv, Joined, NoObject
<1>4. QED
  BY <1>1, <1>2, <1>3 DEF MultiInv

\* A request that ends, or that only changes its step, keeps what the others
\* rely on, as long as the files and what was acknowledged stay.
LEMMA EndsQuietly ==
  ASSUME MultiInv, NEW r \in Request, NEW q,
         q \in {Idle} \cup PartReq \cup EndReq, Becomes(r, q),
         UNCHANGED <<upload, rows, object, acked, body>>,
         files' \in {files, Nothing}
  PROVE  MultiInv'
<1> USE DEF MultiInv, Becomes
<1>1. q \in RequestType /\ q.op \notin {"row", "open"}
  BY DEF RequestType, Idle, PartReq, EndReq
<1>2. MultiTypeOK'
  BY <1>1 DEF MultiTypeOK, Nothing
<1>3. FileInv'
  <2>1. \A n \in Part : files'[n] \in {0, files[n]}
    BY DEF Nothing, MultiTypeOK
  <2>2. \A n \in Part : /\ files'[n] <= body' /\ acked'[n] <= body'
                        /\ files'[n] # 0 => acked'[n] <= files'[n]
    BY <2>1 DEF FileInv, MultiTypeOK
  <2>3. ASSUME NEW s \in Request, request'[s].op = "row"
        PROVE  /\ 0 < request'[s].body /\ request'[s].body <= body'
               /\ files'[request'[s].part] # 0
                    => request'[s].body <= files'[request'[s].part]
    <3>1. request'[s] = request[s] /\ request[s].op = "row"
      BY <1>1, <2>3 DEF MultiTypeOK
    <3>2. request[s].part \in Part
      BY <3>1 DEF MultiTypeOK, RequestType, Idle, PartReq, RowReq, OpenReq, EndReq
    <3>3. QED
      BY <2>1, <3>1, <3>2 DEF FileInv
  <2>4. QED
    BY <2>2, <2>3 DEF FileInv
<1>4. AckInv' /\ ObjectInv'
  BY DEF AckInv, ObjectInv, Joined
<1>5. OpenInv'
  <2>1. ASSUME NEW s \in Request, request'[s].op = "open"
        PROVE  request'[s] = request[s]
    BY <1>1, <2>1 DEF MultiTypeOK
  <2>2. QED
    BY <2>1 DEF OpenInv, Joined
<1>6. QED
  BY <1>2, <1>3, <1>4, <1>5

\* What each kind of request carries, by its step.
LEMMA RequestShape ==
  ASSUME MultiTypeOK, NEW r \in Request
  PROVE  /\ request[r].op \in {"mkdir", "write"} => request[r] \in PartReq
         /\ request[r].op = "row" => request[r] \in RowReq
         /\ request[r].op = "open" => request[r] \in OpenReq
         /\ request[r].op \in {"remove", "drop"} => request[r] \in EndReq
BY DEF MultiTypeOK, RequestType, Idle, PartReq, RowReq, OpenReq, EndReq

\* The rename gives the part a body newer than every earlier one.
LEMMA CommitPart_Inv ==
  ASSUME MultiInv, NEW r \in Request, CommitPart(r), r \in temps
  PROVE  MultiInv'
<1> DEFINE n == request[r].part
           q == [op |-> "row", part |-> n, body |-> body + 1]
<1>1. /\ body' = body + 1 /\ files' = [files EXCEPT ![n] = body + 1]
      /\ request' = [request EXCEPT ![r] = q]
      /\ UNCHANGED <<upload, rows, object, acked>>
  BY DEF CommitPart, Becomes
<1>2. n \in Part
  BY RequestShape DEF CommitPart, At, PartReq, MultiInv
<1>3. q \in RowReq /\ body \in Nat
  BY <1>2 DEF RowReq, MultiInv, MultiTypeOK
<1>4. MultiTypeOK'
  BY <1>1, <1>2, <1>3 DEF MultiInv, MultiTypeOK, RequestType
<1>5. \A s \in Request : s # r => request'[s] = request[s]
  BY <1>1 DEF MultiInv, MultiTypeOK
<1>6. request'[r] = q
  BY <1>1 DEF MultiInv, MultiTypeOK
<1>7. \A m \in Part : files'[m] \in {files[m], body'} /\ files[m] \in Nat
                       /\ acked[m] \in Nat /\ files'[m] <= body'
  BY <1>1, <1>2, <1>3 DEF MultiInv, MultiTypeOK, FileInv
<1>8. FileInv'
  <2>1. ASSUME NEW m \in Part
        PROVE  /\ files'[m] <= body' /\ acked'[m] <= body'
               /\ files'[m] # 0 => acked'[m] <= files'[m]
    BY <1>1, <1>3, <1>7 DEF MultiInv, FileInv
  <2>2. ASSUME NEW s \in Request, request'[s].op = "row"
        PROVE  /\ 0 < request'[s].body /\ request'[s].body <= body'
               /\ files'[request'[s].part] # 0
                    => request'[s].body <= files'[request'[s].part]
    <3>1. CASE s = r
      BY <1>1, <1>2, <1>3, <1>6, <3>1 DEF MultiInv, MultiTypeOK
    <3>2. CASE s # r
      <4>1. request[s] \in RowReq /\ request'[s] = request[s]
        BY <1>5, <2>2, <3>2, RequestShape DEF MultiInv
      <4>2. request[s].part \in Part /\ request[s].body \in Nat
        BY <4>1 DEF RowReq
      <4>3. QED
        BY <1>1, <1>3, <1>7, <2>2, <4>1, <4>2 DEF MultiInv, FileInv
    <3>3. QED
      BY <3>1, <3>2
  <2>3. QED
    BY <2>1, <2>2 DEF FileInv
<1>9. OpenInv'
  <2>1. ASSUME NEW s \in Request, request'[s].op = "open"
        PROVE  request'[s] = request[s]
    BY <1>5, <1>6, <2>1
  <2>2. QED
    BY <1>1, <2>1 DEF MultiInv, OpenInv, Joined
<1>10. AckInv' /\ ObjectInv'
  BY <1>1 DEF MultiInv, AckInv, ObjectInv, Joined
<1>11. QED
  BY <1>4, <1>8, <1>9, <1>10 DEF MultiInv

\* The row is written and the client told: the staged file is as new.
LEMMA SavePart_Inv ==
  ASSUME MultiInv, NEW r \in Request, SavePart(r), upload = "open"
  PROVE  MultiInv'
<1> DEFINE n == request[r].part
           b == request[r].body
<1>1. /\ rows' = [rows EXCEPT ![n] = b]
      /\ acked' = [acked EXCEPT ![n] = Max({acked[n], b})]
      /\ request' = [request EXCEPT ![r] = Idle]
      /\ UNCHANGED <<upload, files, object, body>>
  BY DEF SavePart, Becomes
<1>2. n \in Part /\ b \in Nat /\ request[r].op = "row"
  BY RequestShape DEF SavePart, At, RowReq, MultiInv
<1>3. acked[n] \in Nat /\ body \in Nat /\ files[n] \in Nat
  BY <1>2 DEF MultiInv, MultiTypeOK
<1>4. /\ 0 < b /\ b <= body /\ acked[n] <= body
      /\ files[n] # 0 => b <= files[n] /\ acked[n] <= files[n]
  BY <1>2 DEF MultiInv, FileInv
<1> DEFINE a == Max({acked[n], b})
<1>5. a \in {acked[n], b} /\ acked[n] <= a /\ b <= a
  BY <1>2, <1>3, MaxOfTwo
<1> HIDE DEF a
<1>6. a \in Nat /\ a <= body /\ (files[n] # 0 => a <= files[n])
  BY <1>2, <1>3, <1>4, <1>5
<1>7. MultiTypeOK'
  BY <1>1, <1>2, <1>6 DEF MultiInv, MultiTypeOK, RequestType, a
<1>8. \A s \in Request : request'[s] \in {request[s], Idle}
  BY <1>1 DEF MultiInv, MultiTypeOK
<1>9. \A m \in Part : /\ acked'[m] = IF m = n THEN a ELSE acked[m]
                      /\ rows'[m] = IF m = n THEN b ELSE rows[m]
  BY <1>1, <1>2 DEF MultiInv, MultiTypeOK, a
<1>10. FileInv'
  <2>1. ASSUME NEW m \in Part
        PROVE  /\ files'[m] <= body' /\ acked'[m] <= body'
               /\ files'[m] # 0 => acked'[m] <= files'[m]
    BY <1>1, <1>6, <1>9 DEF MultiInv, FileInv
  <2>2. ASSUME NEW s \in Request, request'[s].op = "row"
        PROVE  request'[s] = request[s]
    BY <1>8, <2>2 DEF Idle
  <2>3. QED
    BY <1>1, <2>1, <2>2 DEF MultiInv, FileInv
<1>11. AckInv'
  BY <1>1, <1>4, <1>9 DEF MultiInv, AckInv
<1>12. OpenInv'
  <2>1. ASSUME NEW s \in Request, request'[s].op = "open"
        PROVE  /\ request'[s] = request[s]
               /\ \A m \in Part : request'[s].due[m] <= acked'[m]
    <3>1. request'[s] = request[s]
      BY <1>8, <2>1 DEF Idle
    <3>2. request[s] \in OpenReq
      BY <2>1, <3>1, RequestShape DEF MultiInv
    <3>3. ASSUME NEW m \in Part
          PROVE  request[s].due[m] <= acked'[m]
      <4>1. request[s].due[m] \in Nat /\ acked[m] \in Nat
        BY <3>2 DEF OpenReq, MultiInv, MultiTypeOK
      <4>2. request[s].due[m] <= acked[m]
        BY <2>1, <3>1 DEF MultiInv, OpenInv
      <4>3. QED
        BY <1>3, <1>5, <1>6, <1>9, <4>1, <4>2
    <3>4. QED
      BY <3>1, <3>3
  <2>2. QED
    BY <2>1 DEF MultiInv, OpenInv
<1>13. ObjectInv'
  BY <1>1 DEF MultiInv, ObjectInv, Joined
<1>14. QED
  BY <1>7, <1>10, <1>11, <1>12, <1>13 DEF MultiInv

\* A completion takes the order of its parts, and what is due, from the rows.
LEMMA Complete_Inv ==
  ASSUME MultiInv, NEW r \in Request, NEW asked \in PartList,
         CompleteMultipartUpload(r, asked)
  PROVE  MultiInv'
<1>1. PICK ps \in Ordered(asked) :
        /\ Acceptable(ps)
        /\ request' = [request EXCEPT ![r] =
             [op |-> "open", parts |-> ps, bodies |-> <<>>, due |-> acked, asked |-> asked]]
  BY DEF CompleteMultipartUpload, Becomes
<1> DEFINE q == [op |-> "open", parts |-> ps, bodies |-> <<>>,
                 due |-> acked, asked |-> asked]
<1>2. UNCHANGED <<upload, rows, files, object, acked, body>> /\ upload = "open"
  BY DEF CompleteMultipartUpload
<1>3. ps \in Seq(Part) /\ (asked = <<>> => Uploaded = {ps[i] : i \in 1..Len(ps)})
  BY OrderedParts
<1>4. \A i, j \in 1..Len(ps) : i < j => ps[i] < ps[j]
  <2>1. Part \subseteq Nat
    BY MultipartAssumption
  <2>2. \A i \in 1..(Len(ps) - 1) : ps[i] < ps[i + 1]
    BY <1>1 DEF Acceptable
  <2>3. QED
    BY <1>3, <2>1, <2>2, Ascending
<1>5. q \in OpenReq
  <2>1. asked \in Seq(Part) /\ acked \in [Part -> Nat] /\ <<>> \in Seq(Nat)
    BY MultipartAssumption DEF MultiInv, MultiTypeOK
  <2>2. QED
    BY <1>3, <2>1 DEF OpenReq
<1>6. Joined(q)
  <2>1. asked = <<>> => {n \in Part : acked[n] # 0} \subseteq {ps[i] : i \in 1..Len(ps)}
    BY <1>2, <1>3 DEF MultiInv, AckInv, Uploaded
  <2>2. QED
    BY <1>3, <1>4, <2>1 DEF Joined
<1>7. \A s \in Request : request'[s] = IF s = r THEN q ELSE request[s]
  BY <1>1 DEF MultiInv, MultiTypeOK
<1>8. \A n \in Part : q.due[n] <= acked[n]
  BY DEF MultiInv, MultiTypeOK
<1>9. MultiTypeOK'
  BY <1>1, <1>2, <1>5 DEF MultiInv, MultiTypeOK, RequestType
<1>10. q.op # "row"
  OBVIOUS
<1> HIDE DEF q
<1>11. FileInv'
  <2>1. ASSUME NEW s \in Request, request'[s].op = "row"
        PROVE  request'[s] = request[s]
    BY <1>7, <1>10, <2>1
  <2>2. QED
    BY <1>2, <2>1 DEF MultiInv, FileInv
<1>12. OpenInv'
  BY <1>2, <1>6, <1>7, <1>8 DEF MultiInv, OpenInv
<1>13. AckInv' /\ ObjectInv'
  BY <1>2 DEF MultiInv, AckInv, ObjectInv
<1>14. QED
  BY <1>9, <1>11, <1>12, <1>13 DEF MultiInv

\* A part that is opened is as new as the file that was staged.
LEMMA OpenPart_Inv ==
  ASSUME MultiInv, NEW r \in Request, OpenPart(r),
         files[request[r].parts[Len(request[r].bodies) + 1]] # 0
  PROVE  MultiInv'
<1> DEFINE p == request[r]
           k == Len(p.bodies) + 1
           n == p.parts[k]
           q == [p EXCEPT !.bodies = Append(p.bodies, files[n])]
<1>1. /\ p.op = "open" /\ Len(p.bodies) < Len(p.parts)
      /\ request' = [request EXCEPT ![r] = q]
      /\ UNCHANGED <<upload, rows, files, object, acked, body>>
  BY DEF OpenPart, At, Becomes
<1>2. p \in OpenReq
  BY <1>1, RequestShape DEF MultiInv
<1>3. /\ p.parts \in Seq(Part) /\ p.bodies \in Seq(Nat)
      /\ p.due \in [Part -> Nat] /\ k \in 1..Len(p.parts)
  <2>1. p.parts \in Seq(Part) /\ p.bodies \in Seq(Nat) /\ p.due \in [Part -> Nat]
    BY <1>2 DEF OpenReq
  <2>2. QED
    BY <1>1, <2>1
<1>4. n \in Part /\ files[n] \in Nat /\ acked[n] \in Nat /\ p.due[n] \in Nat
  <2>1. n \in Part
    BY <1>3
  <2>2. files \in [Part -> Nat] /\ acked \in [Part -> Nat]
    BY DEF MultiInv, MultiTypeOK
  <2> HIDE DEF n, p
  <2>3. QED
    BY <1>3, <2>1, <2>2
<1>5. files[n] >= p.due[n]
  <2>1. acked[n] <= files[n]
    BY <1>4 DEF MultiInv, FileInv
  <2>2. p.due[n] <= acked[n]
    BY <1>1, <1>4 DEF MultiInv, OpenInv
  <2>3. QED
    BY <1>4, <2>1, <2>2
<1> DEFINE bs == Append(p.bodies, files[n])
<1>6. /\ q.op = "open" /\ q.parts = p.parts /\ q.due = p.due /\ q.asked = p.asked
      /\ q.bodies = bs /\ q \in OpenReq
  <2>1. bs \in Seq(Nat)
    BY <1>3, <1>4
  <2>2. q = [p EXCEPT !.bodies = bs]
    OBVIOUS
  <2> HIDE DEF q, bs
  <2>3. QED
    BY <1>1, <1>2, <2>1, <2>2 DEF OpenReq
<1>7. /\ bs \in Seq(Nat) /\ Len(bs) = k /\ bs[k] = files[n]
      /\ \A i \in 1..(k - 1) : bs[i] = p.bodies[i]
  BY <1>3, <1>4
<1>8. Joined(p)
  BY <1>1 DEF MultiInv, OpenInv
<1> HIDE DEF q, bs
<1>9. Joined(q)
  <2>1. Len(q.bodies) <= Len(q.parts)
    BY <1>3, <1>6, <1>7
  <2>2. ASSUME NEW i \in 1..Len(q.bodies)
        PROVE  q.bodies[i] >= q.due[q.parts[i]]
    <3>1. CASE i = k
      BY <1>5, <1>6, <1>7, <3>1
    <3>2. CASE i # k
      <4>1. i \in 1..Len(p.bodies) /\ i \in 1..(k - 1)
        BY <1>3, <1>6, <1>7, <3>2
      <4>2. p.bodies[i] >= p.due[p.parts[i]]
        BY <1>8, <4>1 DEF Joined
      <4>3. QED
        BY <1>6, <1>7, <4>1, <4>2
    <3>3. QED
      BY <3>1, <3>2
  <2>3. QED
    BY <1>6, <1>8, <2>1, <2>2 DEF Joined
<1>10. \A s \in Request : request'[s] = IF s = r THEN q ELSE request[s]
  BY <1>1 DEF MultiInv, MultiTypeOK
<1>11. MultiTypeOK'
  BY <1>1, <1>6 DEF MultiInv, MultiTypeOK, RequestType
<1>12. FileInv'
  <2>1. ASSUME NEW s \in Request, request'[s].op = "row"
        PROVE  request'[s] = request[s]
    BY <1>6, <1>10, <2>1
  <2>2. QED
    BY <1>1, <2>1 DEF MultiInv, FileInv
<1>13. OpenInv'
  <2>1. \A m \in Part : q.due[m] <= acked[m]
    BY <1>1, <1>6 DEF MultiInv, OpenInv
  <2>2. QED
    BY <1>1, <1>9, <1>10, <2>1 DEF MultiInv, OpenInv
<1>14. AckInv' /\ ObjectInv'
  BY <1>1 DEF MultiInv, AckInv, ObjectInv
<1>15. QED
  BY <1>11, <1>12, <1>13, <1>14 DEF MultiInv

LEMMA MultiNext_Inv == MultiInv /\ [MultiNext]_multiVars => MultiInv'
<1> SUFFICES ASSUME MultiInv, [MultiNext]_multiVars PROVE MultiInv'
  OBVIOUS
<1>1. CASE UNCHANGED multiVars
  BY <1>1 DEF multiVars, MultiInv, MultiTypeOK, FileInv, AckInv, OpenInv, ObjectInv
<1>2. CASE CreateMultipartUpload
  BY <1>2 DEF CreateMultipartUpload, MultiInv, MultiTypeOK, FileInv, AckInv,
     OpenInv, ObjectInv
<1>3. ASSUME NEW r \in Request, NEW n \in Part, UploadPart(r, n) PROVE MultiInv'
  <2>1. [op |-> "mkdir", part |-> n] \in PartReq
    BY DEF PartReq
  <2>2. QED
    BY <1>3, <2>1, EndsQuietly DEF UploadPart
<1>4. ASSUME NEW r \in Request, StagePart(r) PROVE MultiInv'
  <2>1. [request[r] EXCEPT !.op = "write"] \in PartReq
    BY <1>4, RequestShape DEF StagePart, At, PartReq, MultiInv
  <2>2. QED
    BY <1>4, <2>1, EndsQuietly DEF StagePart
<1>5. ASSUME NEW r \in Request, CommitPart(r) PROVE MultiInv'
  <2>1. CASE r \in temps
    BY <1>5, <2>1, CommitPart_Inv
  <2>2. CASE r \notin temps
    BY <1>5, <2>2, EndsQuietly DEF CommitPart
  <2>3. QED
    BY <2>1, <2>2
<1>6. ASSUME NEW r \in Request, SavePart(r) PROVE MultiInv'
  <2>1. CASE upload = "open"
    BY <1>6, <2>1, SavePart_Inv
  <2>2. CASE upload # "open"
    BY <1>6, <2>2, EndsQuietly DEF SavePart
  <2>3. QED
    BY <2>1, <2>2
<1>7. ASSUME NEW r \in Request, NEW asked \in PartList, CompleteMultipartUpload(r, asked)
      PROVE  MultiInv'
  BY <1>7, Complete_Inv
<1>8. ASSUME NEW r \in Request, OpenPart(r) PROVE MultiInv'
  <2>1. CASE files[request[r].parts[Len(request[r].bodies) + 1]] = 0
    BY <1>8, <2>1, EndsQuietly DEF OpenPart
  <2>2. CASE files[request[r].parts[Len(request[r].bodies) + 1]] # 0
    BY <1>8, <2>2, OpenPart_Inv
  <2>3. QED
    BY <2>1, <2>2
<1>9. ASSUME NEW r \in Request, PutObject(r) PROVE MultiInv'
  <2> DEFINE p == request[r]
  <2>1. p \in OpenReq /\ Joined(p) /\ Len(p.bodies) = Len(p.parts)
    BY <1>9, RequestShape DEF PutObject, At, MultiInv, OpenInv
  <2>2. /\ object' = [parts |-> p.parts, bodies |-> p.bodies, due |-> p.due, asked |-> p.asked]
        /\ request' = [request EXCEPT ![r] = [op |-> "remove"]]
        /\ UNCHANGED <<upload, rows, files, acked, body>>
    BY <1>9 DEF PutObject, Becomes
  <2>3. object' \in ObjectType
    BY <2>1, <2>2 DEF OpenReq, ObjectType
  <2>4. ObjectInv'
    BY <2>1, <2>2 DEF ObjectInv, Joined
  <2>5. [op |-> "remove"] \in RequestType
    BY DEF RequestType, EndReq
  <2>6. MultiTypeOK'
    BY <2>2, <2>3, <2>5 DEF MultiInv, MultiTypeOK
  <2>7. ASSUME NEW s \in Request, request'[s].op \in {"row", "open"}
        PROVE  request'[s] = request[s]
    BY <2>2, <2>7 DEF MultiInv, MultiTypeOK
  <2>8. FileInv' /\ OpenInv' /\ AckInv'
    BY <2>2, <2>7 DEF MultiInv, FileInv, OpenInv, AckInv
  <2>9. QED
    BY <2>4, <2>6, <2>8 DEF MultiInv
<1>10. ASSUME NEW r \in Request,
              PutFails(r) \/ AbortMultipartUpload(r) \/ RemoveFiles(r) \/ Crash(r)
       PROVE  MultiInv'
  <2>1. [op |-> "remove"] \in EndReq /\ [op |-> "drop"] \in EndReq
    BY DEF EndReq
  <2>2. QED
    BY <1>10, <2>1, EndsQuietly DEF PutFails, AbortMultipartUpload, RemoveFiles, Crash
<1>11. ASSUME NEW r \in Request, DeleteMultipartUpload(r) PROVE MultiInv'
  <2>1. /\ upload' = "gone" /\ rows' = Nothing
        /\ request' = [request EXCEPT ![r] = Idle]
        /\ UNCHANGED <<files, object, acked, body>>
    BY <1>11 DEF DeleteMultipartUpload, Becomes
  <2>2. MultiTypeOK'
    BY <2>1 DEF MultiInv, MultiTypeOK, RequestType, Nothing
  <2>3. ASSUME NEW s \in Request, request'[s].op \in {"row", "open"}
        PROVE  request'[s] = request[s]
    BY <2>1, <2>3 DEF MultiInv, MultiTypeOK, Idle
  <2>4. FileInv' /\ OpenInv' /\ AckInv' /\ ObjectInv'
    BY <2>1, <2>3 DEF MultiInv, FileInv, OpenInv, AckInv, ObjectInv
  <2>5. QED
    BY <2>2, <2>4 DEF MultiInv
<1>12. QED
  BY <1>1, <1>2, <1>3, <1>4, <1>5, <1>6, <1>7, <1>8, <1>9, <1>10, <1>11 DEF MultiNext

\* Whatever requests overlap, and even when a late part comes while the files
\* are removed, an object completed by CompleteMultipartUpload has its parts
\* in order, all of them when none is named, and none older than the newest
\* its client was told had been accepted.
THEOREM CompletedCurrent == MultiSpec => []CompletedIsCurrent
<1>1. MultiInv => CompletedIsCurrent
  BY DEF MultiInv, ObjectInv, Joined, CompletedIsCurrent
<1>2. QED
  BY <1>1, MultiInit_Inv, MultiNext_Inv, PTL DEF MultiSpec

\* When no part is late, the files go only once no part is on its way, and no
\* part starts until the rows are gone too.
LEMMA StageInv_Step ==
  ASSUME "late" \notin Hazards, MultiTypeOK, StageInv, [MultiNext]_multiVars
  PROVE  StageInv'
<1> USE DEF PartOps, StageInv, InFlight
<1>1. CASE UNCHANGED multiVars
  BY <1>1 DEF multiVars
<1>2. CASE CreateMultipartUpload
  BY <1>2 DEF CreateMultipartUpload
<1>3. ASSUME NEW r \in Request, NEW n \in Part, UploadPart(r, n) PROVE StageInv'
  <2>1. /\ InFlight({"drop"}) = {} /\ upload = "open" /\ upload' = upload
        /\ request' = [request EXCEPT ![r] = [op |-> "mkdir", part |-> n]]
    BY <1>3 DEF UploadPart, Becomes
  <2>2. \A s \in Request : request'[s].op # "drop"
    BY <2>1 DEF MultiTypeOK
  <2>3. QED
    BY <2>1, <2>2
<1>4. ASSUME NEW r \in Request, StagePart(r) \/ CommitPart(r) \/ SavePart(r)
      PROVE  StageInv'
  <2>1. request[r].op \in PartOps /\ upload' = upload
    BY <1>4 DEF StagePart, CommitPart, SavePart, At
  <2>2. InFlight({"drop"}) = {} /\ upload # "gone"
    BY <2>1
  <2>3. PICK q : request' = [request EXCEPT ![r] = q] /\ q.op # "drop"
    <3>1. CASE StagePart(r)
      <4>1. request[r] \in PartReq
        BY <3>1, RequestShape DEF StagePart, At
      <4>2. [request[r] EXCEPT !.op = "write"].op # "drop"
        BY <4>1 DEF PartReq
      <4>3. QED
        BY <3>1, <4>2 DEF StagePart, Becomes
    <3>2. CASE CommitPart(r)
      <4>1. CASE r \in temps
        <5> DEFINE q == [op |-> "row", part |-> request[r].part, body |-> body + 1]
        <5>1. request' = [request EXCEPT ![r] = q] /\ q.op # "drop"
          BY <3>2, <4>1 DEF CommitPart, Becomes
        <5>2. QED
          BY <5>1
      <4>2. CASE r \notin temps
        <5>1. request' = [request EXCEPT ![r] = Idle] /\ Idle.op # "drop"
          BY <3>2, <4>2 DEF CommitPart, Becomes, Idle
        <5>2. QED
          BY <5>1
      <4>3. QED
        BY <4>1, <4>2
    <3>3. CASE SavePart(r)
      <4>1. request' = [request EXCEPT ![r] = Idle] /\ Idle.op # "drop"
        BY <3>3 DEF SavePart, Becomes, Idle
      <4>2. QED
        BY <4>1
    <3>4. QED
      BY <1>4, <3>1, <3>2, <3>3
  <2>4. \A s \in Request : request'[s].op # "drop"
    BY <2>2, <2>3 DEF MultiTypeOK
  <2>5. QED
    BY <2>1, <2>2, <2>4
<1>5. ASSUME NEW r \in Request, NEW q, Becomes(r, q),
             q.op \notin PartOps \cup {"drop"}, files' \in {files, Nothing},
             upload' = upload
      PROVE  StageInv'
  <2>1. \A s \in Request : request'[s].op \in {request[s].op, q.op}
    BY <1>5 DEF Becomes, MultiTypeOK
  <2>2. \A o \in PartOps \cup {"drop"}, s \in Request :
          request'[s].op = o => request[s].op = o
    BY <1>5, <2>1
  <2>3. InFlight(PartOps) = {} => InFlight(PartOps)' = {}
    BY <2>2
  <2>4. InFlight({"drop"}) = {} => InFlight({"drop"})' = {}
    BY <2>2
  <2>5. files = Nothing => files' = Nothing
    BY <1>5
  <2>6. QED
    BY <1>5, <2>3, <2>4, <2>5 DEF Nothing
<1>6. ASSUME NEW r \in Request, NEW asked \in PartList, CompleteMultipartUpload(r, asked)
      PROVE  StageInv'
  <2>1. PICK ps : Becomes(r, [op |-> "open", parts |-> ps, bodies |-> <<>>,
                              due |-> acked, asked |-> asked])
    BY <1>6 DEF CompleteMultipartUpload
  <2>2. files' = files /\ upload' = upload
    BY <1>6 DEF CompleteMultipartUpload
  <2>3. QED
    BY <1>5, <2>1, <2>2
<1>7. ASSUME NEW r \in Request, OpenPart(r) PROVE StageInv'
  <2> DEFINE b == files[request[r].parts[Len(request[r].bodies) + 1]]
             q == IF b = 0 THEN Idle ELSE [request[r] EXCEPT !.bodies = Append(@, b)]
  <2>1. request[r] \in OpenReq
    BY <1>7, RequestShape DEF OpenPart, At
  <2>2. q.op \notin PartOps \cup {"drop"}
    BY <2>1 DEF OpenReq, Idle
  <2>3. Becomes(r, q) /\ files' = files /\ upload' = upload
    BY <1>7 DEF OpenPart
  <2> HIDE DEF q
  <2>4. QED
    BY <1>5, <2>2, <2>3
<1>8. ASSUME NEW r \in Request,
             PutObject(r) \/ PutFails(r) \/ AbortMultipartUpload(r) \/ Crash(r)
      PROVE  StageInv'
  <2>1. PICK q \in {Idle, [op |-> "remove"]} :
          Becomes(r, q) /\ files' = files /\ upload' = upload
    BY <1>8 DEF PutObject, PutFails, AbortMultipartUpload, Crash
  <2>2. q.op \notin PartOps \cup {"drop"}
    BY DEF Idle
  <2>3. QED
    BY <1>5, <2>1, <2>2
<1>9. ASSUME NEW r \in Request, RemoveFiles(r) PROVE StageInv'
  <2>1. /\ InFlight(PartOps) = {} /\ files' = Nothing
        /\ request' = [request EXCEPT ![r] = [op |-> "drop"]]
    BY <1>9 DEF RemoveFiles, Becomes
  <2>2. \A s \in Request : request'[s].op \notin PartOps
    BY <2>1 DEF MultiTypeOK
  <2>3. QED
    BY <2>1, <2>2 DEF Nothing
<1>10. ASSUME NEW r \in Request, DeleteMultipartUpload(r) PROVE StageInv'
  <2>1. request[r].op = "drop" /\ files' = files /\ request' = [request EXCEPT ![r] = Idle]
    BY <1>10 DEF DeleteMultipartUpload, At, Becomes
  <2>2. InFlight(PartOps) = {} /\ files = Nothing
    BY <2>1
  <2>3. \A s \in Request : request'[s].op \notin PartOps
    BY <2>1, <2>2 DEF MultiTypeOK, Idle
  <2>4. QED
    BY <2>1, <2>2, <2>3 DEF Nothing
<1>11. QED
  BY <1>1, <1>2, <1>3, <1>4, <1>6, <1>7, <1>8, <1>9, <1>10 DEF MultiNext

\* Unless a part is on its way while cleanupMultipart removes the files, an
\* upload that is gone has left no staged file: not after a completion, an
\* abort, or a crash between the removal and the rows.
THEOREM StagingOwned ==
  ASSUME "late" \notin Hazards
  PROVE  MultiSpec => []StagingIsOwned
<1>1. MultiInit => StageInv
  BY DEF MultiInit, StageInv, InFlight, Idle
<1>2. MultiInv /\ StageInv /\ [MultiNext]_multiVars => StageInv'
  BY StageInv_Step DEF MultiInv
<1>3. StageInv => StagingIsOwned
  BY DEF StageInv, StagingIsOwned
<1>4. QED
  BY <1>1, <1>2, <1>3, MultiInit_Inv, MultiNext_Inv, PTL DEF MultiSpec
=============================================================================
