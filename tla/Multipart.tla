------------------------------ MODULE Multipart ------------------------------
(***************************************************************************)
(* One multipart upload (internal/app/multipart.go): parts staged as files *)
(* under the upload's directory, their rows in the database, completion    *)
(* that joins the files into an object, and abort.  Requests run at the    *)
(* same time, on one instance or several that share the directory.         *)
(*                                                                         *)
(* A part's body is known by the number of the rename that committed it.   *)
(***************************************************************************)
EXTENDS Integers, Sequences, FiniteSets, FiniteSetsExt

CONSTANTS Part,        \* part numbers
          Request,     \* requests served at the same time
          PartList,    \* the part numbers a completion may name, in order
          Hazards,     \* a subset of MultipartHazards
          MaxBody      \* bound on the bodies staged

MultipartHazards == {"late"}   \* a part is on its way while the files are removed

ASSUME MultipartAssumption ==
  /\ Part \subseteq 1..10000
  /\ PartList \subseteq Seq(Part)
  /\ Hazards \subseteq MultipartHazards
  /\ MaxBody \in Nat

VARIABLES upload,    \* the row of multipart_uploads: none, open or gone
          rows,      \* multipart_parts: the body each row was written for
          files,     \* the staged file of every part, 0: none
          temps,     \* requests whose temporary file is still there
          request,   \* what every request is doing
          object,    \* the last completed object, and what it had to hold
          acked,     \* per part, the newest body a client knows is accepted
          body       \* the last body committed

multiVars == <<upload, rows, files, temps, request, object, acked, body>>

Idle == [op |-> "idle"]
NoObject == [parts |-> <<>>, bodies |-> <<>>, due |-> [n \in Part |-> 0], asked |-> <<>>]
Nothing == [n \in Part |-> 0]

InFlight(ops) == {r \in Request : request[r].op \in ops}
PartOps == {"mkdir", "write", "row"}
EndOps == {"open", "remove", "drop"}
Becomes(r, q) == request' = [request EXCEPT ![r] = q]
At(r, op) == request[r].op = op

CreateMultipartUpload ==
  /\ upload = "none"
  /\ upload' = "open"
  /\ UNCHANGED <<rows, files, temps, request, object, acked, body>>

-----------------------------------------------------------------------------
(* UploadPart.                                                             *)

\* The upload exists; whatever happens to it next, the part is on its way.
UploadPart(r, n) ==
  /\ request[r] = Idle /\ upload = "open"
  /\ "late" \in Hazards \/ InFlight({"remove", "drop"}) = {}
  /\ Becomes(r, [op |-> "mkdir", part |-> n])
  /\ UNCHANGED <<upload, rows, files, temps, object, acked, body>>

\* MkdirAll and CreateTemp: a directory that was removed is made again.
StagePart(r) ==
  /\ At(r, "mkdir")
  /\ temps' = temps \cup {r}
  /\ Becomes(r, [request[r] EXCEPT !.op = "write"])
  /\ UNCHANGED <<upload, rows, files, object, acked, body>>

\* Rename: it fails when the directory was removed with the temporary file.
CommitPart(r) ==
  /\ At(r, "write") /\ body < MaxBody
  /\ IF r \in temps
     THEN /\ body' = body + 1
          /\ files' = [files EXCEPT ![request[r].part] = body + 1]
          /\ Becomes(r, [op |-> "row", part |-> request[r].part, body |-> body + 1])
     ELSE Becomes(r, Idle) /\ UNCHANGED <<files, body>>
  /\ temps' = temps \ {r}
  /\ UNCHANGED <<upload, rows, object, acked>>

\* UpsertMultipartPart: its foreign key refuses the part of no upload.
SavePart(r) ==
  LET n == request[r].part
  IN  /\ At(r, "row")
      /\ rows' = IF upload = "open" THEN [rows EXCEPT ![n] = request[r].body] ELSE rows
      /\ acked' = IF upload = "open"
                  THEN [acked EXCEPT ![n] = Max({@, request[r].body})] ELSE acked
      /\ Becomes(r, Idle)
      /\ UNCHANGED <<upload, files, temps, object, body>>

-----------------------------------------------------------------------------
(* CompleteMultipartUpload and AbortMultipartUpload.                       *)

Uploaded == {n \in Part : rows[n] # 0}

\* orderMultipartParts: a completion that names no parts means all of them, in
\* the order of their numbers.
Ordered(asked) ==
  IF asked # <<>> THEN {asked}
  ELSE {ps \in [1..Cardinality(Uploaded) -> Uploaded] :
          /\ Uploaded = {ps[i] : i \in DOMAIN ps}
          /\ \A i, j \in DOMAIN ps : i < j => ps[i] < ps[j]}

\* Mutant: part numbers out of order are joined as they come.
AcceptableInAnyOrder(ps) ==
  ps # <<>> /\ \A i \in 1..Len(ps) : ps[i] \in Uploaded

Acceptable(ps) ==
  /\ ps # <<>> /\ \A i \in 1..Len(ps) : ps[i] \in Uploaded
  /\ \A i \in 1..(Len(ps) - 1) : ps[i] < ps[i + 1]

CompleteMultipartUpload(r, asked) ==
  /\ request[r] = Idle /\ upload = "open"
  /\ \E ps \in Ordered(asked) :
       /\ Acceptable(ps)
       /\ Becomes(r, [op |-> "open", parts |-> ps, bodies |-> <<>>,
                      due |-> acked, asked |-> asked])
  /\ UNCHANGED <<upload, rows, files, temps, object, acked, body>>

\* openMultipartReader, a file at a time; a part that is gone is an error.
OpenPart(r) ==
  LET n == request[r].parts[Len(request[r].bodies) + 1]
  IN  /\ At(r, "open")
      /\ Len(request[r].bodies) < Len(request[r].parts)
      /\ Becomes(r, IF files[n] = 0 THEN Idle
                    ELSE [request[r] EXCEPT !.bodies = Append(@, files[n])])
      /\ UNCHANGED <<upload, rows, files, temps, object, acked, body>>

\* PutObject spools the open files: what they hold no longer changes.
PutObject(r) ==
  /\ At(r, "open") /\ Len(request[r].bodies) = Len(request[r].parts)
  /\ object' = [parts |-> request[r].parts, bodies |-> request[r].bodies,
                due |-> request[r].due, asked |-> request[r].asked]
  /\ Becomes(r, [op |-> "remove"])
  /\ UNCHANGED <<upload, rows, files, temps, acked, body>>

\* No provider takes the object: the parts stay for another completion.
PutFails(r) ==
  /\ At(r, "open") /\ Len(request[r].bodies) = Len(request[r].parts)
  /\ Becomes(r, Idle)
  /\ UNCHANGED <<upload, rows, files, temps, object, acked, body>>

\* An abort asks for nothing: not even that the upload exists.
AbortMultipartUpload(r) ==
  /\ request[r] = Idle /\ upload # "none"
  /\ Becomes(r, [op |-> "remove"])
  /\ UNCHANGED <<upload, rows, files, temps, object, acked, body>>

\* Mutant: the files of the parts that were not joined are left behind.
RemoveFilesOfRows(r) ==
  /\ At(r, "remove")
  /\ "late" \in Hazards \/ InFlight(PartOps) = {}
  /\ files' = [n \in Part |-> IF rows[n] # 0 THEN 0 ELSE files[n]]
  /\ temps' = {}
  /\ Becomes(r, [op |-> "drop"])
  /\ UNCHANGED <<upload, rows, object, acked, body>>

\* cleanupMultipart: every file of the directory, then the rows.
RemoveFiles(r) ==
  /\ At(r, "remove")
  /\ "late" \in Hazards \/ InFlight(PartOps) = {}
  /\ files' = Nothing /\ temps' = {}
  /\ Becomes(r, [op |-> "drop"])
  /\ UNCHANGED <<upload, rows, object, acked, body>>

DeleteMultipartUpload(r) ==
  /\ At(r, "drop")
  /\ upload' = "gone" /\ rows' = Nothing
  /\ Becomes(r, Idle)
  /\ UNCHANGED <<files, temps, object, acked, body>>

\* The client or the process goes away in the middle of a request.
Crash(r) ==
  /\ request[r] # Idle
  /\ Becomes(r, Idle)
  /\ temps' = temps \ {r}
  /\ UNCHANGED <<upload, rows, files, object, acked, body>>

-----------------------------------------------------------------------------
MultiInit ==
  /\ upload = "none" /\ rows = Nothing /\ files = Nothing /\ temps = {}
  /\ request = [r \in Request |-> Idle]
  /\ object = NoObject /\ acked = Nothing /\ body = 0

MultiNext ==
  \/ CreateMultipartUpload
  \/ \E r \in Request :
       \/ \E n \in Part : UploadPart(r, n)
       \/ StagePart(r) \/ CommitPart(r) \/ SavePart(r)
       \/ \E asked \in PartList : CompleteMultipartUpload(r, asked)
       \/ OpenPart(r) \/ PutObject(r) \/ PutFails(r)
       \/ AbortMultipartUpload(r) \/ RemoveFiles(r) \/ DeleteMultipartUpload(r)
       \/ Crash(r)

MultiSpec == MultiInit /\ [][MultiNext]_multiVars

\* The object a completion makes has the parts it was asked for, all of them
\* when it was asked for none by name, in ascending order, and no part is
\* older than the last one a client was told had been accepted before.
CompletedIsCurrent ==
  LET o == object
  IN  /\ \A i \in 1..Len(o.parts) : o.bodies[i] >= o.due[o.parts[i]]
      /\ \A i, j \in 1..Len(o.parts) : i < j => o.parts[i] < o.parts[j]
      /\ o.asked = <<>> =>
           {n \in Part : o.due[n] # 0} \subseteq {o.parts[i] : i \in 1..Len(o.parts)}

\* Once its requests have ended, an upload that is gone has left nothing in
\* the staging directory: no part outlives a completion or an abort.
StagingIsOwned ==
  upload = "gone" /\ InFlight(PartOps \cup EndOps) = {} => files = Nothing
=============================================================================
