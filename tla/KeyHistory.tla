----------------------------- MODULE KeyHistory -----------------------------
(***************************************************************************)
(* What the S3 gateway promises about one key of a bucket: a history of    *)
(* versions and delete markers, of which the newest entry is what a read   *)
(* of the key answers.  An object written before versioning was enabled    *)
(* stands outside the history until the next write or delete moves it in   *)
(* as the null version.  ObjectProtection implements this specification.   *)
(***************************************************************************)
EXTENDS Integers, Sequences

CONSTANTS Id,        \* version ids, 0 for the null version
          Content,   \* what a body can hold
          NoContent  \* what a delete marker holds and a miss answers: no Content

VARIABLES history,  \* versions and markers, oldest first
          null,     \* the content of an object that has no version yet
          current   \* what GET of the key answers

histVars == <<history, null, current>>

Entry == [id : Id, content : Content \cup {NoContent}]

\* The null version a first versioned write makes of an unversioned object.
NullEntry == IF null = NoContent THEN <<>> ELSE <<[id |-> 0, content |-> null]>>

\* A read answers the newest entry; a marker, or nothing at all, is a miss.
Newest(h, n) ==
  IF n # NoContent THEN n
  ELSE IF h = <<>> THEN NoContent ELSE h[Len(h)].content

Becomes(h, n) == history' = h /\ null' = n /\ current' = Newest(h, n)

WriteNull == \E c \in Content : history = <<>> /\ Becomes(history, c)

DropNull == null # NoContent /\ Becomes(history, NoContent)

Append1(e) == Becomes(history \o NullEntry \o <<e>>, NoContent)

Grows == Len(history') > Len(history)

WriteVersion == Grows /\ \E e \in Entry : e.content # NoContent /\ Append1(e)

WriteMarker == Grows /\ \E e \in Entry : e.content = NoContent /\ Append1(e)

DropVersion ==
  /\ Len(history') < Len(history)
  /\ \E i \in DOMAIN history :
       Becomes([j \in 1..(Len(history) - 1) |->
                  history[IF j < i THEN j ELSE j + 1]], null)

HistInit == history = <<>> /\ null = NoContent /\ current = NoContent

HistNext == WriteNull \/ DropNull \/ WriteVersion \/ WriteMarker \/ DropVersion

HistSpec == HistInit /\ [][HistNext]_histVars
=============================================================================
