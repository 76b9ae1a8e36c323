------------------------------- MODULE Upload -------------------------------
(***************************************************************************)
(* Service.PutObject (internal/app/service.go): the loop that chooses an   *)
(* account, reserves room on it, sends the spooled body, fails over to the *)
(* next account or commits, and finally writes the object index.  Uploads  *)
(* run concurrently, in one process or in several, over the ledger of      *)
(* ProviderQuota; every call to the database or to a provider is one step. *)
(*                                                                         *)
(* Each upload has its own key here, so a remote object is the upload that *)
(* stored it.  The body is already spooled: its size is known.             *)
(***************************************************************************)
EXTENDS Placement

CONSTANTS Upload,   \* requests
          SizeOf,   \* the size of each request's body
          Failures, \* kinds of provider errors, a subset of FailureKind
          Hazards   \* what may go wrong in a behaviour, a subset of HazardKinds

\* The kinds of provider.Error; an untyped error is handled like permanent.
Transient == {"quota", "credentials", "throttled", "unavailable"}
FailureKind == Transient \cup {"permanent"}

HazardKinds == {"crash",      \* the process of an upload dies
                "cancel",     \* the client goes away and cancels the context
                "db",         \* any database call may return an error
                "lostreply",  \* a provider stores a body and the reply is lost
                "slow",       \* an upload outlives its reservation
                "admin",      \* an administrator edits or deletes accounts
                "recreate",   \* ... and creates a deleted one again
                "reconcile"}  \* usage is measured while uploads run

\* The bytes of the bodies of a set of uploads.
Bodies == [u \in Upload |-> [bytes |-> SizeOf[u]]]
BytesOf(S) == SumBytes(Bodies, S)

ASSUME UploadAssumption ==
  /\ ReservationID = Upload \X Provider
  /\ SizeOf \in [Upload -> Size]
  /\ \A S \in SUBSET Upload : BytesOf(S) \in Size
  /\ Failures \subseteq FailureKind
  /\ Hazards \subseteq HazardKinds

VARIABLES pc,         \* where an upload is in PutObject
          at,         \* primary: the account of the current attempt
          tried,      \* excluded: accounts this upload no longer considers
          cause,      \* the kind of the provider error being handled
          cancelled,  \* the request context is done
          blobs,      \* <<p, u>>: the account's remote bucket holds u's body
          indexed,    \* the objects table: uploads with a row, at account at[u]
          listing     \* per account, the total a running reconciliation counted

requestVars == <<pc, at, tried, cause>>
uploadVars == <<pc, at, tried, cause, cancelled, blobs, indexed, listing>>
vars == <<ledgerVars, uploadVars>>

Ended == {"done", "failed", "crashed"}
Label == Ended \cup {"choose", "reserve", "put", "release", "mark", "commit",
                     "undo", "undoDelete", "index"}
NoListing == -1
NoProvider == "none"

Active(u) == pc[u] \notin Ended
\* An upload tries an account once: that names its reservation.
ReservationOf(u) == <<u, at[u]>>

StoredOn(p) == {u \in Upload : <<p, u>> \in blobs}
IndexedOn(p) == {u \in indexed : at[u] = p}

\* A call with a cancelled context fails; any other only if the database does.
MayFail(u) == cancelled[u] \/ "db" \in Hazards
Goto(u, label) == pc' = [pc EXCEPT ![u] = label]

----------------------------------------------------------------------------
(* The steps of one upload.                                                *)

ChooseProvider(u) ==
  /\ pc[u] = "choose"
  /\ \/ /\ ~ cancelled[u]
        /\ \E p \in Provider : /\ Choose(p, SizeOf[u], tried[u])
                               /\ at' = [at EXCEPT ![u] = p]
        /\ Goto(u, "reserve")
     \/ /\ MayFail(u) \/ Candidates(SizeOf[u], tried[u]) = {}
        /\ Goto(u, "failed")
        /\ UNCHANGED at
  /\ UNCHANGED <<ledgerVars, tried, cause, cancelled, blobs, indexed, listing>>

\* Mutant: continue without excluding the account.
TryAgain(u) == Goto(u, "choose") /\ UNCHANGED tried

\* excluded[primary.ID] = true; continue
TryNext(u) ==
  /\ tried' = [tried EXCEPT ![u] = tried[u] \cup {at[u]}]
  /\ Goto(u, "choose")

Refused(u) ==
  \/ at[u] \notin present
  \/ ~ CanReserve(account[at[u]], SizeOf[u], Margin[at[u]], MonthlyLimit[at[u]], month)

Reserve(u) ==
  /\ pc[u] = "reserve"
  /\ \/ /\ ~ cancelled[u]
        /\ ReserveProviderCapacity(ReservationOf(u), at[u], SizeOf[u])
        /\ Goto(u, "put")
        /\ UNCHANGED tried
     \/ /\ ~ cancelled[u]
        /\ Refused(u)
        /\ TryNext(u)
        /\ UNCHANGED ledgerVars
     \/ /\ MayFail(u)
        /\ Goto(u, "failed")
        /\ UNCHANGED <<ledgerVars, tried>>
  /\ UNCHANGED <<at, cause, cancelled, blobs, indexed, listing>>

\* A provider call.  A failed one stored nothing, unless its reply was lost or
\* the context was cancelled while the body was under way.  A spool that cannot
\* be rewound, or a provider kind that is not registered, fails like permanent.
ProviderPut(u) ==
  /\ pc[u] = "put"
  /\ \/ /\ ~ cancelled[u]
        /\ blobs' = blobs \cup {<<at[u], u>>}
        /\ Goto(u, "commit")
        /\ UNCHANGED cause
     \/ /\ \E k \in Failures : cause' = [cause EXCEPT ![u] = k]
        /\ \/ UNCHANGED blobs
           \/ /\ "lostreply" \in Hazards \/ cancelled[u]
              /\ blobs' = blobs \cup {<<at[u], u>>}
        /\ Goto(u, "release")
  /\ UNCHANGED <<ledgerVars, at, tried, cancelled, indexed, listing>>

\* Mutant: the bytes are given back whether or not the row is still there.
ReleaseBlindly(u) ==
  /\ at[u] \in present
  /\ account' = [account EXCEPT ![at[u]] = [account[at[u]] EXCEPT
                   !.reserved = ClampedMinus(account[at[u]].reserved, SizeOf[u])]]
  /\ UNCHANGED <<present, reservations, month>>

\* _ = Store.ReleaseProviderReservation: the error is ignored, and a row that
\* is gone (expired and recovered, or deleted with its account) is no error.
ReleaseIgnoringErrors(u) ==
  \/ ~ cancelled[u] /\ ReleaseProviderReservation(ReservationOf(u))
  \/ /\ MayFail(u) \/ ReservationOf(u) \notin DOMAIN reservations
     /\ UNCHANGED ledgerVars

\* Mutant: a permanent error returns before the reservation is released.
ReleaseTransient(u) ==
  /\ pc[u] = "release"
  /\ IF cause[u] = "permanent" THEN UNCHANGED ledgerVars ELSE ReleaseIgnoringErrors(u)
  /\ Goto(u, "mark")
  /\ UNCHANGED <<at, tried, cause, cancelled, blobs, indexed, listing>>

Release(u) ==
  /\ pc[u] = "release"
  /\ ReleaseIgnoringErrors(u)
  /\ Goto(u, "mark")
  /\ UNCHANGED <<at, tried, cause, cancelled, blobs, indexed, listing>>

\* Mutant: permanent errors are recorded on the account too.
RecordAnyWriteFailure(u) ==
  /\ pc[u] = "mark"
  /\ MarkProviderUnavailable(at[u], cause[u], NoTime)
  /\ IF cause[u] = "permanent"
     THEN Goto(u, "failed") /\ UNCHANGED tried
     ELSE TryNext(u)
  /\ cause' = [cause EXCEPT ![u] = ""]
  /\ UNCHANGED <<at, cancelled, blobs, indexed, listing>>

\* recordProviderWriteFailure, then failover or the error to the client.
RecordProviderWriteFailure(u) ==
  /\ pc[u] = "mark"
  /\ \/ /\ ~ cancelled[u] /\ cause[u] \in Transient /\ at[u] \in present
        /\ MarkProviderUnavailable(at[u], cause[u],
             IF cause[u] \in Retryable THEN RetryAfter ELSE NoTime)
     \/ /\ MayFail(u) \/ cause[u] = "permanent" \/ at[u] \notin present
        /\ UNCHANGED ledgerVars
  /\ IF cause[u] = "permanent"
     THEN Goto(u, "failed") /\ UNCHANGED tried
     ELSE TryNext(u)
  /\ cause' = [cause EXCEPT ![u] = ""]
  /\ UNCHANGED <<at, cancelled, blobs, indexed, listing>>

\* Mutant: an expired reservation is taken for a committed one.
CommitOrGone(u) ==
  /\ pc[u] = "commit"
  /\ \/ ~ cancelled[u] /\ CommitProviderReservation(ReservationOf(u), SizeOf[u])
     \/ ReservationOf(u) \notin DOMAIN reservations /\ UNCHANGED ledgerVars
  /\ Goto(u, "index")
  /\ UNCHANGED <<at, tried, cause, cancelled, blobs, indexed, listing>>

Commit(u) ==
  /\ pc[u] = "commit"
  /\ \/ /\ ~ cancelled[u]
        /\ CommitProviderReservation(ReservationOf(u), SizeOf[u])
        /\ Goto(u, "index")
     \/ /\ MayFail(u) \/ ReservationOf(u) \notin DOMAIN reservations
        /\ Goto(u, "undo")
        /\ UNCHANGED ledgerVars
  /\ UNCHANGED <<at, tried, cause, cancelled, blobs, indexed, listing>>

UndoReservation(u) ==
  /\ pc[u] = "undo"
  /\ ReleaseIgnoringErrors(u)
  /\ Goto(u, "undoDelete")
  /\ UNCHANGED <<at, tried, cause, cancelled, blobs, indexed, listing>>

\* Mutant: the undo path falls through to the index instead of returning.
UndoPutFallsThrough(u) ==
  /\ pc[u] = "undoDelete"
  /\ ~ cancelled[u] /\ blobs' = blobs \ {<<at[u], u>>}
  /\ Goto(u, "index")
  /\ UNCHANGED <<ledgerVars, at, tried, cause, cancelled, indexed, listing>>

\* _ = adapter.Delete: the error is ignored, and a cancelled call never leaves
\* the process.
UndoPut(u) ==
  /\ pc[u] = "undoDelete"
  /\ \/ ~ cancelled[u] /\ blobs' = blobs \ {<<at[u], u>>}
     \/ UNCHANGED blobs
  /\ Goto(u, "failed")
  /\ UNCHANGED <<ledgerVars, at, tried, cause, cancelled, indexed, listing>>

\* Store.PutObject; the foreign key refuses an account that is gone.
WriteIndex(u) ==
  /\ pc[u] = "index"
  /\ \/ /\ ~ cancelled[u] /\ at[u] \in present
        /\ indexed' = indexed \cup {u}
        /\ Goto(u, "done")
     \/ /\ MayFail(u) \/ at[u] \notin present
        /\ Goto(u, "failed")
        /\ UNCHANGED indexed
  /\ UNCHANGED <<ledgerVars, at, tried, cause, cancelled, blobs, listing>>

UploadStep(u) ==
  \/ ChooseProvider(u) \/ Reserve(u) \/ ProviderPut(u) \/ Release(u)
  \/ RecordProviderWriteFailure(u) \/ Commit(u) \/ UndoReservation(u)
  \/ UndoPut(u) \/ WriteIndex(u)

----------------------------------------------------------------------------
(* What happens around them.                                               *)

Crash(u) ==
  /\ "crash" \in Hazards
  /\ Active(u)
  /\ Goto(u, "crashed")
  /\ at' = [at EXCEPT ![u] = NoProvider]
  /\ tried' = [tried EXCEPT ![u] = {}]
  /\ cause' = [cause EXCEPT ![u] = ""]
  /\ UNCHANGED <<ledgerVars, cancelled, blobs, indexed, listing>>

Cancel(u) ==
  /\ "cancel" \in Hazards
  /\ Active(u) /\ ~ cancelled[u]
  /\ cancelled' = [cancelled EXCEPT ![u] = TRUE]
  /\ UNCHANGED <<ledgerVars, requestVars, blobs, indexed, listing>>

\* The provider clients' timeouts keep an upload within the hour of its
\* reservation, unless the body is slow.
TimePasses ==
  /\ "slow" \in Hazards
       \/ \A u \in Upload : Active(u) /\ ReservationOf(u) \in DOMAIN reservations
            => reservations[ReservationOf(u)].expires > 1
  /\ Tick
  /\ UNCHANGED uploadVars

RecoverExpired == RecoverExpiredProviderReservations /\ UNCHANGED uploadVars

MonthPasses == NewMonth /\ UNCHANGED uploadVars

\* Mutant: the index is summed instead of the remote bucket.
StartIndexSum(p) ==
  /\ "reconcile" \in Hazards
  /\ p \in present /\ account[p].enabled /\ listing[p] = NoListing
  /\ listing' = [listing EXCEPT ![p] = BytesOf(IndexedOn(p))]
  /\ UNCHANGED <<ledgerVars, requestVars, cancelled, blobs, indexed>>

\* ReconcileProviderQuota lists the remote bucket ...
StartListing(p) ==
  /\ "reconcile" \in Hazards
  /\ p \in present /\ account[p].enabled /\ listing[p] = NoListing
  /\ listing' = [listing EXCEPT ![p] = BytesOf(StoredOn(p))]
  /\ UNCHANGED <<ledgerVars, requestVars, cancelled, blobs, indexed>>

\* ... and then writes the total it counted over used_bytes.
FinishListing(p) ==
  /\ listing[p] # NoListing
  /\ \/ SetProviderUsage(p, listing[p])
     \/ p \notin present /\ UNCHANGED ledgerVars
  /\ listing' = [listing EXCEPT ![p] = NoListing]
  /\ UNCHANGED <<requestVars, cancelled, blobs, indexed>>

\* objects.provider_account_id has a foreign key without a cascade.
AdminDeletesProvider(p) ==
  /\ "admin" \in Hazards
  /\ IndexedOn(p) = {}
  /\ DeleteProvider(p)
  /\ UNCHANGED uploadVars

AdminSavesProvider(p) ==
  /\ "admin" \in Hazards
  /\ p \notin present => "recreate" \in Hazards
  /\ \E e \in BOOLEAN, c \in Capacity : UpsertProvider(p, e, c)
  /\ UNCHANGED uploadVars

----------------------------------------------------------------------------
UploadInit ==
  /\ Init
  /\ pc = [u \in Upload |-> "choose"]
  /\ at = [u \in Upload |-> NoProvider]
  /\ tried = [u \in Upload |-> {}]
  /\ cause = [u \in Upload |-> ""]
  /\ cancelled = [u \in Upload |-> FALSE]
  /\ blobs = {}
  /\ indexed = {}
  /\ listing = [p \in Provider |-> NoListing]

UploadNext ==
  \/ \E u \in Upload : UploadStep(u) \/ Crash(u) \/ Cancel(u)
  \/ TimePasses \/ RecoverExpired \/ MonthPasses
  \/ \E p \in Provider : \/ StartListing(p) \/ FinishListing(p)
                         \/ AdminDeletesProvider(p) \/ AdminSavesProvider(p)

UploadSpec == UploadInit /\ [][UploadNext]_vars

(***************************************************************************)
(* Fairness.  A request's goroutine keeps running and each of its calls    *)
(* returns: the provider clients have timeouts, the database a busy limit. *)
(* The clock advances.  The quota worker's ticker fires every interval,    *)
(* recovers what has expired and lists every enabled account.              *)
(***************************************************************************)
Fairness ==
  /\ \A u \in Upload : WF_vars(UploadStep(u))
  /\ WF_vars(TimePasses)
  /\ WF_vars(RecoverExpired)
  /\ \A p \in Provider : WF_vars(StartListing(p)) /\ WF_vars(FinishListing(p))

FairUploadSpec == UploadSpec /\ Fairness

----------------------------------------------------------------------------
UploadTypeOK ==
  /\ TypeOK
  /\ pc \in [Upload -> Label]
  /\ at \in [Upload -> Provider \cup {NoProvider}]
  /\ tried \in [Upload -> SUBSET Provider]
  /\ cause \in [Upload -> FailureKind \cup {""}]
  /\ cancelled \in [Upload -> BOOLEAN]
  /\ blobs \subseteq Provider \X Upload
  /\ indexed \subseteq Upload
  /\ listing \in [Provider -> Size \cup {NoListing}]

\* The bodies on an account never exceed its configured capacity, whatever
\* uploads race for its last bytes (README.md: "Configured capacity is a hard
\* BucketMux limit").
StoredWithinCapacity ==
  \A p \in Provider :
    account[p].capacity > 0 => BytesOf(StoredOn(p)) <= account[p].capacity

\* A reservation is only held by an attempt that still needs it: no path of
\* the failover loop leaves one behind to block others for an hour.
ReservationsAreInFlight ==
  \A id \in DOMAIN reservations :
    /\ id = ReservationOf(id[1])
    /\ pc[id[1]] \in {"put", "release", "commit", "undo"}

\* Whatever crashes, expires, is cancelled or is lost: the objects a client
\* was promised on an account are in its used_bytes, so later reservations
\* cannot hand out their room again.
IndexedIsCharged ==
  \A p \in Provider : BytesOf(IndexedOn(p)) <= account[p].used

\* An indexed object is readable: its body is on the account the index names,
\* which still exists; failover and undo never remove the copy that counts.
IndexedIsStored ==
  \A u \in indexed : at[u] \in present /\ <<at[u], u>> \in blobs

\* Every request ends: failover runs out of accounts to try.
UploadTerminates == <>(\A u \in Upload : pc[u] \in Ended)

\* A reservation whose upload died is given back: in the end none is held.
ReservationEventuallyFreed == <>[](DOMAIN reservations = {})

\* Once uploads have ended, reconciliation makes the used_bytes of an enabled
\* account exactly what its bucket holds, orphans of failed uploads included.
UsageConverges ==
  <>[](\A p \in Provider :
         p \in present /\ account[p].enabled => account[p].used = BytesOf(StoredOn(p)))
=============================================================================
