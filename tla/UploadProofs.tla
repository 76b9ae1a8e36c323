---------------------------- MODULE UploadProofs ----------------------------
(***************************************************************************)
(* PutObject against its promises, for any number of uploads and accounts: *)
(* its steps are transactions of the ledger, what it indexes is stored,    *)
(* and it leaves no reservation behind.                                    *)
(***************************************************************************)
EXTENDS Upload, ProviderQuotaProofs

RequestTypes ==
  /\ pc \in [Upload -> Label]
  /\ at \in [Upload -> Provider \cup {NoProvider}]
  /\ tried \in [Upload -> SUBSET Provider]
  /\ cause \in [Upload -> FailureKind \cup {""}]
  /\ cancelled \in [Upload -> BOOLEAN]
  /\ blobs \subseteq Provider \X Upload
  /\ indexed \subseteq Upload
  /\ listing \in [Provider -> Size \cup {NoListing}]

\* The labels between Choose and the end of an attempt, and those after the
\* provider accepted the body.
Attempting == {"reserve", "put", "release", "mark", "commit", "undo",
               "undoDelete", "index", "done"}
Accepted == {"commit", "undo", "undoDelete", "index"}

\* Why an indexed object is stored: from the provider's answer on, the body
\* is there, and only the path that never indexes it removes it.
AttemptInv ==
  \A u \in Upload :
    /\ pc[u] \in Attempting => at[u] \in Provider
    /\ pc[u] \in Accepted => <<at[u], u>> \in blobs
    /\ u \in indexed => /\ pc[u] = "done"
                        /\ at[u] \in present
                        /\ <<at[u], u>> \in blobs

UploadInv == LedgerInv /\ RequestTypes /\ AttemptInv

\* An upload that is waiting to be served satisfies the invariant.
LEMMA InitUploadInv == UploadInit => UploadInv
<1> SUFFICES ASSUME UploadInit PROVE UploadInv
  OBVIOUS
<1>1. LedgerInv
  BY InitLedgerInv DEF UploadInit
<1>2. RequestTypes
  BY DEF UploadInit, RequestTypes, Label, NoListing
<1>3. AttemptInv
  BY DEF UploadInit, AttemptInv, Attempting, Accepted
<1>4. QED
  BY <1>1, <1>2, <1>3 DEF UploadInv

\* The steps of a request are transactions of the ledger, or leave it alone.
LEMMA UploadStepIsLedgerStep ==
  ASSUME UploadInv, NEW u \in Upload, UploadStep(u)
  PROVE  [Next]_ledgerVars
<1> USE UploadAssumption DEF UploadInv, LedgerInv, TypeOK, RequestTypes, AttemptInv
<1>0. SizeOf[u] \in Size
  OBVIOUS
<1>1. CASE Reserve(u)
  <2>1. CASE ReserveProviderCapacity(ReservationOf(u), at[u], SizeOf[u])
    <3>1. at[u] \in Provider
      BY <2>1 DEF ReserveProviderCapacity
    <3>2. ReservationOf(u) \in ReservationID
      BY <3>1 DEF ReservationOf
    <3>3. QED
      BY <1>0, <2>1, <3>1, <3>2 DEF Next
  <2>2. CASE UNCHANGED ledgerVars
    BY <2>2
  <2>3. QED
    BY <1>1, <2>1, <2>2 DEF Reserve
<1>2. ASSUME ReleaseIgnoringErrors(u)
      PROVE  [Next]_ledgerVars
  <2>1. CASE ReleaseProviderReservation(ReservationOf(u))
    <3>1. ReservationOf(u) \in ReservationID
      BY <2>1 DEF ReleaseProviderReservation
    <3>2. QED
      BY <2>1, <3>1 DEF Next
  <2>2. QED
    BY <1>2, <2>1 DEF ReleaseIgnoringErrors
<1>3. CASE RecordProviderWriteFailure(u)
  <2>1. CASE at[u] \in present
         /\ cause[u] \in Transient
         /\ MarkProviderUnavailable(at[u], cause[u],
              IF cause[u] \in Retryable THEN RetryAfter ELSE NoTime)
    <3>1. at[u] \in Provider
      BY <2>1
    <3>2. SetAvailability(at[u])
      <4>1. CASE cause[u] \in Retryable
        BY <2>1, <4>1 DEF SetAvailability
      <4>2. CASE cause[u] \notin Retryable
        <5>1. cause[u] \in Status \ {"", "throttled"}
          BY <2>1, <4>2 DEF Transient, Retryable, Status
        <5>2. QED
          BY <2>1, <4>2, <5>1 DEF SetAvailability
      <4>3. QED
        BY <4>1, <4>2
    <3>3. QED
      BY <3>1, <3>2 DEF Next
  <2>2. CASE UNCHANGED ledgerVars
    BY <2>2
  <2>3. QED
    BY <1>3, <2>1, <2>2 DEF RecordProviderWriteFailure
<1>4. CASE Commit(u)
  <2>1. CASE CommitProviderReservation(ReservationOf(u), SizeOf[u])
    <3>1. ReservationOf(u) \in ReservationID
      BY <2>1 DEF CommitProviderReservation
    <3>2. QED
      BY <1>0, <2>1, <3>1 DEF Next
  <2>2. CASE UNCHANGED ledgerVars
    BY <2>2
  <2>3. QED
    BY <1>4, <2>1, <2>2 DEF Commit
<1>5. CASE Release(u) \/ UndoReservation(u)
  BY <1>2, <1>5 DEF Release, UndoReservation
<1>6. CASE ChooseProvider(u) \/ ProviderPut(u) \/ UndoPut(u) \/ WriteIndex(u)
  BY <1>6 DEF ChooseProvider, ProviderPut, UndoPut, WriteIndex
<1>7. QED
  BY <1>1, <1>3, <1>4, <1>5, <1>6 DEF UploadStep

\* So are the steps around them: recovery, the clock, measurements, edits.
LEMMA NextIsLedgerStep ==
  ASSUME UploadInv, [UploadNext]_vars
  PROVE  [Next]_ledgerVars
<1>1. CASE UNCHANGED vars
  BY <1>1 DEF vars
<1>2. ASSUME NEW u \in Upload, UploadStep(u) \/ Crash(u) \/ Cancel(u)
      PROVE  [Next]_ledgerVars
  BY <1>2, UploadStepIsLedgerStep DEF Crash, Cancel
<1>3. CASE TimePasses \/ RecoverExpired \/ MonthPasses
  BY <1>3 DEF TimePasses, RecoverExpired, MonthPasses, Next
<1>4. ASSUME NEW p \in Provider, StartListing(p) \/ FinishListing(p)
      PROVE  [Next]_ledgerVars
  <2>1. CASE SetProviderUsage(p, listing[p]) /\ listing[p] # NoListing
    <3>1. listing[p] \in Size
      BY <2>1 DEF UploadInv, RequestTypes
    <3>2. QED
      BY <2>1, <3>1 DEF Next, Measure
  <2>2. QED
    BY <1>4, <2>1 DEF StartListing, FinishListing
<1>5. ASSUME NEW p \in Provider, AdminDeletesProvider(p) \/ AdminSavesProvider(p)
      PROVE  [Next]_ledgerVars
  BY <1>5 DEF AdminDeletesProvider, AdminSavesProvider, Next, Administer
<1>6. QED
  BY <1>1, <1>2, <1>3, <1>4, <1>5 DEF UploadNext

\* A request moves between the labels of PutObject.
LEMMA LabelsTyped ==
  ASSUME UploadInv, NEW u \in Upload, NEW l \in Label, Goto(u, l)
  PROVE  pc' \in [Upload -> Label]
BY DEF UploadInv, RequestTypes, Goto

\* The account of an attempt joins the excluded ones.
LEMMA TriedTyped ==
  ASSUME UploadInv, NEW u \in Upload, pc[u] \in Attempting,
         tried' = [tried EXCEPT ![u] = tried[u] \cup {at[u]}]
  PROVE  tried' \in [Upload -> SUBSET Provider]
BY DEF UploadInv, RequestTypes, AttemptInv

\* The types of the request variables survive every step of a request.
LEMMA StepRequestTypes ==
  ASSUME UploadInv, NEW u \in Upload, UploadStep(u)
  PROVE  RequestTypes'
<1>1. /\ pc \in [Upload -> Label]
      /\ at \in [Upload -> Provider \cup {NoProvider}]
      /\ tried \in [Upload -> SUBSET Provider]
      /\ cause \in [Upload -> FailureKind \cup {""}]
      /\ blobs \subseteq Provider \X Upload
      /\ indexed \subseteq Upload
  BY DEF UploadInv, RequestTypes
<1>2. {"reserve", "failed", "put", "choose", "commit", "release", "mark", "index",
       "undo", "undoDelete", "done"} \subseteq Label
  BY DEF Label, Ended
<1>3. pc' \in [Upload -> Label]
  BY <1>2, LabelsTyped
     DEF UploadStep, ChooseProvider, Reserve, TryNext, ProviderPut, Release,
         RecordProviderWriteFailure, Commit, UndoReservation, UndoPut, WriteIndex
<1>4. at' \in [Upload -> Provider \cup {NoProvider}]
  <2>1. CASE ChooseProvider(u)
    BY <1>1, <2>1 DEF ChooseProvider
  <2>2. CASE ~ ChooseProvider(u)
    BY <1>1, <2>2
       DEF UploadStep, Reserve, ProviderPut, Release, RecordProviderWriteFailure,
           Commit, UndoReservation, UndoPut, WriteIndex
  <2>3. QED
    BY <2>1, <2>2
<1>5. tried' \in [Upload -> SUBSET Provider]
  <2>1. CASE tried' = [tried EXCEPT ![u] = tried[u] \cup {at[u]}]
             /\ pc[u] \in {"reserve", "mark"}
    BY <2>1, TriedTyped DEF Attempting
  <2>2. CASE UNCHANGED tried
    BY <1>1, <2>2
  <2>3. QED
    BY <2>1, <2>2
       DEF UploadStep, ChooseProvider, Reserve, TryNext, ProviderPut, Release,
           RecordProviderWriteFailure, Commit, UndoReservation, UndoPut, WriteIndex
<1>6. cause' \in [Upload -> FailureKind \cup {""}]
  <2>1. CASE \E k \in FailureKind \cup {""} : cause' = [cause EXCEPT ![u] = k]
    BY <1>1, <2>1
  <2>2. CASE UNCHANGED cause
    BY <1>1, <2>2
  <2>3. QED
    BY <2>1, <2>2, UploadAssumption
       DEF UploadStep, ChooseProvider, Reserve, ProviderPut, Release,
           RecordProviderWriteFailure, Commit, UndoReservation, UndoPut, WriteIndex
<1>7. blobs' \subseteq Provider \X Upload
  <2>1. pc[u] = "put" => at[u] \in Provider
    BY DEF UploadInv, AttemptInv, Attempting
  <2>2. CASE ProviderPut(u)
    <3>1. blobs' \subseteq blobs \cup {<<at[u], u>>}
      BY <2>2 DEF ProviderPut
    <3>2. <<at[u], u>> \in Provider \X Upload
      BY <2>1, <2>2 DEF ProviderPut
    <3>3. QED
      BY <1>1, <3>1, <3>2
  <2>3. CASE ~ ProviderPut(u)
    BY <1>1, <2>3
       DEF UploadStep, ChooseProvider, Reserve, Release, RecordProviderWriteFailure,
           Commit, UndoReservation, UndoPut, WriteIndex
  <2>4. QED
    BY <2>2, <2>3
<1>8. indexed' \subseteq Upload
  BY <1>1
     DEF UploadStep, ChooseProvider, Reserve, ProviderPut, Release,
         RecordProviderWriteFailure, Commit, UndoReservation, UndoPut, WriteIndex
<1>9. UNCHANGED <<cancelled, listing>>
  BY DEF UploadStep, ChooseProvider, Reserve, ProviderPut, Release,
         RecordProviderWriteFailure, Commit, UndoReservation, UndoPut, WriteIndex
<1>10. QED
  BY <1>3, <1>4, <1>5, <1>6, <1>7, <1>8, <1>9 DEF UploadInv, RequestTypes

\* And every step around the requests.
LEMMA NextRequestTypes ==
  ASSUME UploadInv, [UploadNext]_vars
  PROVE  RequestTypes'
<1>1. ASSUME UNCHANGED uploadVars
      PROVE  RequestTypes'
  BY <1>1 DEF UploadInv, RequestTypes, uploadVars
<1>2. ASSUME NEW u \in Upload, Crash(u)
      PROVE  RequestTypes'
  <2>1. pc' \in [Upload -> Label]
    BY <1>2, LabelsTyped DEF Crash, Label, Ended
  <2>2. QED
    BY <1>2, <2>1 DEF Crash, UploadInv, RequestTypes
<1>3. ASSUME NEW u \in Upload, Cancel(u)
      PROVE  RequestTypes'
  BY <1>3 DEF Cancel, requestVars, UploadInv, RequestTypes
<1>4. ASSUME NEW p \in Provider, StartListing(p) \/ FinishListing(p)
      PROVE  RequestTypes'
  <2>1. BytesOf(StoredOn(p)) \in Size
    BY UploadAssumption DEF StoredOn
  <2>2. listing' \in [Provider -> Size \cup {NoListing}]
    BY <1>4, <2>1 DEF StartListing, FinishListing, UploadInv, RequestTypes
  <2>3. QED
    BY <1>4, <2>2 DEF StartListing, FinishListing, requestVars, UploadInv, RequestTypes
<1>5. QED
  BY <1>1, <1>2, <1>3, <1>4, StepRequestTypes
     DEF UploadNext, vars, TimePasses, RecoverExpired, MonthPasses,
         AdminDeletesProvider, AdminSavesProvider

\* A request neither adds nor removes accounts.
LEMMA StepKeepsAccounts ==
  ASSUME NEW u \in Upload, UploadStep(u)
  PROVE  present' = present
BY DEF UploadStep, ChooseProvider, Reserve, ProviderPut, Release,
  RecordProviderWriteFailure, Commit, UndoReservation, UndoPut, WriteIndex,
  ReleaseIgnoringErrors, ReserveProviderCapacity, CommitProviderReservation,
  ReleaseProviderReservation, MarkProviderUnavailable, ledgerVars

\* A request touches neither the state nor the body of another.
LEMMA StepKeepsOthers ==
  ASSUME UploadInv, NEW u \in Upload, UploadStep(u), NEW w \in Upload, w # u
  PROVE  /\ pc'[w] = pc[w]
         /\ at'[w] = at[w]
         /\ w \in indexed' => w \in indexed
         /\ <<at[w], w>> \in blobs => <<at[w], w>> \in blobs'
<1>1. pc'[w] = pc[w]
  BY DEF UploadInv, RequestTypes, UploadStep, ChooseProvider, Reserve, TryNext, Goto,
         ProviderPut, Release, RecordProviderWriteFailure, Commit, UndoReservation,
         UndoPut, WriteIndex
<1>2. at'[w] = at[w]
  BY DEF UploadInv, RequestTypes, UploadStep, ChooseProvider, Reserve,
         ProviderPut, Release, RecordProviderWriteFailure, Commit, UndoReservation,
         UndoPut, WriteIndex
<1>3. w \in indexed' => w \in indexed
  BY DEF UploadStep, ChooseProvider, Reserve, ProviderPut, Release,
         RecordProviderWriteFailure, Commit, UndoReservation, UndoPut, WriteIndex
<1>4. <<at[w], w>> \in blobs => <<at[w], w>> \in blobs'
  <2>1. CASE blobs' = blobs \ {<<at[u], u>>}
    BY <2>1
  <2>2. CASE blobs \subseteq blobs'
    BY <2>2
  <2>3. QED
    BY <2>1, <2>2
       DEF UploadStep, ChooseProvider, Reserve, ProviderPut, Release,
           RecordProviderWriteFailure, Commit, UndoReservation, UndoPut, WriteIndex
<1>5. QED
  BY <1>1, <1>2, <1>3, <1>4

\* A step of a request keeps what is known of every attempt.
LEMMA StepAttemptInv ==
  ASSUME UploadInv, NEW u \in Upload, UploadStep(u)
  PROVE  AttemptInv'
<1> DEFINE Known(w) == /\ pc[w] \in Attempting => at[w] \in Provider
                       /\ pc[w] \in Accepted => <<at[w], w>> \in blobs
                       /\ w \in indexed => /\ pc[w] = "done"
                                           /\ at[w] \in present
                                           /\ <<at[w], w>> \in blobs
<1>1. ASSUME NEW w \in Upload, w # u
      PROVE  Known(w)'
  BY <1>1, StepKeepsOthers, StepKeepsAccounts DEF UploadInv, AttemptInv
<1>2. /\ Known(u)
      /\ pc \in [Upload -> Label] /\ at \in [Upload -> Provider \cup {NoProvider}]
      /\ present' = present
  BY StepKeepsAccounts DEF UploadInv, AttemptInv, RequestTypes
<1>3. Known(u)'
  <2> USE DEF Goto, TryNext, Attempting, Accepted
  <2>1. CASE ChooseProvider(u)
    BY <1>2, <2>1 DEF ChooseProvider
  <2>2. CASE Reserve(u)
    BY <1>2, <2>2 DEF Reserve
  <2>3. CASE ProviderPut(u)
    BY <1>2, <2>3 DEF ProviderPut
  <2>4. CASE Release(u) \/ Commit(u) \/ UndoReservation(u)
    BY <1>2, <2>4 DEF Release, Commit, UndoReservation
  <2>5. CASE RecordProviderWriteFailure(u)
    BY <1>2, <2>5 DEF RecordProviderWriteFailure
  <2>6. CASE UndoPut(u)
    BY <1>2, <2>6 DEF UndoPut
  <2>7. CASE WriteIndex(u)
    BY <1>2, <2>7 DEF WriteIndex
  <2>8. QED
    BY <2>1, <2>2, <2>3, <2>4, <2>5, <2>6, <2>7 DEF UploadStep
<1>4. QED
  BY <1>1, <1>3 DEF AttemptInv

\* So do the steps around the requests: an account with an indexed object
\* cannot be deleted.
LEMMA NextAttemptInv ==
  ASSUME UploadInv, [UploadNext]_vars
  PROVE  AttemptInv'
<1> USE DEF UploadInv, AttemptInv
<1>1. CASE UNCHANGED vars
  BY <1>1 DEF vars, uploadVars, ledgerVars
<1>2. ASSUME NEW u \in Upload, Crash(u)
      PROVE  AttemptInv'
  <2>1. u \notin indexed
    BY <1>2 DEF Crash, Active, Ended
  <2>2. QED
    BY <1>2, <2>1 DEF Crash, Goto, Attempting, Accepted, RequestTypes, ledgerVars
<1>3. ASSUME NEW u \in Upload, Cancel(u)
      PROVE  AttemptInv'
  BY <1>3 DEF Cancel, requestVars, ledgerVars
<1>4. CASE TimePasses \/ RecoverExpired \/ MonthPasses
  BY <1>4 DEF TimePasses, RecoverExpired, MonthPasses, Tick, NewMonth,
    RecoverExpiredProviderReservations, uploadVars
<1>5. ASSUME NEW p \in Provider, StartListing(p) \/ FinishListing(p)
      PROVE  AttemptInv'
  BY <1>5 DEF StartListing, FinishListing, SetProviderUsage, requestVars, ledgerVars
<1>6. ASSUME NEW p \in Provider, AdminDeletesProvider(p)
      PROVE  AttemptInv'
  <2>1. \A u \in indexed : at[u] # p
    BY <1>6 DEF AdminDeletesProvider, IndexedOn
  <2>2. QED
    BY <1>6, <2>1 DEF AdminDeletesProvider, DeleteProvider, uploadVars
<1>7. ASSUME NEW p \in Provider, AdminSavesProvider(p)
      PROVE  AttemptInv'
  BY <1>7 DEF AdminSavesProvider, UpsertProvider, uploadVars
<1>8. QED
  BY <1>1, <1>2, <1>3, <1>4, <1>5, <1>6, <1>7, StepAttemptInv DEF UploadNext

LEMMA UploadInvariant == UploadSpec => []UploadInv
<1>1. UploadInv /\ [UploadNext]_vars => UploadInv'
  BY NextIsLedgerStep, NextLedgerInv, NextRequestTypes, NextAttemptInv DEF UploadInv
<1>2. QED
  BY <1>1, InitUploadInv, PTL DEF UploadSpec

\* Every variable of the upload model keeps its type.
THEOREM UploadTypeCorrect == UploadSpec => []UploadTypeOK
<1>1. UploadInv => UploadTypeOK
  BY DEF UploadInv, RequestTypes, LedgerInv, UploadTypeOK
<1>2. QED
  BY <1>1, UploadInvariant, PTL

\* Service.PutObject, its failover loop, its undo path and everything that
\* happens around it, is an execution of the quota ledger: what is proved of
\* the ledger holds of uploads, under every hazard.
THEOREM UploadImplementsLedger == UploadSpec => Spec
<1>1. UploadInit => Init
  BY DEF UploadInit
<1>2. UploadInv /\ [UploadNext]_vars => [Next]_ledgerVars
  BY NextIsLedgerStep
<1>3. QED
  BY <1>1, <1>2, UploadInvariant, PTL DEF UploadSpec, Spec

\* An indexed object is on the account the index names, whatever crashed, was
\* cancelled, expired, failed over or was undone around it.
THEOREM IndexedStored == UploadSpec => []IndexedIsStored
<1>1. UploadInv => IndexedIsStored
  BY DEF UploadInv, RequestTypes, AttemptInv, IndexedIsStored
<1>2. QED
  BY <1>1, UploadInvariant, PTL

Calm == {"crash", "cancel", "db"} \cap Hazards = {}
FlightInv == ReservationsAreInFlight /\ \A u \in Upload : ~ cancelled[u]

\* Where no call is cancelled, fails in the database or dies with its process,
\* a request gives its reservation back before it moves on.
LEMMA StepFlightInv ==
  ASSUME Calm, UploadInv, FlightInv, NEW u \in Upload, UploadStep(u)
  PROVE  ReservationsAreInFlight'
<1> DEFINE Held == {"put", "release", "commit", "undo"}
<1>1. /\ ~ MayFail(u) /\ ~ cancelled[u]
      /\ pc \in [Upload -> Label] /\ at \in [Upload -> Provider \cup {NoProvider}]
      /\ DOMAIN reservations \subseteq Upload \X Provider
  BY UploadAssumption DEF Calm, FlightInv, MayFail, UploadInv, RequestTypes, LedgerInv, TypeOK
<1>2. \A id \in DOMAIN reservations : id = <<id[1], at[id[1]]>> /\ pc[id[1]] \in Held
  BY DEF FlightInv, ReservationsAreInFlight, ReservationOf
<1>3. SUFFICES ASSUME NEW id \in DOMAIN reservations'
      PROVE  id = <<id[1], at'[id[1]]>> /\ pc'[id[1]] \in Held
  BY DEF ReservationsAreInFlight, ReservationOf
<1>4. ASSUME id \in DOMAIN reservations, id[1] # u
      PROVE  id = <<id[1], at'[id[1]]>> /\ pc'[id[1]] \in Held
  <2>1. id[1] \in Upload
    BY <1>1, <1>4
  <2>2. QED
    BY <1>2, <1>4, <2>1, StepKeepsOthers
<1>5. ASSUME id \in DOMAIN reservations, id[1] = u
      PROVE  id = <<u, at[u]>> /\ pc[u] \in Held
  BY <1>2, <1>5
<1> USE DEF Goto, TryNext
<1>6. CASE ChooseProvider(u) \/ ProviderPut(u) \/ UndoPut(u) \/ WriteIndex(u)
  BY <1>1, <1>4, <1>5, <1>6 DEF ChooseProvider, ProviderPut, UndoPut, WriteIndex, ledgerVars
<1>7. CASE Reserve(u)
  <2>1. CASE ReserveProviderCapacity(ReservationOf(u), at[u], SizeOf[u]) /\ Goto(u, "put")
             /\ UNCHANGED at
    <3>1. DOMAIN reservations' = DOMAIN reservations \cup {<<u, at[u]>>}
      BY <2>1 DEF ReserveProviderCapacity, ReservationOf
    <3>2. CASE id = <<u, at[u]>>
      BY <1>1, <2>1, <3>2
    <3>3. QED
      BY <1>4, <1>5, <2>1, <3>1, <3>2
  <2>2. CASE UNCHANGED ledgerVars
    BY <1>4, <1>5, <1>7, <2>2 DEF Reserve, ledgerVars
  <2>3. QED
    BY <1>7, <2>1, <2>2 DEF Reserve
<1>8. CASE Release(u) \/ UndoReservation(u)
  <2>1. ReleaseIgnoringErrors(u)
    BY <1>8 DEF Release, UndoReservation
  <2>2. DOMAIN reservations' = DOMAIN reservations \ {<<u, at[u]>>}
    BY <1>1, <2>1 DEF ReleaseIgnoringErrors, ReleaseProviderReservation, ReservationOf,
       Restrict, ledgerVars
  <2>3. QED
    BY <1>4, <1>5, <2>2
<1>9. CASE Commit(u)
  <2>1. CASE CommitProviderReservation(ReservationOf(u), SizeOf[u])
    <3>1. DOMAIN reservations' = DOMAIN reservations \ {<<u, at[u]>>}
      BY <2>1 DEF CommitProviderReservation, ReservationOf, Restrict
    <3>2. QED
      BY <1>4, <1>5, <3>1
  <2>2. CASE ReservationOf(u) \notin DOMAIN reservations /\ UNCHANGED ledgerVars
    BY <1>4, <1>5, <2>2 DEF ReservationOf, ledgerVars
  <2>3. QED
    BY <1>1, <1>9, <2>1, <2>2 DEF Commit
<1>10. CASE RecordProviderWriteFailure(u)
  <2>1. DOMAIN reservations' = DOMAIN reservations /\ pc[u] = "mark"
    BY <1>10 DEF RecordProviderWriteFailure, MarkProviderUnavailable, ledgerVars
  <2>2. QED
    BY <1>4, <1>5, <2>1
<1>11. QED
  BY <1>6, <1>7, <1>8, <1>9, <1>10 DEF UploadStep

\* Recovery, time, reconciliation and administrators only take rows away.
LEMMA NextFlightInv ==
  ASSUME Calm, UploadInv, FlightInv, [UploadNext]_vars
  PROVE  FlightInv'
<1>1. \A u \in Upload : ~ Crash(u) /\ ~ Cancel(u)
  BY DEF Calm, Crash, Cancel
<1>2. UNCHANGED cancelled
  BY <1>1 DEF UploadNext, vars, uploadVars, UploadStep, ChooseProvider, Reserve,
    ProviderPut, Release, RecordProviderWriteFailure, Commit, UndoReservation, UndoPut,
    WriteIndex, TimePasses, RecoverExpired, MonthPasses, StartListing, FinishListing,
    AdminDeletesProvider, AdminSavesProvider
<1>3. ReservationsAreInFlight'
  <2>1. ASSUME DOMAIN reservations' \subseteq DOMAIN reservations, UNCHANGED <<pc, at>>
        PROVE  ReservationsAreInFlight'
    BY <2>1 DEF FlightInv, ReservationsAreInFlight, ReservationOf
  <2>2. CASE UNCHANGED vars
    BY <2>1, <2>2 DEF vars, uploadVars, ledgerVars
  <2>3. CASE TimePasses \/ RecoverExpired \/ MonthPasses
    <3>1. DOMAIN reservations' \subseteq DOMAIN reservations
      BY <2>3 DEF TimePasses, RecoverExpired, MonthPasses, Tick, NewMonth, Restrict,
        RecoverExpiredProviderReservations
    <3>2. QED
      BY <2>1, <2>3, <3>1 DEF TimePasses, RecoverExpired, MonthPasses, uploadVars
  <2>4. ASSUME NEW p \in Provider, StartListing(p) \/ FinishListing(p)
        PROVE  ReservationsAreInFlight'
    BY <2>1, <2>4 DEF StartListing, FinishListing, SetProviderUsage, requestVars, ledgerVars
  <2>5. ASSUME NEW p \in Provider, AdminDeletesProvider(p) \/ AdminSavesProvider(p)
        PROVE  ReservationsAreInFlight'
    <3>1. DOMAIN reservations' \subseteq DOMAIN reservations
      BY <2>5 DEF AdminDeletesProvider, AdminSavesProvider, DeleteProvider,
        UpsertProvider, Restrict
    <3>2. QED
      BY <2>1, <2>5, <3>1 DEF AdminDeletesProvider, AdminSavesProvider, uploadVars
  <2>6. QED
    BY <1>1, <2>2, <2>3, <2>4, <2>5, StepFlightInv DEF UploadNext
<1>4. QED
  BY <1>2, <1>3 DEF FlightInv

\* No path through the failover loop leaves a reservation behind: in every
\* behaviour without crashes, cancelled requests and database errors, a row is
\* held by an attempt that still needs it.
THEOREM NoReservationLeft ==
  ASSUME Calm PROVE UploadSpec => []ReservationsAreInFlight
<1>1. UploadInit => FlightInv
  BY DEF UploadInit, Init, FlightInv, ReservationsAreInFlight
<1>2. UploadInv /\ FlightInv /\ [UploadNext]_vars => FlightInv'
  BY NextFlightInv
<1>3. FlightInv => ReservationsAreInFlight
  BY DEF FlightInv
<1>4. QED
  BY <1>1, <1>2, <1>3, UploadInvariant, PTL DEF UploadSpec

----------------------------------------------------------------------------
(* What a client was promised is charged.  The bodies an account is charged *)
(* for are those of uploads past their commit; a reservation names the      *)
(* account it was made on, so the commit charges the account of the body.   *)

Undisturbed == {"admin", "reconcile"} \cap Hazards = {}

ChargedOn(p) == {u \in Upload : at[u] = p /\ pc[u] \in {"index", "done"}}
Charged(p) == /\ IsFiniteSet(Slots(Bodies, ChargedOn(p)))
              /\ BytesOf(ChargedOn(p)) <= account[p].used
ChargeInv == /\ \A p \in Provider : Charged(p)
             /\ \A id \in DOMAIN reservations : reservations[id].provider = id[2]
             /\ listing = [p \in Provider |-> NoListing]

\* A charge that only loses bodies stays covered by the same counter.
LEMMA FewerBodiesCharged ==
  ASSUME UploadInv, ChargeInv, NEW p \in Provider,
         ChargedOn(p)' \subseteq ChargedOn(p), account'[p].used = account[p].used
  PROVE  Charged(p)'
<1>1. IsFiniteSet(Slots(Bodies, ChargedOn(p))) /\ BytesOf(ChargedOn(p)) <= account[p].used
  BY DEF ChargeInv, Charged
<1>2. account[p].used \in Nat
  BY DEF UploadInv, LedgerInv, TypeOK, AccountRow
<1>3. PICK A : A = ChargedOn(p)
  OBVIOUS
<1>4. PICK B : B = ChargedOn(p)'
  OBVIOUS
<1>5. /\ IsFiniteSet(Slots(Bodies, B))
      /\ SumBytes(Bodies, A) \in Nat /\ SumBytes(Bodies, B) \in Nat
      /\ SumBytes(Bodies, B) <= SumBytes(Bodies, A)
  BY <1>1, <1>3, <1>4, SumAfterDelete
<1>6. SumBytes(Bodies, B) <= account[p].used
  BY <1>1, <1>2, <1>3, <1>5 DEF BytesOf
<1>7. QED
  BY <1>4, <1>5, <1>6 DEF Charged, BytesOf

\* Reserving, releasing and marking leave used_bytes alone.
LEMMA UsedOnlyCommitted ==
  ASSUME UploadInv, NEW u \in Upload, UploadStep(u), ~ Commit(u), NEW p \in Provider
  PROVE  account'[p].used = account[p].used
<1>1. /\ account \in [Provider -> AccountRow]
      /\ \A id \in DOMAIN reservations : reservations[id].provider \in Provider
      /\ present \subseteq Provider
  BY DEF UploadInv, LedgerInv, TypeOK, ReservationRow
<1>2. CASE Reserve(u)
  <2>1. CASE ReserveProviderCapacity(ReservationOf(u), at[u], SizeOf[u])
    BY <1>1, <2>1 DEF ReserveProviderCapacity, RolledOver, AccountRow
  <2>2. QED
    BY <1>2, <2>1 DEF Reserve, ledgerVars
<1>3. CASE Release(u) \/ UndoReservation(u)
  <2>1. CASE ReleaseProviderReservation(ReservationOf(u))
    BY <1>1, <2>1 DEF ReleaseProviderReservation, AccountRow
  <2>2. QED
    BY <1>3, <2>1 DEF Release, UndoReservation, ReleaseIgnoringErrors, ledgerVars
<1>4. CASE RecordProviderWriteFailure(u)
  <2>1. ASSUME NEW status, NEW until, MarkProviderUnavailable(at[u], status, until)
        PROVE  account'[p].used = account[p].used
    BY <1>1, <2>1 DEF MarkProviderUnavailable, AccountRow
  <2>2. QED
    BY <1>4, <2>1 DEF RecordProviderWriteFailure, ledgerVars
<1>5. CASE ChooseProvider(u) \/ ProviderPut(u) \/ UndoPut(u) \/ WriteIndex(u)
  BY <1>5 DEF ChooseProvider, ProviderPut, UndoPut, WriteIndex, ledgerVars
<1>6. QED
  BY <1>2, <1>3, <1>4, <1>5 DEF UploadStep

\* The steps of a request never take a charge away, nor a body on credit.
LEMMA StepChargeInv ==
  ASSUME UploadInv, ChargeInv, NEW u \in Upload, UploadStep(u)
  PROVE  ChargeInv'
<1>1. /\ account \in [Provider -> AccountRow]
      /\ DOMAIN reservations \subseteq Upload \X Provider
      /\ pc \in [Upload -> Label] /\ at \in [Upload -> Provider \cup {NoProvider}]
  BY UploadAssumption DEF UploadInv, LedgerInv, TypeOK, RequestTypes
<1>2. ASSUME NEW p \in Provider
      PROVE  Charged(p)'
  <2>1. ASSUME NEW w \in Upload, w # u
        PROVE  w \in ChargedOn(p)' <=> w \in ChargedOn(p)
    BY <2>1, StepKeepsOthers DEF ChargedOn
  <2>2. CASE u \notin ChargedOn(p)' \/ u \in ChargedOn(p)
    <3>1. ChargedOn(p)' \subseteq ChargedOn(p)
      BY <2>1, <2>2 DEF ChargedOn
    <3>2. CASE ~ Commit(u)
      BY <3>1, <3>2, UsedOnlyCommitted, FewerBodiesCharged
    <3>3. CASE Commit(u)
      <4>1. pc[u] = "commit"
        BY <3>3 DEF Commit
      <4>2. u \notin ChargedOn(p)'
        BY <2>2, <4>1 DEF ChargedOn
      <4>3. account'[p].used = account[p].used
        <5>1. CASE CommitProviderReservation(ReservationOf(u), SizeOf[u]) /\ Goto(u, "index")
          <6>1. UNCHANGED at
            BY <3>3 DEF Commit
          <6>2. at[u] # p
            BY <1>1, <4>2, <5>1, <6>1 DEF ChargedOn, Goto
          <6>3. reservations[ReservationOf(u)].provider = at[u]
            BY <5>1 DEF ChargeInv, CommitProviderReservation, ReservationOf
          <6>4. QED
            BY <1>1, <5>1, <6>2, <6>3 DEF CommitProviderReservation
        <5>2. CASE UNCHANGED ledgerVars
          BY <5>2 DEF ledgerVars
        <5>3. QED
          BY <3>3, <5>1, <5>2 DEF Commit
      <4>4. QED
        BY <3>1, <4>3, FewerBodiesCharged
    <3>4. QED
      BY <3>2, <3>3
  <2>3. CASE u \in ChargedOn(p)' /\ u \notin ChargedOn(p)
    <3>1. pc'[u] \in {"index", "done"} /\ at'[u] = p /\ ~ (at[u] = p /\ pc[u] \in {"index", "done"})
      BY <2>3 DEF ChargedOn
    <3>2. CommitProviderReservation(ReservationOf(u), SizeOf[u]) /\ UNCHANGED at
      BY <1>1, <3>1
         DEF UploadStep, ChooseProvider, Reserve, ProviderPut, Release, TryNext, Goto,
             RecordProviderWriteFailure, Commit, UndoReservation, UndoPut, WriteIndex
    <3>3. reservations[ReservationOf(u)].provider = p
      BY <3>1, <3>2 DEF ChargeInv, CommitProviderReservation, ReservationOf
    <3>4. account[p].used \in Nat /\ SizeOf[u] \in Nat
      BY <1>1, SizeAssumption, UploadAssumption DEF AccountRow
    <3>5. account'[p].used = account[p].used + SizeOf[u]
      BY <1>1, <3>2, <3>3 DEF CommitProviderReservation, AccountRow
    <3>6. PICK A : A = ChargedOn(p)
      OBVIOUS
    <3>7. ChargedOn(p)' = A \cup {u} /\ u \notin A
      BY <2>1, <2>3, <3>6 DEF ChargedOn
    <3>8. Bodies[u].bytes = SizeOf[u]
      BY DEF Bodies
    <3>9. IsFiniteSet(Slots(Bodies, A)) /\ SumBytes(Bodies, A) <= account[p].used
      BY <3>6 DEF ChargeInv, Charged, BytesOf
    <3>10. /\ IsFiniteSet(Slots(Bodies, A \cup {u}))
           /\ SumBytes(Bodies, A \cup {u}) = SumBytes(Bodies, A) + SizeOf[u]
      BY <3>4, <3>7, <3>8, <3>9, SumAfterInsert
    <3>11. SumBytes(Bodies, A) \in Nat
      BY <3>9, FS_CardinalityType DEF SumBytes
    <3>12. SumBytes(Bodies, A \cup {u}) <= account'[p].used
      BY <3>4, <3>5, <3>9, <3>10, <3>11
    <3>13. QED
      BY <3>7, <3>10, <3>12 DEF Charged, BytesOf
  <2>4. QED
    BY <2>2, <2>3
<1>3. \A id \in DOMAIN reservations' : reservations'[id].provider = id[2]
  <2>1. CASE ReserveProviderCapacity(ReservationOf(u), at[u], SizeOf[u])
    BY <2>1 DEF ChargeInv, ReserveProviderCapacity, ReservationOf
  <2>2. CASE ReleaseProviderReservation(ReservationOf(u))
             \/ CommitProviderReservation(ReservationOf(u), SizeOf[u])
    <3>1. reservations' = Restrict(reservations, DOMAIN reservations \ {ReservationOf(u)})
      BY <2>2 DEF ReleaseProviderReservation, CommitProviderReservation
    <3>2. QED
      BY <3>1 DEF ChargeInv, Restrict
  <2>3. CASE UNCHANGED reservations
    BY <2>3 DEF ChargeInv
  <2>4. QED
    BY <2>1, <2>2, <2>3
       DEF UploadStep, ChooseProvider, Reserve, ProviderPut, Release, Commit, UndoPut,
           RecordProviderWriteFailure, UndoReservation, WriteIndex, ledgerVars,
           ReleaseIgnoringErrors, MarkProviderUnavailable
<1>4. UNCHANGED listing
  BY DEF UploadStep, ChooseProvider, Reserve, ProviderPut, Release, Commit, UndoPut,
         RecordProviderWriteFailure, UndoReservation, WriteIndex
<1>5. QED
  BY <1>2, <1>3, <1>4 DEF ChargeInv

\* Neither crashes and cancellations nor recovery and time touch used_bytes.
LEMMA NextChargeInv ==
  ASSUME Undisturbed, UploadInv, ChargeInv, [UploadNext]_vars
  PROVE  ChargeInv'
<1>1. ASSUME \A p \in Provider : account'[p].used = account[p].used,
             \A p \in Provider : ChargedOn(p)' \subseteq ChargedOn(p),
             \A id \in DOMAIN reservations' :
               id \in DOMAIN reservations
               /\ reservations'[id].provider = reservations[id].provider,
             UNCHANGED listing
      PROVE  ChargeInv'
  BY <1>1, FewerBodiesCharged DEF ChargeInv
<1>2. CASE UNCHANGED vars
  BY <1>1, <1>2 DEF vars, uploadVars, ledgerVars, ChargedOn
<1>3. ASSUME NEW u \in Upload, Crash(u) \/ Cancel(u)
      PROVE  ChargeInv'
  <2>1. \A p \in Provider : ChargedOn(p)' \subseteq ChargedOn(p)
    BY <1>3 DEF Crash, Cancel, Goto, ChargedOn, requestVars, UploadInv, RequestTypes
  <2>2. UNCHANGED ledgerVars /\ UNCHANGED listing
    BY <1>3 DEF Crash, Cancel
  <2>3. QED
    BY <1>1, <2>1, <2>2 DEF ledgerVars
<1>4. CASE TimePasses \/ RecoverExpired \/ MonthPasses
  <2>1. /\ account \in [Provider -> AccountRow]
        /\ reservations \in [DOMAIN reservations -> ReservationRow]
    BY DEF UploadInv, LedgerInv, TypeOK
  <2>2. \A p \in Provider : account'[p].used = account[p].used
    BY <1>4, <2>1 DEF TimePasses, RecoverExpired, MonthPasses, Tick, NewMonth,
       RecoverExpiredProviderReservations, AccountRow
  <2>3. \A id \in DOMAIN reservations' :
          id \in DOMAIN reservations
          /\ reservations'[id].provider = reservations[id].provider
    BY <1>4, <2>1 DEF TimePasses, RecoverExpired, MonthPasses, Tick, NewMonth, Restrict,
       RecoverExpiredProviderReservations, ReservationRow
  <2>4. UNCHANGED uploadVars
    BY <1>4 DEF TimePasses, RecoverExpired, MonthPasses
  <2>5. QED
    BY <1>1, <2>2, <2>3, <2>4 DEF uploadVars, ChargedOn
<1>5. \A p \in Provider : /\ ~ StartListing(p) /\ ~ FinishListing(p)
                          /\ ~ AdminDeletesProvider(p) /\ ~ AdminSavesProvider(p)
  BY DEF Undisturbed, ChargeInv, StartListing, FinishListing, AdminDeletesProvider,
    AdminSavesProvider
<1>6. QED
  BY <1>2, <1>3, <1>4, <1>5, StepChargeInv DEF UploadNext

\* Whatever crashes, is cancelled, expires, fails over or loses its reply: the
\* objects promised to clients are in the used_bytes of their account, as long
\* as no administrator re-creates it and no reconciliation overwrites it.
THEOREM IndexedCharged ==
  ASSUME Undisturbed PROVE UploadSpec => []IndexedIsCharged
<1>1. UploadInit => ChargeInv
  <2> SUFFICES ASSUME UploadInit PROVE ChargeInv
    OBVIOUS
  <2>1. ASSUME NEW p \in Provider
        PROVE  Charged(p)
    <3>1. Slots(Bodies, ChargedOn(p)) = {}
      BY DEF UploadInit, ChargedOn, Slots
    <3>2. IsFiniteSet({}) /\ Cardinality({}) = 0
      BY FS_EmptySet
    <3>3. account[p].used \in Nat
      BY InitUploadInv DEF UploadInv, LedgerInv, TypeOK, AccountRow
    <3>4. QED
      BY <3>1, <3>2, <3>3 DEF Charged, BytesOf, SumBytes
  <2>2. QED
    BY <2>1 DEF UploadInit, Init, ChargeInv
<1>2. UploadInv /\ ChargeInv /\ [UploadNext]_vars => ChargeInv'
  BY NextChargeInv
<1>3. UploadInv /\ ChargeInv => IndexedIsCharged
  <2> SUFFICES ASSUME UploadInv, ChargeInv, NEW p \in Provider
               PROVE  BytesOf(IndexedOn(p)) <= account[p].used
    BY DEF IndexedIsCharged
  <2>1. IndexedOn(p) \in SUBSET ChargedOn(p)
    BY DEF UploadInv, RequestTypes, AttemptInv, IndexedOn, ChargedOn
  <2>2. Charged(p) /\ account[p].used \in Nat
    BY DEF ChargeInv, UploadInv, LedgerInv, TypeOK, AccountRow
  <2>3. /\ SumBytes(Bodies, ChargedOn(p)) \in Nat
        /\ SumBytes(Bodies, IndexedOn(p)) \in Nat
        /\ SumBytes(Bodies, IndexedOn(p)) <= SumBytes(Bodies, ChargedOn(p))
    BY <2>1, <2>2, SumAfterDelete, Zenon DEF Charged
  <2>4. SumBytes(Bodies, ChargedOn(p)) <= account[p].used
    BY <2>2 DEF Charged, BytesOf
  <2>5. QED
    BY <2>2, <2>3, <2>4 DEF BytesOf
<1>4. QED
  BY <1>1, <1>2, <1>3, UploadInvariant, PTL DEF UploadSpec
----------------------------------------------------------------------------
(* The hard capacity limit, on the bytes the bucket holds.  Used and        *)
(* reserved bytes together are exactly the bodies of the uploads between    *)
(* their reservation and their index row, the stored ones among them; and   *)
(* only the guard of a reservation lets the two grow.                       *)

\* Accounts are created and edited, but nobody changes a capacity, and nothing
\* else of HazardKinds happens.
Steady == Hazards \subseteq {"admin"} /\ \A c, d \in Capacity : c = d

Owing == {"put", "release", "commit", "index", "done"}
OwedBy(p) == {u \in Upload : at[u] = p /\ pc[u] \in Owing}
Backed(p) ==
  /\ IsFiniteSet(Slots(Bodies, OwedBy(p)))
  /\ BytesOf(OwedBy(p)) = account[p].used + account[p].reserved
  /\ account[p].capacity \in Capacity
  /\ account[p].capacity > 0 => account[p].used + account[p].reserved <= account[p].capacity

\* A reservation is the one its upload made, and has time left.
RowInv ==
  \A id \in DOMAIN reservations :
    /\ reservations[id].provider = id[2]
    /\ reservations[id].bytes = SizeOf[id[1]]
    /\ reservations[id].expires > 0

\* On an account that still exists, an attempt holds its reservation until it
\* commits, no commit is refused, and a body is one that will be indexed.
PlaceInv ==
  \A u \in Upload :
    /\ pc[u] \in {"put", "release", "commit"} /\ at[u] \in present
         => ReservationOf(u) \in DOMAIN reservations
    /\ pc[u] \in {"undo", "undoDelete"} => at[u] \notin present
    /\ \A p \in present : <<p, u>> \in blobs
         => at[u] = p /\ pc[u] \in {"commit", "index", "done"}

RoomInv ==
  /\ \A p \in Provider \ present : account[p].capacity = 0
  /\ \A p \in present : Backed(p)
  /\ RowInv /\ PlaceInv
  /\ listing = [p \in Provider |-> NoListing]

\* An account whose bytes, capacity and owing uploads stay is still backed.
LEMMA SameBacked ==
  ASSUME NEW p, Backed(p), OwedBy(p)' = OwedBy(p),
         account'[p].used + account'[p].reserved = account[p].used + account[p].reserved,
         account'[p].capacity = account[p].capacity
  PROVE  Backed(p)'
BY DEF Backed, BytesOf

\* The types the proofs below share.
LEMMA RoomTypes ==
  ASSUME UploadInv
  PROVE  /\ present \subseteq Provider
         /\ account \in [Provider -> AccountRow]
         /\ \A p \in Provider : /\ account[p].used \in Nat /\ account[p].reserved \in Nat
                                /\ account[p].capacity \in Nat
         /\ DOMAIN reservations \subseteq Upload \X Provider
         /\ reservations \in [DOMAIN reservations -> ReservationRow]
         /\ pc \in [Upload -> Label] /\ at \in [Upload -> Provider \cup {NoProvider}]
         /\ \A u \in Upload : SizeOf[u] \in Nat
BY UploadAssumption, SizeAssumption
   DEF UploadInv, LedgerInv, TypeOK, RequestTypes, AccountRow

\* A reservation row is part of the reserved bytes of its account.
LEMMA RowIsReserved ==
  ASSUME UploadInv, NEW p \in Provider, NEW id \in ReservationsOf(p)
  PROVE  reservations[id].bytes \in Nat /\ reservations[id].bytes <= account[p].reserved
<1>1. id \in DOMAIN reservations /\ reservations[id].bytes \in Nat
  BY DEF ReservationsOf, UploadInv, LedgerInv, TypeOK, ReservationRow
<1>2. /\ IsFiniteSet(Slots(reservations, ReservationsOf(p)))
      /\ account[p].reserved = SumBytes(reservations, ReservationsOf(p))
  BY DEF UploadInv, LedgerInv, FiniteSlots, ReservedIsSumOfRows
<1>3. reservations[id].bytes <= SumBytes(reservations, ReservationsOf(p))
  BY <1>1, <1>2, SumAfterDeleteOne, Zenon
<1>4. QED
  BY <1>1, <1>2, <1>3

\* Steps of a request keep its reservation what it was made for.
LEMMA StepRowInv ==
  ASSUME UploadInv, RowInv, NEW u \in Upload, UploadStep(u)
  PROVE  RowInv'
<1>1. CASE ReserveProviderCapacity(ReservationOf(u), at[u], SizeOf[u])
  <2>1. ReservationTTL > 0
    BY TimeAssumption
  <2>2. QED
    BY <1>1, <2>1 DEF RowInv, ReserveProviderCapacity, ReservationOf
<1>2. CASE ReleaseProviderReservation(ReservationOf(u))
           \/ CommitProviderReservation(ReservationOf(u), SizeOf[u])
  <2>1. reservations' = Restrict(reservations, DOMAIN reservations \ {ReservationOf(u)})
    BY <1>2 DEF ReleaseProviderReservation, CommitProviderReservation
  <2>2. QED
    BY <2>1 DEF RowInv, Restrict
<1>3. CASE UNCHANGED reservations
  BY <1>3 DEF RowInv
<1>4. QED
  BY <1>1, <1>2, <1>3
     DEF UploadStep, ChooseProvider, Reserve, ProviderPut, Release, Commit, UndoPut,
         RecordProviderWriteFailure, UndoReservation, WriteIndex, ledgerVars,
         ReleaseIgnoringErrors, MarkProviderUnavailable

\* Without hazards, a call fails only where its account or its row is gone.
LEMMA SteadyCalls ==
  ASSUME Steady, FlightInv, NEW u \in Upload
  PROVE  /\ Calm /\ ~ cancelled[u] /\ ~ MayFail(u) /\ "lostreply" \notin Hazards
BY DEF Steady, FlightInv, Calm, MayFail

\* A request keeps its reservation, its body and its account together.
LEMMA StepPlaceInv ==
  ASSUME Steady, UploadInv, FlightInv, RowInv, PlaceInv, NEW u \in Upload, UploadStep(u)
  PROVE  PlaceInv'
<1> DEFINE Held(w) == pc[w] \in {"put", "release", "commit"} /\ at[w] \in present
                        => ReservationOf(w) \in DOMAIN reservations
           Gone(w) == pc[w] \in {"undo", "undoDelete"} => at[w] \notin present
           Placed(w) == \A p \in present : <<p, w>> \in blobs
                          => at[w] = p /\ pc[w] \in {"commit", "index", "done"}
<1>1. /\ present' = present
      /\ pc \in [Upload -> Label] /\ at \in [Upload -> Provider \cup {NoProvider}]
      /\ ~ MayFail(u) /\ ~ cancelled[u] /\ "lostreply" \notin Hazards
  BY StepKeepsAccounts, SteadyCalls, RoomTypes
<1>2. ASSUME NEW w \in Upload, w # u PROVE (Held(w) /\ Gone(w) /\ Placed(w))'
  <2>1. pc'[w] = pc[w] /\ at'[w] = at[w]
    BY <1>2, StepKeepsOthers
  <2>2. ReservationOf(w) \in DOMAIN reservations => ReservationOf(w) \in DOMAIN reservations'
    <3>1. DOMAIN reservations \ {ReservationOf(u)} \subseteq DOMAIN reservations'
      BY DEF UploadStep, ChooseProvider, Reserve, ProviderPut, Release, Commit, UndoPut,
         RecordProviderWriteFailure, UndoReservation, WriteIndex, ledgerVars,
         ReleaseIgnoringErrors, MarkProviderUnavailable, ReserveProviderCapacity,
         ReleaseProviderReservation, CommitProviderReservation, Restrict
    <3>2. ReservationOf(w) # ReservationOf(u)
      BY <1>2 DEF ReservationOf
    <3>3. QED
      BY <3>1, <3>2
  <2>3. \A p \in Provider : <<p, w>> \in blobs' => <<p, w>> \in blobs
    <3>1. blobs' \subseteq blobs \cup {<<at[u], u>>}
      BY DEF UploadStep, ChooseProvider, Reserve, ProviderPut, Release, Commit, UndoPut,
         RecordProviderWriteFailure, UndoReservation, WriteIndex
    <3>2. QED
      BY <1>2, <3>1
  <2>4. Held(w) /\ Gone(w) /\ Placed(w) /\ present \subseteq Provider
    BY RoomTypes DEF PlaceInv
  <2>5. QED
    BY <1>1, <2>1, <2>2, <2>3, <2>4 DEF ReservationOf
<1>3. (Held(u) /\ Gone(u) /\ Placed(u))'
  <2>0. Held(u) /\ Gone(u) /\ Placed(u) /\ present \subseteq Provider
    BY RoomTypes DEF PlaceInv
  <2> USE DEF Goto, TryNext, ReservationOf
  <2>1. CASE ChooseProvider(u)
    BY <1>1, <2>0, <2>1 DEF ChooseProvider
  <2>2. CASE Reserve(u)
    <3>1. /\ UNCHANGED <<at, blobs>> /\ pc[u] = "reserve" /\ pc'[u] \in {"put", "choose"}
          /\ pc'[u] = "put" => ReservationOf(u) \in DOMAIN reservations'
      BY <1>1, <2>2 DEF Reserve, ReserveProviderCapacity
    <3>2. QED
      BY <1>1, <2>0, <3>1
  <2>3. CASE ProviderPut(u)
    <3>1. /\ UNCHANGED <<at, reservations>> /\ pc[u] = "put" /\ pc'[u] \in {"commit", "release"}
          /\ pc'[u] = "release" => blobs' = blobs
          /\ blobs' \subseteq blobs \cup {<<at[u], u>>}
      BY <1>1, <2>3 DEF ProviderPut, ledgerVars
    <3>2. \A p \in present : <<p, u>> \in blobs' => p = at[u] /\ pc'[u] = "commit"
      BY <1>1, <2>0, <3>1
    <3>3. QED
      BY <1>1, <2>0, <3>1, <3>2
  <2>4. CASE Release(u) \/ RecordProviderWriteFailure(u)
    <3>1. /\ UNCHANGED <<at, blobs>> /\ pc[u] \in {"release", "mark"}
          /\ pc'[u] \in {"mark", "choose", "failed"}
      BY <1>1, <2>4 DEF Release, RecordProviderWriteFailure
    <3>2. QED
      BY <1>1, <2>0, <3>1
  <2>5. CASE Commit(u)
    <3>1. /\ UNCHANGED <<at, blobs>> /\ pc[u] = "commit" /\ pc'[u] \in {"index", "undo"}
          /\ pc'[u] = "undo" => ReservationOf(u) \notin DOMAIN reservations
      BY <1>1, <2>5 DEF Commit
    <3>2. pc'[u] = "undo" => at[u] \notin present
      BY <2>0, <3>1
    <3>3. QED
      BY <1>1, <2>0, <3>1, <3>2
  <2>6. CASE UndoReservation(u) \/ UndoPut(u)
    <3>1. /\ UNCHANGED at /\ pc[u] \in {"undo", "undoDelete"}
          /\ pc'[u] \in {"undoDelete", "failed"} /\ blobs' \subseteq blobs
      BY <1>1, <2>6 DEF UndoReservation, UndoPut
    <3>2. QED
      BY <1>1, <2>0, <3>1
  <2>7. CASE WriteIndex(u)
    <3>1. /\ UNCHANGED <<at, blobs>> /\ pc[u] = "index" /\ pc'[u] \in {"done", "failed"}
          /\ pc'[u] = "failed" => at[u] \notin present
      BY <1>1, <2>7 DEF WriteIndex
    <3>2. QED
      BY <1>1, <2>0, <3>1
  <2>8. QED
    BY <2>1, <2>2, <2>3, <2>4, <2>5, <2>6, <2>7 DEF UploadStep
<1>4. \A w \in Upload : (Held(w) /\ Gone(w) /\ Placed(w))'
  BY <1>2, <1>3
<1>5. QED
  BY <1>4 DEF PlaceInv, ReservationOf
\* A reservation lets an account's bytes grow up to its capacity; every other
\* step of a request leaves their sum, or takes away what the request owes.
LEMMA StepBacked ==
  ASSUME Steady, UploadInv, FlightInv, RoomInv, NEW u \in Upload, UploadStep(u),
         NEW p \in present
  PROVE  Backed(p)'
<1>1. /\ ~ MayFail(u) /\ ~ cancelled[u]
      /\ p \in Provider /\ SizeOf[u] \in Nat
      /\ account \in [Provider -> AccountRow] /\ account[p] \in AccountRow
      /\ account[p].used \in Nat /\ account[p].reserved \in Nat /\ account[p].capacity \in Nat
      /\ pc \in [Upload -> Label] /\ at \in [Upload -> Provider \cup {NoProvider}]
      /\ Backed(p) /\ RowInv /\ PlaceInv
  BY SteadyCalls, RoomTypes DEF RoomInv
<1>2. ASSUME NEW w \in Upload, w # u PROVE w \in OwedBy(p)' <=> w \in OwedBy(p)
  BY <1>2, StepKeepsOthers DEF OwedBy
<1>3. ASSUME u \in OwedBy(p)' <=> u \in OwedBy(p) PROVE OwedBy(p)' = OwedBy(p)
  BY <1>2, <1>3 DEF OwedBy
<1> DEFINE Same == /\ account'[p].used = account[p].used
                   /\ account'[p].reserved = account[p].reserved
                   /\ account'[p].capacity = account[p].capacity
<1>4. ASSUME Same, u \in OwedBy(p)' <=> u \in OwedBy(p) PROVE Backed(p)'
  BY <1>1, <1>3, <1>4, SameBacked
<1> HIDE DEF Same
<1>5. UNCHANGED account => Same
  BY DEF Same
<1> USE DEF Goto, TryNext
<1>6. CASE ChooseProvider(u) \/ ProviderPut(u) \/ UndoPut(u)
  <2>1. UNCHANGED account
    BY <1>6 DEF ChooseProvider, ProviderPut, UndoPut, ledgerVars
  <2>2. u \in OwedBy(p)' <=> u \in OwedBy(p)
    BY <1>1, <1>6 DEF ChooseProvider, ProviderPut, UndoPut, OwedBy, Owing
  <2>3. QED
    BY <1>4, <1>5, <2>1, <2>2
<1>7. CASE WriteIndex(u)
  <2>1. UNCHANGED account
    BY <1>7 DEF WriteIndex, ledgerVars
  <2>2. u \in OwedBy(p)' <=> u \in OwedBy(p)
    BY <1>1, <1>7 DEF WriteIndex, OwedBy, Owing
  <2>3. QED
    BY <1>4, <1>5, <2>1, <2>2
<1>8. CASE RecordProviderWriteFailure(u)
  <2>1. Same
    <3>1. ASSUME NEW s, NEW t, MarkProviderUnavailable(at[u], s, t) PROVE Same
      BY <1>1, <3>1 DEF MarkProviderUnavailable, AccountRow, Same
    <3>2. QED
      BY <1>5, <1>8, <3>1 DEF RecordProviderWriteFailure, ledgerVars
  <2>2. u \in OwedBy(p)' <=> u \in OwedBy(p)
    BY <1>1, <1>8 DEF RecordProviderWriteFailure, OwedBy, Owing
  <2>3. QED
    BY <1>4, <2>1, <2>2
<1>9. CASE Reserve(u)
  <2>1. CASE UNCHANGED ledgerVars
    <3>1. u \in OwedBy(p)' <=> u \in OwedBy(p)
      <4>1. CASE ReserveProviderCapacity(ReservationOf(u), at[u], SizeOf[u])
        BY <2>1, <4>1 DEF ReserveProviderCapacity, ledgerVars
      <4>2. CASE ~ ReserveProviderCapacity(ReservationOf(u), at[u], SizeOf[u])
        BY <1>1, <1>9, <4>2 DEF Reserve, OwedBy, Owing
      <4>3. QED
        BY <4>1, <4>2
    <3>2. QED
      BY <1>4, <1>5, <2>1, <3>1 DEF ledgerVars
  <2>2. CASE ReserveProviderCapacity(ReservationOf(u), at[u], SizeOf[u]) /\ Goto(u, "put")
             /\ UNCHANGED at /\ pc[u] = "reserve"
    <3>1. CASE at[u] # p
      <4>1. account'[p] = account[p]
        BY <1>1, <2>2, <3>1 DEF ReserveProviderCapacity
      <4>2. QED
        BY <1>1, <1>4, <2>2, <3>1, <4>1 DEF OwedBy, Same
    <3>2. CASE at[u] = p
      <4>1. /\ account'[p].used = account[p].used
            /\ account'[p].reserved = account[p].reserved + SizeOf[u]
            /\ account'[p].capacity = account[p].capacity
        <5> DEFINE a == RolledOver(account[p], month)
        <5>1. account' = [account EXCEPT ![p] = [a EXCEPT !.reserved = a.reserved + SizeOf[u]]]
          BY <2>2, <3>2 DEF ReserveProviderCapacity
        <5>2. /\ a \in AccountRow /\ a.used = account[p].used
              /\ a.reserved = account[p].reserved /\ a.capacity = account[p].capacity
          <6>1. month \in Nat
            BY DEF UploadInv, LedgerInv, TypeOK
          <6>2. QED
            BY <1>1, <6>1 DEF RolledOver, AccountRow
        <5> HIDE DEF a
        <5>3. QED
          BY <1>1, <5>1, <5>2 DEF AccountRow
      <4>2. account[p].capacity > 0
              => account[p].used + account[p].reserved + SizeOf[u] <= account[p].capacity
        <5>1. /\ CanReserve(account[p], SizeOf[u], Margin[p], MonthlyLimit[p], month)
              /\ Margin[p] \in Nat
          BY <1>1, <2>2, <3>2, SettingsAssumption DEF ReserveProviderCapacity
        <5>2. account[p].capacity = 0
                \/ account[p].used + account[p].reserved + SizeOf[u]
                     <= Ceiling(account[p].capacity, Margin[p])
          BY <5>1 DEF CanReserve
        <5>3. QED
          BY <1>1, <5>1, <5>2 DEF Ceiling, ClampedMinus
      <4>3. PICK A : A = OwedBy(p)
        OBVIOUS
      <4>4. OwedBy(p)' = A \cup {u} /\ u \notin A
        BY <1>1, <1>2, <2>2, <3>2, <4>3 DEF OwedBy, Owing
      <4>5. IsFiniteSet(Slots(Bodies, A)) /\ SumBytes(Bodies, A) = account[p].used + account[p].reserved
        BY <1>1, <4>3 DEF Backed, BytesOf
      <4>6. Bodies[u].bytes = SizeOf[u]
        BY DEF Bodies
      <4>7. /\ IsFiniteSet(Slots(Bodies, A \cup {u}))
            /\ SumBytes(Bodies, A \cup {u}) = SumBytes(Bodies, A) + SizeOf[u]
        BY <1>1, <4>4, <4>5, <4>6, SumAfterInsert
      <4>8. SumBytes(Bodies, A \cup {u}) = account'[p].used + account'[p].reserved
        BY <1>1, <4>1, <4>5, <4>7
      <4>9. account[p].capacity \in Capacity
        BY <1>1 DEF Backed
      <4>10. account'[p].capacity > 0
               => account'[p].used + account'[p].reserved <= account'[p].capacity
        BY <1>1, <4>1, <4>2
      <4>11. QED
        BY <4>1, <4>4, <4>7, <4>8, <4>9, <4>10 DEF Backed, BytesOf
    <3>3. QED
      BY <3>1, <3>2
  <2>3. QED
    BY <1>1, <1>9, <2>1, <2>2 DEF Reserve
<1>10. CASE Release(u) \/ UndoReservation(u)
  <2>1. /\ ReleaseIgnoringErrors(u) /\ UNCHANGED at
        /\ \/ pc[u] = "release" /\ pc'[u] = "mark"
           \/ pc[u] = "undo" /\ pc'[u] = "undoDelete"
    BY <1>1, <1>10 DEF Release, UndoReservation
  <2>2. ASSUME ReservationOf(u) \in DOMAIN reservations
        PROVE  reservations[ReservationOf(u)].provider = at[u]
    BY <1>1, <2>2 DEF RowInv, ReservationOf
  <2>3. CASE at[u] # p
    <3>1. account'[p] = account[p]
      BY <1>1, <2>1, <2>2, <2>3 DEF ReleaseIgnoringErrors, ReleaseProviderReservation, ledgerVars
    <3>2. QED
      BY <1>4, <2>1, <2>3, <3>1 DEF OwedBy, Same
  <2>4. CASE at[u] = p
    <3>1. pc[u] = "release" /\ pc'[u] = "mark"
      BY <1>1, <2>1, <2>4 DEF PlaceInv
    <3>2. ReservationOf(u) \in DOMAIN reservations
      BY <1>1, <2>4, <3>1 DEF PlaceInv
    <3>3. ReleaseProviderReservation(ReservationOf(u))
      BY <1>1, <2>1, <3>2 DEF ReleaseIgnoringErrors
    <3> DEFINE n == reservations[ReservationOf(u)].bytes
    <3>4. n = SizeOf[u] /\ n <= account[p].reserved
      <4>1. ReservationOf(u) \in ReservationsOf(p)
        BY <2>2, <2>4, <3>2 DEF ReservationsOf
      <4>2. n = SizeOf[u]
        BY <1>1, <3>2 DEF RowInv, ReservationOf
      <4>3. QED
        BY <1>1, <4>1, <4>2, RowIsReserved
    <3>5. /\ account'[p].used = account[p].used
          /\ account'[p].reserved = account[p].reserved - SizeOf[u]
          /\ account'[p].capacity = account[p].capacity
      <4>1. account' = [account EXCEPT ![p] = [account[p] EXCEPT
                          !.reserved = ClampedMinus(account[p].reserved, n)]]
        BY <2>2, <2>4, <3>2, <3>3 DEF ReleaseProviderReservation
      <4>2. ClampedMinus(account[p].reserved, n) = account[p].reserved - SizeOf[u]
        BY <1>1, <3>4 DEF ClampedMinus
      <4> HIDE DEF n
      <4>3. QED
        BY <1>1, <4>1, <4>2 DEF AccountRow
    <3> HIDE DEF n
    <3>6. PICK A : A = OwedBy(p)
      OBVIOUS
    <3>7. OwedBy(p)' = A \ {u} /\ u \in A
      BY <1>2, <2>1, <2>4, <3>1, <3>6 DEF OwedBy, Owing
    <3>8. IsFiniteSet(Slots(Bodies, A)) /\ SumBytes(Bodies, A) = account[p].used + account[p].reserved
      BY <1>1, <3>6 DEF Backed, BytesOf
    <3>9. Bodies[u].bytes = SizeOf[u]
      BY DEF Bodies
    <3>10. /\ IsFiniteSet(Slots(Bodies, A \ {u}))
           /\ SumBytes(Bodies, A \ {u}) = SumBytes(Bodies, A) - SizeOf[u]
      <4>1. u \in A /\ Bodies[u].bytes \in Nat
        BY <1>1, <3>7, <3>9
      <4>2. /\ IsFiniteSet(Slots(Bodies, A \ {u}))
            /\ SumBytes(Bodies, A \ {u}) = SumBytes(Bodies, A) - Bodies[u].bytes
        BY <3>8, <4>1, SumAfterDeleteOne, Zenon
      <4>3. QED
        BY <3>9, <4>2
    <3>11. SumBytes(Bodies, A \ {u}) = account'[p].used + account'[p].reserved
      BY <1>1, <3>5, <3>8, <3>10
    <3>12. account[p].capacity \in Capacity
      BY <1>1 DEF Backed
    <3>13. account[p].capacity > 0
             => account[p].used + account[p].reserved <= account[p].capacity
      BY <1>1 DEF Backed
    <3>14. account'[p].capacity > 0
             => account'[p].used + account'[p].reserved <= account'[p].capacity
      BY <1>1, <3>5, <3>13
    <3>15. QED
      BY <3>5, <3>7, <3>10, <3>11, <3>12, <3>14 DEF Backed, BytesOf
  <2>5. QED
    BY <2>3, <2>4
<1>11. CASE Commit(u)
  <2>1. pc[u] = "commit" /\ UNCHANGED at
    BY <1>11 DEF Commit
  <2>2. CASE ReservationOf(u) \notin DOMAIN reservations /\ Goto(u, "undo") /\ UNCHANGED ledgerVars
    <3>1. at[u] # p
      BY <1>1, <2>1, <2>2 DEF PlaceInv
    <3>2. QED
      BY <1>1, <1>4, <1>5, <2>1, <2>2, <3>1 DEF OwedBy, ledgerVars
  <2>3. CASE CommitProviderReservation(ReservationOf(u), SizeOf[u]) /\ Goto(u, "index")
    <3>1. u \in OwedBy(p)' <=> u \in OwedBy(p)
      BY <1>1, <2>1, <2>3 DEF OwedBy, Owing
    <3>2. /\ ReservationOf(u) \in DOMAIN reservations
          /\ reservations[ReservationOf(u)].provider = at[u]
          /\ reservations[ReservationOf(u)].bytes = SizeOf[u]
      BY <1>1, <2>3 DEF CommitProviderReservation, RowInv, ReservationOf
    <3>3. CASE at[u] # p
      <4>1. account'[p] = account[p]
        BY <1>1, <2>3, <3>2, <3>3 DEF CommitProviderReservation
      <4>2. QED
        BY <1>4, <3>1, <4>1 DEF Same
    <3>4. CASE at[u] = p
      <4>1. SizeOf[u] <= account[p].reserved
        <5>1. ReservationOf(u) \in ReservationsOf(p)
          BY <3>2, <3>4 DEF ReservationsOf
        <5>2. QED
          BY <1>1, <3>2, <5>1, RowIsReserved
      <4>2. ClampedMinus(account[p].reserved, SizeOf[u]) = account[p].reserved - SizeOf[u]
        BY <1>1, <4>1 DEF ClampedMinus
      <4>3. /\ account'[p].used = account[p].used + SizeOf[u]
            /\ account'[p].reserved = account[p].reserved - SizeOf[u]
            /\ account'[p].capacity = account[p].capacity
        <5>1. account' = [account EXCEPT ![p] =
                [account[p] EXCEPT !.reserved = account[p].reserved - SizeOf[u],
                                   !.used = account[p].used + SizeOf[u],
                                   !.monthly = account[p].monthly + SizeOf[u],
                                   !.status = "", !.until = NoTime]]
          BY <2>3, <3>2, <3>4, <4>2 DEF CommitProviderReservation
        <5>2. QED
          BY <1>1, <5>1 DEF AccountRow
      <4>4. account'[p].used + account'[p].reserved = account[p].used + account[p].reserved
        BY <1>1, <4>3
      <4>5. QED
        BY <1>1, <1>3, <3>1, <4>3, <4>4, SameBacked
    <3>5. QED
      BY <3>3, <3>4
  <2>4. QED
    BY <1>1, <1>11, <2>2, <2>3 DEF Commit
<1>12. QED
  BY <1>6, <1>7, <1>8, <1>9, <1>10, <1>11 DEF UploadStep

\* Nothing around the requests disturbs it: no reservation expires under an
\* upload, and an account goes with all that it owes.
LEMMA NextRoomInv ==
  ASSUME Steady, UploadInv, FlightInv, RoomInv, [UploadNext]_vars
  PROVE  RoomInv'
<1> USE DEF RoomInv
<1>0. /\ present \subseteq Provider /\ account \in [Provider -> AccountRow]
      /\ DOMAIN reservations \subseteq Upload \X Provider
      /\ reservations \in [DOMAIN reservations -> ReservationRow]
      /\ \A p \in Provider : /\ account[p].used \in Nat /\ account[p].reserved \in Nat
                             /\ account[p].capacity \in Nat
  BY RoomTypes
<1>1. ASSUME NEW u \in Upload, UploadStep(u) PROVE RoomInv'
  <2>1. RowInv' /\ PlaceInv' /\ present' = present
    BY <1>1, StepRowInv, StepPlaceInv, StepKeepsAccounts
  <2>2. \A p \in present : Backed(p)'
    BY <1>1, StepBacked
  <2>3. UNCHANGED listing
    BY <1>1 DEF UploadStep, ChooseProvider, Reserve, ProviderPut, Release, Commit, UndoPut,
         RecordProviderWriteFailure, UndoReservation, WriteIndex
  <2>4. ASSUME NEW p \in Provider \ present PROVE account'[p].capacity = 0
    <3>1. account'[p] = account[p]
      <4>1. ASSUME NEW id \in DOMAIN reservations PROVE reservations[id].provider # p
        BY <1>0, <2>4, <4>1 DEF UploadInv, LedgerInv, ReservedIsSumOfRows, ReservationsOf
      <4>2. CASE UNCHANGED account
        BY <4>2
      <4>3. CASE ReserveProviderCapacity(ReservationOf(u), at[u], SizeOf[u])
        BY <1>0, <2>4, <4>3 DEF ReserveProviderCapacity
      <4>4. CASE ReleaseProviderReservation(ReservationOf(u))
                 \/ CommitProviderReservation(ReservationOf(u), SizeOf[u])
        BY <1>0, <4>1, <4>4 DEF ReleaseProviderReservation, CommitProviderReservation
      <4>5. ASSUME NEW st, NEW t, MarkProviderUnavailable(at[u], st, t)
            PROVE  account'[p] = account[p]
        BY <1>0, <2>4, <4>5 DEF MarkProviderUnavailable
      <4>6. QED
        BY <1>1, <4>2, <4>3, <4>4, <4>5
           DEF UploadStep, ChooseProvider, Reserve, ProviderPut, Release, Commit, UndoPut,
               RecordProviderWriteFailure, UndoReservation, WriteIndex, ledgerVars,
               ReleaseIgnoringErrors
    <3>2. QED
      BY <2>4, <3>1
  <2>5. QED
    BY <2>1, <2>2, <2>3, <2>4
<1>2. \A u \in Upload : ~ Crash(u) /\ ~ Cancel(u)
  BY DEF Steady, Crash, Cancel
\* The rest leaves the requests and their bodies alone.
<1>3. ASSUME UNCHANGED uploadVars, present' \subseteq present,
             \A id \in DOMAIN reservations : id[2] \in present' => id \in DOMAIN reservations'
      PROVE  PlaceInv'
  <2>1. UNCHANGED <<pc, at, blobs>>
    BY <1>3 DEF uploadVars
  <2>2. QED
    BY <1>3, <2>1 DEF PlaceInv, ReservationOf
<1>4. ASSUME NEW p \in present, UNCHANGED uploadVars,
             account'[p].used = account[p].used, account'[p].reserved = account[p].reserved,
             account'[p].capacity = account[p].capacity
      PROVE  Backed(p)'
  <2>1. OwedBy(p)' = OwedBy(p)
    BY <1>4 DEF OwedBy, uploadVars
  <2>2. QED
    BY <1>4, <2>1, SameBacked
<1>5. CASE TimePasses
  <2>1. /\ UNCHANGED uploadVars /\ present' = present
        /\ DOMAIN reservations' = DOMAIN reservations
        /\ \A p \in Provider : /\ account'[p].used = account[p].used
                               /\ account'[p].reserved = account[p].reserved
                               /\ account'[p].capacity = account[p].capacity
        /\ \A id \in DOMAIN reservations :
             /\ reservations'[id].provider = reservations[id].provider
             /\ reservations'[id].bytes = reservations[id].bytes
             /\ reservations'[id].expires = CountDown(reservations[id].expires)
    BY <1>0, <1>5 DEF TimePasses, Tick, AccountRow, ReservationRow
  <2>2. ASSUME NEW id \in DOMAIN reservations PROVE reservations'[id].expires > 0
    <3>1. id[1] \in Upload /\ id = ReservationOf(id[1]) /\ Active(id[1])
      BY <1>0, <2>2 DEF FlightInv, ReservationsAreInFlight, Active, Ended
    <3>2. reservations[id].expires > 1 /\ reservations[id].expires \in Nat
      BY <1>0, <1>5, <2>2, <3>1 DEF TimePasses, Steady, ReservationRow
    <3>3. QED
      BY <2>1, <2>2, <3>2 DEF CountDown
  <2>3. RowInv'
    BY <2>1, <2>2 DEF RowInv
  <2>4. PlaceInv' /\ \A p \in present : Backed(p)'
    BY <1>0, <1>3, <1>4, <2>1
  <2>5. QED
    BY <2>1, <2>3, <2>4 DEF uploadVars
<1>6. ~ RecoverExpired
  <2>1. ASSUME NEW p \in Provider PROVE Expired(p) = {}
    BY <2>1 DEF Expired, ReservationsOf, RowInv
  <2>2. QED
    BY <2>1, Zenon DEF RecoverExpired, RecoverExpiredProviderReservations
<1>7. CASE MonthPasses \/ UNCHANGED vars
  <2>1. UNCHANGED <<uploadVars, present, account, reservations>>
    BY <1>7 DEF MonthPasses, NewMonth, vars, ledgerVars
  <2>2. RowInv' /\ PlaceInv' /\ \A p \in present : Backed(p)'
    BY <1>3, <1>4, <2>1 DEF RowInv
  <2>3. QED
    BY <2>1, <2>2 DEF uploadVars
<1>8. ASSUME NEW p \in Provider, AdminDeletesProvider(p) PROVE RoomInv'
  <2>1. /\ UNCHANGED uploadVars /\ present' = present \ {p}
        /\ account' = [account EXCEPT ![p] = FreshAccount(FALSE, 0)]
        /\ reservations' = Restrict(reservations, DOMAIN reservations \ ReservationsOf(p))
    BY <1>8 DEF AdminDeletesProvider, DeleteProvider
  <2>2. /\ \A q \in Provider \ {p} : account'[q] = account[q]
        /\ account'[p].capacity = 0
    BY <1>0, <2>1 DEF FreshAccount
  <2>3. RowInv'
    BY <2>1 DEF RowInv, Restrict
  <2>4. \A id \in DOMAIN reservations : id[2] \in present' => id \in DOMAIN reservations'
    BY <2>1 DEF RowInv, Restrict, ReservationsOf
  <2>5. PlaceInv' /\ \A q \in present' : Backed(q)'
    BY <1>0, <1>3, <1>4, <2>1, <2>2, <2>4
  <2>6. QED
    BY <2>1, <2>2, <2>3, <2>5 DEF uploadVars
<1>9. ASSUME NEW p \in Provider, AdminSavesProvider(p) PROVE RoomInv'
  <2>1. PICK e \in BOOLEAN, c \in Capacity : UpsertProvider(p, e, c)
    BY <1>9 DEF AdminSavesProvider
  <2>2. p \in present /\ UNCHANGED uploadVars
    BY <1>9 DEF AdminSavesProvider, Steady
  <2>3. /\ account' = [account EXCEPT ![p] = [account[p] EXCEPT !.enabled = e, !.capacity = c]]
        /\ UNCHANGED <<present, reservations>>
    BY <2>1, <2>2 DEF UpsertProvider
  <2>4. account[p].capacity = c
    BY <2>1, <2>2 DEF Steady, Backed
  <2>5. \A q \in Provider : /\ account'[q].used = account[q].used
                            /\ account'[q].reserved = account[q].reserved
                            /\ account'[q].capacity = account[q].capacity
    BY <1>0, <2>3, <2>4 DEF AccountRow
  <2>6. RowInv' /\ PlaceInv' /\ \A q \in present : Backed(q)'
    BY <1>0, <1>3, <1>4, <2>2, <2>3, <2>5 DEF RowInv
  <2>7. QED
    BY <2>2, <2>3, <2>5, <2>6 DEF uploadVars
<1>10. \A p \in Provider : ~ StartListing(p) /\ ~ FinishListing(p)
  BY DEF Steady, StartListing, FinishListing
<1>11. QED
  BY <1>1, <1>2, <1>5, <1>6, <1>7, <1>8, <1>9, <1>10 DEF UploadNext

\* Configured capacity is a hard limit on the bytes a bucket holds: whatever
\* uploads race for its last bytes, fail over from it or are undone, and
\* whoever disables, saves or deletes accounts meanwhile.
THEOREM StoredFits == ASSUME Steady PROVE UploadSpec => []StoredWithinCapacity
<1>1. UploadInit => FlightInv /\ RoomInv
  <2> SUFFICES ASSUME UploadInit PROVE FlightInv /\ RoomInv
    OBVIOUS
  <2>1. FlightInv
    BY DEF UploadInit, Init, FlightInv, ReservationsAreInFlight
  <2>2. /\ reservations = [id \in {} |-> 0] /\ present \subseteq Provider
        /\ pc = [u \in Upload |-> "choose"] /\ blobs = {}
        /\ listing = [p \in Provider |-> NoListing]
    BY DEF UploadInit, Init
  <2>3. RowInv /\ PlaceInv
    BY <2>2 DEF RowInv, PlaceInv
  <2>a. ASSUME NEW p \in Provider
        PROVE  IF p \in present THEN \E e, c : c \in Capacity /\ account[p] = FreshAccount(e, c)
                                ELSE account[p] = FreshAccount(FALSE, 0)
    BY <2>a DEF UploadInit, Init
  <2>b. \A e, c : /\ FreshAccount(e, c).used = 0 /\ FreshAccount(e, c).reserved = 0
                  /\ FreshAccount(e, c).capacity = c
    BY DEF FreshAccount
  <2>4. \A p \in Provider \ present : account[p].capacity = 0
    BY <2>a, <2>b
  <2>5. ASSUME NEW p \in present PROVE Backed(p)
    <3>1. /\ account[p].used = 0 /\ account[p].reserved = 0
          /\ account[p].capacity \in Capacity
      <4>1. PICK e, c : c \in Capacity /\ account[p] = FreshAccount(e, c)
        BY <2>2, <2>5, <2>a
      <4>2. QED
        BY <2>b, <4>1
    <3>2. Slots(Bodies, OwedBy(p)) = {}
      BY <2>2 DEF OwedBy, Owing, Slots
    <3>3. IsFiniteSet({}) /\ Cardinality({}) = 0
      BY FS_EmptySet
    <3>4. account[p].capacity \in Nat
      BY <3>1, SizeAssumption
    <3>5. QED
      BY <3>1, <3>2, <3>3, <3>4 DEF Backed, BytesOf, SumBytes
  <2>6. QED
    BY <2>1, <2>2, <2>3, <2>4, <2>5 DEF RoomInv
<1>2. UploadInv /\ FlightInv /\ RoomInv /\ [UploadNext]_vars => FlightInv' /\ RoomInv'
  <2>1. Calm
    BY DEF Steady, Calm
  <2>2. QED
    BY <2>1, NextFlightInv, NextRoomInv
<1>3. UploadInv /\ RoomInv => StoredWithinCapacity
  <2> SUFFICES ASSUME UploadInv, RoomInv, NEW p \in Provider, account[p].capacity > 0
               PROVE  BytesOf(StoredOn(p)) <= account[p].capacity
    BY DEF StoredWithinCapacity
  <2>1. p \in present /\ Backed(p)
    BY DEF RoomInv
  <2>2. StoredOn(p) \in SUBSET OwedBy(p)
    BY <2>1 DEF StoredOn, OwedBy, Owing, RoomInv, PlaceInv
  <2>3. /\ SumBytes(Bodies, OwedBy(p)) \in Nat /\ SumBytes(Bodies, StoredOn(p)) \in Nat
        /\ SumBytes(Bodies, StoredOn(p)) <= SumBytes(Bodies, OwedBy(p))
    BY <2>1, <2>2, SumAfterDelete, Zenon DEF Backed
  <2>4. SumBytes(Bodies, OwedBy(p)) <= account[p].capacity /\ account[p].capacity \in Nat
    BY <2>1, RoomTypes DEF Backed, BytesOf
  <2>5. QED
    BY <2>3, <2>4 DEF BytesOf
<1>4. QED
  BY <1>1, <1>2, <1>3, UploadInvariant, PTL DEF UploadSpec
=============================================================================
