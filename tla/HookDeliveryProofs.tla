------------------------- MODULE HookDeliveryProofs -------------------------
(***************************************************************************)
(* Ownership of a delivery, for any number of instances and deliveries and *)
(* any setting of the intervals.                                           *)
(***************************************************************************)
EXTENDS HookDelivery, FiniteSetTheorems, TLAPS

\* Where a goroutine is and whether it holds a delivery agree.
JobInv ==
  \A w \in Worker :
    /\ worker[w].pc \in {"run", "write"} => worker[w].job \in Delivery
    /\ worker[w].pc \in {"idle", "acquire", "claim"} => worker[w].job = None

\* A request that was answered with success did arrive.
AnswerInv ==
  \A w \in Worker : worker[w].pc = "write" /\ worker[w].ok => worker[w].job \in received

\* The invariant that needs no assumption on heartbeats.
BaseInv == TypeOK /\ JobInv /\ AnswerInv /\ SuccessIsReal

\* A queue nobody has used.
LEMMA InitBaseInv == Init => BaseInv
BY HookAssumption DEF Init, BaseInv, TypeOK, JobInv, AnswerInv, SuccessIsReal, WorkerState,
   Idle, Absent, Row, RowStatus, Settled, None

\* Replacing the state of one worker keeps the workers' types and JobInv.
LEMMA WorkerKept ==
  ASSUME BaseInv, NEW w \in Worker, NEW s \in WorkerState,
         s.pc \in {"run", "write"} => s.job \in Delivery,
         s.pc \in {"idle", "acquire", "claim"} => s.job = None,
         worker' = [worker EXCEPT ![w] = s]
  PROVE  /\ worker' \in [Worker -> WorkerState]
         /\ JobInv'
         /\ worker'[w] = s
         /\ \A v \in Worker \ {w} : worker'[v] = worker[v]
BY DEF BaseInv, TypeOK, JobInv

\* Moving the program counter of one worker changes nothing else of it.
LEMMA StepKept ==
  ASSUME BaseInv, NEW w \in Worker, NEW from,
         NEW to \in {"idle", "acquire", "claim", "release", "run"}, Step(w, from, to),
         to = "run" => worker[w].job \in Delivery,
         to \in {"idle", "acquire", "claim"} => worker[w].job = None
  PROVE  /\ worker' \in [Worker -> WorkerState]
         /\ JobInv'
         /\ worker'[w].pc = to
         /\ \A v \in Worker : worker'[v].job = worker[v].job
         /\ \A v \in Worker \ {w} : worker'[v] = worker[v]
<1> DEFINE s == [worker[w] EXCEPT !.pc = to]
<1>1. worker[w] \in WorkerState
  BY DEF BaseInv, TypeOK
<1>2. s \in WorkerState /\ s.pc = to /\ s.job = worker[w].job
  BY <1>1 DEF WorkerState
<1>3. worker' = [worker EXCEPT ![w] = s]
  BY DEF Step
<1> HIDE DEF s
<1>4. QED
  BY <1>2, <1>3, WorkerKept

\* What UpdateHookDelivery leaves: the row it names, if it exists, and no other.
LEMMA UpdateKept ==
  ASSUME BaseInv, NEW d \in Delivery, NEW s \in RowStatus, NEW n \in Nat, NEW t \in Nat,
         UpdateHookDelivery(d, s, n, t)
  PROVE  /\ row' \in [Delivery -> Row]
         /\ row'[d].status \in {s, "absent"}
         /\ row[d].status = "absent" => row' = row
         /\ \A e \in Delivery \ {d} : row'[e] = row[e]
BY DEF BaseInv, TypeOK, UpdateHookDelivery, Row

\* Every step keeps types, program counters and the truth of "succeeded".
LEMMA NextBaseInv == BaseInv /\ [Next]_hookVars => BaseInv'
<1> SUFFICES ASSUME BaseInv, [Next]_hookVars PROVE BaseInv'
  OBVIOUS
<1> USE HookAssumption, NoneAssumption
<1>0. /\ TypeOK /\ JobInv /\ AnswerInv /\ SuccessIsReal
      /\ \A d \in Delivery : row[d] \in Row
      /\ \A w \in Worker : worker[w] \in WorkerState
  BY DEF BaseInv, TypeOK
<1>1. CASE UNCHANGED hookVars
  BY <1>0, <1>1 DEF BaseInv, hookVars, TypeOK, JobInv, AnswerInv, SuccessIsReal
<1>2. ASSUME NEW d \in Delivery, WriteObject(d) \/ CrashBeforeDispatch(d) PROVE BaseInv'
  BY <1>0, <1>2 DEF WriteObject, CrashBeforeDispatch, BaseInv, TypeOK, JobInv, AnswerInv,
     SuccessIsReal
<1>3. ASSUME NEW d \in Delivery, DispatchObjectHook(d) PROVE BaseInv'
  <2> DEFINE queued == [Absent EXCEPT !.status = "pending"]
  <2>1. queued \in Row /\ queued.status # "succeeded"
    BY DEF Absent, Row, RowStatus, Settled
  <2>2. row' = row \/ row' = [row EXCEPT ![d] = queued]
    BY <1>3 DEF DispatchObjectHook
  <2> HIDE DEF queued
  <2>3. /\ row' \in [Delivery -> Row]
        /\ \A e \in Delivery : row'[e].status = "succeeded" => row[e].status = "succeeded"
    BY <1>0, <2>1, <2>2 DEF TypeOK
  <2>4. event' \in [Delivery -> {"new", "stored", "dispatched", "lost"}]
    BY <1>0, <1>3 DEF DispatchObjectHook, TypeOK
  <2>5. UNCHANGED <<hook, worker, lease, received, sent, losses>>
    BY <1>3 DEF DispatchObjectHook
  <2>6. JobInv' /\ AnswerInv' /\ SuccessIsReal'
    BY <1>0, <2>3, <2>5 DEF JobInv, AnswerInv, SuccessIsReal
  <2>7. QED
    BY <1>0, <2>3, <2>4, <2>5, <2>6 DEF BaseInv, TypeOK
<1>4. ASSUME NEW w \in Worker, RecoverStaleHookDeliveries(w) PROVE BaseInv'
  <2>1. worker[w].job = None /\ "acquire" # "run"
    BY <1>0, <1>4 DEF RecoverStaleHookDeliveries, Step, JobInv
  <2>2. /\ worker' \in [Worker -> WorkerState] /\ JobInv' /\ worker'[w].pc = "acquire"
        /\ \A v \in Worker \ {w} : worker'[v] = worker[v]
    BY <1>4, <2>1, StepKept DEF RecoverStaleHookDeliveries
  <2>3. \A d \in Delivery : row'[d] \in Row /\ (row'[d].status = "succeeded" => row[d].status = "succeeded")
    BY <1>0, <1>4 DEF RecoverStaleHookDeliveries, Row, RowStatus
  <2>4. row' \in [Delivery -> Row]
    BY <1>4, <2>3 DEF RecoverStaleHookDeliveries
  <2>5. AnswerInv' /\ SuccessIsReal'
    BY <1>0, <1>4, <2>2, <2>3 DEF RecoverStaleHookDeliveries, AnswerInv, SuccessIsReal
  <2>6. QED
    BY <1>0, <1>4, <2>2, <2>4, <2>5 DEF RecoverStaleHookDeliveries, BaseInv, TypeOK
<1>5. ASSUME NEW w \in Worker, TryAcquire(w) PROVE BaseInv'
  <2>1. worker[w].pc = "acquire" /\ worker[w].job = None
    BY <1>0, <1>5 DEF TryAcquire, Step, JobInv
  <2>2. PICK to \in {"claim", "idle"} : Step(w, "acquire", to)
    BY <1>5 DEF TryAcquire
  <2>3. /\ worker' \in [Worker -> WorkerState] /\ JobInv' /\ worker'[w].pc = to
        /\ \A v \in Worker \ {w} : worker'[v] = worker[v]
    BY <2>1, <2>2, StepKept
  <2>4. lease' \in [holder : Worker \cup {None, Lost}, ttl : Nat]
    BY <1>0, <1>5 DEF TryAcquire, TypeOK
  <2>5. AnswerInv' /\ SuccessIsReal'
    BY <1>0, <1>5, <2>3 DEF TryAcquire, AnswerInv, SuccessIsReal
  <2>6. QED
    BY <1>0, <1>5, <2>3, <2>4, <2>5 DEF TryAcquire, BaseInv, TypeOK
<1>6. ASSUME NEW w \in Worker, ClaimNextHookDelivery(w) PROVE BaseInv'
  <2>1. worker[w].pc = "claim" /\ worker[w].job = None
    BY <1>0, <1>6 DEF ClaimNextHookDelivery, JobInv
  <2> DEFINE Released == /\ worker' \in [Worker -> WorkerState] /\ JobInv'
                         /\ worker'[w].pc = "release"
                         /\ \A v \in Worker \ {w} : worker'[v] = worker[v]
             Claims(d) == row' = [row EXCEPT ![d] = [row[d] EXCEPT !.status = "running", !.age = 0]]
             claimed(d) == [pc |-> "release", job |-> d, attempts |-> row[d].attempts, ok |-> FALSE]
  <2>2. Step(w, "claim", "release") => Released
    BY <2>1, StepKept
  <2>3. ASSUME NEW d \in Delivery, worker' = [worker EXCEPT ![w] = claimed(d)] PROVE Released
    <3>1. claimed(d) \in WorkerState /\ claimed(d).pc = "release"
      BY <1>0 DEF WorkerState, Row
    <3> HIDE DEF claimed
    <3>2. QED
      BY <2>3, <3>1, WorkerKept
  <2>4. ASSUME NEW d \in Delivery, Claims(d)
        PROVE  /\ row' \in [Delivery -> Row]
               /\ \A e \in Delivery : row'[e].status = "succeeded" => row[e].status = "succeeded"
    <3>1. \A e \in Delivery : row'[e] \in Row /\ (row'[e].status = "succeeded" => row[e].status = "succeeded")
      BY <1>0, <2>4 DEF Row, RowStatus, TypeOK
    <3>2. QED
      BY <1>0, <2>4, <3>1 DEF TypeOK
  <2>5. \/ UNCHANGED row /\ Step(w, "claim", "release")
        \/ \E d \in Delivery : Claims(d) /\ (worker' = [worker EXCEPT ![w] = claimed(d)]
                                             \/ Step(w, "claim", "release"))
    BY <1>6 DEF ClaimNextHookDelivery
  <2> HIDE DEF Claims, claimed
  <2>6. Released
    BY <2>2, <2>3, <2>5
  <2>7. /\ row' \in [Delivery -> Row]
        /\ \A e \in Delivery : row'[e].status = "succeeded" => row[e].status = "succeeded"
    BY <1>0, <2>4, <2>5 DEF TypeOK
  <2>8. AnswerInv' /\ SuccessIsReal'
    BY <1>0, <1>6, <2>6, <2>7 DEF ClaimNextHookDelivery, AnswerInv, SuccessIsReal
  <2>9. QED
    BY <1>0, <1>6, <2>6, <2>7, <2>8 DEF ClaimNextHookDelivery, BaseInv, TypeOK
<1>7. ASSUME NEW w \in Worker, ReleaseLease(w) PROVE BaseInv'
  <2> DEFINE to == IF worker[w].job = None THEN "idle" ELSE "run"
  <2>1. /\ to \in {"idle", "run"} /\ (to = "run" => worker[w].job \in Delivery)
        /\ (to = "idle" => worker[w].job = None)
    BY <1>0 DEF WorkerState
  <2>2. Step(w, "release", to)
    BY <1>7 DEF ReleaseLease
  <2> HIDE DEF to
  <2>3. /\ worker' \in [Worker -> WorkerState] /\ JobInv' /\ worker'[w].pc = to
        /\ \A v \in Worker \ {w} : worker'[v] = worker[v]
    BY <2>1, <2>2, StepKept
  <2>4. lease' \in [holder : Worker \cup {None, Lost}, ttl : Nat]
    BY <1>0, <1>7 DEF ReleaseLease, TypeOK
  <2>5. AnswerInv' /\ SuccessIsReal'
    BY <1>0, <1>7, <2>1, <2>3 DEF ReleaseLease, AnswerInv, SuccessIsReal
  <2>6. QED
    BY <1>0, <1>7, <2>3, <2>4, <2>5 DEF ReleaseLease, BaseInv, TypeOK
<1>8. ASSUME NEW w \in Worker, Finish(w)
      PROVE  /\ worker' \in [Worker -> WorkerState] /\ JobInv'
             /\ worker'[w].pc = "acquire" /\ worker'[w].job = None
             /\ \A v \in Worker \ {w} : worker'[v] = worker[v]
  <2> DEFINE s == [Idle EXCEPT !.pc = "acquire"]
  <2>1. s \in WorkerState /\ s.pc = "acquire" /\ s.job = None
    BY DEF WorkerState, Idle
  <2>2. worker' = [worker EXCEPT ![w] = s]
    BY <1>8 DEF Finish
  <2> HIDE DEF s
  <2>3. QED
    BY <2>1, <2>2, WorkerKept
<1>9. ASSUME NEW w \in Worker, DropDelivery(w) PROVE BaseInv'
  <2>1. worker[w].job \in Delivery /\ worker[w].attempts \in Nat
    BY <1>0, <1>9 DEF DropDelivery, JobInv, WorkerState
  <2>2. /\ row' \in [Delivery -> Row] /\ row'[worker[w].job].status \in {"failed", "absent"}
        /\ \A e \in Delivery \ {worker[w].job} : row'[e] = row[e]
    BY <1>9, <2>1, UpdateKept DEF DropDelivery, RowStatus, Settled
  <2>3. /\ worker' \in [Worker -> WorkerState] /\ JobInv' /\ worker'[w].pc = "acquire"
        /\ \A v \in Worker \ {w} : worker'[v] = worker[v]
    BY <1>8, <1>9 DEF DropDelivery
  <2>4. AnswerInv' /\ SuccessIsReal'
    BY <1>0, <1>9, <2>2, <2>3 DEF DropDelivery, AnswerInv, SuccessIsReal
  <2>5. QED
    BY <1>0, <1>9, <2>2, <2>3, <2>4 DEF DropDelivery, BaseInv, TypeOK
<1>10. ASSUME NEW w \in Worker, DeliverHTTPHook(w) PROVE BaseInv'
  <2>1. worker[w].job \in Delivery
    BY <1>0, <1>10 DEF DeliverHTTPHook, JobInv
  <2>2. PICK reached \in BOOLEAN, ok \in BOOLEAN :
          /\ ok => reached
          /\ received' = IF reached THEN received \cup {worker[w].job} ELSE received
          /\ worker' = [worker EXCEPT ![w] = [worker[w] EXCEPT !.pc = "write", !.ok = ok]]
    BY <1>10 DEF DeliverHTTPHook
  <2> DEFINE s == [worker[w] EXCEPT !.pc = "write", !.ok = ok]
  <2>3. s \in WorkerState /\ s.pc = "write" /\ s.job = worker[w].job /\ s.ok = ok
    BY <1>0 DEF WorkerState
  <2>4. worker' = [worker EXCEPT ![w] = s]
    BY <2>2
  <2> HIDE DEF s
  <2>5. /\ worker' \in [Worker -> WorkerState] /\ JobInv' /\ worker'[w] = s
        /\ \A v \in Worker \ {w} : worker'[v] = worker[v]
    BY <2>1, <2>3, <2>4, WorkerKept
  <2>6. sent' \in [Delivery -> Nat]
    <3> DEFINE n == IF sent[worker[w].job] < MaxSends THEN sent[worker[w].job] + 1
                    ELSE sent[worker[w].job]
    <3>1. n \in Nat
      BY <1>0, <2>1 DEF TypeOK
    <3>2. sent' = [sent EXCEPT ![worker[w].job] = n]
      BY <1>10 DEF DeliverHTTPHook
    <3> HIDE DEF n
    <3>3. QED
      BY <1>0, <3>1, <3>2 DEF TypeOK
  <2>7. received' \subseteq Delivery /\ received \subseteq received'
        /\ (ok => worker[w].job \in received')
    BY <1>0, <2>1, <2>2 DEF TypeOK
  <2>8. AnswerInv' /\ SuccessIsReal'
    BY <1>0, <1>10, <2>3, <2>5, <2>7 DEF DeliverHTTPHook, AnswerInv, SuccessIsReal
  <2>9. QED
    BY <1>0, <1>10, <2>5, <2>6, <2>7, <2>8 DEF DeliverHTTPHook, BaseInv, TypeOK
<1>11. ASSUME NEW w \in Worker, WriteOutcome(w) PROVE BaseInv'
  <2>1. worker[w].job \in Delivery /\ worker[w].attempts + 1 \in Nat
    BY <1>0, <1>11 DEF WriteOutcome, JobInv, WorkerState
  <2>2. PICK st \in {"succeeded", "failed", "pending"}, t \in Nat :
          /\ UpdateHookDelivery(worker[w].job, st, worker[w].attempts + 1, t)
          /\ st = "succeeded" => worker[w].ok
    <3>1. CASE worker[w].ok /\ UpdateHookDelivery(worker[w].job, "succeeded", worker[w].attempts + 1, 0)
      BY <3>1
    <3>2. CASE UpdateHookDelivery(worker[w].job, "failed", worker[w].attempts + 1, 0)
      BY <3>2
    <3>3. ASSUME NEW t \in 1 .. Backoff,
                 UpdateHookDelivery(worker[w].job, "pending", worker[w].attempts + 1, t)
          PROVE  \E u \in Nat : UpdateHookDelivery(worker[w].job, "pending", worker[w].attempts + 1, u)
      BY <3>3
    <3>4. QED
      BY <1>11, <3>1, <3>2, <3>3 DEF WriteOutcome
  <2>3. /\ row' \in [Delivery -> Row] /\ row'[worker[w].job].status \in {st, "absent"}
        /\ \A e \in Delivery \ {worker[w].job} : row'[e] = row[e]
    BY <2>1, <2>2, UpdateKept DEF RowStatus, Settled
  <2>4. /\ worker' \in [Worker -> WorkerState] /\ JobInv' /\ worker'[w].pc = "acquire"
        /\ \A v \in Worker \ {w} : worker'[v] = worker[v]
    BY <1>8, <1>11 DEF WriteOutcome
  <2>5. worker[w].pc = "write" /\ received' = received
    BY <1>11 DEF WriteOutcome
  <2>6. AnswerInv' /\ SuccessIsReal'
    BY <1>0, <2>2, <2>3, <2>4, <2>5 DEF AnswerInv, SuccessIsReal
  <2>7. QED
    BY <1>0, <1>11, <2>3, <2>4, <2>6 DEF WriteOutcome, BaseInv, TypeOK
<1>12. ASSUME NEW w \in Worker, TouchHookDelivery(w) PROVE BaseInv'
  <2>1. worker[w].job \in Delivery
    BY <1>0, <1>12 DEF TouchHookDelivery, JobInv
  <2>2. \A e \in Delivery : row'[e] \in Row /\ row'[e].status = row[e].status
    BY <1>0, <1>12, <2>1 DEF TouchHookDelivery, Row, TypeOK
  <2>3. row' \in [Delivery -> Row]
    BY <1>0, <1>12, <2>2 DEF TouchHookDelivery, TypeOK
  <2>4. QED
    BY <1>0, <1>12, <2>2, <2>3 DEF TouchHookDelivery, BaseInv, TypeOK, JobInv, AnswerInv, SuccessIsReal
<1>13. ASSUME NEW w \in Worker, LoseOutcome(w) PROVE BaseInv'
  <2>1. /\ worker' \in [Worker -> WorkerState] /\ JobInv' /\ worker'[w].pc = "acquire"
        /\ \A v \in Worker \ {w} : worker'[v] = worker[v]
    BY <1>8, <1>13 DEF LoseOutcome
  <2>2. QED
    BY <1>0, <1>13, <2>1 DEF LoseOutcome, BaseInv, TypeOK, AnswerInv, SuccessIsReal
<1>14. ASSUME NEW w \in Worker, Crash(w) PROVE BaseInv'
  <2>1. Idle \in WorkerState /\ Idle.pc = "idle" /\ Idle.job = None
    BY DEF WorkerState, Idle
  <2>2. /\ worker' \in [Worker -> WorkerState] /\ JobInv' /\ worker'[w] = Idle
        /\ \A v \in Worker \ {w} : worker'[v] = worker[v]
    BY <1>14, <2>1, WorkerKept DEF Crash
  <2>3. QED
    BY <1>0, <1>14, <2>1, <2>2 DEF Crash, BaseInv, TypeOK, AnswerInv, SuccessIsReal
<1>15. CASE SaveHook \/ DeleteHook
  <2>1. Absent \in Row /\ Absent.status # "succeeded"
    BY DEF Absent, Row, RowStatus
  <2>2. QED
    BY <1>0, <1>15, <2>1 DEF SaveHook, DeleteHook, BaseInv, TypeOK, JobInv, AnswerInv, SuccessIsReal
<1>16. CASE Tick
  <2>1. ASSUME NEW e \in Delivery PROVE row'[e] \in Row /\ row'[e].status = row[e].status
    <3> DEFINE wait == IF row[e].wait > 0 THEN row[e].wait - 1 ELSE 0
               age == IF row[e].status = "running" /\ row[e].age <= StaleAfter
                      THEN row[e].age + 1 ELSE row[e].age
    <3>1. row[e] \in Row /\ row[e].wait \in Nat /\ row[e].age \in Nat
      BY <1>0 DEF Row
    <3>2. wait \in Nat /\ age \in Nat
      BY <3>1
    <3>3. row'[e] = [row[e] EXCEPT !.wait = wait, !.age = age]
      BY <1>16 DEF Tick
    <3> HIDE DEF wait, age
    <3>4. QED
      BY <3>1, <3>2, <3>3 DEF Row
  <2>2. row' \in [Delivery -> Row]
    BY <1>16, <2>1 DEF Tick
  <2>3. lease' \in [holder : Worker \cup {None, Lost}, ttl : Nat]
    <3>1. lease \in [holder : Worker \cup {None, Lost}, ttl : Nat]
      BY <1>0 DEF TypeOK
    <3>2. lease' = IF lease.ttl > 1 THEN [lease EXCEPT !.ttl = lease.ttl - 1]
                   ELSE [holder |-> None, ttl |-> 0]
      BY <1>16 DEF Tick
    <3>3. CASE lease.ttl > 1
      BY <3>1, <3>2, <3>3
    <3>4. CASE ~ (lease.ttl > 1)
      BY <3>2, <3>4
    <3>5. QED
      BY <3>3, <3>4
  <2>4. QED
    BY <1>0, <1>16, <2>1, <2>2, <2>3 DEF Tick, BaseInv, TypeOK, JobInv, AnswerInv, SuccessIsReal
<1>17. QED
  BY <1>1, <1>2, <1>3, <1>4, <1>5, <1>6, <1>7, <1>9, <1>10, <1>11, <1>12, <1>13, <1>14,
     <1>15, <1>16 DEF Next, WorkerStep

\* The rows, workers and the lease keep their types under every interleaving.
THEOREM HookTypeCorrect == Spec => []TypeOK
<1>1. BaseInv => TypeOK
  BY DEF BaseInv
<1>2. QED
  BY <1>1, InitBaseInv, NextBaseInv, PTL DEF Spec

\* Recovery may give a row to a second worker while the first one still has it,
\* and both write; a row that says "succeeded" was nevertheless received.
THEOREM SuccessReal == Spec => []SuccessIsReal
<1>1. BaseInv => SuccessIsReal
  BY DEF BaseInv
<1>2. QED
  BY <1>1, InitBaseInv, NextBaseInv, PTL DEF Spec

----------------------------------------------------------------------------
(* Ownership, where a worker heartbeats as long as it lives.               *)

\* A claimed delivery is a running row that is not stale, unless the hook and
\* its rows are gone; and an event has no row before it is dispatched.
OwnerInv ==
  /\ OneOwner
  /\ \A w \in Worker, d \in Delivery : Owns(w, d) =>
       hook = "deleted" \/ (row[d].status = "running" /\ row[d].age <= StaleAfter)
  /\ hook = "deleted" => \A d \in Delivery : row[d].status = "absent"
  /\ \A d \in Delivery : event[d] # "dispatched" => row[d].status = "absent"

\* A step that settles nothing anew.
KeepsSettled ==
  \A d \in Delivery : row[d].status \in Settled => row'[d].status \in {row[d].status, "absent"}

\* A step that gives no delivery to a worker keeps OwnerInv when it leaves the
\* rows of the remaining owners running and fresh, and rows of undispatched
\* events absent.
LEMMA OwnerKept ==
  ASSUME OwnerInv,
         \A v \in Worker, d \in Delivery : worker'[v].job = d => worker[v].job = d,
         \A v \in Worker, d \in Delivery :
            worker'[v].job = d /\ row[d].status = "running" /\ row[d].age <= StaleAfter
              => hook' = "deleted" \/ (row'[d].status = "running" /\ row'[d].age <= StaleAfter),
         hook = "deleted" => hook' = "deleted",
         hook' = "deleted" => \A d \in Delivery : row'[d].status = "absent",
         \A d \in Delivery : event'[d] # "dispatched" =>
            event[d] # "dispatched" /\ (row[d].status = "absent" => row'[d].status = "absent")
  PROVE  OwnerInv'
BY DEF OwnerInv, OneOwner, Owns

\* Nobody owns anything before the first event.
LEMMA InitOwnerInv == Init => OwnerInv
BY NoneAssumption DEF Init, OwnerInv, OneOwner, Owns, Idle, Absent

\* Every step keeps OwnerInv and settled rows settled, when no worker stalls.
LEMMA NextOwnerInv ==
  ASSUME "stall" \notin Hazards, BaseInv, OwnerInv, [Next]_hookVars
  PROVE  OwnerInv' /\ KeepsSettled
<1> USE HookAssumption, NoneAssumption
<1>0. /\ row \in [Delivery -> Row] /\ worker \in [Worker -> WorkerState]
      /\ event \in [Delivery -> {"new", "stored", "dispatched", "lost"}]
      /\ JobInv
      /\ \A d \in Delivery : row[d] \in Row /\ row[d].age \in Nat
  BY DEF BaseInv, TypeOK, Row
<1>1. CASE UNCHANGED hookVars
  BY <1>1, OwnerKept DEF hookVars, OwnerInv, KeepsSettled
<1>2. ASSUME NEW d \in Delivery, WriteObject(d) \/ CrashBeforeDispatch(d)
      PROVE  OwnerInv' /\ KeepsSettled
  <2>1. UNCHANGED <<row, hook, worker>> /\ event[d] # "dispatched"
        /\ \A e \in Delivery \ {d} : event'[e] = event[e]
    BY <1>0, <1>2 DEF WriteObject, CrashBeforeDispatch
  <2>2. QED
    BY <2>1, OwnerKept DEF OwnerInv, KeepsSettled
<1>3. ASSUME NEW d \in Delivery, DispatchObjectHook(d) PROVE OwnerInv' /\ KeepsSettled
  <2>1. /\ UNCHANGED <<hook, worker>> /\ event[d] = "stored" /\ event'[d] = "dispatched"
        /\ \A e \in Delivery \ {d} : event'[e] = event[e] /\ row'[e] = row[e]
        /\ hook = "deleted" => row' = row
    BY <1>0, <1>3 DEF DispatchObjectHook
  <2>2. row[d].status = "absent"
    BY <2>1 DEF OwnerInv
  <2>3. QED
    BY <2>1, <2>2, OwnerKept DEF OwnerInv, KeepsSettled, Settled
<1>4. ASSUME NEW w \in Worker, RecoverStaleHookDeliveries(w) PROVE OwnerInv' /\ KeepsSettled
  <2>1. worker[w].pc = "idle" /\ worker[w].job = None /\ UNCHANGED <<hook, event>>
    BY <1>0, <1>4 DEF RecoverStaleHookDeliveries, Step, JobInv
  <2>2. \A v \in Worker : worker'[v].job = worker[v].job
    BY <1>4, <2>1, StepKept DEF RecoverStaleHookDeliveries
  <2>3. \A d \in Delivery :
          /\ row[d].age <= StaleAfter \/ row[d].status # "running" => row'[d] = row[d]
          /\ row[d].status # "running" => row'[d].status = row[d].status
    <3>1. ASSUME NEW d \in Delivery, ~ Stale(d) PROVE row'[d] = row[d]
      BY <1>4, <3>1 DEF RecoverStaleHookDeliveries
    <3>2. ASSUME NEW d \in Delivery, row[d].age <= StaleAfter \/ row[d].status # "running"
          PROVE  ~ Stale(d)
      BY <1>0, <3>2 DEF Stale
    <3>3. QED
      BY <3>1, <3>2
  <2>4. QED
    BY <2>1, <2>2, <2>3, OwnerKept DEF OwnerInv, KeepsSettled, Settled
<1>5. ASSUME NEW w \in Worker, TryAcquire(w) PROVE OwnerInv' /\ KeepsSettled
  <2>1. worker[w].job = None /\ UNCHANGED <<hook, event, row>>
    BY <1>0, <1>5 DEF TryAcquire, Step, JobInv
  <2>2. PICK to \in {"claim", "idle"} : Step(w, "acquire", to)
    BY <1>5 DEF TryAcquire
  <2>3. \A v \in Worker : worker'[v].job = worker[v].job
    BY <2>1, <2>2, StepKept
  <2>4. QED
    BY <2>1, <2>3, OwnerKept DEF OwnerInv, KeepsSettled
<1>6. ASSUME NEW w \in Worker, ClaimNextHookDelivery(w) PROVE OwnerInv' /\ KeepsSettled
  <2>1. worker[w].pc = "claim" /\ worker[w].job = None /\ UNCHANGED <<hook, event>>
    BY <1>0, <1>6 DEF ClaimNextHookDelivery, JobInv
  <2>2. Step(w, "claim", "release") => \A v \in Worker : worker'[v].job = worker[v].job
    BY <2>1, StepKept
  <2>3. CASE Step(w, "claim", "release") /\ UNCHANGED row
    BY <2>1, <2>2, <2>3, OwnerKept DEF OwnerInv, KeepsSettled
  <2> DEFINE Claims(d) == row' = [row EXCEPT ![d] = [row[d] EXCEPT !.status = "running", !.age = 0]]
             claimed(d) == [pc |-> "release", job |-> d, attempts |-> row[d].attempts, ok |-> FALSE]
  <2>4. ASSUME NEW d \in Delivery, Due(d), Claims(d)
        PROVE  /\ row'[d].status = "running" /\ row'[d].age = 0 /\ row[d].status = "pending"
               /\ \A e \in Delivery \ {d} : row'[e] = row[e]
               /\ hook # "deleted" /\ event[d] = "dispatched" /\ \A v \in Worker : ~ Owns(v, d)
    <3>1. row'[d].status = "running" /\ row'[d].age = 0 /\ \A e \in Delivery \ {d} : row'[e] = row[e]
      BY <1>0, <2>4 DEF Row
    <3>2. row[d].status = "pending"
      BY <2>4 DEF Due
    <3>3. QED
      BY <1>0, <3>1, <3>2 DEF OwnerInv
  <2> HIDE DEF Claims, claimed
  <2>5. ASSUME NEW d \in Delivery, Due(d), Claims(d), Step(w, "claim", "release")
        PROVE  OwnerInv' /\ KeepsSettled
    BY <2>1, <2>2, <2>4, <2>5, OwnerKept DEF OwnerInv, Owns, KeepsSettled, Settled
  <2>6. ASSUME NEW d \in Delivery, Due(d), Claims(d), worker' = [worker EXCEPT ![w] = claimed(d)]
        PROVE  OwnerInv' /\ KeepsSettled
    <3>1. /\ worker'[w].job = d
          /\ \A v \in Worker \ {w} : worker'[v].job = worker[v].job
      BY <1>0, <2>6 DEF claimed
    <3>2. OneOwner'
      BY <2>4, <2>6, <3>1 DEF OwnerInv, OneOwner, Owns
    <3>3. OwnerInv'
      BY <2>1, <2>4, <2>6, <3>1, <3>2 DEF OwnerInv, Owns
    <3>4. QED
      BY <2>4, <2>6, <3>3 DEF KeepsSettled, Settled
  <2>7. QED
    BY <1>6, <2>3, <2>5, <2>6 DEF ClaimNextHookDelivery, Claims, claimed
<1>7. ASSUME NEW w \in Worker, ReleaseLease(w) PROVE OwnerInv' /\ KeepsSettled
  <2> DEFINE to == IF worker[w].job = None THEN "idle" ELSE "run"
  <2>1. /\ to \in {"idle", "run"} /\ (to = "run" => worker[w].job \in Delivery)
        /\ (to = "idle" => worker[w].job = None)
    BY <1>0 DEF WorkerState
  <2>2. Step(w, "release", to)
    BY <1>7 DEF ReleaseLease
  <2> HIDE DEF to
  <2>3. \A v \in Worker : worker'[v].job = worker[v].job
    BY <2>1, <2>2, StepKept
  <2>4. QED
    BY <1>7, <2>3, OwnerKept DEF ReleaseLease, OwnerInv, KeepsSettled
<1>8. ASSUME NEW w \in Worker, Finish(w)
      PROVE  \A v \in Worker, d \in Delivery :
               worker'[v].job = d => worker[v].job = d /\ v # w
  BY <1>0, <1>8 DEF Finish, Idle, None, WorkerState
<1>9. ASSUME NEW w \in Worker, NEW d \in Delivery, worker[w].job = d, Finish(w),
             UNCHANGED <<event, hook>>, \A e \in Delivery \ {d} : row'[e] = row[e],
             row[d].status = "absent" => row' = row
      PROVE  OwnerInv' /\ KeepsSettled
  <2>1. \A v \in Worker : worker'[v].job # d
    BY <1>8, <1>9 DEF OwnerInv, OneOwner, Owns
  <2>2. row[d].status \in {"running", "absent"}
    BY <1>9 DEF OwnerInv, Owns
  <2>3. OwnerInv'
    BY <1>8, <1>9, <2>1, <2>2, OwnerKept DEF OwnerInv
  <2>4. QED
    BY <1>9, <2>2, <2>3 DEF KeepsSettled, Settled
<1>10. ASSUME NEW w \in Worker, DropDelivery(w) PROVE OwnerInv' /\ KeepsSettled
  <2>1. worker[w].job \in Delivery /\ worker[w].attempts \in Nat
    BY <1>0, <1>10 DEF DropDelivery, JobInv, WorkerState
  <2>2. /\ row[worker[w].job].status = "absent" => row' = row
        /\ \A e \in Delivery \ {worker[w].job} : row'[e] = row[e]
    BY <1>10, <2>1, UpdateKept DEF DropDelivery, RowStatus, Settled
  <2>3. QED
    BY <1>9, <1>10, <2>1, <2>2 DEF DropDelivery
<1>11. ASSUME NEW w \in Worker, DeliverHTTPHook(w) PROVE OwnerInv' /\ KeepsSettled
  <2>1. \A v \in Worker : worker'[v].job = worker[v].job
    BY <1>0, <1>11 DEF DeliverHTTPHook, WorkerState
  <2>2. QED
    BY <1>11, <2>1, OwnerKept DEF DeliverHTTPHook, OwnerInv, KeepsSettled
<1>12. ASSUME NEW w \in Worker, WriteOutcome(w) PROVE OwnerInv' /\ KeepsSettled
  <2>1. worker[w].job \in Delivery
    BY <1>0, <1>12 DEF WriteOutcome, JobInv
  <2>2. PICK st, n, t : UpdateHookDelivery(worker[w].job, st, n, t)
    BY <1>12 DEF WriteOutcome
  <2>3. /\ row[worker[w].job].status = "absent" => row' = row
        /\ \A e \in Delivery \ {worker[w].job} : row'[e] = row[e]
    BY <1>0, <2>1, <2>2 DEF UpdateHookDelivery
  <2>4. QED
    BY <1>9, <1>12, <2>1, <2>3 DEF WriteOutcome
<1>13. ASSUME NEW w \in Worker, TouchHookDelivery(w) PROVE OwnerInv' /\ KeepsSettled
  <2>1. worker[w].job \in Delivery
    BY <1>0, <1>13 DEF TouchHookDelivery, JobInv
  <2>2. \A e \in Delivery : row'[e].status = row[e].status /\ row'[e].age \in {0, row[e].age}
    BY <1>0, <1>13, <2>1 DEF TouchHookDelivery, Row
  <2>3. UNCHANGED <<event, hook, worker>> /\ 0 <= StaleAfter
    BY <1>13 DEF TouchHookDelivery
  <2>4. OwnerInv'
    BY <2>2, <2>3, OwnerKept DEF OwnerInv
  <2>5. QED
    BY <2>2, <2>4 DEF KeepsSettled
<1>14. ASSUME NEW w \in Worker, LoseOutcome(w) PROVE OwnerInv' /\ KeepsSettled
  BY <1>8, <1>14, OwnerKept DEF LoseOutcome, OwnerInv, KeepsSettled
<1>15. ASSUME NEW w \in Worker, Crash(w) PROVE OwnerInv' /\ KeepsSettled
  <2>1. \A v \in Worker, d \in Delivery : worker'[v].job = d => worker[v].job = d
    BY <1>0, <1>15 DEF Crash, Idle
  <2>2. QED
    BY <1>15, <2>1, OwnerKept DEF Crash, OwnerInv, KeepsSettled
<1>16. CASE SaveHook
  BY <1>16, OwnerKept DEF SaveHook, OwnerInv, KeepsSettled
<1>17. CASE DeleteHook
  <2>1. \A d \in Delivery : row'[d].status = "absent"
    BY <1>17 DEF DeleteHook, Absent
  <2>2. QED
    BY <1>17, <2>1, OwnerKept DEF DeleteHook, OwnerInv, KeepsSettled
<1>18. CASE Tick
  <2>1. \A d \in Delivery :
          /\ row'[d].status = row[d].status
          /\ row'[d].age = IF row[d].status = "running" /\ row[d].age <= StaleAfter
                           THEN row[d].age + 1 ELSE row[d].age
    BY <1>0, <1>18 DEF Tick, Row
  <2>2. UNCHANGED <<event, hook, worker>> /\ Heartbeating
    BY <1>18 DEF Tick
  <2>3. ASSUME NEW v \in Worker, NEW d \in Delivery, worker'[v].job = d,
               row[d].status = "running", row[d].age <= StaleAfter
        PROVE  row'[d].status = "running" /\ row'[d].age <= StaleAfter
    <3>1. row[d].age < StaleAfter
      BY <2>2, <2>3 DEF Heartbeating
    <3>2. QED
      BY <1>0, <2>1, <2>3, <3>1
  <2>4. OwnerInv'
    BY <2>1, <2>2, <2>3, OwnerKept DEF OwnerInv
  <2>5. QED
    BY <2>1, <2>4 DEF KeepsSettled
<1>19. QED
  BY <1>1, <1>2, <1>3, <1>4, <1>5, <1>6, <1>7, <1>10, <1>11, <1>12, <1>13, <1>14,
     <1>15, <1>16, <1>17, <1>18 DEF Next, WorkerStep

\* As long as no worker stalls, a delivery is never in the hands of two
\* workers, with or without Redis, whatever crashes and whoever deletes the
\* hook meanwhile.
THEOREM OneOwnerOnly == ASSUME "stall" \notin Hazards PROVE Spec => []OneOwner
<1>1. Init => BaseInv /\ OwnerInv
  BY InitBaseInv, InitOwnerInv
<1>2. BaseInv /\ OwnerInv /\ [Next]_hookVars => BaseInv' /\ OwnerInv'
  BY NextBaseInv, NextOwnerInv
<1>3. OwnerInv => OneOwner
  BY DEF OwnerInv
<1>4. QED
  BY <1>1, <1>2, <1>3, PTL DEF Spec

\* As long as no worker stalls, no late outcome reopens a settled delivery.
THEOREM SettledStays == ASSUME "stall" \notin Hazards PROVE Spec => SettledForGood
<1>1. Init => BaseInv /\ OwnerInv
  BY InitBaseInv, InitOwnerInv
<1>2. BaseInv /\ OwnerInv /\ [Next]_hookVars => BaseInv' /\ OwnerInv'
  BY NextBaseInv, NextOwnerInv
<1>3. BaseInv /\ OwnerInv /\ [Next]_hookVars => [KeepsSettled]_hookVars
  BY NextOwnerInv
<1>4. [KeepsSettled]_hookVars
        => [\A d \in Delivery : row[d].status \in Settled
              => row'[d].status \in {row[d].status, "absent"}]_hookVars
  BY DEF KeepsSettled
<1>5. QED
  BY <1>1, <1>2, <1>3, <1>4, PTL DEF Spec, SettledForGood
----------------------------------------------------------------------------
(* The attempts column against the requests that were sent.                *)

\* The request of w for d is out and its outcome not yet written.
Uncounted(w, d) == Owns(w, d) /\ worker[w].pc = "write"

\* A worker counts on from the row it claimed, which holds while it owns the
\* row; an event that is not dispatched was never sent.
CountInv ==
  /\ \A w \in Worker, d \in Delivery :
       Owns(w, d) /\ row[d].status # "absent" => worker[w].attempts = row[d].attempts
  /\ \A d \in Delivery : event[d] # "dispatched" => sent[d] = 0
  /\ \A d \in Delivery : row[d].status # "absent" =>
       sent[d] <= row[d].attempts + losses
                  + IF \E w \in Worker : Uncounted(w, d) THEN 1 ELSE 0

\* With one owner per delivery, CountInv is the bound of RequestsAreCounted.
LEMMA CountBound == TypeOK /\ OneOwner /\ CountInv => RequestsAreCounted
<1> SUFFICES ASSUME TypeOK, OneOwner, CountInv, NEW d \in Delivery, row[d].status # "absent"
             PROVE  sent[d] <= row[d].attempts + losses
                       + Cardinality({w \in Worker : Owns(w, d) /\ worker[w].pc = "write"})
  BY DEF RequestsAreCounted
<1> DEFINE W == {w \in Worker : Owns(w, d) /\ worker[w].pc = "write"}
<1>1. Cardinality(W) = IF \E w \in Worker : Uncounted(w, d) THEN 1 ELSE 0
  <2>1. CASE \E w \in Worker : Uncounted(w, d)
    <3>1. PICK w \in Worker : Uncounted(w, d)
      BY <2>1
    <3>2. W = {w}
      BY <3>1 DEF Uncounted, OneOwner
    <3>3. QED
      BY <2>1, <3>2, FS_Singleton
  <2>2. CASE ~ \E w \in Worker : Uncounted(w, d)
    <3>1. W = {}
      BY <2>2 DEF Uncounted
    <3>2. QED
      BY <2>2, <3>1, FS_EmptySet
  <2>3. QED
    BY <2>1, <2>2
<1>2. QED
  BY <1>1 DEF CountInv

\* A step that sends nothing and counts nothing keeps CountInv, if a request
\* whose outcome it forgets is entered as a loss.
LEMMA CountKept ==
  ASSUME BaseInv, CountInv,
         UNCHANGED sent, losses' \in Nat, losses <= losses',
         \A d \in Delivery : row'[d].status # "absent" =>
            row[d].status # "absent" /\ row'[d].attempts = row[d].attempts,
         \A v \in Worker, d \in Delivery : worker'[v].job = d =>
            worker[v].job = d /\ worker'[v].attempts = worker[v].attempts,
         \/ \A v \in Worker, d \in Delivery : Uncounted(v, d) =>
               worker'[v].job = d /\ worker'[v].pc = "write"
         \/ losses' = losses + 1,
         \A d \in Delivery : event'[d] # "dispatched" => event[d] # "dispatched"
  PROVE  CountInv'
<1>1. /\ losses \in Nat
      /\ \A d \in Delivery : sent[d] \in Nat /\ row[d].attempts \in Nat
  BY DEF BaseInv, TypeOK, Row
<1>2. ASSUME NEW d \in Delivery, row'[d].status # "absent"
      PROVE  sent'[d] <= row'[d].attempts + losses'
                         + IF \E w \in Worker : Uncounted(w, d)' THEN 1 ELSE 0
  <2>1. /\ row[d].status # "absent" /\ row'[d].attempts = row[d].attempts
        /\ sent[d] <= row[d].attempts + losses
                      + IF \E w \in Worker : Uncounted(w, d) THEN 1 ELSE 0
    BY <1>2 DEF CountInv
  <2>2. \/ losses' = losses + 1
        \/ (\E w \in Worker : Uncounted(w, d)) => \E w \in Worker : Uncounted(w, d)'
    BY DEF Uncounted, Owns
  <2>3. QED
    BY <1>1, <2>1, <2>2
<1>3. QED
  BY <1>2 DEF CountInv, Owns

\* Every step keeps the count, when no worker stalls.
LEMMA NextCountInv ==
  ASSUME "stall" \notin Hazards, BaseInv, OwnerInv, CountInv, [Next]_hookVars
  PROVE  CountInv'
<1> USE HookAssumption, NoneAssumption
<1>0. /\ row \in [Delivery -> Row] /\ worker \in [Worker -> WorkerState]
      /\ event \in [Delivery -> {"new", "stored", "dispatched", "lost"}]
      /\ sent \in [Delivery -> Nat] /\ losses \in Nat
      /\ JobInv
      /\ \A d \in Delivery : row[d] \in Row /\ row[d].attempts \in Nat
      /\ \A w \in Worker : worker[w] \in WorkerState /\ worker[w].attempts \in Nat
  BY DEF BaseInv, TypeOK, Row, WorkerState
\* Steps that only move the program counter of one worker.
<1>a. ASSUME NEW w \in Worker, NEW from \in {"idle", "acquire", "claim", "release"}, NEW to,
             Step(w, from, to)
      PROVE  /\ \A v \in Worker : /\ worker'[v].job = worker[v].job
                                  /\ worker'[v].attempts = worker[v].attempts
             /\ \A v \in Worker, d \in Delivery : Uncounted(v, d) =>
                  worker'[v].job = d /\ worker'[v].pc = "write"
  BY <1>0, <1>a DEF Step, WorkerState, Uncounted, Owns
\* Steps that end with the loop to the next claim.
<1>b. ASSUME NEW w \in Worker, Finish(w)
      PROVE  /\ worker'[w].job = None
             /\ \A v \in Worker \ {w} : worker'[v] = worker[v]
  BY <1>0, <1>b DEF Finish, Idle, WorkerState
<1>1. CASE UNCHANGED hookVars
  BY <1>0, <1>1, CountKept DEF hookVars, Uncounted, Owns
<1>2. ASSUME NEW d \in Delivery, WriteObject(d) \/ CrashBeforeDispatch(d) PROVE CountInv'
  BY <1>0, <1>2, CountKept DEF WriteObject, CrashBeforeDispatch, Uncounted, Owns
<1>3. ASSUME NEW d \in Delivery, DispatchObjectHook(d) PROVE CountInv'
  <2>1. /\ UNCHANGED <<worker, sent, losses>>
        /\ event[d] = "stored" /\ event'[d] = "dispatched"
        /\ \A e \in Delivery \ {d} : event'[e] = event[e] /\ row'[e] = row[e]
        /\ row[d].status = "absent" /\ sent[d] = 0
    BY <1>0, <1>3 DEF DispatchObjectHook, OwnerInv, CountInv
  <2>2. row'[d] = row[d] \/ (hook = "enabled" /\ row'[d].status = "pending" /\ row'[d].attempts = 0)
    BY <1>0, <1>3 DEF DispatchObjectHook, Absent
  <2>3. row'[d] # row[d] => \A v \in Worker : ~ Owns(v, d)
    BY <2>1, <2>2 DEF OwnerInv
  <2>4. QED
    BY <1>0, <2>1, <2>2, <2>3 DEF CountInv, Uncounted, Owns
<1>4. ASSUME NEW w \in Worker, RecoverStaleHookDeliveries(w) PROVE CountInv'
  <2>1. \A d \in Delivery : row'[d].status # "absent" =>
          row[d].status # "absent" /\ row'[d].attempts = row[d].attempts
    BY <1>0, <1>4 DEF RecoverStaleHookDeliveries, Row, Stale
  <2>2. UNCHANGED <<event, sent, losses>> /\ Step(w, "idle", "acquire")
    BY <1>4 DEF RecoverStaleHookDeliveries
  <2>3. QED
    BY <1>0, <1>a, <2>1, <2>2, CountKept
<1>5. ASSUME NEW w \in Worker, TryAcquire(w) PROVE CountInv'
  <2>1. UNCHANGED <<event, row, sent, losses>> /\ \E to : Step(w, "acquire", to)
    BY <1>5 DEF TryAcquire
  <2>2. QED
    BY <1>0, <1>a, <2>1, CountKept
<1>6. ASSUME NEW w \in Worker, ClaimNextHookDelivery(w) PROVE CountInv'
  <2>1. UNCHANGED <<event, sent, losses>> /\ worker[w].pc = "claim"
    BY <1>6 DEF ClaimNextHookDelivery
  <2>2. CASE Step(w, "claim", "release") /\ UNCHANGED row
    BY <1>0, <1>a, <2>1, <2>2, CountKept
  <2> DEFINE Claims(d) == row' = [row EXCEPT ![d] = [row[d] EXCEPT !.status = "running", !.age = 0]]
             claimed(d) == [pc |-> "release", job |-> d, attempts |-> row[d].attempts, ok |-> FALSE]
  <2>3. ASSUME NEW d \in Delivery, Due(d), Claims(d)
        PROVE  \A e \in Delivery : row'[e].status # "absent" =>
                 row[e].status # "absent" /\ row'[e].attempts = row[e].attempts
    BY <1>0, <2>3 DEF Row, Due
  <2> HIDE DEF Claims
  <2>4. ASSUME NEW d \in Delivery, Due(d), Claims(d), Step(w, "claim", "release")
        PROVE  CountInv'
    BY <1>0, <1>a, <2>1, <2>3, <2>4, CountKept
  <2>5. ASSUME NEW d \in Delivery, Due(d), Claims(d), worker' = [worker EXCEPT ![w] = claimed(d)]
        PROVE  CountInv'
    <3>1. /\ worker'[w].job = d /\ worker'[w].attempts = row[d].attempts
          /\ worker'[w].pc = "release"
          /\ \A v \in Worker \ {w} : worker'[v] = worker[v]
      BY <1>0, <2>5 DEF claimed
    <3>2. row[d].status # "absent"
      BY <2>5 DEF Due
    <3>3. \A v \in Worker, e \in Delivery : Uncounted(v, e) => Uncounted(v, e)'
      BY <2>1, <3>1 DEF Uncounted, Owns
    <3>4. QED
      BY <1>0, <2>1, <2>3, <2>5, <3>1, <3>2, <3>3 DEF CountInv, Owns
  <2>6. QED
    BY <1>6, <2>2, <2>4, <2>5 DEF ClaimNextHookDelivery, Claims
<1>7. ASSUME NEW w \in Worker, ReleaseLease(w) PROVE CountInv'
  <2>1. UNCHANGED <<event, row, sent, losses>> /\ \E to : Step(w, "release", to)
    BY <1>7 DEF ReleaseLease
  <2>2. QED
    BY <1>0, <1>a, <2>1, CountKept
<1>8. ASSUME NEW w \in Worker, DropDelivery(w) PROVE CountInv'
  <2> DEFINE d == worker[w].job
  <2>1. /\ d \in Delivery /\ worker[w].pc = "run" /\ UNCHANGED <<event, sent, losses>>
        /\ UpdateHookDelivery(d, "failed", worker[w].attempts, 0)
    BY <1>0, <1>8 DEF DropDelivery, JobInv
  <2>2. \A e \in Delivery : row'[e].status # "absent" =>
          row[e].status # "absent" /\ row'[e].attempts = row[e].attempts
    <3>1. row[d].status # "absent" => worker[w].attempts = row[d].attempts
      BY <2>1 DEF CountInv, Owns
    <3>2. QED
      BY <1>0, <2>1, <3>1 DEF UpdateHookDelivery
  <2>3. \A v \in Worker, e \in Delivery :
          /\ worker'[v].job = e => worker'[v] = worker[v]
          /\ Uncounted(v, e) => worker'[v] = worker[v]
    BY <1>b, <1>8, <2>1 DEF DropDelivery, Uncounted
  <2>4. QED
    BY <1>0, <2>1, <2>2, <2>3, CountKept DEF Uncounted, Owns
<1>9. ASSUME NEW w \in Worker, DeliverHTTPHook(w) PROVE CountInv'
  <2> DEFINE d == worker[w].job
  <2>1. /\ d \in Delivery /\ worker[w].pc = "run" /\ UNCHANGED <<event, row, losses>>
        /\ sent'[d] \in Nat /\ sent'[d] <= sent[d] + 1
        /\ \A e \in Delivery \ {d} : sent'[e] = sent[e]
    BY <1>0, <1>9 DEF DeliverHTTPHook, JobInv
  <2>2. /\ worker'[w].job = d /\ worker'[w].pc = "write"
        /\ worker'[w].attempts = worker[w].attempts
        /\ \A v \in Worker \ {w} : worker'[v] = worker[v]
    BY <1>0, <1>9 DEF DeliverHTTPHook, WorkerState
  <2>3. ~ \E v \in Worker : Uncounted(v, d)
    BY <2>1 DEF OwnerInv, OneOwner, Owns, Uncounted
  <2>4. \A v \in Worker, e \in Delivery : Uncounted(v, e) => Uncounted(v, e)'
    BY <2>1, <2>2 DEF Uncounted, Owns
  <2>6. ASSUME NEW e \in Delivery, event'[e] # "dispatched" PROVE sent'[e] = 0
    <3>1. hook # "deleted"
      BY <1>9 DEF DeliverHTTPHook
    <3>2. e # d
      BY <2>1, <2>6, <3>1 DEF OwnerInv, Owns
    <3>3. QED
      BY <2>1, <2>6, <3>2 DEF CountInv
  <2>7. ASSUME NEW e \in Delivery, row'[e].status # "absent"
        PROVE  sent'[e] <= row'[e].attempts + losses'
                           + IF \E v \in Worker : Uncounted(v, e)' THEN 1 ELSE 0
    <3>1. sent[e] <= row[e].attempts + losses
                     + IF \E v \in Worker : Uncounted(v, e) THEN 1 ELSE 0
      BY <2>1, <2>7 DEF CountInv
    <3> HIDE DEF d
    <3>2. CASE e = d
      <4>1. sent[e] <= row[e].attempts + losses
        BY <1>0, <2>3, <3>1, <3>2
      <4>2. \E v \in Worker : Uncounted(v, e)'
        BY <2>2, <3>2 DEF Uncounted, Owns
      <4>3. sent'[e] <= row'[e].attempts + losses' + 1
        BY <1>0, <2>1, <3>2, <4>1
      <4>4. QED
        BY <4>2, <4>3
    <3>3. CASE e # d
      <4>1. (\E v \in Worker : Uncounted(v, e)) => \E v \in Worker : Uncounted(v, e)'
        BY <2>4
      <4>2. QED
        BY <1>0, <2>1, <3>1, <3>3, <4>1
    <3>4. QED
      BY <3>2, <3>3
  <2>8. QED
    BY <1>0, <2>1, <2>2, <2>6, <2>7 DEF CountInv, Owns
<1>10. ASSUME NEW w \in Worker, WriteOutcome(w) PROVE CountInv'
  <2> DEFINE d == worker[w].job
  <2>1. /\ d \in Delivery /\ worker[w].pc = "write" /\ UNCHANGED <<event, sent, losses>>
        /\ \E st, t : UpdateHookDelivery(d, st, worker[w].attempts + 1, t)
    BY <1>0, <1>10 DEF WriteOutcome, JobInv
  <2>2. /\ worker'[w].job = None
        /\ \A v \in Worker \ {w} : worker'[v] = worker[v]
    BY <1>b, <1>10 DEF WriteOutcome
  <2> HIDE DEF d
  <2>3. /\ \A e \in Delivery \ {d} : row'[e] = row[e]
        /\ row[d].status = "absent" => row'[d] = row[d]
        /\ row[d].status # "absent" => row'[d].attempts = worker[w].attempts + 1
    BY <1>0, <2>1 DEF UpdateHookDelivery
  <2>4. row[d].status # "absent" => worker[w].attempts = row[d].attempts
    BY <2>1 DEF CountInv, Owns, d
  <2>5. \A v \in Worker : worker'[v].job # d
    BY <2>1, <2>2 DEF OwnerInv, OneOwner, Owns, d
  <2>6. ASSUME NEW e \in Delivery, row'[e].status # "absent"
        PROVE  sent'[e] <= row'[e].attempts + losses'
                           + IF \E v \in Worker : Uncounted(v, e)' THEN 1 ELSE 0
    <3>1. row[e].status # "absent"
      BY <2>3, <2>6
    <3>2. sent[e] <= row[e].attempts + losses
                     + IF \E v \in Worker : Uncounted(v, e) THEN 1 ELSE 0
      BY <3>1 DEF CountInv
    <3>3. CASE e = d
      <4>1. row'[e].attempts = row[e].attempts + 1
        BY <2>3, <2>4, <3>1, <3>3
      <4>2. QED
        BY <1>0, <2>1, <3>2, <4>1
    <3>4. CASE e # d
      <4>1. \A v \in Worker : Uncounted(v, e) => Uncounted(v, e)'
        BY <2>2, <3>4 DEF Uncounted, Owns, d
      <4>2. QED
        BY <1>0, <2>1, <2>3, <3>2, <3>4, <4>1
    <3>5. QED
      BY <3>3, <3>4
  <2>7. QED
    BY <2>1, <2>2, <2>3, <2>5, <2>6 DEF CountInv, Owns
<1>11. ASSUME NEW w \in Worker, TouchHookDelivery(w) PROVE CountInv'
  <2>1. worker[w].job \in Delivery
    BY <1>0, <1>11 DEF TouchHookDelivery, JobInv
  <2>2. \A e \in Delivery : row'[e].status = row[e].status /\ row'[e].attempts = row[e].attempts
    BY <1>0, <1>11, <2>1 DEF TouchHookDelivery, Row
  <2>3. QED
    BY <1>0, <1>11, <2>2, CountKept DEF TouchHookDelivery, Uncounted, Owns
<1>12. ASSUME NEW w \in Worker, LoseOutcome(w) \/ Crash(w) PROVE CountInv'
  <2>1. /\ UNCHANGED <<event, row, sent>> /\ losses' = losses + 1
        /\ worker'[w].job = None
        /\ \A v \in Worker \ {w} : worker'[v] = worker[v]
    BY <1>0, <1>b, <1>12 DEF LoseOutcome, Crash, Idle
  <2>2. QED
    BY <1>0, <2>1, CountKept
<1>13. CASE SaveHook \/ DeleteHook
  BY <1>0, <1>13, CountKept DEF SaveHook, DeleteHook, Absent, Uncounted, Owns
<1>14. CASE Tick
  <2>1. \A d \in Delivery : row'[d].status = row[d].status /\ row'[d].attempts = row[d].attempts
    BY <1>0, <1>14 DEF Tick, Row
  <2>2. UNCHANGED <<event, worker, sent, losses>>
    BY <1>14 DEF Tick
  <2>3. QED
    BY <1>0, <2>1, <2>2, CountKept DEF Uncounted, Owns
<1>15. QED
  BY <1>1, <1>2, <1>3, <1>4, <1>5, <1>6, <1>7, <1>8, <1>9, <1>10, <1>11, <1>12, <1>13,
     <1>14 DEF Next, WorkerStep

\* As long as no worker stalls, the attempts column falls behind the requests
\* by no more than the outcomes that crashes and failed writes lost.
THEOREM AttemptsCount == ASSUME "stall" \notin Hazards PROVE Spec => []RequestsAreCounted
<1>1. Init => BaseInv /\ OwnerInv /\ CountInv
  <2>1. Init => CountInv
    BY NoneAssumption DEF Init, CountInv, Owns, Idle, Absent
  <2>2. QED
    BY <2>1, InitBaseInv, InitOwnerInv
<1>2. BaseInv /\ OwnerInv /\ CountInv /\ [Next]_hookVars => (BaseInv /\ OwnerInv /\ CountInv)'
  BY NextBaseInv, NextOwnerInv, NextCountInv
<1>3. BaseInv /\ OwnerInv /\ CountInv => RequestsAreCounted
  BY CountBound DEF BaseInv, OwnerInv
<1>4. QED
  BY <1>1, <1>2, <1>3, PTL DEF Spec
----------------------------------------------------------------------------
(* What "failed" means, stalled workers and second owners included.        *)

\* A row that may still be claimed has attempts left, and one that was given
\* up has none; no row counts more requests than were sent.
RowEarned(r, n) ==
  /\ r.attempts <= n
  /\ r.status \in {"pending", "running"} => r.attempts < MaxAttempts
  /\ r.status = "failed" => r.attempts = MaxAttempts

\* A worker started from a count with attempts left, and its own request is one
\* more than that count.
EarnedInv ==
  /\ hook = "enabled"
  /\ \A d \in Delivery : RowEarned(row[d], sent[d])
  /\ \A w \in Worker, d \in Delivery : Owns(w, d) =>
       /\ worker[w].attempts < MaxAttempts
       /\ worker[w].attempts <= sent[d]
       /\ worker[w].pc = "write" => worker[w].attempts < sent[d]

\* A step that starts no work and sends nothing keeps EarnedInv, if every row it
\* leaves is earned.
LEMMA EarnedKept ==
  ASSUME EarnedInv, UNCHANGED <<hook, sent>>,
         \A d \in Delivery : RowEarned(row'[d], sent[d]),
         \A v \in Worker, d \in Delivery : worker'[v].job = d =>
            /\ worker[v].job = d /\ worker'[v].attempts = worker[v].attempts
            /\ worker'[v].pc = "write" => worker[v].pc = "write"
  PROVE  EarnedInv'
BY DEF EarnedInv, Owns

\* A row keeps what it has earned when its status and count stay, or when it
\* goes from running to pending or back.
LEMMA EarnedRow ==
  ASSUME NEW r, NEW q, NEW n, RowEarned(r, n), q.attempts = r.attempts,
         \/ q.status = r.status
         \/ q.status \in {"pending", "running"} /\ r.status \in {"pending", "running"}
  PROVE  RowEarned(q, n)
BY DEF RowEarned

\* Every step keeps EarnedInv while nobody touches the hook and the database
\* answers.
LEMMA NextEarnedInv ==
  ASSUME Hazards \cap {"admin", "error"} = {}, MaxAttempts <= MaxSends,
         BaseInv, EarnedInv, [Next]_hookVars
  PROVE  EarnedInv'
<1> USE HookAssumption, NoneAssumption
<1>0. /\ row \in [Delivery -> Row] /\ worker \in [Worker -> WorkerState]
      /\ sent \in [Delivery -> Nat]
      /\ JobInv
      /\ \A d \in Delivery : row[d] \in Row /\ row[d].attempts \in Nat
      /\ \A w \in Worker : worker[w] \in WorkerState /\ worker[w].attempts \in Nat
      /\ \A d \in Delivery : RowEarned(row[d], sent[d])
      /\ "error" \notin Hazards /\ "admin" \notin Hazards
  BY DEF BaseInv, TypeOK, Row, WorkerState, EarnedInv
\* Steps that only move the program counter of one worker.
<1>a. ASSUME NEW w \in Worker, NEW from,
             NEW to \in {"idle", "acquire", "claim", "release", "run"}, Step(w, from, to)
      PROVE  \A v \in Worker : /\ worker'[v].job = worker[v].job
                               /\ worker'[v].attempts = worker[v].attempts
                               /\ worker'[v].pc = "write" => worker[v].pc = "write"
  BY <1>0, <1>a DEF Step, WorkerState
\* Steps after which a worker has no delivery.
<1>b. ASSUME NEW w \in Worker, Finish(w) \/ worker' = [worker EXCEPT ![w] = Idle]
      PROVE  /\ worker'[w].job = None
             /\ \A v \in Worker \ {w} : worker'[v] = worker[v]
  BY <1>0, <1>b DEF Finish, Idle
<1>1. CASE UNCHANGED hookVars
  BY <1>0, <1>1, EarnedKept DEF hookVars
<1>2. ASSUME NEW d \in Delivery, WriteObject(d) \/ CrashBeforeDispatch(d) PROVE EarnedInv'
  BY <1>0, <1>2, EarnedKept DEF WriteObject, CrashBeforeDispatch
<1>3. ASSUME NEW d \in Delivery, DispatchObjectHook(d) PROVE EarnedInv'
  <2>1. /\ UNCHANGED <<hook, worker, sent>>
        /\ \A e \in Delivery \ {d} : row'[e] = row[e]
        /\ row'[d] = row[d] \/ (row'[d].status = "pending" /\ row'[d].attempts = 0)
    BY <1>0, <1>3 DEF DispatchObjectHook, Absent
  <2>2. \A e \in Delivery : RowEarned(row'[e], sent[e])
    BY <1>0, <2>1 DEF RowEarned
  <2>3. QED
    BY <2>1, <2>2, EarnedKept
<1>4. ASSUME NEW w \in Worker, RecoverStaleHookDeliveries(w) PROVE EarnedInv'
  <2>1. ASSUME NEW d \in Delivery PROVE RowEarned(row'[d], sent[d])
    <3>1. \/ row'[d] = row[d]
          \/ /\ row[d].status = "running" /\ row'[d].status = "pending"
             /\ row'[d].attempts = row[d].attempts
      BY <1>0, <1>4 DEF RecoverStaleHookDeliveries, Row, Stale
    <3>2. QED
      BY <1>0, <3>1, EarnedRow
  <2>2. UNCHANGED <<hook, sent>> /\ Step(w, "idle", "acquire")
    BY <1>4 DEF RecoverStaleHookDeliveries
  <2>3. QED
    BY <1>a, <2>1, <2>2, EarnedKept
<1>5. ASSUME NEW w \in Worker, TryAcquire(w) PROVE EarnedInv'
  <2>1. UNCHANGED <<hook, row, sent>> /\ \E to \in {"claim", "idle"} : Step(w, "acquire", to)
    BY <1>5 DEF TryAcquire
  <2>2. QED
    BY <1>0, <1>a, <2>1, EarnedKept
<1>6. ASSUME NEW w \in Worker, ClaimNextHookDelivery(w) PROVE EarnedInv'
  <2>1. UNCHANGED <<hook, sent>> /\ worker[w].pc = "claim"
    BY <1>6 DEF ClaimNextHookDelivery
  <2>2. CASE Step(w, "claim", "release") /\ UNCHANGED row
    BY <1>0, <1>a, <2>1, <2>2, EarnedKept
  <2> DEFINE Claims(d) == row' = [row EXCEPT ![d] = [row[d] EXCEPT !.status = "running", !.age = 0]]
             claimed(d) == [pc |-> "release", job |-> d, attempts |-> row[d].attempts, ok |-> FALSE]
  <2>3. ASSUME NEW d \in Delivery, Due(d), Claims(d),
               worker' = [worker EXCEPT ![w] = claimed(d)]
        PROVE  EarnedInv'
    <3>1. /\ row[d].status = "pending" /\ row'[d].status = "running"
          /\ row'[d].attempts = row[d].attempts
          /\ \A e \in Delivery \ {d} : row'[e] = row[e]
      BY <1>0, <2>3 DEF Row, Due
    <3>2. /\ worker'[w].job = d /\ worker'[w].attempts = row[d].attempts
          /\ worker'[w].pc = "release"
          /\ \A v \in Worker \ {w} : worker'[v] = worker[v]
      BY <1>0, <2>3 DEF claimed
    <3> HIDE DEF Claims, claimed
    <3>3. \A e \in Delivery : RowEarned(row'[e], sent[e])
      BY <1>0, <3>1, EarnedRow
    <3>4. row[d].attempts < MaxAttempts /\ row[d].attempts <= sent[d]
      BY <1>0, <3>1 DEF RowEarned
    <3>5. QED
      BY <2>1, <3>2, <3>3, <3>4 DEF EarnedInv, Owns
  <2>4. QED
    BY <1>0, <1>6, <2>2, <2>3 DEF ClaimNextHookDelivery
<1>7. ASSUME NEW w \in Worker, ReleaseLease(w) PROVE EarnedInv'
  <2>1. UNCHANGED <<hook, row, sent>> /\ \E to \in {"idle", "run"} : Step(w, "release", to)
    BY <1>7 DEF ReleaseLease
  <2>2. QED
    BY <1>0, <1>a, <2>1, EarnedKept
<1>8. ASSUME NEW w \in Worker, DropDelivery(w) PROVE EarnedInv'
  BY <1>0, <1>8 DEF DropDelivery, EarnedInv
<1>9. ASSUME NEW w \in Worker, DeliverHTTPHook(w) PROVE EarnedInv'
  <2> DEFINE d == worker[w].job
  <2>1. /\ d \in Delivery /\ UNCHANGED <<row, hook>>
        /\ sent' = [sent EXCEPT ![d] = IF sent[d] < MaxSends THEN sent[d] + 1 ELSE sent[d]]
    BY <1>0, <1>9 DEF DeliverHTTPHook, JobInv
  <2>2. /\ worker'[w].job = d /\ worker'[w].attempts = worker[w].attempts
        /\ \A v \in Worker \ {w} : worker'[v] = worker[v]
    BY <1>0, <1>9 DEF DeliverHTTPHook, WorkerState
  <2>3. worker[w].attempts < MaxAttempts /\ worker[w].attempts <= sent[d]
    BY <2>1 DEF EarnedInv, Owns
  <2> HIDE DEF d
  <2>4. /\ \A e \in Delivery : sent'[e] \in Nat /\ sent[e] <= sent'[e]
        /\ worker[w].attempts < sent'[d]
    BY <1>0, <2>1, <2>3
  <2>5. \A e \in Delivery : RowEarned(row'[e], sent'[e])
    <3>1. \A e \in Delivery : row[e].attempts <= sent'[e]
      BY <1>0, <2>4 DEF RowEarned
    <3>2. QED
      BY <1>0, <2>1, <3>1 DEF RowEarned
  <2>6. ASSUME NEW v \in Worker, NEW e \in Delivery, worker'[v].job = e
        PROVE  /\ worker'[v].attempts < MaxAttempts
               /\ worker'[v].attempts <= sent'[e]
               /\ worker'[v].pc = "write" => worker'[v].attempts < sent'[e]
    <3>1. CASE v = w
      BY <1>0, <2>2, <2>3, <2>4, <2>6, <3>1
    <3>2. CASE v # w
      <4>1. /\ worker[v].attempts < MaxAttempts /\ worker[v].attempts <= sent[e]
            /\ worker[v].pc = "write" => worker[v].attempts < sent[e]
        BY <2>2, <2>6, <3>2 DEF EarnedInv, Owns
      <4>2. QED
        BY <1>0, <2>2, <2>4, <3>2, <4>1
    <3>3. QED
      BY <3>1, <3>2
  <2>7. QED
    BY <2>1, <2>5, <2>6 DEF EarnedInv, Owns
<1>10. ASSUME NEW w \in Worker, WriteOutcome(w) PROVE EarnedInv'
  <2> DEFINE d == worker[w].job
             n == worker[w].attempts + 1
  <2>1. d \in Delivery /\ worker[w].pc = "write" /\ UNCHANGED <<hook, sent>>
    BY <1>0, <1>10 DEF WriteOutcome, JobInv
  <2>2. n \in Nat /\ n <= MaxAttempts /\ n <= sent[d]
    BY <1>0, <2>1 DEF EarnedInv, Owns
  <2>3. PICK st, t : /\ UpdateHookDelivery(d, st, n, t)
                     /\ \/ st = "succeeded"
                        \/ st = "failed" /\ n >= MaxAttempts
                        \/ st = "pending" /\ n < MaxAttempts
    BY <1>10 DEF WriteOutcome
  <2>4. /\ worker'[w].job = None
        /\ \A v \in Worker \ {w} : worker'[v] = worker[v]
    BY <1>b, <1>10 DEF WriteOutcome
  <2> HIDE DEF d, n
  <2>5. /\ \A e \in Delivery \ {d} : row'[e] = row[e]
        /\ row'[d] = row[d] \/ (row'[d].status = st /\ row'[d].attempts = n)
    BY <1>0, <2>1, <2>3 DEF UpdateHookDelivery
  <2>6. ASSUME row'[d].status = st /\ row'[d].attempts = n
        PROVE  RowEarned(row'[d], sent[d])
    BY <2>2, <2>3, <2>6 DEF RowEarned
  <2>7. \A e \in Delivery : RowEarned(row'[e], sent[e])
    BY <1>0, <2>5, <2>6
  <2>8. QED
    BY <2>1, <2>4, <2>7, EarnedKept
<1>11. ASSUME NEW w \in Worker, TouchHookDelivery(w) PROVE EarnedInv'
  <2>1. worker[w].job \in Delivery
    BY <1>0, <1>11 DEF TouchHookDelivery, JobInv
  <2>2. \A e \in Delivery : row'[e].status = row[e].status /\ row'[e].attempts = row[e].attempts
    BY <1>0, <1>11, <2>1 DEF TouchHookDelivery, Row
  <2>3. \A e \in Delivery : RowEarned(row'[e], sent[e])
    BY <1>0, <2>2, EarnedRow
  <2>4. QED
    BY <1>11, <2>3, EarnedKept DEF TouchHookDelivery
<1>12. ASSUME NEW w \in Worker, LoseOutcome(w) PROVE EarnedInv'
  BY <1>0, <1>12 DEF LoseOutcome
<1>13. ASSUME NEW w \in Worker, Crash(w) PROVE EarnedInv'
  BY <1>0, <1>b, <1>13, EarnedKept DEF Crash
<1>14. CASE SaveHook \/ DeleteHook
  BY <1>0, <1>14 DEF SaveHook, DeleteHook
<1>15. CASE Tick
  <2>1. \A d \in Delivery : row'[d].status = row[d].status /\ row'[d].attempts = row[d].attempts
    BY <1>0, <1>15 DEF Tick, Row
  <2>2. \A e \in Delivery : RowEarned(row'[e], sent[e])
    BY <1>0, <2>1, EarnedRow
  <2>3. QED
    BY <1>15, <2>2, EarnedKept DEF Tick
<1>16. QED
  BY <1>1, <1>2, <1>3, <1>4, <1>5, <1>6, <1>7, <1>8, <1>9, <1>10, <1>11, <1>12, <1>13,
     <1>14, <1>15 DEF Next, WorkerStep

\* While nobody switches the hook off and the database answers, a delivery is
\* given up after exactly max_attempts counted requests, even when stalled
\* workers make several owners count on one row.  The bound on the counter of
\* requests must not cut it off below max_attempts.
THEOREM FailureEarned ==
  ASSUME Hazards \cap {"admin", "error"} = {}, MaxAttempts <= MaxSends
  PROVE  Spec => []FailureIsEarned
<1>1. Init => BaseInv /\ EarnedInv
  <2>1. Init => EarnedInv
    BY HookAssumption, NoneAssumption DEF Init, EarnedInv, RowEarned, Owns, Idle, Absent
  <2>2. QED
    BY <2>1, InitBaseInv
<1>2. BaseInv /\ EarnedInv /\ [Next]_hookVars => BaseInv' /\ EarnedInv'
  BY NextBaseInv, NextEarnedInv
<1>3. BaseInv /\ EarnedInv => FailureIsEarned
  BY HookAssumption DEF BaseInv, TypeOK, EarnedInv, RowEarned, FailureIsEarned
<1>4. QED
  BY <1>1, <1>2, <1>3, PTL DEF Spec
=============================================================================
