---------------------------- MODULE HookDelivery ----------------------------
(***************************************************************************)
(* HTTP hooks (internal/app/hooks.go) on the durable worker of             *)
(* internal/app/workers.go: an object event becomes a row of               *)
(* hook_deliveries; the worker of every instance recovers stale rows,      *)
(* claims one under an optional Redis lease, sends the request, heartbeats *)
(* meanwhile and writes the outcome back.                                  *)
(*                                                                         *)
(* One hook, one delivery per event.  next_attempt_at is a countdown and   *)
(* updated_at an age in ticks, which only matters while a row is running.  *)
(***************************************************************************)
EXTENDS Integers, FiniteSets

CONSTANTS Delivery,     \* object events, and the delivery each one causes
          Worker,       \* one hook worker per running instance
          MaxAttempts,  \* defaultHookMaxAttempts
          Backoff,      \* longest hookRetryDelay, in ticks
          StaleAfter,   \* hookWorkStaleAfter, in ticks
          LeaseTTL,     \* WorkerLeaseTTL, in ticks
          Uncoordinated,\* the instances that run with the NoopCoordinator
          Hazards,      \* a subset of HookHazards
          MaxLosses,    \* bound on crashes and failed writes
          MaxSends      \* bound on the requests counted per delivery

HookHazards == {"crash",  \* an instance dies and is restarted
                "error",  \* a database or Redis call may return an error
                "stall",  \* heartbeats stop while the worker goes on
                "admin"}  \* the hook is disabled, enabled or deleted

ASSUME HookAssumption ==
  /\ MaxAttempts \in Nat \ {0} /\ Backoff \in Nat \ {0}
  /\ StaleAfter \in Nat \ {0} /\ LeaseTTL \in Nat \ {0}
  /\ Uncoordinated \subseteq Worker
  /\ MaxLosses \in Nat /\ MaxSends \in Nat
  /\ Hazards \subseteq HookHazards

VARIABLES event,     \* per event: how far PutObject got with it
          row,       \* hook_deliveries
          hook,      \* the hook's row: enabled, disabled or deleted
          worker,    \* the local variables of every worker goroutine
          lease,     \* the Redis key hooks:claim: its holder and remaining TTL
          received,  \* deliveries whose request reached the receiver
          sent,      \* requests sent for a delivery
          losses     \* outcomes of requests that were never written

hookVars == <<event, row, hook, worker, lease, received, sent, losses>>

None == "none"
Lost == "lost"   \* a token whose owner never heard that it has the lease

\* No delivery is named like the absence of one.
ASSUME NoneAssumption == None \notin Delivery

Settled == {"succeeded", "failed"}
RowStatus == Settled \cup {"absent", "pending", "running"}
Row == [status : RowStatus, attempts : Nat, wait : Nat, age : Nat]
Absent == [status |-> "absent", attempts |-> 0, wait |-> 0, age |-> 0]

\* Where a worker goroutine is, and the local variables of deliverHookDelivery.
WorkerState == [pc : {"idle", "acquire", "claim", "release", "run", "write"},
                job : Delivery \cup {None}, attempts : Nat, ok : BOOLEAN]
Idle == [pc |-> "idle", job |-> None, attempts |-> 0, ok |-> FALSE]
\* A worker between the claim and the write of its outcome.
Owns(w, d) == worker[w].job = d

\* Mutant: the claim does not ask for status = pending.
DueAnyStatus(d) == row[d].status \notin {"absent", "running"} /\ row[d].wait = 0
Due(d) == row[d].status = "pending" /\ row[d].wait = 0
\* Mutant: a row is stale within the interval of its heartbeats.
StaleEarly(d) == row[d].status = "running" /\ row[d].age >= StaleAfter
Stale(d) == row[d].status = "running" /\ row[d].age > StaleAfter
Step(w, from, to) ==
  /\ worker[w].pc = from
  /\ worker' = [worker EXCEPT ![w] = [worker[w] EXCEPT !.pc = to]]

----------------------------------------------------------------------------
(* PutObject: the index row, and then the delivery row.                    *)

WriteObject(d) ==
  /\ event[d] = "new"
  /\ event' = [event EXCEPT ![d] = "stored"]
  /\ UNCHANGED <<row, hook, worker, lease, received, sent, losses>>

\* dispatchObjectHook gives up silently on an error and skips a disabled hook.
DispatchObjectHook(d) ==
  /\ event[d] = "stored"
  /\ event' = [event EXCEPT ![d] = "dispatched"]
  /\ \/ /\ hook = "enabled"
        /\ row' = [row EXCEPT ![d] = [Absent EXCEPT !.status = "pending"]]
     \/ /\ hook # "enabled" \/ "error" \in Hazards
        /\ UNCHANGED row
  /\ UNCHANGED <<hook, worker, lease, received, sent, losses>>

\* The instance dies between the two writes.
CrashBeforeDispatch(d) ==
  /\ "crash" \in Hazards
  /\ event[d] = "stored"
  /\ event' = [event EXCEPT ![d] = "lost"]
  /\ UNCHANGED <<row, hook, worker, lease, received, sent, losses>>

----------------------------------------------------------------------------
(* runDurableWorker.                                                       *)

\* Mutant: interrupted rows get a status of their own.
RecoverAsInterrupted(w) ==
  /\ Step(w, "idle", "acquire")
  /\ row' = [d \in Delivery |->
               IF Stale(d) THEN [row[d] EXCEPT !.status = "interrupted"] ELSE row[d]]
  /\ UNCHANGED <<event, hook, lease, received, sent, losses>>

\* Mutant: no recovery.
RecoverNothing(w) ==
  /\ Step(w, "idle", "acquire")
  /\ UNCHANGED <<event, row, hook, lease, received, sent, losses>>

\* The ticker or the wake channel: process() first returns stale rows.
RecoverStaleHookDeliveries(w) ==
  /\ Step(w, "idle", "acquire")
  /\ row' = [d \in Delivery |->
               IF Stale(d) THEN [row[d] EXCEPT !.status = "pending", !.age = 0]
                           ELSE row[d]]
  /\ UNCHANGED <<event, hook, lease, received, sent, losses>>

\* SET key token NX PX ttl.  process() ends when the lease is not acquired, or
\* when the reply is lost, whether or not Redis set the key.
TryAcquire(w) ==
  /\ \/ /\ w \in Uncoordinated
        /\ Step(w, "acquire", "claim")
        /\ UNCHANGED lease
     \/ /\ w \notin Uncoordinated /\ lease.holder = None
        /\ Step(w, "acquire", "claim")
        /\ lease' = [holder |-> w, ttl |-> LeaseTTL]
     \/ /\ w \notin Uncoordinated /\ (lease.holder # None \/ "error" \in Hazards)
        /\ Step(w, "acquire", "idle")
        /\ UNCHANGED lease
     \/ /\ w \notin Uncoordinated /\ lease.holder = None /\ "error" \in Hazards
        /\ Step(w, "acquire", "idle")
        /\ lease' = [holder |-> Lost, ttl |-> LeaseTTL]
  /\ UNCHANGED <<event, row, hook, received, sent, losses>>

\* UPDATE ... SET status = running WHERE id = ? AND status = pending AND due,
\* then the row is read back: an error there leaves it running without an owner.
ClaimNextHookDelivery(w) ==
  /\ worker[w].pc = "claim"
  /\ \/ \E d \in Delivery :
          /\ Due(d)
          /\ row' = [row EXCEPT ![d] =
                       [row[d] EXCEPT !.status = "running", !.age = 0]]
          /\ \/ worker' = [worker EXCEPT ![w] =
                             [pc |-> "release", job |-> d,
                              attempts |-> row[d].attempts, ok |-> FALSE]]
             \/ "error" \in Hazards /\ Step(w, "claim", "release")
     \/ /\ (\A d \in Delivery : ~ Due(d)) \/ "error" \in Hazards
        /\ Step(w, "claim", "release")
        /\ UNCHANGED row
  /\ UNCHANGED <<event, hook, lease, received, sent, losses>>

\* The script deletes the key only if it still holds this worker's token, and
\* a failed release does not stop claimed work.
ReleaseLease(w) ==
  /\ Step(w, "release", IF worker[w].job = None THEN "idle" ELSE "run")
  /\ \/ lease' = IF lease.holder = w THEN [holder |-> None, ttl |-> 0] ELSE lease
     \/ "error" \in Hazards /\ UNCHANGED lease
  /\ UNCHANGED <<event, row, hook, received, sent, losses>>

\* The UPDATE of a deleted row changes nothing.
UpdateHookDelivery(d, status, attempts, wait) ==
  row' = IF row[d].status = "absent" THEN row
         ELSE [row EXCEPT ![d] = [status |-> status, attempts |-> attempts,
                                  wait |-> wait, age |-> 0]]

\* The worker loops to the next claim.
Finish(w) == worker' = [worker EXCEPT ![w] = [Idle EXCEPT !.pc = "acquire"]]

\* deliverHookDelivery: the hook is gone or switched off, or cannot be read.
DropDelivery(w) ==
  /\ worker[w].pc = "run"
  /\ hook # "enabled" \/ "error" \in Hazards
  /\ UpdateHookDelivery(worker[w].job, "failed", worker[w].attempts, 0)
  /\ Finish(w)
  /\ UNCHANGED <<event, hook, lease, received, sent, losses>>

\* deliverHTTPHook: the request is lost, refused, answered, or answered too late.
DeliverHTTPHook(w) ==
  LET d == worker[w].job
  IN  /\ worker[w].pc = "run"
      /\ hook = "enabled"
      /\ sent' = [sent EXCEPT ![d] = IF sent[d] < MaxSends THEN sent[d] + 1 ELSE sent[d]]
      /\ \E reached, ok \in BOOLEAN :
           /\ ok => reached
           /\ received' = IF reached THEN received \cup {d} ELSE received
           /\ worker' = [worker EXCEPT ![w] =
                           [worker[w] EXCEPT !.pc = "write", !.ok = ok]]
      /\ UNCHANGED <<event, row, hook, lease, losses>>

\* Mutant: a failed attempt that is retried is not counted.
WriteOutcomeUncounted(w) ==
  LET d == worker[w].job
      n == worker[w].attempts + 1
  IN  /\ worker[w].pc = "write"
      /\ \/ worker[w].ok /\ UpdateHookDelivery(d, "succeeded", n, 0)
         \/ /\ ~ worker[w].ok /\ n >= MaxAttempts
            /\ UpdateHookDelivery(d, "failed", n, 0)
         \/ /\ ~ worker[w].ok /\ n < MaxAttempts
            /\ \E wait \in 1 .. Backoff : UpdateHookDelivery(d, "pending", n - 1, wait)
      /\ Finish(w)
      /\ UNCHANGED <<event, hook, lease, received, sent, losses>>

\* Mutant: the last attempt is recorded as a success.
WriteOutcomeAsSuccess(w) ==
  LET d == worker[w].job
      n == worker[w].attempts + 1
  IN  /\ worker[w].pc = "write"
      /\ \/ worker[w].ok /\ UpdateHookDelivery(d, "succeeded", n, 0)
         \/ /\ ~ worker[w].ok /\ n >= MaxAttempts
            /\ UpdateHookDelivery(d, "succeeded", n, 0)
         \/ /\ ~ worker[w].ok /\ n < MaxAttempts
            /\ \E wait \in 1 .. Backoff : UpdateHookDelivery(d, "pending", n, wait)
      /\ Finish(w)
      /\ UNCHANGED <<event, hook, lease, received, sent, losses>>

\* Mutant: the attempt that was just made is not the one that is compared.
WriteOutcomeEarly(w) ==
  LET d == worker[w].job
      n == worker[w].attempts + 1
  IN  /\ worker[w].pc = "write"
      /\ \/ worker[w].ok /\ UpdateHookDelivery(d, "succeeded", n, 0)
         \/ /\ ~ worker[w].ok /\ n + 1 >= MaxAttempts
            /\ UpdateHookDelivery(d, "failed", n, 0)
         \/ /\ ~ worker[w].ok /\ n + 1 < MaxAttempts
            /\ \E wait \in 1 .. Backoff : UpdateHookDelivery(d, "pending", n, wait)
      /\ Finish(w)
      /\ UNCHANGED <<event, hook, lease, received, sent, losses>>

WriteOutcome(w) ==
  LET d == worker[w].job
      n == worker[w].attempts + 1
  IN  /\ worker[w].pc = "write"
      /\ \/ worker[w].ok /\ UpdateHookDelivery(d, "succeeded", n, 0)
         \/ /\ ~ worker[w].ok /\ n >= MaxAttempts
            /\ UpdateHookDelivery(d, "failed", n, 0)
         \/ /\ ~ worker[w].ok /\ n < MaxAttempts
            /\ \E wait \in 1 .. Backoff : UpdateHookDelivery(d, "pending", n, wait)
      /\ Finish(w)
      /\ UNCHANGED <<event, hook, lease, received, sent, losses>>

\* The write of an outcome or of a drop fails: the row stays running until it
\* is stale.
LoseOutcome(w) ==
  /\ "error" \in Hazards
  /\ worker[w].pc \in {"run", "write"}
  /\ losses < MaxLosses
  /\ losses' = losses + 1
  /\ Finish(w)
  /\ UNCHANGED <<event, row, hook, lease, received, sent>>

\* TouchHookDelivery; a row that is not running any more is only logged.
TouchHookDelivery(w) ==
  LET d == worker[w].job
  IN  /\ worker[w].pc \in {"run", "write"}
      /\ row[d].status = "running" /\ row[d].age > 0
      /\ row' = [row EXCEPT ![d] = [row[d] EXCEPT !.age = 0]]
      /\ UNCHANGED <<event, hook, worker, lease, received, sent, losses>>

WorkerStep(w) ==
  \/ RecoverStaleHookDeliveries(w) \/ TryAcquire(w) \/ ClaimNextHookDelivery(w)
  \/ ReleaseLease(w) \/ DropDelivery(w) \/ DeliverHTTPHook(w) \/ WriteOutcome(w)

----------------------------------------------------------------------------
Crash(w) ==
  /\ "crash" \in Hazards
  /\ worker[w].pc # "idle"
  /\ losses < MaxLosses
  /\ losses' = losses + 1
  /\ worker' = [worker EXCEPT ![w] = Idle]
  /\ UNCHANGED <<event, row, hook, lease, received, sent>>

SaveHook ==
  /\ "admin" \in Hazards
  /\ hook # "deleted"
  /\ hook' = IF hook = "enabled" THEN "disabled" ELSE "enabled"
  /\ UNCHANGED <<event, row, worker, lease, received, sent, losses>>

\* ON DELETE CASCADE takes the deliveries with the hook.
DeleteHook ==
  /\ "admin" \in Hazards
  /\ hook # "deleted"
  /\ hook' = "deleted"
  /\ row' = [d \in Delivery |-> Absent]
  /\ UNCHANGED <<event, worker, lease, received, sent, losses>>

\* Unless it stalls, a worker heartbeats three times per stale interval.
Heartbeating ==
  \A w \in Worker : worker[w].job # None =>
    LET r == row[worker[w].job] IN r.status = "running" => r.age < StaleAfter

Tick ==
  /\ "stall" \in Hazards \/ Heartbeating
  /\ \/ \E d \in Delivery : row[d].wait > 0
     \/ \E d \in Delivery : row[d].status = "running" /\ row[d].age <= StaleAfter
     \/ lease.holder # None
  /\ row' = [d \in Delivery |->
       [row[d] EXCEPT
          !.wait = IF row[d].wait > 0 THEN row[d].wait - 1 ELSE 0,
          !.age = IF row[d].status = "running" /\ row[d].age <= StaleAfter
                  THEN row[d].age + 1 ELSE row[d].age]]
  /\ lease' = IF lease.ttl > 1 THEN [lease EXCEPT !.ttl = lease.ttl - 1]
              ELSE [holder |-> None, ttl |-> 0]
  /\ UNCHANGED <<event, hook, worker, received, sent, losses>>

----------------------------------------------------------------------------
Init ==
  /\ event = [d \in Delivery |-> "new"]
  /\ row = [d \in Delivery |-> Absent]
  /\ hook = "enabled"
  /\ worker = [w \in Worker |-> Idle]
  /\ lease = [holder |-> None, ttl |-> 0]
  /\ received = {}
  /\ sent = [d \in Delivery |-> 0]
  /\ losses = 0

Next ==
  \/ \E d \in Delivery : WriteObject(d) \/ DispatchObjectHook(d) \/ CrashBeforeDispatch(d)
  \/ \E w \in Worker : \/ WorkerStep(w) \/ TouchHookDelivery(w)
                       \/ LoseOutcome(w) \/ Crash(w)
  \/ SaveHook \/ DeleteHook \/ Tick

Spec == Init /\ [][Next]_hookVars

(***************************************************************************)
(* A restarted instance starts its worker again, whose ticker fires every  *)
(* second; the HTTP client has a timeout of five seconds and the Redis key *)
(* a TTL.  A request that has written its object goes on to dispatch it.   *)
(***************************************************************************)
Fairness ==
  /\ \A d \in Delivery : WF_hookVars(DispatchObjectHook(d))
  /\ \A w \in Worker : WF_hookVars(WorkerStep(w)) /\ WF_hookVars(TouchHookDelivery(w))
  /\ WF_hookVars(Tick)

FairSpec == Spec /\ Fairness

----------------------------------------------------------------------------
TypeOK ==
  /\ event \in [Delivery -> {"new", "stored", "dispatched", "lost"}]
  /\ row \in [Delivery -> Row]
  /\ hook \in {"enabled", "disabled", "deleted"}
  /\ worker \in [Worker -> WorkerState]
  /\ lease \in [holder : Worker \cup {None, Lost}, ttl : Nat]
  /\ received \subseteq Delivery
  /\ sent \in [Delivery -> Nat]
  /\ losses \in Nat

\* A delivery has one owner at a time: neither recovery nor an expired Redis
\* lease hands a row to a second worker while the first one heartbeats.
OneOwner ==
  \A v, w \in Worker, d \in Delivery : Owns(v, d) /\ Owns(w, d) => v = w

\* The attempts column counts the requests: only an attempt whose outcome was
\* lost with its worker goes uncounted, one for each loss.
RequestsAreCounted ==
  \A d \in Delivery : row[d].status # "absent" =>
    sent[d] <= row[d].attempts + losses
               + Cardinality({w \in Worker : Owns(w, d) /\ worker[w].pc = "write"})

\* A delivery that is recorded as succeeded did reach the receiver, even when
\* two owners wrote their outcomes over each other.
SuccessIsReal ==
  \A d \in Delivery : row[d].status = "succeeded" => d \in received

\* While nobody switches the hook off and the database answers, a delivery is
\* given up only after max_attempts requests, even when two owners count on the
\* same row.
FailureIsEarned ==
  \A d \in Delivery :
    row[d].status = "failed" => row[d].attempts = MaxAttempts /\ sent[d] >= MaxAttempts

\* What is settled stays settled: no late outcome reopens a delivery.
SettledForGood ==
  [][\A d \in Delivery : row[d].status \in Settled
       => row'[d].status \in {row[d].status, "absent"}]_hookVars

\* Every queued delivery is settled in the end, across crashes, lost outcomes
\* and expired leases.
QueuedIsSettled ==
  \A d \in Delivery : (row[d].status = "pending")
                        ~> (row[d].status \in Settled \cup {"absent"})

=============================================================================
