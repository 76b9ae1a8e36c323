----------------------------- MODULE Placement -----------------------------
(***************************************************************************)
(* Where an object goes, and what the operator is told about it: the       *)
(* router's Choose (internal/router/placement.go), the placement simulator *)
(* of the admin API (internal/app/planner.go) and the quota report         *)
(* (internal/app/provider_quota.go).  All three read account rows without  *)
(* a lock, and only ProviderQuota!ReserveProviderCapacity decides: these   *)
(* are the questions of how far the three readers agree with it.           *)
(***************************************************************************)
EXTENDS ProviderQuota

CONSTANTS Priority,       \* the priority column
          Cost,           \* cost_per_gb_month
          IdOrder,        \* the lexicographic order of the account ids
          QuotaMargin,    \* quota_margin_bytes
          MinFree,        \* min_free_bytes
          MaxObjectSize,  \* max_object_size_bytes, 0 for none
          Unlimited       \* 1<<62 - 1, above every size in use

ASSUME PolicyAssumption ==
  /\ \A f \in {Priority, Cost, IdOrder, QuotaMargin, MinFree, MaxObjectSize} :
       f \in [Provider -> Nat]
  /\ \A p, q \in Provider : IdOrder[p] = IdOrder[q] => p = q
  /\ \A p \in Provider :
       Margin[p] = IF MinFree[p] > QuotaMargin[p] THEN MinFree[p] ELSE QuotaMargin[p]
ASSUME UnlimitedAssumption ==
  /\ Unlimited \in Nat
  /\ \A p \in Provider, n \in Size : n + MinFree[p] <= Unlimited

Least(x, y) == IF y < x THEN y ELSE x

(***************************************************************************)
(* The router.                                                             *)
(***************************************************************************)
Remaining(a) ==
  Least(IF a.capacity > 0 THEN a.capacity - a.used - a.reserved ELSE Unlimited,
        IF a.remoteCapacity > 0 THEN a.remoteCapacity - a.remoteUsed - a.reserved
                                ELSE Unlimited)

\* Mutant: a throttled account never comes back.
ProviderUnavailableForever(a) == a.status # ""

\* An instant that has passed, not being the zero time, is not after now.
ProviderUnavailable(a) ==
  /\ a.status # ""
  /\ ~ (a.status \in {"throttled", "unavailable"} /\ a.until # NoTime /\ a.until <= 0)

MonthlyUsed(a) == IF a.period # month THEN 0 ELSE a.monthly

\* Mutant: min_free_bytes is not looked at.
ViolatesProviderPolicyLax(p, a, size) ==
  \/ MaxObjectSize[p] > 0 /\ size > MaxObjectSize[p]
  \/ MonthlyLimit[p] > 0 /\ MonthlyUsed(a) + a.reserved + size > MonthlyLimit[p]

ViolatesProviderPolicy(p, a, size) ==
  \/ MaxObjectSize[p] > 0 /\ size > MaxObjectSize[p]
  \/ MinFree[p] > 0 /\ Remaining(a) - size < MinFree[p]
  \/ MonthlyLimit[p] > 0 /\ MonthlyUsed(a) + a.reserved + size > MonthlyLimit[p]

Candidates(size, excluded) ==
  {p \in present \ excluded :
     LET a == account[p]
     IN  /\ a.enabled
         /\ ~ ProviderUnavailable(a)
         /\ size <= Remaining(a)
         /\ ~ ViolatesProviderPolicy(p, a, size)}

\* p is listed before q: priority, then cost, then free space, then id.
Before(p, q) ==
  \/ Priority[p] < Priority[q]
  \/ Priority[p] = Priority[q]
     /\ \/ Cost[p] < Cost[q]
        \/ Cost[p] = Cost[q]
           /\ \/ Remaining(account[p]) > Remaining(account[q])
              \/ Remaining(account[p]) = Remaining(account[q])
                 /\ IdOrder[p] < IdOrder[q]

\* Choose returns p, the first of the sorted candidates.
Choose(p, size, excluded) ==
  /\ p \in Candidates(size, excluded)
  /\ \A q \in Candidates(size, excluded) \ {p} : Before(p, q)

(***************************************************************************)
(* The simulator: its own eligibility rules over the same rows.            *)
(***************************************************************************)
\* Mutant: the simulator does not know when a provider may be tried again.
PlanEligibleNow(p, size) ==
  LET a == account[p]
  IN  /\ a.enabled
      /\ a.status = ""
      /\ Remaining(a) >= size
      /\ ~ (MaxObjectSize[p] > 0 /\ size > MaxObjectSize[p])
      /\ ~ (MinFree[p] > 0 /\ Remaining(a) - size < MinFree[p])

PlanEligible(p, size) ==
  LET a == account[p]
  IN  /\ a.enabled
      /\ a.status = "" \/ a.until = 0
      /\ Remaining(a) >= size
      /\ ~ (MaxObjectSize[p] > 0 /\ size > MaxObjectSize[p])
      /\ ~ (MinFree[p] > 0 /\ Remaining(a) - size < MinFree[p])

PlanCandidates(size) == {p \in present : PlanEligible(p, size)}

(***************************************************************************)
(* The quota report: -1 stands for "unlimited".                            *)
(***************************************************************************)
\* Mutant: the usage a provider reports is taken off the configured capacity too.
AvailableBytesBothUsages(a) ==
  IF Remaining(a) = Unlimited THEN -1
  ELSE IF Remaining(a) - a.remoteUsed < -1 THEN 0 ELSE Remaining(a) - a.remoteUsed

AvailableBytes(a) ==
  IF Remaining(a) = Unlimited THEN -1
  ELSE IF Remaining(a) < -1 THEN 0 ELSE Remaining(a)

----------------------------------------------------------------------------
\* Where no quota_margin_bytes exceeds min_free_bytes, an account the router
\* offers is one the ledger admits: Choose is never refused by its own view.
RouterIsSound ==
  \A n \in Size : \A p \in Candidates(n, {}) :
    QuotaMargin[p] <= MinFree[p]
      => CanReserve(account[p], n, Margin[p], MonthlyLimit[p], month)

\* An account the ledger would admit a non-empty object on is one the router
\* offers, unless the object is above its size policy: no room is hidden.
RouterIsComplete ==
  \A n \in Size \ {0} : \A p \in present :
    /\ CanReserve(account[p], n, Margin[p], MonthlyLimit[p], month)
    /\ MaxObjectSize[p] = 0 \/ n <= MaxObjectSize[p]
    => p \in Candidates(n, {})

\* What the ledger admits fits into the available bytes the report shows.
ReportCoversAdmission ==
  \A n \in Size, p \in present :
    CanReserve(account[p], n, Margin[p], MonthlyLimit[p], month)
      => AvailableBytes(account[p]) = -1 \/ n <= AvailableBytes(account[p])

\* The simulator repeats the router's rules except one: an account is offered
\* to an upload exactly when the simulator calls it eligible and the monthly
\* allowance, which the simulator does not know, has room.
PlanMatchesRouter ==
  \A n \in Size, p \in present :
    p \in Candidates(n, {})
      <=> /\ p \in PlanCandidates(n)
          /\ MonthlyLimit[p] = 0
               \/ MonthlyUsed(account[p]) + account[p].reserved + n <= MonthlyLimit[p]
=============================================================================
