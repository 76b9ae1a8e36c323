--------------------------- MODULE ProviderQuota ---------------------------
(***************************************************************************)
(* The provider quota ledger of internal/store/quota.go: the quota columns *)
(* of provider_accounts and the provider_reservations table, changed by    *)
(* single database transactions.  Every action below is one transaction.   *)
(*                                                                         *)
(* Sizes are natural numbers.  A capacity or a limit of 0 means "no limit",*)
(* as in the code.  Instants are kept as countdowns: an expires_at or an   *)
(* unavailable_until that is t ticks ahead is the number t, and 0 is an    *)
(* instant that has passed.  The UTC month is a counter; a monthly_period  *)
(* of 0 is the empty string of a freshly inserted account.                 *)
(***************************************************************************)
EXTENDS Integers, FiniteSets, Functions

CONSTANTS Provider,        \* ids of provider accounts
          ReservationID,   \* ids drawn by randomIdentifier("res-", 12)
          Size,            \* sizes of objects: bytes reserved or measured
          Capacity,        \* values of capacity_bytes an administrator saves
          Margin,          \* max(quota_margin_bytes, min_free_bytes) per account
          MonthlyLimit,    \* monthly_upload_quota_bytes per account
          ReservationTTL,  \* ticks until a reservation expires (one hour)
          RetryAfter,      \* ticks a throttled or failing account is avoided
          MaxBytes,        \* bound on the byte counters (the code's int64)
          MaxMonth         \* bound on the month counter

ASSUME SizeAssumption == Size \subseteq Nat /\ Capacity \subseteq Nat
ASSUME SettingsAssumption == /\ Margin \in [Provider -> Nat]
                             /\ MonthlyLimit \in [Provider -> Nat]
ASSUME TimeAssumption == /\ ReservationTTL \in Nat \ {0}
                         /\ RetryAfter \in Nat \ {0}
ASSUME BoundAssumption == MaxBytes \in Nat /\ MaxMonth \in Nat

VARIABLES present,       \* ids with a row in provider_accounts
          account,       \* the quota columns of that row
          reservations,  \* provider_reservations: a function from live ids
          month          \* the current UTC month

ledgerVars == <<present, account, reservations, month>>

NoTime == -1                                   \* the empty unavailable_until
Retryable == {"throttled", "unavailable"}
Status == {"", "quota", "credentials"} \cup Retryable

AccountRow == [enabled : BOOLEAN, capacity : Nat, used : Nat, reserved : Nat,
               remoteCapacity : Nat, remoteUsed : Nat,
               monthly : Nat, period : Nat, status : Status,
               until : Nat \cup {NoTime}]
ReservationRow == [provider : Provider, bytes : Nat, expires : Nat]

\* The column defaults of an account nobody has used.
FreshAccount(enabled, capacity) ==
  [enabled |-> enabled, capacity |-> capacity, used |-> 0, reserved |-> 0,
   remoteCapacity |-> 0, remoteUsed |-> 0, monthly |-> 0, period |-> 0,
   status |-> "", until |-> NoTime]

(***************************************************************************)
(* SUM(bytes) over the rows ids of a table.  A reservation of n bytes      *)
(* holds the n byte slots <<id, 1>> .. <<id, n>>, and the sum is the       *)
(* number of slots.                                                        *)
(***************************************************************************)
Slots(table, ids) == UNION {{id} \X (1 .. table[id].bytes) : id \in ids}
SumBytes(table, ids) == Cardinality(Slots(table, ids))

ReservationsOf(p) == {id \in DOMAIN reservations : reservations[id].provider = p}
\* Mutant: a row that expires now is never taken.
ExpiredStrictly(p) == {id \in ReservationsOf(p) : reservations[id].expires < 0}
Expired(p) == {id \in ReservationsOf(p) : reservations[id].expires = 0}

\* CASE WHEN x < d THEN 0 ELSE x - d END
ClampedMinus(x, d) == IF x < d THEN 0 ELSE x - d

----------------------------------------------------------------------------
(* The guard of ReserveProviderCapacity's UPDATE, on one account row.      *)

\* CASE WHEN capacity > margin THEN capacity - margin ELSE 0 END
Ceiling(capacity, margin) == ClampedMinus(capacity, margin)

Available(a) == \/ a.status = ""
                \/ a.status \in Retryable /\ a.until = 0

\* The first UPDATE of the transaction: a new month starts at zero.
RolledOver(a, period) ==
  IF a.period = period THEN a ELSE [a EXCEPT !.monthly = 0, !.period = period]

\* Mutant: bytes in flight are not held against the capacity.
CanReserveUsedOnly(a, bytes, margin, limit, period) ==
  /\ a.enabled /\ Available(a)
  /\ a.capacity = 0 \/ a.used + bytes <= Ceiling(a.capacity, margin)
  /\ limit = 0 \/ RolledOver(a, period).monthly + a.reserved + bytes <= limit

\* Mutant: bytes in flight are not held against the monthly allowance.
CanReserveMonthOnly(a, bytes, margin, limit, period) ==
  /\ a.enabled /\ Available(a)
  /\ a.capacity = 0 \/ a.used + a.reserved + bytes <= Ceiling(a.capacity, margin)
  /\ limit = 0 \/ RolledOver(a, period).monthly + bytes <= limit

CanReserve(a, bytes, margin, limit, period) ==
  /\ a.enabled
  /\ Available(a)
  /\ a.capacity = 0 \/ a.used + a.reserved + bytes <= Ceiling(a.capacity, margin)
  /\ a.remoteCapacity = 0
       \/ a.remoteUsed + a.reserved + bytes <= Ceiling(a.remoteCapacity, margin)
  /\ limit = 0 \/ RolledOver(a, period).monthly + a.reserved + bytes <= limit

----------------------------------------------------------------------------
(* The transactions.                                                       *)

\* A refused reservation rolls back and changes nothing, the rollover included.
ReserveProviderCapacity(id, p, bytes) ==
  /\ p \in present
  /\ id \notin DOMAIN reservations
  /\ CanReserve(account[p], bytes, Margin[p], MonthlyLimit[p], month)
  /\ LET a == RolledOver(account[p], month)
     IN  account' = [account EXCEPT ![p] =
                       [a EXCEPT !.reserved = a.reserved + bytes]]
  /\ reservations' = [i \in DOMAIN reservations \cup {id} |->
                        IF i = id
                        THEN [provider |-> p, bytes |-> bytes,
                              expires |-> ReservationTTL]
                        ELSE reservations[i]]
  /\ UNCHANGED <<present, month>>

\* Mutant: the committed bytes are not added to the usage.
CommitProviderReservationUncounted(id, actual) ==
  /\ id \in DOMAIN reservations
  /\ LET r == reservations[id]
         a == account[r.provider]
     IN  account' = [account EXCEPT ![r.provider] =
                       [a EXCEPT !.reserved = ClampedMinus(a.reserved, r.bytes)]]
  /\ reservations' = Restrict(reservations, DOMAIN reservations \ {id})
  /\ UNCHANGED <<present, month>>

\* actual is the size the provider reports.  An unknown id is ErrNotFound.
CommitProviderReservation(id, actual) ==
  /\ id \in DOMAIN reservations
  /\ LET r == reservations[id]
         a == account[r.provider]
     IN  /\ a.used + actual <= MaxBytes /\ a.monthly + actual <= MaxBytes
         /\ account' = [account EXCEPT ![r.provider] =
                          [a EXCEPT !.reserved = ClampedMinus(a.reserved, r.bytes),
                                    !.used = a.used + actual,
                                    !.monthly = a.monthly + actual,
                                    !.status = "", !.until = NoTime]]
  /\ reservations' = Restrict(reservations, DOMAIN reservations \ {id})
  /\ UNCHANGED <<present, month>>

\* Releasing an unknown id commits an empty transaction.
ReleaseProviderReservation(id) ==
  /\ id \in DOMAIN reservations
  /\ LET r == reservations[id]
         a == account[r.provider]
     IN  account' = [account EXCEPT ![r.provider] =
                       [a EXCEPT !.reserved = ClampedMinus(a.reserved, r.bytes)]]
  /\ reservations' = Restrict(reservations, DOMAIN reservations \ {id})
  /\ UNCHANGED <<present, month>>

RecoverExpiredProviderReservations ==
  LET gone == UNION {Expired(p) : p \in Provider}
  IN  /\ gone # {}
      /\ account' = [p \in Provider |->
           [account[p] EXCEPT
              !.reserved = ClampedMinus(account[p].reserved,
                                        SumBytes(reservations, Expired(p)))]]
      /\ reservations' = Restrict(reservations, DOMAIN reservations \ gone)
      /\ UNCHANGED <<present, month>>

\* Mutant: the sum is stored without CASE WHEN ... < 0 THEN 0.
AddProviderUsageUnclamped(p, delta) ==
  /\ p \in present
  /\ account[p].used + delta <= MaxBytes
  /\ account' = [account EXCEPT ![p] =
                   [account[p] EXCEPT !.used = account[p].used + delta]]
  /\ UNCHANGED <<present, reservations, month>>

\* Uploads and deletions elsewhere; delta may be negative.
AddProviderUsage(p, delta) ==
  /\ p \in present
  /\ account[p].used + delta <= MaxBytes
  /\ LET n == account[p].used + delta
     IN  account' = [account EXCEPT ![p] =
                       [account[p] EXCEPT !.used = IF n < 0 THEN 0 ELSE n]]
  /\ UNCHANGED <<present, reservations, month>>

\* The measured usage replaces the counted one, and proves there is room again.
SetProviderUsage(p, measured) ==
  /\ p \in present
  /\ LET a == account[p]
     IN  account' = [account EXCEPT ![p] =
           [a EXCEPT !.used = measured,
                     !.status = IF a.status = "quota" THEN "" ELSE a.status]]
  /\ UNCHANGED <<present, reservations, month>>

SetProviderRemoteQuota(p, capacity, measured) ==
  /\ p \in present
  /\ account' = [account EXCEPT ![p] =
                   [account[p] EXCEPT !.remoteCapacity = capacity,
                                      !.remoteUsed = measured]]
  /\ UNCHANGED <<present, reservations, month>>

MarkProviderUnavailable(p, status, until) ==
  /\ p \in present
  /\ account' = [account EXCEPT ![p] =
                   [account[p] EXCEPT !.status = status, !.until = until]]
  /\ UNCHANGED <<present, reservations, month>>

ClearProviderUnavailable(p) ==
  /\ p \in present
  /\ account' = [account EXCEPT ![p] =
                   [account[p] EXCEPT !.status = "", !.until = NoTime]]
  /\ UNCHANGED <<present, reservations, month>>

\* ON CONFLICT(id) keeps every counter; the insert starts them at zero.
UpsertProvider(p, enabled, capacity) ==
  /\ present' = present \cup {p}
  /\ account' = [account EXCEPT ![p] =
                   IF p \in present
                   THEN [account[p] EXCEPT !.enabled = enabled,
                                           !.capacity = capacity]
                   ELSE FreshAccount(enabled, capacity)]
  /\ UNCHANGED <<reservations, month>>

\* Mutant: no ON DELETE CASCADE.
DeleteProviderKeepingRows(p) ==
  /\ p \in present
  /\ present' = present \ {p}
  /\ account' = [account EXCEPT ![p] = FreshAccount(FALSE, 0)]
  /\ UNCHANGED <<reservations, month>>

\* ON DELETE CASCADE takes the account's reservations with it.
DeleteProvider(p) ==
  /\ p \in present
  /\ present' = present \ {p}
  /\ account' = [account EXCEPT ![p] = FreshAccount(FALSE, 0)]
  /\ reservations' = Restrict(reservations, DOMAIN reservations \ ReservationsOf(p))
  /\ UNCHANGED month

----------------------------------------------------------------------------
(* Time.                                                                   *)

CountDown(t) == IF t > 0 THEN t - 1 ELSE t

Tick ==
  /\ \/ \E id \in DOMAIN reservations : reservations[id].expires > 0
     \/ \E p \in Provider : account[p].until > 0
  /\ account' = [p \in Provider |->
                   [account[p] EXCEPT !.until = CountDown(account[p].until)]]
  /\ reservations' = [id \in DOMAIN reservations |->
                        [reservations[id] EXCEPT
                           !.expires = CountDown(reservations[id].expires)]]
  /\ UNCHANGED <<present, month>>

NewMonth ==
  /\ month < MaxMonth
  /\ month' = month + 1
  /\ UNCHANGED <<present, account, reservations>>

----------------------------------------------------------------------------
\* The accounts Bootstrap inserts from the configuration file, untouched yet.
Init ==
  /\ present \in SUBSET Provider
  /\ \E e \in [Provider -> BOOLEAN], c \in [Provider -> Capacity] :
       account = [p \in Provider |-> IF p \in present
                                    THEN FreshAccount(e[p], c[p])
                                    ELSE FreshAccount(FALSE, 0)]
  /\ reservations = [id \in {} |-> 0]
  /\ month = 1

\* A measurement replaces counters by what the provider itself reports.
Measure(p) ==
  \/ \E n \in Size : AddProviderUsage(p, n) \/ AddProviderUsage(p, -n)
                       \/ SetProviderUsage(p, n)
  \/ \E c \in Capacity, n \in Size : SetProviderRemoteQuota(p, c, n)

SetAvailability(p) ==
  \/ \E s \in Retryable : MarkProviderUnavailable(p, s, RetryAfter)
  \/ \E s \in Status \ {"", "throttled"} : MarkProviderUnavailable(p, s, NoTime)
  \/ ClearProviderUnavailable(p)

Administer(p) ==
  \/ \E e \in BOOLEAN, c \in Capacity : UpsertProvider(p, e, c)
  \/ DeleteProvider(p)

Next ==
  \/ \E id \in ReservationID :
       \/ \E p \in Provider, n \in Size : ReserveProviderCapacity(id, p, n)
       \/ \E n \in Size : CommitProviderReservation(id, n)
       \/ ReleaseProviderReservation(id)
  \/ RecoverExpiredProviderReservations
  \/ \E p \in Provider : Measure(p) \/ SetAvailability(p) \/ Administer(p)
  \/ Tick
  \/ NewMonth

Spec == Init /\ [][Next]_ledgerVars

----------------------------------------------------------------------------
(* What makes the ledger correct.                                          *)

\* Every column has its type; counters never go negative.
TypeOK ==
  /\ present \subseteq Provider
  /\ account \in [Provider -> AccountRow]
  /\ DOMAIN reservations \subseteq ReservationID
  /\ reservations \in [DOMAIN reservations -> ReservationRow]
  /\ month \in Nat

\* reserved_bytes is exactly the sum of the account's reservation rows: the
\* clamps of commit, release and recovery never hide a byte, and the cascade
\* of a deleted account leaves no row behind that a later commit could charge.
ReservedIsSumOfRows ==
  \A p \in Provider :
    /\ account[p].reserved = SumBytes(reservations, ReservationsOf(p))
    /\ ReservationsOf(p) # {} => p \in present

Overcommitted(a) == a.capacity > 0 /\ a.used + a.reserved > a.capacity

\* The steps that bring in bytes or a limit the ledger did not admit.
Measured(p) ==
  \/ \E n \in Size : AddProviderUsage(p, n) \/ SetProviderUsage(p, n)
  \/ \E e \in BOOLEAN, c \in Capacity : UpsertProvider(p, e, c)
CommittedAbove(p) ==
  \E id \in ReservationsOf(p), n \in Size :
    n > reservations[id].bytes /\ CommitProviderReservation(id, n)

\* No interleaving of reservations, commits, releases, recoveries and clock
\* steps takes an account over its configured capacity: only a measurement, an
\* administrator's edit or a provider that stored more than was sent does.
CapacityIsHard ==
  [][\A p \in Provider :
       ~Overcommitted(account[p]) /\ Overcommitted(account'[p])
         => Measured(p) \/ CommittedAbove(p)]_ledgerVars

\* Bytes counted or in flight against the month of the account's counter.
OverAllowance(p) ==
  /\ MonthlyLimit[p] > 0
  /\ account[p].monthly + account[p].reserved > MonthlyLimit[p]

\* Likewise for the monthly allowance, whatever month a reservation was made
\* in and whatever month its commit falls into.
MonthlyAllowanceIsHard ==
  [][\A p \in Provider :
       ~OverAllowance(p) /\ OverAllowance(p)' => CommittedAbove(p)]_ledgerVars

=============================================================================
