------------------------ MODULE ProviderQuotaProofs ------------------------
(***************************************************************************)
(* The ledger is correct for every set of accounts and reservations, every *)
(* size, capacity, margin and limit; and its readers, the router, the      *)
(* simulator and the report, agree with it for every account row.          *)
(***************************************************************************)
EXTENDS Placement, FiniteSetTheorems, TLAPS

----------------------------------------------------------------------------
(* Sums of reservation rows, as numbers of byte slots.                     *)

\* One row of n bytes holds n slots.
LEMMA RowSlots ==
  ASSUME NEW id, NEW n \in Nat
  PROVE  /\ IsFiniteSet({id} \X (1 .. n))
         /\ Cardinality({id} \X (1 .. n)) = n
<1>1. IsFiniteSet({id}) /\ Cardinality({id}) = 1
  BY FS_Singleton
<1>2. IsFiniteSet(1 .. n) /\ Cardinality(1 .. n) = n
  BY FS_Interval
<1>3. /\ IsFiniteSet({id} \X (1 .. n))
      /\ Cardinality({id} \X (1 .. n)) = Cardinality({id}) * Cardinality(1 .. n)
  BY <1>1, <1>2, FS_Product, Zenon
<1>4. 1 * n = n
  OBVIOUS
<1>5. QED
  BY <1>1, <1>2, <1>3, <1>4

\* The sum only depends on the bytes columns of the rows that are summed.
LEMMA SameBytesSameSlots ==
  ASSUME NEW f, NEW g, NEW A, \A id \in A : f[id].bytes = g[id].bytes
  PROVE  Slots(f, A) = Slots(g, A)
BY Zenon DEF Slots

\* Different rows hold different slots.
LEMMA SlotsOfUnion ==
  ASSUME NEW f, NEW A, NEW B, A \cap B = {}
  PROVE  /\ Slots(f, A \cup B) = Slots(f, A) \cup Slots(f, B)
         /\ Slots(f, A) \cap Slots(f, B) = {}
<1>1. Slots(f, A \cup B) = Slots(f, A) \cup Slots(f, B)
  BY DEF Slots
<1>2. ASSUME NEW s \in Slots(f, A), s \in Slots(f, B)
      PROVE  FALSE
  <2>1. PICK a \in A : s \in {a} \X (1 .. f[a].bytes)
    BY <1>2 DEF Slots
  <2>2. PICK b \in B : s \in {b} \X (1 .. f[b].bytes)
    BY <1>2 DEF Slots
  <2>3. s[1] = a /\ s[1] = b
    BY <2>1, <2>2
  <2>4. QED
    BY <2>3
<1>3. QED
  BY <1>1, <1>2

\* The sum over two disjoint groups of rows is the sum of the two sums.
LEMMA SumOfUnion ==
  ASSUME NEW f, NEW A, NEW B, A \cap B = {},
         IsFiniteSet(Slots(f, A)), IsFiniteSet(Slots(f, B))
  PROVE  /\ IsFiniteSet(Slots(f, A \cup B))
         /\ SumBytes(f, A \cup B) = SumBytes(f, A) + SumBytes(f, B)
<1>1. /\ Slots(f, A \cup B) = Slots(f, A) \cup Slots(f, B)
      /\ Slots(f, A) \cap Slots(f, B) = {}
  BY SlotsOfUnion
<1>2. Cardinality(Slots(f, A)) \in Nat /\ Cardinality(Slots(f, B)) \in Nat
  BY FS_CardinalityType
<1>3. Cardinality(Slots(f, A) \cap Slots(f, B)) = 0
  BY <1>1, FS_EmptySet, Zenon
<1>4. /\ IsFiniteSet(Slots(f, A) \cup Slots(f, B))
      /\ Cardinality(Slots(f, A) \cup Slots(f, B)) =
           Cardinality(Slots(f, A)) + Cardinality(Slots(f, B))
             - Cardinality(Slots(f, A) \cap Slots(f, B))
  BY FS_Union, Zenon
<1>5. Cardinality(Slots(f, A) \cup Slots(f, B)) =
        Cardinality(Slots(f, A)) + Cardinality(Slots(f, B))
  BY <1>2, <1>3, <1>4
<1>6. QED
  BY <1>1, <1>4, <1>5, Zenon DEF SumBytes

\* Inserting a row adds its bytes to the sum.
LEMMA SumAfterInsert ==
  ASSUME NEW f, NEW A, NEW id, id \notin A, f[id].bytes \in Nat,
         IsFiniteSet(Slots(f, A))
  PROVE  /\ IsFiniteSet(Slots(f, A \cup {id}))
         /\ SumBytes(f, A \cup {id}) = SumBytes(f, A) + f[id].bytes
<1>1. Slots(f, {id}) = {id} \X (1 .. f[id].bytes)
  BY Zenon DEF Slots
<1>2. /\ IsFiniteSet({id} \X (1 .. f[id].bytes))
      /\ Cardinality({id} \X (1 .. f[id].bytes)) = f[id].bytes
  BY RowSlots, Zenon
<1>3. IsFiniteSet(Slots(f, {id})) /\ SumBytes(f, {id}) = f[id].bytes
  BY <1>1, <1>2 DEF SumBytes
<1>4. A \cap {id} = {}
  OBVIOUS
<1>5. QED
  BY <1>3, <1>4, SumOfUnion

\* Deleting a group of rows subtracts its sum, which is at most the whole.
LEMMA SumAfterDelete ==
  ASSUME NEW f, NEW A, NEW B \in SUBSET A, IsFiniteSet(Slots(f, A))
  PROVE  /\ IsFiniteSet(Slots(f, A \ B))
         /\ IsFiniteSet(Slots(f, B))
         /\ SumBytes(f, A) \in Nat /\ SumBytes(f, B) \in Nat
         /\ SumBytes(f, A \ B) = SumBytes(f, A) - SumBytes(f, B)
         /\ SumBytes(f, B) <= SumBytes(f, A)
<1>1. /\ (A \ B) \cap B = {}
      /\ (A \ B) \cup B = A
  OBVIOUS
<1>2. Slots(f, (A \ B) \cup B) = Slots(f, A \ B) \cup Slots(f, B)
  BY <1>1, SlotsOfUnion, Zenon
<1>3. IsFiniteSet(Slots(f, A \ B)) /\ IsFiniteSet(Slots(f, B))
  BY <1>1, <1>2, FS_Subset
<1>4. SumBytes(f, A) = SumBytes(f, A \ B) + SumBytes(f, B)
  <2>1. SumBytes(f, (A \ B) \cup B) = SumBytes(f, A \ B) + SumBytes(f, B)
    BY <1>1, <1>3, SumOfUnion
  <2>2. QED
    BY <1>1, <2>1
<1>5. /\ SumBytes(f, A) \in Nat
      /\ SumBytes(f, A \ B) \in Nat
      /\ SumBytes(f, B) \in Nat
  BY <1>3, FS_CardinalityType DEF SumBytes
<1>6. QED
  BY <1>3, <1>4, <1>5

\* Deleting one row subtracts its bytes.
LEMMA SumAfterDeleteOne ==
  ASSUME NEW f, NEW A, NEW id \in A, f[id].bytes \in Nat,
         IsFiniteSet(Slots(f, A))
  PROVE  /\ IsFiniteSet(Slots(f, A \ {id}))
         /\ SumBytes(f, A) \in Nat
         /\ SumBytes(f, A \ {id}) = SumBytes(f, A) - f[id].bytes
         /\ f[id].bytes <= SumBytes(f, A)
<1>1. Slots(f, {id}) = {id} \X (1 .. f[id].bytes)
  BY Zenon DEF Slots
<1>2. SumBytes(f, {id}) = f[id].bytes
  BY <1>1, RowSlots, Zenon DEF SumBytes
<1>3. {id} \in SUBSET A
  OBVIOUS
<1>4. QED
  <2>1. /\ IsFiniteSet(Slots(f, A \ {id}))
        /\ SumBytes(f, A) \in Nat
        /\ SumBytes(f, A \ {id}) = SumBytes(f, A) - SumBytes(f, {id})
        /\ SumBytes(f, {id}) <= SumBytes(f, A)
    BY <1>3, SumAfterDelete, Zenon
  <2>2. QED
    BY <1>2, <2>1

----------------------------------------------------------------------------
(* The inductive invariant: the types, the sums, and that the sums are sums *)
(* of finitely many rows, without which a cardinality is not a number.      *)

\* Only finitely many bytes of an account are reserved at any time.
FiniteSlots ==
  \A p \in Provider : IsFiniteSet(Slots(reservations, ReservationsOf(p)))

LedgerInv == TypeOK /\ FiniteSlots /\ ReservedIsSumOfRows

\* A ledger nobody has written to satisfies the invariant.
LEMMA InitLedgerInv == Init => LedgerInv
<1>1. SUFFICES ASSUME Init PROVE LedgerInv
  OBVIOUS
<1>2. TypeOK
  <2>1. \A e \in BOOLEAN, c \in Nat : FreshAccount(e, c) \in AccountRow
    BY DEF FreshAccount, AccountRow, Status, NoTime
  <2>2. account \in [Provider -> AccountRow]
    BY <1>1, <2>1, SizeAssumption DEF Init
  <2>3. QED
    BY <1>1, <2>2 DEF Init, TypeOK
<1>3. \A p \in Provider : Slots(reservations, ReservationsOf(p)) = {}
  BY <1>1, Zenon DEF Init, ReservationsOf, Slots
<1>4. FiniteSlots /\ ReservedIsSumOfRows
  <2>1. FiniteSlots
    BY <1>3, FS_EmptySet DEF FiniteSlots
  <2>2. ASSUME NEW p \in Provider
        PROVE  account[p].reserved = SumBytes(reservations, ReservationsOf(p))
    <3>1. account[p].reserved = 0
      <4>1. \E e \in BOOLEAN, c \in Nat : account[p] = FreshAccount(e, c)
        BY <1>1, SizeAssumption DEF Init
      <4>2. \A e \in BOOLEAN, c \in Nat : FreshAccount(e, c).reserved = 0
        BY DEF FreshAccount
      <4>3. QED
        BY <4>1, <4>2, Zenon
    <3>2. QED
      BY <1>3, <3>1, FS_EmptySet DEF SumBytes
  <2>3. ASSUME NEW p \in Provider
        PROVE  ReservationsOf(p) = {}
    BY <1>1 DEF Init, ReservationsOf
  <2>4. QED
    BY <2>1, <2>2, <2>3 DEF ReservedIsSumOfRows
<1>5. QED
  BY <1>2, <1>4 DEF LedgerInv

\* A month's rollover keeps a row an account row and only touches the counter.
LEMMA RolledOverType ==
  ASSUME NEW a \in AccountRow, NEW m \in Nat
  PROVE  /\ RolledOver(a, m) \in AccountRow
         /\ RolledOver(a, m).reserved = a.reserved
         /\ RolledOver(a, m).used = a.used
         /\ RolledOver(a, m).capacity = a.capacity
BY DEF RolledOver, AccountRow

\* Reserving inserts one row and adds its bytes to one account.
LEMMA ReserveLedgerInv ==
  ASSUME LedgerInv, NEW id \in ReservationID, NEW p \in Provider, NEW n \in Nat,
         ReserveProviderCapacity(id, p, n)
  PROVE  LedgerInv'
<1> USE DEF LedgerInv
<1>1. /\ account[p] \in AccountRow
      /\ month \in Nat
      /\ RolledOver(account[p], month) \in AccountRow
      /\ RolledOver(account[p], month).reserved = account[p].reserved
  BY RolledOverType DEF TypeOK
<1> DEFINE a == RolledOver(account[p], month)
           row == [a EXCEPT !.reserved = a.reserved + n]
<1>a. account' = [account EXCEPT ![p] = row]
  BY DEF ReserveProviderCapacity
<1>b. row \in AccountRow /\ row.reserved = account[p].reserved + n
  <2> HIDE DEF a
  <2>1. a \in AccountRow /\ a.reserved = account[p].reserved
    BY <1>1 DEF a
  <2>2. QED
    BY <2>1 DEF AccountRow
<1> HIDE DEF row
<1>2. TypeOK'
  <2>1. account' \in [Provider -> AccountRow]
    BY <1>a, <1>b DEF TypeOK
  <2>2. /\ DOMAIN reservations' = DOMAIN reservations \cup {id}
        /\ reservations' \in [DOMAIN reservations' -> ReservationRow]
    BY TimeAssumption DEF TypeOK, ReserveProviderCapacity, ReservationRow
  <2>3. QED
    BY <2>1, <2>2 DEF TypeOK, ReserveProviderCapacity
<1>3. /\ id \notin ReservationsOf(p)
      /\ ReservationsOf(p)' = ReservationsOf(p) \cup {id}
      /\ reservations'[id].bytes = n
  BY DEF ReserveProviderCapacity, ReservationsOf
<1>4. \A q \in Provider \ {p} : ReservationsOf(q)' = ReservationsOf(q)
  BY DEF ReserveProviderCapacity, ReservationsOf
<1>5. \A q \in Provider : Slots(reservations', ReservationsOf(q))
                          = Slots(reservations, ReservationsOf(q))
  <2>1. TAKE q \in Provider
  <2>2. \A i \in ReservationsOf(q) : reservations'[i].bytes = reservations[i].bytes
    BY DEF ReserveProviderCapacity, ReservationsOf
  <2>3. QED
    BY <2>2, SameBytesSameSlots, Zenon
<1>6. /\ IsFiniteSet(Slots(reservations', ReservationsOf(p)'))
      /\ SumBytes(reservations', ReservationsOf(p)')
           = SumBytes(reservations', ReservationsOf(p)) + n
  <2>1. IsFiniteSet(Slots(reservations', ReservationsOf(p)))
    BY <1>5 DEF FiniteSlots
  <2>2. QED
    BY <1>3, <2>1, SumAfterInsert
<1>7. FiniteSlots'
  BY <1>4, <1>5, <1>6 DEF FiniteSlots
<1>8. ReservedIsSumOfRows'
  <2>1. account'[p].reserved = SumBytes(reservations', ReservationsOf(p)')
    <3>1. account'[p].reserved = account[p].reserved + n
      BY <1>a, <1>b DEF TypeOK
    <3>2. SumBytes(reservations', ReservationsOf(p)) = account[p].reserved
      BY <1>5 DEF ReservedIsSumOfRows, SumBytes
    <3>3. QED
      BY <1>6, <3>1, <3>2
  <2>2. ASSUME NEW q \in Provider \ {p}
        PROVE  account'[q].reserved = SumBytes(reservations', ReservationsOf(q)')
    <3>1. account'[q] = account[q]
      BY DEF ReserveProviderCapacity, TypeOK
    <3>2. SumBytes(reservations', ReservationsOf(q)')
            = SumBytes(reservations, ReservationsOf(q))
      BY <1>4, <1>5 DEF SumBytes
    <3>3. QED
      BY <3>1, <3>2 DEF ReservedIsSumOfRows
  <2>3. ASSUME NEW q \in Provider, ReservationsOf(q)' # {}
        PROVE  q \in present'
    BY <1>4, <2>3 DEF ReservedIsSumOfRows, ReserveProviderCapacity
  <2>4. QED
    BY <2>1, <2>2, <2>3 DEF ReservedIsSumOfRows
<1>9. QED
  BY <1>2, <1>7, <1>8

\* Deleting rows, whichever they are, takes their bytes out of the sums.
LEMMA DeleteRows ==
  ASSUME LedgerInv, NEW gone \in SUBSET DOMAIN reservations,
         reservations' = Restrict(reservations, DOMAIN reservations \ gone)
  PROVE  /\ DOMAIN reservations' \subseteq ReservationID
         /\ reservations' \in [DOMAIN reservations' -> ReservationRow]
         /\ FiniteSlots'
         /\ \A p \in Provider :
              /\ ReservationsOf(p)' = ReservationsOf(p) \ gone
              /\ SumBytes(reservations, ReservationsOf(p)) \in Nat
              /\ SumBytes(reservations, ReservationsOf(p) \cap gone) \in Nat
              /\ SumBytes(reservations, ReservationsOf(p) \cap gone)
                   <= SumBytes(reservations, ReservationsOf(p))
              /\ SumBytes(reservations', ReservationsOf(p)')
                   = SumBytes(reservations, ReservationsOf(p))
                       - SumBytes(reservations, ReservationsOf(p) \cap gone)
<1>1. /\ DOMAIN reservations' = DOMAIN reservations \ gone
      /\ \A id \in DOMAIN reservations' : reservations'[id] = reservations[id]
  BY DEF Restrict
<1>2. /\ DOMAIN reservations' \subseteq ReservationID
      /\ reservations' \in [DOMAIN reservations' -> ReservationRow]
  BY <1>1 DEF LedgerInv, TypeOK, Restrict
<1>3. ASSUME NEW p \in Provider
      PROVE  /\ ReservationsOf(p)' = ReservationsOf(p) \ gone
             /\ IsFiniteSet(Slots(reservations', ReservationsOf(p)'))
             /\ SumBytes(reservations, ReservationsOf(p)) \in Nat
             /\ SumBytes(reservations, ReservationsOf(p) \cap gone) \in Nat
             /\ SumBytes(reservations, ReservationsOf(p) \cap gone)
                  <= SumBytes(reservations, ReservationsOf(p))
             /\ SumBytes(reservations', ReservationsOf(p)')
                  = SumBytes(reservations, ReservationsOf(p))
                      - SumBytes(reservations, ReservationsOf(p) \cap gone)
  <2> DEFINE A == ReservationsOf(p)
             B == ReservationsOf(p) \cap gone
  <2>1. ReservationsOf(p)' = A \ gone
    BY <1>1 DEF ReservationsOf
  <2>2. A \ gone = A \ B /\ B \in SUBSET A
    OBVIOUS
  <2>3. Slots(reservations', A \ B) = Slots(reservations, A \ B)
    <3>1. \A id \in A \ B : reservations'[id].bytes = reservations[id].bytes
      BY <1>1 DEF ReservationsOf
    <3> HIDE DEF A, B
    <3>2. QED
      BY <3>1, SameBytesSameSlots, Zenon
  <2>4. IsFiniteSet(Slots(reservations, A))
    BY DEF LedgerInv, FiniteSlots
  <2> HIDE DEF A, B
  <2>5. /\ IsFiniteSet(Slots(reservations, A \ B))
        /\ SumBytes(reservations, A) \in Nat
        /\ SumBytes(reservations, B) \in Nat
        /\ SumBytes(reservations, A \ B)
             = SumBytes(reservations, A) - SumBytes(reservations, B)
        /\ SumBytes(reservations, B) <= SumBytes(reservations, A)
    BY <2>2, <2>4, SumAfterDelete, Zenon
  <2>6. SumBytes(reservations', A \ B) = SumBytes(reservations, A \ B)
    BY <2>3 DEF SumBytes
  <2>7. QED
    BY <2>1, <2>2, <2>3, <2>5, <2>6, Zenon DEF A, B
<1>4. FiniteSlots'
  BY <1>3 DEF FiniteSlots
<1>5. QED
  BY <1>2, <1>3, <1>4

\* Commit and release take one row away and its bytes with it: since the row
\* is part of the sum, the clamp at zero never applies.
LEMMA SettleLedgerInv ==
  ASSUME LedgerInv, NEW p \in Provider, NEW id, id \in ReservationsOf(p),
         reservations' = Restrict(reservations, DOMAIN reservations \ {id}),
         account' \in [Provider -> AccountRow],
         account'[p].reserved
           = ClampedMinus(account[p].reserved, reservations[id].bytes),
         \A q \in Provider \ {p} : account'[q].reserved = account[q].reserved,
         UNCHANGED <<present, month>>
  PROVE  LedgerInv' /\ reservations[id].bytes <= account[p].reserved
<1>1. reservations[id].bytes \in Nat /\ id \in DOMAIN reservations
  BY DEF LedgerInv, TypeOK, ReservationRow, ReservationsOf
<1>2. /\ DOMAIN reservations' \subseteq ReservationID
      /\ reservations' \in [DOMAIN reservations' -> ReservationRow]
      /\ FiniteSlots'
      /\ \A q \in Provider :
           /\ ReservationsOf(q)' = ReservationsOf(q) \ {id}
           /\ SumBytes(reservations, ReservationsOf(q)) \in Nat
           /\ SumBytes(reservations, ReservationsOf(q) \cap {id}) \in Nat
           /\ SumBytes(reservations, ReservationsOf(q) \cap {id})
                <= SumBytes(reservations, ReservationsOf(q))
           /\ SumBytes(reservations', ReservationsOf(q)')
                = SumBytes(reservations, ReservationsOf(q))
                    - SumBytes(reservations, ReservationsOf(q) \cap {id})
  <2>1. {id} \in SUBSET DOMAIN reservations
    BY <1>1
  <2>2. QED
    BY <2>1, DeleteRows, Zenon
<1>3. TypeOK'
  BY <1>2 DEF LedgerInv, TypeOK
<1>4. SumBytes(reservations, ReservationsOf(p) \cap {id}) = reservations[id].bytes
  <2>1. ReservationsOf(p) \cap {id} = {id}
    BY <1>1
  <2>2. Slots(reservations, {id}) = {id} \X (1 .. reservations[id].bytes)
    BY Zenon DEF Slots
  <2>3. SumBytes(reservations, {id}) = reservations[id].bytes
    <3>1. Cardinality({id} \X (1 .. reservations[id].bytes)) = reservations[id].bytes
      BY <1>1, RowSlots, Zenon
    <3>2. QED
      BY <2>2, <3>1 DEF SumBytes
  <2>4. QED
    BY <2>1, <2>3
<1>5. account[p].reserved = SumBytes(reservations, ReservationsOf(p))
  BY <1>1 DEF LedgerInv, ReservedIsSumOfRows
<1>6. /\ reservations[id].bytes <= account[p].reserved
      /\ account'[p].reserved = SumBytes(reservations', ReservationsOf(p)')
  <2>1. /\ SumBytes(reservations, ReservationsOf(p)) \in Nat
        /\ SumBytes(reservations, ReservationsOf(p) \cap {id})
             <= SumBytes(reservations, ReservationsOf(p))
        /\ SumBytes(reservations', ReservationsOf(p)')
             = SumBytes(reservations, ReservationsOf(p))
                 - SumBytes(reservations, ReservationsOf(p) \cap {id})
    BY <1>2, Zenon
  <2>2. /\ account[p].reserved \in Nat
        /\ reservations[id].bytes <= account[p].reserved
        /\ SumBytes(reservations', ReservationsOf(p)')
             = account[p].reserved - reservations[id].bytes
    BY <1>4, <1>5, <2>1
  <2>3. QED
    BY <1>1, <2>2 DEF ClampedMinus
<1>7. ASSUME NEW q \in Provider, q # p
      PROVE  account'[q].reserved = SumBytes(reservations', ReservationsOf(q)')
  <2>1. ReservationsOf(q) \cap {id} = {}
    BY <1>7 DEF ReservationsOf
  <2>2. SumBytes(reservations, ReservationsOf(q) \cap {id}) = 0
    <3>1. Slots(reservations, {}) = {}
      BY Zenon DEF Slots
    <3>2. QED
      BY <2>1, <3>1, FS_EmptySet DEF SumBytes
  <2>3. account'[q].reserved = SumBytes(reservations, ReservationsOf(q))
    BY <1>7 DEF LedgerInv, ReservedIsSumOfRows
  <2>4. /\ SumBytes(reservations, ReservationsOf(q)) \in Nat
        /\ SumBytes(reservations', ReservationsOf(q)')
             = SumBytes(reservations, ReservationsOf(q))
                 - SumBytes(reservations, ReservationsOf(q) \cap {id})
    BY <1>2, Zenon
  <2>5. QED
    BY <2>2, <2>3, <2>4
<1>8. \A q \in Provider : ReservationsOf(q)' # {} => q \in present'
  BY <1>2 DEF LedgerInv, ReservedIsSumOfRows
<1>9. ReservedIsSumOfRows'
  BY <1>6, <1>7, <1>8 DEF ReservedIsSumOfRows
<1>10. QED
  BY <1>2, <1>3, <1>6, <1>9 DEF LedgerInv

\* A commit frees exactly what its row reserved.
LEMMA CommitLedgerInv ==
  ASSUME LedgerInv, NEW p \in Provider, NEW id, id \in ReservationsOf(p),
         NEW n \in Nat, CommitProviderReservation(id, n)
  PROVE  /\ LedgerInv'
         /\ account'[p].reserved = account[p].reserved - reservations[id].bytes
         /\ reservations[id].bytes <= account[p].reserved
         /\ account'[p].used = account[p].used + n
         /\ account'[p].monthly = account[p].monthly + n
         /\ account'[p].capacity = account[p].capacity
         /\ \A q \in Provider \ {p} : account'[q] = account[q]
<1> DEFINE a == account[p]
           row == [a EXCEPT !.reserved = ClampedMinus(a.reserved, reservations[id].bytes),
                            !.used = a.used + n, !.monthly = a.monthly + n,
                            !.status = "", !.until = NoTime]
<1>1. reservations[id].provider = p /\ reservations[id].bytes \in Nat
  BY DEF LedgerInv, TypeOK, ReservationRow, ReservationsOf
<1>2. /\ account' = [account EXCEPT ![p] = row]
      /\ reservations' = Restrict(reservations, DOMAIN reservations \ {id})
      /\ UNCHANGED <<present, month>>
  BY <1>1 DEF CommitProviderReservation
<1>3. /\ row \in AccountRow
      /\ row.reserved = ClampedMinus(account[p].reserved, reservations[id].bytes)
      /\ row.used = account[p].used + n
      /\ row.monthly = account[p].monthly + n
      /\ row.capacity = account[p].capacity
  <2>1. a \in AccountRow
    BY DEF LedgerInv, TypeOK
  <2>2. ClampedMinus(a.reserved, reservations[id].bytes) \in Nat
    BY <1>1, <2>1 DEF ClampedMinus, AccountRow
  <2>3. a.used + n \in Nat /\ a.monthly + n \in Nat
    BY <2>1 DEF AccountRow
  <2> DEFINE x == ClampedMinus(a.reserved, reservations[id].bytes)
             u == a.used + n
             m == a.monthly + n
  <2>4. row = [a EXCEPT !.reserved = x, !.used = u, !.monthly = m,
                        !.status = "", !.until = NoTime]
    OBVIOUS
  <2>5. a \in AccountRow /\ x \in Nat /\ u \in Nat /\ m \in Nat
    BY <2>1, <2>2, <2>3
  <2> HIDE DEF row, a, x, u, m
  <2>6. /\ row \in AccountRow
        /\ row.reserved = x /\ row.used = u /\ row.monthly = m
        /\ row.capacity = a.capacity
    BY <2>4, <2>5 DEF AccountRow, Status
  <2>7. QED
    BY <2>6 DEF a, x, u, m
<1> HIDE DEF row
<1>4. /\ account' \in [Provider -> AccountRow]
      /\ account'[p] = row
      /\ \A q \in Provider \ {p} : account'[q] = account[q]
  BY <1>2, <1>3 DEF LedgerInv, TypeOK
<1>5. LedgerInv' /\ reservations[id].bytes <= account[p].reserved
  BY <1>2, <1>3, <1>4, SettleLedgerInv
<1>6. account'[p].reserved = account[p].reserved - reservations[id].bytes
  <2>1. account[p].reserved \in Nat
    BY DEF LedgerInv, TypeOK, AccountRow
  <2>2. QED
    BY <1>1, <1>3, <1>4, <1>5, <2>1 DEF ClampedMinus
<1>7. QED
  BY <1>3, <1>4, <1>5, <1>6

\* A release frees exactly what its row reserved and touches nothing else.
LEMMA ReleaseLedgerInv ==
  ASSUME LedgerInv, NEW p \in Provider, NEW id, id \in ReservationsOf(p),
         ReleaseProviderReservation(id)
  PROVE  /\ LedgerInv'
         /\ account'[p].reserved <= account[p].reserved
         /\ account'[p].used = account[p].used
         /\ account'[p].monthly = account[p].monthly
         /\ account'[p].capacity = account[p].capacity
         /\ \A q \in Provider \ {p} : account'[q] = account[q]
<1> DEFINE a == account[p]
           row == [a EXCEPT !.reserved = ClampedMinus(a.reserved, reservations[id].bytes)]
<1>1. reservations[id].provider = p /\ reservations[id].bytes \in Nat
  BY DEF LedgerInv, TypeOK, ReservationRow, ReservationsOf
<1>2. /\ account' = [account EXCEPT ![p] = row]
      /\ reservations' = Restrict(reservations, DOMAIN reservations \ {id})
      /\ UNCHANGED <<present, month>>
  BY <1>1 DEF ReleaseProviderReservation
<1>3. /\ row \in AccountRow
      /\ row.reserved = ClampedMinus(account[p].reserved, reservations[id].bytes)
      /\ row.reserved <= account[p].reserved
      /\ row.used = account[p].used
      /\ row.monthly = account[p].monthly
      /\ row.capacity = account[p].capacity
  <2>1. a \in AccountRow
    BY DEF LedgerInv, TypeOK
  <2>2. /\ ClampedMinus(a.reserved, reservations[id].bytes) \in Nat
        /\ ClampedMinus(a.reserved, reservations[id].bytes) <= a.reserved
    BY <1>1, <2>1 DEF ClampedMinus, AccountRow
  <2> HIDE DEF a
  <2>3. QED
    BY <2>1, <2>2 DEF AccountRow, a
<1> HIDE DEF row
<1>4. /\ account' \in [Provider -> AccountRow]
      /\ account'[p] = row
      /\ \A q \in Provider \ {p} : account'[q] = account[q]
  BY <1>2, <1>3 DEF LedgerInv, TypeOK
<1>5. LedgerInv'
  BY <1>2, <1>3, <1>4, SettleLedgerInv
<1>6. QED
  BY <1>3, <1>4, <1>5

\* Recovery drops every expired row of every account and their bytes.
LEMMA RecoverLedgerInv ==
  ASSUME LedgerInv, RecoverExpiredProviderReservations
  PROVE  /\ LedgerInv'
         /\ \A p \in Provider : /\ account'[p].reserved <= account[p].reserved
                                /\ account'[p].used = account[p].used
                                /\ account'[p].monthly = account[p].monthly
                                /\ account'[p].capacity = account[p].capacity
<1> DEFINE gone == UNION {Expired(p) : p \in Provider}
           sum(p) == SumBytes(reservations, Expired(p))
<1>1. /\ gone \in SUBSET DOMAIN reservations
      /\ \A p \in Provider : ReservationsOf(p) \cap gone = Expired(p)
  BY DEF Expired, ReservationsOf
<1>2. /\ account' = [p \in Provider |-> [account[p] EXCEPT
                       !.reserved = ClampedMinus(account[p].reserved, sum(p))]]
      /\ reservations' = Restrict(reservations, DOMAIN reservations \ gone)
      /\ UNCHANGED <<present, month>>
  BY Zenon DEF RecoverExpiredProviderReservations
<1> HIDE DEF gone
<1>3. /\ DOMAIN reservations' \subseteq ReservationID
      /\ reservations' \in [DOMAIN reservations' -> ReservationRow]
      /\ FiniteSlots'
      /\ \A p \in Provider :
           /\ ReservationsOf(p)' = ReservationsOf(p) \ gone
           /\ SumBytes(reservations, ReservationsOf(p)) \in Nat
           /\ SumBytes(reservations, ReservationsOf(p) \cap gone) \in Nat
           /\ SumBytes(reservations, ReservationsOf(p) \cap gone)
                <= SumBytes(reservations, ReservationsOf(p))
           /\ SumBytes(reservations', ReservationsOf(p)')
                = SumBytes(reservations, ReservationsOf(p))
                    - SumBytes(reservations, ReservationsOf(p) \cap gone)
  <2>1. PICK G \in SUBSET DOMAIN reservations : G = gone
    BY <1>1
  <2>2. reservations' = Restrict(reservations, DOMAIN reservations \ G)
    BY <1>2, <2>1
  <2>3. QED
    BY <2>1, <2>2, DeleteRows, Zenon
<1>4. ASSUME NEW p \in Provider
      PROVE  /\ account[p].reserved \in Nat
             /\ sum(p) \in Nat
             /\ sum(p) <= account[p].reserved
             /\ SumBytes(reservations', ReservationsOf(p)')
                  = account[p].reserved - sum(p)
  <2>1. /\ SumBytes(reservations, ReservationsOf(p)) \in Nat
        /\ sum(p) \in Nat
        /\ sum(p) <= SumBytes(reservations, ReservationsOf(p))
        /\ SumBytes(reservations', ReservationsOf(p)')
             = SumBytes(reservations, ReservationsOf(p)) - sum(p)
    BY <1>1, <1>3, Zenon
  <2>2. account[p].reserved = SumBytes(reservations, ReservationsOf(p))
    BY DEF LedgerInv, ReservedIsSumOfRows
  <2>3. QED
    BY <2>1, <2>2
<1> HIDE DEF sum
<1>5. ASSUME NEW p \in Provider
      PROVE  /\ account'[p] \in AccountRow
             /\ account'[p].reserved = account[p].reserved - sum(p)
             /\ account'[p].used = account[p].used
             /\ account'[p].monthly = account[p].monthly
             /\ account'[p].capacity = account[p].capacity
  <2>1. account[p] \in AccountRow
    BY DEF LedgerInv, TypeOK
  <2>2. account'[p] = [account[p] EXCEPT
                         !.reserved = ClampedMinus(account[p].reserved, sum(p))]
    BY <1>2
  <2>3. /\ ClampedMinus(account[p].reserved, sum(p)) = account[p].reserved - sum(p)
        /\ account[p].reserved - sum(p) \in Nat
    BY <1>4 DEF ClampedMinus
  <2>4. QED
    BY <2>1, <2>2, <2>3 DEF AccountRow
<1>6. TypeOK'
  BY <1>2, <1>3, <1>5 DEF LedgerInv, TypeOK
<1>7. ReservedIsSumOfRows'
  <2>1. ASSUME NEW p \in Provider
        PROVE  account'[p].reserved = SumBytes(reservations', ReservationsOf(p)')
    BY <1>4, <1>5
  <2>2. ASSUME NEW p \in Provider, ReservationsOf(p)' # {}
        PROVE  p \in present'
    BY <1>2, <1>3, <2>2 DEF LedgerInv, ReservedIsSumOfRows
  <2>3. QED
    BY <2>1, <2>2 DEF ReservedIsSumOfRows
<1>8. \A p \in Provider : account'[p].reserved <= account[p].reserved
  BY <1>4, <1>5
<1>9. QED
  BY <1>3, <1>5, <1>6, <1>7, <1>8 DEF LedgerInv

\* The cascade empties exactly the deleted account.
LEMMA DeleteProviderLedgerInv ==
  ASSUME LedgerInv, NEW p \in Provider, DeleteProvider(p)
  PROVE  /\ LedgerInv'
         /\ account'[p].capacity = 0
         /\ account'[p].reserved = 0 /\ account'[p].monthly = 0
         /\ \A q \in Provider \ {p} : account'[q] = account[q]
<1>1. /\ account' = [account EXCEPT ![p] = FreshAccount(FALSE, 0)]
      /\ reservations' = Restrict(reservations, DOMAIN reservations \ ReservationsOf(p))
      /\ present' = present \ {p}
      /\ month' = month
  BY DEF DeleteProvider
<1>2. /\ FreshAccount(FALSE, 0) \in AccountRow
      /\ FreshAccount(FALSE, 0).capacity = 0
      /\ FreshAccount(FALSE, 0).reserved = 0
      /\ FreshAccount(FALSE, 0).monthly = 0
  BY DEF FreshAccount, AccountRow, Status, NoTime
<1>3. /\ account' \in [Provider -> AccountRow]
      /\ account'[p] = FreshAccount(FALSE, 0)
      /\ \A q \in Provider \ {p} : account'[q] = account[q]
  BY <1>1, <1>2 DEF LedgerInv, TypeOK
<1>4. PICK gone \in SUBSET DOMAIN reservations : gone = ReservationsOf(p)
  BY DEF ReservationsOf
<1>5. reservations' = Restrict(reservations, DOMAIN reservations \ gone)
  BY <1>1, <1>4
<1>6. /\ DOMAIN reservations' \subseteq ReservationID
      /\ reservations' \in [DOMAIN reservations' -> ReservationRow]
      /\ FiniteSlots'
      /\ \A q \in Provider :
           /\ ReservationsOf(q)' = ReservationsOf(q) \ gone
           /\ SumBytes(reservations, ReservationsOf(q)) \in Nat
           /\ SumBytes(reservations', ReservationsOf(q)')
                = SumBytes(reservations, ReservationsOf(q))
                    - SumBytes(reservations, ReservationsOf(q) \cap gone)
  BY <1>5, DeleteRows, Zenon
<1>7. TypeOK'
  BY <1>1, <1>3, <1>6 DEF LedgerInv, TypeOK
<1>8. ASSUME NEW q \in Provider
      PROVE  /\ account'[q].reserved = SumBytes(reservations', ReservationsOf(q)')
             /\ ReservationsOf(q)' # {} => q \in present'
  <2>1. CASE q = p
    <3>1. ReservationsOf(q)' = {}
      BY <1>4, <1>6, <2>1
    <3>2. Slots(reservations', {}) = {}
      BY Zenon DEF Slots
    <3>3. SumBytes(reservations', ReservationsOf(q)') = 0
      BY <3>1, <3>2, FS_EmptySet DEF SumBytes
    <3>4. QED
      BY <1>2, <1>3, <2>1, <3>1, <3>3
  <2>2. CASE q # p
    <3>1. ReservationsOf(q) \cap gone = {}
      BY <1>4, <2>2 DEF ReservationsOf
    <3>2. Slots(reservations, {}) = {}
      BY Zenon DEF Slots
    <3>3. SumBytes(reservations, ReservationsOf(q) \cap gone) = 0
      BY <3>1, <3>2, FS_EmptySet DEF SumBytes
    <3>4. /\ SumBytes(reservations, ReservationsOf(q)) \in Nat
          /\ SumBytes(reservations', ReservationsOf(q)')
               = SumBytes(reservations, ReservationsOf(q))
                   - SumBytes(reservations, ReservationsOf(q) \cap gone)
      BY <1>6, Zenon
    <3>5. account'[q].reserved = SumBytes(reservations, ReservationsOf(q))
      BY <1>3, <2>2 DEF LedgerInv, ReservedIsSumOfRows
    <3>6. ReservationsOf(q)' # {} => q \in present'
      BY <1>1, <1>6, <2>2 DEF LedgerInv, ReservedIsSumOfRows
    <3>7. QED
      BY <3>3, <3>4, <3>5, <3>6
  <2>3. QED
    BY <2>1, <2>2
<1>9. QED
  BY <1>2, <1>3, <1>6, <1>7, <1>8 DEF LedgerInv, ReservedIsSumOfRows

\* Steps that leave the bytes of every row and every reserved counter alone.
LEMMA SameSumsLedgerInv ==
  ASSUME LedgerInv, TypeOK',
         DOMAIN reservations' = DOMAIN reservations,
         \A id \in DOMAIN reservations :
           /\ reservations'[id].provider = reservations[id].provider
           /\ reservations'[id].bytes = reservations[id].bytes,
         \A p \in Provider : account'[p].reserved = account[p].reserved,
         present \subseteq present'
  PROVE  LedgerInv'
<1>1. ASSUME NEW p \in Provider
      PROVE  /\ ReservationsOf(p)' = ReservationsOf(p)
             /\ Slots(reservations', ReservationsOf(p)')
                  = Slots(reservations, ReservationsOf(p))
  <2>1. ReservationsOf(p)' = ReservationsOf(p)
    BY DEF ReservationsOf
  <2>2. \A id \in ReservationsOf(p) : reservations'[id].bytes = reservations[id].bytes
    BY DEF ReservationsOf
  <2>3. Slots(reservations', ReservationsOf(p)) = Slots(reservations, ReservationsOf(p))
    BY <2>2, SameBytesSameSlots, Zenon
  <2>4. QED
    BY <2>1, <2>3
<1>2. FiniteSlots'
  BY <1>1 DEF LedgerInv, FiniteSlots
<1>3. ReservedIsSumOfRows'
  BY <1>1 DEF LedgerInv, ReservedIsSumOfRows, SumBytes
<1>4. QED
  BY <1>2, <1>3 DEF LedgerInv

\* Time passing shortens countdowns only.
LEMMA TickLedgerInv ==
  ASSUME LedgerInv, Tick
  PROVE  /\ LedgerInv'
         /\ \A p \in Provider : /\ account'[p].reserved = account[p].reserved
                                /\ account'[p].used = account[p].used
                                /\ account'[p].monthly = account[p].monthly
                                /\ account'[p].capacity = account[p].capacity
<1>1. ASSUME NEW p \in Provider
      PROVE  /\ account'[p] \in AccountRow
             /\ account'[p].reserved = account[p].reserved
             /\ account'[p].used = account[p].used
             /\ account'[p].monthly = account[p].monthly
             /\ account'[p].capacity = account[p].capacity
  <2>1. account[p] \in AccountRow
    BY DEF LedgerInv, TypeOK
  <2>2. CountDown(account[p].until) \in Nat \cup {NoTime}
    BY <2>1 DEF AccountRow, CountDown, NoTime
  <2>3. account'[p] = [account[p] EXCEPT !.until = CountDown(account[p].until)]
    BY DEF Tick
  <2>4. QED
    BY <2>1, <2>2, <2>3 DEF AccountRow
<1>2. ASSUME NEW id \in DOMAIN reservations
      PROVE  /\ reservations'[id] \in ReservationRow
             /\ reservations'[id].provider = reservations[id].provider
             /\ reservations'[id].bytes = reservations[id].bytes
  <2>1. reservations[id] \in ReservationRow
    BY DEF LedgerInv, TypeOK
  <2>2. CountDown(reservations[id].expires) \in Nat
    BY <2>1 DEF ReservationRow, CountDown
  <2>3. reservations'[id] = [reservations[id] EXCEPT
                               !.expires = CountDown(reservations[id].expires)]
    BY DEF Tick
  <2>4. QED
    BY <2>1, <2>2, <2>3 DEF ReservationRow
<1>3. TypeOK' /\ DOMAIN reservations' = DOMAIN reservations
  BY <1>1, <1>2 DEF LedgerInv, TypeOK, Tick
<1>4. present \subseteq present'
  BY DEF Tick
<1>5. LedgerInv'
  BY <1>1, <1>2, <1>3, <1>4, SameSumsLedgerInv
<1>6. QED
  BY <1>1, <1>5

\* Steps that write one account row and not its reserved counter.
LEMMA OneRowLedgerInv ==
  ASSUME LedgerInv, NEW p \in Provider, NEW row \in AccountRow,
         row.reserved = account[p].reserved,
         account' = [account EXCEPT ![p] = row],
         present \subseteq present', present' \subseteq Provider,
         UNCHANGED <<reservations, month>>
  PROVE  LedgerInv'
<1>1. TypeOK'
  BY DEF LedgerInv, TypeOK
<1>2. \A q \in Provider : account'[q].reserved = account[q].reserved
  BY DEF LedgerInv, TypeOK
<1>3. QED
  BY <1>1, <1>2, SameSumsLedgerInv

\* Measurements write counters the reservations do not depend on.
LEMMA MeasureLedgerInv ==
  ASSUME LedgerInv, NEW p \in Provider, Measure(p)
  PROVE  /\ LedgerInv'
         /\ account'[p].reserved = account[p].reserved
         /\ account'[p].monthly = account[p].monthly
         /\ account'[p].capacity = account[p].capacity
         /\ \A q \in Provider \ {p} : account'[q] = account[q]
         /\ \/ account'[p].used <= account[p].used
            \/ Measured(p)
<1> DEFINE a == account[p]
<1>1. a \in AccountRow /\ Size \subseteq Nat /\ Capacity \subseteq Nat
  BY SizeAssumption DEF LedgerInv, TypeOK
<1>2. ASSUME NEW row \in AccountRow, account' = [account EXCEPT ![p] = row],
             row.reserved = a.reserved, row.monthly = a.monthly,
             row.capacity = a.capacity, row.used <= a.used \/ Measured(p),
             UNCHANGED <<present, reservations, month>>
      PROVE  /\ LedgerInv'
             /\ account'[p].reserved = account[p].reserved
             /\ account'[p].monthly = account[p].monthly
             /\ account'[p].capacity = account[p].capacity
             /\ \A q \in Provider \ {p} : account'[q] = account[q]
             /\ account'[p].used <= account[p].used \/ Measured(p)
  <2>1. LedgerInv'
    <3>1. present \subseteq present' /\ present' \subseteq Provider
      BY <1>2 DEF LedgerInv, TypeOK
    <3>2. QED
      BY <1>2, <3>1, OneRowLedgerInv
  <2>2. account'[p] = row /\ \A q \in Provider \ {p} : account'[q] = account[q]
    BY <1>2 DEF LedgerInv, TypeOK
  <2>3. QED
    BY <1>2, <2>1, <2>2
<1>3. CASE \E n \in Size : AddProviderUsage(p, n)
  <2>1. PICK n \in Size : AddProviderUsage(p, n)
    BY <1>3
  <2>2. Measured(p)
    BY <2>1 DEF Measured
  <2> DEFINE u == IF a.used + n < 0 THEN 0 ELSE a.used + n
  <2>3. u \in Nat
    BY <1>1 DEF AccountRow
  <2>4. account' = [account EXCEPT ![p] = [a EXCEPT !.used = u]]
    BY <2>1 DEF AddProviderUsage
  <2> HIDE DEF a, u
  <2>5. /\ [a EXCEPT !.used = u] \in AccountRow
        /\ [a EXCEPT !.used = u].reserved = a.reserved
        /\ [a EXCEPT !.used = u].monthly = a.monthly
        /\ [a EXCEPT !.used = u].capacity = a.capacity
    BY <1>1, <2>3 DEF AccountRow
  <2>6. UNCHANGED <<present, reservations, month>>
    BY <2>1 DEF AddProviderUsage
  <2>7. QED
    BY <1>2, <2>2, <2>4, <2>5, <2>6
<1>4. CASE \E n \in Size : AddProviderUsage(p, -n)
  <2>1. PICK n \in Size : AddProviderUsage(p, -n)
    BY <1>4
  <2> DEFINE u == IF a.used + (-n) < 0 THEN 0 ELSE a.used + (-n)
  <2>2. u \in Nat /\ u <= a.used
    BY <1>1 DEF AccountRow
  <2>3. account' = [account EXCEPT ![p] = [a EXCEPT !.used = u]]
    BY <2>1 DEF AddProviderUsage
  <2> HIDE DEF a, u
  <2>4. /\ [a EXCEPT !.used = u] \in AccountRow
        /\ [a EXCEPT !.used = u].reserved = a.reserved
        /\ [a EXCEPT !.used = u].monthly = a.monthly
        /\ [a EXCEPT !.used = u].capacity = a.capacity
        /\ [a EXCEPT !.used = u].used <= a.used
    BY <1>1, <2>2 DEF AccountRow
  <2>5. UNCHANGED <<present, reservations, month>>
    BY <2>1 DEF AddProviderUsage
  <2>6. QED
    BY <1>2, <2>3, <2>4, <2>5
<1>5. CASE \E n \in Size : SetProviderUsage(p, n)
  <2>1. PICK n \in Size : SetProviderUsage(p, n)
    BY <1>5
  <2>2. Measured(p)
    BY <2>1 DEF Measured
  <2> DEFINE t == IF a.status = "quota" THEN "" ELSE a.status
  <2>3. t \in Status
    BY <1>1 DEF AccountRow, Status
  <2>4. account' = [account EXCEPT ![p] = [a EXCEPT !.used = n, !.status = t]]
    BY <2>1 DEF SetProviderUsage
  <2> HIDE DEF a, t
  <2>5. /\ [a EXCEPT !.used = n, !.status = t] \in AccountRow
        /\ [a EXCEPT !.used = n, !.status = t].reserved = a.reserved
        /\ [a EXCEPT !.used = n, !.status = t].monthly = a.monthly
        /\ [a EXCEPT !.used = n, !.status = t].capacity = a.capacity
    BY <1>1, <2>3 DEF AccountRow
  <2>6. UNCHANGED <<present, reservations, month>>
    BY <2>1 DEF SetProviderUsage
  <2>7. QED
    BY <1>2, <2>2, <2>4, <2>5, <2>6
<1>6. CASE \E c \in Capacity, n \in Size : SetProviderRemoteQuota(p, c, n)
  <2>1. PICK c \in Capacity, n \in Size : SetProviderRemoteQuota(p, c, n)
    BY <1>6
  <2>2. account' = [account EXCEPT ![p] = [a EXCEPT !.remoteCapacity = c,
                                                    !.remoteUsed = n]]
    BY <2>1 DEF SetProviderRemoteQuota
  <2> DEFINE row == [a EXCEPT !.remoteCapacity = c, !.remoteUsed = n]
  <2> HIDE DEF a
  <2>3. /\ row \in AccountRow
        /\ row.reserved = a.reserved /\ row.monthly = a.monthly
        /\ row.capacity = a.capacity /\ row.used <= a.used
    <3>1. c \in Nat /\ n \in Nat
      BY <1>1
    <3>2. row \in AccountRow
      BY <1>1, <3>1 DEF AccountRow
    <3>3. row.reserved = a.reserved /\ row.monthly = a.monthly
            /\ row.capacity = a.capacity /\ row.used = a.used
      BY <1>1 DEF AccountRow
    <3>4. a.used \in Nat
      BY <1>1 DEF AccountRow
    <3> HIDE DEF row
    <3>5. QED
      BY <3>2, <3>3, <3>4
  <2>4. UNCHANGED <<present, reservations, month>>
    BY <2>1 DEF SetProviderRemoteQuota
  <2> HIDE DEF row
  <2>5. QED
    BY <1>2, <2>2, <2>3, <2>4 DEF row
<1>7. QED
  BY <1>3, <1>4, <1>5, <1>6 DEF Measure

\* Availability is no part of the counters.
LEMMA AvailabilityLedgerInv ==
  ASSUME LedgerInv, NEW p \in Provider, SetAvailability(p)
  PROVE  /\ LedgerInv'
         /\ \A q \in Provider : /\ account'[q].reserved = account[q].reserved
                                /\ account'[q].used = account[q].used
                                /\ account'[q].monthly = account[q].monthly
                                /\ account'[q].capacity = account[q].capacity
<1> DEFINE a == account[p]
<1>1. PICK s \in Status, t \in Nat \cup {NoTime} :
        /\ account' = [account EXCEPT ![p] = [a EXCEPT !.status = s, !.until = t]]
        /\ UNCHANGED <<present, reservations, month>>
  <2>1. CASE \E s \in Retryable : MarkProviderUnavailable(p, s, RetryAfter)
    BY <2>1, TimeAssumption DEF MarkProviderUnavailable, Status
  <2>2. CASE \E s \in Status \ {"", "throttled"} : MarkProviderUnavailable(p, s, NoTime)
    BY <2>2 DEF MarkProviderUnavailable
  <2>3. CASE ClearProviderUnavailable(p)
    BY <2>3 DEF ClearProviderUnavailable, Status
  <2>4. QED
    BY <2>1, <2>2, <2>3 DEF SetAvailability
<1>2. a \in AccountRow
  BY DEF LedgerInv, TypeOK
<1> DEFINE row == [a EXCEPT !.status = s, !.until = t]
<1> HIDE DEF a
<1>3. /\ row \in AccountRow
      /\ row.reserved = a.reserved /\ row.used = a.used
      /\ row.monthly = a.monthly /\ row.capacity = a.capacity
  BY <1>2 DEF AccountRow
<1>4. account' = [account EXCEPT ![p] = row]
  BY <1>1
<1> HIDE DEF row
<1>5. LedgerInv'
  <2>1. present \subseteq present' /\ present' \subseteq Provider
    BY <1>1 DEF LedgerInv, TypeOK
  <2>2. QED
    BY <1>1, <1>3, <1>4, <2>1, OneRowLedgerInv DEF a
<1>6. account'[p] = row /\ \A q \in Provider \ {p} : account'[q] = account[q]
  BY <1>4 DEF LedgerInv, TypeOK
<1>7. QED
  BY <1>3, <1>5, <1>6 DEF a

\* Saving an account keeps its counters, or starts them where no row is.
LEMMA UpsertLedgerInv ==
  ASSUME LedgerInv, NEW p \in Provider, NEW e \in BOOLEAN, NEW c \in Nat,
         UpsertProvider(p, e, c)
  PROVE  /\ LedgerInv'
         /\ account'[p].reserved = account[p].reserved
         /\ account'[p].monthly <= account[p].monthly
         /\ \A q \in Provider \ {p} : account'[q] = account[q]
<1> DEFINE row == IF p \in present
                  THEN [account[p] EXCEPT !.enabled = e, !.capacity = c]
                  ELSE FreshAccount(e, c)
<1>1. /\ account' = [account EXCEPT ![p] = row]
      /\ present' = present \cup {p}
      /\ UNCHANGED <<reservations, month>>
  BY DEF UpsertProvider
<1>2. account[p] \in AccountRow
  BY DEF LedgerInv, TypeOK
<1>3. row \in AccountRow /\ row.reserved = account[p].reserved
        /\ row.monthly <= account[p].monthly
  <2>1. CASE p \in present
    <3>1. row = [account[p] EXCEPT !.enabled = e, !.capacity = c]
      BY <2>1
    <3> HIDE DEF row
    <3>2. row \in AccountRow /\ row.reserved = account[p].reserved
            /\ row.monthly = account[p].monthly
      BY <1>2, <3>1 DEF AccountRow
    <3>3. account[p].monthly \in Nat
      BY <1>2 DEF AccountRow
    <3>4. QED
      BY <3>2, <3>3
  <2>2. CASE p \notin present
    <3>1. row = FreshAccount(e, c)
      BY <2>2
    <3> HIDE DEF row
    <3>2. row \in AccountRow /\ row.reserved = 0 /\ row.monthly = 0
      BY <3>1 DEF FreshAccount, AccountRow, Status, NoTime
    <3>3. ReservationsOf(p) = {}
      BY <2>2 DEF LedgerInv, ReservedIsSumOfRows
    <3>4. Slots(reservations, {}) = {}
      BY Zenon DEF Slots
    <3>5. account[p].reserved = 0
      <4>1. account[p].reserved = SumBytes(reservations, ReservationsOf(p))
        BY DEF LedgerInv, ReservedIsSumOfRows
      <4>2. QED
        BY <3>3, <3>4, <4>1, FS_EmptySet DEF SumBytes
    <3>6. account[p].monthly \in Nat
      BY <1>2 DEF AccountRow
    <3>7. QED
      BY <3>2, <3>5, <3>6
  <2>3. QED
    BY <2>1, <2>2
<1> HIDE DEF row
<1>4. LedgerInv'
  <2>1. present \subseteq present' /\ present' \subseteq Provider
    BY <1>1 DEF LedgerInv, TypeOK
  <2>2. QED
    BY <1>1, <1>3, <2>1, OneRowLedgerInv
<1>5. account'[p] = row /\ \A q \in Provider \ {p} : account'[q] = account[q]
  BY <1>1 DEF LedgerInv, TypeOK
<1>6. QED
  BY <1>3, <1>4, <1>5

----------------------------------------------------------------------------
(* The theorems.                                                           *)

\* Every transaction and every tick preserves the invariant.
LEMMA NextLedgerInv == LedgerInv /\ [Next]_ledgerVars => LedgerInv'
<1> SUFFICES ASSUME LedgerInv, [Next]_ledgerVars PROVE LedgerInv'
  OBVIOUS
<1> USE SizeAssumption
<1>1. CASE \E id \in ReservationID, p \in Provider, n \in Size :
             ReserveProviderCapacity(id, p, n)
  BY <1>1, ReserveLedgerInv
<1>2. ASSUME NEW id, id \in DOMAIN reservations
      PROVE  \E p \in Provider : id \in ReservationsOf(p)
  BY <1>2 DEF LedgerInv, TypeOK, ReservationRow, ReservationsOf
<1>3. CASE \E id \in ReservationID, n \in Size : CommitProviderReservation(id, n)
  <2>1. PICK id \in ReservationID, n \in Size : CommitProviderReservation(id, n)
    BY <1>3
  <2>2. PICK p \in Provider : id \in ReservationsOf(p)
    BY <1>2, <2>1 DEF CommitProviderReservation
  <2>3. QED
    BY <2>1, <2>2, CommitLedgerInv
<1>4. CASE \E id \in ReservationID : ReleaseProviderReservation(id)
  <2>1. PICK id \in ReservationID : ReleaseProviderReservation(id)
    BY <1>4
  <2>2. PICK p \in Provider : id \in ReservationsOf(p)
    BY <1>2, <2>1 DEF ReleaseProviderReservation
  <2>3. QED
    BY <2>1, <2>2, ReleaseLedgerInv
<1>5. CASE RecoverExpiredProviderReservations
  BY <1>5, RecoverLedgerInv
<1>6. ASSUME NEW p \in Provider, Measure(p) \/ SetAvailability(p) \/ Administer(p)
      PROVE  LedgerInv'
  BY <1>6, MeasureLedgerInv, AvailabilityLedgerInv, UpsertLedgerInv,
     DeleteProviderLedgerInv DEF Administer
<1>7. CASE Tick
  BY <1>7, TickLedgerInv
<1>8. CASE NewMonth
  <2>1. TypeOK'
    BY <1>8 DEF NewMonth, LedgerInv, TypeOK
  <2>2. UNCHANGED <<present, account, reservations>>
    BY <1>8 DEF NewMonth
  <2>3. QED
    BY <2>1, <2>2, SameSumsLedgerInv
<1>9. CASE UNCHANGED ledgerVars
  <2>1. UNCHANGED <<present, account, reservations, month>>
    BY <1>9 DEF ledgerVars
  <2>2. TypeOK'
    BY <2>1 DEF LedgerInv, TypeOK
  <2>3. QED
    BY <2>1, <2>2, SameSumsLedgerInv
<1>10. QED
  BY <1>1, <1>3, <1>4, <1>5, <1>6, <1>7, <1>8, <1>9 DEF Next

\* The inductive invariant holds in every reachable state.
LEMMA LedgerInvariant == Spec => []LedgerInv
<1>1. QED
  BY InitLedgerInv, NextLedgerInv, PTL DEF Spec

\* Every column of the ledger keeps its type, counters included: no clamp and
\* no subtraction of store/quota.go ever leaves a negative counter.
THEOREM TypeCorrect == Spec => []TypeOK
<1>1. LedgerInv => TypeOK
  BY DEF LedgerInv
<1>2. QED
  BY <1>1, LedgerInvariant, PTL

\* reserved_bytes is the sum of the account's reservation rows in every
\* reachable state, for any number of accounts and concurrent uploads.
THEOREM ReservedExact == Spec => []ReservedIsSumOfRows
<1>1. LedgerInv => ReservedIsSumOfRows
  BY DEF LedgerInv
<1>2. QED
  BY <1>1, LedgerInvariant, PTL

\* An account row that lets no byte in: it holds no more than before against
\* the same capacity, or has no capacity any more.
HoldsNoMore(a, b) ==
  b.capacity = 0 \/ (b.capacity = a.capacity /\ b.used + b.reserved <= a.used + a.reserved)
CountsNoMore(a, b) == b.monthly + b.reserved <= a.monthly + a.reserved

\* Every step either reserves on the account, measures it, commits more than
\* was reserved, or lets no byte in.
LEMMA StepLetsNoByteIn ==
  ASSUME LedgerInv, [Next]_ledgerVars, NEW p \in Provider,
         ~ \E id \in ReservationID, n \in Size : ReserveProviderCapacity(id, p, n),
         ~ CommittedAbove(p)
  PROVE  /\ Measured(p) \/ HoldsNoMore(account[p], account'[p])
         /\ CountsNoMore(account[p], account'[p])
<1> USE SizeAssumption
<1>1. LedgerInv'
  BY NextLedgerInv
<1>2. /\ account[p].reserved \in Nat /\ account[p].used \in Nat
      /\ account[p].monthly \in Nat /\ account[p].capacity \in Nat
  BY DEF LedgerInv, TypeOK, AccountRow
<1>3. /\ account'[p].reserved \in Nat /\ account'[p].used \in Nat
      /\ account'[p].monthly \in Nat /\ account'[p].capacity \in Nat
  BY <1>1 DEF LedgerInv, TypeOK, AccountRow
<1>4. CASE account'[p] = account[p]
  BY <1>2, <1>4 DEF HoldsNoMore, CountsNoMore
<1>5. ASSUME account'[p].capacity = account[p].capacity,
             account'[p].reserved <= account[p].reserved,
             account'[p].used <= account[p].used,
             account'[p].monthly <= account[p].monthly
      PROVE  HoldsNoMore(account[p], account'[p]) /\ CountsNoMore(account[p], account'[p])
  BY <1>2, <1>3, <1>5 DEF HoldsNoMore, CountsNoMore
<1>6. ASSUME NEW id \in ReservationID, NEW q \in Provider, NEW n \in Size,
             ReserveProviderCapacity(id, q, n)
      PROVE  account'[p] = account[p]
  BY <1>6 DEF ReserveProviderCapacity, LedgerInv, TypeOK
<1>7. ASSUME NEW id, id \in DOMAIN reservations
      PROVE  \E q \in Provider : id \in ReservationsOf(q)
  BY <1>7 DEF LedgerInv, TypeOK, ReservationRow, ReservationsOf
<1>8. CASE \E id \in ReservationID, n \in Size : CommitProviderReservation(id, n)
  <2>1. PICK id \in ReservationID, n \in Size : CommitProviderReservation(id, n)
    BY <1>8
  <2>2. PICK q \in Provider : id \in ReservationsOf(q)
    BY <1>7, <2>1 DEF CommitProviderReservation
  <2>3. n \in Nat
    OBVIOUS
  <2>4. /\ account'[q].reserved = account[q].reserved - reservations[id].bytes
        /\ reservations[id].bytes <= account[q].reserved
        /\ account'[q].used = account[q].used + n
        /\ account'[q].monthly = account[q].monthly + n
        /\ account'[q].capacity = account[q].capacity
        /\ \A r \in Provider \ {q} : account'[r] = account[r]
    BY <2>1, <2>2, <2>3, CommitLedgerInv
  <2>5. CASE q # p
    BY <1>4, <2>4, <2>5
  <2>6. CASE q = p
    <3>1. reservations[id].bytes \in Nat
      BY <2>2 DEF LedgerInv, TypeOK, ReservationRow, ReservationsOf
    <3>2. n <= reservations[id].bytes
      BY <2>1, <2>2, <2>3, <2>6, <3>1 DEF CommittedAbove
    <3>3. QED
      BY <1>2, <2>3, <2>4, <2>6, <3>1, <3>2 DEF HoldsNoMore, CountsNoMore
  <2>7. QED
    BY <2>5, <2>6
<1>9. CASE \E id \in ReservationID : ReleaseProviderReservation(id)
  <2>1. PICK id \in ReservationID : ReleaseProviderReservation(id)
    BY <1>9
  <2>2. PICK q \in Provider : id \in ReservationsOf(q)
    BY <1>7, <2>1 DEF ReleaseProviderReservation
  <2>3. /\ account'[q].reserved <= account[q].reserved
        /\ account'[q].used = account[q].used
        /\ account'[q].monthly = account[q].monthly
        /\ account'[q].capacity = account[q].capacity
        /\ \A r \in Provider \ {q} : account'[r] = account[r]
    BY <2>1, <2>2, ReleaseLedgerInv
  <2>4. QED
    BY <1>2, <1>4, <1>5, <2>3
<1>10. CASE RecoverExpiredProviderReservations
  BY <1>2, <1>5, <1>10, RecoverLedgerInv
<1>11. ASSUME NEW q \in Provider, Measure(q) \/ SetAvailability(q) \/ Administer(q)
       PROVE  /\ Measured(p) \/ HoldsNoMore(account[p], account'[p])
              /\ CountsNoMore(account[p], account'[p])
  <2>1. CASE Measure(q)
    <3>1. /\ account'[q].reserved = account[q].reserved
          /\ account'[q].monthly = account[q].monthly
          /\ account'[q].capacity = account[q].capacity
          /\ \A r \in Provider \ {q} : account'[r] = account[r]
          /\ account'[q].used <= account[q].used \/ Measured(q)
      BY <2>1, MeasureLedgerInv
    <3>2. CASE q = p
      BY <1>2, <1>3, <3>1, <3>2 DEF HoldsNoMore, CountsNoMore
    <3>3. CASE q # p
      BY <1>4, <3>1, <3>3
    <3>4. QED
      BY <3>2, <3>3
  <2>2. CASE SetAvailability(q)
    BY <1>2, <1>5, <2>2, AvailabilityLedgerInv
  <2>3. CASE \E e \in BOOLEAN, c \in Capacity : UpsertProvider(q, e, c)
    <3>1. PICK e \in BOOLEAN, c \in Capacity : UpsertProvider(q, e, c)
      BY <2>3
    <3>2. /\ account'[q].reserved = account[q].reserved
          /\ account'[q].monthly <= account[q].monthly
          /\ \A r \in Provider \ {q} : account'[r] = account[r]
      BY <3>1, UpsertLedgerInv
    <3>3. CASE q = p
      <4>1. Measured(p)
        BY <3>1, <3>3 DEF Measured
      <4>2. QED
        BY <1>2, <1>3, <3>2, <3>3, <4>1 DEF CountsNoMore
    <3>4. CASE q # p
      BY <1>4, <3>2, <3>4
    <3>5. QED
      BY <3>3, <3>4
  <2>4. CASE DeleteProvider(q)
    <3>1. /\ account'[q].capacity = 0
          /\ account'[q].reserved = 0 /\ account'[q].monthly = 0
          /\ \A r \in Provider \ {q} : account'[r] = account[r]
      BY <2>4, DeleteProviderLedgerInv
    <3>2. CASE q = p
      BY <1>2, <3>1, <3>2 DEF HoldsNoMore, CountsNoMore
    <3>3. CASE q # p
      BY <1>4, <3>1, <3>3
    <3>4. QED
      BY <3>2, <3>3
  <2>5. QED
    BY <1>11, <2>1, <2>2, <2>3, <2>4 DEF Administer
<1>12. CASE Tick
  BY <1>2, <1>5, <1>12, TickLedgerInv
<1>13. CASE NewMonth \/ UNCHANGED ledgerVars
  BY <1>4, <1>13 DEF NewMonth, ledgerVars
<1>14. QED
  BY <1>4, <1>6, <1>8, <1>9, <1>10, <1>11, <1>12, <1>13 DEF Next

\* A reservation is admitted below the capacity and below the allowance.
LEMMA ReserveStaysBelow ==
  ASSUME LedgerInv, NEW id \in ReservationID, NEW p \in Provider, NEW n \in Size,
         ReserveProviderCapacity(id, p, n)
  PROVE  ~ Overcommitted(account'[p]) /\ ~ OverAllowance(p)'
<1> DEFINE a == RolledOver(account[p], month)
           row == [a EXCEPT !.reserved = a.reserved + n]
<1>1. account' = [account EXCEPT ![p] = row]
  BY DEF ReserveProviderCapacity
<1>2. /\ account[p] \in AccountRow /\ a \in AccountRow
      /\ a.reserved = account[p].reserved /\ a.used = account[p].used
      /\ a.capacity = account[p].capacity
  BY RolledOverType DEF LedgerInv, TypeOK
<1>3. /\ a.capacity = 0
           \/ a.used + a.reserved + n <= Ceiling(a.capacity, Margin[p])
      /\ MonthlyLimit[p] = 0
           \/ a.monthly + a.reserved + n <= MonthlyLimit[p]
  BY <1>2 DEF ReserveProviderCapacity, CanReserve
<1>4. n \in Nat /\ Margin[p] \in Nat /\ MonthlyLimit[p] \in Nat
  BY SizeAssumption, SettingsAssumption
<1> HIDE DEF a
<1>5. /\ row.used = a.used /\ row.reserved = a.reserved + n
      /\ row.monthly = a.monthly /\ row.capacity = a.capacity
      /\ a.used \in Nat /\ a.reserved \in Nat /\ a.monthly \in Nat /\ a.capacity \in Nat
  BY <1>2, <1>4 DEF AccountRow
<1>6. account'[p] = row
  BY <1>1 DEF LedgerInv, TypeOK
<1> HIDE DEF row
<1>7. ~ Overcommitted(account'[p])
  BY <1>3, <1>4, <1>5, <1>6 DEF Overcommitted, Ceiling, ClampedMinus
<1>8. ~ OverAllowance(p)'
  BY <1>3, <1>4, <1>5, <1>6 DEF OverAllowance
<1>9. QED
  BY <1>7, <1>8

\* Configured capacity is a hard limit of the ledger: no interleaving of
\* reserve, commit, release, recovery and expiry takes an account over it.
THEOREM HardCapacity == Spec => CapacityIsHard
<1>1. ASSUME LedgerInv, [Next]_ledgerVars, NEW p \in Provider,
             ~ Overcommitted(account[p]), Overcommitted(account'[p])
      PROVE  Measured(p) \/ CommittedAbove(p)
  <2>1. CASE \E id \in ReservationID, n \in Size : ReserveProviderCapacity(id, p, n)
    BY <1>1, <2>1, ReserveStaysBelow
  <2>2. CASE CommittedAbove(p)
    BY <2>2
  <2>3. CASE /\ ~ CommittedAbove(p)
             /\ ~ \E id \in ReservationID, n \in Size : ReserveProviderCapacity(id, p, n)
    <3>1. Measured(p) \/ HoldsNoMore(account[p], account'[p])
      BY <1>1, <2>3, StepLetsNoByteIn
    <3>2. LedgerInv'
      BY <1>1, NextLedgerInv
    <3>3. /\ account[p].used \in Nat /\ account[p].reserved \in Nat
          /\ account[p].capacity \in Nat
          /\ account'[p].used \in Nat /\ account'[p].reserved \in Nat
          /\ account'[p].capacity \in Nat
      BY <1>1, <3>2 DEF LedgerInv, TypeOK, AccountRow
    <3>4. ~ HoldsNoMore(account[p], account'[p])
      BY <1>1, <3>3 DEF HoldsNoMore, Overcommitted
    <3>5. QED
      BY <3>1, <3>4
  <2>4. QED
    BY <2>1, <2>2, <2>3
<1>2. LedgerInv /\ [Next]_ledgerVars =>
        [\A p \in Provider :
           ~Overcommitted(account[p]) /\ Overcommitted(account'[p])
             => Measured(p) \/ CommittedAbove(p)]_ledgerVars
  BY <1>1
<1>3. QED
  BY <1>2, LedgerInvariant, PTL DEF Spec, CapacityIsHard

\* The monthly allowance is a hard limit of the ledger, across month ends.
THEOREM HardMonthlyAllowance == Spec => MonthlyAllowanceIsHard
<1>1. ASSUME LedgerInv, [Next]_ledgerVars, NEW p \in Provider,
             ~ OverAllowance(p), OverAllowance(p)'
      PROVE  CommittedAbove(p)
  <2>1. CASE \E id \in ReservationID, n \in Size : ReserveProviderCapacity(id, p, n)
    BY <1>1, <2>1, ReserveStaysBelow
  <2>2. CASE /\ ~ CommittedAbove(p)
             /\ ~ \E id \in ReservationID, n \in Size : ReserveProviderCapacity(id, p, n)
    <3>1. CountsNoMore(account[p], account'[p])
      BY <1>1, <2>2, StepLetsNoByteIn
    <3>2. LedgerInv'
      BY <1>1, NextLedgerInv
    <3>3. /\ account[p].monthly \in Nat /\ account[p].reserved \in Nat
          /\ account'[p].monthly \in Nat /\ account'[p].reserved \in Nat
          /\ MonthlyLimit[p] \in Nat
      BY <1>1, <3>2, SettingsAssumption DEF LedgerInv, TypeOK, AccountRow
    <3>4. QED
      BY <1>1, <3>1, <3>3 DEF CountsNoMore, OverAllowance
  <2>3. QED
    BY <2>1, <2>2
<1>2. LedgerInv /\ [Next]_ledgerVars =>
        [\A p \in Provider :
           ~OverAllowance(p) /\ OverAllowance(p)' => CommittedAbove(p)]_ledgerVars
  BY <1>1
<1>3. QED
  BY <1>2, LedgerInvariant, PTL DEF Spec, MonthlyAllowanceIsHard

----------------------------------------------------------------------------
(* The router's Go conditions against the ledger's SQL guard, for every    *)
(* account row and every setting.                                          *)

\* The settings of an account are natural numbers, and the margin the upload
\* passes to the ledger is the larger of the two margins.
LEMMA Settings ==
  ASSUME NEW p \in Provider
  PROVE  /\ QuotaMargin[p] \in Nat /\ MinFree[p] \in Nat /\ Margin[p] \in Nat
         /\ MaxObjectSize[p] \in Nat /\ MonthlyLimit[p] \in Nat /\ Unlimited \in Nat
         /\ MinFree[p] <= Margin[p] /\ QuotaMargin[p] <= Margin[p]
         /\ Margin[p] \in {MinFree[p], QuotaMargin[p]}
<1>1. /\ QuotaMargin[p] \in Nat /\ MinFree[p] \in Nat /\ MaxObjectSize[p] \in Nat
  BY PolicyAssumption
<1>2. Margin[p] = IF MinFree[p] > QuotaMargin[p] THEN MinFree[p] ELSE QuotaMargin[p]
  BY PolicyAssumption
<1>3. MonthlyLimit[p] \in Nat /\ Unlimited \in Nat
  BY SettingsAssumption, UnlimitedAssumption
<1>4. QED
  BY <1>1, <1>2, <1>3

\* The Go test of the availability columns is the SQL test.
LEMMA SameAvailability ==
  ASSUME NEW a \in AccountRow
  PROVE  Available(a) <=> ~ ProviderUnavailable(a)
<1>1. a.until \in Nat \cup {NoTime} /\ NoTime = -1
  BY DEF AccountRow, NoTime
<1>2. a.until = 0 <=> a.until # NoTime /\ a.until <= 0
  BY <1>1
<1>3. QED
  BY <1>2 DEF Available, ProviderUnavailable, Retryable

\* The counter the router reads is the one the rollover leaves.
LEMMA SameMonth ==
  ASSUME NEW a \in AccountRow
  PROVE  MonthlyUsed(a) = RolledOver(a, month).monthly
BY DEF MonthlyUsed, RolledOver, AccountRow

\* The free space of an account, limit by limit.
LEMMA RemainingBound ==
  ASSUME NEW a \in AccountRow
  PROVE  /\ Remaining(a) \in Int
         /\ a.capacity > 0 => Remaining(a) <= a.capacity - a.used - a.reserved
         /\ a.remoteCapacity > 0
              => Remaining(a) <= a.remoteCapacity - a.remoteUsed - a.reserved
         /\ \/ a.capacity > 0 /\ Remaining(a) = a.capacity - a.used - a.reserved
            \/ /\ a.remoteCapacity > 0
               /\ Remaining(a) = a.remoteCapacity - a.remoteUsed - a.reserved
            \/ Remaining(a) = Unlimited
<1>1. /\ a.capacity \in Nat /\ a.used \in Nat /\ a.reserved \in Nat
      /\ a.remoteCapacity \in Nat /\ a.remoteUsed \in Nat
  BY DEF AccountRow
<1>2. Unlimited \in Nat
  BY UnlimitedAssumption
<1>3. QED
  BY <1>1, <1>2 DEF Remaining, Least

\* Where the safety margin does not exceed min_free_bytes, every account the
\* router offers is one the ledger admits.
THEOREM RouterSound == Spec => []RouterIsSound
<1>1. ASSUME TypeOK, NEW n \in Size, NEW p \in Candidates(n, {}),
             QuotaMargin[p] <= MinFree[p]
      PROVE  CanReserve(account[p], n, Margin[p], MonthlyLimit[p], month)
  <2> DEFINE a == account[p]
  <2>1. p \in Provider /\ n \in Nat /\ a \in AccountRow
    BY <1>1, SizeAssumption DEF TypeOK, Candidates
  <2>2. /\ a.enabled /\ ~ ProviderUnavailable(a) /\ n <= Remaining(a)
        /\ ~ ViolatesProviderPolicy(p, a, n)
    BY <1>1 DEF Candidates
  <2>3. /\ MinFree[p] \in Nat /\ MonthlyLimit[p] \in Nat /\ Margin[p] = MinFree[p]
    BY <1>1, <2>1, Settings
  <2> HIDE DEF a
  <2>4. /\ a.capacity \in Nat /\ a.used \in Nat /\ a.reserved \in Nat
        /\ a.remoteCapacity \in Nat /\ a.remoteUsed \in Nat /\ a.monthly \in Nat
    BY <2>1 DEF AccountRow
  <2>5. Remaining(a) \in Int /\ n + MinFree[p] <= Remaining(a)
    <3>1. Remaining(a) \in Int
      BY <2>1, RemainingBound
    <3>2. QED
      BY <2>1, <2>2, <2>3, <3>1 DEF ViolatesProviderPolicy
  <2>6. a.capacity = 0 \/ a.used + a.reserved + n <= Ceiling(a.capacity, Margin[p])
    <3>1. a.capacity > 0 => Remaining(a) <= a.capacity - a.used - a.reserved
      BY <2>1, RemainingBound
    <3>2. QED
      BY <2>1, <2>3, <2>4, <2>5, <3>1 DEF Ceiling, ClampedMinus
  <2>7. a.remoteCapacity = 0
          \/ a.remoteUsed + a.reserved + n <= Ceiling(a.remoteCapacity, Margin[p])
    <3>1. a.remoteCapacity > 0
            => Remaining(a) <= a.remoteCapacity - a.remoteUsed - a.reserved
      BY <2>1, RemainingBound
    <3>2. QED
      BY <2>1, <2>3, <2>4, <2>5, <3>1 DEF Ceiling, ClampedMinus
  <2>8. MonthlyLimit[p] = 0
          \/ RolledOver(a, month).monthly + a.reserved + n <= MonthlyLimit[p]
    <3>1. MonthlyUsed(a) \in Nat /\ MonthlyUsed(a) = RolledOver(a, month).monthly
      BY <2>1, <2>4, SameMonth DEF MonthlyUsed
    <3>2. QED
      BY <2>1, <2>2, <2>3, <2>4, <3>1 DEF ViolatesProviderPolicy
  <2>9. Available(a)
    BY <2>1, <2>2, SameAvailability
  <2>10. CanReserve(a, n, Margin[p], MonthlyLimit[p], month)
    BY <2>2, <2>6, <2>7, <2>8, <2>9, Zenon DEF CanReserve
  <2>11. QED
    BY <2>10 DEF a
<1>2. TypeOK => RouterIsSound
  BY <1>1 DEF RouterIsSound
<1>3. QED
  BY <1>2, TypeCorrect, PTL

\* An account the ledger admits a non-empty object on is never hidden by the
\* router, whatever the margins, except by its own object size policy.
THEOREM RouterComplete == Spec => []RouterIsComplete
<1>1. ASSUME TypeOK, NEW n \in Size \ {0}, NEW p \in present,
             CanReserve(account[p], n, Margin[p], MonthlyLimit[p], month),
             MaxObjectSize[p] = 0 \/ n <= MaxObjectSize[p]
      PROVE  p \in Candidates(n, {})
  <2> DEFINE a == account[p]
  <2>1. p \in Provider /\ n \in Nat /\ n > 0 /\ a \in AccountRow
    BY <1>1, SizeAssumption DEF TypeOK
  <2>2. CanReserve(a, n, Margin[p], MonthlyLimit[p], month)
    BY <1>1
  <2>3. /\ MinFree[p] \in Nat /\ Margin[p] \in Nat /\ MonthlyLimit[p] \in Nat
        /\ MaxObjectSize[p] \in Nat /\ Unlimited \in Nat /\ MinFree[p] <= Margin[p]
    BY <2>1, Settings
  <2> HIDE DEF a
  <2>4. /\ a.capacity \in Nat /\ a.used \in Nat /\ a.reserved \in Nat
        /\ a.remoteCapacity \in Nat /\ a.remoteUsed \in Nat /\ a.monthly \in Nat
    BY <2>1 DEF AccountRow
  <2>5. n + MinFree[p] <= Unlimited
    BY <1>1, <2>1, UnlimitedAssumption
  <2>6. a.capacity > 0 => n + MinFree[p] <= a.capacity - a.used - a.reserved
    BY <2>1, <2>2, <2>3, <2>4 DEF CanReserve, Ceiling, ClampedMinus
  <2>7. a.remoteCapacity > 0
          => n + MinFree[p] <= a.remoteCapacity - a.remoteUsed - a.reserved
    BY <2>1, <2>2, <2>3, <2>4 DEF CanReserve, Ceiling, ClampedMinus
  <2>8. Remaining(a) \in Int /\ n + MinFree[p] <= Remaining(a)
    BY <2>1, <2>3, <2>4, <2>5, <2>6, <2>7 DEF Remaining, Least
  <2>9. ~ ViolatesProviderPolicy(p, a, n)
    <3>1. MonthlyUsed(a) \in Nat /\ MonthlyUsed(a) = RolledOver(a, month).monthly
      BY <2>1, <2>4, SameMonth DEF MonthlyUsed
    <3>2. ~ (MonthlyLimit[p] > 0 /\ MonthlyUsed(a) + a.reserved + n > MonthlyLimit[p])
      BY <2>1, <2>2, <2>3, <2>4, <3>1 DEF CanReserve
    <3>3. ~ (MinFree[p] > 0 /\ Remaining(a) - n < MinFree[p])
      BY <2>1, <2>3, <2>8
    <3>4. ~ (MaxObjectSize[p] > 0 /\ n > MaxObjectSize[p])
      BY <1>1, <2>1, <2>3
    <3>5. QED
      BY <3>2, <3>3, <3>4 DEF ViolatesProviderPolicy
  <2>10. a.enabled /\ ~ ProviderUnavailable(a)
    BY <2>1, <2>2, SameAvailability DEF CanReserve
  <2>11. n <= Remaining(a)
    BY <2>1, <2>3, <2>8
  <2>12. QED
    BY <1>1, <2>9, <2>10, <2>11 DEF Candidates, a
<1>2. TypeOK => RouterIsComplete
  BY <1>1 DEF RouterIsComplete
<1>3. QED
  BY <1>2, TypeCorrect, PTL

\* Whatever the ledger admits is inside the available bytes the report shows.
THEOREM ReportCovers == Spec => []ReportCoversAdmission
<1>1. ASSUME TypeOK, NEW n \in Size, NEW p \in present,
             CanReserve(account[p], n, Margin[p], MonthlyLimit[p], month)
      PROVE  AvailableBytes(account[p]) = -1 \/ n <= AvailableBytes(account[p])
  <2> DEFINE a == account[p]
  <2>1. p \in Provider /\ n \in Nat /\ a \in AccountRow
    BY <1>1, SizeAssumption DEF TypeOK
  <2>2. CanReserve(a, n, Margin[p], MonthlyLimit[p], month)
    BY <1>1
  <2>3. Margin[p] \in Nat /\ Unlimited \in Nat
    BY <2>1, Settings
  <2> HIDE DEF a
  <2>4. /\ a.capacity \in Nat /\ a.used \in Nat /\ a.reserved \in Nat
        /\ a.remoteCapacity \in Nat /\ a.remoteUsed \in Nat
    BY <2>1 DEF AccountRow
  <2>5. a.capacity > 0 => n <= a.capacity - a.used - a.reserved
    BY <2>1, <2>2, <2>3, <2>4 DEF CanReserve, Ceiling, ClampedMinus
  <2>6. a.remoteCapacity > 0 => n <= a.remoteCapacity - a.remoteUsed - a.reserved
    BY <2>1, <2>2, <2>3, <2>4 DEF CanReserve, Ceiling, ClampedMinus
  <2>7. AvailableBytes(a) = -1 \/ n <= AvailableBytes(a)
    BY <2>1, <2>3, <2>4, <2>5, <2>6 DEF AvailableBytes, Remaining, Least
  <2>8. QED
    BY <2>7 DEF a
<1>2. TypeOK => ReportCoversAdmission
  BY <1>1 DEF ReportCoversAdmission
<1>3. QED
  BY <1>2, TypeCorrect, PTL

----------------------------------------------------------------------------
(* The simulator asks less of a row than the router: it takes any reason   *)
(* whose instant has passed.  The two agree because only a retryable       *)
(* reason is ever written with an instant.                                 *)

\* The reason and the instant of an account row fit together.
TimedReason(a) == a.status \notin Retryable => a.until = NoTime

\* Every account row of the ledger is one that TimedReason accepts.
ReasonInv == \A p \in Provider : TimedReason(account[p])

\* A transaction on one account keeps the invariant if the row it leaves does.
LEMMA OneRowReason ==
  ASSUME TypeOK, ReasonInv, NEW p \in Provider, NEW r,
         account' = [account EXCEPT ![p] = r], TimedReason(r)
  PROVE  ReasonInv'
<1>1. \A q \in Provider : account'[q] = IF q = p THEN r ELSE account[q]
  BY DEF TypeOK
<1>2. QED
  BY <1>1 DEF ReasonInv, TimedReason

\* A row whose reason and instant are those of an accepted row is accepted.
LEMMA SameReason ==
  ASSUME NEW a, NEW r, TimedReason(a), r.status = a.status, r.until = a.until
  PROVE  TimedReason(r)
BY DEF TimedReason

\* No transaction and no tick writes an instant under a reason without one.
LEMMA NextReasonInv == TypeOK /\ ReasonInv /\ [Next]_ledgerVars => ReasonInv'
<1> SUFFICES ASSUME TypeOK, ReasonInv, [Next]_ledgerVars PROVE ReasonInv'
  OBVIOUS
<1>0. \A p \in Provider : account[p] \in AccountRow /\ TimedReason(account[p])
  BY DEF TypeOK, ReasonInv
<1>1. ASSUME NEW id \in ReservationID, NEW p \in Provider, NEW n \in Size,
             ReserveProviderCapacity(id, p, n)
      PROVE  ReasonInv'
  <2> DEFINE a == RolledOver(account[p], month)
             r == [a EXCEPT !.reserved = a.reserved + n]
  <2>1. account' = [account EXCEPT ![p] = r]
    BY <1>1 DEF ReserveProviderCapacity
  <2>2. a \in AccountRow /\ a.status = account[p].status /\ a.until = account[p].until
    BY <1>0, month \in Nat DEF RolledOver, AccountRow, TypeOK
  <2> HIDE DEF a
  <2>3. r.status = a.status /\ r.until = a.until
    BY <2>2 DEF AccountRow
  <2> HIDE DEF r
  <2>4. TimedReason(r)
    BY <1>0, <2>2, <2>3, SameReason
  <2>5. QED
    BY <2>1, <2>4, OneRowReason
<1>2. ASSUME NEW id, id \in DOMAIN reservations
      PROVE  reservations[id].provider \in Provider
  BY <1>2 DEF TypeOK, ReservationRow
<1>3. ASSUME NEW id \in ReservationID, NEW n \in Size, CommitProviderReservation(id, n)
      PROVE  ReasonInv'
  <2> DEFINE q == reservations[id].provider
             a == account[q]
             r == [a EXCEPT !.reserved = ClampedMinus(a.reserved, reservations[id].bytes),
                            !.used = a.used + n, !.monthly = a.monthly + n,
                            !.status = "", !.until = NoTime]
  <2>1. q \in Provider /\ account' = [account EXCEPT ![q] = r]
    BY <1>2, <1>3 DEF CommitProviderReservation
  <2>2. a \in AccountRow
    BY <1>0, <2>1
  <2> HIDE DEF a, q
  <2>3. r.until = NoTime
    BY <2>2 DEF AccountRow
  <2> HIDE DEF r
  <2>4. QED
    BY <2>1, <2>3, OneRowReason DEF TimedReason
<1>4. ASSUME NEW id \in ReservationID, ReleaseProviderReservation(id) PROVE ReasonInv'
  <2> DEFINE q == reservations[id].provider
             a == account[q]
             r == [a EXCEPT !.reserved = ClampedMinus(a.reserved, reservations[id].bytes)]
  <2>1. q \in Provider /\ account' = [account EXCEPT ![q] = r]
    BY <1>2, <1>4 DEF ReleaseProviderReservation
  <2>2. a \in AccountRow /\ TimedReason(a)
    BY <1>0, <2>1
  <2> HIDE DEF a, q
  <2>3. r.status = a.status /\ r.until = a.until
    BY <2>2 DEF AccountRow
  <2> HIDE DEF r
  <2>4. QED
    BY <2>1, <2>2, <2>3, OneRowReason, SameReason
<1>5. CASE RecoverExpiredProviderReservations
  <2>1. ASSUME NEW p \in Provider
        PROVE  account'[p].status = account[p].status /\ account'[p].until = account[p].until
    BY <1>0, <1>5, <2>1 DEF RecoverExpiredProviderReservations, AccountRow
  <2>2. QED
    BY <1>0, <2>1, SameReason DEF ReasonInv
<1>6. ASSUME NEW p \in Provider, Measure(p) PROVE ReasonInv'
  <2>1. PICK r : account' = [account EXCEPT ![p] = r] /\ TimedReason(r)
    <3> DEFINE a == account[p]
    <3>1. a \in AccountRow /\ TimedReason(a)
      BY <1>0
    <3>2. ASSUME NEW d, AddProviderUsage(p, d)
          PROVE  \E r : account' = [account EXCEPT ![p] = r] /\ TimedReason(r)
      <4> DEFINE n == a.used + d
                 r == [a EXCEPT !.used = IF n < 0 THEN 0 ELSE n]
      <4>1. account' = [account EXCEPT ![p] = r]
        BY <3>2 DEF AddProviderUsage
      <4> HIDE DEF a
      <4>2. r.status = a.status /\ r.until = a.until
        BY <3>1 DEF AccountRow
      <4> HIDE DEF r
      <4>3. QED
        BY <3>1, <4>1, <4>2, SameReason
    <3>3. ASSUME NEW n, SetProviderUsage(p, n)
          PROVE  \E r : account' = [account EXCEPT ![p] = r] /\ TimedReason(r)
      <4> DEFINE r == [a EXCEPT !.used = n,
                                !.status = IF a.status = "quota" THEN "" ELSE a.status]
      <4>1. account' = [account EXCEPT ![p] = r]
        BY <3>3 DEF SetProviderUsage
      <4> HIDE DEF a
      <4>2. r.until = a.until /\ (r.status = a.status \/ a.status = "quota")
        BY <3>1 DEF AccountRow
      <4> HIDE DEF r
      <4>3. TimedReason(r)
        BY <3>1, <4>2 DEF TimedReason, Retryable
      <4>4. QED
        BY <4>1, <4>3
    <3>4. ASSUME NEW c, NEW n, SetProviderRemoteQuota(p, c, n)
          PROVE  \E r : account' = [account EXCEPT ![p] = r] /\ TimedReason(r)
      <4> DEFINE r == [a EXCEPT !.remoteCapacity = c, !.remoteUsed = n]
      <4>1. account' = [account EXCEPT ![p] = r]
        BY <3>4 DEF SetProviderRemoteQuota
      <4> HIDE DEF a
      <4>2. r.status = a.status /\ r.until = a.until
        BY <3>1 DEF AccountRow
      <4> HIDE DEF r
      <4>3. QED
        BY <3>1, <4>1, <4>2, SameReason
    <3>5. QED
      BY <1>6, <3>2, <3>3, <3>4 DEF Measure
  <2>2. QED
    BY <2>1, OneRowReason
<1>7. ASSUME NEW p \in Provider, SetAvailability(p) PROVE ReasonInv'
  <2>1. PICK s, t : /\ account' = [account EXCEPT ![p] =
                                     [account[p] EXCEPT !.status = s, !.until = t]]
                    /\ s \in Retryable \/ t = NoTime
    BY <1>7 DEF SetAvailability, MarkProviderUnavailable, ClearProviderUnavailable
  <2> DEFINE a == account[p]
             r == [a EXCEPT !.status = s, !.until = t]
  <2>2. a \in AccountRow /\ account' = [account EXCEPT ![p] = r]
    BY <1>0, <2>1
  <2> HIDE DEF a
  <2>3. r.status = s /\ r.until = t
    BY <2>2 DEF AccountRow
  <2> HIDE DEF r
  <2>4. QED
    BY <2>1, <2>2, <2>3, OneRowReason DEF TimedReason
<1>8. ASSUME NEW p \in Provider, Administer(p) PROVE ReasonInv'
  <2>1. \A e, c : TimedReason(FreshAccount(e, c))
    BY DEF TimedReason, FreshAccount
  <2>2. ASSUME NEW e, NEW c, UpsertProvider(p, e, c) PROVE ReasonInv'
    <3> DEFINE a == account[p]
               r == [a EXCEPT !.enabled = e, !.capacity = c]
    <3>1. a \in AccountRow /\ TimedReason(a)
      BY <1>0
    <3>2. \/ account' = [account EXCEPT ![p] = r]
          \/ account' = [account EXCEPT ![p] = FreshAccount(e, c)]
      BY <2>2 DEF UpsertProvider
    <3> HIDE DEF a
    <3>3. r.status = a.status /\ r.until = a.until
      BY <3>1 DEF AccountRow
    <3> HIDE DEF r
    <3>4. QED
      BY <2>1, <3>1, <3>2, <3>3, OneRowReason, SameReason
  <2>3. CASE DeleteProvider(p)
    BY <2>1, <2>3, OneRowReason DEF DeleteProvider
  <2>4. QED
    BY <1>8, <2>2, <2>3 DEF Administer
<1>9. CASE Tick
  <2>1. ASSUME NEW p \in Provider PROVE TimedReason(account'[p])
    <3> DEFINE a == account[p]
               r == [a EXCEPT !.until = CountDown(a.until)]
    <3>1. a \in AccountRow /\ TimedReason(a) /\ account'[p] = r
      BY <1>0, <1>9 DEF Tick
    <3> HIDE DEF a
    <3>2. r.status = a.status /\ r.until = CountDown(a.until)
      BY <3>1 DEF AccountRow
    <3>3. CountDown(NoTime) = NoTime
      BY DEF CountDown, NoTime
    <3> HIDE DEF r
    <3>4. QED
      BY <3>1, <3>2, <3>3 DEF TimedReason
  <2>2. QED
    BY <2>1 DEF ReasonInv
<1>10. CASE NewMonth \/ UNCHANGED ledgerVars
  BY <1>10 DEF NewMonth, ledgerVars, ReasonInv
<1>11. QED
  BY <1>1, <1>3, <1>4, <1>5, <1>6, <1>7, <1>8, <1>9, <1>10 DEF Next

\* The simulator of the admin API and the router offer the same accounts, up to
\* the monthly allowance the simulator does not look at.
THEOREM PlanMatches == Spec => []PlanMatchesRouter
<1>1. Init => ReasonInv
  <2>1. \A e, c : TimedReason(FreshAccount(e, c))
    BY DEF TimedReason, FreshAccount
  <2>2. ASSUME Init, NEW p \in Provider PROVE \E e, c : account[p] = FreshAccount(e, c)
    BY <2>2 DEF Init
  <2>3. QED
    BY <2>1, <2>2, Zenon DEF ReasonInv
<1>2. ASSUME TypeOK, ReasonInv, NEW n \in Size, NEW p \in present
      PROVE  p \in Candidates(n, {})
               <=> /\ p \in PlanCandidates(n)
                   /\ MonthlyLimit[p] = 0
                        \/ MonthlyUsed(account[p]) + account[p].reserved + n
                             <= MonthlyLimit[p]
  <2> DEFINE a == account[p]
  <2>1. p \in Provider /\ n \in Nat /\ a \in AccountRow /\ TimedReason(a)
    BY <1>2, SizeAssumption DEF TypeOK, ReasonInv
  <2>2. MonthlyLimit[p] \in Nat /\ Remaining(a) \in Int
    BY <2>1, Settings, RemainingBound
  <2>3. MonthlyUsed(a) \in Nat /\ a.reserved \in Nat
    BY <2>1 DEF MonthlyUsed, AccountRow
  <2>4. ~ ProviderUnavailable(a) <=> a.status = "" \/ a.until = 0
    <3>1. a.until \in Nat \cup {NoTime} /\ NoTime = -1
      BY <2>1 DEF AccountRow, NoTime
    <3>2. a.until = 0 <=> a.until # NoTime /\ a.until <= 0
      BY <3>1
    <3>3. QED
      BY <2>1, <3>1, <3>2 DEF ProviderUnavailable, TimedReason, Retryable
  <2>5. MonthlyLimit[p] = 0 \/ MonthlyUsed(a) + a.reserved + n <= MonthlyLimit[p]
          <=> ~ (MonthlyLimit[p] > 0 /\ MonthlyUsed(a) + a.reserved + n > MonthlyLimit[p])
    BY <2>1, <2>2, <2>3
  <2>6. n <= Remaining(a) <=> Remaining(a) >= n
    BY <2>1, <2>2
  <2> HIDE DEF a
  <2>7. QED
    BY <1>2, <2>4, <2>5, <2>6, Zenon
    DEF Candidates, PlanCandidates, PlanEligible, ViolatesProviderPolicy, a
<1>3. TypeOK /\ ReasonInv => PlanMatchesRouter
  BY <1>2 DEF PlanMatchesRouter
<1>4. QED
  BY <1>1, <1>3, NextReasonInv, TypeCorrect, PTL DEF Spec
=============================================================================
