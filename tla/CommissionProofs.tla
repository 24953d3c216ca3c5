---------------------------- MODULE CommissionProofs ----------------------------
(***************************************************************************)
(* The arithmetic of the commission for every amount and rate, and the     *)
(* ledger and its statements for any number of owners, orders, dispatchers *)
(* and months.                                                             *)
(***************************************************************************)
EXTENDS CommissionProperties, SumProofs, TLAPS

-----------------------------------------------------------------------------
(* Rounding. *)

\* The half-up rounding of money.go is the formula invariant 2c of
\* tests/load/sql/invariants.sql computes in SQL.
THEOREM RoundingAsAsserted ==
    \A n \in Nat : roundHalfUp(n, 10000) = (n + 5000) \div 10000
    BY SMT DEF roundHalfUp

\* What is rounded from at most an amount of ten-thousandths is at most it.
LEMMA RoundedIsBounded ==
    ASSUME NEW a \in Nat, NEW n \in Nat, n <= a * 10000
    PROVE  roundHalfUp(n, 10000) \in 0 .. a
    BY SMT DEF roundHalfUp

\* A line's commission never exceeds the line (settlement.go refuses an accrual
\* above its base): rounding cannot turn a legal rate into a refused close.
THEOREM CommissionWithinLine ==
    ASSUME NEW amount \in Nat, NEW bps \in Rates
    PROVE  ApplyBasisPoints(amount, bps) \in 0 .. amount
<1> DEFINE n == amount * bps
<1>1. n \in Nat /\ n <= amount * 10000
    BY SMT DEF Rates
<1> HIDE DEF n
<1>2. roundHalfUp(n, 10000) \in 0 .. amount
    BY <1>1, RoundedIsBounded
<1> QED
    BY <1>2 DEF ApplyBasisPoints, n

\* The lines of an order: finitely many, each with an amount and a rate.
Numbers(o) == DOMAIN LinesOf[o]

LEMMA LinesAreFinite ==
    ASSUME NEW o \in OrderIds
    PROVE  IsFiniteSet(Numbers(o))
<1>1. LinesOf[o] \in Seq(Line)
  BY LinesAssumption
<1>2. Numbers(o) = 1 .. Len(LinesOf[o]) /\ Len(LinesOf[o]) \in Nat
  BY <1>1 DEF Numbers
<1> QED
  BY <1>2, FS_Interval

LEMMA LineTypes ==
    ASSUME NEW o \in OrderIds, NEW i \in Numbers(o)
    PROVE  LinesOf[o][i].amount \in Nat /\ LinesOf[o][i].bps \in Rates
<1>1. LinesOf[o] \in Seq(Line)
  BY LinesAssumption
<1>2. LinesOf[o][i] \in Line
  BY <1>1 DEF Numbers
<1> QED
  BY <1>2 DEF Line

LEMMA RatesAreNumbers == Rates \subseteq Nat
BY DEF Rates

Fee(o, i) == ApplyBasisPoints(LinesOf[o][i].amount, LinesOf[o][i].bps)

\* What an order accrues is an amount.
LEMMA AccruedIsNat ==
    ASSUME NEW o \in OrderIds
    PROVE  Accrued(o) \in Nat
<1> DEFINE fees == [i \in Numbers(o) |-> Fee(o, i)]
<1>1. ASSUME NEW i \in Numbers(o) PROVE Fee(o, i) \in Nat
  <2>1. LinesOf[o][i].amount \in Nat /\ LinesOf[o][i].bps \in Rates
    BY LineTypes
  <2>2. Fee(o, i) \in 0 .. LinesOf[o][i].amount
    BY <2>1, CommissionWithinLine DEF Fee
  <2> QED
    BY <2>1, <2>2
<1>2. fees \in [Numbers(o) -> Nat]
  BY <1>1
<1>3. Accrued(o) = SumFunction(fees)
  BY DEF Accrued, Numbers, Fee
<1>4. IsFiniteSet(Numbers(o))
  BY LinesAreFinite
<1> HIDE DEF fees
<1>5. SumFunction(fees) \in Nat
  BY <1>2, <1>4, SumIsNat
<1> QED
  BY <1>3, <1>5

\* Invariant 2c's formula, summed over the lines, is what the code accrues.
LEMMA AccruedAsAsserted ==
    ASSUME NEW o \in OrderIds
    PROVE  Accrued(o) = SumFunction([i \in DOMAIN LinesOf[o] |->
              (LinesOf[o][i].amount * LinesOf[o][i].bps + 5000) \div 10000])
<1>1. ASSUME NEW i \in Numbers(o)
      PROVE  Fee(o, i) =
               (LinesOf[o][i].amount * LinesOf[o][i].bps + 5000) \div 10000
  <2> DEFINE n == LinesOf[o][i].amount * LinesOf[o][i].bps
  <2>1. LinesOf[o][i].amount \in Nat /\ LinesOf[o][i].bps \in Nat
    BY LineTypes, RatesAreNumbers
  <2>2. n \in Nat
    BY <2>1
  <2> HIDE DEF n
  <2>3. roundHalfUp(n, 10000) = (n + 5000) \div 10000
    BY <2>2, RoundingAsAsserted
  <2> QED
    BY <2>3 DEF Fee, ApplyBasisPoints, n
<1>2. [i \in Numbers(o) |-> Fee(o, i)]
      = [i \in Numbers(o) |->
            (LinesOf[o][i].amount * LinesOf[o][i].bps + 5000) \div 10000]
  BY <1>1
<1> QED
  BY <1>2 DEF Accrued, Numbers, Fee

-----------------------------------------------------------------------------
(* Rows of the ledger. *)

\* A row that is attached to its statement stays the same row.
Attached(r) == [r EXCEPT !.billed = TRUE]

LEMMA AttachedRow ==
    ASSUME NEW r \in Row
    PROVE  /\ Attached(r) \in Row
           /\ Attached(r).order = r.order /\ Attached(r).month = r.month
           /\ Attached(r).accrued = r.accrued
           /\ Attached(r).free = r.free /\ Attached(r).late = r.late
           /\ Attached(r).billed = TRUE
BY DEF Attached, Row

\* The row of a close.
LEMMA NewRow ==
    ASSUME TypeOK, NEW o \in OrderIds, Closing(o, "counted")
    PROVE  LET r == CreateCommissionLedgerEntry(o)
           IN  /\ r \in Row
               /\ r.order = o /\ r.month = closing[o].at
               /\ r.accrued = Accrued(o) /\ r.free = closing[o].free
               /\ r.billed = FALSE /\ r.late = (closing[o].at < month)
<1>1. closing[o] \in Counted
  BY DEF TypeOK, Closing, Open, Begun, Counted
<1>2. closing[o].at \in Months /\ closing[o].free \in BOOLEAN
  BY <1>1 DEF Counted
<1> QED
  BY <1>2, AccruedIsNat DEF CreateCommissionLedgerEntry, Row

-----------------------------------------------------------------------------
(* Sums of rows. *)

Accruals(rows) == [r \in rows |-> r.accrued]
Dues(rows) == [r \in rows |-> Payable(r)]

LEMMA SummandTypes ==
    ASSUME NEW rows, rows \subseteq Row
    PROVE  /\ Accruals(rows) \in [rows -> Nat]
           /\ Dues(rows) \in [rows -> Nat]
<1>1. \A r \in rows : r.accrued \in Nat
  BY DEF Row
<1> QED
  BY <1>1 DEF Accruals, Dues, Payable

\* What a finite set of rows adds up to makes a statement.
LEMMA SumsAreStatements ==
    ASSUME NEW rows, rows \subseteq Row, IsFiniteSet(rows),
           NEW w \in Owners, NEW m \in Months
    PROVE  /\ Sums(w, m, rows) \in Statement
           /\ Sums(w, m, rows).owner = w /\ Sums(w, m, rows).month = m
<1>1. SumFunction(Accruals(rows)) \in Nat /\ SumFunction(Dues(rows)) \in Nat
  BY SummandTypes, SumIsNat
<1>2. Sums(w, m, rows) = [owner |-> w, month |-> m,
                          accrued |-> SumFunction(Accruals(rows)),
                          payable |-> SumFunction(Dues(rows))]
  BY DEF Sums, Accruals, Dues
<1> QED
  BY <1>1, <1>2 DEF Statement

\* Attaching rows changes nothing of what they add up to.
LEMMA AttachedSums ==
    ASSUME NEW rows, rows \subseteq Row, IsFiniteSet(rows),
           \A r, q \in rows : r.order = q.order => r = q,
           NEW w, NEW m
    PROVE  Sums(w, m, {Attached(r) : r \in rows}) = Sums(w, m, rows)
<1> DEFINE T == {Attached(r) : r \in rows}
<1> DEFINE f == [r \in rows |-> Attached(r)]
<1>1. T \subseteq Row
  BY AttachedRow
<1>2. /\ f \in [rows -> T]
      /\ \A y \in T : \E r \in rows : f[r] = y
  OBVIOUS
<1>3. \A r, q \in rows : f[r] = f[q] => r = q
  <2> SUFFICES ASSUME NEW r \in rows, NEW q \in rows, f[r] = f[q]
               PROVE  r = q
    OBVIOUS
  <2>1. Attached(r) = Attached(q) /\ r \in Row /\ q \in Row
    OBVIOUS
  <2>2. Attached(r).order = r.order
    <3> HIDE DEF f, T
    <3> QED
      BY <2>1, AttachedRow
  <2>3. Attached(q).order = q.order
    <3> HIDE DEF f, T
    <3> QED
      BY <2>1, AttachedRow
  <2>4. r.order = q.order
    BY <2>1, <2>2, <2>3
  <2> QED
    BY <2>4
<1>4. /\ Accruals(rows) = [r \in rows |-> Accruals(T)[f[r]]]
      /\ Dues(rows) = [r \in rows |-> Dues(T)[f[r]]]
  <2>1. ASSUME NEW r \in rows
        PROVE  Attached(r).accrued = r.accrued /\ Payable(Attached(r)) = Payable(r)
    BY AttachedRow DEF Payable
  <2>2. \A r \in rows : f[r] = Attached(r) /\ Attached(r) \in T
    OBVIOUS
  <2> HIDE DEF f, T
  <2>3. \A r \in rows : /\ Accruals(T)[f[r]] = r.accrued
                        /\ Dues(T)[f[r]] = Payable(r)
    BY <2>1, <2>2 DEF Accruals, Dues
  <2> QED
    BY <2>3 DEF Accruals, Dues
<1> HIDE DEF f, T
<1>5. /\ Accruals(T) \in [T -> Nat]
      /\ Dues(T) \in [T -> Nat]
  BY <1>1, SummandTypes
<1>6. SumFunction(Accruals(T)) = SumFunction(Accruals(rows))
  BY <1>2, <1>3, <1>4, <1>5, SumRenamed
<1>7. SumFunction(Dues(T)) = SumFunction(Dues(rows))
  BY <1>2, <1>3, <1>4, <1>5, SumRenamed
<1>8. Sums(w, m, T) = Sums(w, m, rows)
  BY <1>6, <1>7 DEF Sums, Accruals, Dues
<1> QED
  BY <1>8 DEF T

-----------------------------------------------------------------------------
(* The steps of the ledger. *)

OneRow == \A r, q \in ledger : r.order = q.order => r = q

\* Whatever is not a commit or a settled period leaves ledger and statements.
LedgerKind ==
    \/ UNCHANGED <<ledger, invoices>>
    \/ \E o \in OrderIds : CommitClose(o)
    \/ \E d \in Dispatchers : \E p \in pass[d] : InvoicePeriod(d, p)

LEMMA LedgerKinds ==
    ASSUME [Next]_vars
    PROVE  LedgerKind
BY DEF Next, CloseStep, RollupStep, ConfirmReceived, CountUnderLock, AbortClose,
       ListPeriods, InvoiceFails, DispatcherRestarts, MonthPasses, vars, LedgerKind

\* A settled period: the same rows, some of them attached.
Relabelled(p, r) == IF r \in Unbilled(p.owner, p.month) THEN Attached(r) ELSE r

LEMMA AttachIsRelabelling ==
    ASSUME NEW p
    PROVE  AttachLedgerToInvoice(p) = {Relabelled(p, r) : r \in ledger}
BY DEF AttachLedgerToInvoice, Relabelled, Attached

LEMMA RelabelledRow ==
    ASSUME NEW p, NEW r \in Row
    PROVE  /\ Relabelled(p, r) \in Row
           /\ Relabelled(p, r).order = r.order /\ Relabelled(p, r).month = r.month
           /\ Relabelled(p, r).accrued = r.accrued
           /\ Relabelled(p, r).free = r.free /\ Relabelled(p, r).late = r.late
BY AttachedRow DEF Relabelled

-----------------------------------------------------------------------------
(* The inductive invariant. *)

\* An order that has a row is closed: it closes once.
RowsAreClosed == \A r \in ledger : Closing(r.order, "closed")

RowsAccrue == \A r \in ledger : r.accrued = Accrued(r.order)

\* From its count to its commit a close holds its owner's lock, and what it
\* counted still is the ledger.
CountStands ==
    \A o \in OrderIds : Closing(o, "counted") =>
        /\ lock[OwnerOf[o]] = o
        /\ closing[o].free <=>
              Cardinality(RowsOf(OwnerOf[o])) + 1 <= FoundingFree

ClosesNotAhead ==
    \A o \in OrderIds :
        Closing(o, "begun") \/ Closing(o, "counted") => closing[o].at <= month

\* No row of the period came after its month.
Punctual(w, m) == \A r \in RowsIn(w, m) : ~r.late

\* Only months that are over are listed and settled.
PeriodsAreOver ==
    /\ \A i \in invoices : i.month < month
    /\ \A d \in Dispatchers : \A p \in pass[d] : p.month < month

BilledHasStatement ==
    \A r \in ledger : r.billed =>
        \E i \in invoices : i.owner = OwnerOf[r.order] /\ i.month = r.month

\* A period a pass listed has not changed since, unless it has its statement.
ListedIsCurrent ==
    \A d \in Dispatchers : \A p \in pass[d] :
        Punctual(p.owner, p.month) /\ ~Invoiced(p) =>
            p = Sums(p.owner, p.month, Unbilled(p.owner, p.month))

\* A statement took every row its period has.
StatementIsWhole ==
    \A i \in invoices : Punctual(i.owner, i.month) =>
        /\ i = Sums(i.owner, i.month, Billed(i.owner, i.month))
        /\ Unbilled(i.owner, i.month) = {}

LedgerShape ==
    /\ TypeOK
    /\ IsFiniteSet(ledger)
    /\ OneRow
    /\ RowsAreClosed
    /\ RowsAccrue

LockShape ==
    /\ CountStands
    /\ ClosesNotAhead
    /\ FoundingAllowance

StatementShape ==
    /\ PeriodsAreOver
    /\ BilledHasStatement
    /\ ListedIsCurrent
    /\ StatementIsWhole

CommissionInv == LedgerShape /\ LockShape /\ StatementShape

-----------------------------------------------------------------------------
(* The ledger keeps its shape. *)

LEMMA LedgerGrows ==
    ASSUME LedgerShape, NEW o \in OrderIds, CommitClose(o)
    PROVE  LET r == CreateCommissionLedgerEntry(o)
           IN  /\ r \notin ledger
               /\ \A q \in ledger : q.order # o
               /\ ledger' = ledger \cup {r}
               /\ r \in Row /\ r.order = o
<1> DEFINE r == CreateCommissionLedgerEntry(o)
<1>1. Closing(o, "counted") /\ ledger' = ledger \cup {r}
  BY DEF CommitClose
<1>2. r \in Row /\ r.order = o
  BY <1>1, NewRow DEF LedgerShape
<1>3. ASSUME NEW q \in ledger PROVE q.order # o
  BY <1>1 DEF LedgerShape, RowsAreClosed, Closing
<1> HIDE DEF r
<1>4. r \notin ledger
  BY <1>2, <1>3
<1> QED
  BY <1>1, <1>2, <1>3, <1>4 DEF r

LEMMA LedgerRelabelled ==
    ASSUME LedgerShape, NEW d \in Dispatchers, NEW p \in pass[d], InvoicePeriod(d, p)
    PROVE  /\ ledger' = {Relabelled(p, r) : r \in ledger}
           /\ ledger' \subseteq Row
           /\ IsFiniteSet(ledger')
<1>1. ledger' = {Relabelled(p, r) : r \in ledger}
  BY AttachIsRelabelling DEF InvoicePeriod
<1>2. ledger \subseteq Row
  BY DEF LedgerShape, TypeOK
<1>3. ledger' \subseteq Row
  BY <1>1, <1>2, RelabelledRow
<1> DEFINE f == [r \in ledger |-> Relabelled(p, r)]
<1>4. f \in Surjection(ledger, ledger')
  BY <1>1 DEF Surjection
<1>5. IsFiniteSet(ledger)
  BY DEF LedgerShape
<1> HIDE DEF f
<1>6. IsFiniteSet(ledger')
  BY <1>4, <1>5, FS_Surjection
<1> QED
  BY <1>1, <1>3, <1>6

LEMMA LedgerFinite ==
    ASSUME LedgerShape, [Next]_vars
    PROVE  IsFiniteSet(ledger')
<1>1. IsFiniteSet(ledger)
  BY DEF LedgerShape
<1>2. CASE UNCHANGED <<ledger, invoices>>
  BY <1>1, <1>2
<1>3. CASE \E o \in OrderIds : CommitClose(o)
  <2>1. PICK o \in OrderIds : CommitClose(o)
    BY <1>3
  <2>2. ledger' = ledger \cup {CreateCommissionLedgerEntry(o)}
    BY <2>1 DEF CommitClose
  <2> QED
    BY <1>1, <2>2, FS_AddElement
<1>4. CASE \E d \in Dispatchers : \E p \in pass[d] : InvoicePeriod(d, p)
  BY <1>4, LedgerRelabelled
<1> QED
  BY <1>2, <1>3, <1>4, LedgerKinds DEF LedgerKind

LEMMA PeriodsAreStatements ==
    ASSUME LedgerShape
    PROVE  UnbilledPeriods \subseteq Statement
<1>1. ASSUME NEW w \in Owners, NEW m \in 0 .. month - 1
      PROVE  Sums(w, m, Unbilled(w, m)) \in Statement
  <2>1. m \in Months
    BY LimitsAssumption DEF LedgerShape, TypeOK, Months
  <2>2. Unbilled(w, m) \subseteq ledger
    BY DEF Unbilled, RowsIn, RowsOf
  <2>3. Unbilled(w, m) \subseteq Row /\ IsFiniteSet(Unbilled(w, m))
    BY <2>2, FS_Subset DEF LedgerShape, TypeOK
  <2> QED
    BY <2>1, <2>3, SumsAreStatements
<1> QED
  BY <1>1 DEF UnbilledPeriods

LEMMA TypeStep ==
    ASSUME LedgerShape, [Next]_vars
    PROVE  TypeOK'
<1> USE OwnersAssumption, LimitsAssumption
<1>0. TypeOK
  BY DEF LedgerShape
<1>1. CASE vars' = vars
  BY <1>0, <1>1 DEF TypeOK, vars
<1>2. ASSUME NEW o \in OrderIds, ConfirmReceived(o) PROVE TypeOK'
  <2>1. [stage |-> "begun", at |-> month] \in Begun
    BY <1>0 DEF TypeOK, Begun
  <2> QED
    BY <1>0, <1>2, <2>1 DEF TypeOK, ConfirmReceived
<1>3. ASSUME NEW o \in OrderIds, CountUnderLock(o) PROVE TypeOK'
  <2> DEFINE fits == Cardinality(RowsOf(OwnerOf[o])) + 1 <= FoundingFree
  <2>1. closing[o] \in Begun
    BY <1>0, <1>3 DEF TypeOK, CountUnderLock, Closing, Open, Begun, Counted
  <2>2. [stage |-> "counted", at |-> closing[o].at, free |-> fits] \in Counted
    BY <2>1 DEF Begun, Counted
  <2>3. /\ closing' = [closing EXCEPT ![o] =
              [stage |-> "counted", at |-> closing[o].at, free |-> fits]]
        /\ lock' = [lock EXCEPT ![OwnerOf[o]] = o]
        /\ UNCHANGED <<month, ledger, invoices, pass>>
    BY <1>3 DEF CountUnderLock
  <2> HIDE DEF fits
  <2> QED
    BY <1>0, <2>2, <2>3 DEF TypeOK
<1>4. ASSUME NEW o \in OrderIds, CommitClose(o) PROVE TypeOK'
  <2>1. ledger' \subseteq Row
    BY <1>0, <1>4, LedgerGrows DEF TypeOK
  <2>2. [stage |-> "closed"] \in Open
    BY DEF Open
  <2> QED
    BY <1>0, <1>4, <2>1, <2>2 DEF TypeOK, CommitClose, Unlocked
<1>5. ASSUME NEW o \in OrderIds, AbortClose(o) PROVE TypeOK'
  <2>1. [stage |-> "open"] \in Open
    BY DEF Open
  <2> QED
    BY <1>0, <1>5, <2>1 DEF TypeOK, AbortClose, Unlocked
<1>6. ASSUME NEW d \in Dispatchers, ListPeriods(d) PROVE TypeOK'
  <2>1. PICK page \in SUBSET UnbilledPeriods : pass' = [pass EXCEPT ![d] = page]
    BY <1>6 DEF ListPeriods
  <2>2. page \in SUBSET Statement
    BY PeriodsAreStatements
  <2>3. UNCHANGED <<month, closing, lock, ledger, invoices>>
    BY <1>6 DEF ListPeriods
  <2> QED
    BY <1>0, <2>1, <2>2, <2>3 DEF TypeOK
<1>7. ASSUME NEW d \in Dispatchers, NEW p \in pass[d], InvoicePeriod(d, p)
      PROVE  TypeOK'
  <2>1. ledger' \subseteq Row
    BY <1>7, LedgerRelabelled
  <2>2. p \in Statement
    BY <1>0 DEF TypeOK
  <2>3. invoices' \subseteq Statement
    BY <1>0, <1>7, <2>2 DEF TypeOK, InvoicePeriod, CreateCommissionInvoice
  <2> QED
    BY <1>0, <1>7, <2>1, <2>3 DEF TypeOK, InvoicePeriod
<1>8. ASSUME NEW d \in Dispatchers, NEW p \in pass[d], InvoiceFails(d, p)
      PROVE  TypeOK'
  BY <1>0, <1>8 DEF TypeOK, InvoiceFails
<1>9. ASSUME NEW d \in Dispatchers, DispatcherRestarts(d) PROVE TypeOK'
  BY <1>0, <1>9 DEF TypeOK, DispatcherRestarts
<1>10. ASSUME MonthPasses PROVE TypeOK'
  BY <1>0, <1>10 DEF TypeOK, MonthPasses, Months
<1> QED
  BY <1>1, <1>2, <1>3, <1>4, <1>5, <1>6, <1>7, <1>8, <1>9, <1>10
     DEF Next, CloseStep, RollupStep

LEMMA ClosedStays ==
    ASSUME LedgerShape, [Next]_vars, NEW o \in OrderIds, Closing(o, "closed")
    PROVE  Closing(o, "closed")'
<1>0. closing \in [OrderIds -> Open \cup Begun \cup Counted]
  BY DEF LedgerShape, TypeOK
<1> QED
  BY <1>0 DEF Next, CloseStep, RollupStep, ConfirmReceived, CountUnderLock,
     AbortClose, CommitClose, ListPeriods, InvoicePeriod, InvoiceFails,
     DispatcherRestarts, MonthPasses, vars, Closing

LEMMA LedgerStep ==
    ASSUME LedgerShape, [Next]_vars
    PROVE  LedgerShape'
<1>1. TypeOK' /\ IsFiniteSet(ledger')
  BY TypeStep, LedgerFinite
<1>0. ledger \subseteq Row
  BY DEF LedgerShape, TypeOK
<1>2. OneRow' /\ RowsAreClosed' /\ RowsAccrue'
  <2>1. CASE UNCHANGED <<ledger, invoices>>
    <3>1. \A r \in ledger : Closing(r.order, "closed")'
      BY <1>0, ClosedStays DEF LedgerShape, RowsAreClosed, Row
    <3> QED
      BY <2>1, <3>1 DEF LedgerShape, OneRow, RowsAreClosed, RowsAccrue, Closing
  <2>2. CASE \E o \in OrderIds : CommitClose(o)
    <3>1. PICK o \in OrderIds : CommitClose(o)
      BY <2>2
    <3> DEFINE new == CreateCommissionLedgerEntry(o)
    <3>2. /\ \A q \in ledger : q.order # o
          /\ ledger' = ledger \cup {new}
          /\ new.order = o
      BY <3>1, LedgerGrows
    <3>3. new.accrued = Accrued(o)
      BY DEF CreateCommissionLedgerEntry
    <3>4. Closing(o, "closed")'
      BY <3>1 DEF CommitClose, Closing, LedgerShape, TypeOK
    <3>5. \A r \in ledger : Closing(r.order, "closed")'
      BY <1>0, ClosedStays DEF LedgerShape, RowsAreClosed, Row
    <3> HIDE DEF new
    <3>6. OneRow'
      BY <3>2 DEF LedgerShape, OneRow
    <3>7. RowsAreClosed'
      BY <3>2, <3>4, <3>5 DEF RowsAreClosed, Closing
    <3>8. RowsAccrue'
      BY <3>2, <3>3 DEF LedgerShape, RowsAccrue
    <3> QED
      BY <3>6, <3>7, <3>8
  <2>3. CASE \E d \in Dispatchers : \E p \in pass[d] : InvoicePeriod(d, p)
    <3>0. PICK d \in Dispatchers : \E p \in pass[d] : InvoicePeriod(d, p)
      BY <2>3
    <3>1. PICK p \in pass[d] : InvoicePeriod(d, p)
      BY <3>0
    <3>2. ledger' = {Relabelled(p, r) : r \in ledger}
      BY <3>1, LedgerRelabelled
    <3>3. \A r \in ledger : /\ Relabelled(p, r).order = r.order
                            /\ Relabelled(p, r).accrued = r.accrued
      BY <1>0, RelabelledRow
    <3>4. OneRow'
      BY <3>2, <3>3 DEF LedgerShape, OneRow
    <3>5. \A r \in ledger : Closing(r.order, "closed")'
      BY <1>0, ClosedStays DEF LedgerShape, RowsAreClosed, Row
    <3>6. RowsAreClosed'
      BY <3>2, <3>3, <3>5 DEF RowsAreClosed, Closing
    <3>7. RowsAccrue'
      BY <3>2, <3>3 DEF LedgerShape, RowsAccrue
    <3> QED
      BY <3>4, <3>6, <3>7
  <2> QED
    BY <2>1, <2>2, <2>3, LedgerKinds DEF LedgerKind
<1> QED
  BY <1>1, <1>2 DEF LedgerShape

-----------------------------------------------------------------------------
(* Counting under the lock. *)

FreeRowsOf(w) == {r \in RowsOf(w) : r.free}

LEMMA Smaller ==
    ASSUME NEW a \in Int, NEW b \in Int
    PROVE  Min({a, b}) = IF a <= b THEN a ELSE b
BY DEF Min

LEMMA CountsAreNumbers ==
    ASSUME LedgerShape, NEW w \in Owners
    PROVE  /\ RowsOf(w) \subseteq Row /\ FreeRowsOf(w) \subseteq Row
           /\ IsFiniteSet(RowsOf(w)) /\ IsFiniteSet(FreeRowsOf(w))
           /\ Cardinality(RowsOf(w)) \in Nat
           /\ Cardinality(FreeRowsOf(w)) \in Nat
<1>1. /\ RowsOf(w) \in SUBSET ledger /\ FreeRowsOf(w) \in SUBSET ledger
      /\ ledger \subseteq Row /\ IsFiniteSet(ledger)
  BY DEF RowsOf, FreeRowsOf, LedgerShape, TypeOK
<1> QED
  BY <1>1, FS_Subset, FS_CardinalityType

\* Attaching rows changes nothing of how many they are.
LEMMA SameCount ==
    ASSUME NEW rows, rows \subseteq Row, IsFiniteSet(rows), NEW p,
           \A r, q \in rows : r.order = q.order => r = q
    PROVE  Cardinality({Relabelled(p, r) : r \in rows}) = Cardinality(rows)
<1> DEFINE T == {Relabelled(p, r) : r \in rows}
<1> DEFINE f == [r \in rows |-> Relabelled(p, r)]
<1>1. \A r \in rows : Relabelled(p, r).order = r.order
  BY RelabelledRow
<1>2. f \in [rows -> T] /\ \A y \in T : \E r \in rows : f[r] = y
  OBVIOUS
<1>3. \A r \in rows : f[r] = Relabelled(p, r)
  OBVIOUS
<1> HIDE DEF f, T
<1>4. \A r, q \in rows : f[r] = f[q] => r = q
  BY <1>1, <1>3
<1>5. f \in Bijection(rows, T)
  BY <1>2, <1>4 DEF Bijection, Injection, Surjection, IsInjective
<1>6. ExistsBijection(rows, T)
  BY <1>5 DEF ExistsBijection
<1>7. Cardinality(T) = Cardinality(rows)
  BY <1>6, FS_Bijection
<1> QED
  BY <1>7 DEF T

LEMMA CountsStay ==
    ASSUME LedgerShape, NEW w \in Owners,
           NEW d \in Dispatchers, NEW p \in pass[d], InvoicePeriod(d, p)
    PROVE  /\ Cardinality(RowsOf(w)') = Cardinality(RowsOf(w))
           /\ Cardinality(FreeRowsOf(w)') = Cardinality(FreeRowsOf(w))
<1>1. /\ ledger \subseteq Row
      /\ ledger' = {Relabelled(p, r) : r \in ledger}
  BY LedgerRelabelled DEF LedgerShape, TypeOK
<1>2. \A r \in ledger : /\ Relabelled(p, r).order = r.order
                        /\ Relabelled(p, r).free = r.free
  BY <1>1, RelabelledRow
<1>3. /\ RowsOf(w)' = {Relabelled(p, r) : r \in RowsOf(w)}
      /\ FreeRowsOf(w)' = {Relabelled(p, r) : r \in FreeRowsOf(w)}
  BY <1>1, <1>2 DEF RowsOf, FreeRowsOf
<1>4. /\ \A r, q \in RowsOf(w) : r.order = q.order => r = q
      /\ \A r, q \in FreeRowsOf(w) : r.order = q.order => r = q
  BY DEF LedgerShape, OneRow, RowsOf, FreeRowsOf
<1>5. /\ RowsOf(w) \subseteq Row /\ FreeRowsOf(w) \subseteq Row
      /\ IsFiniteSet(RowsOf(w)) /\ IsFiniteSet(FreeRowsOf(w))
  BY CountsAreNumbers
<1>6. Cardinality(RowsOf(w)') = Cardinality(RowsOf(w))
  BY <1>3, <1>4, <1>5, SameCount
<1>7. Cardinality(FreeRowsOf(w)') = Cardinality(FreeRowsOf(w))
  BY <1>3, <1>4, <1>5, SameCount
<1> QED
  BY <1>6, <1>7

LEMMA CountsGrow ==
    ASSUME LedgerShape, NEW w \in Owners, NEW o \in OrderIds, CommitClose(o)
    PROVE  /\ OwnerOf[o] # w => /\ RowsOf(w)' = RowsOf(w)
                                /\ FreeRowsOf(w)' = FreeRowsOf(w)
           /\ OwnerOf[o] = w =>
                /\ Cardinality(RowsOf(w)') = Cardinality(RowsOf(w)) + 1
                /\ closing[o].free =>
                     Cardinality(FreeRowsOf(w)') = Cardinality(FreeRowsOf(w)) + 1
                /\ ~closing[o].free => FreeRowsOf(w)' = FreeRowsOf(w)
<1> DEFINE new == CreateCommissionLedgerEntry(o)
<1>1. /\ new \notin ledger
      /\ ledger' = ledger \cup {new}
      /\ new.order = o
  BY LedgerGrows
<1>2. new.free = closing[o].free
  BY DEF CreateCommissionLedgerEntry
<1> HIDE DEF new
<1>3. CASE OwnerOf[o] # w
  BY <1>1, <1>3 DEF RowsOf, FreeRowsOf
<1>4. CASE OwnerOf[o] = w
  <2>1. /\ RowsOf(w)' = RowsOf(w) \cup {new}
        /\ new \notin RowsOf(w) /\ new \notin FreeRowsOf(w)
    BY <1>1, <1>4 DEF RowsOf, FreeRowsOf
  <2>2. closing[o].free => FreeRowsOf(w)' = FreeRowsOf(w) \cup {new}
    BY <1>2, <2>1 DEF FreeRowsOf
  <2>3. ~closing[o].free => FreeRowsOf(w)' = FreeRowsOf(w)
    BY <1>2, <2>1 DEF FreeRowsOf
  <2>4. IsFiniteSet(RowsOf(w)) /\ IsFiniteSet(FreeRowsOf(w))
    BY CountsAreNumbers
  <2>5. Cardinality(RowsOf(w)') = Cardinality(RowsOf(w)) + 1
    BY <2>1, <2>4, FS_AddElement
  <2>6. closing[o].free =>
          Cardinality(FreeRowsOf(w)') = Cardinality(FreeRowsOf(w)) + 1
    BY <2>1, <2>2, <2>4, FS_AddElement
  <2> QED
    BY <1>4, <2>3, <2>5, <2>6
<1> QED
  BY <1>3, <1>4

Allowed(w) ==
    Cardinality(FreeRowsOf(w)) = Min({Cardinality(RowsOf(w)), FoundingFree})

LEMMA AllowanceIsAllowed == FoundingAllowance <=> \A w \in Owners : Allowed(w)
BY DEF FoundingAllowance, Allowed, FreeRowsOf

LEMMA AllowanceStep ==
    ASSUME LedgerShape, LedgerShape', LockShape, [Next]_vars
    PROVE  FoundingAllowance'
<1> SUFFICES ASSUME NEW w \in Owners PROVE Allowed(w)'
  BY DEF FoundingAllowance, Allowed, FreeRowsOf
<1>1. Allowed(w)
  BY AllowanceIsAllowed DEF LockShape
<1>2. CASE UNCHANGED <<ledger, invoices>>
  BY <1>1, <1>2 DEF Allowed, RowsOf, FreeRowsOf
<1>3. CASE \E o \in OrderIds : CommitClose(o)
  <2>1. PICK o \in OrderIds : CommitClose(o)
    BY <1>3
  <2>2. CASE OwnerOf[o] # w
    BY <1>1, <2>1, <2>2, CountsGrow DEF Allowed
  <2>3. CASE OwnerOf[o] = w
    <3> DEFINE n == Cardinality(RowsOf(w))
    <3> DEFINE k == Cardinality(FreeRowsOf(w))
    <3> DEFINE nn == Cardinality(RowsOf(w)')
    <3> DEFINE kk == Cardinality(FreeRowsOf(w)')
    <3>1. n \in Nat /\ k \in Nat /\ FoundingFree \in Nat
      BY CountsAreNumbers, LimitsAssumption
    <3>2. closing[o].free <=> n + 1 <= FoundingFree
      BY <2>1, <2>3 DEF LockShape, CountStands, CommitClose
    <3>3. /\ nn = n + 1
          /\ closing[o].free => kk = k + 1
          /\ ~closing[o].free => kk = k
      BY <2>1, <2>3, CountsGrow
    <3>4. k = Min({n, FoundingFree})
      BY <1>1 DEF Allowed
    <3> HIDE DEF n, k, nn, kk
    <3>5. k = IF n <= FoundingFree THEN n ELSE FoundingFree
      BY <3>1, <3>4, Smaller
    <3>6. Min({nn, FoundingFree}) =
            IF nn <= FoundingFree THEN nn ELSE FoundingFree
      BY <3>1, <3>3, Smaller
    <3>7. kk = Min({nn, FoundingFree})
      <4>1. CASE closing[o].free
        BY <3>1, <3>2, <3>3, <3>5, <3>6, <4>1
      <4>2. CASE ~closing[o].free
        BY <3>1, <3>2, <3>3, <3>5, <3>6, <4>2
      <4> QED
        BY <4>1, <4>2
    <3> QED
      BY <3>7 DEF Allowed, nn, kk
  <2> QED
    BY <2>2, <2>3
<1>4. CASE \E d \in Dispatchers : \E p \in pass[d] : InvoicePeriod(d, p)
  <2>0. PICK d \in Dispatchers : \E p \in pass[d] : InvoicePeriod(d, p)
    BY <1>4
  <2>1. PICK p \in pass[d] : InvoicePeriod(d, p)
    BY <2>0
  <2>2. /\ Cardinality(RowsOf(w)') = Cardinality(RowsOf(w))
        /\ Cardinality(FreeRowsOf(w)') = Cardinality(FreeRowsOf(w))
    BY <2>1, CountsStay
  <2> QED
    BY <1>1, <2>2 DEF Allowed
<1> QED
  BY <1>2, <1>3, <1>4, LedgerKinds DEF LedgerKind

\* What one counted close relies on.
Stands(o) ==
    Closing(o, "counted") =>
        /\ lock[OwnerOf[o]] = o
        /\ closing[o].free <=>
              Cardinality(RowsOf(OwnerOf[o])) + 1 <= FoundingFree

LEMMA CountStep ==
    ASSUME LedgerShape, LockShape, [Next]_vars, NEW o \in OrderIds
    PROVE  Stands(o)'
<1> USE OwnersAssumption, NobodyAssumption
<1>0. /\ closing \in [OrderIds -> Open \cup Begun \cup Counted]
      /\ lock \in [Owners -> OrderIds \cup {Nobody}]
      /\ Stands(o)
  BY DEF LedgerShape, TypeOK, LockShape, CountStands, Stands
<1>1. ASSUME UNCHANGED <<closing, lock, ledger>> PROVE Stands(o)'
  BY <1>0, <1>1 DEF Stands, Closing, RowsOf
<1>2. ASSUME NEW q \in OrderIds, ConfirmReceived(q) PROVE Stands(o)'
  BY <1>0, <1>2 DEF Stands, Closing, RowsOf, ConfirmReceived
<1>3. ASSUME NEW q \in OrderIds, CountUnderLock(q) PROVE Stands(o)'
  <2> DEFINE fits == Cardinality(RowsOf(OwnerOf[q])) + 1 <= FoundingFree
  <2>1. /\ closing' = [closing EXCEPT ![q] =
              [stage |-> "counted", at |-> closing[q].at, free |-> fits]]
        /\ lock' = [lock EXCEPT ![OwnerOf[q]] = q]
        /\ lock[OwnerOf[q]] = Nobody
        /\ ledger' = ledger
    BY <1>3 DEF CountUnderLock
  <2>2. RowsOf(OwnerOf[o])' = RowsOf(OwnerOf[o])
    BY <2>1 DEF RowsOf
  <2>3. CASE o = q
    <3>1. closing'[o].free = fits /\ lock'[OwnerOf[o]] = o
      <4> HIDE DEF fits
      <4> QED
        BY <1>0, <2>1, <2>3
    <3> QED
      BY <2>2, <2>3, <3>1 DEF Stands
  <2>4. CASE o # q
    <3> HIDE DEF fits
    <3>1. closing'[o] = closing[o]
      BY <1>0, <2>1, <2>4
    <3>2. Closing(o, "counted") => lock'[OwnerOf[o]] = lock[OwnerOf[o]]
      BY <1>0, <2>1, <2>4 DEF Stands
    <3> QED
      BY <1>0, <2>2, <3>1, <3>2 DEF Stands, Closing
  <2> QED
    BY <2>3, <2>4
<1>4. ASSUME NEW q \in OrderIds, CommitClose(q) PROVE Stands(o)'
  <2>0. /\ closing' = [closing EXCEPT ![q] = [stage |-> "closed"]]
        /\ lock' = Unlocked(q)
        /\ Closing(q, "counted") /\ Stands(q)
    BY <1>4 DEF CommitClose, LockShape, CountStands, Stands
  <2>1. CASE o = q
    BY <1>0, <2>0, <2>1 DEF Stands, Closing
  <2>2. CASE o # q
    <3>1. closing'[o] = closing[o]
      BY <1>0, <2>0, <2>2
    <3>2. ASSUME Closing(o, "counted")
          PROVE  OwnerOf[q] # OwnerOf[o] /\ lock'[OwnerOf[o]] = o
      BY <1>0, <2>0, <2>2, <3>2 DEF Stands, Unlocked
    <3>3. OwnerOf[q] # OwnerOf[o] => RowsOf(OwnerOf[o])' = RowsOf(OwnerOf[o])
      BY <1>4, CountsGrow
    <3> QED
      BY <1>0, <3>1, <3>2, <3>3 DEF Stands, Closing
  <2> QED
    BY <2>1, <2>2
<1>5. ASSUME NEW q \in OrderIds, AbortClose(q) PROVE Stands(o)'
  <2>0. /\ closing' = [closing EXCEPT ![q] = [stage |-> "open"]]
        /\ lock' = Unlocked(q)
        /\ ledger' = ledger
    BY <1>5 DEF AbortClose
  <2>1. CASE o = q
    BY <1>0, <2>0, <2>1 DEF Stands, Closing
  <2>2. CASE o # q
    <3>1. closing'[o] = closing[o]
      BY <1>0, <2>0, <2>2
    <3>2. Closing(o, "counted") => lock'[OwnerOf[o]] = o
      BY <1>0, <2>0, <2>2 DEF Stands, Unlocked
    <3>3. RowsOf(OwnerOf[o])' = RowsOf(OwnerOf[o])
      BY <2>0 DEF RowsOf
    <3> QED
      BY <1>0, <3>1, <3>2, <3>3 DEF Stands, Closing
  <2> QED
    BY <2>1, <2>2
<1>6. ASSUME NEW d \in Dispatchers, NEW p \in pass[d], InvoicePeriod(d, p)
      PROVE  Stands(o)'
  <2>1. Cardinality(RowsOf(OwnerOf[o])') = Cardinality(RowsOf(OwnerOf[o]))
    BY <1>6, CountsStay
  <2>2. UNCHANGED <<closing, lock>>
    BY <1>6 DEF InvoicePeriod
  <2> QED
    BY <1>0, <2>1, <2>2 DEF Stands, Closing
<1> QED
  BY <1>1, <1>2, <1>3, <1>4, <1>5, <1>6
     DEF Next, CloseStep, RollupStep, ListPeriods, InvoiceFails,
         DispatcherRestarts, MonthPasses, vars

LEMMA ClockStep ==
    ASSUME LedgerShape, LockShape, [Next]_vars
    PROVE  ClosesNotAhead'
<1>0. /\ month \in Nat
      /\ closing \in [OrderIds -> Open \cup Begun \cup Counted]
      /\ ClosesNotAhead
  BY LimitsAssumption DEF LedgerShape, TypeOK, Months, LockShape
<1>1. \A o \in OrderIds : Closing(o, "begun") \/ Closing(o, "counted") =>
         closing[o].at \in Nat
  BY <1>0, LimitsAssumption DEF Closing, Open, Begun, Counted, Months
<1>2. ASSUME UNCHANGED closing, month' = month \/ month' = month + 1
      PROVE  ClosesNotAhead'
  BY <1>0, <1>1, <1>2 DEF ClosesNotAhead, Closing
<1>3. ASSUME NEW q \in OrderIds, ConfirmReceived(q) PROVE ClosesNotAhead'
  BY <1>0, <1>1, <1>3 DEF ClosesNotAhead, Closing, ConfirmReceived
<1>4. ASSUME NEW q \in OrderIds, CountUnderLock(q) PROVE ClosesNotAhead'
  BY <1>0, <1>1, <1>4 DEF ClosesNotAhead, Closing, CountUnderLock
<1>5. ASSUME NEW q \in OrderIds, CommitClose(q) PROVE ClosesNotAhead'
  BY <1>0, <1>1, <1>5 DEF ClosesNotAhead, Closing, CommitClose
<1>6. ASSUME NEW q \in OrderIds, AbortClose(q) PROVE ClosesNotAhead'
  BY <1>0, <1>1, <1>6 DEF ClosesNotAhead, Closing, AbortClose
<1> QED
  BY <1>2, <1>3, <1>4, <1>5, <1>6
     DEF Next, CloseStep, RollupStep, ListPeriods, InvoicePeriod, InvoiceFails,
         DispatcherRestarts, MonthPasses, vars

LEMMA LockStep ==
    ASSUME LedgerShape, LockShape, [Next]_vars
    PROVE  LockShape'
<1>1. LedgerShape'
  BY LedgerStep
<1>2. FoundingAllowance' /\ ClosesNotAhead'
  BY <1>1, AllowanceStep, ClockStep
<1>3. \A o \in OrderIds : Stands(o)'
  BY CountStep
<1>4. CountStands'
  BY <1>3 DEF CountStands, Stands
<1> QED
  BY <1>2, <1>4 DEF LockShape

-----------------------------------------------------------------------------
(* Periods and their statements. *)

Current(p) ==
    Punctual(p.owner, p.month) /\ ~Invoiced(p) =>
        p = Sums(p.owner, p.month, Unbilled(p.owner, p.month))

Whole(i) ==
    Punctual(i.owner, i.month) =>
        /\ i = Sums(i.owner, i.month, Billed(i.owner, i.month))
        /\ Unbilled(i.owner, i.month) = {}

\* What is said of a period depends on its rows alone.
SamePeriod(w, m) ==
    /\ RowsIn(w, m)' = RowsIn(w, m)
    /\ Unbilled(w, m)' = Unbilled(w, m)
    /\ Billed(w, m)' = Billed(w, m)

LEMMA RowsMakeThePeriod ==
    ASSUME NEW w, NEW m, RowsIn(w, m)' = RowsIn(w, m)
    PROVE  SamePeriod(w, m)
BY DEF SamePeriod, Unbilled, Billed

LEMMA WholeStays ==
    ASSUME NEW i, SamePeriod(i.owner, i.month), Whole(i)
    PROVE  Whole(i)'
BY DEF SamePeriod, Whole, Punctual, Sums

LEMMA CurrentStays ==
    ASSUME NEW p, SamePeriod(p.owner, p.month), Current(p), Invoiced(p) => Invoiced(p)'
    PROVE  Current(p)'
BY DEF SamePeriod, Current, Punctual, Sums

\* A close changes the period of its row: the month of its clock.
LEMMA CloseChangesOnePeriod ==
    ASSUME LedgerShape, LockShape, NEW o \in OrderIds, CommitClose(o),
           NEW w \in Owners, NEW m \in Months, m < month
    PROVE  SamePeriod(w, m) \/ ~Punctual(w, m)'
<1> DEFINE new == CreateCommissionLedgerEntry(o)
<1>1. /\ ledger' = ledger \cup {new}
      /\ new.order = o
  BY LedgerGrows
<1>2. /\ new.month = closing[o].at
      /\ closing[o].at < month => new.late = TRUE
  BY DEF CreateCommissionLedgerEntry
<1> HIDE DEF new
<1>3. CASE OwnerOf[o] = w /\ closing[o].at = m
  <2>1. new \in RowsIn(w, m)'
    BY <1>1, <1>2, <1>3 DEF RowsIn, RowsOf
  <2>2. new.late
    BY <1>2, <1>3
  <2> QED
    BY <2>1, <2>2 DEF Punctual
<1>4. CASE ~(OwnerOf[o] = w /\ closing[o].at = m)
  <2>1. RowsIn(w, m)' = RowsIn(w, m)
    BY <1>1, <1>2, <1>4 DEF RowsIn, RowsOf
  <2> QED
    BY <2>1, RowsMakeThePeriod
<1> QED
  BY <1>3, <1>4

\* A settled period leaves the others.
LEMMA SettlingChangesOnePeriod ==
    ASSUME LedgerShape,
           NEW d \in Dispatchers, NEW p \in pass[d], InvoicePeriod(d, p),
           NEW w, NEW m, ~(w = p.owner /\ m = p.month)
    PROVE  SamePeriod(w, m)
<1>1. /\ ledger \subseteq Row
      /\ ledger' = {Relabelled(p, r) : r \in ledger}
  BY LedgerRelabelled DEF LedgerShape, TypeOK
<1>2. \A r \in ledger : /\ Relabelled(p, r).order = r.order
                        /\ Relabelled(p, r).month = r.month
  BY <1>1, RelabelledRow
<1>3. \A r \in ledger :
         OwnerOf[r.order] = w /\ r.month = m => Relabelled(p, r) = r
  BY DEF Relabelled, Unbilled, RowsIn, RowsOf
<1>4. RowsIn(w, m)' = RowsIn(w, m)
  BY <1>1, <1>2, <1>3 DEF RowsIn, RowsOf
<1> QED
  BY <1>4, RowsMakeThePeriod

\* Its own period ends with every row attached.
LEMMA SettledPeriod ==
    ASSUME LedgerShape,
           NEW d \in Dispatchers, NEW p \in pass[d], InvoicePeriod(d, p)
    PROVE  /\ RowsIn(p.owner, p.month)'
                = {Relabelled(p, r) : r \in RowsIn(p.owner, p.month)}
           /\ Unbilled(p.owner, p.month)' = {}
           /\ Punctual(p.owner, p.month)' => Punctual(p.owner, p.month)
<1> DEFINE w == p.owner
<1> DEFINE m == p.month
<1>1. /\ ledger \subseteq Row
      /\ ledger' = {Relabelled(p, r) : r \in ledger}
  BY LedgerRelabelled DEF LedgerShape, TypeOK
<1>2. \A r \in ledger : /\ Relabelled(p, r).order = r.order
                        /\ Relabelled(p, r).month = r.month
                        /\ Relabelled(p, r).late = r.late
  BY <1>1, RelabelledRow
<1>3. \A r \in RowsIn(w, m) : Relabelled(p, r).billed
  <2>1. \A r \in ledger : Attached(r).billed
    BY <1>1, AttachedRow
  <2>2. \A r \in RowsIn(w, m) : r \in ledger
    BY DEF RowsIn, RowsOf
  <2>3. ASSUME NEW r \in RowsIn(w, m), r \in Unbilled(w, m)
        PROVE  Relabelled(p, r).billed
    BY <2>1, <2>2, <2>3 DEF Relabelled
  <2>4. ASSUME NEW r \in RowsIn(w, m), r \notin Unbilled(w, m)
        PROVE  Relabelled(p, r).billed
    BY <2>4 DEF Relabelled, Unbilled
  <2> QED
    BY <2>3, <2>4
<1> HIDE DEF w, m
<1>4. RowsIn(w, m)' = {Relabelled(p, r) : r \in RowsIn(w, m)}
  <2>1. w' = w /\ m' = m
    BY DEF w, m
  <2> QED
    BY <1>1, <1>2, <2>1 DEF RowsIn, RowsOf
<1>5. Unbilled(w, m)' = {}
  <2>1. w' = w /\ m' = m
    BY DEF w, m
  <2>2. Unbilled(w, m)' = {r \in RowsIn(w, m)' : ~r.billed}
    BY <2>1 DEF Unbilled
  <2> QED
    BY <1>3, <1>4, <2>2
<1>6. Punctual(w, m)' => Punctual(w, m)
  <2>1. Punctual(w, m)' => \A r \in RowsIn(w, m)' : ~r.late
    BY DEF Punctual, w, m
  <2>2. \A r \in RowsIn(w, m) : Relabelled(p, r).late = r.late
    BY <1>2 DEF RowsIn, RowsOf
  <2> QED
    BY <1>4, <2>1, <2>2 DEF Punctual
<1> QED
  BY <1>4, <1>5, <1>6 DEF w, m

\* A period nothing of which is attached is settled as a whole.
LEMMA SettledAsAWhole ==
    ASSUME LedgerShape, StatementShape,
           NEW d \in Dispatchers, NEW p \in pass[d], InvoicePeriod(d, p),
           ~Invoiced(p)
    PROVE  Whole(p)'
<1> DEFINE w == p.owner
<1> DEFINE m == p.month
<1> DEFINE rows == RowsIn(w, m)
<1>1. Current(p)
  BY DEF StatementShape, ListedIsCurrent, Current
<1>2. \A r \in rows : ~r.billed
  BY DEF StatementShape, BilledHasStatement, Invoiced, RowsIn, RowsOf
<1>3. Unbilled(w, m) = rows
  BY <1>2 DEF Unbilled
<1>4. /\ RowsIn(w, m)' = {Relabelled(p, r) : r \in rows}
      /\ Unbilled(w, m)' = {}
      /\ Punctual(w, m)' => Punctual(w, m)
  BY SettledPeriod
<1>5. {Relabelled(p, r) : r \in rows} = {Attached(r) : r \in rows}
  BY <1>3 DEF Relabelled
<1>6. Billed(w, m)' = RowsIn(w, m)'
  <2>1. \A r \in RowsIn(w, m)' : r.billed
    BY <1>4 DEF Unbilled
  <2> QED
    BY <2>1 DEF Billed
<1>7. /\ rows \subseteq Row /\ IsFiniteSet(rows)
      /\ \A r, q \in rows : r.order = q.order => r = q
  <2>1. rows \in SUBSET ledger
    BY DEF RowsIn, RowsOf
  <2> QED
    BY <2>1, FS_Subset DEF LedgerShape, TypeOK, OneRow
<1> HIDE DEF rows
<1>8. Sums(w, m, {Attached(r) : r \in rows}) = Sums(w, m, rows)
  BY <1>7, AttachedSums
<1>9. Sums(w, m, Billed(w, m))' = Sums(w, m, rows)
  <2>1. Billed(w, m)' = {Attached(r) : r \in rows}
    BY <1>4, <1>5, <1>6
  <2>2. Sums(w, m, Billed(w, m))' = Sums(w, m, Billed(w, m)')
    BY DEF Sums, w, m
  <2> QED
    BY <1>8, <2>1, <2>2
<1>10. Punctual(w, m)' => p = Sums(w, m, rows)
  BY <1>1, <1>3, <1>4 DEF Current
<1> QED
  BY <1>4, <1>9, <1>10 DEF Whole

\* Where a step can leave the passes and the statements.
LEMMA PassKinds ==
    ASSUME [Next]_vars
    PROVE  \/ UNCHANGED <<ledger, invoices, pass>>
              /\ (month' = month \/ month' = month + 1)
           \/ (\E o \in OrderIds : CommitClose(o))
              /\ UNCHANGED <<month, invoices, pass>>
           \/ (\E d \in Dispatchers : ListPeriods(d))
              /\ UNCHANGED <<month, ledger, invoices>>
           \/ \E d \in Dispatchers : \E p \in pass[d] :
                 InvoicePeriod(d, p) /\ UNCHANGED month
           \/ \E d \in Dispatchers : \E left \in SUBSET pass[d] :
                 /\ pass' = [pass EXCEPT ![d] = left]
                 /\ UNCHANGED <<month, ledger, invoices>>
<1>1. ASSUME NEW d \in Dispatchers, NEW p \in pass[d], InvoiceFails(d, p)
      PROVE  \E left \in SUBSET pass[d] :
                 /\ pass' = [pass EXCEPT ![d] = left]
                 /\ UNCHANGED <<month, ledger, invoices>>
  BY <1>1 DEF InvoiceFails
<1>2. ASSUME NEW d \in Dispatchers, DispatcherRestarts(d)
      PROVE  \E left \in SUBSET pass[d] :
                 /\ pass' = [pass EXCEPT ![d] = left]
                 /\ UNCHANGED <<month, ledger, invoices>>
  BY <1>2 DEF DispatcherRestarts
<1>3. ASSUME NEW d \in Dispatchers, ListPeriods(d)
      PROVE  UNCHANGED <<month, ledger, invoices>>
  BY <1>3 DEF ListPeriods
<1>4. ASSUME NEW d \in Dispatchers, NEW p \in pass[d], InvoicePeriod(d, p)
      PROVE  UNCHANGED month
  BY <1>4 DEF InvoicePeriod
<1>5. ASSUME NEW o \in OrderIds, CommitClose(o)
      PROVE  UNCHANGED <<month, invoices, pass>>
  BY <1>5 DEF CommitClose
<1> QED
  BY <1>1, <1>2, <1>3, <1>4, <1>5
     DEF Next, CloseStep, RollupStep, ConfirmReceived, CountUnderLock, AbortClose,
         MonthPasses, vars

\* What a pass lists: months that are over, with their sums of now.
LEMMA Listed ==
    ASSUME LedgerShape, NEW p \in UnbilledPeriods
    PROVE  p.month < month /\ Current(p)
<1>1. PICK w \in Owners, m \in 0 .. month - 1 : p = Sums(w, m, Unbilled(w, m))
  BY DEF UnbilledPeriods
<1>2. p.owner = w /\ p.month = m
  BY <1>1 DEF Sums
<1>3. month \in Nat
  BY LimitsAssumption DEF LedgerShape, TypeOK, Months
<1>4. p.month < month
  BY <1>2, <1>3
<1>5. p = Sums(p.owner, p.month, Unbilled(p.owner, p.month))
  BY <1>1, <1>2
<1> QED
  BY <1>4, <1>5 DEF Current

\* Months of statements and of listed periods are months.
LEMMA PeriodTypes ==
    ASSUME LedgerShape
    PROVE  /\ month \in Nat /\ Months \subseteq Nat
           /\ \A i \in invoices : i.owner \in Owners /\ i.month \in Months
           /\ \A d \in Dispatchers : \A p \in pass[d] :
                 p.owner \in Owners /\ p.month \in Months
BY LimitsAssumption DEF LedgerShape, TypeOK, Months, Statement

\* Where the periods of a pass come from.
LEMMA PassGrows ==
    ASSUME LedgerShape, [Next]_vars, NEW d \in Dispatchers, NEW p \in pass'[d]
    PROVE  p \in pass[d] \/ (p \in UnbilledPeriods /\ UNCHANGED <<month, ledger, invoices>>)
<1>0. pass \in [Dispatchers -> SUBSET Statement]
  BY DEF LedgerShape, TypeOK
<1>1. ASSUME NEW e \in Dispatchers, ListPeriods(e)
      PROVE  p \in pass[d] \/ (p \in UnbilledPeriods /\ UNCHANGED <<month, ledger, invoices>>)
  <2>1. PICK page \in SUBSET UnbilledPeriods : pass' = [pass EXCEPT ![e] = page]
    BY <1>1 DEF ListPeriods
  <2>2. UNCHANGED <<month, ledger, invoices>>
    BY <1>1 DEF ListPeriods
  <2> QED
    BY <1>0, <2>1, <2>2
<1>2. ASSUME NEW e \in Dispatchers, NEW q \in pass[e], InvoicePeriod(e, q)
      PROVE  p \in pass[d]
  <2>1. pass' = [pass EXCEPT ![e] = pass[e] \ {q}]
    BY <1>2 DEF InvoicePeriod
  <2> QED
    BY <1>0, <2>1
<1>3. ASSUME NEW e \in Dispatchers, NEW left \in SUBSET pass[e],
             pass' = [pass EXCEPT ![e] = left]
      PROVE  p \in pass[d]
  BY <1>0, <1>3
<1> QED
  BY <1>1, <1>2, <1>3, PassKinds

\* Statements stay, and a settled period has one.
LEMMA StatementsStay ==
    ASSUME [Next]_vars, NEW p, Invoiced(p)
    PROVE  Invoiced(p)'
BY DEF Next, CloseStep, RollupStep, ConfirmReceived, CountUnderLock, AbortClose,
       CommitClose, ListPeriods, InvoicePeriod, CreateCommissionInvoice,
       InvoiceFails, DispatcherRestarts, MonthPasses, vars, Invoiced

LEMMA StatementsGrow ==
    ASSUME [Next]_vars, NEW i \in invoices'
    PROVE  \/ i \in invoices
           \/ \E d \in Dispatchers :
                 i \in pass[d] /\ InvoicePeriod(d, i) /\ ~Invoiced(i)
BY DEF Next, CloseStep, RollupStep, ConfirmReceived, CountUnderLock, AbortClose,
       CommitClose, ListPeriods, InvoicePeriod, CreateCommissionInvoice,
       InvoiceFails, DispatcherRestarts, MonthPasses, vars

LEMMA SettledHasStatement ==
    ASSUME NEW d \in Dispatchers, NEW p \in pass[d], InvoicePeriod(d, p)
    PROVE  Invoiced(p)'
BY DEF InvoicePeriod, CreateCommissionInvoice, Invoiced

LEMMA OverStep ==
    ASSUME LedgerShape, StatementShape, [Next]_vars
    PROVE  PeriodsAreOver'
<1>1. month' = month \/ month' = month + 1
  BY PassKinds
<1>2. ASSUME NEW i \in invoices' PROVE i.month < month'
  <2>1. i.month < month /\ i.month \in Nat /\ month \in Nat
    BY StatementsGrow, PeriodTypes DEF StatementShape, PeriodsAreOver
  <2> QED
    BY <1>1, <2>1
<1>3. ASSUME NEW d \in Dispatchers, NEW p \in pass'[d] PROVE p.month < month'
  <2>1. p \in pass[d] \/ (p \in UnbilledPeriods /\ UNCHANGED <<month, ledger, invoices>>)
    BY PassGrows
  <2>2. CASE p \in pass[d]
    <3>1. p.month < month /\ p.month \in Nat /\ month \in Nat
      BY <2>2, PeriodTypes DEF StatementShape, PeriodsAreOver
    <3> QED
      BY <1>1, <3>1
  <2>3. CASE p \in UnbilledPeriods /\ month' = month
    BY <2>3, Listed
  <2> QED
    BY <2>1, <2>2, <2>3
<1> QED
  BY <1>2, <1>3 DEF PeriodsAreOver

LEMMA BilledStep ==
    ASSUME LedgerShape, StatementShape, [Next]_vars
    PROVE  BilledHasStatement'
<1> SUFFICES ASSUME NEW r \in ledger', r.billed
             PROVE  \E i \in invoices' : i.owner = OwnerOf[r.order] /\ i.month = r.month
  BY DEF BilledHasStatement
<1>0. ledger \subseteq Row
  BY DEF LedgerShape, TypeOK
<1>1. CASE UNCHANGED <<ledger, invoices>>
  BY <1>1 DEF StatementShape, BilledHasStatement
<1>2. CASE \E o \in OrderIds : CommitClose(o)
  <2>1. PICK o \in OrderIds : CommitClose(o)
    BY <1>2
  <2>2. /\ ledger' = ledger \cup {CreateCommissionLedgerEntry(o)}
        /\ invoices' = invoices
    BY <2>1 DEF CommitClose
  <2>3. ~CreateCommissionLedgerEntry(o).billed
    BY DEF CreateCommissionLedgerEntry
  <2>4. r \in ledger
    BY <2>2, <2>3
  <2> QED
    BY <2>2, <2>4 DEF StatementShape, BilledHasStatement
<1>3. CASE \E d \in Dispatchers : \E p \in pass[d] : InvoicePeriod(d, p)
  <2>0. PICK d \in Dispatchers : \E p \in pass[d] : InvoicePeriod(d, p)
    BY <1>3
  <2>1. PICK p \in pass[d] : InvoicePeriod(d, p)
    BY <2>0
  <2>2. ledger' = {Relabelled(p, q) : q \in ledger}
    BY <2>1, LedgerRelabelled
  <2>3. PICK q \in ledger : r = Relabelled(p, q)
    BY <2>2
  <2>4. r.order = q.order /\ r.month = q.month
    BY <1>0, <2>3, RelabelledRow
  <2>5. invoices \subseteq invoices'
    BY <2>1 DEF InvoicePeriod, CreateCommissionInvoice
  <2>6. CASE q \in Unbilled(p.owner, p.month)
    <3>1. OwnerOf[r.order] = p.owner /\ r.month = p.month
      BY <2>4, <2>6 DEF Unbilled, RowsIn, RowsOf
    <3> QED
      BY <2>1, <3>1, SettledHasStatement DEF Invoiced
  <2>7. CASE q \notin Unbilled(p.owner, p.month)
    <3>1. r = q
      BY <2>3, <2>7 DEF Relabelled
    <3> QED
      BY <2>5, <3>1 DEF StatementShape, BilledHasStatement
  <2> QED
    BY <2>6, <2>7
<1> QED
  BY <1>1, <1>2, <1>3, LedgerKinds DEF LedgerKind

\* A period that was current, or that a pass lists now, is current after a step.
LEMMA CurrentStep ==
    ASSUME LedgerShape, LockShape, StatementShape, [Next]_vars
    PROVE  ListedIsCurrent'
<1> SUFFICES ASSUME NEW d \in Dispatchers, NEW p \in pass'[d]
             PROVE  Current(p)'
  BY DEF ListedIsCurrent, Current
<1>1. CASE p \in UnbilledPeriods /\ UNCHANGED <<month, ledger, invoices>>
  <2>1. Current(p)
    BY <1>1, Listed
  <2>2. SamePeriod(p.owner, p.month)
    BY <1>1, RowsMakeThePeriod DEF RowsIn, RowsOf
  <2> QED
    BY <2>1, <2>2, CurrentStays, StatementsStay
<1>2. CASE p \in pass[d]
  <2>1. Current(p)
    BY <1>2 DEF StatementShape, ListedIsCurrent, Current
  <2>2. p.month < month /\ p.owner \in Owners /\ p.month \in Months
    BY <1>2, PeriodTypes DEF StatementShape, PeriodsAreOver
  <2>3. CASE UNCHANGED <<ledger, invoices>>
    <3>1. SamePeriod(p.owner, p.month)
      BY <2>3, RowsMakeThePeriod DEF RowsIn, RowsOf
    <3> QED
      BY <2>1, <3>1, CurrentStays, StatementsStay
  <2>4. CASE \E o \in OrderIds : CommitClose(o)
    <3>1. SamePeriod(p.owner, p.month) \/ ~Punctual(p.owner, p.month)'
      BY <2>2, <2>4, CloseChangesOnePeriod
    <3>2. CASE SamePeriod(p.owner, p.month)
      BY <2>1, <3>2, CurrentStays, StatementsStay
    <3>3. CASE ~Punctual(p.owner, p.month)'
      BY <3>3 DEF Current
    <3> QED
      BY <3>1, <3>2, <3>3
  <2>5. CASE \E e \in Dispatchers : \E q \in pass[e] : InvoicePeriod(e, q)
    <3>0. PICK e \in Dispatchers : \E q \in pass[e] : InvoicePeriod(e, q)
      BY <2>5
    <3>1. PICK q \in pass[e] : InvoicePeriod(e, q)
      BY <3>0
    <3>2. CASE p.owner = q.owner /\ p.month = q.month
      <4>1. Invoiced(q)'
        BY <3>1, SettledHasStatement
      <4>2. Invoiced(p)'
        BY <3>2, <4>1 DEF Invoiced
      <4> QED
        BY <4>2 DEF Current
    <3>3. CASE ~(p.owner = q.owner /\ p.month = q.month)
      <4>1. SamePeriod(p.owner, p.month)
        BY <3>1, <3>3, SettlingChangesOnePeriod
      <4> QED
        BY <2>1, <4>1, CurrentStays, StatementsStay
    <3> QED
      BY <3>2, <3>3
  <2> QED
    BY <2>3, <2>4, <2>5, LedgerKinds DEF LedgerKind
<1> QED
  BY <1>1, <1>2, PassGrows

LEMMA WholeStep ==
    ASSUME LedgerShape, LockShape, StatementShape, [Next]_vars
    PROVE  StatementIsWhole'
<1> SUFFICES ASSUME NEW i \in invoices' PROVE Whole(i)'
  BY DEF StatementIsWhole, Whole
<1>1. CASE \E d \in Dispatchers : i \in pass[d] /\ InvoicePeriod(d, i) /\ ~Invoiced(i)
  BY <1>1, SettledAsAWhole
<1>2. CASE i \in invoices
  <2>1. Whole(i)
    BY <1>2 DEF StatementShape, StatementIsWhole, Whole
  <2>2. i.month < month /\ i.owner \in Owners /\ i.month \in Months
    BY <1>2, PeriodTypes DEF StatementShape, PeriodsAreOver
  <2>3. CASE UNCHANGED <<ledger, invoices>>
    <3>1. SamePeriod(i.owner, i.month)
      BY <2>3, RowsMakeThePeriod DEF RowsIn, RowsOf
    <3> QED
      BY <2>1, <3>1, WholeStays
  <2>4. CASE \E o \in OrderIds : CommitClose(o)
    <3>1. SamePeriod(i.owner, i.month) \/ ~Punctual(i.owner, i.month)'
      BY <2>2, <2>4, CloseChangesOnePeriod
    <3>2. CASE SamePeriod(i.owner, i.month)
      BY <2>1, <3>2, WholeStays
    <3>3. CASE ~Punctual(i.owner, i.month)'
      BY <3>3 DEF Whole
    <3> QED
      BY <3>1, <3>2, <3>3
  <2>5. CASE \E e \in Dispatchers : \E q \in pass[e] : InvoicePeriod(e, q)
    <3>0. PICK e \in Dispatchers : \E q \in pass[e] : InvoicePeriod(e, q)
      BY <2>5
    <3>1. PICK q \in pass[e] : InvoicePeriod(e, q)
      BY <3>0
    <3>2. CASE i.owner = q.owner /\ i.month = q.month
      <4>1. CASE Punctual(i.owner, i.month)
        <5>1. Unbilled(q.owner, q.month) = {}
          BY <2>1, <3>2, <4>1 DEF Whole
        <5>2. {Relabelled(q, r) : r \in RowsIn(q.owner, q.month)}
                = RowsIn(q.owner, q.month)
          BY <5>1 DEF Relabelled
        <5>3. RowsIn(q.owner, q.month)' = RowsIn(q.owner, q.month)
          BY <3>1, <5>2, SettledPeriod
        <5>4. SamePeriod(i.owner, i.month)
          BY <3>2, <5>3, RowsMakeThePeriod
        <5> QED
          BY <2>1, <5>4, WholeStays
      <4>2. CASE ~Punctual(i.owner, i.month)
        <5>1. Punctual(q.owner, q.month)' => Punctual(q.owner, q.month)
          BY <3>1, SettledPeriod
        <5>2. ~Punctual(i.owner, i.month)'
          BY <3>2, <4>2, <5>1
        <5> QED
          BY <5>2 DEF Whole
      <4> QED
        BY <4>1, <4>2
    <3>3. CASE ~(i.owner = q.owner /\ i.month = q.month)
      <4>1. SamePeriod(i.owner, i.month)
        BY <3>1, <3>3, SettlingChangesOnePeriod
      <4> QED
        BY <2>1, <4>1, WholeStays
    <3> QED
      BY <3>2, <3>3
  <2> QED
    BY <2>3, <2>4, <2>5, LedgerKinds DEF LedgerKind
<1> QED
  BY <1>1, <1>2, StatementsGrow

LEMMA StatementStep ==
    ASSUME LedgerShape, LockShape, StatementShape, [Next]_vars
    PROVE  StatementShape'
BY OverStep, BilledStep, CurrentStep, WholeStep DEF StatementShape

-----------------------------------------------------------------------------
(* The theorems. *)

LEMMA CommissionInit ==
    ASSUME Init
    PROVE  CommissionInv
<1>1. ledger = {} /\ invoices = {} /\ \A d \in Dispatchers : pass[d] = {}
  BY DEF Init
<1>2. \A o \in OrderIds : Closing(o, "open")
  BY DEF Init, Closing
<1>3. LedgerShape
  <2>1. [stage |-> "open"] \in Open
    BY DEF Open
  <2>2. TypeOK
    BY <2>1, LimitsAssumption DEF Init, TypeOK, Months
  <2> QED
    BY <1>1, <2>2, FS_EmptySet
       DEF LedgerShape, OneRow, RowsAreClosed, RowsAccrue
<1>4. LockShape
  <2>1. \A w \in Owners : RowsOf(w) = {} /\ FreeRowsOf(w) = {}
    BY <1>1 DEF RowsOf, FreeRowsOf
  <2>2. Min({0, FoundingFree}) = 0
    BY Smaller, LimitsAssumption
  <2>3. FoundingAllowance
    BY <2>1, <2>2, FS_EmptySet, AllowanceIsAllowed DEF Allowed
  <2> QED
    BY <1>2, <2>3 DEF LockShape, CountStands, ClosesNotAhead, Closing
<1>5. StatementShape
  BY <1>1 DEF StatementShape, PeriodsAreOver, BilledHasStatement, ListedIsCurrent,
              StatementIsWhole
<1> QED
  BY <1>3, <1>4, <1>5 DEF CommissionInv

\* The ledger, the locks its rows are counted under, and the statements.
THEOREM CommissionKeepsInv == Spec => []CommissionInv
<1>1. CommissionInv /\ [Next]_vars => CommissionInv'
  BY LedgerStep, LockStep, StatementStep DEF CommissionInv
<1> QED
  BY CommissionInit, <1>1, PTL DEF Spec

\* Of an owner's closed orders exactly the first FoundingFree are free, however
\* many close at once (AccrueCommission under LockOwnerCommissionLedger).
THEOREM FoundingFreeOrders == Spec => []FoundingAllowance
<1>1. CommissionInv => FoundingAllowance
  BY DEF CommissionInv, LockShape
<1> QED
  BY <1>1, CommissionKeepsInv, PTL

\* What a row accrues is what invariant 2c of invariants.sql computes of the
\* lines, for every amount and rate.
THEOREM LedgerAccruesAsAsserted == Spec => []AccrualAsAsserted
<1>1. CommissionInv => AccrualAsAsserted
  <2> SUFFICES ASSUME LedgerShape, NEW r \in ledger
               PROVE  r.accrued = SumFunction([i \in DOMAIN LinesOf[r.order] |->
                        (LinesOf[r.order][i].amount * LinesOf[r.order][i].bps + 5000)
                            \div 10000])
    BY DEF CommissionInv, AccrualAsAsserted
  <2>1. r.order \in OrderIds
    BY DEF LedgerShape, TypeOK, Row
  <2>2. r.accrued = Accrued(r.order)
    BY DEF LedgerShape, RowsAccrue
  <2> QED
    BY <2>1, <2>2, AccruedAsAsserted
<1> QED
  BY <1>1, CommissionKeepsInv, PTL

\* A statement says what its rows add up to unless a row came after its month:
\* invoicePeriod under the owner's lock, by however many copies of the dispatcher.
THEOREM StatementsAddUp == Spec => []StatementAddsUp
<1>1. CommissionInv => StatementAddsUp
  BY DEF CommissionInv, StatementShape, StatementIsWhole, StatementAddsUp, Punctual
<1> QED
  BY <1>1, CommissionKeepsInv, PTL
=============================================================================
