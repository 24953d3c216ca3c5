------------------------------ MODULE Commission ------------------------------
(***************************************************************************)
(* The owner's commission: ledger rows that closing orders write           *)
(* (AccrueCommission) and the monthly statements the rollup job of         *)
(* cmd/dispatcher makes of them (internal/modules/billing/rollup.go).      *)
(*                                                                         *)
(* A closing order is three steps: the command reads the clock, the        *)
(* transaction takes the owner's advisory lock and counts the ledger, and  *)
(* it commits. The rollup sums the unbilled rows outside any transaction   *)
(* and then settles one period after the other. Time is counted in months. *)
(***************************************************************************)
EXTENDS Money, Sequences, FiniteSets, FiniteSetsExt

CONSTANTS
    OrderIds,       \* orders that close
    Owners,         \* owners of their stores
    OwnerOf,        \* the owner of an order
    LinesOf,        \* the lines of an order: amounts and rates in basis points
    Dispatchers,    \* running copies of cmd/dispatcher
    Batch,          \* RollupConfig.Batch
    FoundingFree,   \* foundingFreeOrders
    MaxMonth,       \* bound: months that pass
    Nobody          \* holder of a free lock

ASSUME OwnersAssumption == OwnerOf \in [OrderIds -> Owners]
\* Rates in basis points.
Rates == 0 .. 10000
Line == [amount : Nat, bps : Rates]
ASSUME LinesAssumption == LinesOf \in [OrderIds -> Seq(Line)]
ASSUME LimitsAssumption ==
    Batch \in Nat \ {0} /\ FoundingFree \in Nat /\ MaxMonth \in Nat
ASSUME NobodyAssumption == Nobody \notin OrderIds

VARIABLES
    month,          \* the month it is
    closing,        \* per order, how far its closing is
    lock,           \* per owner, the order that holds the ledger lock
    ledger,         \* billing.commission_ledger
    invoices,       \* billing.commission_invoices
    pass            \* per dispatcher, the periods its pass still has to settle

vars == <<month, closing, lock, ledger, invoices, pass>>

Months == 0 .. MaxMonth

Row == [order : OrderIds, month : Months, accrued : Nat, free : BOOLEAN,
        billed : BOOLEAN, late : BOOLEAN]
Statement == [owner : Owners, month : Months, accrued : Nat, payable : Nat]
Open == [stage : {"open", "closed"}]
Begun == [stage : {"begun"}, at : Months]
Counted == [stage : {"counted"}, at : Months, free : BOOLEAN]

TypeOK ==
    /\ month \in Months
    /\ closing \in [OrderIds -> Open \cup Begun \cup Counted]
    /\ lock \in [Owners -> OrderIds \cup {Nobody}]
    /\ ledger \subseteq Row
    /\ invoices \subseteq Statement
    /\ pass \in [Dispatchers -> SUBSET Statement]

Init ==
    /\ month = 0
    /\ closing = [o \in OrderIds |-> [stage |-> "open"]]
    /\ lock = [w \in Owners |-> Nobody]
    /\ ledger = {}
    /\ invoices = {}
    /\ pass = [d \in Dispatchers |-> {}]

-----------------------------------------------------------------------------
(* Closing an order: accrueCommission and AccrueCommission. *)

\* The commission of every line at the rate it was ordered at.
Accrued(o) ==
    SumFunction([i \in DOMAIN LinesOf[o] |->
        ApplyBasisPoints(LinesOf[o][i].amount, LinesOf[o][i].bps)])

Base(o) == SumFunction([i \in DOMAIN LinesOf[o] |-> LinesOf[o][i].amount])

Closing(o, stage) == closing[o].stage = stage

RowsOf(w) == {r \in ledger : OwnerOf[r.order] = w}

\* The command reads the clock its row will be stamped with.
ConfirmReceived(o) ==
    /\ Closing(o, "open")
    /\ closing' = [closing EXCEPT ![o] = [stage |-> "begun", at |-> month]]
    /\ UNCHANGED <<month, lock, ledger, invoices, pass>>

\* Slip: the ledger is counted without the owner's lock.
CountUnlocked(o) ==
    /\ Closing(o, "begun")
    /\ Accrued(o) <= Base(o)
    /\ closing' = [closing EXCEPT ![o] =
          [stage |-> "counted", at |-> closing[o].at,
           free |-> Cardinality(RowsOf(OwnerOf[o])) + 1 <= FoundingFree]]
    /\ UNCHANGED <<month, lock, ledger, invoices, pass>>

\* LockOwnerCommissionLedger and CountOwnerCommissionEntries. An accrual above
\* the amount it is taken of is refused.
CountUnderLock(o) ==
    /\ Closing(o, "begun")
    /\ Accrued(o) <= Base(o)
    /\ lock[OwnerOf[o]] = Nobody
    /\ lock' = [lock EXCEPT ![OwnerOf[o]] = o]
    /\ closing' = [closing EXCEPT ![o] =
          [stage |-> "counted", at |-> closing[o].at,
           free |-> Cardinality(RowsOf(OwnerOf[o])) + 1 <= FoundingFree]]
    /\ UNCHANGED <<month, ledger, invoices, pass>>

Unlocked(o) ==
    [w \in Owners |-> IF lock[w] = o THEN Nobody ELSE lock[w]]

\* The row, stamped with the time the command read.
CreateCommissionLedgerEntry(o) ==
    [order |-> o, month |-> closing[o].at, accrued |-> Accrued(o),
     free |-> closing[o].free, billed |-> FALSE, late |-> closing[o].at < month]

\* The row is inserted and the transaction commits, in whatever month that is.
CommitClose(o) ==
    /\ Closing(o, "counted")
    /\ ledger' = ledger \cup {CreateCommissionLedgerEntry(o)}
    /\ closing' = [closing EXCEPT ![o] = [stage |-> "closed"]]
    /\ lock' = Unlocked(o)
    /\ UNCHANGED <<month, invoices, pass>>

\* The transaction rolls back; the order may be closed again later.
AbortClose(o) ==
    /\ Closing(o, "begun") \/ Closing(o, "counted")
    /\ closing' = [closing EXCEPT ![o] = [stage |-> "open"]]
    /\ lock' = Unlocked(o)
    /\ UNCHANGED <<month, ledger, invoices, pass>>

-----------------------------------------------------------------------------
(* The rollup. *)

Payable(r) == IF r.free THEN 0 ELSE r.accrued

RowsIn(w, m) == {r \in RowsOf(w) : r.month = m}
Unbilled(w, m) == {r \in RowsIn(w, m) : ~r.billed}

\* What a set of rows adds up to.
Sums(w, m, rows) ==
    [owner |-> w, month |-> m,
     accrued |-> SumFunction([r \in rows |-> r.accrued]),
     payable |-> SumFunction([r \in rows |-> Payable(r)])]

\* Slip: the month that is still running is settled with the others.
PeriodsToDate ==
    {Sums(p[1], p[2], Unbilled(p[1], p[2])) :
        p \in {q \in Owners \X (0 .. month) : Unbilled(q[1], q[2]) # {}}}

\* ListUnbilledCommissionPeriods: owner and month, with the sums of now.
UnbilledPeriods ==
    {Sums(p[1], p[2], Unbilled(p[1], p[2])) :
        p \in {q \in Owners \X (0 .. month - 1) : Unbilled(q[1], q[2]) # {}}}

\* A pass starts with a page of them, the oldest months first.
ListPeriods(d) ==
    /\ pass[d] = {}
    /\ \E page \in SUBSET UnbilledPeriods :
          /\ page # {}
          /\ Cardinality(page) = Min({Cardinality(UnbilledPeriods), Batch})
          /\ \A p \in page, q \in UnbilledPeriods \ page : p.month <= q.month
          /\ pass' = [pass EXCEPT ![d] = page]
    /\ UNCHANGED <<month, closing, lock, ledger, invoices>>

Invoiced(p) == \E i \in invoices : i.owner = p.owner /\ i.month = p.month

\* CreateCommissionInvoice: on conflict the statement stays what it was.
CreateCommissionInvoice(p) ==
    IF Invoiced(p) THEN invoices ELSE invoices \cup {p}

\* AttachLedgerToInvoice takes the rows the period has now.
AttachLedgerToInvoice(p) ==
    {IF r \in Unbilled(p.owner, p.month) THEN [r EXCEPT !.billed = TRUE] ELSE r :
        r \in ledger}

\* Slip: a period that has its statement is passed over.
InvoiceOnce(d, p) ==
    /\ p \in pass[d]
    /\ lock[p.owner] = Nobody
    /\ invoices' = CreateCommissionInvoice(p)
    /\ ledger' = IF Invoiced(p) THEN ledger ELSE AttachLedgerToInvoice(p)
    /\ pass' = [pass EXCEPT ![d] = pass[d] \ {p}]
    /\ UNCHANGED <<month, closing, lock>>

\* invoicePeriod, one transaction under the owner's lock.
InvoicePeriod(d, p) ==
    /\ p \in pass[d]
    /\ lock[p.owner] = Nobody
    /\ invoices' = CreateCommissionInvoice(p)
    /\ ledger' = AttachLedgerToInvoice(p)
    /\ pass' = [pass EXCEPT ![d] = pass[d] \ {p}]
    /\ UNCHANGED <<month, closing, lock>>

\* The period fails and waits for the next pass; the pass goes on.
InvoiceFails(d, p) ==
    /\ p \in pass[d]
    /\ pass' = [pass EXCEPT ![d] = pass[d] \ {p}]
    /\ UNCHANGED <<month, closing, lock, ledger, invoices>>

DispatcherRestarts(d) ==
    /\ pass' = [pass EXCEPT ![d] = {}]
    /\ UNCHANGED <<month, closing, lock, ledger, invoices>>

MonthPasses ==
    /\ month < MaxMonth
    /\ month' = month + 1
    /\ UNCHANGED <<closing, lock, ledger, invoices, pass>>

-----------------------------------------------------------------------------
CloseStep(o) ==
    ConfirmReceived(o) \/ CountUnderLock(o) \/ CommitClose(o) \/ AbortClose(o)

RollupStep(d) ==
    \/ ListPeriods(d)
    \/ \E p \in pass[d] : InvoicePeriod(d, p) \/ InvoiceFails(d, p)

Next ==
    \/ \E o \in OrderIds : CloseStep(o)
    \/ \E d \in Dispatchers : RollupStep(d) \/ DispatcherRestarts(d)
    \/ MonthPasses

Spec == Init /\ [][Next]_vars
=============================================================================
