------------------------ MODULE CommissionProperties ------------------------
(* What an owner is told to pay, and what for. *)
EXTENDS Commission

\* AccrueCommission: of an owner's closed orders exactly the first FoundingFree
\* are free, however many close at once.
FoundingAllowance ==
    \A w \in Owners :
        Cardinality({r \in RowsOf(w) : r.free}) =
            Min({Cardinality(RowsOf(w)), FoundingFree})

\* Invariant 2c of invariants.sql: a row's accrual is the order's lines at their
\* rates, by the formula the load test computes in SQL.
AccrualAsAsserted ==
    \A r \in ledger :
        r.accrued = SumFunction([i \in DOMAIN LinesOf[r.order] |->
            (LinesOf[r.order][i].amount * LinesOf[r.order][i].bps + 5000)
                \div 10000])

Billed(w, m) == {r \in RowsIn(w, m) : r.billed}

\* A statement says what its rows add up to, whichever passes listed the period
\* and in whatever order they settled it, unless a row came after its month.
StatementAddsUp ==
    \A i \in invoices :
        (\A r \in RowsIn(i.owner, i.month) : ~r.late) =>
            i = Sums(i.owner, i.month, Billed(i.owner, i.month))

\* A dispatcher dies, or a period fails that would have been settled.
Fault ==
    \E d \in Dispatchers :
        /\ \/ DispatcherRestarts(d)
           \/ \E p \in pass[d] : InvoiceFails(d, p)
        /\ ~ \E p \in pass[d] : InvoicePeriod(d, p)

\* Run comes back at every interval, months pass, transactions end, and from
\* some time on the database answers and no dispatcher dies.
FairSpec ==
    /\ Spec
    /\ WF_vars(MonthPasses)
    /\ \A o \in OrderIds : WF_vars(CommitClose(o) \/ AbortClose(o))
    /\ \A d \in Dispatchers : WF_vars(RollupStep(d))
    /\ <>[][~Fault]_vars

\* Every row of a month that is over is attached to a statement in the end, the
\* ones that came late included.
EveryRowIsBilled ==
    \A w \in Owners, m \in 0 .. MaxMonth - 1 :
        (month > m /\ Unbilled(w, m) # {}) ~> (Unbilled(w, m) = {})
=============================================================================
