------------------------------- MODULE Outbox -------------------------------
(***************************************************************************)
(* The transactional outbox, internal/platform/messaging/outbox: rows that *)
(* business transactions insert, and the copies of cmd/dispatcher that     *)
(* claim them under a lease, relay them to the analytics sink and write    *)
(* down what came of it.                                                   *)
(*                                                                         *)
(* RunOnce is a list of tasks a dispatcher works off, each one statement   *)
(* or one call of the sink, with everybody else in between. Times are what *)
(* the statements compare them for: a lease holds or has lapsed, a retry   *)
(* is due or is not yet.                                                   *)
(***************************************************************************)
EXTENDS Naturals, Sequences, FiniteSets

CONSTANTS
    Aggregates,     \* aggregates events belong to
    Locked,         \* those whose writers hold the aggregate's row lock
    Dispatchers,    \* running copies of cmd/dispatcher
    BatchSize,      \* DispatcherConfig.BatchSize
    MaxAttempts,    \* DispatcherConfig.MaxAttempts
    MaxRows         \* bound: rows ever inserted

ASSUME LockedAssumption == Locked \subseteq Aggregates
ASSUME LimitsAssumption ==
    /\ BatchSize \in Nat \ {0}
    /\ MaxAttempts \in Nat \ {0}
    /\ MaxRows \in Nat

VARIABLES
    rows,           \* platform.outbox, by id
    work,           \* per dispatcher, what is left of its pass
    sink,           \* ids the analytics store has
    isolated        \* history: ids that were ever dead-lettered

vars == <<rows, work, sink, isolated>>

\* A claimed row as claim returned it.
Record == [id : Nat, attempts : Nat]

Row == [of : Aggregates, poison : BOOLEAN,
        state : {"open", "committed", "undone", "deleted"},
        claim : {"none", "held", "lapsed"}, retry : {"due", "waiting"},
        attempts : Nat, dispatched : BOOLEAN, dead : BOOLEAN]

Task == [do : {"send", "mark", "fail", "cleanup"}, batch : SUBSET Record]

TypeOK ==
    /\ rows \in Seq(Row)
    /\ work \in [Dispatchers -> Seq(Task)]
    /\ sink \subseteq 1 .. Len(rows)
    /\ isolated \subseteq 1 .. Len(rows)

Init ==
    /\ rows = << >>
    /\ work = [d \in Dispatchers |-> << >>]
    /\ sink = {}
    /\ isolated = {}

-----------------------------------------------------------------------------
(* Writers. *)

\* Writer.Write takes the next id inside a transaction that is still open. A
\* writer that holds the aggregate's lock has no other beside it.
Write(a, poison) ==
    /\ Len(rows) < MaxRows
    /\ a \in Locked =>
          \A i \in 1 .. Len(rows) : rows[i].of = a => rows[i].state # "open"
    /\ rows' = Append(rows, [of |-> a, poison |-> poison, state |-> "open",
                             claim |-> "none", retry |-> "due", attempts |-> 0,
                             dispatched |-> FALSE, dead |-> FALSE])
    /\ UNCHANGED <<work, sink, isolated>>

Finish(i, state) ==
    /\ rows[i].state = "open"
    /\ rows' = [rows EXCEPT ![i].state = state]
    /\ UNCHANGED <<work, sink, isolated>>

Commit(i) == Finish(i, "committed")

Rollback(i) == Finish(i, "undone")

-----------------------------------------------------------------------------
(* A pass of a dispatcher. *)

Ids(batch) == {r.id : r \in batch}

\* What holds back the later rows of the aggregate.
Undelivered(i) ==
    rows[i].state = "committed" /\ ~rows[i].dispatched /\ ~rows[i].dead

\* Slip: an earlier row that waits for its retry holds nothing back.
ClaimablePastWaiting ==
    {i \in 1 .. Len(rows) :
        /\ Undelivered(i)
        /\ rows[i].retry = "due"
        /\ rows[i].claim # "held"
        /\ \A p \in 1 .. i - 1 :
              rows[p].of = rows[i].of =>
                  ~Undelivered(p) \/ rows[p].retry = "waiting"}

Claimable ==
    {i \in 1 .. Len(rows) :
        /\ Undelivered(i)
        /\ rows[i].retry = "due"
        /\ rows[i].claim # "held"
        /\ \A p \in 1 .. i - 1 :
              rows[p].of = rows[i].of => ~Undelivered(p)}

\* The first BatchSize of them.
Picked ==
    {i \in Claimable : Cardinality({p \in Claimable : p < i}) < BatchSize}

Update(ids, Change(_)) ==
    [i \in 1 .. Len(rows) |->
        IF i \in ids /\ rows[i].state = "committed" THEN Change(rows[i])
                                                    ELSE rows[i]]

Cleanup == [do |-> "cleanup", batch |-> {}]
Send(batch) == [do |-> "send", batch |-> batch]
Mark(batch) == [do |-> "mark", batch |-> batch]
Fail(batch) == [do |-> "fail", batch |-> batch]

\* RunOnce: claim, and the retention deletes that end every pass.
Claim(d) ==
    LET batch == {[id |-> i, attempts |-> rows[i].attempts] : i \in Picked} IN
    /\ work[d] = << >>
    /\ rows' = Update(Picked, LAMBDA r : [r EXCEPT !.claim = "held"])
    /\ work' = [work EXCEPT ![d] =
                   IF batch = {} THEN <<Cleanup>> ELSE <<Send(batch), Cleanup>>]
    /\ UNCHANGED <<sink, isolated>>

Doing(d, do) == work[d] # << >> /\ Head(work[d]).do = do
Batch(d) == Head(work[d]).batch

\* The task at hand becomes these.
Becomes(d, tasks) == work' = [work EXCEPT ![d] = tasks \o Tail(work[d])]

Poisoned(batch) == \E i \in Ids(batch) : rows[i].poison

SendSucceeds(d) ==
    /\ Doing(d, "send")
    /\ ~Poisoned(Batch(d))
    /\ sink' = sink \cup Ids(Batch(d))
    /\ Becomes(d, <<Mark(Batch(d))>>)
    /\ UNCHANGED <<rows, isolated>>

\* Slip: a batch the sink could not take is marked as if it had.
SendFailsMarked(d) ==
    /\ Doing(d, "send")
    /\ Becomes(d, <<Mark(Batch(d))>>)
    /\ UNCHANGED <<rows, sink, isolated>>

\* The sink is away: nothing of the batch is stored, each row is to fail.
SendFails(d) ==
    /\ Doing(d, "send")
    /\ Becomes(d, <<Fail(Batch(d))>>)
    /\ UNCHANGED <<rows, sink, isolated>>

\* The sink stored the batch and its answer was lost.
SendAnswerLost(d) ==
    /\ Doing(d, "send")
    /\ ~Poisoned(Batch(d))
    /\ sink' = sink \cup Ids(Batch(d))
    /\ Becomes(d, <<Fail(Batch(d))>>)
    /\ UNCHANGED <<rows, isolated>>

\* Slip: the healthy half of a refused batch is forgotten.
RefusedHalfDropped(d) ==
    /\ Doing(d, "send")
    /\ Poisoned(Batch(d))
    /\ IF Cardinality(Batch(d)) = 1
       THEN Becomes(d, <<Fail(Batch(d))>>)
       ELSE \E left \in SUBSET Batch(d) :
               /\ Cardinality(left) = Cardinality(Batch(d)) \div 2
               /\ Becomes(d, <<Send(left), Mark(Batch(d) \ left)>>)
    /\ UNCHANGED <<rows, sink, isolated>>

\* PermanentSinkError: relay halves the batch until the bad row is alone.
SendRefused(d) ==
    /\ Doing(d, "send")
    /\ Poisoned(Batch(d))
    /\ IF Cardinality(Batch(d)) = 1
       THEN Becomes(d, <<Fail(Batch(d))>>)
       ELSE \E left \in SUBSET Batch(d) :
               /\ Cardinality(left) = Cardinality(Batch(d)) \div 2
               /\ Becomes(d, <<Send(left), Send(Batch(d) \ left)>>)
    /\ UNCHANGED <<rows, sink, isolated>>

MarkDispatched(d) ==
    /\ Doing(d, "mark")
    /\ rows' = Update(Ids(Batch(d)), LAMBDA r : [r EXCEPT !.dispatched = TRUE])
    /\ Becomes(d, << >>)
    /\ UNCHANGED <<sink, isolated>>

\* The statement fails: the rows stay under their lease.
MarkFails(d) ==
    /\ Doing(d, "mark")
    /\ Becomes(d, << >>)
    /\ UNCHANGED <<rows, sink, isolated>>

\* The rest of a failed batch, row by row.
Without(d, r) ==
    IF Batch(d) = {r} THEN << >> ELSE <<Fail(Batch(d) \ {r})>>

\* Slip: the count of the row is never raised.
FailureUncounted(d, r) ==
    /\ Doing(d, "fail")
    /\ r \in Batch(d)
    /\ rows' = Update({r.id}, LAMBDA row :
                   [row EXCEPT !.claim = "none", !.retry = "waiting"])
    /\ Becomes(d, Without(d, r))
    /\ UNCHANGED <<sink, isolated>>

\* recordFailure counts from what claim read and overwrites what the row has
\* become since: its lease, its back-off, its dead letter.
RecordFailure(d, r) ==
    LET dead == r.attempts + 1 >= MaxAttempts IN
    /\ Doing(d, "fail")
    /\ r \in Batch(d)
    /\ rows' = Update({r.id}, LAMBDA row :
                   [row EXCEPT !.attempts = r.attempts + 1,
                               !.claim = "none",
                               !.retry = IF dead THEN "due" ELSE "waiting",
                               !.dead = dead])
    /\ isolated' = IF dead /\ rows[r.id].state = "committed"
                   THEN isolated \cup {r.id} ELSE isolated
    /\ Becomes(d, Without(d, r))
    /\ UNCHANGED sink

FailureNotRecorded(d, r) ==
    /\ Doing(d, "fail")
    /\ r \in Batch(d)
    /\ Becomes(d, Without(d, r))
    /\ UNCHANGED <<rows, sink, isolated>>

\* Delivered rows past their retention are deleted, or the delete fails.
CleanUp(d) ==
    /\ Doing(d, "cleanup")
    /\ \E old \in SUBSET {i \in 1 .. Len(rows) : rows[i].dispatched} :
          rows' = Update(old, LAMBDA r : [r EXCEPT !.state = "deleted"])
    /\ Becomes(d, << >>)
    /\ UNCHANGED <<sink, isolated>>

\* The process dies anywhere in a pass and another takes its place.
Restart(d) ==
    /\ work' = [work EXCEPT ![d] = << >>]
    /\ UNCHANGED <<rows, sink, isolated>>

-----------------------------------------------------------------------------
(* The passing of time, while a claim may still look at the row. *)

LeaseLapses(i) ==
    /\ Undelivered(i)
    /\ rows[i].claim = "held"
    /\ rows' = [rows EXCEPT ![i].claim = "lapsed"]
    /\ UNCHANGED <<work, sink, isolated>>

RetryComesDue(i) ==
    /\ Undelivered(i)
    /\ rows[i].retry = "waiting"
    /\ rows' = [rows EXCEPT ![i].retry = "due"]
    /\ UNCHANGED <<work, sink, isolated>>

-----------------------------------------------------------------------------
Pass(d) ==
    \/ Claim(d)
    \/ SendSucceeds(d)
    \/ SendFails(d)
    \/ SendAnswerLost(d)
    \/ SendRefused(d)
    \/ MarkDispatched(d)
    \/ MarkFails(d)
    \/ /\ Doing(d, "fail")
       /\ \E r \in Batch(d) : RecordFailure(d, r) \/ FailureNotRecorded(d, r)
    \/ CleanUp(d)

Next ==
    \/ \E a \in Aggregates, poison \in BOOLEAN : Write(a, poison)
    \/ \E i \in 1 .. Len(rows) :
          Commit(i) \/ Rollback(i) \/ LeaseLapses(i) \/ RetryComesDue(i)
    \/ \E d \in Dispatchers : Pass(d) \/ Restart(d)

Spec == Init /\ [][Next]_vars
=============================================================================
