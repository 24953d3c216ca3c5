----------------------------- MODULE OutboxProofs -----------------------------
(***************************************************************************)
(* The outbox keeps its promise for any aggregates, dispatchers, batch and *)
(* limits. What a dispatcher holds may be stale in every respect but two:  *)
(* a claimed row stays committed, and what stood before it in its          *)
(* aggregate when it was claimed had been delivered or set aside and never *)
(* loses that again.                                                       *)
(***************************************************************************)
EXTENDS OutboxProperties, TLAPS

USE LimitsAssumption, LockedAssumption

\* Row i may go to the sink: it is committed, and nothing committed before it in
\* an ordered aggregate is still to be delivered.
Clean(i) ==
    /\ i \in Rows
    /\ Committed(i)
    /\ \A p \in Rows :
          /\ p < i /\ rows[p].of = rows[i].of /\ rows[i].of \in Locked
          /\ Committed(p)
          => p \in sink \cup isolated

\* What the columns of a row say of the sink.
RowsSound ==
    \A i \in Rows :
        /\ rows[i].dispatched => i \in sink
        /\ rows[i].dead => i \in isolated
        /\ rows[i].state = "deleted" => rows[i].dispatched

\* Of an ordered aggregate only the last row may be open.
TurnsTaken ==
    \A i, p \in Rows :
        p < i /\ rows[p].of = rows[i].of /\ rows[i].of \in Locked
            => rows[p].state # "open"

Sound(t) ==
    \A x \in t.batch : Clean(x.id) /\ (t.do = "mark" => x.id \in sink)

SoundWork ==
    \A d \in Dispatchers : \A k \in 1 .. Len(work[d]) : Sound(work[d][k])

SoundSink == \A i \in sink : Clean(i)

OutboxInv == TypeOK /\ RowsSound /\ TurnsTaken /\ SoundWork /\ SoundSink

-----------------------------------------------------------------------------
(* What a step may do to the rows that are there. *)

RowStep ==
    /\ rows' \in Seq(Row)
    /\ Len(rows') >= Len(rows)
    /\ \A i \in Rows :
          /\ rows'[i].of = rows[i].of
          /\ rows[i].state # "open" =>
                rows'[i].state # "open" /\ (Committed(i)' <=> Committed(i))
          /\ rows'[i].dispatched => i \in sink
          /\ rows'[i].dead => i \in isolated'
          /\ rows'[i].state = "deleted" => rows'[i].dispatched
    /\ sink \subseteq sink'
    /\ isolated \subseteq isolated'

LEMMA RowStepKeepsClean ==
    ASSUME OutboxInv, RowStep, NEW i, Clean(i)
    PROVE  Clean(i)'
<1>1. i \in Rows /\ i \in Rows' /\ Committed(i)'
    BY DEF OutboxInv, TypeOK, RowStep, Clean, Rows, Committed
<1>2. ASSUME NEW p \in Rows', p < i, rows'[p].of = rows'[i].of,
             rows'[i].of \in Locked, Committed(p)'
      PROVE  p \in sink' \cup isolated'
    <2>1. p \in Rows
        BY <1>1, <1>2 DEF OutboxInv, TypeOK, RowStep, Rows
    <2>2. rows[p].of = rows[i].of /\ rows[i].of \in Locked
        BY <1>1, <1>2, <2>1 DEF RowStep
    <2>3. rows[p].state # "open"
        BY <1>1, <1>2, <2>1, <2>2 DEF OutboxInv, TurnsTaken
    <2>4. Committed(p)
        BY <1>2, <2>1, <2>3 DEF RowStep
    <2> QED
        BY <1>2, <2>1, <2>2, <2>4 DEF Clean, RowStep
<1> QED
    BY <1>1, <1>2 DEF Clean

\* A step that adds no row keeps what rows, writers and sink say, as long as the
\* sink only takes what may go there.
LEMMA RowStepKeepsTable ==
    ASSUME OutboxInv, RowStep, Len(rows') = Len(rows),
           \A i \in sink' \ sink : Clean(i)
    PROVE  RowsSound' /\ TurnsTaken' /\ SoundSink' /\ sink' \subseteq 1 .. Len(rows)
<1>0. Rows' = Rows
    BY DEF Rows
<1>1. RowsSound'
    BY <1>0 DEF RowsSound, RowStep
<1>2. TurnsTaken'
    BY <1>0 DEF OutboxInv, TurnsTaken, RowStep
<1>3. \A i \in sink' : Clean(i)
    BY DEF OutboxInv, SoundSink
<1>4. SoundSink'
    BY <1>3, RowStepKeepsClean DEF SoundSink
<1> QED
    BY <1>1, <1>2, <1>3, <1>4 DEF Clean, Rows

-----------------------------------------------------------------------------
(* Lists of tasks. *)

LEMMA TasksReplaced ==
    ASSUME NEW s \in Seq(Task), s # << >>, NEW t \in Seq(Task)
    PROVE  /\ t \o Tail(s) \in Seq(Task)
           /\ \A k \in 1 .. Len(t \o Tail(s)) :
                 \/ \E j \in 1 .. Len(t) : (t \o Tail(s))[k] = t[j]
                 \/ \E j \in 1 .. Len(s) : (t \o Tail(s))[k] = s[j]
<1>1. Tail(s) \in Seq(Task) /\ Len(Tail(s)) = Len(s) - 1 /\ Len(s) \in Nat
    OBVIOUS
<1>2. \A j \in 1 .. Len(s) - 1 : Tail(s)[j] = s[j + 1]
    OBVIOUS
<1>3. t \o Tail(s) \in Seq(Task) /\ Len(t \o Tail(s)) = Len(t) + Len(s) - 1
    BY <1>1
<1>4. ASSUME NEW k \in 1 .. Len(t \o Tail(s))
      PROVE  \/ \E j \in 1 .. Len(t) : (t \o Tail(s))[k] = t[j]
             \/ \E j \in 1 .. Len(s) : (t \o Tail(s))[k] = s[j]
    <2>1. CASE k <= Len(t)
        BY <2>1, <1>1, <1>3
    <2>2. CASE k > Len(t)
        <3>1. (t \o Tail(s))[k] = Tail(s)[k - Len(t)]
            BY <2>2, <1>1, <1>3
        <3>2. k - Len(t) \in 1 .. Len(s) - 1
            BY <2>2, <1>3
        <3>3. k - Len(t) + 1 \in 1 .. Len(s)
            BY <3>2, <1>1
        <3> QED
            BY <3>1, <3>2, <3>3, <1>2
    <2> QED
        BY <2>1, <2>2, <1>1, <1>3
<1> QED
    BY <1>3, <1>4

\* What Sound says after the step of a task as it is now.
SoundNext(t) ==
    \A x \in t.batch : Clean(x.id)' /\ (t.do = "mark" => x.id \in sink')

\* The lists are made of old tasks and of new ones that are sound.
LEMMA WorkStaysSound ==
    ASSUME OutboxInv, RowStep,
           \A e \in Dispatchers : \A k \in 1 .. Len(work'[e]) :
              \/ SoundNext(work'[e][k])
              \/ \E j \in 1 .. Len(work[e]) : work'[e][k] = work[e][j]
    PROVE  SoundWork'
<1>1. SUFFICES ASSUME NEW e \in Dispatchers, NEW k \in 1 .. Len(work'[e])
               PROVE  SoundNext(work'[e][k])
    BY DEF SoundWork, Sound, SoundNext
<1>2. CASE \E j \in 1 .. Len(work[e]) : work'[e][k] = work[e][j]
    <2>1. PICK j \in 1 .. Len(work[e]) : work'[e][k] = work[e][j]
        BY <1>2
    <2>2. Sound(work[e][j])
        BY <1>1 DEF OutboxInv, SoundWork
    <2> QED
        BY <2>1, <2>2, RowStepKeepsClean DEF Sound, SoundNext, RowStep
<1> QED
    BY <1>1, <1>2

\* The task at hand gives way to sound ones.
LEMMA BecomesKeepsWork ==
    ASSUME OutboxInv, RowStep, NEW d \in Dispatchers, work[d] # << >>,
           NEW t \in Seq(Task), Becomes(d, t),
           \A j \in 1 .. Len(t) : SoundNext(t[j])
    PROVE  work' \in [Dispatchers -> Seq(Task)] /\ SoundWork'
<1>1. work \in [Dispatchers -> Seq(Task)]
    BY DEF OutboxInv, TypeOK
<1>2. work' = [work EXCEPT ![d] = t \o Tail(work[d])]
    BY DEF Becomes
<1>3. /\ t \o Tail(work[d]) \in Seq(Task)
      /\ \A k \in 1 .. Len(t \o Tail(work[d])) :
            \/ \E j \in 1 .. Len(t) : (t \o Tail(work[d]))[k] = t[j]
            \/ \E j \in 1 .. Len(work[d]) : (t \o Tail(work[d]))[k] = work[d][j]
    BY <1>1, TasksReplaced
<1>4. work' \in [Dispatchers -> Seq(Task)]
    BY <1>1, <1>2, <1>3
<1>5. ASSUME NEW e \in Dispatchers, NEW k \in 1 .. Len(work'[e])
      PROVE  \/ SoundNext(work'[e][k])
             \/ \E j \in 1 .. Len(work[e]) : work'[e][k] = work[e][j]
    <2>1. CASE e # d
        BY <2>1, <1>1, <1>2, <1>5
    <2>2. CASE e = d
        <3>1. work'[e] = t \o Tail(work[d])
            BY <2>2, <1>1, <1>2
        <3> QED
            BY <2>2, <3>1, <1>3, <1>5
    <2> QED
        BY <2>1, <2>2
<1> QED
    BY <1>4, <1>5, WorkStaysSound

LEMMA WorkUntouched ==
    ASSUME OutboxInv, RowStep, UNCHANGED work
    PROVE  work' \in [Dispatchers -> Seq(Task)] /\ SoundWork'
<1>1. work' \in [Dispatchers -> Seq(Task)]
    BY DEF OutboxInv, TypeOK
<1>2. SoundWork'
    BY WorkStaysSound
<1> QED
    BY <1>1, <1>2

-----------------------------------------------------------------------------
(* The steps. *)

\* A step that adds no row: what is left to show of it.
LEMMA TableStep ==
    ASSUME OutboxInv, RowStep, Len(rows') = Len(rows),
           \A i \in sink' \ sink : Clean(i),
           isolated' \subseteq 1 .. Len(rows),
           work' \in [Dispatchers -> Seq(Task)], SoundWork'
    PROVE  OutboxInv'
<1>1. RowsSound' /\ TurnsTaken' /\ SoundSink' /\ sink' \subseteq 1 .. Len(rows)
    BY RowStepKeepsTable
<1>2. TypeOK'
    BY <1>1 DEF TypeOK, RowStep
<1> QED
    BY <1>1, <1>2 DEF OutboxInv

\* The same rows, and perhaps more in the sink.
LEMMA SameRows ==
    ASSUME OutboxInv, UNCHANGED <<rows, isolated>>, sink \subseteq sink'
    PROVE  RowStep /\ Len(rows') = Len(rows) /\ isolated' \subseteq 1 .. Len(rows)
<1>1. Len(rows) \in Nat /\ rows \in Seq(Row) /\ isolated \subseteq 1 .. Len(rows)
    BY DEF OutboxInv, TypeOK
<1> QED
    BY <1>1 DEF OutboxInv, RowsSound, RowStep, Committed

\* Rows of which at most lease, retry and count change.
LEMMA SameVerdicts ==
    ASSUME OutboxInv, rows' \in Seq(Row), Len(rows') = Len(rows),
           \A i \in Rows : /\ rows'[i].of = rows[i].of
                           /\ rows'[i].state = rows[i].state
                           /\ rows'[i].dispatched = rows[i].dispatched
                           /\ rows'[i].dead = rows[i].dead,
           UNCHANGED <<sink, isolated>>
    PROVE  RowStep /\ isolated' \subseteq 1 .. Len(rows)
<1>1. Len(rows) \in Nat /\ isolated \subseteq 1 .. Len(rows)
    BY DEF OutboxInv, TypeOK
<1>2. \A i \in Rows : Committed(i)' <=> Committed(i)
    BY DEF Committed
<1> QED
    BY <1>1, <1>2 DEF OutboxInv, RowsSound, RowStep

\* What is claimed may go to the sink.
LEMMA ClaimableIsClean ==
    ASSUME OutboxInv, NEW i \in Claimable
    PROVE  Clean(i)
<1>1. i \in Rows /\ Committed(i)
    BY DEF Claimable, Undelivered, Rows, Committed
<1>2. ASSUME NEW p \in Rows, p < i, rows[p].of = rows[i].of, Committed(p)
      PROVE  p \in sink \cup isolated
    <2>1. p \in 1 .. i - 1
        BY <1>1, <1>2 DEF Rows, OutboxInv, TypeOK
    <2>2. ~Undelivered(p)
        BY <1>2, <2>1 DEF Claimable
    <2>3. rows[p].dispatched \/ rows[p].dead \/ rows[p].state = "deleted"
        BY <1>2, <2>2 DEF Undelivered, Committed
    <2> QED
        BY <1>2, <2>3 DEF OutboxInv, RowsSound
<1> QED
    BY <1>1, <1>2 DEF Clean

LEMMA ClaimStep ==
    ASSUME OutboxInv, NEW d \in Dispatchers, Claim(d)
    PROVE  OutboxInv' /\ RowStep /\ Len(rows') = Len(rows)
<1> DEFINE new(i) == IF i \in Picked /\ rows[i].state = "committed"
                     THEN [rows[i] EXCEPT !.claim = "held"] ELSE rows[i]
           batch == {[id |-> i, attempts |-> rows[i].attempts] : i \in Picked}
           tasks == IF batch = {} THEN <<Cleanup>> ELSE <<Send(batch), Cleanup>>
<1>1. /\ rows' = [i \in Rows |-> new(i)]
      /\ work' = [work EXCEPT ![d] = tasks]
      /\ UNCHANGED <<sink, isolated>>
    BY DEF Claim, Update, Rows
<1>2. Len(rows) \in Nat /\ \A i \in Rows : rows[i] \in Row
    BY DEF OutboxInv, TypeOK, Rows
<1>3. ASSUME NEW i \in Rows
      PROVE  /\ new(i) \in Row
             /\ new(i).of = rows[i].of
             /\ new(i).state = rows[i].state
             /\ new(i).dispatched = rows[i].dispatched
             /\ new(i).dead = rows[i].dead
    BY <1>2 DEF Row
<1> HIDE DEF new
<1>4. rows' \in Seq(Row) /\ Len(rows') = Len(rows)
    BY <1>1, <1>2, <1>3 DEF Rows
<1>5. RowStep /\ isolated' \subseteq 1 .. Len(rows)
    BY <1>1, <1>3, <1>4, SameVerdicts
<1>6. Picked \subseteq Claimable /\ Picked \subseteq Rows
    BY DEF Picked, Claimable, Rows
<1>7. \A x \in batch : x.id \in Picked /\ x \in Record
    BY <1>2, <1>6 DEF Record, Row, Rows
<1>8. \A x \in batch : Clean(x.id)'
    BY <1>5, <1>6, <1>7, ClaimableIsClean, RowStepKeepsClean
<1> HIDE DEF batch
<1>9. tasks \in Seq(Task) /\ \A k \in 1 .. Len(tasks) : SoundNext(tasks[k])
    <2>1. Send(batch) \in Task /\ Cleanup \in Task
        BY <1>7 DEF Send, Cleanup, Task
    <2>2. SoundNext(Send(batch)) /\ SoundNext(Cleanup)
        BY <1>8 DEF SoundNext, Send, Cleanup
    <2> QED
        BY <2>1, <2>2
<1> HIDE DEF tasks
<1>10. work' \in [Dispatchers -> Seq(Task)]
    BY <1>1, <1>9 DEF OutboxInv, TypeOK
<1>11. SoundWork'
    <2>1. \A e \in Dispatchers : work'[e] = IF e = d THEN tasks ELSE work[e]
        BY <1>1 DEF OutboxInv, TypeOK
    <2> QED
        BY <2>1, <1>5, <1>9, WorkStaysSound
<1> QED
    BY <1>1, <1>4, <1>5, <1>10, <1>11, TableStep

\* The batch at hand.
LEMMA AtHand ==
    ASSUME OutboxInv, NEW d \in Dispatchers, NEW do, Doing(d, do)
    PROVE  /\ work[d] # << >>
           /\ Batch(d) \subseteq Record
           /\ \A x \in Batch(d) : Clean(x.id)
           /\ do = "mark" => \A x \in Batch(d) : x.id \in sink
<1>1. work[d] \in Seq(Task) /\ work[d] # << >> /\ Head(work[d]).do = do
    BY DEF OutboxInv, TypeOK, Doing
<1>2. 1 \in 1 .. Len(work[d]) /\ Head(work[d]) = work[d][1]
    BY <1>1
<1>3. Sound(work[d][1]) /\ work[d][1] \in Task
    BY <1>1, <1>2 DEF OutboxInv, SoundWork
<1> QED
    BY <1>1, <1>2, <1>3 DEF Batch, Sound, Task

\* What becomes of a batch is made of parts of it.
LEMMA PartsOfBatch ==
    ASSUME OutboxInv, RowStep, NEW d \in Dispatchers, NEW do, Doing(d, do),
           NEW part, part \subseteq Batch(d)
    PROVE  /\ Send(part) \in Task /\ SoundNext(Send(part))
           /\ Fail(part) \in Task /\ SoundNext(Fail(part))
           /\ Ids(part) \subseteq sink' =>
                 Mark(part) \in Task /\ SoundNext(Mark(part))
<1>1. part \subseteq Record /\ \A x \in part : Clean(x.id)'
    BY AtHand, RowStepKeepsClean
<1> QED
    BY <1>1 DEF Send, Fail, Mark, Task, SoundNext, Ids

LEMMA SendStep ==
    ASSUME OutboxInv, NEW d \in Dispatchers,
           \/ SendSucceeds(d) \/ SendFails(d) \/ SendAnswerLost(d)
           \/ SendRefused(d)
    PROVE  OutboxInv' /\ RowStep /\ Len(rows') = Len(rows)
<1>1. Doing(d, "send") /\ UNCHANGED <<rows, isolated>>
    BY DEF SendSucceeds, SendFails, SendAnswerLost, SendRefused
<1>2. sink' = sink \/ sink' = sink \cup Ids(Batch(d))
    BY DEF SendSucceeds, SendFails, SendAnswerLost, SendRefused
<1>3. RowStep /\ Len(rows') = Len(rows) /\ isolated' \subseteq 1 .. Len(rows)
    BY <1>1, <1>2, SameRows
<1>4. \A i \in sink' \ sink : Clean(i)
    BY <1>1, <1>2, AtHand DEF Ids
<1>5. /\ work[d] # << >>
      /\ \E t \in Seq(Task) :
            Becomes(d, t) /\ \A j \in 1 .. Len(t) : SoundNext(t[j])
    <2>0. work[d] # << >>
        BY <1>1 DEF Doing
    <2>1. CASE SendSucceeds(d)
        <3>1. Mark(Batch(d)) \in Task /\ SoundNext(Mark(Batch(d)))
            BY <1>1, <1>3, <2>1, PartsOfBatch DEF SendSucceeds
        <3>2. Becomes(d, <<Mark(Batch(d))>>)
            BY <2>1 DEF SendSucceeds
        <3>3. <<Mark(Batch(d))>> \in Seq(Task)
            BY <3>1
        <3>4. \A j \in 1 .. Len(<<Mark(Batch(d))>>) : SoundNext(<<Mark(Batch(d))>>[j])
            BY <3>1
        <3> QED
            BY <2>0, <3>2, <3>3, <3>4
    <2>2. CASE Becomes(d, <<Fail(Batch(d))>>)
        <3>1. Fail(Batch(d)) \in Task /\ SoundNext(Fail(Batch(d)))
            BY <1>1, <1>3, PartsOfBatch
        <3>2. <<Fail(Batch(d))>> \in Seq(Task)
            BY <3>1
        <3>3. \A j \in 1 .. Len(<<Fail(Batch(d))>>) : SoundNext(<<Fail(Batch(d))>>[j])
            BY <3>1
        <3> QED
            BY <2>0, <2>2, <3>2, <3>3
    <2>3. CASE \E left \in SUBSET Batch(d) :
                  Becomes(d, <<Send(left), Send(Batch(d) \ left)>>)
        <3>1. PICK left \in SUBSET Batch(d) :
                  Becomes(d, <<Send(left), Send(Batch(d) \ left)>>)
            BY <2>3
        <3> DEFINE one == Send(left)
                   two == Send(Batch(d) \ left)
        <3>2. one \in Task /\ SoundNext(one) /\ two \in Task /\ SoundNext(two)
            <4>1. left \subseteq Batch(d) /\ Batch(d) \ left \subseteq Batch(d)
                OBVIOUS
            <4> QED
                BY <1>1, <1>3, <4>1, PartsOfBatch
        <3>3. Becomes(d, <<one, two>>)
            BY <3>1
        <3> HIDE DEF one, two
        <3>4. <<one, two>> \in Seq(Task)
            BY <3>2
        <3>5. \A j \in 1 .. Len(<<one, two>>) : SoundNext(<<one, two>>[j])
            BY <3>2
        <3> QED
            BY <2>0, <3>3, <3>4, <3>5
    <2> QED
        BY <2>1, <2>2, <2>3 DEF SendFails, SendAnswerLost, SendRefused
<1>6. work' \in [Dispatchers -> Seq(Task)] /\ SoundWork'
    BY <1>3, <1>5, BecomesKeepsWork
<1> QED
    BY <1>3, <1>4, <1>6, TableStep

\* A task is over, or leaves the rest of a failed batch.
LEMMA RestKeepsWork ==
    ASSUME OutboxInv, RowStep, NEW d \in Dispatchers, NEW do, Doing(d, do),
           \/ Becomes(d, << >>)
           \/ \E r \in Batch(d) : Becomes(d, Without(d, r))
    PROVE  work' \in [Dispatchers -> Seq(Task)] /\ SoundWork'
<1>0. work[d] # << >>
    BY DEF Doing
<1>1. CASE Becomes(d, << >>)
    <2>1. << >> \in Seq(Task) /\ \A j \in 1 .. Len(<< >>) : SoundNext(<< >>[j])
        OBVIOUS
    <2> QED
        BY <1>0, <1>1, <2>1, BecomesKeepsWork
<1>2. CASE \E r \in Batch(d) : Becomes(d, <<Fail(Batch(d) \ {r})>>)
    <2>1. PICK r \in Batch(d) : Becomes(d, <<Fail(Batch(d) \ {r})>>)
        BY <1>2
    <2> DEFINE rest == Fail(Batch(d) \ {r})
    <2>2. rest \in Task /\ SoundNext(rest)
        <3>1. Batch(d) \ {r} \subseteq Batch(d)
            OBVIOUS
        <3> QED
            BY <3>1, PartsOfBatch
    <2>3. Becomes(d, <<rest>>)
        BY <2>1
    <2> HIDE DEF rest
    <2>4. <<rest>> \in Seq(Task) /\ \A j \in 1 .. Len(<<rest>>) : SoundNext(<<rest>>[j])
        BY <2>2
    <2> QED
        BY <1>0, <2>3, <2>4, BecomesKeepsWork
<1> QED
    BY <1>1, <1>2 DEF Without

LEMMA ForgottenStep ==
    ASSUME OutboxInv, NEW d \in Dispatchers,
           MarkFails(d) \/ \E r \in Batch(d) : FailureNotRecorded(d, r)
    PROVE  OutboxInv' /\ RowStep /\ Len(rows') = Len(rows)
<1>1. /\ UNCHANGED <<rows, sink, isolated>>
      /\ Doing(d, "mark") \/ Doing(d, "fail")
      /\ \/ Becomes(d, << >>)
         \/ \E r \in Batch(d) : Becomes(d, Without(d, r))
    BY DEF MarkFails, FailureNotRecorded
<1>2. RowStep /\ Len(rows') = Len(rows) /\ isolated' \subseteq 1 .. Len(rows)
    BY <1>1, SameRows
<1>3. work' \in [Dispatchers -> Seq(Task)] /\ SoundWork'
    BY <1>1, <1>2, RestKeepsWork
<1> QED
    BY <1>1, <1>2, <1>3, TableStep

LEMMA RestartStep ==
    ASSUME OutboxInv, NEW d \in Dispatchers, Restart(d)
    PROVE  OutboxInv' /\ RowStep /\ Len(rows') = Len(rows)
<1>1. work' = [work EXCEPT ![d] = << >>] /\ UNCHANGED <<rows, sink, isolated>>
    BY DEF Restart
<1>2. RowStep /\ Len(rows') = Len(rows) /\ isolated' \subseteq 1 .. Len(rows)
    BY <1>1, SameRows
<1>3. work' \in [Dispatchers -> Seq(Task)]
    BY <1>1 DEF OutboxInv, TypeOK
<1>4. \A e \in Dispatchers : work'[e] = IF e = d THEN << >> ELSE work[e]
    BY <1>1 DEF OutboxInv, TypeOK
<1>5. SoundWork'
    BY <1>2, <1>4, WorkStaysSound
<1> QED
    BY <1>1, <1>2, <1>3, <1>5, TableStep

\* Statements that change rows in place: each new row, and what it keeps.
LEMMA InPlace ==
    ASSUME OutboxInv, NEW new, rows' = [i \in Rows |-> new[i]],
           \A i \in Rows :
              /\ new[i] \in Row
              /\ new[i].of = rows[i].of
              /\ \/ new[i].state = rows[i].state
                 \/ rows[i].state = "committed" /\ new[i].state = "deleted"
                 \/ rows[i].state = "open"
              /\ new[i].dispatched => i \in sink
              /\ new[i].dead => i \in isolated'
              /\ new[i].state = "deleted" => new[i].dispatched,
           UNCHANGED sink, isolated \subseteq isolated'
    PROVE  RowStep /\ Len(rows') = Len(rows)
<1>1. Len(rows) \in Nat
    BY DEF OutboxInv, TypeOK
<1>2. rows' \in Seq(Row) /\ Len(rows') = Len(rows)
    BY <1>1 DEF Rows
<1>3. \A i \in Rows : rows'[i] = new[i]
    OBVIOUS
<1>4. \A i \in Rows : rows[i].state # "open" =>
          rows'[i].state # "open" /\ (Committed(i)' <=> Committed(i))
    BY <1>3 DEF Committed
<1> QED
    BY <1>1, <1>2, <1>3, <1>4 DEF RowStep

LEMMA MarkStep ==
    ASSUME OutboxInv, NEW d \in Dispatchers, MarkDispatched(d)
    PROVE  OutboxInv' /\ RowStep /\ Len(rows') = Len(rows)
<1> DEFINE new == [i \in Rows |->
                      IF i \in Ids(Batch(d)) /\ rows[i].state = "committed"
                      THEN [rows[i] EXCEPT !.dispatched = TRUE] ELSE rows[i]]
<1>1. /\ Doing(d, "mark")
      /\ rows' = [i \in Rows |-> new[i]]
      /\ Becomes(d, << >>)
      /\ UNCHANGED <<sink, isolated>>
    BY DEF MarkDispatched, Update, Rows
<1>2. Ids(Batch(d)) \subseteq sink
    BY <1>1, AtHand DEF Ids
<1>3. \A i \in Rows : rows[i] \in Row
    BY DEF OutboxInv, TypeOK, Rows
<1>4. ASSUME NEW i \in Rows
      PROVE  /\ new[i] \in Row
             /\ new[i].of = rows[i].of
             /\ new[i].state = rows[i].state
             /\ new[i].dispatched => i \in sink
             /\ new[i].dead => i \in isolated
             /\ new[i].state = "deleted" => new[i].dispatched
    <2>1. CASE i \in Ids(Batch(d)) /\ rows[i].state = "committed"
        BY <2>1, <1>2, <1>3 DEF OutboxInv, RowsSound, Row
    <2>2. CASE ~(i \in Ids(Batch(d)) /\ rows[i].state = "committed")
        BY <2>2, <1>3 DEF OutboxInv, RowsSound
    <2> QED
        BY <2>1, <2>2
<1> HIDE DEF new
<1>5. RowStep /\ Len(rows') = Len(rows)
    BY <1>1, <1>4, InPlace
<1>6. work' \in [Dispatchers -> Seq(Task)] /\ SoundWork'
    BY <1>1, <1>5, RestKeepsWork
<1>7. isolated' \subseteq 1 .. Len(rows)
    BY <1>1 DEF OutboxInv, TypeOK
<1> QED
    BY <1>1, <1>5, <1>6, <1>7, TableStep

LEMMA FailureStep ==
    ASSUME OutboxInv, NEW d \in Dispatchers, NEW r \in Batch(d),
           RecordFailure(d, r)
    PROVE  OutboxInv' /\ RowStep /\ Len(rows') = Len(rows)
<1> DEFINE lost == r.attempts + 1 >= MaxAttempts
           count == r.attempts + 1
           wait == IF lost THEN "due" ELSE "waiting"
           failed(row) == [row EXCEPT !.attempts = count, !.claim = "none",
                                      !.retry = wait, !.dead = lost]
           new == [i \in Rows |->
                      IF i \in {r.id} /\ rows[i].state = "committed"
                      THEN failed(rows[i]) ELSE rows[i]]
<1>1. /\ Doing(d, "fail")
      /\ rows' = [i \in Rows |-> new[i]]
      /\ isolated' = IF lost /\ rows[r.id].state = "committed"
                     THEN isolated \cup {r.id} ELSE isolated
      /\ Becomes(d, Without(d, r))
      /\ UNCHANGED sink
    BY DEF RecordFailure, Update, Rows
<1>2. r \in Record /\ r.id \in Rows
    BY <1>1, AtHand DEF Clean
<1>3. \A i \in Rows : rows[i] \in Row
    BY DEF OutboxInv, TypeOK, Rows
<1>4. ASSUME NEW i \in Rows
      PROVE  /\ new[i] \in Row
             /\ new[i].of = rows[i].of
             /\ new[i].state = rows[i].state
             /\ new[i].dispatched => i \in sink
             /\ new[i].dead => i \in isolated'
             /\ new[i].state = "deleted" => new[i].dispatched
    <2>1. CASE i = r.id /\ rows[i].state = "committed"
        <3>1. new[i] = failed(rows[i])
            BY <2>1
        <3>2. /\ failed(rows[i]) \in Row
              /\ failed(rows[i]).of = rows[i].of
              /\ failed(rows[i]).state = rows[i].state
              /\ failed(rows[i]).dispatched = rows[i].dispatched
              /\ failed(rows[i]).dead = lost
            <4>1. count \in Nat /\ lost \in BOOLEAN /\ rows[i] \in Row
                BY <1>2, <1>3 DEF Record
            <4>2. wait \in {"due", "waiting"}
                OBVIOUS
            <4>3. CASE lost
                <5>1. failed(rows[i]) = [rows[i] EXCEPT !.attempts = count,
                          !.claim = "none", !.retry = wait, !.dead = TRUE]
                    BY <4>3
                <5> HIDE DEF count, wait, failed, lost
                <5> QED
                    BY <4>1, <4>2, <4>3, <5>1 DEF Row
            <4>4. CASE ~lost
                <5>1. failed(rows[i]) = [rows[i] EXCEPT !.attempts = count,
                          !.claim = "none", !.retry = wait, !.dead = FALSE]
                    <6>1. lost = FALSE
                        BY <4>4
                    <6> HIDE DEF lost, count, wait
                    <6> QED
                        BY <6>1
                <5> HIDE DEF count, wait, failed, lost
                <5> QED
                    BY <4>1, <4>2, <4>4, <5>1 DEF Row
            <4> QED
                BY <4>3, <4>4
        <3> HIDE DEF failed, new
        <3> QED
            BY <2>1, <3>1, <3>2, <1>1 DEF OutboxInv, RowsSound
    <2>2. CASE ~(i = r.id /\ rows[i].state = "committed")
        BY <2>2, <1>1, <1>3 DEF OutboxInv, RowsSound
    <2> QED
        BY <2>1, <2>2
<1> HIDE DEF new
<1>5. isolated \subseteq isolated' /\ isolated' \subseteq 1 .. Len(rows)
    BY <1>1, <1>2 DEF OutboxInv, TypeOK, Rows
<1>6. RowStep /\ Len(rows') = Len(rows)
    BY <1>1, <1>4, <1>5, InPlace
<1>7. work' \in [Dispatchers -> Seq(Task)] /\ SoundWork'
    BY <1>1, <1>6, RestKeepsWork
<1> QED
    BY <1>1, <1>5, <1>6, <1>7, TableStep

LEMMA CleanUpStep ==
    ASSUME OutboxInv, NEW d \in Dispatchers, CleanUp(d)
    PROVE  OutboxInv' /\ RowStep /\ Len(rows') = Len(rows)
<1>1. PICK old \in SUBSET {i \in Rows : rows[i].dispatched} :
          rows' = Update(old, LAMBDA r : [r EXCEPT !.state = "deleted"])
    BY DEF CleanUp, Rows
<1> DEFINE new == [i \in Rows |->
                      IF i \in old /\ rows[i].state = "committed"
                      THEN [rows[i] EXCEPT !.state = "deleted"] ELSE rows[i]]
<1>2. /\ Doing(d, "cleanup")
      /\ rows' = [i \in Rows |-> new[i]]
      /\ Becomes(d, << >>)
      /\ UNCHANGED <<sink, isolated>>
    BY <1>1 DEF CleanUp, Update, Rows
<1>3. \A i \in Rows : rows[i] \in Row
    BY DEF OutboxInv, TypeOK, Rows
<1>4. ASSUME NEW i \in Rows
      PROVE  /\ new[i] \in Row
             /\ new[i].of = rows[i].of
             /\ \/ new[i].state = rows[i].state
                \/ rows[i].state = "committed" /\ new[i].state = "deleted"
             /\ new[i].dispatched => i \in sink
             /\ new[i].dead => i \in isolated
             /\ new[i].state = "deleted" => new[i].dispatched
    <2>1. CASE i \in old /\ rows[i].state = "committed"
        <3>1. rows[i].dispatched
            BY <2>1
        <3>2. /\ new[i] \in Row
              /\ new[i].of = rows[i].of
              /\ new[i].state = "deleted"
              /\ new[i].dispatched = rows[i].dispatched
              /\ new[i].dead = rows[i].dead
            BY <2>1, <1>3 DEF Row
        <3> HIDE DEF new
        <3> QED
            BY <2>1, <3>1, <3>2 DEF OutboxInv, RowsSound
    <2>2. CASE ~(i \in old /\ rows[i].state = "committed")
        BY <2>2, <1>3 DEF OutboxInv, RowsSound
    <2> QED
        BY <2>1, <2>2
<1> HIDE DEF new
<1>5. RowStep /\ Len(rows') = Len(rows)
    BY <1>2, <1>4, InPlace
<1>6. work' \in [Dispatchers -> Seq(Task)] /\ SoundWork'
    BY <1>2, <1>5, RestKeepsWork
<1>7. isolated' \subseteq 1 .. Len(rows)
    BY <1>2 DEF OutboxInv, TypeOK
<1> QED
    BY <1>2, <1>5, <1>6, <1>7, TableStep

\* One row is replaced.
LEMMA OneRow ==
    ASSUME NEW s \in Seq(Row), NEW i \in 1 .. Len(s), NEW v \in Row, NEW t,
           t = [s EXCEPT ![i] = v]
    PROVE  /\ t \in Seq(Row)
           /\ Len(t) = Len(s)
           /\ \A k \in 1 .. Len(s) : t[k] = IF k = i THEN v ELSE s[k]
OBVIOUS

LEMMA TimeStep ==
    ASSUME OutboxInv, NEW i \in Rows, LeaseLapses(i) \/ RetryComesDue(i)
    PROVE  OutboxInv' /\ RowStep /\ Len(rows') = Len(rows)
<1>1. rows \in Seq(Row) /\ i \in 1 .. Len(rows) /\ rows[i] \in Row
    BY DEF OutboxInv, TypeOK, Rows
<1>2. PICK v \in Row :
          /\ v.of = rows[i].of /\ v.state = rows[i].state
          /\ v.dispatched = rows[i].dispatched /\ v.dead = rows[i].dead
          /\ rows' = [rows EXCEPT ![i] = v]
    <2>1. CASE LeaseLapses(i)
        <3> DEFINE v == [rows[i] EXCEPT !.claim = "lapsed"]
        <3>1. rows' = [rows EXCEPT ![i] = v]
            BY <2>1, <1>1 DEF LeaseLapses
        <3>2. /\ v \in Row
              /\ v.of = rows[i].of /\ v.state = rows[i].state
              /\ v.dispatched = rows[i].dispatched /\ v.dead = rows[i].dead
            BY <1>1 DEF Row
        <3> QED
            BY <3>1, <3>2
    <2>2. CASE RetryComesDue(i)
        <3> DEFINE v == [rows[i] EXCEPT !.retry = "due"]
        <3>1. rows' = [rows EXCEPT ![i] = v]
            BY <2>2, <1>1 DEF RetryComesDue
        <3>2. /\ v \in Row
              /\ v.of = rows[i].of /\ v.state = rows[i].state
              /\ v.dispatched = rows[i].dispatched /\ v.dead = rows[i].dead
            BY <1>1 DEF Row
        <3> QED
            BY <3>1, <3>2
    <2> QED
        BY <2>1, <2>2
<1>3. /\ rows' \in Seq(Row) /\ Len(rows') = Len(rows)
      /\ UNCHANGED <<work, sink, isolated>>
    BY <1>1, <1>2, OneRow DEF LeaseLapses, RetryComesDue
<1>4. \A k \in Rows : /\ rows'[k].of = rows[k].of
                      /\ rows'[k].state = rows[k].state
                      /\ rows'[k].dispatched = rows[k].dispatched
                      /\ rows'[k].dead = rows[k].dead
    <2>1. \A k \in Rows : rows'[k] = IF k = i THEN v ELSE rows[k]
        BY <1>1, <1>2, OneRow DEF Rows
    <2> QED
        BY <1>2, <2>1
<1>5. RowStep /\ isolated' \subseteq 1 .. Len(rows)
    BY <1>3, <1>4, SameVerdicts
<1>6. work' \in [Dispatchers -> Seq(Task)] /\ SoundWork'
    BY <1>3, <1>5, WorkUntouched
<1> QED
    BY <1>3, <1>5, <1>6, TableStep

LEMMA FinishStep ==
    ASSUME OutboxInv, NEW i \in Rows, Commit(i) \/ Rollback(i)
    PROVE  OutboxInv' /\ RowStep /\ Len(rows') = Len(rows)
<1>1. PICK st \in {"committed", "undone"} : Finish(i, st)
    BY DEF Commit, Rollback
<1>2. /\ rows[i].state = "open"
      /\ rows' = [rows EXCEPT ![i].state = st]
      /\ UNCHANGED <<work, sink, isolated>>
    BY <1>1 DEF Finish
<1>3. rows \in Seq(Row) /\ \A k \in Rows : rows[k] \in Row
    BY DEF OutboxInv, TypeOK, Rows
<1> DEFINE new == [k \in Rows |-> IF k = i THEN [rows[i] EXCEPT !.state = st]
                                           ELSE rows[k]]
<1>4. rows' = [k \in Rows |-> new[k]]
    <2> DEFINE v == [rows[i] EXCEPT !.state = st]
    <2>1. v \in Row /\ i \in 1 .. Len(rows)
        BY <1>3 DEF Row, Rows
    <2>2. rows' = [rows EXCEPT ![i] = v]
        BY <1>2, <1>3
    <2> HIDE DEF v
    <2>3. /\ rows' \in Seq(Row) /\ Len(rows') = Len(rows)
          /\ \A k \in Rows : rows'[k] = IF k = i THEN v ELSE rows[k]
        BY <1>3, <2>1, <2>2, OneRow DEF Rows
    <2>4. rows' = [k \in Rows |-> rows'[k]]
        BY <2>3 DEF Rows
    <2> QED
        BY <2>3, <2>4 DEF v
<1>5. ASSUME NEW k \in Rows
      PROVE  /\ new[k] \in Row
             /\ new[k].of = rows[k].of
             /\ new[k].state = rows[k].state \/ rows[k].state = "open"
             /\ new[k].dispatched = rows[k].dispatched
             /\ new[k].dead = rows[k].dead
             /\ new[k].state = "deleted" => rows[k].state = "deleted"
    <2>1. CASE k = i
        <3>1. new[k] = [rows[i] EXCEPT !.state = st]
            BY <2>1
        <3> HIDE DEF new
        <3> QED
            BY <2>1, <3>1, <1>2, <1>3 DEF Row
    <2>2. CASE k # i
        BY <2>2, <1>3
    <2> QED
        BY <2>1, <2>2
<1> HIDE DEF new
<1>6. \A k \in Rows : /\ new[k].dispatched => k \in sink
                      /\ new[k].dead => k \in isolated
                      /\ new[k].state = "deleted" => new[k].dispatched
    BY <1>5 DEF OutboxInv, RowsSound
<1>7. RowStep /\ Len(rows') = Len(rows)
    BY <1>2, <1>4, <1>5, <1>6, InPlace
<1>8. work' \in [Dispatchers -> Seq(Task)] /\ SoundWork'
    BY <1>2, <1>7, WorkUntouched
<1>9. isolated' \subseteq 1 .. Len(rows)
    BY <1>2 DEF OutboxInv, TypeOK
<1> QED
    BY <1>2, <1>7, <1>8, <1>9, TableStep

\* A new row is the last of its aggregate, and of an ordered one nobody else is
\* open beside it.
LEMMA WriteStep ==
    ASSUME OutboxInv, NEW a \in Aggregates, NEW poison \in BOOLEAN,
           Write(a, poison)
    PROVE  OutboxInv' /\ RowStep
<1> DEFINE n == Len(rows) + 1
           new == [of |-> a, poison |-> poison, state |-> "open",
                   claim |-> "none", retry |-> "due", attempts |-> 0,
                   dispatched |-> FALSE, dead |-> FALSE]
<1>1. /\ rows' = Append(rows, new)
      /\ UNCHANGED <<work, sink, isolated>>
      /\ a \in Locked => \A i \in Rows : rows[i].of = a => rows[i].state # "open"
    BY DEF Write, Rows
<1>2. rows \in Seq(Row) /\ Len(rows) \in Nat
    BY DEF OutboxInv, TypeOK
<1>3. new \in Row
    BY DEF Row
<1>4. /\ new.of = a /\ new.state = "open"
      /\ new.dispatched = FALSE /\ new.dead = FALSE
    OBVIOUS
<1> HIDE DEF new
<1>5. /\ rows' \in Seq(Row) /\ Len(rows') = n
      /\ rows'[n] = new
      /\ \A i \in Rows : rows'[i] = rows[i]
    BY <1>1, <1>2, <1>3 DEF Rows
<1>6. Rows' = Rows \cup {n} /\ \A i \in Rows : i < n
    BY <1>2, <1>5 DEF Rows
<1> HIDE DEF n
<1>7. RowStep
    <2>1. \A i \in Rows : Committed(i)' <=> Committed(i)
        BY <1>5 DEF Committed
    <2>2. Len(rows') >= Len(rows)
        BY <1>2, <1>5 DEF n
    <2> QED
        BY <1>1, <1>5, <2>1, <2>2 DEF RowStep, OutboxInv, RowsSound
<1>8. work' \in [Dispatchers -> Seq(Task)] /\ SoundWork'
    BY <1>1, <1>7, WorkUntouched
<1>9. TypeOK'
    BY <1>1, <1>2, <1>5, <1>8 DEF OutboxInv, TypeOK, n
<1>10. RowsSound'
    <2>1. ASSUME NEW i \in Rows
          PROVE  /\ rows'[i].dispatched => i \in sink'
                 /\ rows'[i].dead => i \in isolated'
                 /\ rows'[i].state = "deleted" => rows'[i].dispatched
        BY <1>1, <1>5 DEF OutboxInv, RowsSound
    <2>2. /\ rows'[n].dispatched => n \in sink'
          /\ rows'[n].dead => n \in isolated'
          /\ rows'[n].state = "deleted" => rows'[n].dispatched
        BY <1>4, <1>5
    <2> QED
        BY <1>6, <2>1, <2>2 DEF RowsSound
<1>11. TurnsTaken'
    <2>1. ASSUME NEW i \in Rows', NEW p \in Rows', p < i,
                 rows'[p].of = rows'[i].of, rows'[i].of \in Locked
          PROVE  rows'[p].state # "open"
        <3>1. p \in Rows
            BY <1>2, <1>6, <2>1 DEF Rows, n
        <3>2. CASE i \in Rows
            BY <1>5, <2>1, <3>1, <3>2 DEF OutboxInv, TurnsTaken
        <3>3. CASE i = n
            BY <1>1, <1>4, <1>5, <2>1, <3>1, <3>3
        <3> QED
            BY <1>6, <2>1, <3>2, <3>3
    <2> QED
        BY <2>1 DEF TurnsTaken
<1>12. SoundSink'
    BY <1>1, <1>7, RowStepKeepsClean DEF OutboxInv, SoundSink
<1> QED
    BY <1>7, <1>8, <1>9, <1>10, <1>11, <1>12 DEF OutboxInv

-----------------------------------------------------------------------------
(* The theorems. *)

LEMMA StepKeepsInv ==
    ASSUME OutboxInv, [Next]_vars
    PROVE  OutboxInv' /\ RowStep
<1>1. CASE \E a \in Aggregates, poison \in BOOLEAN : Write(a, poison)
    BY <1>1, WriteStep
<1>2. CASE \E i \in Rows :
              Commit(i) \/ Rollback(i) \/ LeaseLapses(i) \/ RetryComesDue(i)
    BY <1>2, FinishStep, TimeStep
<1>3. CASE \E d \in Dispatchers : Pass(d) \/ Restart(d)
    <2> PICK d \in Dispatchers : Pass(d) \/ Restart(d)
        BY <1>3
    <2>1. CASE \E r \in Batch(d) : RecordFailure(d, r)
        BY <2>1, FailureStep
    <2> QED
        BY <2>1, ClaimStep, SendStep, MarkStep, ForgottenStep, CleanUpStep,
           RestartStep DEF Pass
<1>4. CASE UNCHANGED vars
    <2>1. UNCHANGED <<rows, work, sink, isolated>>
        BY <1>4 DEF vars
    <2>2. RowStep /\ Len(rows') = Len(rows) /\ isolated' \subseteq 1 .. Len(rows)
        BY <2>1, SameRows
    <2>3. work' \in [Dispatchers -> Seq(Task)] /\ SoundWork'
        BY <2>1, <2>2, WorkUntouched
    <2> QED
        BY <2>1, <2>2, <2>3, TableStep
<1> QED
    BY <1>1, <1>2, <1>3, <1>4 DEF Next, Rows

\* The invariant of the table, the sink and everything dispatchers hold.
THEOREM OutboxInvariant == Spec => []OutboxInv
<1>1. Init => OutboxInv
    BY DEF Init, OutboxInv, TypeOK, RowsSound, TurnsTaken, SoundWork, SoundSink,
       Rows
<1>2. OutboxInv /\ [Next]_vars => OutboxInv'
    BY StepKeepsInv
<1> QED
    BY <1>1, <1>2, PTL DEF Spec

\* Nothing is marked dispatched, and so nothing is deleted, that the sink does not
\* have (dispatcher.go markDispatched, cleanup), whoever marks it and when.
THEOREM MarksAreTrue == Spec => []MarkedIsStored
<1>1. OutboxInv => MarkedIsStored
    BY DEF OutboxInv, RowsSound, MarkedIsStored
<1> QED
    BY <1>1, OutboxInvariant, PTL

\* What reaches the sink may go there.
LEMMA SinkTakesClean ==
    ASSUME OutboxInv, Next, sink' # sink
    PROVE  /\ UNCHANGED <<rows, isolated>>
           /\ sink \subseteq sink'
           /\ \A i \in sink' : Clean(i)
<1>1. PICK d \in Dispatchers : SendSucceeds(d) \/ SendAnswerLost(d)
    BY DEF Next, Pass, Write, Commit, Rollback, Finish, LeaseLapses,
       RetryComesDue, Claim, SendFails, SendRefused, MarkDispatched, MarkFails,
       RecordFailure, FailureNotRecorded, CleanUp, Restart
<1>2. /\ Doing(d, "send") /\ sink' = sink \cup Ids(Batch(d))
      /\ UNCHANGED <<rows, isolated>>
    BY <1>1 DEF SendSucceeds, SendAnswerLost
<1> QED
    BY <1>2, AtHand DEF OutboxInv, SoundSink, Ids

\* Where writers take turns, events reach the sink in their order, except those
\* that were dead-lettered (the claim query of dispatcher.go), although leases
\* lapse and several dispatchers hold the same rows.
THEOREM DeliveryIsInOrder == Spec => InOrder
<1>1. OutboxInv /\ [Next]_vars =>
        [\A i \in sink' \ sink : \A j \in sink' \ {i} :
          rows[j].of = rows[i].of /\ rows[i].of \in Locked
              => j < i \/ i \in isolated]_vars
    <2> SUFFICES ASSUME OutboxInv, Next, NEW i \in sink' \ sink,
                        NEW j \in sink' \ {i},
                        rows[j].of = rows[i].of, rows[i].of \in Locked
                 PROVE  j < i \/ i \in isolated
        OBVIOUS
    <2>1. Clean(i) /\ Clean(j)
        BY SinkTakesClean
    <2>2. i \in Rows /\ j \in Rows /\ Committed(i)
        BY <2>1 DEF Clean
    <2>3. CASE i < j
        BY <2>1, <2>2, <2>3 DEF Clean
    <2> QED
        BY <2>2, <2>3 DEF Rows, OutboxInv, TypeOK
<1> QED
    BY <1>1, OutboxInvariant, PTL DEF Spec, InOrder

-----------------------------------------------------------------------------
(* The refinement. *)

Accepted == {EventOf(i) : i \in {k \in Rows : Committed(k)}}
Delivered == {EventOf(i) : i \in sink}
SetAside == {EventOf(i) : i \in isolated}

\* Only its own writer ends an open row.
LEMMA OpenRowsStay ==
    ASSUME OutboxInv, Next, NEW i \in Rows, rows[i].state = "open",
           ~(Commit(i) \/ Rollback(i))
    PROVE  rows'[i] = rows[i]
<1>1. rows \in Seq(Row) /\ Len(rows) \in Nat
    BY DEF OutboxInv, TypeOK
<1>2. ASSUME NEW a \in Aggregates, NEW poison \in BOOLEAN, Write(a, poison)
      PROVE  rows'[i] = rows[i]
    <2>1. PICK new : rows' = Append(rows, new)
        BY <1>2 DEF Write
    <2> QED
        BY <1>1, <2>1 DEF Rows
<1>3. ASSUME NEW k \in Rows, Commit(k) \/ Rollback(k)
      PROVE  rows'[i] = rows[i]
    <2>1. k # i
        BY <1>3
    <2> QED
        BY <1>1, <1>3, <2>1 DEF Commit, Rollback, Finish, Rows
<1>4. ASSUME NEW k \in Rows, LeaseLapses(k) \/ RetryComesDue(k)
      PROVE  rows'[i] = rows[i]
    <2>1. k # i
        BY <1>4 DEF LeaseLapses, RetryComesDue, Undelivered
    <2> QED
        BY <1>1, <1>4, <2>1 DEF LeaseLapses, RetryComesDue, Rows
<1>5. ASSUME NEW d \in Dispatchers, Pass(d) \/ Restart(d)
      PROVE  rows'[i] = rows[i]
    <2>1. CASE Claim(d)
        BY <2>1 DEF Claim, Update, Rows
    <2>2. CASE MarkDispatched(d)
        BY <2>2 DEF MarkDispatched, Update, Rows
    <2>3. ASSUME NEW r \in Batch(d), RecordFailure(d, r)
          PROVE  rows'[i] = rows[i]
        BY <2>3 DEF RecordFailure, Update, Rows
    <2>4. CASE CleanUp(d)
        BY <2>4 DEF CleanUp, Update, Rows
    <2>5. CASE UNCHANGED rows
        BY <2>5
    <2> QED
        BY <1>5, <2>1, <2>2, <2>3, <2>4, <2>5 DEF Pass, Restart, SendSucceeds,
           SendFails, SendAnswerLost, SendRefused, MarkFails, FailureNotRecorded
<1> QED
    BY <1>2, <1>3, <1>4, <1>5 DEF Next, Rows

\* The rows a step adds are open.
LEMMA NewRowsAreOpen ==
    ASSUME OutboxInv, Next, NEW i \in Rows', i \notin Rows
    PROVE  ~Committed(i)' /\ UNCHANGED <<sink, isolated>>
<1>1. rows \in Seq(Row) /\ Len(rows) \in Nat /\ i \in Nat \ {0}
    BY DEF OutboxInv, TypeOK, Rows
<1>2. Len(rows') # Len(rows)
    BY DEF Rows
<1>3. CASE \E a \in Aggregates, poison \in BOOLEAN : Write(a, poison)
    <2>1. PICK a \in Aggregates, poison \in BOOLEAN : Write(a, poison)
        BY <1>3
    <2> DEFINE new == [of |-> a, poison |-> poison, state |-> "open",
                       claim |-> "none", retry |-> "due", attempts |-> 0,
                       dispatched |-> FALSE, dead |-> FALSE]
    <2>2. rows' = Append(rows, new) /\ UNCHANGED <<sink, isolated>>
        BY <2>1 DEF Write
    <2>3. new.state = "open"
        OBVIOUS
    <2> HIDE DEF new
    <2>4. rows'[Len(rows) + 1] = new /\ Len(rows') = Len(rows) + 1
        BY <1>1, <2>2
    <2>5. i = Len(rows) + 1
        BY <1>1, <2>4 DEF Rows
    <2> QED
        BY <2>2, <2>3, <2>4, <2>5 DEF Committed
<1>4. ASSUME NEW d \in Dispatchers, Pass(d) \/ Restart(d)
      PROVE  Len(rows') = Len(rows)
    <2>1. CASE \E r \in Batch(d) : RecordFailure(d, r)
        BY <2>1, FailureStep
    <2> QED
        BY <1>4, <2>1, ClaimStep, SendStep, MarkStep, ForgottenStep,
           CleanUpStep, RestartStep DEF Pass
<1>5. ASSUME NEW k \in Rows,
             Commit(k) \/ Rollback(k) \/ LeaseLapses(k) \/ RetryComesDue(k)
      PROVE  Len(rows') = Len(rows)
    BY <1>5, FinishStep, TimeStep
<1> QED
    BY <1>2, <1>3, <1>4, <1>5 DEF Next, Rows

\* A row is the same event for ever, and different rows are different events.
LEMMA EventsAreFixed ==
    ASSUME OutboxInv, RowStep
    PROVE  /\ \A i \in Rows : i \in Rows' /\ EventOf(i)' = EventOf(i)
           /\ \A i, k \in Rows : EventOf(i) = EventOf(k) => i = k
           /\ \A i \in Rows : /\ EventOf(i).id = i
                              /\ EventOf(i).of = rows[i].of
                              /\ EventOf(i) \in Promise!Event
<1>1. Len(rows) \in Nat /\ \A i \in Rows : rows[i] \in Row
    BY DEF OutboxInv, TypeOK, Rows
<1>2. \A i \in Rows : i \in Rows' /\ EventOf(i)' = EventOf(i)
    BY <1>1 DEF RowStep, Rows, EventOf
<1>3. \A i \in Rows : EventOf(i) \in Promise!Event
    BY <1>1 DEF EventOf, Promise!Event, Row, Rows
<1>4. \A i \in Rows : EventOf(i).id = i /\ EventOf(i).of = rows[i].of
    BY DEF EventOf
<1> QED
    BY <1>2, <1>3, <1>4

\* Sets of events change as the sets of rows do.
LEMMA AcceptedSteps ==
    ASSUME OutboxInv, RowStep, NEW new \in SUBSET Rows,
           \A i \in Rows : Committed(i)' <=> Committed(i) \/ i \in new,
           \A i \in Rows' \ Rows : ~Committed(i)'
    PROVE  Accepted' = Accepted \cup {EventOf(i) : i \in new}
<1>1. \A i \in Rows : i \in Rows' /\ EventOf(i)' = EventOf(i)
    BY EventsAreFixed
<1>2. Accepted' = {EventOf(i)' : i \in {k \in Rows' : Committed(k)'}}
    BY DEF Accepted
<1>3. {k \in Rows' : Committed(k)'} = {k \in Rows : Committed(k)} \cup new
    BY <1>1
<1>4. \A i \in {k \in Rows : Committed(k)} \cup new : EventOf(i)' = EventOf(i)
    BY <1>1
<1> QED
    BY <1>2, <1>3, <1>4 DEF Accepted

LEMMA AcceptedStays ==
    ASSUME OutboxInv, RowStep,
           \A i \in Rows : Committed(i)' <=> Committed(i),
           \A i \in Rows' \ Rows : ~Committed(i)'
    PROVE  Accepted' = Accepted
<1>1. PICK new \in SUBSET Rows : new = {}
    OBVIOUS
<1>2. \A i \in Rows : Committed(i)' <=> Committed(i) \/ i \in new
    BY <1>1
<1>3. Accepted' = Accepted \cup {EventOf(i) : i \in new}
    BY <1>2, AcceptedSteps
<1> QED
    BY <1>1, <1>3

LEMMA SinkSteps ==
    ASSUME OutboxInv, RowStep, sink' \subseteq Rows, isolated' \subseteq Rows
    PROVE  /\ Delivered' = {EventOf(i) : i \in sink'}
           /\ SetAside' = {EventOf(i) : i \in isolated'}
<1>1. \A i \in Rows : EventOf(i)' = EventOf(i)
    BY EventsAreFixed
<1>2. /\ Delivered' = {EventOf(i)' : i \in sink'}
      /\ SetAside' = {EventOf(i)' : i \in isolated'}
    BY DEF Delivered, SetAside
<1> QED
    BY <1>1, <1>2

LEMMA PromiseStep ==
    ASSUME OutboxInv, Next
    PROVE  [Promise!Next]_(Promise!vars)
<1>0. /\ RowStep /\ OutboxInv'
      /\ sink \subseteq Rows /\ isolated \subseteq Rows
    BY StepKeepsInv DEF OutboxInv, TypeOK, Rows
<1>1. /\ \A i, k \in Rows : EventOf(i) = EventOf(k) => i = k
      /\ \A i \in Rows : /\ EventOf(i).id = i
                         /\ EventOf(i).of = rows[i].of
                         /\ EventOf(i) \in Promise!Event
    BY <1>0, EventsAreFixed
<1>2. \A i \in Rows' \ Rows : ~Committed(i)' /\ UNCHANGED <<sink, isolated>>
    BY NewRowsAreOpen
<1>3. \A i \in Rows : rows[i].state = "open" /\ ~(Commit(i) \/ Rollback(i)) =>
          (Committed(i)' <=> Committed(i))
    BY OpenRowsStay DEF Committed
<1>4. \A i \in Rows : rows[i].state # "open" => (Committed(i)' <=> Committed(i))
    BY <1>0 DEF RowStep
<1> USE DEF Promise!Next, Promise!vars, Promise!Accept, Promise!Deliver,
            Promise!SetAside, Promise!Before
<1>5. CASE \E i \in Rows : Commit(i)
    <2>1. PICK i \in Rows : Commit(i)
        BY <1>5
    <2>2. rows[i].state = "open" /\ UNCHANGED <<sink, isolated>>
        BY <2>1 DEF Commit, Finish
    <2>3. \A k \in Rows : Committed(k)' <=> Committed(k) \/ k = i
        <3>1. rows \in Seq(Row) /\ rows[i] \in Row
            BY DEF OutboxInv, TypeOK, Rows
        <3>2. rows'[i].state = "committed" /\ \A k \in Rows \ {i} : rows'[k] = rows[k]
            BY <2>1, <3>1 DEF Commit, Finish, Rows, Row
        <3> QED
            BY <2>2, <3>2 DEF Committed
    <2>4. Accepted' = Accepted \cup {EventOf(i)}
        <3>1. \A k \in Rows : Committed(k)' <=> Committed(k) \/ k \in {i}
            BY <2>3
        <3>2. Accepted' = Accepted \cup {EventOf(k) : k \in {i}}
            BY <1>0, <1>2, <3>1, AcceptedSteps
        <3> QED
            BY <3>2
    <2>5. Delivered' = Delivered /\ SetAside' = SetAside
        BY <1>0, <2>2, SinkSteps DEF Delivered, SetAside
    <2>6. EventOf(i) \notin Accepted
        BY <1>1, <2>2 DEF Accepted, Committed
    <2>7. ASSUME NEW g \in Delivered, EventOf(i).of = g.of,
                 EventOf(i).of \in Locked, EventOf(i).id < g.id
          PROVE  FALSE
        <3>1. PICK k \in sink : g = EventOf(k)
            BY DEF Delivered
        <3>2. k \in Rows /\ i < k /\ rows[i].of = rows[k].of /\ rows[k].of \in Locked
            BY <1>0, <1>1, <2>7, <3>1
        <3> QED
            BY <2>2, <3>2 DEF OutboxInv, TurnsTaken
    <2> QED
        BY <1>1, <2>4, <2>5, <2>6, <2>7 DEF Accepted, Delivered, SetAside
<1>6. CASE sink' # sink
    <2>1. /\ UNCHANGED <<rows, isolated>> /\ sink \subseteq sink'
          /\ \A i \in sink' : Clean(i)
        BY <1>6, SinkTakesClean
    <2>2. sink' \subseteq Rows
        BY <2>1 DEF Clean
    <2>3. /\ Accepted' = Accepted /\ SetAside' = SetAside
          /\ Delivered' = {EventOf(i) : i \in sink'}
        BY <1>0, <2>1, <2>2, SinkSteps DEF Accepted, SetAside, Rows, Committed,
           EventOf
    <2>4. Delivered \subseteq Delivered'
        BY <2>1, <2>3 DEF Delivered
    <2>5. Delivered' \subseteq Accepted
        BY <2>1, <2>2, <2>3 DEF Accepted, Clean
    <2>6. ASSUME NEW e \in Delivered', NEW p \in Accepted, p.of = e.of,
                 p.of \in Locked, p.id < e.id
          PROVE  p \in Delivered \cup SetAside
        <3>1. PICK i \in sink' : e = EventOf(i)
            BY <2>3
        <3>2. PICK k \in Rows : Committed(k) /\ p = EventOf(k)
            BY DEF Accepted
        <3>3. /\ k < i /\ rows[k].of = rows[i].of /\ rows[i].of \in Locked
              /\ Clean(i)
            BY <1>1, <2>1, <2>2, <2>6, <3>1, <3>2
        <3>4. k \in sink \cup isolated
            BY <3>2, <3>3 DEF Clean
        <3> QED
            BY <3>2, <3>4 DEF Delivered, SetAside
    <2> QED
        BY <2>3, <2>4, <2>5, <2>6 DEF Accepted, Delivered, SetAside
<1>7. CASE isolated' # isolated
    <2>0. PICK d \in Dispatchers : \E r \in Batch(d) : RecordFailure(d, r)
        BY <1>7 DEF Next, Pass, Write, Commit, Rollback, Finish, LeaseLapses,
           RetryComesDue, Claim, SendSucceeds, SendFails, SendAnswerLost,
           SendRefused, MarkDispatched, MarkFails, FailureNotRecorded, CleanUp,
           Restart
    <2>1. PICK r \in Batch(d) : RecordFailure(d, r)
        BY <2>0
    <2>2. /\ isolated' = isolated \cup {r.id} /\ sink' = sink
          /\ rows[r.id].state = "committed" /\ Doing(d, "fail")
        BY <1>7, <2>1 DEF RecordFailure
    <2>3. r.id \in Rows /\ Committed(r.id)
        BY <2>2, AtHand DEF Clean
    <2>4. \A i \in Rows : Committed(i)' <=> Committed(i)
        <3>1. \A i \in Rows : rows[i].state # "committed" => rows'[i] = rows[i]
            BY <2>1 DEF RecordFailure, Update, Rows
        <3> QED
            BY <1>4, <3>1 DEF Committed
    <2>5. Accepted' = Accepted
        BY <1>0, <1>2, <2>4, AcceptedStays
    <2>6. /\ Delivered' = Delivered
          /\ SetAside' = SetAside \cup {EventOf(r.id)}
        BY <1>0, <2>2, <2>3, SinkSteps DEF Delivered, SetAside
    <2>7. EventOf(r.id) \notin SetAside
        BY <1>0, <1>1, <1>7, <2>2, <2>3 DEF SetAside
    <2>8. EventOf(r.id) \in Accepted
        BY <2>3 DEF Accepted
    <2> QED
        BY <2>5, <2>6, <2>7, <2>8 DEF Accepted, Delivered, SetAside
<1>8. CASE sink' = sink /\ isolated' = isolated /\ ~ \E i \in Rows : Commit(i)
    <2>1. ASSUME NEW i \in Rows
          PROVE  Committed(i)' <=> Committed(i)
        <3>1. CASE Rollback(i)
            <4>1. rows \in Seq(Row) /\ rows[i] \in Row
                BY DEF OutboxInv, TypeOK, Rows
            <4>2. rows'[i].state = "undone" /\ rows[i].state = "open"
                BY <3>1, <4>1 DEF Rollback, Finish, Rows, Row
            <4> QED
                BY <4>2 DEF Committed
        <3> QED
            BY <1>3, <1>4, <1>8, <3>1
    <2>2. Accepted' = Accepted
        BY <1>0, <1>2, <2>1, AcceptedStays
    <2>3. Delivered' = Delivered /\ SetAside' = SetAside
        BY <1>0, <1>8, SinkSteps DEF Delivered, SetAside
    <2> QED
        BY <2>2, <2>3 DEF Accepted, Delivered, SetAside
<1> QED
    BY <1>5, <1>6, <1>7, <1>8

\* The dispatchers implement the abstract delivery: every step of theirs accepts a
\* committed event, delivers accepted ones in order, sets one aside, or is none of
\* its business (the writers and dispatcher.go as a whole).
THEOREM OutboxImplementsDelivery == Spec => PromiseKept
<1>1. Init => Promise!Init
    BY DEF Init, Promise!Init, Rows
<1>2. OutboxInv /\ [Next]_vars => [Promise!Next]_(Promise!vars)
    <2>1. ASSUME UNCHANGED vars
          PROVE  UNCHANGED Promise!vars
        BY <2>1 DEF vars, Promise!vars, EventOf, Committed, Rows
    <2> QED
        BY <2>1, PromiseStep
<1> QED
    BY <1>1, <1>2, OutboxInvariant, PTL DEF Spec, PromiseKept, Promise!Spec
=============================================================================
