------------------------------- MODULE ApiProofs -------------------------------
(***************************************************************************)
(* What the API process gives its clients. The slots of LimitInFlight, the *)
(* truth of an answer and the clean shutdown hold for any number of        *)
(* requests, any limit and any burst; the breaker in front of Redis never  *)
(* locks itself half-open, for any number of goroutines and any threshold; *)
(* a list gives every row that keeps its place exactly once, for any rows, *)
(* page size and distances.                                                *)
(***************************************************************************)
EXTENDS ServerProperties, BreakerProperties, ListsProperties, SumProofs,
        FiniteSetTheorems, TLAPS


-----------------------------------------------------------------------------
(* The inductive invariant: how the two goroutines of a request agree. *)

\* Before the handler has run nothing is applied and nothing is written.
BeforeHandler == {"none", "identity", "admission", "rate_limit", "handler"}

\* What is written is the handler's answer, and it is true of the transaction.
BufferIsTrue(r) ==
    /\ work[r] \in BeforeHandler => /\ r \notin applied
                                    /\ buffer[r].response = NoAnswer
    /\ buffer[r].response \in Refusals => r \notin applied
    /\ (r \in Mutations /\ buffer[r].response = "done") => r \in applied

\* A handler that returned wrote, unless its buffer was abandoned before.
ReturnedWrote(r) ==
    work[r] = "returned" =>
        \/ buffer[r].response # NoAnswer
        \/ conn[r] = "ended"

\* What went out came from the buffer, or leaves the outcome open. Work answered
\* already writes no more: its buffer is abandoned or it has returned.
AnswerFromBuffer(r) ==
    /\ answer[r] \in Refusals \cup {"done"} =>
          /\ buffer[r].response = answer[r]
          /\ work[r] = "returned"
    /\ conn[r] = "none" => work[r] = "none"
    /\ conn[r] = "ended" <=> answer[r] # NoAnswer
    /\ buffer[r].abandoned => conn[r] = "ended"

Agrees(r) == BufferIsTrue(r) /\ ReturnedWrote(r) /\ AnswerFromBuffer(r)

\* server.Shutdown returned nil: the listener is closed and nobody waits.
CleanIsQuiet ==
    clean => /\ process \in {"closing", "exited"}
             /\ \A r \in Requests : conn[r] # "open"

\* Only finitely many requests are past admission, and each took one slot.
SlotsCounted == IsFiniteSet(Admitted) /\ slots = Cardinality(Admitted)

ServerInv ==
    /\ TypeOK
    /\ SlotsCounted
    /\ \A r \in Requests : Agrees(r)
    /\ CleanIsQuiet

-----------------------------------------------------------------------------
(* Types. *)

\* The limit of validateTimeoutBudget and resolveAdmissionLimit is a positive number.
LEMMA LimitIsPositive == MaxInFlight \in Nat \ {0}
BY ConfigAssumption DEF MaxInFlight

\* The buckets of the window are counted up or left as they are.
LEMMA CountsStayTyped ==
    ASSUME TypeOK, NEW b \in Buckets
    PROVE  countInWindow(b) \in [Buckets -> Nat]
BY DEF TypeOK, countInWindow

\* Writing to a buffer gives a buffer.
LEMMA WrittenIsBuffer ==
    ASSUME NEW b \in [response : Answers \cup {NoAnswer}, abandoned : BOOLEAN],
           NEW response \in Answers
    PROVE  /\ Written(b, response)
                \in [response : Answers \cup {NoAnswer}, abandoned : BOOLEAN]
           /\ Written(b, response).abandoned = b.abandoned
           /\ b.abandoned => Written(b, response).response = b.response
           /\ ~b.abandoned => Written(b, response).response = response
BY DEF Written

\* Every problem of a route is an answer.
LEMMA ProblemsAreAnswers ==
    ASSUME NEW err \in Errors
    PROVE  /\ ProblemOf(err) \in Answers
           /\ ProblemOf(err) = "done" => err = "none"
           /\ ProblemOf(err) \in Refusals => err \in {"app", "authz"}
BY DEF Errors, ProblemOf, Answers, Refusals

-----------------------------------------------------------------------------
(* What a step may do to one request. *)

\* Request r's handler goes one step on and writes nothing.
GoesOn(r) ==
    /\ work[r] \in BeforeHandler
    /\ work'[r] \in BeforeHandler \ {"none"}
    /\ buffer'[r] = buffer[r]
    /\ \/ conn[r] = "none" /\ conn'[r] = "open"
       \/ work[r] # "none" /\ conn'[r] = conn[r]
    /\ answer'[r] = answer[r]
    /\ r \in applied' <=> r \in applied

\* Its handler ends and writes, if the buffer still takes it, what is true.
Ends(r) ==
    /\ work[r] \in BeforeHandler \ {"none"}
    /\ conn'[r] = conn[r]
    /\ answer'[r] = answer[r]
    /\ \/ /\ work'[r] = "panicked"
          /\ buffer'[r] = buffer[r]
       \/ \E response \in Answers :
             /\ work'[r] = "returned"
             /\ buffer'[r] = Written(buffer[r], response)
             /\ response \in Refusals => (r \in applied' <=> r \in applied)
             /\ (response = "done" /\ r \in Mutations) => r \in applied'

\* Its connection is answered from the buffer or with an open outcome.
IsAnswered(r) ==
    /\ conn[r] = "open" /\ conn'[r] = "ended"
    /\ work'[r] = work[r]
    /\ r \in applied' <=> r \in applied
    /\ buffer'[r].response = buffer[r].response
    /\ \/ /\ work[r] = "returned"
          /\ answer'[r] = buffer[r].response
       \/ answer'[r] \in {"internal", "timeout"}

\* Nothing happens to it.
Stays(r) ==
    /\ conn'[r] = conn[r]
    /\ work'[r] = work[r]
    /\ buffer'[r] = buffer[r]
    /\ answer'[r] = answer[r]
    /\ r \in applied' <=> r \in applied

Others(r) == \A q \in Requests \ {r} : Stays(q)

\* The steps of a handler, one action after the other.
LEMMA HandlerMoves ==
    ASSUME TypeOK, NEW r \in Requests, Accept(r) \/ Handler(r),
           \A q \in Requests : Agrees(q)
    PROVE  (GoesOn(r) \/ Ends(r)) /\ Others(r)
<1> USE DEF TypeOK, At, Goto, Returns, Others, Stays, BeforeHandler, Works
<1>1. CASE Accept(r)
  BY <1>1 DEF Accept, GoesOn, Agrees, AnswerFromBuffer
<1>2. ASSUME NEW token \in {"none", "valid", "invalid"}, Identity(r, token)
      PROVE  (GoesOn(r) \/ Ends(r)) /\ Others(r)
  BY <1>2 DEF Identity, GoesOn, Ends, Answers, Refusals
<1>3. CASE LimitInFlight(r)
  BY <1>3 DEF LimitInFlight, GoesOn, Ends, Answers, Refusals
<1>4. CASE RateLimit(r)
  BY <1>4 DEF RateLimit, GoesOn, Ends, Answers, Refusals
<1>5. ASSUME NEW counted \in BOOLEAN, LimiterFails(r, counted)
      PROVE  (GoesOn(r) \/ Ends(r)) /\ Others(r)
  BY <1>5 DEF LimiterFails, GoesOn, Ends, Answers, Refusals
<1>6. ASSUME NEW commits \in BOOLEAN, NEW err \in Errors, Handle(r, err, commits)
      PROVE  (GoesOn(r) \/ Ends(r)) /\ Others(r)
  BY <1>6, ProblemsAreAnswers DEF Handle, Applied, Ends
<1>7. ASSUME NEW commits \in BOOLEAN, Panic(r, commits)
      PROVE  (GoesOn(r) \/ Ends(r)) /\ Others(r)
  BY <1>7 DEF Panic, Applied, Ends
<1> HIDE DEF TypeOK, At, Goto, Returns, Others, Stays, BeforeHandler, Works
<1>8. QED
  BY <1>1, <1>2, <1>3, <1>4, <1>5, <1>6, <1>7 DEF Handler

\* The select of Timeout: done, a panic or the deadline.
LEMMA ConnectionMoves ==
    ASSUME TypeOK, NEW r \in Requests, Connection(r)
    PROVE  IsAnswered(r) /\ Others(r)
<1>1. CASE Flush(r)
  BY <1>1 DEF Flush, Answered, IsAnswered, Others, Stays, TypeOK
<1>2. CASE Recover(r)
  BY <1>2 DEF Recover, Answered, IsAnswered, Others, Stays, TypeOK
<1>3. CASE Timeout(r)
  BY <1>3 DEF Timeout, Answered, IsAnswered, Others, Stays, TypeOK
<1>4. QED
  BY <1>1, <1>2, <1>3 DEF Connection

\* Readiness, the window and run itself touch no request.
Elsewhere ==
    \/ \E healthy \in SUBSET Checks : Probe(healthy)
    \/ WindowEnds
    \/ Drain \/ ListenFails \/ BeginShutdown
    \/ ShutdownDone \/ ShutdownExpires \/ Exit
    \/ UNCHANGED vars

LEMMA ElsewhereStays ==
    ASSUME Elsewhere
    PROVE  UNCHANGED requestVars
BY DEF Elsewhere, Probe, WindowEnds, Drain, ListenFails, BeginShutdown,
       ShutdownDone, ShutdownExpires, Exit, Becomes, requestVars, vars

\* Every step is one of a handler, of a connection or of neither.
LEMMA StepKinds ==
    ASSUME [Next]_vars
    PROVE  \/ \E r \in Requests : Accept(r) \/ Handler(r)
           \/ \E r \in Requests : Connection(r)
           \/ Elsewhere
BY DEF Next, Elsewhere

-----------------------------------------------------------------------------
(* Each part of the invariant is preserved. *)

\* The two goroutines of every request keep agreeing.
LEMMA AgreesStep ==
    ASSUME TypeOK, [Next]_vars, \A q \in Requests : Agrees(q)
    PROVE  \A q \in Requests : Agrees(q)'
<1> USE DEF Agrees, BufferIsTrue, ReturnedWrote, AnswerFromBuffer
<1>1. ASSUME NEW q \in Requests, Stays(q) PROVE Agrees(q)'
  BY <1>1 DEF Stays
<1>2. ASSUME NEW r \in Requests, GoesOn(r) PROVE Agrees(r)'
  <2>1. /\ r \notin applied /\ r \notin applied'
        /\ buffer'[r].response = NoAnswer
        /\ buffer'[r].abandoned = buffer[r].abandoned
        /\ work[r] # "returned" /\ work'[r] # "returned"
    BY <1>2 DEF GoesOn, BeforeHandler
  <2>2. answer'[r] \notin Refusals \cup {"done"} /\ answer'[r] = answer[r]
    BY <1>2, <2>1 DEF GoesOn
  <2>3. BufferIsTrue(r)'
    BY <2>1 DEF Refusals, NoAnswer
  <2>4. ReturnedWrote(r)'
    BY <2>1
  <2>5. AnswerFromBuffer(r)'
    BY <1>2, <2>1, <2>2 DEF GoesOn
  <2>6. QED
    BY <2>3, <2>4, <2>5
<1>3. ASSUME NEW r \in Requests, Ends(r) PROVE Agrees(r)'
  <2>1. /\ work[r] \in BeforeHandler
        /\ work[r] # "none"
        /\ work[r] # "returned"
    BY <1>3 DEF Ends, BeforeHandler
  <2>2. r \notin applied /\ buffer[r].response = NoAnswer /\ conn[r] # "none"
    BY <2>1
  <2>3. answer[r] \notin Refusals \cup {"done"}
    BY <2>1
  <2>4. conn'[r] = conn[r] /\ answer'[r] = answer[r]
    BY <1>3 DEF Ends
  <2>5. CASE work'[r] = "panicked" /\ buffer'[r] = buffer[r]
    <3>1. BufferIsTrue(r)'
      BY <2>2, <2>5 DEF BeforeHandler, Refusals, NoAnswer
    <3>2. ReturnedWrote(r)'
      BY <2>5
    <3>3. AnswerFromBuffer(r)'
      BY <2>2, <2>3, <2>4, <2>5
    <3>4. QED
      BY <3>1, <3>2, <3>3
  <2>6. ASSUME NEW response \in Answers,
               work'[r] = "returned",
               buffer'[r] = Written(buffer[r], response),
               response \in Refusals => (r \in applied' <=> r \in applied),
               (response = "done" /\ r \in Mutations) => r \in applied'
        PROVE  Agrees(r)'
    <3>1. /\ buffer'[r].abandoned = buffer[r].abandoned
          /\ buffer[r].abandoned => buffer'[r].response = buffer[r].response
          /\ ~buffer[r].abandoned => buffer'[r].response = response
      BY <2>6, WrittenIsBuffer DEF TypeOK
    <3>2. response # NoAnswer
      BY DEF Answers, Refusals, NoAnswer
    <3>3. BufferIsTrue(r)'
      BY <2>6, <3>1, <2>2 DEF BeforeHandler, Refusals, NoAnswer, TypeOK
    <3>4. ReturnedWrote(r)'
      BY <2>6, <3>1, <3>2, <2>4 DEF TypeOK
    <3>5. AnswerFromBuffer(r)'
      BY <2>6, <3>1, <2>2, <2>3, <2>4
    <3>6. QED
      BY <3>3, <3>4, <3>5
  <2>7. QED
    BY <1>3, <2>5, <2>6 DEF Ends
<1>4. ASSUME NEW r \in Requests, IsAnswered(r) PROVE Agrees(r)'
  <2>1. BufferIsTrue(r)'
    BY <1>4 DEF IsAnswered
  <2>2. ReturnedWrote(r)'
    BY <1>4 DEF IsAnswered
  <2>3. AnswerFromBuffer(r)'
    BY <1>4 DEF IsAnswered, Answers, Refusals, NoAnswer
  <2>4. QED
    BY <2>1, <2>2, <2>3
<1>5. CASE \E r \in Requests : Accept(r) \/ Handler(r)
  <2>1. PICK r \in Requests : Accept(r) \/ Handler(r)
    BY <1>5
  <2>2. (GoesOn(r) \/ Ends(r)) /\ Others(r)
    BY <2>1, HandlerMoves
  <2> HIDE DEF Agrees
  <2>3. QED
    BY <1>1, <1>2, <1>3, <2>2 DEF Others
<1>6. CASE \E r \in Requests : Connection(r)
  <2>1. PICK r \in Requests : Connection(r)
    BY <1>6
  <2>2. IsAnswered(r) /\ Others(r)
    BY <2>1, ConnectionMoves
  <2> HIDE DEF Agrees
  <2>3. QED
    BY <1>1, <1>4, <2>2 DEF Others
<1>7. CASE Elsewhere
  <2>1. \A q \in Requests : Stays(q)
    BY <1>7, ElsewhereStays DEF requestVars, Stays
  <2> HIDE DEF Agrees
  <2>2. QED
    BY <2>1, <1>1
<1>8. QED
  BY <1>5, <1>6, <1>7, StepKinds

\* How a step of request r's handler counts on the channel.
Counts(r) ==
    \/ slots' = slots /\ (r \in Admitted' <=> r \in Admitted)
    \/ slots' = slots + 1 /\ slots < MaxInFlight /\ r \notin Admitted /\ r \in Admitted'
    \/ slots' = slots - 1 /\ r \in Admitted /\ r \notin Admitted'

\* A slot is taken on the way in and given back on every way out.
LEMMA HandlerCounts ==
    ASSUME TypeOK, NEW r \in Requests, Accept(r) \/ Handler(r), Agrees(r)
    PROVE  Counts(r)
<1> USE DEF TypeOK, At, Goto, Returns, Release, Admitted, Counts
<1>1. CASE Accept(r)
  BY <1>1 DEF Accept, Agrees, AnswerFromBuffer
<1>2. ASSUME NEW token \in {"none", "valid", "invalid"}, Identity(r, token)
      PROVE  Counts(r)
  BY <1>2 DEF Identity
<1>3. CASE LimitInFlight(r)
  BY <1>3 DEF LimitInFlight
<1>4. CASE RateLimit(r)
  BY <1>4 DEF RateLimit
<1>5. ASSUME NEW counted \in BOOLEAN, LimiterFails(r, counted)
      PROVE  Counts(r)
  BY <1>5 DEF LimiterFails
<1>6. ASSUME NEW commits \in BOOLEAN, NEW err \in Errors, Handle(r, err, commits)
      PROVE  Counts(r)
  BY <1>6 DEF Handle
<1>7. ASSUME NEW commits \in BOOLEAN, Panic(r, commits)
      PROVE  Counts(r)
  BY <1>7 DEF Panic
<1> HIDE DEF TypeOK, At, Goto, Returns, Release, Admitted, Counts
<1>8. QED
  BY <1>1, <1>2, <1>3, <1>4, <1>5, <1>6, <1>7 DEF Handler

\* The tokens in the channel stay those of the handlers at work.
LEMMA SlotsStep ==
    ASSUME TypeOK, SlotsCounted, [Next]_vars, \A q \in Requests : Agrees(q)
    PROVE  SlotsCounted' /\ slots' \in 0 .. MaxInFlight
<1>1. Cardinality(Admitted) \in Nat /\ slots = Cardinality(Admitted)
  BY FS_CardinalityType DEF SlotsCounted
<1>2. MaxInFlight \in Nat
  BY LimitIsPositive
<1>3. slots \in 0 .. MaxInFlight
  BY DEF TypeOK
<1>4. CASE \E r \in Requests : Accept(r) \/ Handler(r)
  <2>1. PICK r \in Requests : Accept(r) \/ Handler(r)
    BY <1>4
  <2>2. Counts(r)
    BY <2>1, HandlerCounts
  <2>3. \A q \in Requests \ {r} : q \in Admitted' <=> q \in Admitted
    BY <2>1, HandlerMoves DEF Others, Stays, Admitted
  <2>4. Admitted \subseteq Requests /\ Admitted' \subseteq Requests
    BY DEF Admitted
  <2>5. CASE slots' = slots /\ (r \in Admitted' <=> r \in Admitted)
    <3>1. Admitted' = Admitted
      BY <2>3, <2>4, <2>5
    <3>2. QED
      BY <3>1, <2>5, <1>3 DEF SlotsCounted
  <2>6. CASE /\ slots' = slots + 1
             /\ slots < MaxInFlight
             /\ r \notin Admitted
             /\ r \in Admitted'
    <3>1. Admitted' = Admitted \cup {r}
      BY <2>3, <2>4, <2>6
    <3>2. /\ IsFiniteSet(Admitted')
          /\ Cardinality(Admitted') = Cardinality(Admitted) + 1
      BY <3>1, <2>6, FS_AddElement DEF SlotsCounted
    <3>3. slots' = Cardinality(Admitted') /\ slots' \in 0 .. MaxInFlight
      BY <3>2, <2>6, <1>1, <1>2
    <3>4. QED
      BY <3>2, <3>3 DEF SlotsCounted
  <2>7. CASE slots' = slots - 1 /\ r \in Admitted /\ r \notin Admitted'
    <3>1. Admitted' = Admitted \ {r}
      BY <2>3, <2>4, <2>7
    <3>2. /\ IsFiniteSet(Admitted')
          /\ Cardinality(Admitted') = Cardinality(Admitted) - 1
      BY <3>1, <2>7, FS_RemoveElement DEF SlotsCounted
    <3>3. Cardinality(Admitted') \in Nat
      BY <3>2, FS_CardinalityType
    <3>4. slots' = Cardinality(Admitted') /\ slots' \in 0 .. MaxInFlight
      BY <3>2, <3>3, <2>7, <1>1, <1>2, <1>3
    <3>5. QED
      BY <3>2, <3>4 DEF SlotsCounted
  <2>8. QED
    BY <2>2, <2>5, <2>6, <2>7 DEF Counts
<1>5. CASE \E r \in Requests : Connection(r)
  <2>1. slots' = slots /\ work' = work
    BY <1>5 DEF Connection, Flush, Recover, Timeout
  <2>2. QED
    BY <2>1, <1>3 DEF SlotsCounted, Admitted
<1>6. CASE Elsewhere
  BY <1>6, <1>3, ElsewhereStays DEF requestVars, SlotsCounted, Admitted
<1>7. QED
  BY <1>4, <1>5, <1>6, StepKinds

\* The parts of the state other than the channel stay typed; the channel is
\* SlotsStep's.
LEMMA TypeStep ==
    ASSUME TypeOK, [Next]_vars, slots' \in 0 .. MaxInFlight
    PROVE  TypeOK'
<1>1. ASSUME NEW r \in Requests, Accept(r) \/ Handler(r)
      PROVE  TypeOK'
  <2> USE DEF TypeOK, At, Goto, Returns, Works, procVars
  <2>1. \A response \in Answers : Written(buffer[r], response)
             \in [response : Answers \cup {NoAnswer}, abandoned : BOOLEAN]
    BY WrittenIsBuffer
  <2>2. /\ "unauthorized" \in Answers /\ "overloaded" \in Answers
        /\ "rate_limited" \in Answers /\ "limiter_unavailable" \in Answers
        /\ "timeout" \in Answers
    BY DEF Answers, Refusals
  <2>3. key[r] \in Buckets /\ countInWindow(key[r]) \in [Buckets -> Nat]
    BY CountsStayTyped
  <2>4. CASE Accept(r)
    BY <2>4 DEF Accept
  <2>5. ASSUME NEW token \in {"none", "valid", "invalid"}, Identity(r, token)
        PROVE  TypeOK'
    BY <2>1, <2>2, <2>5 DEF Identity, Buckets
  <2>6. CASE LimitInFlight(r)
    BY <2>1, <2>2, <2>6 DEF LimitInFlight
  <2>7. CASE RateLimit(r)
    BY <2>1, <2>2, <2>3, <2>7 DEF RateLimit
  <2>8. ASSUME NEW counted \in BOOLEAN, LimiterFails(r, counted)
        PROVE  TypeOK'
    <3>1. counts' \in [Buckets -> Nat]
      BY <2>3, <2>8 DEF LimiterFails
    <3>2. CASE r \notin Mutations
      BY <2>8, <3>1, <3>2 DEF LimiterFails
    <3>3. CASE r \in Mutations
      <4>1. PICK problem \in {"limiter_unavailable", "timeout"} : Returns(r, problem)
        BY <2>8, <3>3 DEF LimiterFails
      <4>2. problem \in Answers
        BY <2>2
      <4> QED
        BY <2>1, <2>8, <3>1, <4>1, <4>2 DEF LimiterFails
    <3> QED
      BY <3>2, <3>3
  <2>9. ASSUME NEW commits \in BOOLEAN, NEW err \in Errors, Handle(r, err, commits)
        PROVE  TypeOK'
    BY <2>1, <2>9, ProblemsAreAnswers DEF Handle, Applied
  <2>10. ASSUME NEW commits \in BOOLEAN, Panic(r, commits)
         PROVE  TypeOK'
    BY <2>10 DEF Panic, Applied
  <2> HIDE DEF TypeOK, At, Goto, Returns, Works, procVars
  <2>11. QED
    BY <1>1, <2>4, <2>5, <2>6, <2>7, <2>8, <2>9, <2>10 DEF Handler
<1>2. ASSUME NEW r \in Requests, Connection(r)
      PROVE  TypeOK'
  <2>1. CASE Flush(r)
    BY <2>1 DEF Flush, Answered, TypeOK, procVars
  <2>2. CASE Recover(r)
    BY <2>2 DEF Recover, Answered, TypeOK, procVars, Answers
  <2>3. CASE Timeout(r)
    BY <2>3 DEF Timeout, Answered, TypeOK, procVars, Answers
  <2>4. QED
    BY <1>2, <2>1, <2>2, <2>3 DEF Connection
<1>3. CASE Elsewhere
  <2>1. UNCHANGED requestVars
    BY <1>3, ElsewhereStays
  <2>2. process' \in Processes /\ clean' \in BOOLEAN
    BY <1>3 DEF TypeOK, Elsewhere, Probe, WindowEnds, Drain, ListenFails,
                BeginShutdown, ShutdownDone, ShutdownExpires, Exit, Becomes,
                vars, procVars, Processes
  <2>3. inRotation' \in BOOLEAN
    BY <1>3 DEF TypeOK, Elsewhere, Probe, ready, WindowEnds, Drain, ListenFails,
                BeginShutdown, ShutdownDone, ShutdownExpires, Exit, Becomes,
                vars, procVars
  <2>4. counts' \in [Buckets -> Nat]
    BY <1>3 DEF TypeOK, Elsewhere, Probe, WindowEnds, Drain, ListenFails,
                BeginShutdown, ShutdownDone, ShutdownExpires, Exit, Becomes, vars
  <2>5. QED
    BY <2>1, <2>2, <2>3, <2>4 DEF TypeOK, requestVars
<1>4. QED
  BY <1>1, <1>2, <1>3, StepKinds

\* After a clean shutdown no connection is opened.
LEMMA CleanStep ==
    ASSUME TypeOK, CleanIsQuiet, [Next]_vars, \A q \in Requests : Agrees(q)
    PROVE  CleanIsQuiet'
<1>1. ASSUME NEW r \in Requests, Accept(r) PROVE CleanIsQuiet'
  BY <1>1 DEF Accept, Listening, CleanIsQuiet, procVars, TypeOK
<1>2. ASSUME NEW r \in Requests, Handler(r) PROVE CleanIsQuiet'
  BY <1>2 DEF Handler, Identity, LimitInFlight, RateLimit, LimiterFails, Handle,
              Panic, CleanIsQuiet, procVars
<1>3. ASSUME NEW r \in Requests, Connection(r) PROVE CleanIsQuiet'
  BY <1>3 DEF Connection, Flush, Recover, Timeout, Answered, CleanIsQuiet,
              procVars, TypeOK
<1>4. CASE Elsewhere
  <2>1. CASE ShutdownDone
    BY <2>1 DEF ShutdownDone, Becomes, requestVars, CleanIsQuiet
  <2>2. CASE Elsewhere /\ ~ShutdownDone
    BY <2>2 DEF Elsewhere, Probe, WindowEnds, Drain, ListenFails,
                BeginShutdown, ShutdownExpires, Exit, Becomes, vars, procVars,
                requestVars, CleanIsQuiet, Listening
  <2>3. QED
    BY <1>4, <2>1, <2>2
<1>5. QED
  BY <1>1, <1>2, <1>3, <1>4, StepKinds

-----------------------------------------------------------------------------
(* The theorems. *)

\* The process starts with an empty channel and nothing under way.
LEMMA ServerStarts == Init => ServerInv
<1> SUFFICES ASSUME Init PROVE ServerInv
  OBVIOUS
<1> USE DEF Init
<1>1. TypeOK
  <2>1. Empty \in [response : Answers \cup {NoAnswer}, abandoned : BOOLEAN]
    BY DEF Empty
  <2>2. buffer \in [Requests -> [response : Answers \cup {NoAnswer},
                                 abandoned : BOOLEAN]]
    BY <2>1
  <2>3. slots \in 0 .. MaxInFlight
    BY LimitIsPositive
  <2>4. QED
    BY <2>2, <2>3 DEF TypeOK, Processes, Works, Buckets
<1>2. SlotsCounted
  <2>1. Admitted = {}
    BY DEF Admitted
  <2>2. QED
    BY <2>1, FS_EmptySet DEF SlotsCounted
<1>3. \A r \in Requests : Agrees(r)
  <2> SUFFICES ASSUME NEW r \in Requests PROVE Agrees(r)
    OBVIOUS
  <2>1. /\ buffer[r].response = NoAnswer /\ buffer[r].abandoned = FALSE
        /\ work[r] = "none" /\ conn[r] = "none" /\ answer[r] = NoAnswer
        /\ r \notin applied
    BY DEF Empty
  <2>2. NoAnswer \notin Refusals \cup {"done"}
    BY DEF NoAnswer, Refusals
  <2>3. QED
    BY <2>1, <2>2 DEF Agrees, BufferIsTrue, ReturnedWrote, AnswerFromBuffer
<1>4. CleanIsQuiet
  BY DEF CleanIsQuiet
<1>5. QED
  BY <1>1, <1>2, <1>3, <1>4 DEF ServerInv

\* The type invariant, the count of the slots and the agreement of the two
\* goroutines hold in every reachable state.
THEOREM ServerKeepsInv == Spec => []ServerInv
<1>1. ServerInv /\ [Next]_vars => ServerInv'
  <2> SUFFICES ASSUME ServerInv, [Next]_vars PROVE ServerInv'
    OBVIOUS
  <2>1. TypeOK /\ SlotsCounted /\ CleanIsQuiet /\ \A r \in Requests : Agrees(r)
    BY DEF ServerInv
  <2>2. SlotsCounted' /\ slots' \in 0 .. MaxInFlight
    BY <2>1, SlotsStep
  <2>3. TypeOK'
    BY <2>1, <2>2, TypeStep
  <2>4. \A r \in Requests : Agrees(r)'
    BY <2>1, AgreesStep
  <2>5. CleanIsQuiet'
    BY <2>1, CleanStep
  <2>6. QED
    BY <2>2, <2>3, <2>4, <2>5 DEF ServerInv
<1>2. QED
  BY <1>1, ServerStarts, PTL DEF Spec

\* LimitInFlight: however long a handler outlives its time-out, the slots taken are
\* those of the handlers at work, and never more than the limit.
THEOREM SlotsStayHeld == Spec => []SlotsAreHeld
<1>1. ServerInv => SlotsAreHeld
  BY LimitIsPositive DEF ServerInv, SlotsCounted, SlotsAreHeld, TypeOK
<1>2. QED
  BY <1>1, ServerKeepsInv, PTL

\* A mutation that the middleware turned away, or a route of one transaction (not
\* /auth) rejected, is not applied, then or later; a successful one is.
THEOREM AnswersAreTrue == Spec => []AnswerIsTrue
<1>1. ServerInv => AnswerIsTrue
  BY ConfigAssumption DEF ServerInv, Agrees, BufferIsTrue, AnswerFromBuffer,
                          AnswerIsTrue
<1>2. QED
  BY <1>1, ServerKeepsInv, PTL

\* When server.Shutdown returns nil every accepted request has its answer.
THEOREM CleanShutdownAnswered == Spec => []CleanShutdownAnswersAll
<1>1. ServerInv => CleanShutdownAnswersAll
  BY DEF ServerInv, TypeOK, CleanIsQuiet, Agrees, AnswerFromBuffer,
         CleanShutdownAnswersAll
<1>2. QED
  BY <1>1, ServerKeepsInv, PTL

-----------------------------------------------------------------------------
(* The breaker. HalfOpenIsLeft is inductive beside the types: only Swap     *)
(* enters half-open, and its goroutine then owes a store; a goroutine that  *)
(* owes a store and does not make it in its step still owes it, save the    *)
(* one that finds the breaker not half-open.                                *)

\* The breaker's words and every goroutine's place in its call have their types.
THEOREM BreakerTypes == BreakerSpec => []BreakerTypeOK
<1>1. BreakerInit => BreakerTypeOK
    BY DEF BreakerInit, BreakerTypeOK, States, Points
<1>2. BreakerTypeOK /\ [BreakerNext]_breakerVars => BreakerTypeOK'
  <2> SUFFICES ASSUME BreakerTypeOK, [BreakerNext]_breakerVars PROVE BreakerTypeOK'
      OBVIOUS
  <2> USE DEF BreakerTypeOK, States, Points, CallGoes, CallAt
  <2>1. CASE UNCHANGED breakerVars
      BY <2>1 DEF breakerVars
  <2>2. CASE CooldownEnds \/ RedisChanges
      BY <2>2 DEF CooldownEnds, RedisChanges
  <2>3. CASE \E c \in Calls : Call(c)
    <3> PICK c \in Calls : Call(c)
        BY <2>3
    <3>1. CASE Allow(c) \/ LoadUntil(c) \/ Swap(c)
        BY <3>1 DEF Allow, LoadUntil, Swap
    <3>2. CASE \E err \in Results : Record(c, err)
        BY <3>2 DEF Record
    <3>3. CASE ClearFailures(c) \/ Close(c)
        BY <3>3 DEF ClearFailures, Close
    <3>4. CASE LoadState(c) \/ AddFailure(c)
        BY <3>4 DEF LoadState, AddFailure
    <3>5. CASE StoreUntil(c)
        BY <3>5 DEF StoreUntil
    <3>6. CASE ResetFailures(c) \/ Open(c)
        BY <3>6 DEF ResetFailures, Open
    <3> QED
        BY <3>1, <3>2, <3>3, <3>4, <3>5, <3>6 DEF Call
  <2> QED
      BY <2>1, <2>2, <2>3 DEF BreakerNext
<1> QED
    BY <1>1, <1>2, PTL DEF BreakerSpec

\* A goroutine that stands where it did keeps its debt.
LEMMA OthersKeepTheirDebt ==
    ASSUME BreakerTypeOK, NEW c \in Calls, NEW p \in Points, CallGoes(c, p),
           NEW q \in WillMoveIt, q # c
    PROVE  WillMoveIt' # {}
<1>1. q \in Calls /\ pc'[q] = pc[q]
    BY DEF BreakerTypeOK, CallGoes, WillMoveIt
<1> QED
    BY <1>1 DEF WillMoveIt

\* A goroutine that goes on to a place before a store owes that store.
LEMMA DebtIsTaken ==
    ASSUME BreakerTypeOK, NEW c \in Calls, NEW p, CallGoes(c, p),
           p \in {"redis", "zero", "close", "load", "trip", "reset", "open"}
    PROVE  WillMoveIt' # {}
<1>1. pc'[c] = p
    BY DEF BreakerTypeOK, CallGoes
<1> QED
    BY <1>1 DEF WillMoveIt

\* breaker.go refuses every call of a half-open breaker; some goroutine is then
\* always on its way to the store that closes or opens it.
THEOREM HalfOpenBreakerIsLeft == BreakerSpec => []HalfOpenIsLeft
<1>1. BreakerInit => HalfOpenIsLeft
    BY DEF BreakerInit, HalfOpenIsLeft
<1>2. BreakerTypeOK /\ HalfOpenIsLeft /\ [BreakerNext]_breakerVars => HalfOpenIsLeft'
  <2> SUFFICES ASSUME BreakerTypeOK, HalfOpenIsLeft, [BreakerNext]_breakerVars,
                      state' = "half_open"
               PROVE  WillMoveIt' # {}
      BY DEF HalfOpenIsLeft
  <2>1. CASE UNCHANGED pc /\ UNCHANGED state
      BY <2>1 DEF HalfOpenIsLeft, WillMoveIt
  <2>2. CASE \E c \in Calls : Call(c)
    <3> PICK c \in Calls : Call(c)
        BY <2>2
    <3>1. CASE Swap(c)
      <4>1. CASE state = "open"
          BY <3>1, <4>1, DebtIsTaken DEF Swap
      <4>2. CASE state # "open"
        <5>1. CallGoes(c, "idle") /\ state = "half_open" /\ CallAt(c, "swap")
            BY <3>1, <4>2 DEF Swap
        <5>2. PICK q \in WillMoveIt : q # c
            BY <5>1 DEF HalfOpenIsLeft, WillMoveIt, CallAt
        <5> QED
            BY <5>1, <5>2, OthersKeepTheirDebt DEF Points
      <4> QED
          BY <4>1, <4>2
    <3>2. CASE Allow(c) \/ LoadUntil(c)
      <4>1. /\ state = "half_open" /\ pc[c] \in {"idle", "until"}
            /\ \E p \in Points : CallGoes(c, p)
          BY <3>2 DEF Allow, LoadUntil, CallAt, Points
      <4>2. PICK q \in WillMoveIt : q # c
          BY <4>1 DEF HalfOpenIsLeft, WillMoveIt
      <4> QED
          BY <4>1, <4>2, OthersKeepTheirDebt
    <3>3. CASE \E err \in Results : Record(c, err)
        BY <3>3, DebtIsTaken DEF Record
    <3>4. CASE ClearFailures(c)
        BY <3>4, DebtIsTaken DEF ClearFailures
    <3>5. CASE LoadState(c)
        BY <3>5, DebtIsTaken DEF LoadState
    <3>6. CASE AddFailure(c)
      <4>1. /\ state = "half_open" /\ pc[c] = "add"
            /\ \E p \in Points : CallGoes(c, p)
          BY <3>6 DEF AddFailure, CallAt, Points
      <4>2. PICK q \in WillMoveIt : q # c
          BY <4>1 DEF HalfOpenIsLeft, WillMoveIt
      <4> QED
          BY <4>1, <4>2, OthersKeepTheirDebt
    <3>7. CASE StoreUntil(c) \/ ResetFailures(c)
        BY <3>7, DebtIsTaken DEF StoreUntil, ResetFailures
    <3>8. CASE Close(c) \/ Open(c)
        BY <3>8 DEF Close, Open
    <3> QED
        BY <3>1, <3>2, <3>3, <3>4, <3>5, <3>6, <3>7, <3>8 DEF Call
  <2> QED
      BY <2>1, <2>2 DEF BreakerNext, CooldownEnds, RedisChanges, breakerVars
<1> QED
    BY <1>1, <1>2, BreakerTypes, PTL DEF BreakerSpec

-----------------------------------------------------------------------------
(* The lists: the inductive invariant. *)

\* A cursor leaves a row for the pages still to come.
ToCome(i, c, o) == c = Start \/ After(Key(i, o), c)

\* A page gives what its circle shows, its cursor leaves and the next one does not,
\* of the rows that kept their place since.
PageIsTrue(o, c, items, next, touched) ==
    /\ (c # Start /\ next # Start) => Before(c, next)
    /\ \A i \in Ids \ touched :
          i \in items <=> /\ Listed(i, o)
                          /\ ToCome(i, c, o)
                          /\ ~(next # Start /\ ToCome(i, next, o))

\* How often a row that kept its place was given: what the cursor does not leave,
\* once.
GivenSoFar(i) ==
    IF /\ Listed(i, walk.circle)
       /\ \/ walk.at = "ended"
          \/ walk.at = "reading" /\ ~ToCome(i, walk.cursor, walk.circle)
    THEN walk.seen[i] = 1
    ELSE walk.seen[i] = 0

CursorFitsWalk ==
    /\ walk.at = "idle" => walk.cursor = Start /\ ~walk.mixed
    /\ walk.at = "reading" => walk.cursor # Start

IsKept(k, page) ==
    /\ k[2] \in Cursors /\ page \in Pages
    /\ PageIsTrue(page.circle, k[2], page.items, page.next, page.touched)

KeptPagesAreTrue == \A k \in DOMAIN cache : IsKept(k, cache[k])

MadeRows == {i \in Ids : rows[i].made}

RowsAreRows ==
    /\ IsFiniteSet(MadeRows)
    /\ \A i \in Ids : rows[i].live => rows[i].made
    /\ list = "statements" => \A i, j \in MadeRows :
                                 rows[i].rank = rows[j].rank => i = j

WalkIsTrue ==
    /\ CursorFitsWalk
    /\ ~walk.mixed => \A i \in Ids \ walk.touched : GivenSoFar(i)

ListsInv ==
    /\ ListTypeOK
    /\ RowsAreRows
    /\ KeptPagesAreTrue
    /\ WalkIsTrue

-----------------------------------------------------------------------------
(* Keys and their order. *)

LEMMA KeyTypes ==
    ASSUME ListTypeOK, NEW i \in Ids, NEW o \in Circles
    PROVE  Key(i, o) \in Keys /\ Key(i, o)[3] = i /\ Key(i, o)[1] = rows[i].rank
<1>1. i \in Nat /\ Distance[o.point][i] \in Nat /\ rows[i].rank \in Nat
  BY RowsAssumption, DistanceAssumption DEF ListTypeOK, Circles
<1> QED
  BY <1>1 DEF Key, Keys

\* Where the walk searches is a circle.
LEMMA HereIsACircle ==
    ASSUME ListTypeOK
    PROVE  /\ Here \in Circles
           /\ \A point \in Places, asked \in Radii \cup {0}, tries \in Nat :
                 Circle(point, asked, tries) \in Circles
<1>1. /\ walk.asked \in Nat /\ walk.tries \in Nat /\ 0 \in Nat
      /\ DefaultRadius \in Nat /\ RadiusExpansionStep \in Nat /\ Radii \subseteq Nat
      /\ Home \in Places
  BY RadiusAssumption, DistanceAssumption DEF ListTypeOK, Walks
<1>2. \A a \in Nat, b \in Nat : a * b \in Nat
  OBVIOUS
<1>3. \A a \in Nat, b \in Nat : a + b \in Nat
  OBVIOUS
<1>4. \A asked \in Nat : normalizeRadius(asked) \in Nat
  BY <1>1 DEF normalizeRadius
<1>5. \A asked \in Nat, tries \in Nat :
         normalizeRadius(asked) + tries * RadiusExpansionStep \in Nat
  BY <1>1, <1>2, <1>3, <1>4
<1>6. \A point \in Places, asked \in Nat, tries \in Nat :
         Circle(point, asked, tries) \in Circles
  BY <1>5 DEF Circle, Circles
<1> QED
  BY <1>1, <1>6 DEF Here

LEMMA StartIsNoKey == Start \notin Keys
BY DEF Start, Keys

\* What comes after a cursor is what stands after its row: the queries and their
\* ORDER BY agree.
LEMMA AfterIsBefore ==
    ASSUME ListTypeOK, NEW k \in Keys, NEW c \in Keys
    PROVE  After(k, c) <=> Before(c, k)
<1>1. list \in {"alternatives", "complex", "search", "postgres_queue",
                "clickhouse_queue", "my_orders", "store_orders", "statements"}
  BY DEF ListTypeOK, Lists, OfferLists, Queues
<1> USE DEF After, Before, OfferLists, ListOrdersByBuyer, ListStoreOpenOrders,
            ListOperatorQueue, clickHouseQueueSQL, ListCommissionInvoicesByOwner,
            ListOfferAlternatives, ListComplexOffers, SearchOffers
<1>2. CASE list = "my_orders"
  BY <1>2
<1>3. CASE list = "store_orders"
  BY <1>3
<1>4. CASE list = "postgres_queue"
  BY <1>4
<1>5. CASE list = "clickhouse_queue"
  BY <1>5
<1>6. CASE list = "statements"
  BY <1>6
<1>7. CASE list = "alternatives"
  BY <1>7
<1>8. CASE list = "complex"
  BY <1>8
<1>9. CASE list = "search"
  BY <1>9
<1> QED
  BY <1>1, <1>2, <1>3, <1>4, <1>5, <1>6, <1>7, <1>8, <1>9

LEMMA LessIsAnOrder ==
    ASSUME NEW a \in Keys, NEW b \in Keys, NEW c \in Keys
    PROVE  /\ ~Less(a, a)
           /\ Less(a, b) /\ Less(b, c) => Less(a, c)
           /\ a[3] # b[3] => Less(a, b) \/ Less(b, a)
<1>1. /\ a[1] \in Nat /\ a[2] \in Nat /\ a[3] \in Nat
      /\ b[1] \in Nat /\ b[2] \in Nat /\ b[3] \in Nat
      /\ c[1] \in Nat /\ c[2] \in Nat /\ c[3] \in Nat
  BY DEF Keys
<1> QED
  BY <1>1 DEF Less

\* Cheapest or nearest first, newest month first, or newest first.
LEMMA BeforeByList ==
    ASSUME ListTypeOK
    PROVE  \/ \A a, b : Before(a, b) <=> Less(a, b)
           \/ list = "statements" /\ \A a, b : Before(a, b) <=> b[1] < a[1]
           \/ list # "statements" /\ \A a, b : Before(a, b) <=> Less(b, a)
<1>1. list \in {"alternatives", "complex", "search", "postgres_queue",
                "clickhouse_queue", "my_orders", "store_orders", "statements"}
  BY DEF ListTypeOK, Lists, OfferLists, Queues
<1> USE DEF Before, OfferLists
<1>2. CASE list = "my_orders"
  BY <1>2
<1>3. CASE list = "store_orders"
  BY <1>3
<1>4. CASE list = "postgres_queue"
  BY <1>4
<1>5. CASE list = "clickhouse_queue"
  BY <1>5
<1>6. CASE list = "statements"
  BY <1>6
<1>7. CASE list = "alternatives"
  BY <1>7
<1>8. CASE list = "complex"
  BY <1>8
<1>9. CASE list = "search"
  BY <1>9
<1> QED
  BY <1>1, <1>2, <1>3, <1>4, <1>5, <1>6, <1>7, <1>8, <1>9

LEMMA BeforeIsAnOrder ==
    ASSUME ListTypeOK, NEW a \in Keys, NEW b \in Keys, NEW c \in Keys
    PROVE  /\ ~Before(a, a)
           /\ Before(a, b) /\ Before(b, c) => Before(a, c)
<1>1. a[1] \in Nat /\ b[1] \in Nat /\ c[1] \in Nat
  BY DEF Keys
<1>2. CASE \A x, y : Before(x, y) <=> Less(x, y)
  BY <1>2, LessIsAnOrder
<1>3. CASE \A x, y : Before(x, y) <=> y[1] < x[1]
  BY <1>1, <1>3
<1>4. CASE \A x, y : Before(x, y) <=> Less(y, x)
  BY <1>4, LessIsAnOrder
<1> QED
  BY <1>2, <1>3, <1>4, BeforeByList

\* Two rows of a list never tie: an id breaks every tie, and an owner has one
\* statement a month.
LEMMA RowsDoNotTie ==
    ASSUME ListTypeOK, RowsAreRows, NEW o \in Circles, NEW i \in Ids, NEW j \in Ids,
           i # j, rows[i].live, rows[j].live
    PROVE  Before(Key(i, o), Key(j, o)) \/ Before(Key(j, o), Key(i, o))
<1>1. /\ Key(i, o) \in Keys /\ Key(i, o)[3] = i /\ Key(i, o)[1] = rows[i].rank
      /\ Key(j, o) \in Keys /\ Key(j, o)[3] = j /\ Key(j, o)[1] = rows[j].rank
  BY KeyTypes
<1>2. Less(Key(i, o), Key(j, o)) \/ Less(Key(j, o), Key(i, o))
  BY <1>1, LessIsAnOrder
<1>3. CASE \A x, y : Before(x, y) <=> Less(x, y)
  BY <1>2, <1>3
<1>4. CASE list = "statements" /\ \A x, y : Before(x, y) <=> y[1] < x[1]
  <2>1. rows[i].rank # rows[j].rank
    BY <1>4 DEF RowsAreRows, MadeRows
  <2>2. Key(i, o)[1] \in Nat /\ Key(j, o)[1] \in Nat
    BY <1>1 DEF Keys
  <2>3. Key(i, o)[1] < Key(j, o)[1] \/ Key(j, o)[1] < Key(i, o)[1]
    BY <1>1, <2>1, <2>2
  <2> QED
    BY <1>4, <2>3
<1>5. CASE \A x, y : Before(x, y) <=> Less(y, x)
  BY <1>2, <1>5
<1> QED
  BY <1>3, <1>4, <1>5, BeforeByList

\* The last row of a page.
IsLast(i, P, o) == i \in P /\ \A j \in P \ {i} : Before(Key(j, o), Key(i, o))

LEMMA PagesHaveALastRow ==
    ASSUME ListTypeOK, RowsAreRows, NEW o \in Circles, NEW P \in SUBSET Ids,
           IsFiniteSet(P), P # {}, \A i \in P : rows[i].live
    PROVE  IsLast(Last(P, o), P, o)
<1> DEFINE G == {T \in SUBSET P : T = {} \/ \E i \in T : IsLast(i, T, o)}
<1>1. {} \in G
  OBVIOUS
<1>2. ASSUME NEW T \in SUBSET P, NEW x \in T, T \ {x} \in G
      PROVE  T \in G
  <2>1. CASE T \ {x} = {}
    <3>1. T = {x}
      BY <2>1
    <3>2. IsLast(x, T, o)
      BY <3>1 DEF IsLast
    <3> QED
      BY <3>2
  <2>2. CASE T \ {x} # {}
    <3>1. PICK l \in T \ {x} : IsLast(l, T \ {x}, o)
      BY <1>2, <2>2
    <3>2. /\ Key(x, o) \in Keys /\ Key(l, o) \in Keys
          /\ \A j \in T : Key(j, o) \in Keys
      BY KeyTypes
    <3>3. Before(Key(l, o), Key(x, o)) \/ Before(Key(x, o), Key(l, o))
      BY <3>1, RowsDoNotTie
    <3>4. CASE Before(Key(l, o), Key(x, o))
      <4>1. \A j \in T \ {x} : Before(Key(j, o), Key(x, o))
        BY <3>1, <3>2, <3>4, BeforeIsAnOrder DEF IsLast
      <4>2. IsLast(x, T, o)
        BY <4>1 DEF IsLast
      <4> QED
        BY <4>2
    <3>5. CASE Before(Key(x, o), Key(l, o))
      <4>1. IsLast(l, T, o)
        BY <3>1, <3>5 DEF IsLast
      <4> QED
        BY <4>1
    <3> QED
      BY <3>3, <3>4, <3>5
  <2> QED
    BY <2>1, <2>2
<1>3. G \in SUBSET SUBSET P
  OBVIOUS
<1> HIDE DEF G
<1>4. G = SUBSET P
  BY <1>1, <1>2, <1>3, SubsetInduction
<1>5. \E i \in P : IsLast(i, P, o)
  BY <1>4 DEF G
<1> QED
  BY <1>5 DEF Last, IsLast

-----------------------------------------------------------------------------
(* A page of the database. *)

LEMMA ListedIsLive ==
    ASSUME NEW i, NEW o, Listed(i, o)
    PROVE  rows[i].live
BY DEF Listed, Nearby

LEMMA RestIsFinite ==
    ASSUME RowsAreRows, NEW c, NEW o
    PROVE  Rest(c, o) \in SUBSET Ids /\ IsFiniteSet(Rest(c, o))
<1>1. Rest(c, o) \in SUBSET MadeRows
  BY ListedIsLive DEF RowsAreRows, Rest, MadeRows
<1>2. IsFiniteSet(Rest(c, o))
  BY <1>1, FS_Subset DEF RowsAreRows
<1> QED
  BY <1>2 DEF Rest

\* A page with no next one is all there is; otherwise its last row is the cursor.
LEMMA PageEnds ==
    ASSUME RowsAreRows, NEW c, NEW o, NEW P, IsPage(P, c, o)
    PROVE  \/ P = Rest(c, o) /\ NextCursor(P, c, o) = Start
           \/ P # {} /\ NextCursor(P, c, o) = Key(Last(P, o), o)
<1> DEFINE rest == Rest(c, o)
<1>1. P \in SUBSET rest /\ rest \in SUBSET Ids /\ IsFiniteSet(rest)
  BY RestIsFinite DEF IsPage
<1>2. \/ Cardinality(P) = Cardinality(rest) /\ Cardinality(P) < PageSize
      \/ Cardinality(P) = PageSize
  BY DEF IsPage
<1>3. /\ list = "statements" => NextCursor(P, c, o) =
             IF Cardinality(P) = PageSize THEN Key(Last(P, o), o) ELSE Start
      /\ list # "statements" => NextCursor(P, c, o) =
             IF P = rest THEN Start ELSE Key(Last(P, o), o)
  BY DEF NextCursor
<1> HIDE DEF rest
<1>4. /\ IsFiniteSet(P)
      /\ Cardinality(P) = Cardinality(rest) => P = rest
      /\ Cardinality(P) \in Nat /\ Cardinality(rest) \in Nat
  BY <1>1, FS_Subset, FS_CardinalityType
<1>5. Cardinality(P) = PageSize => P # {}
  BY FS_EmptySet, PageAssumption
<1>6. PageSize \in Nat
  BY PageAssumption
<1>7. CASE list = "statements"
  BY <1>2, <1>3, <1>4, <1>5, <1>6, <1>7 DEF rest
<1>8. CASE list # "statements"
  BY <1>2, <1>3, <1>4, <1>5, <1>8 DEF rest
<1> QED
  BY <1>7, <1>8

LEMMA PageIsTrueWhenRead ==
    ASSUME ListTypeOK, RowsAreRows, NEW c \in Cursors, NEW o \in Circles,
           NEW P \in SUBSET Ids, IsPage(P, c, o)
    PROVE  /\ NextCursor(P, c, o) \in Cursors
           /\ PageIsTrue(o, c, P, NextCursor(P, c, o), {})
<1> DEFINE next == NextCursor(P, c, o)
<1>1. \A i \in P : Listed(i, o) /\ rows[i].live /\ ToCome(i, c, o)
  BY ListedIsLive DEF IsPage, Rest, ToCome
<1>2. \A i \in Ids : Listed(i, o) /\ ToCome(i, c, o) <=> i \in Rest(c, o)
  BY DEF Rest, ToCome
<1>3. CASE P = Rest(c, o) /\ next = Start
  BY <1>1, <1>2, <1>3 DEF PageIsTrue, Cursors
<1>4. CASE P # {} /\ next = Key(Last(P, o), o)
  <2> DEFINE l == Last(P, o)
  <2>1. IsFiniteSet(P)
    <3>1. P \in SUBSET Rest(c, o) /\ IsFiniteSet(Rest(c, o))
      BY RestIsFinite DEF IsPage
    <3> QED
      BY <3>1, FS_Subset
  <2>2. IsLast(l, P, o)
    BY <1>1, <1>4, <2>1, PagesHaveALastRow
  <2>3. l \in P /\ l \in Ids /\ next = Key(l, o)
    BY <1>4, <2>2 DEF IsLast
  <2>4. next \in Keys /\ next # Start /\ next \in Cursors
    BY <2>3, KeyTypes, StartIsNoKey DEF Cursors
  <2> HIDE DEF l, next
  <2>5. \A i \in Ids : ToCome(i, next, o) <=> Before(next, Key(i, o))
    BY <2>4, KeyTypes, AfterIsBefore DEF ToCome
  <2>6. c # Start => Before(c, next)
    <3>1. c # Start => c \in Keys /\ After(Key(l, o), c)
      BY <1>1, <2>3 DEF Cursors, ToCome
    <3> QED
      BY <2>3, <3>1, KeyTypes, AfterIsBefore
  <2>7. ASSUME NEW i \in P PROVE ~ToCome(i, next, o)
    <3>1. i = l \/ Before(Key(i, o), next)
      BY <2>2, <2>3 DEF IsLast
    <3>2. Key(i, o) \in Keys
      BY KeyTypes
    <3>3. ~Before(next, Key(i, o))
      BY <2>3, <2>4, <3>1, <3>2, BeforeIsAnOrder
    <3> QED
      BY <2>5, <3>3
  <2>8. ASSUME NEW i \in Ids, Listed(i, o), ToCome(i, c, o), ~ToCome(i, next, o)
        PROVE  i \in P
    <3>1. i \in Rest(c, o)
      BY <1>2, <2>8
    <3>2. ~Before(Key(l, o), Key(i, o))
      BY <2>3, <2>5, <2>8
    <3> QED
      BY <2>3, <3>1, <3>2 DEF IsPage
  <2>9. \A i \in Ids :
           i \in P <=> Listed(i, o) /\ ToCome(i, c, o) /\ ~ToCome(i, next, o)
    BY <1>1, <2>7, <2>8
  <2> QED
    BY <1>1, <2>4, <2>6, <2>9 DEF PageIsTrue, next
<1> QED
  BY <1>3, <1>4, PageEnds

\* The page a statement finds at a cursor.
LEMMA PagesAreKept ==
    ASSUME ListTypeOK, RowsAreRows, NEW c \in Cursors, NEW o \in Circles,
           NEW P \in SUBSET Ids, IsPage(P, c, o)
    PROVE  LET page == PageOf(P, c, o)
           IN  /\ page \in Pages /\ page.items = P /\ page.circle = o
               /\ page.touched = {}
               /\ PageIsTrue(o, c, P, page.next, {})
<1> DEFINE next == NextCursor(P, c, o)
<1>1. next \in Cursors /\ PageIsTrue(o, c, P, next, {})
  BY PageIsTrueWhenRead
<1>2. PageOf(P, c, o) = [items |-> P, next |-> next, circle |-> o, touched |-> {}]
  BY DEF PageOf
<1> HIDE DEF next
<1> QED
  BY <1>1, <1>2 DEF Pages

-----------------------------------------------------------------------------
(* Reading. *)

\* Rows that stand as they did are shown and ordered as they were.
LEMMA SameRows ==
    ASSUME UNCHANGED <<list, rows>>
    PROVE  /\ RowsAreRows <=> RowsAreRows'
           /\ \A a, b : Before(a, b)' <=> Before(a, b)
           /\ \A i, c, o : ToCome(i, c, o)' <=> ToCome(i, c, o)
           /\ \A i, o : Listed(i, o)' <=> Listed(i, o)
<1>1. RowsAreRows <=> RowsAreRows'
  BY DEF RowsAreRows, MadeRows
<1>2. \A a, b : Before(a, b)' <=> Before(a, b)
  BY DEF Before, Less, OfferLists
<1>3. \A i, o : Key(i, o)' = Key(i, o)
  BY DEF Key
<1>4. \A k, c : After(k, c)' <=> After(k, c)
  BY DEF After, Less, ListOrdersByBuyer, ListStoreOpenOrders,
         ListOperatorQueue, clickHouseQueueSQL, ListCommissionInvoicesByOwner,
         ListOfferAlternatives, ListComplexOffers, SearchOffers
<1>5. \A i, c, o : ToCome(i, c, o)' <=> ToCome(i, c, o)
  BY <1>3, <1>4 DEF ToCome
<1>6. \A i, o : Nearby(i, o)' <=> Nearby(i, o)
  BY DEF Nearby
<1>7. \A i, o : Best(i, o)' <=> Best(i, o)
  BY <1>2, <1>3, <1>6 DEF Best
<1>8. \A i, o : Listed(i, o)' <=> Listed(i, o)
  BY <1>6, <1>7 DEF Listed
<1> QED
  BY <1>1, <1>2, <1>5, <1>8

LEMMA SamePages ==
    ASSUME UNCHANGED <<list, rows>>, NEW k, NEW page, IsKept(k, page)
    PROVE  IsKept(k, page)'
BY SameRows DEF IsKept, PageIsTrue, Pages, Circles, Cursors, Keys

\* A walk that is given a true page stays true.
LEMMA GivenStep ==
    ASSUME ListTypeOK, WalkIsTrue, Reading, UNCHANGED <<list, rows>>,
           NEW items \in SUBSET Ids, NEW page \in Pages,
           PageIsTrue(page.circle, walk.cursor, items, page.next, page.touched),
           Given(items, page)
    PROVE  ListTypeOK' /\ WalkIsTrue'
<1> DEFINE seen == [i \in Ids |-> walk.seen[i] + IF i \in items THEN 1 ELSE 0]
<1> DEFINE next == page.next
<1> DEFINE o == page.circle
<1>1. /\ walk.at \in {"idle", "reading"} /\ walk.cursor \in Cursors
      /\ walk.seen \in [Ids -> Nat] /\ walk.touched \in SUBSET Ids
      /\ walk.asked \in Nat
      /\ next \in Cursors /\ o \in Circles /\ page.touched \in SUBSET Ids
      /\ o.radius \in Nat
  BY DEF ListTypeOK, Walks, Reading, Pages, Circles
<1>2. PICK asked \in NextAsked(page) :
         walk' = [at |-> IF next = Start THEN "ended" ELSE "reading",
                  asked |-> asked, tries |-> 0,
                  cursor |-> next, circle |-> o,
                  mixed |-> \/ walk.mixed
                            \/ walk.at = "reading" /\ o # walk.circle,
                  seen |-> seen, touched |-> walk.touched \cup page.touched]
  BY DEF Given
<1>3. asked \in Nat
  BY <1>1, <1>2 DEF NextAsked
<1>4. seen \in [Ids -> Nat]
  BY <1>1
<1>5. \A i \in Ids : seen[i] = walk.seen[i] + IF i \in items THEN 1 ELSE 0
  OBVIOUS
<1> HIDE DEF seen, next, o
<1>6. walk' \in Walks
  <2>1. walk.touched \cup page.touched \in SUBSET Ids
    BY <1>1
  <2>2. (\/ walk.mixed
         \/ walk.at = "reading" /\ o # walk.circle) \in BOOLEAN
    OBVIOUS
  <2> QED
    BY <1>1, <1>2, <1>3, <1>4, <2>1, <2>2 DEF Walks
<1>7. /\ walk'.at = (IF next = Start THEN "ended" ELSE "reading")
      /\ walk'.cursor = next /\ walk'.circle = o /\ walk'.seen = seen
      /\ walk'.touched = walk.touched \cup page.touched
  BY <1>2
<1>8. walk'.mixed <=> walk.mixed \/ (walk.at = "reading" /\ o # walk.circle)
  <2> DEFINE m == \/ walk.mixed
                  \/ walk.at = "reading" /\ o # walk.circle
  <2>1. walk'.mixed = m
    BY <1>2
  <2> QED
    BY <2>1
<1>9. ListTypeOK'
  BY <1>6 DEF ListTypeOK
<1>10. CursorFitsWalk'
  BY <1>7 DEF CursorFitsWalk
<1>11. ASSUME ~walk'.mixed, NEW i \in Ids \ walk'.touched PROVE GivenSoFar(i)'
  <2>1. /\ GivenSoFar(i) /\ i \notin page.touched
        /\ walk.at = "reading" => walk.circle = o
    BY <1>7, <1>8, <1>11 DEF WalkIsTrue
  <2>2. walk'.seen[i] = walk.seen[i] + IF i \in items THEN 1 ELSE 0
    BY <1>5, <1>7
  <2>3. /\ \A c : ToCome(i, c, o)' <=> ToCome(i, c, o)
        /\ Listed(i, o)' <=> Listed(i, o)
    BY SameRows
  <2>4. GivenSoFar(i)' <=>
           IF Listed(i, o) /\ (next = Start \/ ~ToCome(i, next, o))
           THEN walk'.seen[i] = 1 ELSE walk'.seen[i] = 0
    <3>1. /\ Listed(i, walk.circle)' <=> Listed(i, o)'
          /\ ToCome(i, walk.cursor, walk.circle)' <=> ToCome(i, next, o)'
      BY <1>7 DEF Listed, ToCome, Nearby, Best, Key
    <3>2. walk'.at = "ended" <=> next = Start
      BY <1>7
    <3>3. walk'.at = "reading" <=> next # Start
      BY <1>7
    <3> QED
      BY <2>3, <3>1, <3>2, <3>3 DEF GivenSoFar
  <2>5. i \in items <=> /\ Listed(i, o)
                        /\ ToCome(i, walk.cursor, o)
                        /\ ~(next # Start /\ ToCome(i, next, o))
    BY <2>1 DEF PageIsTrue, next, o
  <2>6. walk.seen[i] \in Nat
    BY <1>1
  <2>7. CASE walk.at = "idle"
    <3>1. walk.cursor = Start /\ walk.seen[i] = 0
      BY <2>1, <2>7 DEF WalkIsTrue, CursorFitsWalk, GivenSoFar
    <3>2. ToCome(i, walk.cursor, o)
      BY <3>1 DEF ToCome
    <3> QED
      BY <2>2, <2>4, <2>5, <3>1, <3>2
  <2>8. CASE walk.at = "reading"
    <3>1. /\ walk.cursor # Start /\ walk.cursor \in Keys
          /\ walk.seen[i] = IF Listed(i, o) /\ ~ToCome(i, walk.cursor, o) THEN 1 ELSE 0
      BY <1>1, <2>1, <2>8 DEF WalkIsTrue, CursorFitsWalk, GivenSoFar, Cursors
    <3>2. next # Start /\ ToCome(i, next, o) => ToCome(i, walk.cursor, o)
      <4> SUFFICES ASSUME next # Start, ToCome(i, next, o)
                   PROVE  ToCome(i, walk.cursor, o)
        OBVIOUS
      <4>1. next \in Keys /\ Key(i, o) \in Keys
        BY <1>1, KeyTypes DEF Cursors
      <4>2. Before(walk.cursor, next)
        BY <3>1 DEF PageIsTrue, next
      <4>3. Before(next, Key(i, o))
        BY <4>1, AfterIsBefore DEF ToCome
      <4>4. Before(walk.cursor, Key(i, o))
        BY <3>1, <4>1, <4>2, <4>3, BeforeIsAnOrder
      <4> QED
        BY <3>1, <4>1, <4>4, AfterIsBefore DEF ToCome
    <3> QED
      BY <2>2, <2>4, <2>5, <3>1, <3>2
  <2> QED
    BY <1>1, <2>7, <2>8
<1> QED
  BY <1>9, <1>10, <1>11 DEF WalkIsTrue

LEMMA ReadStep ==
    ASSUME ListsInv, NEW P \in SUBSET Ids, NEW lists, ReadsPage(P, lists)
    PROVE  ListsInv'
<1> DEFINE page == PageOf(P, walk.cursor, Here)
<1>0. ListTypeOK /\ RowsAreRows /\ WalkIsTrue /\ KeptPagesAreTrue
  BY DEF ListsInv
<1>1. /\ Reading /\ IsPage(P, walk.cursor, Here) /\ Given(P, page)
      /\ UNCHANGED <<list, rows, cache>>
  BY DEF ReadsPage
<1>2. walk.cursor \in Cursors /\ Here \in Circles
  BY <1>0, HereIsACircle DEF ListTypeOK, Walks
<1>3. /\ page \in Pages /\ page.circle = Here /\ page.touched = {}
      /\ PageIsTrue(Here, walk.cursor, P, page.next, {})
  BY <1>0, <1>1, <1>2, PagesAreKept
<1> HIDE DEF page
<1>4. ListTypeOK' /\ WalkIsTrue'
  BY <1>0, <1>1, <1>3, GivenStep
<1>5. RowsAreRows' /\ KeptPagesAreTrue'
  BY <1>0, <1>1, SameRows, SamePages DEF KeptPagesAreTrue
<1> QED
  BY <1>4, <1>5 DEF ListsInv

\* A page that was just read goes into Redis.
LEMMA KeepStep ==
    ASSUME RowsAreRows, KeptPagesAreTrue, UNCHANGED <<list, rows>>,
           NEW k, NEW page, IsKept(k, page), Keep(k, page) \/ UNCHANGED cache
    PROVE  RowsAreRows' /\ KeptPagesAreTrue'
<1>1. ASSUME NEW d \in DOMAIN cache' PROVE IsKept(d, cache'[d])
  <2>1. \/ d = k /\ cache'[d] = page
        \/ d \in DOMAIN cache /\ cache'[d] = cache[d]
    BY <1>1 DEF Keep
  <2>2. CASE d = k /\ cache'[d] = page
    BY <2>2
  <2>3. CASE d \in DOMAIN cache /\ cache'[d] = cache[d]
    BY <2>3 DEF KeptPagesAreTrue
  <2> QED
    BY <2>1, <2>2, <2>3
<1>2. \A d, p : IsKept(d, p) => IsKept(d, p)'
  BY SamePages
<1>3. \A d \in DOMAIN cache' : IsKept(d, cache[d])'
  BY <1>1, <1>2 DEF IsKept
<1> QED
  BY <1>3, SameRows DEF KeptPagesAreTrue

LEMMA MissStep ==
    ASSUME ListsInv, NEW P \in SUBSET Ids, SearchMiss(P)
    PROVE  ListsInv'
<1> DEFINE page == PageOf(P, walk.cursor, Here)
<1> DEFINE k == CacheKey(walk.asked, walk.cursor)
<1>0. ListTypeOK /\ RowsAreRows /\ WalkIsTrue /\ KeptPagesAreTrue
  BY DEF ListsInv
<1>1. /\ Reading /\ IsPage(P, walk.cursor, Here) /\ Given(P, page)
      /\ Keep(k, page) \/ UNCHANGED cache
      /\ UNCHANGED <<list, rows>>
  BY DEF SearchMiss, Finds, Here
<1>2. walk.cursor \in Cursors /\ Here \in Circles
  BY <1>0, HereIsACircle DEF ListTypeOK, Walks
<1>3. /\ page \in Pages /\ page.items = P /\ page.circle = Here /\ page.touched = {}
      /\ PageIsTrue(Here, walk.cursor, P, page.next, {})
  BY <1>0, <1>1, <1>2, PagesAreKept
<1>4. k[2] = walk.cursor
  BY DEF CacheKey
<1> HIDE DEF page, k
<1>5. IsKept(k, page)
  BY <1>2, <1>3, <1>4 DEF IsKept
<1>6. ListTypeOK' /\ WalkIsTrue'
  BY <1>0, <1>1, <1>3, GivenStep
<1>7. RowsAreRows' /\ KeptPagesAreTrue'
  BY <1>0, <1>1, <1>5, KeepStep
<1> QED
  BY <1>6, <1>7 DEF ListsInv

\* The walk stands where it stood.
LEMMA SameWalk ==
    ASSUME WalkIsTrue, UNCHANGED <<list, rows>>,
           walk'.at = walk.at, walk'.cursor = walk.cursor,
           walk'.circle = walk.circle, walk'.mixed = walk.mixed,
           walk'.seen = walk.seen, walk'.touched = walk.touched
    PROVE  WalkIsTrue'
<1>1. CursorFitsWalk'
  BY DEF WalkIsTrue, CursorFitsWalk
<1>2. ASSUME NEW i PROVE /\ Listed(i, walk.circle)' <=> Listed(i, walk.circle)
                         /\ ToCome(i, walk.cursor, walk.circle)'
                                <=> ToCome(i, walk.cursor, walk.circle)
  <2> DEFINE o == walk.circle
  <2> DEFINE c == walk.cursor
  <2>1. /\ Listed(i, walk.circle)' <=> Listed(i, o)'
        /\ ToCome(i, walk.cursor, walk.circle)' <=> ToCome(i, c, o)'
    BY DEF Listed, ToCome, Nearby, Best, Key
  <2> QED
    BY SameRows DEF Listed, ToCome, Nearby, Best, Key
<1> QED
  BY <1>1, <1>2 DEF WalkIsTrue, GivenSoFar

LEMMA OtherSearchesStep ==
    ASSUME ListsInv,
           \/ Widen
           \/ \E P \in SUBSET Ids, point \in Places, asked \in Radii \cup {0} :
                 OthersMiss(P, point, asked)
    PROVE  ListsInv'
<1>0. ListTypeOK /\ RowsAreRows /\ WalkIsTrue /\ KeptPagesAreTrue /\ walk \in Walks
  BY DEF ListsInv, ListTypeOK
<1>1. CASE Widen
  <2>1. walk' = [walk EXCEPT !.tries = @ + 1] /\ UNCHANGED <<list, rows, cache>>
    BY <1>1 DEF Widen
  <2>2. /\ walk' \in Walks
        /\ walk'.at = walk.at /\ walk'.cursor = walk.cursor
        /\ walk'.circle = walk.circle /\ walk'.mixed = walk.mixed
        /\ walk'.seen = walk.seen /\ walk'.touched = walk.touched
    BY <1>0, <2>1 DEF Walks
  <2>3. WalkIsTrue'
    BY <1>0, <2>1, <2>2, SameWalk
  <2>4. ListTypeOK'
    BY <1>0, <2>1, <2>2 DEF ListTypeOK
  <2>5. RowsAreRows' /\ KeptPagesAreTrue'
    BY <1>0, <2>1, SameRows, SamePages DEF KeptPagesAreTrue
  <2> QED
    BY <2>3, <2>4, <2>5 DEF ListsInv
<1>2. ASSUME NEW P \in SUBSET Ids, NEW point \in Places, NEW asked \in Radii \cup {0},
             OthersMiss(P, point, asked)
      PROVE  ListsInv'
  <2>1. PICK tries \in 0 .. Expansions(asked, walk.cursor) :
           /\ Finds(P, point, asked, tries, walk.cursor)
           /\ Keep(CacheKey(asked, walk.cursor),
                   PageOf(P, walk.cursor, Circle(point, asked, tries)))
    BY <1>2 DEF OthersMiss
  <2> DEFINE o == Circle(point, asked, tries)
  <2> DEFINE page == PageOf(P, walk.cursor, o)
  <2> DEFINE k == CacheKey(asked, walk.cursor)
  <2>2. UNCHANGED <<list, rows, walk>>
    BY <1>2 DEF OthersMiss
  <2>3. tries \in Nat
    BY <2>1, RadiusAssumption DEF Expansions
  <2>4. walk.cursor \in Cursors /\ o \in Circles
    BY <1>0, <2>3, HereIsACircle DEF Walks
  <2>5. IsPage(P, walk.cursor, o) /\ Keep(k, page) /\ k[2] = walk.cursor
    BY <2>1 DEF Finds, CacheKey
  <2> HIDE DEF o, k
  <2>6. /\ page \in Pages /\ page.items = P /\ page.circle = o /\ page.touched = {}
        /\ PageIsTrue(o, walk.cursor, P, page.next, {})
    BY <1>0, <2>4, <2>5, PagesAreKept
  <2> HIDE DEF page
  <2>7. IsKept(k, page)
    BY <2>4, <2>5, <2>6 DEF IsKept
  <2>8. RowsAreRows' /\ KeptPagesAreTrue'
    BY <1>0, <2>2, <2>5, <2>7, KeepStep
  <2>9. WalkIsTrue'
    BY <1>0, <2>2, SameWalk
  <2>10. ListTypeOK'
    BY <1>0, <2>2 DEF ListTypeOK
  <2> QED
    BY <2>8, <2>9, <2>10 DEF ListsInv
<1> QED
  BY <1>1, <1>2

\* What RefreshOffers takes away is what the gate refuses: nothing that kept its
\* place.
LEMMA RefreshedPages ==
    ASSUME NEW page \in Pages, NEW c,
           PageIsTrue(page.circle, c, page.items, page.next, page.touched)
    PROVE  /\ RefreshOffers(page.items) \in SUBSET Ids
           /\ PageIsTrue(page.circle, c, RefreshOffers(page.items), page.next,
                         page.touched)
<1>1. page.items \in SUBSET Ids
  BY DEF Pages
<1>2. \A i \in Ids : i \in RefreshOffers(page.items)
                        <=> i \in page.items /\ rows[i].live
  BY DEF RefreshOffers, StillOffered
<1> QED
  BY <1>1, <1>2, ListedIsLive DEF PageIsTrue, RefreshOffers

LEMMA HitStep ==
    ASSUME ListsInv, SearchHit
    PROVE  ListsInv'
<1> DEFINE k == CacheKey(walk.asked, walk.cursor)
<1> DEFINE page == cache[k]
<1> DEFINE items == RefreshOffers(page.items)
<1>0. ListTypeOK /\ RowsAreRows /\ WalkIsTrue /\ KeptPagesAreTrue
  BY DEF ListsInv
<1>1. /\ Reading /\ k \in DOMAIN cache /\ Given(items, page)
      /\ UNCHANGED <<list, rows, cache>>
  BY DEF SearchHit
<1>2. k[2] = walk.cursor
  BY DEF CacheKey
<1> HIDE DEF k
<1>3. /\ page \in Pages
      /\ PageIsTrue(page.circle, walk.cursor, page.items, page.next, page.touched)
  BY <1>0, <1>1, <1>2 DEF KeptPagesAreTrue, IsKept
<1> HIDE DEF page
<1>4. /\ items \in SUBSET Ids
      /\ PageIsTrue(page.circle, walk.cursor, items, page.next, page.touched)
  BY <1>3, RefreshedPages
<1> HIDE DEF items
<1>5. ListTypeOK' /\ WalkIsTrue'
  BY <1>0, <1>1, <1>3, <1>4, GivenStep
<1>6. RowsAreRows' /\ KeptPagesAreTrue'
  BY <1>0, <1>1, SameRows, SamePages DEF KeptPagesAreTrue
<1> QED
  BY <1>5, <1>6 DEF ListsInv

-----------------------------------------------------------------------------
(* Changing. *)

ListRow == [made : BOOLEAN, live : BOOLEAN, rank : Nat]

\* A changed row leaves every other in its place, except the offers of its owner
\* when a search chooses between them.
LEMMA OthersKeepTheirPlace ==
    ASSUME list' = list, NEW i \in Ids, \A j \in Ids \ {i} : rows'[j] = rows[j]
    PROVE  /\ \A a, b : Before(a, b)' <=> Before(a, b)
           /\ \A j \in Ids \ Fellows(i) :
                 /\ j # i
                 /\ \A c, o : ToCome(j, c, o)' <=> ToCome(j, c, o)
                 /\ \A o : Listed(j, o)' <=> Listed(j, o)
<1>1. \A a, b : Before(a, b)' <=> Before(a, b)
  BY DEF Before, Less, OfferLists
<1>2. i \in Fellows(i)
  BY DEF Fellows
<1>3. \A j \in Ids \ {i} : \A o : Key(j, o)' = Key(j, o)
  BY DEF Key
<1>4. \A k, c : After(k, c)' <=> After(k, c)
  BY DEF After, Less, ListOrdersByBuyer, ListStoreOpenOrders,
       ListOperatorQueue, clickHouseQueueSQL, ListCommissionInvoicesByOwner,
       ListOfferAlternatives, ListComplexOffers, SearchOffers
<1>5. \A j \in Ids \ {i} : \A c, o : ToCome(j, c, o)' <=> ToCome(j, c, o)
  BY <1>3, <1>4 DEF ToCome
<1>6. \A j \in Ids \ {i} : \A o : Nearby(j, o)' <=> Nearby(j, o)
  BY DEF Nearby
<1>7. ASSUME NEW j \in Ids \ Fellows(i), NEW o
      PROVE  Listed(j, o)' <=> Listed(j, o)
  <2>1. j \in Ids \ {i} /\ (Nearby(j, o)' <=> Nearby(j, o))
    BY <1>2, <1>6
  <2>2. CASE list # "search"
    BY <2>1, <2>2 DEF Listed
  <2>3. CASE list = "search"
    <3>1. Owner[i] # Owner[j]
      BY <2>3 DEF Fellows
    <3>2. ASSUME NEW k \in Ids \ {j}, Owner[k] = Owner[j]
          PROVE  /\ Nearby(k, o)' <=> Nearby(k, o)
                 /\ Before(Key(j, o), Key(k, o))' <=> Before(Key(j, o), Key(k, o))
      <4>1. k \in Ids \ {i}
        BY <3>1, <3>2
      <4>2. Key(k, o)' = Key(k, o) /\ Key(j, o)' = Key(j, o)
        BY <1>3, <2>1, <4>1
      <4>3. Before(Key(j, o), Key(k, o))' <=> Before(Key(j, o), Key(k, o))
        BY <4>2 DEF Before, Less, OfferLists
      <4> QED
        BY <1>6, <4>1, <4>3
    <3>3. Best(j, o)' <=> Best(j, o)
      BY <3>2 DEF Best
    <3> QED
      BY <2>1, <3>3 DEF Listed
  <2> QED
    BY <2>2, <2>3
<1> QED
  BY <1>1, <1>2, <1>5, <1>7

\* A changed row is history, and so is what may have changed places with it; the
\* others stand where they stood.
LEMMA ChangesStep ==
    ASSUME ListsInv, NEW i \in Ids, NEW row \in ListRow, Changes(i, row),
           row.made, rows[i].made \/ \A j \in MadeRows : list = "statements" =>
                                        rows[j].rank # row.rank,
           rows[i].made /\ list = "statements" => row.rank = rows[i].rank
    PROVE  ListsInv'
<1>0. /\ ListTypeOK /\ RowsAreRows /\ WalkIsTrue /\ KeptPagesAreTrue
      /\ rows \in [Ids -> ListRow] /\ walk \in Walks
  BY DEF ListsInv, ListTypeOK, ListRow
<1> DEFINE near == Fellows(i)
<1>1. /\ rows' = [rows EXCEPT ![i] = row]
      /\ walk' = IF walk.at = "idle" THEN walk
                 ELSE [walk EXCEPT !.touched = @ \cup near]
      /\ cache' = [k \in DOMAIN cache |-> [cache[k] EXCEPT !.touched = @ \cup near]]
      /\ list' = list
  BY DEF Changes
<1>2. /\ rows' \in [Ids -> ListRow] /\ rows'[i] = row
      /\ \A j \in Ids \ {i} : rows'[j] = rows[j]
  BY <1>0, <1>1
<1>3. near \in SUBSET Ids
  BY DEF Fellows
<1>4. /\ \A a, b : Before(a, b)' <=> Before(a, b)
      /\ \A j \in Ids \ near :
            /\ j # i
            /\ \A c, o : ToCome(j, c, o)' <=> ToCome(j, c, o)
            /\ \A o : Listed(j, o)' <=> Listed(j, o)
  BY <1>1, <1>2, OthersKeepTheirPlace
<1> HIDE DEF near
<1>5. /\ walk'.at = walk.at /\ walk'.cursor = walk.cursor /\ walk'.seen = walk.seen
      /\ walk'.circle = walk.circle /\ walk'.mixed = walk.mixed
      /\ walk.at # "idle" => walk'.touched = walk.touched \cup near
      /\ walk.at = "idle" => walk'.touched = walk.touched
      /\ walk' \in Walks
  <2>1. CASE walk.at = "idle"
    BY <1>0, <1>1, <2>1
  <2>2. CASE walk.at # "idle"
    <3>1. walk' = [walk EXCEPT !.touched = @ \cup near]
      BY <1>1, <2>2
    <3> HIDE <1>1
    <3> QED
      BY <1>0, <1>3, <2>2, <3>1 DEF Walks
  <2> QED
    BY <2>1, <2>2
<1>6. ListTypeOK'
  BY <1>0, <1>1, <1>2, <1>5 DEF ListTypeOK, ListRow
<1>7. RowsAreRows'
  <2>1. MadeRows' \subseteq MadeRows \cup {i}
    BY <1>2 DEF MadeRows
  <2>2. IsFiniteSet(MadeRows')
    <3>1. IsFiniteSet(MadeRows \cup {i})
      BY <1>0, FS_AddElement DEF RowsAreRows
    <3> QED
      BY <2>1, <3>1, FS_Subset
  <2>3. \A j \in Ids : rows'[j].live => rows'[j].made
    BY <1>0, <1>2 DEF RowsAreRows
  <2>4. ASSUME list = "statements", NEW j \in MadeRows', NEW k \in MadeRows',
               rows'[j].rank = rows'[k].rank
        PROVE  j = k
    <3>1. \A l \in Ids \ {i} : l \in MadeRows' => l \in MadeRows
      BY <1>2 DEF MadeRows
    <3>2. j \in Ids /\ k \in Ids
      BY DEF MadeRows
    <3>3. i \in MadeRows <=> rows[i].made
      BY DEF MadeRows
    <3> QED
      BY <1>0, <1>2, <2>4, <3>1, <3>2, <3>3 DEF RowsAreRows
  <2> QED
    BY <1>1, <2>2, <2>3, <2>4 DEF RowsAreRows
<1>8. WalkIsTrue'
  <2>1. CursorFitsWalk'
    BY <1>0, <1>5 DEF WalkIsTrue, CursorFitsWalk
  <2>2. ASSUME ~walk'.mixed, NEW j \in Ids \ walk'.touched PROVE GivenSoFar(j)'
    <3>1. GivenSoFar(j)
      BY <1>0, <1>5, <2>2 DEF WalkIsTrue
    <3>2. CASE walk.at = "idle"
      BY <1>5, <3>1, <3>2 DEF GivenSoFar
    <3>3. CASE walk.at # "idle"
      <4> DEFINE o == walk.circle
      <4> DEFINE c == walk.cursor
      <4>1. j \in Ids \ near
        BY <1>5, <2>2, <3>3
      <4>2. /\ Listed(j, o)' <=> Listed(j, o)
            /\ ToCome(j, c, o)' <=> ToCome(j, c, o)
        <5>1. \A p : Listed(j, p)' <=> Listed(j, p)
          BY <1>4, <4>1
        <5>2. \A d, p : ToCome(j, d, p)' <=> ToCome(j, d, p)
          BY <1>4, <4>1
        <5> QED
          BY <1>5, <5>1, <5>2
      <4> QED
        BY <1>5, <3>1, <4>2 DEF GivenSoFar
    <3> QED
      BY <3>2, <3>3
  <2> QED
    BY <2>1, <2>2 DEF WalkIsTrue
<1>9. KeptPagesAreTrue'
  <2>1. ASSUME NEW k \in DOMAIN cache', NEW q, q = cache'[k] PROVE IsKept(k, q)'
    <3>1. PICK page : page = cache[k]
      OBVIOUS
    <3>2. k \in DOMAIN cache /\ IsKept(k, page)
      BY <1>0, <1>1, <3>1 DEF KeptPagesAreTrue
    <3>3. q = [page EXCEPT !.touched = @ \cup near]
      BY <1>1, <2>1, <3>1, <3>2
    <3>4. /\ q.items = page.items /\ q.next = page.next /\ q.circle = page.circle
          /\ q.touched = page.touched \cup near
          /\ q \in Pages
      BY <1>3, <3>2, <3>3 DEF IsKept, Pages
    <3>5. PageIsTrue(q.circle, k[2], q.items, q.next, q.touched)'
      BY <1>4, <3>2, <3>4 DEF IsKept, PageIsTrue
    <3> QED
      BY <3>2, <3>4, <3>5 DEF IsKept, Pages, Circles, Cursors, Keys
  <2> QED
    BY <2>1 DEF KeptPagesAreTrue
<1> QED
  BY <1>6, <1>7, <1>8, <1>9 DEF ListsInv

LEMMA OthersStep ==
    ASSUME ListsInv, NEW i \in Ids,
           (\E rank \in Ranks : Appear(i, rank) \/ Reprice(i, rank))
              \/ Resolve(i) \/ Leave(i) \/ Return(i)
    PROVE  ListsInv'
<1>0. rows[i] \in ListRow /\ RowsAreRows
  BY DEF ListsInv, ListTypeOK, ListRow
<1>1. ASSUME NEW rank \in Ranks, Appear(i, rank) PROVE ListsInv'
  <2> DEFINE row == [made |-> TRUE, live |-> TRUE, rank |-> rank]
  <2>1. row \in ListRow /\ row.made /\ row.rank = rank
    BY RowsAssumption DEF ListRow
  <2>2. ~rows[i].made /\ Changes(i, row)
    BY <1>1 DEF Appear
  <2>3. \A j \in MadeRows : list = "statements" => rows[j].rank # rank
    BY <1>1 DEF Appear, MadeRows
  <2> HIDE DEF row
  <2> QED
    BY <2>1, <2>2, <2>3, ChangesStep
<1>2. ASSUME NEW row, Changes(i, row), row \in ListRow, row.made, rows[i].made,
             list # "statements"
      PROVE  ListsInv'
  BY <1>2, ChangesStep
<1>3. list \in OfferLists => list # "statements"
  BY DEF OfferLists
<1>4. ASSUME NEW price \in Ranks, Reprice(i, price) PROVE ListsInv'
  <2>1. [rows[i] EXCEPT !.rank = price] \in ListRow
    BY <1>0, RowsAssumption DEF ListRow
  <2>2. [rows[i] EXCEPT !.rank = price].made = rows[i].made
    BY <1>0 DEF ListRow
  <2> QED
    BY <1>2, <1>3, <1>4, <2>1, <2>2 DEF Reprice
<1>5. /\ [rows[i] EXCEPT !.live = FALSE] \in ListRow
      /\ [rows[i] EXCEPT !.live = TRUE] \in ListRow
  BY <1>0 DEF ListRow
<1>6. /\ [rows[i] EXCEPT !.live = FALSE].made = rows[i].made
      /\ [rows[i] EXCEPT !.live = TRUE].made = rows[i].made
  BY <1>0 DEF ListRow
<1>7. rows[i].live => rows[i].made
  BY <1>0 DEF RowsAreRows
<1>8. ASSUME Resolve(i) PROVE ListsInv'
  <2>1. list # "statements"
    BY <1>8 DEF Resolve, Queues
  <2> QED
    BY <1>2, <1>5, <1>6, <1>7, <1>8, <2>1 DEF Resolve, ResolveOperatorQueueItem
<1>9. ASSUME Leave(i) PROVE ListsInv'
  <2>1. list # "statements"
    BY <1>9 DEF Leave, Permanent
  <2> QED
    BY <1>2, <1>5, <1>6, <1>7, <1>9, <2>1 DEF Leave
<1>10. ASSUME Return(i) PROVE ListsInv'
  BY <1>2, <1>3, <1>5, <1>6, <1>10 DEF Return
<1> QED
  BY <1>1, <1>4, <1>8, <1>9, <1>10

\* A client that has read nothing.
LEMMA UnreadWalks ==
    ASSUME walk \in Unreads
    PROVE  walk \in Walks /\ WalkIsTrue
<1>1. PICK asked \in Radii \cup {0} : walk = Unread(asked)
  BY DEF Unreads
<1>2. asked \in Nat
  BY RadiusAssumption
<1>3. Circle(Home, asked, 0) \in Circles
  <2>1. normalizeRadius(asked) \in Nat
    BY <1>2, RadiusAssumption DEF normalizeRadius
  <2>2. normalizeRadius(asked) + 0 * RadiusExpansionStep \in Nat
    BY <2>1, RadiusAssumption
  <2> QED
    BY <2>2, DistanceAssumption DEF Circle, Circles
<1>4. walk \in Walks
  BY <1>1, <1>2, <1>3 DEF Unread, Walks, Cursors
<1>5. /\ walk.at = "idle" /\ walk.cursor = Start /\ ~walk.mixed
      /\ \A i \in Ids : walk.seen[i] = 0
  BY <1>1 DEF Unread
<1> QED
  BY <1>4, <1>5 DEF WalkIsTrue, CursorFitsWalk, GivenSoFar

LEMMA ForgettingStep ==
    ASSUME ListsInv, WalkAgain \/ \E k \in DOMAIN cache : PageExpires(k)
    PROVE  ListsInv'
<1>0. ListTypeOK /\ RowsAreRows /\ WalkIsTrue /\ KeptPagesAreTrue
  BY DEF ListsInv
<1>1. CASE WalkAgain
  <2>1. UNCHANGED <<list, rows, cache>>
    BY <1>1 DEF WalkAgain
  <2>2. (walk \in Unreads)'
    BY <1>1 DEF WalkAgain, Unreads, Unread, Circle, normalizeRadius
  <2>3. (walk \in Walks)' /\ WalkIsTrue'
    BY <2>2, UnreadWalks, PTL
  <2>4. ListTypeOK'
    BY <1>0, <2>1, <2>3 DEF ListTypeOK
  <2>5. RowsAreRows' /\ KeptPagesAreTrue'
    BY <1>0, <2>1, SameRows, SamePages DEF KeptPagesAreTrue
  <2> QED
    BY <2>3, <2>4, <2>5 DEF ListsInv
<1>2. CASE \E k \in DOMAIN cache : PageExpires(k)
  <2>1. PICK k \in DOMAIN cache : PageExpires(k)
    BY <1>2
  <2>2. /\ cache' = [d \in DOMAIN cache \ {k} |-> cache[d]]
        /\ UNCHANGED <<list, rows, walk>>
    BY <2>1 DEF PageExpires
  <2>3. \A d \in DOMAIN cache' : d \in DOMAIN cache /\ cache'[d] = cache[d]
    BY <2>2
  <2>4. ListTypeOK'
    BY <1>0, <2>2 DEF ListTypeOK
  <2>5. RowsAreRows' /\ KeptPagesAreTrue'
    BY <1>0, <2>2, <2>3, SameRows, SamePages DEF KeptPagesAreTrue
  <2>6. WalkIsTrue'
    BY <1>0, <2>2, SameWalk
  <2> QED
    BY <2>4, <2>5, <2>6 DEF ListsInv
<1> QED
  BY <1>1, <1>2

LEMMA ListsStutter ==
    ASSUME ListsInv, UNCHANGED listVars
    PROVE  ListsInv'
<1>0. ListTypeOK /\ RowsAreRows /\ WalkIsTrue /\ KeptPagesAreTrue
  BY DEF ListsInv
<1>1. UNCHANGED <<list, rows, cache, walk>>
  BY DEF listVars
<1>2. ListTypeOK'
  BY <1>0, <1>1 DEF ListTypeOK
<1>3. RowsAreRows' /\ KeptPagesAreTrue'
  BY <1>0, <1>1, SameRows, SamePages DEF KeptPagesAreTrue
<1>4. WalkIsTrue'
  BY <1>0, <1>1, SameWalk
<1> QED
  BY <1>2, <1>3, <1>4 DEF ListsInv

LEMMA ListsKinds ==
    ASSUME ListsNext
    PROVE  \/ \E P \in SUBSET Ids : SearchMiss(P) \/ \E lists : ReadsPage(P, lists)
           \/ SearchHit
           \/ \/ Widen
              \/ \E P \in SUBSET Ids, point \in Places, asked \in Radii \cup {0} :
                    OthersMiss(P, point, asked)
           \/ WalkAgain \/ \E k \in DOMAIN cache : PageExpires(k)
           \/ \E i \in Ids : \/ \E rank \in Ranks : Appear(i, rank) \/ Reprice(i, rank)
                             \/ Resolve(i) \/ Leave(i) \/ Return(i)
BY DEF ListsNext, ListByBuyer, ListStoreOpen, ListCommissionInvoices, ListQueue,
       ListAlternatives, GetComplexAggregate

\* What a client was given of the rows that kept their place is what its cursor has
\* passed; every page Redis keeps says the same of its own stretch of the list, as
\* its own circle shows it.
THEOREM ListsKeepInv == ListsSpec => []ListsInv
<1>1. ASSUME ListsInit PROVE ListsInv
  <2>1. walk \in Walks /\ WalkIsTrue
    BY <1>1, UnreadWalks DEF ListsInit
  <2>2. ListTypeOK
    BY <1>1, <2>1 DEF ListsInit, ListTypeOK
  <2>3. \A i \in Ids : ~rows[i].made /\ ~rows[i].live
    BY <1>1 DEF ListsInit
  <2>4. RowsAreRows
    <3>1. MadeRows = {}
      BY <2>3 DEF MadeRows
    <3> QED
      BY <2>3, <3>1, FS_EmptySet DEF RowsAreRows
  <2>5. KeptPagesAreTrue
    BY <1>1 DEF ListsInit, KeptPagesAreTrue
  <2> QED
    BY <2>1, <2>2, <2>4, <2>5 DEF ListsInv
<1>2. ListsInv /\ [ListsNext]_listVars => ListsInv'
  BY ListsKinds, ReadStep, MissStep, OtherSearchesStep, HitStep, ForgettingStep,
     OthersStep, ListsStutter
<1> QED
  BY <1>1, <1>2, PTL DEF ListsSpec

\* A row that keeps its place from the first page to the last is given exactly once,
\* as long as the pages come from one circle: ties, new rows, vanishing rows and
\* pages from Redis never hide it and never give it twice.
THEOREM SteadyRowsAreSeenOnce == ListsSpec => []SteadyRowSeenOnce
<1>1. ListsInv => SteadyRowSeenOnce
  BY DEF ListsInv, WalkIsTrue, GivenSoFar, SteadyRowSeenOnce
<1> QED
  BY <1>1, ListsKeepInv, PTL

\* No page holds an offer the sale gate refuses when it is given, a page out of Redis
\* (RefreshOffers) included; what the rest of the filter refuses is in it only if it
\* changed its place since the page was read.
THEOREM GivenRowsAreLive == ListsSpec => PagesAreLive
<1>1. ASSUME ListsInv, [ListsNext]_listVars, NEW i \in Ids,
             walk'.seen[i] > walk.seen[i]
      PROVE  /\ rows[i].live
             /\ Listed(i, walk'.circle) \/ i \in walk'.touched
  <2>0. /\ ListTypeOK /\ RowsAreRows /\ KeptPagesAreTrue
        /\ walk \in Walks
        /\ walk.seen[i] \in Nat /\ walk.cursor \in Cursors
    BY <1>1 DEF ListsInv, ListTypeOK, Walks
  <2>1. ASSUME NEW items, NEW page, Given(items, page)
        PROVE  /\ i \in items /\ walk'.circle = page.circle
               /\ walk'.touched = walk.touched \cup page.touched
    BY <1>1, <2>0, <2>1 DEF Given
  <2>2. ASSUME NEW P \in SUBSET Ids, IsPage(P, walk.cursor, Here),
               Given(P, PageOf(P, walk.cursor, Here))
        PROVE  rows[i].live /\ Listed(i, walk'.circle)
    <3>1. i \in P /\ walk'.circle = Here
      BY <2>1, <2>2 DEF PageOf
    <3>2. Listed(i, Here)
      BY <2>2, <3>1 DEF IsPage, Rest
    <3> QED
      BY <3>1, <3>2, ListedIsLive
  <2>3. CASE \E P \in SUBSET Ids : SearchMiss(P)
    BY <2>2, <2>3 DEF SearchMiss, Finds, Here
  <2>4. CASE \E P \in SUBSET Ids : \E lists : ReadsPage(P, lists)
    BY <2>2, <2>4 DEF ReadsPage
  <2>5. CASE SearchHit
    <3>1. PICK k, page : /\ k \in DOMAIN cache /\ page = cache[k]
                         /\ Given(RefreshOffers(page.items), page)
      BY <2>5 DEF SearchHit
    <3>2. /\ i \in RefreshOffers(page.items) /\ walk'.circle = page.circle
          /\ page.touched \subseteq walk'.touched
      BY <2>1, <3>1
    <3>3. rows[i].live /\ i \in page.items
      BY <3>2 DEF RefreshOffers, StillOffered
    <3>4. i \in page.touched \/ Listed(i, page.circle)
      BY <2>0, <3>1, <3>3 DEF KeptPagesAreTrue, IsKept, PageIsTrue
    <3> QED
      BY <3>2, <3>3, <3>4
  <2>6. CASE WalkAgain
    <3>1. PICK asked : walk' = Unread(asked)
      BY <2>6 DEF WalkAgain, Unreads
    <3> QED
      BY <1>1, <2>0, <3>1 DEF Unread
  <2>7. CASE walk'.seen = walk.seen
    BY <1>1, <2>0, <2>7
  <2>8. ASSUME \/ Widen
               \/ \E P \in SUBSET Ids, point \in Places, asked \in Radii \cup {0} :
                     OthersMiss(P, point, asked)
               \/ \E k \in DOMAIN cache : PageExpires(k)
               \/ \E j \in Ids : \/ \E rank \in Ranks : Appear(j, rank) \/ Reprice(j, rank)
                                 \/ Resolve(j) \/ Leave(j) \/ Return(j)
        PROVE  walk'.seen = walk.seen
    BY <2>0, <2>8 DEF Widen, OthersMiss, PageExpires, Appear, Reprice, Resolve, Leave,
                      Return, Changes, Walks
  <2>9. UNCHANGED listVars => walk'.seen = walk.seen
    BY DEF listVars
  <2> QED
    BY <1>1, <2>3, <2>4, <2>5, <2>6, <2>7, <2>8, <2>9, ListsKinds
<1>2. ListsInv /\ [ListsNext]_listVars
        => [\A i \in Ids : walk'.seen[i] > walk.seen[i] =>
                /\ rows[i].live
                /\ Listed(i, walk'.circle) \/ i \in walk'.touched]_listVars
  BY <1>1
<1> QED
  BY <1>2, ListsKeepInv, PTL DEF ListsSpec, PagesAreLive
=============================================================================
