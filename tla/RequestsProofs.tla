--------------------------- MODULE RequestsProofs ---------------------------
(***************************************************************************)
(* One key, one mutation: for any number of requests, bodies and resources *)
(* and any loss of the Redis keys. The receipt is what the rest rests on:  *)
(* nothing is applied without it, and every success goes back to it.       *)
(***************************************************************************)
EXTENDS RequestsProperties, TLAPS

\* The receipt and what was carried out say the same.
ReceiptIsTheEffect ==
    \A t \in Targets : applied[t] = IF t = receipt THEN 1 ELSE 0

\* Redis and the requests only speak of the receipt's resource, save that an empty
\* response is taken for the resource of the path it was asked by.
SpeaksOfReceipt ==
    /\ response # None => receipt # None /\ response = Says(receipt)
    /\ \A r \in RequestIds :
          answer[r] = "success" => receipt # None /\ about[r] = receipt
    /\ \A r \in RequestIds :
          answer[r] = "replayed" =>
              /\ receipt # None
              /\ about[r] = IF kind = "create" THEN receipt ELSE TargetOf[r]
              /\ at[r] # "unsent"
    /\ \A r \in RequestIds : at[r] = "save" => answer[r] = "success"

\* What was acted on is the resource of a request that was sent.
ReceiptWasAskedFor ==
    kind = "act" /\ receipt # None =>
        \E s \in RequestIds : at[s] # "unsent" /\ TargetOf[s] = receipt

KeyInv == TypeOK /\ ReceiptIsTheEffect /\ SpeaksOfReceipt /\ ReceiptWasAskedFor

\* The resource and the body of a request are a resource and a body.
LEMMA ResourceTyped ==
    ASSUME TypeOK, NEW r \in RequestIds
    PROVE  /\ ResourceOf(r) \in Targets /\ ResourceOf(r) # None
           /\ TargetOf[r] \in Targets /\ BodyOf[r] \in Bodies
    BY NoneAssumption DEF ResourceOf, Targets, Bodies, TypeOK

\* At the start nothing is applied and nobody speaks.
LEMMA KeyInvHoldsInitially == Init => KeyInv
<1> SUFFICES ASSUME Init PROVE KeyInv
    OBVIOUS
<1> USE NoneAssumption DEF Init
<1>1. TypeOK
    BY DEF TypeOK, Steps
<1>2. ReceiptIsTheEffect
    BY DEF ReceiptIsTheEffect
<1>3. SpeaksOfReceipt
    BY DEF SpeaksOfReceipt, Outcomes
<1>4. ReceiptWasAskedFor
    BY DEF ReceiptWasAskedFor
<1> QED
    BY <1>1, <1>2, <1>3, <1>4 DEF KeyInv

\* A request that was sent stays sent.
LEMMA SentStaysSent ==
    ASSUME KeyInv, UNCHANGED <<kind, receipt>>, NEW r \in RequestIds,
           NEW step \in Steps \ {"unsent"}, Goto(r, step)
    PROVE  ReceiptWasAskedFor'
<1>1. \A s \in RequestIds : at[s] # "unsent" => at'[s] # "unsent"
    BY DEF KeyInv, TypeOK, Goto
<1> QED
    BY <1>1 DEF KeyInv, ReceiptWasAskedFor

\* A request that only goes on, or ends without success, says nothing new.
LEMMA QuietStep ==
    ASSUME KeyInv, UNCHANGED <<kind, tableVars>>,
           NEW r \in RequestIds,
           NEW outcome \in Outcomes \ {"success", "replayed"},
           NEW step \in Steps \ {"save", "unsent"},
           GoOn(r, step) \/ Answers(r, outcome, None, step),
           reservation' \in Bodies \cup {None},
           response' \in {response, None}
    PROVE  KeyInv'
<1> USE DEF tableVars
<1>1. TypeOK'
    BY DEF KeyInv, TypeOK, GoOn, Goto, Answers
<1>2. ReceiptIsTheEffect'
    BY DEF KeyInv, ReceiptIsTheEffect
<1>3. SpeaksOfReceipt'
    BY DEF KeyInv, TypeOK, SpeaksOfReceipt, Says, GoOn, Goto, Answers, Outcomes
<1>4. ReceiptWasAskedFor'
    BY SentStaysSent DEF GoOn, Answers
<1> QED
    BY <1>1, <1>2, <1>3, <1>4 DEF KeyInv

\* A transaction may speak of the receipt's resource.
LEMMA TrueSuccess ==
    ASSUME KeyInv, UNCHANGED <<kind, redisVars, tableVars>>, receipt # None,
           NEW r \in RequestIds, NEW step \in Steps \ {"unsent"},
           Answers(r, "success", receipt, step)
    PROVE  KeyInv'
<1> USE DEF tableVars, redisVars
<1>1. TypeOK'
    BY DEF KeyInv, TypeOK, Goto, Answers, Outcomes
<1>2. ReceiptIsTheEffect'
    BY DEF KeyInv, ReceiptIsTheEffect
<1>3. SpeaksOfReceipt'
    BY DEF KeyInv, TypeOK, SpeaksOfReceipt, Says, Goto, Answers
<1>4. ReceiptWasAskedFor'
    BY SentStaysSent DEF Answers
<1> QED
    BY <1>1, <1>2, <1>3, <1>4 DEF KeyInv

\* Redis may repeat what it was given.
LEMMA TrueReplay ==
    ASSUME KeyInv, UNCHANGED <<kind, redisVars, tableVars>>, response # None,
           NEW r \in RequestIds, Answers(r, "replayed", Told(r, response), "ended")
    PROVE  KeyInv'
<1> USE DEF tableVars, redisVars
<1>1. /\ receipt # None /\ receipt \in Targets
      /\ Told(r, response) = IF kind = "create" THEN receipt ELSE TargetOf[r]
    BY EmptyAssumption DEF KeyInv, TypeOK, SpeaksOfReceipt, Told, Says
<1>2. Told(r, response) \in Targets
    BY <1>1, ResourceTyped DEF KeyInv
<1>3. TypeOK'
    BY <1>2 DEF KeyInv, TypeOK, Goto, Answers, Outcomes, Steps
<1>4. ReceiptIsTheEffect'
    BY DEF KeyInv, ReceiptIsTheEffect
<1>5. SpeaksOfReceipt'
    BY <1>1 DEF KeyInv, TypeOK, SpeaksOfReceipt, Says, Goto, Answers
<1>6. ReceiptWasAskedFor'
    BY SentStaysSent DEF Answers, Steps
<1> QED
    BY <1>3, <1>4, <1>5, <1>6 DEF KeyInv

\* The first transaction that finds no receipt: nobody has spoken before it.
LEMMA FirstMutation ==
    ASSUME KeyInv, UNCHANGED <<kind, redisVars>>, receipt = None,
           NEW r \in RequestIds, Apply(ResourceOf(r)),
           \/ Answers(r, "success", ResourceOf(r), "save")
           \/ Answers(r, "error", None, "release")
    PROVE  KeyInv'
<1>t. ResourceOf(r) \in Targets /\ ResourceOf(r) # None
    BY ResourceTyped DEF KeyInv
<1>0. receipt' = ResourceOf(r)
    BY DEF Apply
<1>1. \A t \in Targets : applied[t] = 0
    BY NoneAssumption DEF KeyInv, ReceiptIsTheEffect
<1>2. applied' = [applied EXCEPT ![ResourceOf(r)] = 1]
    <2>1. applied[ResourceOf(r)] + 1 = 1
        BY <1>t, <1>1
    <2> QED
        BY <2>1 DEF Apply
<1>3. TypeOK'
    BY <1>t, <1>0, <1>2
    DEF KeyInv, TypeOK, Answers, Goto, Steps, Outcomes, redisVars
<1>4. ReceiptIsTheEffect'
    BY <1>t, <1>0, <1>1, <1>2 DEF ReceiptIsTheEffect, KeyInv, TypeOK
<1>5. SpeaksOfReceipt'
    BY <1>t, <1>0
    DEF SpeaksOfReceipt, KeyInv, TypeOK, Answers, Goto, redisVars
<1>6. ReceiptWasAskedFor'
    <2>1. at'[r] # "unsent"
        BY DEF KeyInv, TypeOK, Answers, Goto
    <2> QED
        BY <1>0, <2>1 DEF ReceiptWasAskedFor, ResourceOf
<1> QED
    BY <1>3, <1>4, <1>5, <1>6 DEF KeyInv

\* SaveResponse stores what the receipt says.
LEMMA SavedIsTrue ==
    ASSUME KeyInv, NEW r \in RequestIds, SaveResponse(r)
    PROVE  KeyInv'
<1> USE DEF tableVars
<1>1. about[r] = receipt /\ receipt # None /\ receipt \in Targets
    BY DEF SaveResponse, At, KeyInv, TypeOK, SpeaksOfReceipt
<1>2. Says(receipt) \in Targets \cup {Empty}
    BY <1>1 DEF Says
<1>3. TypeOK'
    BY <1>1, <1>2 DEF SaveResponse, GoOn, Goto, KeyInv, TypeOK, Steps
<1>4. ReceiptIsTheEffect'
    BY DEF SaveResponse, KeyInv, ReceiptIsTheEffect
<1>5. SpeaksOfReceipt'
    BY <1>1 DEF SaveResponse, GoOn, Goto, KeyInv, TypeOK, SpeaksOfReceipt, Says
<1>6. ReceiptWasAskedFor'
    BY SentStaysSent DEF SaveResponse, GoOn, Steps
<1> QED
    BY <1>3, <1>4, <1>5, <1>6 DEF KeyInv

\* Time takes keys out of Redis and says nothing.
LEMMA ExpiryIsQuiet ==
    ASSUME KeyInv, ReservationExpires \/ ResponseExpires \/ UNCHANGED vars
    PROVE  KeyInv'
<1>1. /\ UNCHANGED <<kind, receipt, applied, at, answer, about>>
      /\ reservation' \in {reservation, None} /\ response' \in {response, None}
    BY DEF ReservationExpires, ResponseExpires, tableVars, requestVars, vars,
           redisVars
<1>2. TypeOK'
    BY <1>1 DEF KeyInv, TypeOK
<1>3. ReceiptIsTheEffect'
    BY <1>1 DEF KeyInv, ReceiptIsTheEffect
<1>4. SpeaksOfReceipt'
    BY <1>1 DEF KeyInv, SpeaksOfReceipt, Says
<1>5. ReceiptWasAskedFor'
    BY <1>1 DEF KeyInv, ReceiptWasAskedFor
<1> QED
    BY <1>2, <1>3, <1>4, <1>5 DEF KeyInv

\* Every step of a request and of time keeps what the requests say true.
LEMMA KeyInvIsInductive == KeyInv /\ [Next]_vars => KeyInv'
<1> SUFFICES ASSUME KeyInv, [Next]_vars PROVE KeyInv'
    OBVIOUS
<1>a. TypeOK /\ SpeaksOfReceipt
    BY DEF KeyInv
<1>q. /\ {"reserve", "look", "fetch", "run", "extend", "release", "ended"}
            \subseteq Steps \ {"save", "unsent"}
      /\ {"refused", "error", "in_flight", "mismatch", "unavailable"}
            \subseteq Outcomes \ {"success", "replayed"}
      /\ "save" \in Steps \ {"unsent"}
    BY DEF Steps, Outcomes
<1>1. ASSUME NEW r \in RequestIds,
             Send(r) \/ ReserveStep(r) \/ HandlerStep(r) \/ SaveStep(r) \/ Dies(r)
      PROVE  KeyInv'
    <2>r. reservation \in Bodies \cup {None} /\ BodyOf[r] \in Bodies
        BY <1>a, ResourceTyped DEF TypeOK
    <2>1. CASE Send(r)
        BY <2>1, <2>r, <1>q, QuietStep DEF Send, redisVars
    <2>2. CASE SetNX(r)
        BY <2>2, <2>r, <1>q, QuietStep DEF SetNX
    <2>3. CASE SetNXFails(r)
        BY <2>3, <2>r, <1>q, QuietStep DEF SetNXFails, Ends
    <2>4. CASE GetReservation(r)
        BY <2>4, <2>r, <1>q, QuietStep DEF GetReservation, Ends, redisVars
    <2>5. CASE GetResponse(r)
        <3>1. CASE response = None
            BY <2>5, <3>1, <2>r, <1>q, QuietStep DEF GetResponse, Ends, redisVars
        <3>2. CASE response # None
            BY <2>5, <3>2, TrueReplay DEF GetResponse
        <3> QED
            BY <3>1, <3>2
    <2>6. CASE GetFails(r)
        BY <2>6, <2>r, <1>q, QuietStep DEF GetFails, Ends, redisVars
    <2>7. CASE Mutate(r)
        BY <2>7, FirstMutation DEF Mutate
    <2>8. CASE CommitAnswerLost(r)
        BY <2>8, FirstMutation DEF CommitAnswerLost
    <2>9. CASE ReplayCreated(r)
        BY <2>9, <1>q, TrueSuccess DEF ReplayCreated
    <2>10. CASE ReplayAct(r)
        <3>1. CASE receipt = ResourceOf(r)
            BY <2>10, <3>1, <1>q, TrueSuccess DEF ReplayAct
        <3>2. CASE receipt # ResourceOf(r)
            BY <2>10, <3>2, <2>r, <1>q, QuietStep DEF ReplayAct, redisVars
        <3> QED
            BY <3>1, <3>2
    <2>11. CASE Refuse(r)
        BY <2>11, <2>r, <1>q, QuietStep DEF Refuse, redisVars
    <2>12. CASE SaveResponse(r)
        BY <2>12, SavedIsTrue
    <2>13. CASE ExtendReservation(r)
        BY <2>13, <2>r, <1>q, QuietStep DEF ExtendReservation, redisVars
    <2>14. CASE Release(r)
        BY <2>14, <2>r, <1>q, QuietStep DEF Release
    <2>15. CASE Dies(r)
        BY <2>15, <2>r, <1>q, QuietStep DEF Dies, redisVars
    <2> QED
        BY <1>1, <2>1, <2>2, <2>3, <2>4, <2>5, <2>6, <2>7, <2>8, <2>9, <2>10,
           <2>11, <2>12, <2>13, <2>14, <2>15
        DEF ReserveStep, HandlerStep, SaveStep
<1> QED
    BY <1>1, ExpiryIsQuiet DEF Next

\* The invariant says what the promises say.
LEMMA KeyInvGives == KeyInv => AppliedOnce /\ SuccessIsTrue
<1> SUFFICES ASSUME KeyInv PROVE AppliedOnce /\ SuccessIsTrue
    OBVIOUS
<1>1. AppliedOnce
    BY DEF KeyInv, TypeOK, ReceiptIsTheEffect, AppliedOnce
<1>2. receipt # None => receipt \in Targets /\ applied[receipt] = 1
    BY DEF KeyInv, TypeOK, ReceiptIsTheEffect
<1>3. ASSUME NEW r \in RequestIds, answer[r] = "replayed", KeyNamesOneResource
      PROVE  about[r] = receipt /\ receipt # None
    <2>1. /\ receipt # None /\ at[r] # "unsent"
          /\ about[r] = IF kind = "create" THEN receipt ELSE TargetOf[r]
        BY <1>3 DEF KeyInv, SpeaksOfReceipt
    <2>2. CASE kind = "create"
        BY <2>1, <2>2
    <2>3. CASE kind = "act"
        <3>1. PICK s \in RequestIds : at[s] # "unsent" /\ TargetOf[s] = receipt
            BY <2>1, <2>3 DEF KeyInv, ReceiptWasAskedFor
        <3>2. TargetOf[r] = TargetOf[s]
            BY <1>3, <2>1, <2>3, <3>1 DEF KeyNamesOneResource, At
        <3> QED
            BY <2>1, <2>3, <3>1, <3>2
    <2> QED
        BY <2>2, <2>3 DEF KeyInv, TypeOK
<1>4. SuccessIsTrue
    <2>1. \A r \in RequestIds : answer[r] = "success" =>
              about[r] # None /\ applied[about[r]] = 1
        BY <1>2 DEF KeyInv, SpeaksOfReceipt
    <2>2. \A r \in RequestIds : answer[r] = "replayed" =>
              /\ \E t \in Targets : applied[t] = 1
              /\ KeyNamesOneResource => about[r] # None /\ applied[about[r]] = 1
        BY <1>2, <1>3 DEF KeyInv, SpeaksOfReceipt
    <2>3. response # None => \E t \in Targets : response = Says(t) /\ applied[t] = 1
        BY <1>2 DEF KeyInv, SpeaksOfReceipt
    <2> QED
        BY <2>1, <2>2, <2>3 DEF SuccessIsTrue
<1> QED
    BY <1>1, <1>4

\* For any requests under one key, whatever Redis forgets, whoever dies and
\* however late a request goes on: the mutation is carried out at most once, on
\* one resource. (dedup.claim)
THEOREM KeyAppliesOnce == Spec => []AppliedOnce
<1>1. Init => KeyInv
    BY KeyInvHoldsInitially
<1>2. KeyInv /\ [Next]_vars => KeyInv'
    BY KeyInvIsInductive
<1>3. KeyInv => AppliedOnce
    BY KeyInvGives
<1> QED
    BY <1>1, <1>2, <1>3, PTL DEF Spec

\* And every success is true: of the resource its caller takes it for when a
\* transaction gives it, or when Redis does and the key was sent for one resource
\* only; of some resource of the key otherwise. (SaveResponse, replayCreated,
\* ReserveFor, replay)
THEOREM SuccessesAreTrue == Spec => []SuccessIsTrue
<1>1. Init => KeyInv
    BY KeyInvHoldsInitially
<1>2. KeyInv /\ [Next]_vars => KeyInv'
    BY KeyInvIsInductive
<1>3. KeyInv => SuccessIsTrue
    BY KeyInvGives
<1> QED
    BY <1>1, <1>2, <1>3, PTL DEF Spec
=============================================================================
