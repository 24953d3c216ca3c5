----------------------------- MODULE SessionsProofs -----------------------------
(***************************************************************************)
(* Sign-in and sessions, for any number of requests, tokens and codes. The *)
(* invariant adds to the properties what each request carries from one of  *)
(* its statements to the next: nothing but this survives between them, for *)
(* no transaction surrounds them.                                          *)
(***************************************************************************)
EXTENDS SessionsProperties, TLAPS

\* A verification carries no token; a refresh and a logout carry a row's.
CarriesItsToken ==
    \A r \in Requests :
        /\ requests[r].step \in {"count", "consume", "upsert"} =>
              requests[r].token = NoToken
        /\ requests[r].step \in {"rotate", "log_out"} =>
              requests[r].token \in TokenIds

\* Every comparison was paid for with an INCR, and stopped at the limit.
PaidFor == compared <= otp.attempts /\ compared <= MaxAttempts

Issues(r) == requests[r].step \in {"store_code", "send", "cancel"}

\* The cooldown lets one request at a time issue a code, and while it waits
\* for the gateway nobody was sent one.
OneIssuer ==
    /\ \A r \in Requests : Issues(r) => otp.cooldown = TRUE
    /\ \A r, q \in Requests : Issues(r) /\ Issues(q) => r = q
    /\ \A r \in Requests :
          requests[r].step \in {"send", "cancel"} => delivered = FALSE

-----------------------------------------------------------------------------
(* Types. *)

USE CodesAssumption, AttemptsAssumption, TokensAssumption

\* The store's commands keep the keys of the phone typed.
LEMMA KeysTyped ==
    \A keys \in OtpKeys :
        /\ StartCooldown(keys) \in OtpKeys
        /\ [keys EXCEPT !.cooldown = FALSE] \in OtpKeys
        /\ \A c \in Codes : StoreCode(keys, c) \in OtpKeys
        /\ discard(keys) \in OtpKeys
        /\ CountAttempt(keys) \in OtpKeys
        /\ Withdraw(keys) \in OtpKeys
<1> TAKE keys \in OtpKeys
<1>1. /\ StartCooldown(keys) \in OtpKeys
      /\ [keys EXCEPT !.cooldown = FALSE] \in OtpKeys
    BY DEF StartCooldown, OtpKeys
<1>2. /\ \A c \in Codes : StoreCode(keys, c) \in OtpKeys
      /\ discard(keys) \in OtpKeys
    BY DEF StoreCode, discard, OtpKeys
<1>3. CountAttempt(keys) \in OtpKeys
    BY DEF CountAttempt, OtpKeys
<1>4. Withdraw(keys) \in OtpKeys
    BY DEF Withdraw, NoKeys, OtpKeys
<1> QED
    BY <1>1, <1>2, <1>3, <1>4

\* The statements keep the rows of the table typed.
LEMMA RowsTyped ==
    /\ NoRow \in Rows
    /\ \A t \in TokenIds \cup {NoToken} : NewRow(t) \in Rows
    /\ \A row \in Rows : /\ Revoked(row) \in Rows
                         /\ [row EXCEPT !.expired = TRUE] \in Rows
                         /\ \A gone : Orphaned(row, gone) \in Rows
<1>1. NoRow \in Rows /\ \A t \in TokenIds \cup {NoToken} : NewRow(t) \in Rows
    BY DEF NoRow, NewRow, Rows
<1>2. \A row \in Rows : Revoked(row) \in Rows
    BY DEF Revoked, Rows
<1>3. \A row \in Rows : [row EXCEPT !.expired = TRUE] \in Rows
    BY DEF Rows
<1>4. \A row \in Rows : \A gone : Orphaned(row, gone) \in Rows
    BY DEF Orphaned, Rows
<1> QED
    BY <1>1, <1>2, <1>3, <1>4

\* What a request may become.
LEMMA RequestsTyped ==
    /\ Idle \in RequestStates
    /\ \A step \in Steps, t \in TokenIds \cup {NoToken} :
          LET s == [Idle EXCEPT !.step = step, !.token = t]
          IN  s \in RequestStates /\ s.step = step /\ s.token = t
<1>1. Idle \in RequestStates
    BY DEF Idle, RequestStates, Steps
<1>2. \A step \in Steps, t \in TokenIds \cup {NoToken} :
          [Idle EXCEPT !.step = step, !.token = t] \in RequestStates
    BY DEF Idle, RequestStates
<1>3. \A step \in Steps, t \in TokenIds \cup {NoToken} :
          LET s == [Idle EXCEPT !.step = step, !.token = t]
          IN  s.step = step /\ s.token = t
    BY DEF Idle
<1> QED
    BY <1>1, <1>2, <1>3

\* The others stand where they did.
LEMMA OneRequestMoves ==
    ASSUME TypeOK, NEW r \in Requests, NEW s \in RequestStates,
           requests' = [requests EXCEPT ![r] = s]
    PROVE  /\ requests' \in [Requests -> RequestStates]
           /\ requests'[r] = s
           /\ \A q \in Requests \ {r} : requests'[q] = requests[q]
    BY DEF TypeOK

\* Goto keeps the token, Ends drops everything.
LEMMA GotoMoves ==
    ASSUME TypeOK, NEW r \in Requests, NEW step \in Steps, Goto(r, step)
    PROVE  /\ requests' \in [Requests -> RequestStates]
           /\ requests'[r].step = step
           /\ requests'[r].token = requests[r].token
           /\ \A q \in Requests \ {r} : requests'[q] = requests[q]
<1> DEFINE s == [Idle EXCEPT !.step = step, !.token = requests[r].token]
<1>1. requests[r].token \in TokenIds \cup {NoToken}
    BY DEF TypeOK, RequestStates
<1>2. s \in RequestStates /\ s.step = step /\ s.token = requests[r].token
    BY <1>1, RequestsTyped
<1>3. requests' = [requests EXCEPT ![r] = s]
    BY DEF Goto
<1> HIDE DEF s
<1> QED
    BY <1>2, <1>3, OneRequestMoves

LEMMA EndsMoves ==
    ASSUME TypeOK, NEW r \in Requests, Ends(r)
    PROVE  /\ requests' \in [Requests -> RequestStates]
           /\ requests'[r].step = "idle"
           /\ requests'[r].token = NoToken
           /\ \A q \in Requests \ {r} : requests'[q] = requests[q]
<1>1. Idle.step = "idle" /\ Idle.token = NoToken
    BY DEF Idle
<1> QED
    BY <1>1, RequestsTyped, OneRequestMoves DEF Ends

\* A refresh or a logout starts with the row it found.
LEMMA StartMoves ==
    ASSUME TypeOK, NEW r \in Requests, NEW t \in TokenIds, NEW step \in Steps,
           requests' = [requests EXCEPT ![r] =
                           [Idle EXCEPT !.step = step, !.token = t]]
    PROVE  /\ requests' \in [Requests -> RequestStates]
           /\ requests'[r].step = step
           /\ requests'[r].token = t
           /\ \A q \in Requests \ {r} : requests'[q] = requests[q]
<1> DEFINE s == [Idle EXCEPT !.step = step, !.token = t]
<1>1. s \in RequestStates /\ s.step = step /\ s.token = t
    BY RequestsTyped
<1> HIDE DEF s
<1> QED
    BY <1>1, OneRequestMoves DEF s

\* IssueCode writes down the code it drew, ReadCode the one it read.
LEMMA IssueMoves ==
    ASSUME TypeOK, NEW r \in Requests, IssueCode(r)
    PROVE  /\ requests' \in [Requests -> RequestStates]
           /\ requests'[r].step = "send"
           /\ \A q \in Requests \ {r} : requests'[q] = requests[q]
<1>1. PICK c \in Codes :
          requests' = [requests EXCEPT ![r] =
                          [Idle EXCEPT !.step = "send", !.code = c]]
    BY DEF IssueCode
<1> DEFINE s == [Idle EXCEPT !.step = "send", !.code = c]
<1>2. s \in RequestStates /\ s.step = "send"
    BY DEF Idle, RequestStates, Steps
<1> HIDE DEF s
<1> QED
    BY <1>1, <1>2, OneRequestMoves DEF s

LEMMA ReadMoves ==
    ASSUME TypeOK, NEW r \in Requests, NEW match \in BOOLEAN, ReadCode(r, match)
    PROVE  /\ requests' \in [Requests -> RequestStates]
           /\ requests'[r].step = "count"
           /\ requests'[r].token = NoToken
           /\ \A q \in Requests \ {r} : requests'[q] = requests[q]
<1> DEFINE s == [Idle EXCEPT !.step = "count", !.code = otp.code, !.match = match]
<1>1. otp.code \in Codes \cup {NoCode}
    BY DEF TypeOK, OtpKeys
<1>2. s \in RequestStates
    BY <1>1 DEF Idle, RequestStates, Steps
<1>3. s.step = "count" /\ s.token = NoToken
    BY DEF Idle
<1>4. requests' = [requests EXCEPT ![r] = s]
    BY DEF ReadCode
<1> HIDE DEF s
<1> QED
    BY <1>2, <1>3, <1>4, OneRequestMoves

\* Where a step of request r takes it, and with which token.
Itinerary(r) ==
    LET was == requests[r]
        is == requests'[r]
    IN  \/ is.step = "idle" /\ is.token = NoToken
        \/ is.step \in {"store_code", "send", "cancel"}
        \/ is.step = "count" /\ is.token = NoToken
        \/ is.step = "destroy"
        \/ was.step = "count" /\ is.step = "consume" /\ is.token = was.token
        \/ was.step = "consume" /\ is.step = "upsert" /\ is.token = was.token
        \/ was.step = "upsert" /\ is.step = "issue" /\ is.token = was.token
        \/ is.step \in {"rotate", "log_out", "revoke_all"} /\ is.token \in TokenIds
        \/ was.step = "rotate" /\ is.step = "issue" /\ is.token = was.token

LEMMA RequestFollowsItinerary ==
    ASSUME TypeOK, NEW r \in Requests, Starts(r) \/ GoesOn(r)
    PROVE  /\ requests' \in [Requests -> RequestStates]
           /\ Itinerary(r)
           /\ \A q \in Requests \ {r} : requests'[q] = requests[q]
<1>1. CASE Ends(r)
    BY <1>1, EndsMoves DEF Itinerary
<1>2. CASE RequestCode(r) \/ SendFails(r)
    BY <1>2, GotoMoves DEF RequestCode, SendFails, Itinerary, Steps
<1>3. CASE IssueCode(r)
    BY <1>3, IssueMoves DEF Itinerary
<1>4. CASE \E match \in BOOLEAN : ReadCode(r, match)
    BY <1>4, ReadMoves DEF Itinerary
<1>5. CASE \E t \in TokenIds : FindRefreshToken(r, t)
  <2>1. PICK t \in TokenIds, step \in {"revoke_all", "rotate"} :
            requests' = [requests EXCEPT ![r] =
                            [Idle EXCEPT !.step = step, !.token = t]]
      BY <1>5 DEF FindRefreshToken
  <2>2. step \in Steps
      BY DEF Steps
  <2>3. /\ requests' \in [Requests -> RequestStates]
        /\ requests'[r].step = step
        /\ requests'[r].token = t
        /\ \A q \in Requests \ {r} : requests'[q] = requests[q]
      BY <2>1, <2>2, StartMoves
  <2>4. Itinerary(r)
      BY <2>3 DEF Itinerary
  <2> QED
      BY <2>3, <2>4
<1>6. CASE \E t \in TokenIds : BeginLogout(r, t)
  <2>1. PICK t \in TokenIds :
            requests' = [requests EXCEPT ![r] =
                            [Idle EXCEPT !.step = "log_out", !.token = t]]
      BY <1>6 DEF BeginLogout
  <2>2. "log_out" \in Steps
      BY DEF Steps
  <2>3. /\ requests' \in [Requests -> RequestStates]
        /\ requests'[r].step = "log_out"
        /\ requests'[r].token = t
        /\ \A q \in Requests \ {r} : requests'[q] = requests[q]
      BY <2>1, <2>2, StartMoves
  <2>4. Itinerary(r)
      BY <2>3 DEF Itinerary
  <2> QED
      BY <2>3, <2>4
<1>7. CASE CountGuess(r)
    BY <1>1, <1>7, GotoMoves DEF CountGuess, At, Itinerary, Steps
<1>8. CASE ConsumeCode(r)
    BY <1>8, GotoMoves DEF ConsumeCode, At, Itinerary, Steps
<1>9. CASE UpsertUser(r)
    BY <1>1, <1>9, GotoMoves DEF UpsertUser, At, Itinerary, Steps
<1>10. CASE Rotate(r)
    BY <1>1, <1>10, GotoMoves DEF Rotate, At, Itinerary, Steps
<1> QED
    BY <1>1, <1>2, <1>3, <1>4, <1>5, <1>6, <1>7, <1>8, <1>9, <1>10
    DEF Starts, GoesOn, Delivered, Undeliverable, Cancel, DestroyCode,
        RevokeAllUserTokens, Logout, issue, Fails

LEMMA KeysStayTyped ==
    ASSUME TypeOK, [Next]_vars
    PROVE  otp' \in OtpKeys
<1> USE KeysTyped DEF TypeOK
<1>1. CASE UNCHANGED otp
    BY <1>1
<1>2. CASE \E r \in Requests : RequestCode(r) \/ Cancel(r)
    BY <1>2 DEF RequestCode, Cancel
<1>3. CASE \E r \in Requests : IssueCode(r)
  <2> PICK c \in Codes : otp' = StoreCode(otp, c)
      BY <1>3 DEF IssueCode
  <2> QED
      OBVIOUS
<1>4. CASE \E r \in Requests : CountGuess(r)
    BY <1>4 DEF CountGuess
<1>5. CASE \E r \in Requests : DestroyCode(r) \/ ConsumeCode(r)
    BY <1>1, <1>5 DEF DestroyCode, ConsumeCode
<1>6. CASE CooldownExpires \/ CodeExpires
    BY <1>6 DEF CooldownExpires, CodeExpires
<1> QED
    BY <1>1, <1>2, <1>3, <1>4, <1>5, <1>6
    DEF Next, vars, Starts, GoesOn, Environment, ReadCode, FindRefreshToken,
        BeginLogout, Delivered, Undeliverable, SendFails, UpsertUser,
        RevokeAllUserTokens, Rotate, Logout, issue, Fails,
        PruneExpiredSessions, AccountIsBlocked, TokenExpires, otpVars

LEMMA AccountStaysTyped ==
    ASSUME TypeOK, [Next]_vars
    PROVE  account' \in {"none", "active", "blocked"} /\ delivered' \in BOOLEAN
<1> USE DEF TypeOK
<1>1. CASE UNCHANGED <<account, delivered>>
    BY <1>1
<1>2. CASE \E r \in Requests : IssueCode(r)
    BY <1>2 DEF IssueCode
<1>3. CASE \E r \in Requests : Delivered(r)
    BY <1>3, Zenon DEF Delivered
<1>4. CASE \E r \in Requests : UpsertUser(r)
    BY <1>4 DEF UpsertUser, AfterUpsert, otpVars
<1>5. CASE AccountIsBlocked
    BY <1>5 DEF AccountIsBlocked, otpVars
<1>6. CASE \E r \in Requests : Starts(r)
  <2> PICK r \in Requests : Starts(r)
      BY <1>6
  <2>1. CASE RequestCode(r) \/ \E match \in BOOLEAN : ReadCode(r, match)
      BY <1>1, <2>1, Zenon DEF RequestCode, ReadCode, otpVars
  <2>2. CASE \E t \in TokenIds : FindRefreshToken(r, t) \/ BeginLogout(r, t)
      BY <1>1, <2>2, Zenon DEF FindRefreshToken, BeginLogout, otpVars
  <2> QED
      BY <2>1, <2>2 DEF Starts
<1>7. CASE \E r \in Requests : GoesOn(r)
  <2> PICK r \in Requests : GoesOn(r)
      BY <1>7
  <2>1. CASE IssueCode(r) \/ Delivered(r) \/ UpsertUser(r)
      BY <1>2, <1>3, <1>4, <2>1
  <2>2. CASE Undeliverable(r) \/ SendFails(r) \/ Cancel(r) \/ CountGuess(r)
             \/ DestroyCode(r)
      BY <1>1, <2>2
      DEF Undeliverable, SendFails, Cancel, CountGuess, DestroyCode, otpVars
  <2>3. CASE ConsumeCode(r) \/ RevokeAllUserTokens(r) \/ Rotate(r) \/ Logout(r)
             \/ issue(r) \/ Fails(r)
      BY <1>1, <2>3
      DEF ConsumeCode, RevokeAllUserTokens, Rotate, Logout, issue, Fails, otpVars
  <2> QED
      BY <2>1, <2>2, <2>3 DEF GoesOn
<1>8. CASE Environment
    BY <1>1, <1>5, <1>8
    DEF Environment, PruneExpiredSessions, CooldownExpires, CodeExpires,
        TokenExpires, otpVars
<1> QED
    BY <1>1, <1>6, <1>7, <1>8 DEF Next, vars

LEMMA TokensStayTyped ==
    ASSUME TypeOK, [Next]_vars
    PROVE  tokens' \in [TokenIds -> Rows]
<1> USE RowsTyped DEF TypeOK
<1>1. CASE UNCHANGED tokens
    BY <1>1
<1>2. CASE \E r \in Requests : RevokeAllUserTokens(r)
    BY <1>2 DEF RevokeAllUserTokens
<1>3. CASE \E r \in Requests : Rotate(r) \/ Logout(r)
    BY <1>3 DEF Rotate, Logout
<1>4. CASE \E r \in Requests : issue(r)
    BY <1>4 DEF issue, RequestStates
<1>5. CASE PruneExpiredSessions
  <2> PICK gone \in SUBSET TokenIds :
          tokens' = [t \in TokenIds |->
              IF t \in gone THEN NoRow ELSE Orphaned(tokens[t], gone)]
      BY <1>5 DEF PruneExpiredSessions
  <2>1. \A t \in TokenIds : Orphaned(tokens[t], gone) \in Rows
      OBVIOUS
  <2> QED
      BY <2>1
<1>6. CASE \E t \in TokenIds : TokenExpires(t)
    BY <1>6 DEF TokenExpires
<1> QED
    BY <1>1, <1>2, <1>3, <1>4, <1>5, <1>6
    DEF Next, vars, Starts, GoesOn, Environment, RequestCode, ReadCode,
        FindRefreshToken, BeginLogout, IssueCode, Delivered, Undeliverable,
        SendFails, Cancel, CountGuess, DestroyCode, ConsumeCode, UpsertUser,
        Fails, AccountIsBlocked, CooldownExpires, CodeExpires

LEMMA TypesAreKept ==
    ASSUME TypeOK, CarriesItsToken, [Next]_vars, compared' \in Nat
    PROVE  TypeOK' /\ CarriesItsToken'
<1>1. requests' \in [Requests -> RequestStates] /\ CarriesItsToken'
  <2>1. CASE UNCHANGED requests
      BY <2>1 DEF TypeOK, CarriesItsToken
  <2>2. CASE \E r \in Requests : Starts(r) \/ GoesOn(r)
    <3> PICK r \in Requests : Starts(r) \/ GoesOn(r)
        BY <2>2
    <3>1. /\ requests' \in [Requests -> RequestStates]
          /\ Itinerary(r)
          /\ \A q \in Requests \ {r} : requests'[q] = requests[q]
        BY RequestFollowsItinerary
    <3> QED
        BY <3>1 DEF Itinerary, CarriesItsToken
  <2> QED
      BY <2>1, <2>2 DEF Next, vars, Environment, PruneExpiredSessions,
         AccountIsBlocked, CooldownExpires, CodeExpires, TokenExpires
<1> QED
    BY <1>1, KeysStayTyped, AccountStaysTyped, TokensStayTyped DEF TypeOK

-----------------------------------------------------------------------------
(* Guesses. *)

\* What CountGuess adds to the comparisons, it added to the counter.
LEMMA GuessesArePaidFor ==
    ASSUME TypeOK, PaidFor, [Next]_vars
    PROVE  PaidFor' /\ compared' \in Nat
<1> USE DEF PaidFor
<1>0. otp \in OtpKeys /\ compared \in Nat /\ otp.attempts \in Nat
    BY DEF TypeOK, OtpKeys
<1>1. CASE UNCHANGED <<compared, otp>>
    BY <1>0, <1>1
<1>2. CASE compared' = 0
    BY <1>0, <1>2, KeysStayTyped DEF OtpKeys
<1>3. CASE \E r \in Requests : RequestCode(r)
  <2>1. otp' = StartCooldown(otp) /\ compared' = compared
      BY <1>3 DEF RequestCode
  <2>2. StartCooldown(otp).attempts = otp.attempts
      BY <1>0 DEF StartCooldown, OtpKeys
  <2> QED
      BY <1>0, <2>1, <2>2
<1>4. CASE \E r \in Requests : CountGuess(r)
  <2> PICK r \in Requests : CountGuess(r)
      BY <1>4
  <2>0. otp'.attempts \in Nat
      BY KeysStayTyped DEF OtpKeys
  <2>1. /\ otp' = CountAttempt(otp)
        /\ \/ compared' = compared
           \/ ~(otp'.attempts > MaxAttempts) /\ compared' = compared + 1
      BY DEF CountGuess, TooManyAttempts
  <2>2. CountAttempt(otp).attempts =
            IF otp.attempts > MaxAttempts THEN otp.attempts ELSE otp.attempts + 1
      BY <1>0 DEF CountAttempt, OtpKeys
  <2> QED
      BY <1>0, <2>0, <2>1, <2>2
<1>5. CASE CooldownExpires
  <2>1. otp' = [otp EXCEPT !.cooldown = FALSE] /\ compared' = compared
      BY <1>5 DEF CooldownExpires
  <2>2. otp'.attempts = otp.attempts
      BY <1>0, <2>1 DEF OtpKeys
  <2> QED
      BY <1>0, <2>1, <2>2
<1> QED
    BY <1>1, <1>2, <1>3, <1>4, <1>5
    DEF Next, vars, Starts, GoesOn, Environment, ReadCode, FindRefreshToken,
        BeginLogout, IssueCode, Delivered, Undeliverable, SendFails, Cancel,
        DestroyCode, ConsumeCode, UpsertUser, RevokeAllUserTokens, Rotate,
        Logout, issue, Fails, PruneExpiredSessions, AccountIsBlocked,
        CodeExpires, TokenExpires, otpVars

-----------------------------------------------------------------------------
(* Issuing and withdrawing codes. *)

\* A request starts to issue only where no other does, for the other would
\* have set the cooldown.
LEMMA OneIssuerIsKept ==
    ASSUME TypeOK, OneIssuer, [Next]_vars
    PROVE  OneIssuer'
<1> USE DEF OneIssuer, Issues
<1>0. otp \in OtpKeys
    BY DEF TypeOK
<1>1. ASSUME \A r \in Requests :
                requests'[r].step \in {"store_code", "send", "cancel"} =>
                    requests'[r] = requests[r],
             UNCHANGED delivered, otp'.cooldown = otp.cooldown
      PROVE  OneIssuer'
    BY <1>1
<1>2. CASE UNCHANGED vars
    BY <1>2 DEF vars
<1>3. CASE \E r \in Requests : Starts(r) \/ GoesOn(r)
  <2> PICK r \in Requests : Starts(r) \/ GoesOn(r)
      BY <1>3
  <2>0. \A q \in Requests \ {r} : requests'[q] = requests[q]
      BY RequestFollowsItinerary
  <2>1. CASE RequestCode(r)
    <3>1. \A q \in Requests : ~Issues(q)
        BY <2>1 DEF RequestCode
    <3>2. requests'[r].step = "store_code" /\ otp' = StartCooldown(otp)
        BY <2>1, GotoMoves DEF RequestCode, Steps
    <3>3. otp'.cooldown = TRUE
        BY <1>0, <3>2 DEF StartCooldown, OtpKeys
    <3> QED
        BY <2>0, <3>1, <3>2, <3>3
  <2>2. CASE IssueCode(r)
    <3>1. requests[r].step = "store_code" /\ requests'[r].step = "send"
        BY <2>2, IssueMoves DEF IssueCode, At
    <3>2. delivered' = FALSE
        BY <2>2 DEF IssueCode
    <3>3. otp'.cooldown = otp.cooldown
        BY <2>2 DEF IssueCode, StoreCode
    <3> QED
        BY <2>0, <3>1, <3>2, <3>3
  <2>3. CASE SendFails(r)
    <3>1. requests[r].step = "send" /\ requests'[r].step = "cancel"
        BY <2>3, GotoMoves DEF SendFails, At, Steps
    <3>2. UNCHANGED <<otp, delivered>>
        BY <2>3 DEF SendFails, otpVars
    <3> QED
        BY <2>0, <3>1, <3>2
  <2>4. CASE Delivered(r) \/ Cancel(r)
    <3>1. requests[r].step \in {"send", "cancel"} /\ requests'[r].step = "idle"
        BY <2>4, EndsMoves DEF Delivered, Cancel, At
    <3>2. \A q \in Requests : ~Issues(q)'
        BY <2>0, <3>1
    <3> QED
        BY <3>2
  <2>5. CASE CountGuess(r)
    <3>1. requests'[r].step \in {"idle", "destroy", "consume"}
        BY <2>5, GotoMoves, EndsMoves DEF CountGuess, Steps
    <3>2. otp' = CountAttempt(otp) /\ UNCHANGED delivered
        BY <2>5 DEF CountGuess
    <3>3. otp'.cooldown = otp.cooldown
        BY <1>0, <3>2 DEF CountAttempt, OtpKeys
    <3> QED
        BY <1>1, <2>0, <3>1, <3>2, <3>3
  <2>6. CASE DestroyCode(r) \/ ConsumeCode(r)
    <3>1. requests'[r].step \in {"idle", "upsert"}
        BY <2>6, GotoMoves, EndsMoves DEF DestroyCode, ConsumeCode, Steps
    <3>2. /\ otp' = discard(otp) \/ otp' = otp
          /\ UNCHANGED delivered
        BY <2>6 DEF DestroyCode, ConsumeCode
    <3>3. otp'.cooldown = otp.cooldown
        BY <3>2 DEF discard, StoreCode
    <3> QED
        BY <1>1, <2>0, <3>1, <3>2, <3>3
  <2>7. CASE /\ UNCHANGED <<otp, delivered>>
             /\ requests'[r].step \notin {"store_code", "send", "cancel"}
      BY <1>1, <2>0, <2>7
  <2>8. CASE Undeliverable(r) \/ RevokeAllUserTokens(r) \/ Logout(r)
             \/ issue(r) \/ Fails(r)
      BY <2>7, <2>8, EndsMoves
      DEF Undeliverable, RevokeAllUserTokens, Logout, issue, Fails, otpVars
  <2>9. CASE UpsertUser(r) \/ Rotate(r)
      BY <2>7, <2>9, EndsMoves, GotoMoves DEF UpsertUser, Rotate, otpVars, Steps
  <2>10. CASE \E match \in BOOLEAN : ReadCode(r, match)
      BY <2>7, <2>10, ReadMoves DEF ReadCode, otpVars
  <2>11. CASE \E t \in TokenIds : FindRefreshToken(r, t) \/ BeginLogout(r, t)
    <3> PICK t \in TokenIds, step \in {"revoke_all", "rotate", "log_out"} :
            /\ requests' = [requests EXCEPT ![r] =
                               [Idle EXCEPT !.step = step, !.token = t]]
            /\ UNCHANGED <<otp, delivered>>
        BY <2>11 DEF FindRefreshToken, BeginLogout, otpVars
    <3> QED
        BY <2>7, StartMoves DEF Steps
  <2> QED
      BY <2>1, <2>2, <2>3, <2>4, <2>5, <2>6, <2>8, <2>9, <2>10, <2>11
      DEF Starts, GoesOn
<1>4. CASE CooldownExpires
    BY <1>4 DEF CooldownExpires, Issuing
<1>5. CASE CodeExpires
  <2>1. otp' = discard(otp) /\ UNCHANGED <<delivered, requests>>
      BY <1>5 DEF CodeExpires
  <2>2. otp'.cooldown = otp.cooldown
      BY <2>1 DEF discard, StoreCode
  <2> QED
      BY <1>1, <2>1, <2>2
<1>6. CASE UNCHANGED <<otp, delivered, requests>>
    BY <1>1, <1>6
<1> QED
    BY <1>2, <1>3, <1>4, <1>5, <1>6
    DEF Next, Environment, PruneExpiredSessions, AccountIsBlocked,
        TokenExpires, otpVars

-----------------------------------------------------------------------------
(* The chain of rotations. *)

\* A step that stores no row, deletes none, revives none and lets nobody come
\* to its issue with a token keeps the chain.
LEMMA QuietStepsKeepTheChain ==
    ASSUME RotationIsAChain,
           \A t \in TokenIds :
              /\ tokens'[t].from = tokens[t].from
              /\ \/ tokens'[t].status = tokens[t].status
                 \/ tokens[t].status = "live" /\ tokens'[t].status = "revoked",
           \A q \in Requests :
              requests'[q].step = "issue" =>
                  requests'[q] = requests[q] \/ requests'[q].token = NoToken
    PROVE  RotationIsAChain'
<1>1. \A q \in Requests, t \in TokenIds :
          Succeeding(q, t)' => Succeeding(q, t)
    BY DEF Succeeding, At
<1> QED
    BY <1>1 DEF RotationIsAChain

\* What Revoked does to a row.
LEMMA RevokedRow ==
    ASSUME NEW row \in Rows
    PROVE  /\ Revoked(row).from = row.from
           /\ Revoked(row).status =
                 IF row.status = "live" THEN "revoked" ELSE row.status
    BY DEF Revoked, Rows

\* The rotating request is the one that found its token live, so nobody else
\* is about to store a successor of it and there is none.
LEMMA RotateKeepsTheChain ==
    ASSUME TypeOK, CarriesItsToken, RotationIsAChain,
           NEW r \in Requests, Rotate(r)
    PROVE  RotationIsAChain'
<1> DEFINE p == requests[r].token
<1>1. p \in TokenIds
    BY DEF Rotate, At, CarriesItsToken
<1>2. /\ \A t \in TokenIds \ {p} : tokens'[t] = tokens[t]
      /\ tokens'[p] = Revoked(tokens[p])
    BY <1>1 DEF TypeOK, Rotate
<1>3. /\ \A t \in TokenIds : tokens'[t].from = tokens[t].from
      /\ tokens'[p].status = IF tokens[p].status = "live" THEN "revoked"
                             ELSE tokens[p].status
    BY <1>1, <1>2, RevokedRow DEF TypeOK
<1>4. CASE tokens[p].status # "live"
  <2>1. Ends(r)
      BY <1>4 DEF Rotate
  <2> QED
      BY <1>1, <1>2, <1>3, <1>4, <2>1, EndsMoves, QuietStepsKeepTheChain
<1>5. CASE tokens[p].status = "live"
  <2>1. Goto(r, "issue")
      BY <1>5 DEF Rotate
  <2>2. /\ requests'[r].token = p
        /\ \A q \in Requests \ {r} : requests'[q] = requests[q]
      BY <2>1, GotoMoves DEF Steps
  <2>3. \A h \in TokenIds : tokens[h].from # p
      BY <1>1, <1>5 DEF RotationIsAChain
  <2>4. \A q \in Requests : ~Succeeding(q, p)
      BY <1>1, <1>5 DEF RotationIsAChain
  <2>5. \A q \in Requests, t \in TokenIds :
            Succeeding(q, t)' => \/ q = r /\ t = p
                                 \/ t # p /\ Succeeding(q, t)
      BY <2>2, <2>4 DEF Succeeding, At
  <2>6. tokens'[p].status = "revoked"
      BY <1>3, <1>5
  <2> HIDE DEF p
  <2> QED
      BY <1>1, <1>2, <1>3, <2>3, <2>5, <2>6 DEF RotationIsAChain
<1> QED
    BY <1>4, <1>5

\* A new row takes an id nobody speaks of, and its request stops succeeding.
LEMMA IssueKeepsTheChain ==
    ASSUME TypeOK, RotationIsAChain, NEW r \in Requests, issue(r)
    PROVE  RotationIsAChain'
<1> DEFINE p == requests[r].token
<1>1. PICK t \in TokenIds :
          /\ ~Found(t) /\ Unknown(t)
          /\ tokens' = [tokens EXCEPT ![t] = NewRow(p)]
    BY DEF issue
<1>2. /\ \A u \in TokenIds \ {t} : tokens'[u] = tokens[u]
      /\ tokens'[t].from = p /\ tokens'[t].status = "live"
    BY <1>1 DEF TypeOK, NewRow
<1>3. /\ requests'[r].step = "idle"
      /\ \A q \in Requests \ {r} : requests'[q] = requests[q]
    BY EndsMoves DEF issue
<1>4. p \in TokenIds => /\ Succeeding(r, p)
                        /\ tokens[p].status = "revoked"
                        /\ p # t
  <2>1. p \in TokenIds => Succeeding(r, p) /\ Found(p)
      BY TokensAssumption DEF issue, Succeeding
  <2>2. p \in TokenIds => tokens[p].status \in {"none", "live", "revoked"}
      BY DEF TypeOK, Rows
  <2> QED
      BY <1>1, <2>1, <2>2 DEF RotationIsAChain, Found
<1>5. \A h \in TokenIds : tokens[h].from # t
    BY <1>1 DEF RotationIsAChain, Found
<1>6. \A q \in Requests : ~Succeeding(q, t)
    BY <1>1 DEF Unknown, Succeeding
<1>7. p \in TokenIds => \A h \in TokenIds : tokens[h].from # p
    BY <1>4 DEF RotationIsAChain
<1>8. \A q \in Requests, u \in TokenIds :
          Succeeding(q, u)' => Succeeding(q, u) /\ q # r
    BY <1>3 DEF Succeeding, At
<1>9. p \in TokenIds => \A q \in Requests : Succeeding(q, p) => q = r
    BY <1>4 DEF RotationIsAChain
<1> HIDE DEF p
<1> QED
  <2> SUFFICES ASSUME NEW u \in TokenIds
               PROVE  /\ \A h \in TokenIds : tokens'[h].from = u =>
                            /\ tokens'[u].status = "revoked"
                            /\ \A v \in TokenIds : tokens'[v].from = u => v = h
                            /\ \A q \in Requests : ~Succeeding(q, u)'
                      /\ \A q \in Requests : Succeeding(q, u)' =>
                            /\ tokens'[u].status # "live"
                            /\ \A x \in Requests : Succeeding(x, u)' => x = q
      BY DEF RotationIsAChain
  <2>1. CASE u = t
    <3>1. \A h \in TokenIds : tokens'[h].from # t
        BY <1>2, <1>4, <1>5
    <3> QED
        BY <2>1, <3>1, <1>6, <1>8
  <2>2. CASE u # t /\ u = p
      BY <2>2, <1>2, <1>4, <1>7, <1>8, <1>9
  <2>3. CASE u # t /\ u # p
      BY <2>3, <1>2, <1>8 DEF RotationIsAChain
  <2> QED
      BY <2>1, <2>2, <2>3

\* A row that goes takes its successor's rotated_from with it.
LEMMA PruneKeepsTheChain ==
    ASSUME TypeOK, RotationIsAChain, PruneExpiredSessions
    PROVE  RotationIsAChain'
<1>1. PICK gone \in SUBSET TokenIds :
          /\ tokens' = [t \in TokenIds |->
                IF t \in gone THEN NoRow ELSE Orphaned(tokens[t], gone)]
          /\ UNCHANGED requests
    BY DEF PruneExpiredSessions
<1>2. \A t \in gone : tokens'[t].from = NoToken /\ tokens'[t].status = "none"
    BY <1>1 DEF NoRow
<1>3. \A t \in TokenIds \ gone :
          /\ tokens'[t].status = tokens[t].status
          /\ tokens'[t].from =
                IF tokens[t].from \in gone THEN NoToken ELSE tokens[t].from
  <2> TAKE t \in TokenIds \ gone
  <2>1. tokens'[t] = Orphaned(tokens[t], gone) /\ tokens[t] \in Rows
      BY <1>1 DEF TypeOK
  <2> QED
      BY <2>1 DEF Orphaned, Rows
<1>4. \A q \in Requests, t \in TokenIds : Succeeding(q, t)' = Succeeding(q, t)
    BY <1>1 DEF Succeeding, At
<1>5. \A h, t \in TokenIds :
          tokens'[h].from = t => tokens[h].from = t /\ t \notin gone
    BY <1>2, <1>3
<1> QED
    BY <1>2, <1>3, <1>4, <1>5 DEF RotationIsAChain

LEMMA ChainIsKept ==
    ASSUME TypeOK, CarriesItsToken, RotationIsAChain, [Next]_vars
    PROVE  RotationIsAChain'
<1>1. CASE UNCHANGED <<tokens, requests>>
    BY <1>1, QuietStepsKeepTheChain
<1>2. CASE \E r \in Requests : Starts(r) \/ GoesOn(r)
  <2> PICK r \in Requests : Starts(r) \/ GoesOn(r)
      BY <1>2
  <2>1. /\ Itinerary(r)
        /\ \A q \in Requests \ {r} : requests'[q] = requests[q]
      BY RequestFollowsItinerary
  <2>2. CASE Rotate(r)
      BY <2>2, RotateKeepsTheChain
  <2>3. CASE issue(r)
      BY <2>3, IssueKeepsTheChain
  <2>4. CASE /\ ~At(r, "rotate")
             /\ \A t \in TokenIds :
                  /\ tokens'[t].from = tokens[t].from
                  /\ \/ tokens'[t].status = tokens[t].status
                     \/ /\ tokens[t].status = "live"
                        /\ tokens'[t].status = "revoked"
    <3>1. requests'[r].step = "issue" => requests'[r].token = NoToken
        BY <2>1, <2>4 DEF Itinerary, CarriesItsToken, At
    <3> QED
        BY <2>1, <2>4, <3>1, QuietStepsKeepTheChain
  <2>5. CASE RevokeAllUserTokens(r)
    <3>1. /\ At(r, "revoke_all")
          /\ \A t \in TokenIds : tokens'[t] = Revoked(tokens[t])
        BY <2>5 DEF RevokeAllUserTokens
    <3> QED
        BY <2>4, <3>1, RevokedRow DEF TypeOK, At
  <2>6. CASE Logout(r)
    <3>1. /\ At(r, "log_out")
          /\ \A t \in TokenIds : tokens'[t] \in {tokens[t], Revoked(tokens[t])}
        BY <2>6 DEF Logout, TypeOK
    <3> QED
        BY <2>4, <3>1, RevokedRow DEF TypeOK, At
  <2>7. CASE UNCHANGED tokens /\ ~At(r, "rotate")
      BY <2>4, <2>7
  <2>8. CASE Fails(r)
    <3>1. requests'[r].step = "idle" /\ UNCHANGED tokens
        BY <2>8, EndsMoves DEF Fails
    <3> QED
        BY <2>1, <3>1, QuietStepsKeepTheChain
  <2>9. CASE Starts(r)
      BY <2>7, <2>9 DEF Starts, RequestCode, ReadCode, FindRefreshToken,
         BeginLogout, At
  <2>10. CASE IssueCode(r) \/ Delivered(r) \/ Undeliverable(r) \/ SendFails(r)
              \/ Cancel(r)
      BY <2>7, <2>10 DEF IssueCode, Delivered, Undeliverable, SendFails,
         Cancel, At
  <2>11. CASE CountGuess(r) \/ DestroyCode(r) \/ ConsumeCode(r) \/ UpsertUser(r)
      BY <2>7, <2>11 DEF CountGuess, DestroyCode, ConsumeCode, UpsertUser, At
  <2> QED
      BY <2>2, <2>3, <2>5, <2>6, <2>8, <2>9, <2>10, <2>11 DEF GoesOn
<1>3. CASE PruneExpiredSessions
    BY <1>3, PruneKeepsTheChain
<1>4. CASE \E t \in TokenIds : TokenExpires(t)
  <2> PICK t \in TokenIds : TokenExpires(t)
      BY <1>4
  <2>1. UNCHANGED requests
      BY DEF TokenExpires
  <2>2. \A u \in TokenIds : /\ tokens'[u].from = tokens[u].from
                            /\ tokens'[u].status = tokens[u].status
      BY DEF TokenExpires, TypeOK, Rows
  <2> QED
      BY <2>1, <2>2, QuietStepsKeepTheChain
<1> QED
    BY <1>1, <1>2, <1>3, <1>4
    DEF Next, vars, Environment, AccountIsBlocked, CooldownExpires, CodeExpires

-----------------------------------------------------------------------------
(* The theorems. *)

SessionInv ==
    /\ TypeOK
    /\ CarriesItsToken
    /\ PaidFor
    /\ OneIssuer
    /\ RotationIsAChain

LEMMA SessionInvHolds == Spec => []SessionInv
<1>1. Init => SessionInv
  <2> SUFFICES ASSUME Init PROVE SessionInv
      OBVIOUS
  <2> USE DEF Init
  <2>1. TypeOK
    <3>1. NoKeys \in OtpKeys
        BY DEF OtpKeys, NoKeys
    <3> QED
        BY <3>1, RowsTyped, RequestsTyped DEF TypeOK
  <2>2. CarriesItsToken
      BY DEF CarriesItsToken, Idle
  <2>3. PaidFor
      BY DEF PaidFor, NoKeys
  <2>4. OneIssuer
      BY DEF OneIssuer, Issues, Idle
  <2>5. RotationIsAChain
      BY DEF RotationIsAChain, Succeeding, At, Idle, NoRow
  <2> QED
      BY <2>1, <2>2, <2>3, <2>4, <2>5 DEF SessionInv
<1>2. SessionInv /\ [Next]_vars => SessionInv'
    BY GuessesArePaidFor, TypesAreKept, OneIssuerIsKept, ChainIsKept
    DEF SessionInv
<1> QED
    BY <1>1, <1>2, PTL DEF Spec

\* Every reachable state of sign-in and sessions is well typed.
THEOREM TypeCorrect == Spec => []TypeOK
<1>1. SessionInv => TypeOK
    BY DEF SessionInv
<1> QED
    BY <1>1, SessionInvHolds, PTL

\* service.go Refresh: however many refreshes, logouts, revocations and
\* deletions overlap, a refresh token never gets a second successor and is
\* never live beside one.
THEOREM RotationsMakeAChain == Spec => []RotationIsAChain
<1>1. SessionInv => RotationIsAChain
    BY DEF SessionInv
<1> QED
    BY <1>1, SessionInvHolds, PTL

\* otp.go Verify: overlapping verifications never compare a code that is still
\* of use with more than MaxAttempts guesses.
THEOREM GuessesAreCounted == Spec => []GuessesCounted
<1>1. SessionInv => GuessesCounted
    BY DEF SessionInv, PaidFor, GuessesCounted
<1> QED
    BY <1>1, SessionInvHolds, PTL

\* service.go RequestCode: a request whose SMS failed never withdraws a code
\* that another request had delivered.
THEOREM CancelsSpareDelivered == Spec => []CancelSparesDelivered
<1>1. SessionInv => CancelSparesDelivered
    BY DEF SessionInv, OneIssuer, CancelSparesDelivered, At
<1> QED
    BY <1>1, SessionInvHolds, PTL
=============================================================================
