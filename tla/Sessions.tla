------------------------------- MODULE Sessions -------------------------------
(***************************************************************************)
(* Sign-in and sessions of one phone number (internal/modules/identity):   *)
(* requests for a code, verifications, refreshes and logouts, each a chain *)
(* of Redis commands and SQL statements without a transaction around them, *)
(* beside the session janitor and operators who block accounts.      *)
(* An access token is a signature of which nothing is kept.                *)
(***************************************************************************)
EXTENDS Codes, FiniteSets

CONSTANTS
    Requests,       \* requests in flight
    TokenIds,       \* rows of identity.refresh_tokens at one time
    NoToken,        \* not a row: no rotated_from, nothing presented
    PruneBatch      \* JanitorConfig.Batch

ASSUME TokensAssumption == NoToken \notin TokenIds
ASSUME PruneAssumption == PruneBatch \in Nat \ {0}

VARIABLES
    account,        \* identity.users.status of the phone, "none" before
    otp,            \* the Redis keys of the phone
    delivered,      \* the code Redis holds reached the phone
    compared,       \* guesses compared with the code Redis holds now
    tokens,         \* identity.refresh_tokens
    requests        \* per request, where it is and what it has read

vars == <<account, otp, delivered, compared, tokens, requests>>
otpVars == <<otp, delivered, compared>>

-----------------------------------------------------------------------------
(* State. *)

Rows == [status : {"none", "live", "revoked"}, expired : BOOLEAN,
         from : TokenIds \cup {NoToken}]
NoRow == [status |-> "none", expired |-> FALSE, from |-> NoToken]

Steps == {"idle", "store_code", "send", "cancel",
          "count", "consume", "destroy", "upsert",
          "rotate", "revoke_all", "log_out", "issue"}

\* code and match are what a verification read and found, token the row a
\* refresh or logout read.
RequestStates == [step : Steps, code : Codes \cup {NoCode}, match : BOOLEAN,
                  token : TokenIds \cup {NoToken}]
Idle == [step |-> "idle", code |-> NoCode, match |-> FALSE, token |-> NoToken]

TypeOK ==
    /\ account \in {"none", "active", "blocked"}
    /\ otp \in OtpKeys
    /\ delivered \in BOOLEAN
    /\ compared \in Nat
    /\ tokens \in [TokenIds -> Rows]
    /\ requests \in [Requests -> RequestStates]

Init ==
    /\ account = "none"
    /\ otp = NoKeys
    /\ delivered = FALSE
    /\ compared = 0
    /\ tokens = [t \in TokenIds |-> NoRow]
    /\ requests = [r \in Requests |-> Idle]

At(r, step) == requests[r].step = step
\* Only a rotated token is carried from one step to the next.
Goto(r, step) == requests' = [requests EXCEPT ![r] =
                    [Idle EXCEPT !.step = step, !.token = requests[r].token]]
Ends(r) == requests' = [requests EXCEPT ![r] = Idle]

\* An error, the deadline or the end of the server: what the request stands
\* before is not done. (Done with the answer lost is its step and then this.)
Fails(r) ==
    /\ ~At(r, "idle")
    /\ Ends(r)
    /\ UNCHANGED <<account, otpVars, tokens>>

-----------------------------------------------------------------------------
(* RequestCode. *)

\* Slip: the code is replaced whoever asked a moment ago.
RequestCodeAnyTime(r) ==
    /\ At(r, "idle")
    /\ Goto(r, "store_code")
    /\ otp' = StartCooldown(otp)
    /\ UNCHANGED <<account, delivered, compared, tokens>>

\* SET NX of the cooldown; a phone that has one is refused.
RequestCode(r) ==
    /\ At(r, "idle")
    /\ ~otp.cooldown
    /\ Goto(r, "store_code")
    /\ otp' = StartCooldown(otp)
    /\ UNCHANGED <<account, delivered, compared, tokens>>

\* The pipeline sets a drawn code and its counter together.
IssueCode(r) ==
    /\ At(r, "store_code")
    /\ \E c \in Codes :
          /\ otp' = StoreCode(otp, c)
          /\ requests' = [requests EXCEPT ![r] =
                [Idle EXCEPT !.step = "send", !.code = c]]
    /\ delivered' = FALSE
    /\ compared' = 0
    /\ UNCHANGED <<account, tokens>>

\* The gateway takes the message.
Delivered(r) ==
    /\ At(r, "send")
    /\ delivered' = (otp.code = requests[r].code)
    /\ Ends(r)
    /\ UNCHANGED <<account, otp, compared, tokens>>

\* ErrUndeliverable: code and cooldown stay.
Undeliverable(r) ==
    /\ At(r, "send")
    /\ Ends(r)
    /\ UNCHANGED <<account, otpVars, tokens>>

SendFails(r) ==
    /\ At(r, "send")
    /\ Goto(r, "cancel")
    /\ UNCHANGED <<account, otpVars, tokens>>

\* Cancel deletes the keys of the phone, whatever they hold by now.
Cancel(r) ==
    /\ At(r, "cancel")
    /\ otp' = Withdraw(otp)
    /\ compared' = 0
    /\ Ends(r)
    /\ UNCHANGED <<account, delivered, tokens>>

-----------------------------------------------------------------------------
(* VerifyCode. *)

\* GET of the code; without one the answer is ErrNotFound. The guess is right
\* or wrong for the code that was read.
ReadCode(r, match) ==
    /\ At(r, "idle")
    /\ otp.code # NoCode
    /\ requests' = [requests EXCEPT ![r] =
          [Idle EXCEPT !.step = "count", !.code = otp.code, !.match = match]]
    /\ UNCHANGED <<account, otpVars, tokens>>

\* Slip: one guess too many is let through.
CountAfterwards(r) ==
    /\ At(r, "count")
    /\ otp' = CountAttempt(otp)
    /\ compared' = IF ~TooManyAttempts(otp.attempts) /\ otp.code = requests[r].code
                   THEN compared + 1 ELSE compared
    /\ IF TooManyAttempts(otp.attempts) THEN Goto(r, "destroy")
       ELSE IF requests[r].match THEN Goto(r, "consume") ELSE Ends(r)
    /\ UNCHANGED <<account, delivered, tokens>>

\* INCR, then the comparison with what was read before it.
CountGuess(r) ==
    /\ At(r, "count")
    /\ otp' = CountAttempt(otp)
    /\ compared' = IF /\ ~TooManyAttempts(otp'.attempts)
                      /\ otp.code = requests[r].code
                   THEN compared + 1 ELSE compared
    /\ IF TooManyAttempts(otp'.attempts) THEN Goto(r, "destroy")
       ELSE IF requests[r].match THEN Goto(r, "consume") ELSE Ends(r)
    /\ UNCHANGED <<account, delivered, tokens>>

\* discard ignores its error: the keys may stay.
DestroyCode(r) ==
    /\ At(r, "destroy")
    /\ \/ otp' = discard(otp) /\ compared' = 0
       \/ UNCHANGED <<otp, compared>>
    /\ Ends(r)
    /\ UNCHANGED <<account, delivered, tokens>>

ConsumeCode(r) ==
    /\ At(r, "consume")
    /\ \/ otp' = discard(otp) /\ compared' = 0
       \/ UNCHANGED <<otp, compared>>
    /\ Goto(r, "upsert")
    /\ UNCHANGED <<account, delivered, tokens>>

\* UpsertUserByPhone registers or logs in: a conflict leaves the status.
AfterUpsert == IF account = "none" THEN "active" ELSE account

\* A blocked account is refused.
UpsertUser(r) ==
    /\ At(r, "upsert")
    /\ account' = AfterUpsert
    /\ IF account = "blocked" THEN Ends(r) ELSE Goto(r, "issue")
    /\ UNCHANGED <<otpVars, tokens>>

-----------------------------------------------------------------------------
(* Refresh and Logout. *)

Found(t) == tokens[t].status # "none"

\* Slip: the status of the account is not looked at.
FindTokenOnly(r, t) ==
    /\ At(r, "idle")
    /\ Found(t)
    /\ \/ /\ tokens[t].status = "revoked"
          /\ requests' = [requests EXCEPT ![r] =
                [Idle EXCEPT !.step = "revoke_all", !.token = t]]
       \/ /\ tokens[t].status = "live" /\ ~tokens[t].expired
          /\ requests' = [requests EXCEPT ![r] =
                [Idle EXCEPT !.step = "rotate", !.token = t]]
    /\ UNCHANGED <<account, otpVars, tokens>>

\* FindRefreshToken of a refresh, and what its answer calls for. A token that
\* is not there or past its expiry ends the request at once.
FindRefreshToken(r, t) ==
    /\ At(r, "idle")
    /\ Found(t)
    /\ \/ /\ tokens[t].status = "revoked" \/ account = "blocked"
          /\ requests' = [requests EXCEPT ![r] =
                [Idle EXCEPT !.step = "revoke_all", !.token = t]]
       \/ /\ tokens[t].status = "live" /\ account # "blocked"
          /\ ~tokens[t].expired
          /\ requests' = [requests EXCEPT ![r] =
                [Idle EXCEPT !.step = "rotate", !.token = t]]
    /\ UNCHANGED <<account, otpVars, tokens>>

\* Updates of live rows.
Revoked(row) == [row EXCEPT !.status =
                    IF row.status = "live" THEN "revoked" ELSE row.status]

RevokeAllUserTokens(r) ==
    /\ At(r, "revoke_all")
    /\ tokens' = [t \in TokenIds |-> Revoked(tokens[t])]
    /\ Ends(r)
    /\ UNCHANGED <<account, otpVars>>

\* Slip: a refresh does not look how many rows it revoked.
RotateBlindly(r) ==
    /\ At(r, "rotate")
    /\ tokens' = [tokens EXCEPT ![requests[r].token] = Revoked(@)]
    /\ Goto(r, "issue")
    /\ UNCHANGED <<account, otpVars>>

\* RevokeRefreshToken of a refresh: no row changed, no new tokens.
Rotate(r) ==
    /\ At(r, "rotate")
    /\ tokens' = [tokens EXCEPT ![requests[r].token] = Revoked(@)]
    /\ IF tokens[requests[r].token].status = "live"
       THEN Goto(r, "issue") ELSE Ends(r)
    /\ UNCHANGED <<account, otpVars>>

BeginLogout(r, t) ==
    /\ At(r, "idle")
    /\ Found(t)
    /\ requests' = [requests EXCEPT ![r] =
          [Idle EXCEPT !.step = "log_out", !.token = t]]
    /\ UNCHANGED <<account, otpVars, tokens>>

Logout(r) ==
    /\ At(r, "log_out")
    /\ tokens' = [tokens EXCEPT ![requests[r].token] = Revoked(@)]
    /\ Ends(r)
    /\ UNCHANGED <<account, otpVars>>

-----------------------------------------------------------------------------
(* issue: the end of a verification and of a refresh. *)

\* No request in flight knows the row by its id.
Unknown(t) == \A q \in Requests : requests[q].token # t

NewRow(from) == [status |-> "live", expired |-> FALSE, from |-> from]

\* Sign and StoreRefreshToken; rotated_from must still be a row.
issue(r) ==
    /\ At(r, "issue")
    /\ requests[r].token # NoToken => Found(requests[r].token)
    /\ \E t \in TokenIds :
          /\ ~Found(t) /\ Unknown(t)
          /\ tokens' = [tokens EXCEPT ![t] = NewRow(requests[r].token)]
    /\ Ends(r)
    /\ UNCHANGED <<account, otpVars>>

-----------------------------------------------------------------------------
(* The janitor, onboarding, operators and time. *)

\* ON DELETE SET NULL of rotated_from.
Orphaned(row, gone) == IF row.from \in gone THEN [row EXCEPT !.from = NoToken]
                       ELSE row

Prunable(gone) ==
    /\ gone # {} /\ Cardinality(gone) <= PruneBatch
    /\ \A t \in gone : tokens[t].expired

\* One DELETE of the janitor, of at most PruneBatch rows past their expiry.
PruneExpiredSessions ==
    \E gone \in SUBSET TokenIds :
        /\ Prunable(gone)
        /\ tokens' = [t \in TokenIds |->
              IF t \in gone THEN NoRow ELSE Orphaned(tokens[t], gone)]
        /\ UNCHANGED <<account, otpVars, requests>>

\* An operator blocks the account, outside this code.
AccountIsBlocked ==
    /\ account = "active"
    /\ account' = "blocked"
    /\ UNCHANGED <<otpVars, tokens, requests>>

\* HTTP_TIMEOUT is far below the cooldown and the life of a code.
Issuing == \E r \in Requests : requests[r].step \in {"store_code", "send", "cancel"}

CooldownExpires ==
    /\ otp.cooldown /\ ~Issuing
    /\ otp' = [otp EXCEPT !.cooldown = FALSE]
    /\ UNCHANGED <<account, delivered, compared, tokens, requests>>

CodeExpires ==
    /\ otp.code # NoCode /\ ~otp.cooldown
    /\ otp' = discard(otp)
    /\ compared' = 0
    /\ UNCHANGED <<account, delivered, tokens, requests>>

TokenExpires(t) ==
    /\ tokens[t].status # "none" /\ ~tokens[t].expired
    /\ tokens' = [tokens EXCEPT ![t].expired = TRUE]
    /\ UNCHANGED <<account, otpVars, requests>>

-----------------------------------------------------------------------------
Starts(r) ==
    \/ RequestCode(r)
    \/ \E match \in BOOLEAN : ReadCode(r, match)
    \/ \E t \in TokenIds : FindRefreshToken(r, t) \/ BeginLogout(r, t)

GoesOn(r) ==
    \/ IssueCode(r) \/ Delivered(r) \/ Undeliverable(r) \/ SendFails(r)
    \/ Cancel(r) \/ CountGuess(r) \/ DestroyCode(r) \/ ConsumeCode(r)
    \/ UpsertUser(r) \/ RevokeAllUserTokens(r) \/ Rotate(r) \/ Logout(r)
    \/ issue(r) \/ Fails(r)

Environment ==
    \/ PruneExpiredSessions \/ AccountIsBlocked
    \/ CooldownExpires \/ CodeExpires
    \/ \E t \in TokenIds : TokenExpires(t)

Next == (\E r \in Requests : Starts(r) \/ GoesOn(r)) \/ Environment

\* A request ends by its deadline.
Fairness == \A r \in Requests : WF_vars(GoesOn(r))

Spec == Init /\ [][Next]_vars
FairSpec == Spec /\ Fairness
=============================================================================
