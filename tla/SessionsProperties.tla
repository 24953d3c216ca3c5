--------------------------- MODULE SessionsProperties ---------------------------
(***************************************************************************)
(* What sign-in and sessions promise.                                      *)
(***************************************************************************)
EXTENDS Sessions

\* The request has revoked token t and is about to store its successor.
Succeeding(r, t) == At(r, "issue") /\ requests[r].token = t

\* Rotation makes a chain (service.go Refresh): a refresh token has at most one
\* successor, stored or about to be stored, and is not live once it has one,
\* whatever refreshes, logouts and deletions overlap.
RotationIsAChain ==
    \A t \in TokenIds :
        /\ \A h \in TokenIds : tokens[h].from = t =>
              /\ tokens[t].status = "revoked"
              /\ \A u \in TokenIds : tokens[u].from = t => u = h
              /\ \A r \in Requests : ~Succeeding(r, t)
        /\ \A r \in Requests : Succeeding(r, t) =>
              /\ tokens[t].status # "live"
              /\ \A q \in Requests : Succeeding(q, t) => q = r

\* A code that can still be used has been compared with no more guesses than
\* MaxAttempts (otp.go Verify), counted across overlapping verifications.
GuessesCounted == otp.code # NoCode => compared <= MaxAttempts

\* A request whose SMS failed (service.go RequestCode) withdraws the code it
\* drew: there is no delivered code of another request to withdraw.
CancelSparesDelivered ==
    \A r \in Requests : At(r, "cancel") => ~(otp.code # NoCode /\ delivered)

\* Blocking takes effect (service.go VerifyCode and Refresh): once an account
\* is blocked the requests in flight are the last that may be given tokens,
\* whatever refresh tokens are still live, so its authority ends with them.
BlockEndsAuthority ==
    account = "blocked" ~> [](\A r \in Requests : ~At(r, "issue"))
=============================================================================
