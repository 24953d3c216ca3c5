------------------------------ MODULE Requests ------------------------------
(***************************************************************************)
(* The requests that carry one Idempotency-Key of one caller to one        *)
(* endpoint: the reservation and the response in Redis                     *)
(* (httpx.Mutating, cache/idempotency) and the mutation receipt in the     *)
(* handler's transaction (database/dedup).                                 *)
(*                                                                         *)
(* A request is a thread of the server with one step for each command it   *)
(* sends to Redis and one for the transaction. The client repeats requests *)
(* as it likes, the earlier ones still running behind a time-out, as long  *)
(* as the receipt is kept (MUTATION_RECEIPT_RETENTION).                    *)
(***************************************************************************)
EXTENDS Naturals

CONSTANTS
    RequestIds,     \* requests the client may send
    TargetOf,       \* the resource a request of an acting endpoint is for
    BodyOf,         \* the body of a request
    Empty,          \* the body of a response that names nothing
    None            \* an absent key, receipt or answer

\* Resources: those acted on, and a new one for every request that creates.
Targets == {TargetOf[r] : r \in RequestIds} \cup RequestIds
Bodies == {BodyOf[r] : r \in RequestIds}

\* "replayed" is a success out of Redis: its header says so.
Outcomes == {"success", "replayed", "refused", "error", "in_flight", "mismatch",
             "unavailable"}

ASSUME NoneAssumption == None \notin Targets \cup Bodies \cup Outcomes
ASSUME EmptyAssumption == Empty \notin Targets \cup {None}

VARIABLES
    kind,           \* whether the endpoint creates a resource or acts on one
    reservation,    \* the Redis reservation: the fingerprint, or None
    response,       \* the Redis response: its body, or None
    receipt,        \* the mutation receipt: its resource_id, or None
    applied,        \* how often the mutation was carried out on a resource
    at,             \* per request, the step it is at
    answer,         \* per request, the outcome it ends with
    about           \* per request, the resource its caller takes a success for

redisVars == <<reservation, response>>
tableVars == <<receipt, applied>>
requestVars == <<at, answer, about>>
vars == <<kind, redisVars, tableVars, requestVars>>

Steps == {"unsent", "reserve", "look", "fetch", "run", "save", "extend",
          "release", "ended"}

TypeOK ==
    /\ kind \in {"create", "act"}
    /\ reservation \in Bodies \cup {None}
    /\ response \in Targets \cup {Empty, None}
    /\ receipt \in Targets \cup {None}
    /\ applied \in [Targets -> Nat]
    /\ at \in [RequestIds -> Steps]
    /\ answer \in [RequestIds -> Outcomes \cup {None}]
    /\ about \in [RequestIds -> Targets \cup {None}]

Init ==
    /\ kind \in {"create", "act"}
    /\ reservation = None
    /\ response = None
    /\ receipt = None
    /\ applied = [t \in Targets |-> 0]
    /\ at = [r \in RequestIds |-> "unsent"]
    /\ answer = [r \in RequestIds |-> None]
    /\ about = [r \in RequestIds |-> None]

-----------------------------------------------------------------------------
(* What a response says. *)

\* A creation answers with the id; what acts on the resource of its path with a
\* bare 200.
Says(t) == IF kind = "create" THEN t ELSE Empty

\* The caller reads the id, or takes a bare 200 for the resource it asked for.
Told(r, body) == IF body = Empty THEN TargetOf[r] ELSE body

-----------------------------------------------------------------------------
At(r, step) == at[r] = step
Goto(r, step) == at' = [at EXCEPT ![r] = step]

GoOn(r, step) == Goto(r, step) /\ UNCHANGED <<answer, about>>

\* The request's outcome is known; what is left is bookkeeping.
Answers(r, outcome, resource, step) ==
    /\ Goto(r, step)
    /\ answer' = [answer EXCEPT ![r] = outcome]
    /\ about' = [about EXCEPT ![r] = resource]

Ends(r, outcome) == Answers(r, outcome, None, "ended")

Send(r) ==
    /\ At(r, "unsent")
    /\ GoOn(r, "reserve")
    /\ UNCHANGED <<kind, redisVars, tableVars>>

-----------------------------------------------------------------------------
(* Store.Reserve. *)

\* SETNX: the key is the request's, or somebody's already.
SetNX(r) ==
    /\ At(r, "reserve")
    /\ reservation' = IF reservation = None THEN BodyOf[r] ELSE reservation
    /\ GoOn(r, IF reservation = None THEN "run" ELSE "look")
    /\ UNCHANGED <<kind, response, tableVars>>

\* Redis fails, before or after it took the key.
SetNXFails(r) ==
    /\ At(r, "reserve")
    /\ reservation' \in {reservation,
                         IF reservation = None THEN BodyOf[r] ELSE reservation}
    /\ Ends(r, "unavailable")
    /\ UNCHANGED <<kind, response, tableVars>>

GetReservation(r) ==
    /\ At(r, "look")
    /\ \/ reservation = None /\ Ends(r, "in_flight")
       \/ reservation = BodyOf[r] /\ GoOn(r, "fetch")
       \/ reservation \notin {None, BodyOf[r]} /\ Ends(r, "mismatch")
    /\ UNCHANGED <<kind, redisVars, tableVars>>

\* The stored response, verbatim: neither the key nor the response knows the path
\* it was made for.
GetResponse(r) ==
    /\ At(r, "fetch")
    /\ IF response = None THEN Ends(r, "in_flight")
                          ELSE Answers(r, "replayed", Told(r, response), "ended")
    /\ UNCHANGED <<kind, redisVars, tableVars>>

GetFails(r) ==
    /\ At(r, "look") \/ At(r, "fetch")
    /\ Ends(r, "unavailable")
    /\ UNCHANGED <<kind, redisVars, tableVars>>

-----------------------------------------------------------------------------
(* The handler's transaction. *)

\* What the request is for: a fresh id, or the resource of its path.
ResourceOf(r) == IF kind = "create" THEN r ELSE TargetOf[r]

Apply(t) ==
    /\ receipt' = t
    /\ applied' = [applied EXCEPT ![t] = applied[t] + 1]

\* claim: no receipt yet, so the mutation is carried out.
Mutate(r) ==
    /\ At(r, "run")
    /\ receipt = None
    /\ Apply(ResourceOf(r))
    /\ Answers(r, "success", ResourceOf(r), "save")
    /\ UNCHANGED <<kind, redisVars>>

\* It commits and the handler never learns.
CommitAnswerLost(r) ==
    /\ At(r, "run")
    /\ receipt = None
    /\ Apply(ResourceOf(r))
    /\ Answers(r, "error", None, "release")
    /\ UNCHANGED <<kind, redisVars>>

\* ReserveNew and replayCreated: the resource of the first attempt.
ReplayCreated(r) ==
    /\ At(r, "run")
    /\ kind = "create"
    /\ receipt # None
    /\ Answers(r, "success", receipt, "save")
    /\ UNCHANGED <<kind, redisVars, tableVars>>

\* Slip: a receipt for another resource does not count.
ActUnlessSame(r) ==
    /\ At(r, "run")
    /\ kind = "act"
    /\ receipt # None
    /\ IF receipt = ResourceOf(r)
       THEN UNCHANGED tableVars ELSE Apply(ResourceOf(r))
    /\ Answers(r, "success", ResourceOf(r), "save")
    /\ UNCHANGED <<kind, redisVars>>

\* Slip: done already, whatever the receipt is for.
SkipSilently(r) ==
    /\ At(r, "run")
    /\ kind = "act"
    /\ receipt # None
    /\ Answers(r, "success", ResourceOf(r), "save")
    /\ UNCHANGED <<kind, redisVars, tableVars>>

\* ReserveFor: done already, or ErrKeyReuse.
ReplayAct(r) ==
    /\ At(r, "run")
    /\ kind = "act"
    /\ receipt # None
    /\ IF receipt = ResourceOf(r)
       THEN Answers(r, "success", receipt, "save")
       ELSE Answers(r, "refused", None, "release")
    /\ UNCHANGED <<kind, redisVars, tableVars>>

\* The handler refuses the request or fails, and everything is rolled back.
Refuse(r) ==
    /\ At(r, "run")
    /\ Answers(r, "refused", None, "release")
    /\ UNCHANGED <<kind, redisVars, tableVars>>

-----------------------------------------------------------------------------
(* Bookkeeping, after the handler. *)

\* SaveResponse is two commands; a failure of either ends it.
SaveResponse(r) ==
    /\ At(r, "save")
    /\ response' = Says(about[r])
    /\ GoOn(r, "extend")
    /\ UNCHANGED <<kind, reservation, tableVars>>

ExtendReservation(r) ==
    /\ At(r, "extend")
    /\ GoOn(r, "ended")
    /\ UNCHANGED <<kind, redisVars, tableVars>>

\* DEL, whoever holds the reservation by now.
Release(r) ==
    /\ At(r, "release")
    /\ reservation' = None
    /\ GoOn(r, "ended")
    /\ UNCHANGED <<kind, response, tableVars>>

\* Redis fails, or the process dies, wherever the request is.
Dies(r) ==
    /\ ~At(r, "unsent")
    /\ ~At(r, "ended")
    /\ GoOn(r, "ended")
    /\ UNCHANGED <<kind, redisVars, tableVars>>

\* reservationTTL and responseTTL.
ReservationExpires ==
    /\ reservation # None
    /\ reservation' = None
    /\ UNCHANGED <<kind, response, tableVars, requestVars>>

ResponseExpires ==
    /\ response # None
    /\ response' = None
    /\ UNCHANGED <<kind, reservation, tableVars, requestVars>>

-----------------------------------------------------------------------------
ReserveStep(r) ==
    SetNX(r) \/ SetNXFails(r) \/ GetReservation(r) \/ GetResponse(r) \/ GetFails(r)
HandlerStep(r) ==
    \/ Mutate(r)
    \/ CommitAnswerLost(r)
    \/ ReplayCreated(r)
    \/ ReplayAct(r)
    \/ Refuse(r)
SaveStep(r) == SaveResponse(r) \/ ExtendReservation(r) \/ Release(r)

Next ==
    \/ \E r \in RequestIds :
          Send(r) \/ ReserveStep(r) \/ HandlerStep(r) \/ SaveStep(r) \/ Dies(r)
    \/ ReservationExpires
    \/ ResponseExpires

Spec == Init /\ [][Next]_vars
=============================================================================
