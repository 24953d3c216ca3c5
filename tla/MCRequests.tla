----------------------------- MODULE MCRequests -----------------------------
(* Three requests under one key for TLC. *)
EXTENDS RequestsProperties, TLC

CONSTANTS r1, r2, r3, t1, t2, b1, b2

TwoTargets == (r1 :> t1) @@ (r2 :> t1) @@ (r3 :> t2)
OneBodyEach == (r1 :> b1) @@ (r2 :> b2) @@ (r3 :> b1)
=============================================================================
