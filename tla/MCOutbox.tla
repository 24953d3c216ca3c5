------------------------------ MODULE MCOutbox ------------------------------
(* Small outboxes for TLC; every constant is given by the cfg. *)
EXTENDS OutboxProperties
=============================================================================
