---------------------------- MODULE MCOutboxRelay ----------------------------
(* Instance of OutboxRelay: three events, numbered by created_at.           *)
EXTENDS OutboxRelay

MCEvents == 1 .. 3
=============================================================================
