------------------------------ MODULE MCOutbox ------------------------------
(* Outbox for TLC: constants are given in Outbox.cfg. *)
EXTENDS Outbox
=============================================================================
