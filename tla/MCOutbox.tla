------------------------------ MODULE MCOutbox ------------------------------
(* Outbox for TLC; the cfg gives its constants their values.               *)
EXTENDS Outbox
=============================================================================
