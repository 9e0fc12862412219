------------------------------ MODULE MCOutbox ------------------------------
(* Two bodies; three identities, of which the first record of a session
   burns one; two resets. *)
EXTENDS Outbox, TLC

ReadFaults == {"read"}
=============================================================================
