---------------------------- MODULE MCSyncClient ----------------------------
(* Two stream events in pages of one or two, so that a pull may need another
   page; one local event and one reset. *)
EXTENDS SyncClient, TLC
=============================================================================
