--------------------------- MODULE MCSyncScheduler ---------------------------
(* Instances of SyncScheduler for TLC. *)
EXTENDS SyncScheduler

\* The clock is odd and every delay even, so no deadline is 0 by accident.
Short == {0, 2}
=============================================================================
