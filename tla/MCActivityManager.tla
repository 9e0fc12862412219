------------------------- MODULE MCActivityManager -------------------------
(* Instances of ActivityManager for TLC. *)
EXTENDS ActivityManager, TLC

CONSTANTS a1, a2, a3, a4

Four == {a1, a2, a3, a4}
Three == {a1, a2, a3}
Drive == {a1}
Alike == Permutations({a2, a3, a4})
=============================================================================
