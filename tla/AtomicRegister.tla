--------------------------- MODULE AtomicRegister ---------------------------
(***************************************************************************)
(* What the atomic file writer of BorgesDurableQueue.cpp promises whoever  *)
(* calls it: one durable cell.  A write takes effect at a single instant   *)
(* or not at all, its answer says which, and a power loss at any moment    *)
(* keeps the content the cell had at that moment.                          *)
(***************************************************************************)

CONSTANTS
    Content,    \* what a caller may store
    NoFile      \* the cell was never written

VARIABLES
    val,        \* the content that survives
    phase,      \* "idle", "busy" before the instant, "done" after it, "down"
    want,       \* the content the current write stores
    answer      \* what the last completed write returned

vars == <<val, phase, want, answer>>

Init ==
    /\ val = NoFile
    /\ phase = "idle"
    /\ want = NoFile
    /\ answer = "none"

(* A caller asks for v to be stored. *)
Begin(v) ==
    /\ phase = "idle"
    /\ phase' = "busy"
    /\ want' = v
    /\ UNCHANGED <<val, answer>>

(* The instant at which the new content replaces the old one. *)
Commit ==
    /\ phase = "busy"
    /\ val' = want
    /\ phase' = "done"
    /\ UNCHANGED <<want, answer>>

(* true is answered only after that instant, false only without it. *)
Return(ok) ==
    /\ phase = IF ok THEN "done" ELSE "busy"
    /\ phase' = "idle"
    /\ answer' = IF ok THEN "stored" ELSE "refused"
    /\ UNCHANGED <<val, want>>

PowerLoss ==
    /\ phase' = "down"
    /\ answer' = "none"
    /\ UNCHANGED <<val, want>>

Boot ==
    /\ phase = "down"
    /\ phase' = "idle"
    /\ UNCHANGED <<val, want, answer>>

Next ==
    \/ \E v \in Content : Begin(v)
    \/ Commit
    \/ \E ok \in BOOLEAN : Return(ok)
    \/ PowerLoss
    \/ Boot

Spec == Init /\ [][Next]_vars
=============================================================================
