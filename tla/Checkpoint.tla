----------------------------- MODULE Checkpoint -----------------------------
(***************************************************************************)
(* The durable checkpoint of DurableQueue: the next client sequence and    *)
(* the applied pull cursor, kept in two slot files written in turn.        *)
(*                                                                         *)
(* Each slot is one AtomicRegister (AtomicFile implements it), so a save   *)
(* is three steps: it is prepared, it reaches the card, the caller learns  *)
(* of it; power may be lost between any two.  A boot reads both slots and  *)
(* keeps the newer; a slot it cannot read or decode counts as absent.  The *)
(* time anchor stored with the checkpoint is abstracted: saving it is a    *)
(* save that leaves the other fields alone.                                *)
(***************************************************************************)
EXTENDS Integers, Sequences

CONSTANTS
    None,           \* an empty or undecodable slot
    GenModulus,     \* 2^32 in the code: generations wrap around
    MaxSequence,    \* INT64_MAX in the code: sequences are exhausted there
    Cursors,        \* the pull cursors a server may hand out
    Missed          \* the sets of slots that one boot may fail to read

Slots == {"A", "B"}
Generations == 0 .. GenModulus - 1
Checkpoints == [gen : Generations, next : 1 .. MaxSequence, cursor : Cursors]

ASSUME CheckpointAssumption ==
    /\ None \notin Checkpoints
    /\ GenModulus \in Nat /\ GenModulus > 3 /\ GenModulus % 2 = 0
    /\ MaxSequence \in Nat \ {0}
    /\ Cursors \subseteq Nat /\ 0 \in Cursors
    /\ Missed \subseteq SUBSET Slots /\ {} \in Missed

VARIABLES
    disk,       \* what each slot file holds
    pc,         \* "off", "up", "saving" (not on the card yet), "saved"
    state,      \* DurableQueue::state
    todo,       \* the save under way: who asked, and the record to write
    issued,     \* the sequences reserveIdentity returned, oldest first
    acked,      \* the cursor commitAppliedCursor last returned true for
    last,       \* the record written last
    prev,       \* the record its session had loaded or written before it
    unread      \* the slots some boot missed

vars == <<disk, pc, state, todo, issued, acked, last, prev, unread>>
ghosts == <<issued, acked, last, prev, unread>>

-----------------------------------------------------------------------------
Fresh == [gen |-> 0, next |-> 1, cursor |-> 0]
NoSave == [op |-> "none", ckpt |-> Fresh]

-----------------------------------------------------------------------------
(* Faulty variants, not used by any action; they show that the properties at
   the end can fail. *)
SlotAlwaysA(g) == "A"
NewerUnsigned(a, b) == a > b

(* The guard against an older cursor is missing. *)
CommitAnyCursor(c) ==
    /\ pc = "up"
    /\ c # state.cursor
    /\ todo' = [op |-> "cursor", ckpt |->
                   [state EXCEPT !.cursor = c, !.gen = (@ + 1) % GenModulus]]
    /\ pc' = "saving"
    /\ UNCHANGED <<disk, state, ghosts>>

(* The identity is handed out although the save failed. *)
SaveFailsUnnoticed ==
    /\ pc = "saving"
    /\ pc' = IF todo.op = "init" THEN "off" ELSE "up"
    /\ todo' = NoSave
    /\ issued' = IF todo.op = "reserve" THEN Append(issued, state.next) ELSE issued
    /\ UNCHANGED <<disk, state, acked, last, prev, unread>>
-----------------------------------------------------------------------------
(* ++generation, on 32 bits. *)
NextGen(g) == IF g + 1 = GenModulus THEN 0 ELSE g + 1

(* Even generations go to slot A, odd ones to slot B. *)
SlotOf(g) == IF g % 2 = 0 THEN "A" ELSE "B"

(* static_cast<int32_t>(a - b) > 0 *)
Newer(a, b) ==
    LET d == IF a >= b THEN a - b ELSE a - b + GenModulus
    IN  d > 0 /\ 2 * d < GenModulus

(* selectNewestCheckpoint *)
SelectNewest(a, b) ==
    IF a = None THEN b
    ELSE IF b = None THEN a
    ELSE IF Newer(a.gen, b.gen) THEN a ELSE b

Read(slot, missed) == IF slot \in missed THEN None ELSE disk[slot]

-----------------------------------------------------------------------------
Init ==
    /\ disk = [s \in Slots |-> None]
    /\ pc = "off"
    /\ state = Fresh
    /\ todo = NoSave
    /\ issued = <<>>
    /\ acked = 0
    /\ last = Fresh
    /\ prev = Fresh
    /\ unread = {}

(* saveCheckpoint is called with the record the caller wants. *)
Save(op, ckpt) ==
    /\ todo' = [op |-> op, ckpt |-> [ckpt EXCEPT !.gen = NextGen(ckpt.gen)]]
    /\ pc' = "saving"

(* begin() after a reset, or again after it failed. *)
Begin(missed) ==
    LET found == SelectNewest(Read("A", missed), Read("B", missed))
    IN  /\ pc = "off"
        /\ IF found # None
           THEN /\ state' = found
                /\ pc' = "up"
                /\ UNCHANGED todo
           ELSE /\ state' = Fresh
                /\ Save("init", Fresh)
        /\ unread' = unread \cup missed
        /\ UNCHANGED <<disk, issued, acked, last, prev>>

(* A bound for TLC only: it says something new only where a boot missed a slot
   and the same sequences are reserved again and again. *)
IssuedBound == Len(issued) < MaxSequence

(* reserveIdentity persists the incremented counter before it answers. *)
ReserveIdentity ==
    /\ pc = "up"
    /\ state.next \notin {0, MaxSequence}
    /\ IssuedBound
    /\ Save("reserve", [state EXCEPT !.next = @ + 1])
    /\ UNCHANGED <<disk, state, ghosts>>

(* commitAppliedCursor refuses to move back and ignores its own value. *)
CommitAppliedCursor(c) ==
    /\ pc = "up"
    /\ c > state.cursor
    /\ Save("cursor", [state EXCEPT !.cursor = c])
    /\ UNCHANGED <<disk, state, ghosts>>

SetWallAnchor ==
    /\ pc = "up"
    /\ Save("anchor", state)
    /\ UNCHANGED <<disk, state, ghosts>>

(* The instant writeAtomic takes effect. *)
SaveReachesCard ==
    /\ pc = "saving"
    /\ disk' = [disk EXCEPT ![SlotOf(todo.ckpt.gen)] = todo.ckpt]
    /\ pc' = "saved"
    /\ last' = todo.ckpt
    /\ prev' = state
    /\ UNCHANGED <<state, todo, issued, acked, unread>>

(* saveCheckpoint returns true, and so does its caller. *)
SaveSucceeds ==
    /\ pc = "saved"
    /\ state' = todo.ckpt
    /\ pc' = "up"
    /\ todo' = NoSave
    /\ issued' = IF todo.op = "reserve" THEN Append(issued, state.next) ELSE issued
    /\ acked' = IF todo.op = "cursor" THEN todo.ckpt.cursor ELSE acked
    /\ UNCHANGED <<disk, last, prev, unread>>

(* saveCheckpoint returns false: the caller undoes its change in memory, and a
   begin() that could not write its first record leaves the queue unopened. *)
SaveFails ==
    /\ pc = "saving"
    /\ pc' = IF todo.op = "init" THEN "off" ELSE "up"
    /\ todo' = NoSave
    /\ UNCHANGED <<disk, state, ghosts>>

PowerLoss ==
    /\ pc # "off"
    /\ pc' = "off"
    /\ state' = Fresh
    /\ todo' = NoSave
    /\ UNCHANGED <<disk, ghosts>>

Next ==
    \/ \E missed \in Missed : Begin(missed)
    \/ ReserveIdentity
    \/ \E c \in Cursors : CommitAppliedCursor(c)
    \/ SetWallAnchor
    \/ SaveReachesCard
    \/ SaveSucceeds
    \/ SaveFails
    \/ PowerLoss

Spec == Init /\ [][Next]_vars

-----------------------------------------------------------------------------
TypeOK ==
    /\ disk \in [Slots -> Checkpoints \cup {None}]
    /\ pc \in {"off", "up", "saving", "saved"}
    /\ state \in Checkpoints
    /\ todo \in [op : {"none", "init", "reserve", "cursor", "anchor"},
                 ckpt : Checkpoints]
    /\ issued \in Seq(1 .. MaxSequence - 1)
    /\ acked \in Cursors
    /\ last \in Checkpoints
    /\ prev \in Checkpoints
    /\ unread \subseteq Slots

(* reserveIdentity never returns a sequence twice, over any number of power
   losses, failed saves and generations that wrap: each one it returns is
   larger than all it returned before.  Once a boot missed a slot that is lost:
   it may start from the older record. *)
SequencesStrictlyIncrease ==
    unread = {} => \A i, j \in DOMAIN issued : i < j => issued[i] < issued[j]

(* The cursor the card would yield at a boot: once commitAppliedCursor has
   answered true, no reset brings an older one back. *)
DurableCursor ==
    LET c == SelectNewest(disk["A"], disk["B"])
    IN  IF c = None THEN 0 ELSE c.cursor

AckedCursorSurvives == unread = {} => acked <= DurableCursor

(* No step, a reset included, moves the durable cursor back. *)
DurableCursorNeverFalls == [][unread' = {} => DurableCursor' >= DurableCursor]_vars

(* Even when a boot cannot read one of the slots, what it continues with is
   the last record written or the one before it. *)
BootLosesAtMostOneSave == pc # "off" => state \in {last, prev}
=============================================================================
