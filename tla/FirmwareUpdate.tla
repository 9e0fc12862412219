--------------------------- MODULE FirmwareUpdate ---------------------------
(***************************************************************************)
(* Updating the firmware from the card (firmware_flash::flashFromSdPath)   *)
(* or over the air (OtaUpdater::installUpdate): the image goes into the    *)
(* app partition that is not running, then one of the two otadata slots    *)
(* is erased and rewritten so that the bootloader selects that partition   *)
(* (ota_boot::switchTo), and the device restarts.                          *)
(*                                                                         *)
(* A partition holds an image, or none that starts (Nothing) from the      *)
(* first erase to the last write; a slot is Blank from its erase to its    *)
(* write, and one whose checksum does not match counts as blank.  Every    *)
(* flash call may fail and power may be lost between any two.  The         *)
(* bootloader is external: it selects as ESP-IDF does, tries the other     *)
(* partition when the selected one is not whole, and may reject a new      *)
(* image once.                                                             *)
(***************************************************************************)
EXTENDS Integers

CONSTANTS
    Images,     \* complete firmware images for this board
    MaxSeq      \* bounds ota_seq

Parts == {0, 1}
Other(p) == 1 - p
Entries == [seq : Nat \ {0}, state : {"new", "valid", "bad"}]
Blank == [seq |-> 0, state |-> "blank"]
Whole == {{v} : v \in Images}
Nothing == {}

VARIABLES
    image,      \* what each app partition holds
    otadata,    \* the two slots that select one
    running,    \* the partition the device runs from
    step,       \* where the update is
    source      \* the image to install, Nothing before the first

vars == <<image, otadata, running, step, source>>

-----------------------------------------------------------------------------
Usable(slots) == {s \in Parts : slots[s].state \in {"new", "valid"}}

(* The valid slot with the highest sequence: switchTo and the bootloader. *)
Active(slots) ==
    {s \in Usable(slots) : \A t \in Usable(slots) : slots[t].seq <= slots[s].seq}

ActiveSeq(slots) ==
    IF 0 \in Active(slots) THEN slots[0].seq
    ELSE IF 1 \in Active(slots) THEN slots[1].seq ELSE 0

PartitionOf(seq) == (seq - 1) % 2

(* The smallest sequence above the active one that selects dest. *)
NewSeq(slots, dest) ==
    IF PartitionOf(ActiveSeq(slots) + 1) = dest
    THEN ActiveSeq(slots) + 1
    ELSE ActiveSeq(slots) + 2

(* A faulty variant, used by no action: the active slot itself is rewritten. *)
TargetActiveSlot(slots) == IF Active(slots) = {1} THEN 1 ELSE 0

(* The slot that is not active; the first one when neither is. *)
TargetSlot(slots) == IF Active(slots) = {0} THEN 1 ELSE 0

(* The partition the bootloader starts from these slots. *)
Selected(slots) == IF Usable(slots) = {} THEN 0 ELSE PartitionOf(ActiveSeq(slots))
Boots(slots) == IF image[Selected(slots)] # Nothing THEN Selected(slots) ELSE Other(Selected(slots))

NextUpdatePartition == Other(running)

-----------------------------------------------------------------------------
Init ==
    /\ \E i \in Whole : image = [p \in Parts |-> IF p = 0 THEN i ELSE Nothing]
    /\ otadata = [s \in Parts |-> Blank]
    /\ running = 0
    /\ step = "idle"
    /\ source = Nothing

Fail ==
    /\ step' = "idle"
    /\ UNCHANGED <<otadata, running, source>>

(* A validated file of the card, or a manifest of a newer version. *)
StartUpdate(v) ==
    /\ step = "idle"
    /\ NewSeq(otadata, NextUpdatePartition) <= MaxSeq
    /\ source' = v
    /\ step' = "started"
    /\ UNCHANGED <<image, otadata, running>>

(* The first erase of the destination. *)
ErasePartition ==
    /\ step = "started"
    /\ image' = [image EXCEPT ![NextUpdatePartition] = Nothing]
    /\ step' = "copying"
    /\ UNCHANGED <<otadata, running, source>>

(* The last write; an over-the-air image is compared with the manifest, and
   what does not match its size and hash is not switched to. *)
FinishCopy ==
    /\ step = "copying"
    /\ image' = [image EXCEPT ![NextUpdatePartition] = source]
    /\ step' = "switching"
    /\ UNCHANGED <<otadata, running, source>>

(* An erase, a read, a write, the transfer, the hash or the verification of the
   image fails. *)
GiveUp ==
    /\ step \in {"started", "copying", "switching", "erased"}
    /\ Fail
    /\ UNCHANGED image

(* A transfer that does not match the manifest leaves another image behind. *)
RefuseImage(v) ==
    /\ step = "copying"
    /\ v # source
    /\ image' = [image EXCEPT ![NextUpdatePartition] = v]
    /\ Fail

EraseSlot ==
    /\ step = "switching"
    /\ otadata' = [otadata EXCEPT ![TargetSlot(otadata)] = Blank]
    /\ step' = "erased"
    /\ UNCHANGED <<image, running, source>>

WriteSlot ==
    /\ step = "erased"
    /\ LET entry == [seq |-> NewSeq(otadata, NextUpdatePartition), state |-> "new"]
       IN  otadata' = [otadata EXCEPT ![TargetSlot(otadata)] = entry]
    /\ step' = "switched"
    /\ UNCHANGED <<image, running, source>>

(* The restart after a success, or a loss of power. *)
GoDown ==
    /\ step # "off"
    /\ step' = "off"
    /\ UNCHANGED <<image, otadata, running, source>>

Judge(slots, verdict) ==
    [s \in Parts |-> IF s \in Active(slots) /\ slots[s].state = "new"
                     THEN [slots[s] EXCEPT !.state = verdict]
                     ELSE slots[s]]

(* The bootloader starts the selected partition; a new image that does not
   come up is rejected once and the slots are looked at again. *)
Boot(verdict) ==
    /\ step = "off"
    /\ otadata' = Judge(otadata, verdict)
    /\ running' = Boots(otadata')
    /\ step' = "idle"
    /\ UNCHANGED <<image, source>>

Next ==
    \/ \E v \in Whole : StartUpdate(v)
    \/ ErasePartition
    \/ FinishCopy
    \/ GiveUp
    \/ \E v \in Whole \cup {Nothing} : RefuseImage(v)
    \/ EraseSlot
    \/ WriteSlot
    \/ GoDown
    \/ \E verdict \in {"valid", "bad"} : Boot(verdict)

Spec == Init /\ [][Next]_vars

-----------------------------------------------------------------------------
TypeOK ==
    /\ image \in [Parts -> Whole \cup {Nothing}]
    /\ otadata \in [Parts -> Entries \cup {Blank}]
    /\ running \in Parts
    /\ step \in {"idle", "started", "copying", "switching", "erased", "switched", "off"}
    /\ source \in Whole \cup {Nothing}

(* Whatever happened before the power goes, the bootloader finds a whole image,
   even when it rejects the new one. *)
AlwaysBootable ==
    \A slots \in {otadata, Judge(otadata, "bad")} : image[Boots(slots)] # Nothing

(* At every instant, also between the erase and the write of a slot, there is
   exactly one firmware the device would start: the old one while the new one
   is not complete and selected, the new one from then on. *)
UpdateIsAllOrNothing ==
    /\ AlwaysBootable
    /\ image[running] # Nothing
    /\ step \notin {"switched", "off"} => Boots(otadata) = running
    /\ step = "switched" =>
          Boots(otadata) = NextUpdatePartition /\ image[NextUpdatePartition] = source
=============================================================================
