----------------------------- MODULE AtomicFile -----------------------------
(***************************************************************************)
(* writeAtomic and recoverAtomic of BorgesDurableQueue.cpp, one step per   *)
(* storage call, for one path and its two companions path.bak, path.tmp.   *)
(*                                                                         *)
(* A storage call happens whole or not at all (the FAT driver's rename and *)
(* remove; a flushed and closed file is on the card) and may fail at any   *)
(* time; a failed call changes nothing, and a failed exists() reads as     *)
(* "absent".  rename refuses a target that exists.  Power may be lost      *)
(* between any two calls and in the middle of the write of path.tmp.       *)
(* Contents are abstract; "Torn" is a file that was not written whole.     *)
(***************************************************************************)

EXTENDS Files

VARIABLES
    final,      \* the file at path
    bak,        \* the file at path.bak
    tmp,        \* the file at path.tmp
    step,       \* the storage call that comes next
    want,       \* the data writeAtomic was given
    hadFinal,   \* its local of the same name
    answer,     \* what the last completed writeAtomic returned
    clean       \* no storage call failed since the last boot

files == <<final, bak, tmp>>
vars == <<final, bak, tmp, step, want, hadFinal, answer, clean>>

WriteSteps == {"recover_bak", "recover_tmp", "clear_tmp", "open", "fill",
               "retire", "publish", "rollback", "abandon"}
BootSteps == {"boot_bak", "boot_tmp"}
Steps == WriteSteps \cup BootSteps \cup {"idle", "drop_bak", "off"}

-----------------------------------------------------------------------------
Init ==
    /\ final = NoFile
    /\ bak = NoFile
    /\ tmp = NoFile
    /\ step = "idle"
    /\ want = NoFile
    /\ hadFinal = FALSE
    /\ answer = "none"
    /\ clean = TRUE

(* Where control goes next, and whether the call just made failed. *)
Goto(next) == step' = next /\ UNCHANGED clean
FailTo(next) == step' = next /\ clean' = FALSE

(* writeAtomic is entered with the data to store. *)
Call(v) ==
    /\ step = "idle"
    /\ want' = v
    /\ Goto("recover_bak")
    /\ UNCHANGED <<files, hadFinal, answer>>

(* recoverAtomic: a backup beside a final file is removed, a backup without
   one is renamed back. *)
RecoverBackup(from, to) ==
    /\ step = from
    /\ \/ bak = NoFile /\ UNCHANGED <<final, bak>> /\ Goto(to)
       \/ bak # NoFile /\ final # NoFile
          /\ bak' = NoFile /\ UNCHANGED final /\ Goto(to)
       \/ bak # NoFile /\ final = NoFile
          /\ final' = bak /\ bak' = NoFile /\ Goto(to)
       \/ bak # NoFile /\ UNCHANGED <<final, bak>> /\ FailTo(to)
    /\ UNCHANGED <<tmp, want, hadFinal, answer>>

(* remove(path.tmp), whose result no caller looks at. *)
RemoveTemp(from, to) ==
    /\ step = from
    /\ \/ tmp' = NoFile /\ Goto(to)
       \/ tmp # NoFile /\ UNCHANGED tmp /\ FailTo(to)
    /\ UNCHANGED <<final, bak, want, hadFinal, answer>>

(* writeAtomic gives up before it touched path or its backup. *)
GiveUp == FailTo("idle") /\ answer' = "refused"

-----------------------------------------------------------------------------
(* Faulty variants of three steps below.  No action uses them: each breaks one
   of the properties at the end, which is how we know they can fail. *)

(* The short write is not noticed. *)
FillTempUnchecked ==
    /\ step = "fill"
    /\ \E data \in {want, Torn} : tmp' = data
    /\ Goto("retire")
    /\ UNCHANGED <<final, bak, want, hadFinal, answer>>

(* The old file is deleted instead of renamed to its backup. *)
RetireFinalByRemoving ==
    /\ step = "retire"
    /\ final' = NoFile
    /\ hadFinal' = (final # NoFile)
    /\ Goto("publish")
    /\ UNCHANGED <<bak, tmp, want, answer>>

(* Success is reported with the backup left in place. *)
DropBackupForgotten ==
    /\ step = "drop_bak"
    /\ answer' = "stored"
    /\ Goto("idle")
    /\ UNCHANGED <<files, want, hadFinal>>
-----------------------------------------------------------------------------

OpenTemp ==
    /\ step = "open"
    /\ \/ tmp' = Torn /\ Goto("fill") /\ UNCHANGED answer
       \/ UNCHANGED tmp /\ GiveUp
    /\ UNCHANGED <<final, bak, want, hadFinal>>

FillTemp ==
    /\ step = "fill"
    /\ \/ tmp' = want /\ Goto("retire") /\ UNCHANGED answer
       \/ tmp' = Torn /\ GiveUp
    /\ UNCHANGED <<final, bak, want, hadFinal>>

(* The old content, if there is any, moves to path.bak. *)
RetireFinal ==
    /\ step = "retire"
    /\ \/ final = NoFile
          /\ hadFinal' = FALSE /\ UNCHANGED <<final, bak>> /\ Goto("publish")
       \/ final # NoFile /\ bak = NoFile
          /\ hadFinal' = TRUE /\ bak' = final /\ final' = NoFile
          /\ Goto("publish")
       \/ final # NoFile
          /\ hadFinal' = TRUE /\ UNCHANGED <<final, bak>> /\ FailTo("abandon")
       \/ final # NoFile
          /\ hadFinal' = FALSE /\ UNCHANGED <<final, bak>> /\ FailTo("publish")
    /\ UNCHANGED <<tmp, want, answer>>

(* The instant of the write: path.tmp becomes path. *)
PublishTemp ==
    /\ step = "publish"
    /\ \/ final = NoFile /\ final' = tmp /\ tmp' = NoFile /\ Goto("drop_bak")
       \/ UNCHANGED <<final, tmp>> /\ FailTo("rollback")
    /\ UNCHANGED <<bak, want, hadFinal, answer>>

(* remove(path.bak), its result ignored: the write has succeeded. *)
DropBackup ==
    /\ step = "drop_bak"
    /\ answer' = "stored"
    /\ \/ bak' = NoFile /\ Goto("idle")
       \/ bak # NoFile /\ UNCHANGED bak /\ FailTo("idle")
    /\ UNCHANGED <<final, tmp, want, hadFinal>>

(* Undo RetireFinal; this rename may fail as well and nobody looks. *)
RollBack ==
    /\ step = "rollback"
    /\ \/ hadFinal /\ final = NoFile
          /\ final' = bak /\ bak' = NoFile /\ Goto("abandon")
       \/ UNCHANGED <<final, bak>> /\ FailTo("abandon")
    /\ UNCHANGED <<tmp, want, hadFinal, answer>>

Abandon ==
    /\ step = "abandon"
    /\ \/ tmp' = NoFile \/ UNCHANGED tmp
    /\ GiveUp
    /\ UNCHANGED <<final, bak, want, hadFinal>>

PowerLoss ==
    /\ step' = "off"
    /\ answer' = "none"
    /\ UNCHANGED <<files, want, hadFinal, clean>>

Boot ==
    /\ step = "off"
    /\ step' = "boot_bak"
    /\ clean' = TRUE
    /\ UNCHANGED <<files, want, hadFinal, answer>>

(* begin() lists at most MAX_QUEUE_SCAN names and repairs what it lists. *)
BootMissesFile ==
    /\ step = "boot_bak"
    /\ FailTo("idle")
    /\ UNCHANGED <<files, want, hadFinal, answer>>

Recover ==
    \/ RecoverBackup("recover_bak", "recover_tmp")
    \/ RemoveTemp("recover_tmp", "clear_tmp")

BootRecover ==
    \/ RecoverBackup("boot_bak", "boot_tmp")
    \/ RemoveTemp("boot_tmp", "idle")

ClearTemp == RemoveTemp("clear_tmp", "open")

Next ==
    \/ \E v \in Content : Call(v)
    \/ Recover
    \/ ClearTemp
    \/ OpenTemp
    \/ FillTemp
    \/ RetireFinal
    \/ PublishTemp
    \/ DropBackup
    \/ RollBack
    \/ Abandon
    \/ PowerLoss
    \/ Boot
    \/ BootRecover
    \/ BootMissesFile

Spec == Init /\ [][Next]_vars

-----------------------------------------------------------------------------
(* Types, and with them the first claim: neither path nor its backup is ever
   a torn file, whatever fails and wherever the power goes. *)
TypeOK ==
    /\ final \in Content \cup {NoFile}
    /\ bak \in Content \cup {NoFile}
    /\ tmp \in Content \cup {NoFile, Torn}
    /\ step \in Steps
    /\ want \in Content \cup {NoFile}
    /\ hadFinal \in BOOLEAN
    /\ answer \in {"none", "stored", "refused"}
    /\ clean \in BOOLEAN

(* What recoverAtomic would make of the files: the content that survives. *)
Recoverable == IF final # NoFile THEN final ELSE bak

(* If no storage call failed since the boot, an idle writer has left neither
   a backup nor a temporary file, so a plain read of path finds the surviving
   content: the boot repaired every cut a power loss can make. *)
QuietFileIsWhole ==
    clean /\ step = "idle" => bak = NoFile /\ tmp = NoFile /\ final = Recoverable

(* The detailed writer is the abstract register: every call sequence, power
   loss and failure of the file operations looks like an atomic write that
   happened or did not, and writeAtomic's answer tells which. *)
PhaseOf == CASE step \in WriteSteps -> "busy"
             [] step = "drop_bak" -> "done"
             [] step = "idle" -> "idle"
             [] OTHER -> "down"

Register == INSTANCE AtomicRegister WITH val <- Recoverable, phase <- PhaseOf

RegisterSpec == Register!Spec
=============================================================================
