---------------------------- MODULE ProgressFile ----------------------------
(***************************************************************************)
(* ProgressFile::writeAtomic and openForRead: the reader's own position,   *)
(* progress.bin with its companions .bak and .tmp, one step per storage    *)
(* call.  It is a second atomic writer beside AtomicFile, under the same   *)
(* assumptions on the card, and differs in what it leaves behind: nothing  *)
(* is repaired at boot, the backup of the last write stays, and a reader   *)
(* that cannot open progress.bin opens the backup.                         *)
(***************************************************************************)

EXTENDS Files

VARIABLES
    final,      \* progress.bin
    bak,        \* progress.bin.bak
    tmp,        \* progress.bin.tmp
    step,       \* the storage call that comes next
    want,       \* the position writeAtomic was given
    answer,     \* what the last completed writeAtomic returned
    last,       \* the position published last
    before      \* the one published before it

files == <<final, bak, tmp>>
history == <<last, before>>
vars == <<final, bak, tmp, step, want, answer, last, before>>

WriteSteps == {"open", "fill", "look", "clear_bak", "retire", "publish", "rollback"}

Init ==
    /\ final = NoFile
    /\ bak = NoFile
    /\ tmp = NoFile
    /\ step = "idle"
    /\ want = NoFile
    /\ answer = "none"
    /\ last = NoFile
    /\ before = NoFile

-----------------------------------------------------------------------------
(* Faulty variants, not used by any action; they show that the properties at
   the end can fail. *)

(* An old backup makes the old file dispensable. *)
RetireFinalOverBackup ==
    /\ step = "retire"
    /\ final' = NoFile
    /\ bak' = IF bak = NoFile THEN final ELSE bak
    /\ step' = "publish"
    /\ UNCHANGED <<tmp, want, answer, history>>

(* A backup that cannot be removed does not stop the write, nor does a rename
   that is refused because of it. *)
ClearBackupCarelessly ==
    /\ step = "clear_bak"
    /\ \/ bak' = NoFile /\ step' = "retire" /\ UNCHANGED final
       \/ bak # NoFile /\ final' = NoFile /\ step' = "publish" /\ UNCHANGED bak
    /\ UNCHANGED <<tmp, want, answer, history>>
-----------------------------------------------------------------------------
Refused == step' = "idle" /\ answer' = "refused"
Goto(next) == step' = next /\ UNCHANGED answer

WriteAtomic(v) ==
    /\ step = "idle"
    /\ want' = v
    /\ Goto("open")
    /\ UNCHANGED <<files, history>>

(* openFileForWrite truncates what an earlier write left. *)
OpenTemp ==
    /\ step = "open"
    /\ \/ tmp' = Torn /\ Goto("fill")
       \/ UNCHANGED tmp /\ Refused
    /\ UNCHANGED <<final, bak, want, history>>

FillTemp ==
    /\ step = "fill"
    /\ \/ tmp' = want /\ Goto("look")
       \/ tmp' = Torn /\ Refused
    /\ UNCHANGED <<final, bak, want, history>>

(* exists(progress.bin); a call that fails reads as "absent". *)
LookForFinal ==
    /\ step = "look"
    /\ \/ final # NoFile /\ Goto("clear_bak")
       \/ Goto("publish")
    /\ UNCHANGED <<files, want, history>>

(* The backup of an earlier write makes room, if it is seen and can go. *)
ClearBackup ==
    /\ step = "clear_bak"
    /\ \/ bak' = NoFile /\ Goto("retire")
       \/ bak # NoFile /\ UNCHANGED bak /\ (Goto("retire") \/ Refused)
    /\ UNCHANGED <<final, tmp, want, history>>

(* rename(progress.bin, .bak), refused when an unseen backup is in its way. *)
RetireFinal ==
    /\ step = "retire"
    /\ \/ bak = NoFile /\ bak' = final /\ final' = NoFile /\ Goto("publish")
       \/ UNCHANGED <<final, bak>> /\ Refused
    /\ UNCHANGED <<tmp, want, history>>

(* The instant of the write: .tmp becomes progress.bin. *)
PublishTemp ==
    /\ step = "publish"
    /\ \/ /\ final = NoFile
          /\ final' = tmp /\ tmp' = NoFile
          /\ last' = tmp /\ before' = last
          /\ Goto("published")
       \/ UNCHANGED <<final, tmp, history>> /\ Goto("rollback")
    /\ UNCHANGED <<bak, want>>

ReturnTrue ==
    /\ step = "published"
    /\ step' = "idle"
    /\ answer' = "stored"
    /\ UNCHANGED <<files, want, history>>

(* The backup, if there is one, is renamed back; nobody looks whether it was. *)
RollBack ==
    /\ step = "rollback"
    /\ \/ bak # NoFile /\ final = NoFile /\ final' = bak /\ bak' = NoFile
       \/ UNCHANGED <<final, bak>>
    /\ Refused
    /\ UNCHANGED <<tmp, want, history>>

PowerLoss ==
    /\ step # "off"
    /\ step' = "off"
    /\ answer' = "none"
    /\ UNCHANGED <<files, want, history>>

Restart ==
    /\ step = "off"
    /\ Goto("idle")
    /\ UNCHANGED <<files, want, history>>

Next ==
    \/ \E v \in Content : WriteAtomic(v)
    \/ OpenTemp
    \/ FillTemp
    \/ LookForFinal
    \/ ClearBackup
    \/ RetireFinal
    \/ PublishTemp
    \/ ReturnTrue
    \/ RollBack
    \/ PowerLoss
    \/ Restart

Spec == Init /\ [][Next]_vars

-----------------------------------------------------------------------------
TypeOK ==
    /\ final \in Content \cup {NoFile}
    /\ bak \in Content \cup {NoFile}
    /\ tmp \in Content \cup {NoFile, Torn}
    /\ step \in WriteSteps \cup {"idle", "published", "off"}
    /\ want \in Content \cup {NoFile}
    /\ answer \in {"none", "stored", "refused"}
    /\ {last, before} \subseteq Content \cup {NoFile}

(* What openForRead opens, and what it may open when a call fails. *)
OpenForRead == IF final # NoFile THEN final ELSE bak
MayOpen == {final, bak} \ {NoFile}

(* A reader whose open of progress.bin fails falls back to the backup.  However
   writes, failures and power losses were mixed, it reads a whole position that
   is at most one save old. *)
FallbackIsOneSaveBehind == MayOpen \subseteq {last, before}

(* The writer is the abstract register as openForRead reads it: the position
   changes at one instant or not at all, the answer says which, and a power
   loss keeps what there was. *)
PhaseOf == CASE step \in WriteSteps -> "busy"
             [] step = "published" -> "done"
             [] step = "idle" -> "idle"
             [] OTHER -> "down"

Register == INSTANCE AtomicRegister WITH val <- OpenForRead, phase <- PhaseOf

RegisterSpec == Register!Spec
=============================================================================
