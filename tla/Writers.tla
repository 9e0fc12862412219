------------------------------ MODULE Writers ------------------------------
(***************************************************************************)
(* The three things the firmware replaces as a whole: a file of the queue, *)
(* the position in progress.bin, and the firmware itself.  They share no   *)
(* state; a behaviour is about the writer it begins with.                  *)
(***************************************************************************)
EXTENDS AtomicFile

CONSTANT MaxSeq

VARIABLES
    writer,     \* the writer this behaviour is about
    progress, backup, temp, at, position, said, latest, former,
    image, otadata, running, phase, source

ofProgress == <<progress, backup, temp, at, position, said, latest, former>>
ofFirmware == <<image, otadata, running, phase, source>>

Progress == INSTANCE ProgressFile
    WITH final <- progress, bak <- backup, tmp <- temp, step <- at,
         want <- position, answer <- said, last <- latest, before <- former

Firmware == INSTANCE FirmwareUpdate
    WITH Images <- Content, step <- phase

AllInit ==
    /\ Init
    /\ Progress!Init
    /\ Firmware!Init
    /\ writer \in {"queue", "progress", "firmware"}

QueueNext ==
    /\ writer = "queue"
    /\ Next
    /\ UNCHANGED <<writer, ofProgress, ofFirmware>>

ProgressNext ==
    /\ writer = "progress"
    /\ Progress!Next
    /\ UNCHANGED <<writer, vars, ofFirmware>>

FirmwareNext ==
    /\ writer = "firmware"
    /\ Firmware!Next
    /\ UNCHANGED <<writer, vars, ofProgress>>

AllNext == QueueNext \/ ProgressNext \/ FirmwareNext

AllSpec == AllInit /\ [][AllNext]_<<writer, vars, ofProgress, ofFirmware>>

(* A reader of progress.bin, whose open may fail, reads a whole position that
   is at most one save old: see ProgressFile. *)
FallbackIsOneSaveBehind == Progress!TypeOK /\ Progress!FallbackIsOneSaveBehind

(* ProgressFile::writeAtomic is an atomic register too: see ProgressFile. *)
ProgressRegisterSpec == Progress!RegisterSpec

(* There is always exactly one whole firmware to start: see FirmwareUpdate. *)
UpdateIsAllOrNothing == Firmware!TypeOK /\ Firmware!UpdateIsAllOrNothing
=============================================================================
