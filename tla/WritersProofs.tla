--------------------------- MODULE WritersProofs ---------------------------
(***************************************************************************)
(* For any set of contents: the writer of the queue's files, its type      *)
(* invariant, the state of a quiet file, and that it implements the atomic *)
(* register; what a reader of progress.bin may find, and that its writer   *)
(* implements the register too; and for any set of images and any number   *)
(* of updates, failures and losses of power, that the bootloader always    *)
(* finds one whole firmware: the old one until the new one is complete and *)
(* selected.  The three share no state, so a step of one is a stutter of   *)
(* the others.                                                             *)
(***************************************************************************)
EXTENDS Writers, Integers, TLAPS

everything == <<writer, vars, ofProgress, ofFirmware>>

(* Between filling path.tmp and publishing it, path.tmp holds the data; once
   published, path does. *)
DataInPlace ==
    /\ step \in WriteSteps \cup {"drop_bak"} => want \in Content
    /\ step \in {"retire", "publish"} => tmp = want
    /\ step = "drop_bak" => final = want

(* What is already cleaned up at each step when no storage call failed. *)
CleanSoFar ==
    clean =>
        /\ step \notin {"rollback", "abandon"}
        /\ step \in {"idle", "recover_bak", "recover_tmp", "clear_tmp", "open",
                     "fill", "retire", "boot_tmp"} => bak = NoFile
        /\ step \in {"idle", "recover_bak", "clear_tmp", "open", "drop_bak"}
               => tmp = NoFile

IInv == TypeOK /\ DataInPlace /\ CleanSoFar

LEMMA InitIInv == Init => IInv
  BY FileAssumption DEF Init, IInv, TypeOK, DataInPlace, CleanSoFar, Steps,
     WriteSteps, BootSteps

(* Every step of the writer keeps the inductive invariant. *)
LEMMA StepIInv == IInv /\ [Next]_vars => IInv'
<1> SUFFICES ASSUME IInv, [Next]_vars PROVE IInv'
  OBVIOUS
<1> USE FileAssumption DEF IInv, TypeOK, DataInPlace, CleanSoFar, Steps,
        WriteSteps, BootSteps, files, Goto, FailTo, GiveUp
<1>1. ASSUME NEW v \in Content, Call(v) PROVE IInv'
  <2>1. TypeOK'
    BY <1>1 DEF Call
  <2>2. DataInPlace'
    BY <1>1 DEF Call
  <2>3. CleanSoFar'
    BY <1>1 DEF Call
  <2> QED BY <2>1, <2>2, <2>3
<1>2. CASE Recover
  <2>1. TypeOK'
    BY <1>2 DEF Recover, RecoverBackup, RemoveTemp
  <2>2. DataInPlace'
    BY <1>2 DEF Recover, RecoverBackup, RemoveTemp
  <2>3. CleanSoFar'
    BY <1>2 DEF Recover, RecoverBackup, RemoveTemp
  <2> QED BY <2>1, <2>2, <2>3
<1>3. CASE ClearTemp
  <2>1. TypeOK'
    BY <1>3 DEF ClearTemp, RemoveTemp
  <2>2. DataInPlace'
    BY <1>3 DEF ClearTemp, RemoveTemp
  <2>3. CleanSoFar'
    BY <1>3 DEF ClearTemp, RemoveTemp
  <2> QED BY <2>1, <2>2, <2>3
<1>4. CASE OpenTemp
  <2>1. TypeOK'
    BY <1>4 DEF OpenTemp
  <2>2. DataInPlace'
    BY <1>4 DEF OpenTemp
  <2>3. CleanSoFar'
    BY <1>4 DEF OpenTemp
  <2> QED BY <2>1, <2>2, <2>3
<1>5. CASE FillTemp
  <2>1. TypeOK'
    BY <1>5 DEF FillTemp
  <2>2. DataInPlace'
    BY <1>5 DEF FillTemp
  <2>3. CleanSoFar'
    BY <1>5 DEF FillTemp
  <2> QED BY <2>1, <2>2, <2>3
<1>6. CASE RetireFinal
  <2>1. TypeOK'
    BY <1>6 DEF RetireFinal
  <2>2. DataInPlace'
    BY <1>6 DEF RetireFinal
  <2>3. CleanSoFar'
    BY <1>6 DEF RetireFinal
  <2> QED BY <2>1, <2>2, <2>3
<1>7. CASE PublishTemp
  <2>1. TypeOK'
    BY <1>7 DEF PublishTemp
  <2>2. DataInPlace'
    BY <1>7 DEF PublishTemp
  <2>3. CleanSoFar'
    BY <1>7 DEF PublishTemp
  <2> QED BY <2>1, <2>2, <2>3
<1>8. CASE DropBackup
  <2>1. TypeOK'
    BY <1>8 DEF DropBackup
  <2>2. DataInPlace'
    BY <1>8 DEF DropBackup
  <2>3. CleanSoFar'
    BY <1>8 DEF DropBackup
  <2> QED BY <2>1, <2>2, <2>3
<1>9. CASE RollBack
  <2>1. TypeOK'
    BY <1>9 DEF RollBack
  <2>2. DataInPlace'
    BY <1>9 DEF RollBack
  <2>3. CleanSoFar'
    BY <1>9 DEF RollBack
  <2> QED BY <2>1, <2>2, <2>3
<1>10. CASE Abandon
  <2>1. TypeOK'
    BY <1>10 DEF Abandon
  <2>2. DataInPlace'
    BY <1>10 DEF Abandon
  <2>3. CleanSoFar'
    BY <1>10 DEF Abandon
  <2> QED BY <2>1, <2>2, <2>3
<1>11. CASE PowerLoss
  <2>1. TypeOK'
    BY <1>11 DEF PowerLoss
  <2>2. DataInPlace'
    BY <1>11 DEF PowerLoss
  <2>3. CleanSoFar'
    BY <1>11 DEF PowerLoss
  <2> QED BY <2>1, <2>2, <2>3
<1>12. CASE Boot
  <2>1. TypeOK'
    BY <1>12 DEF Boot
  <2>2. DataInPlace'
    BY <1>12 DEF Boot
  <2>3. CleanSoFar'
    BY <1>12 DEF Boot
  <2> QED BY <2>1, <2>2, <2>3
<1>13. CASE BootRecover
  <2>1. TypeOK'
    BY <1>13 DEF BootRecover, RecoverBackup, RemoveTemp
  <2>2. DataInPlace'
    BY <1>13 DEF BootRecover, RecoverBackup, RemoveTemp
  <2>3. CleanSoFar'
    BY <1>13 DEF BootRecover, RecoverBackup, RemoveTemp
  <2> QED BY <2>1, <2>2, <2>3
<1>14. CASE BootMissesFile
  <2>1. TypeOK'
    BY <1>14 DEF BootMissesFile
  <2>2. DataInPlace'
    BY <1>14 DEF BootMissesFile
  <2>3. CleanSoFar'
    BY <1>14 DEF BootMissesFile
  <2> QED BY <2>1, <2>2, <2>3
<1>15. CASE UNCHANGED vars
  <2>1. TypeOK'
    BY <1>15 DEF vars
  <2>2. DataInPlace'
    BY <1>15 DEF vars
  <2>3. CleanSoFar'
    BY <1>15 DEF vars
  <2> QED BY <2>1, <2>2, <2>3
<1> QED
  BY <1>1, <1>2, <1>3, <1>4, <1>5, <1>6, <1>7, <1>8, <1>9, <1>10, <1>11,
     <1>12, <1>13, <1>14, <1>15 DEF Next

(* The inductive invariant holds of every reachable state. *)
THEOREM Inductive == Spec => []IInv
<1>1. Init => IInv
  BY InitIInv
<1>2. IInv /\ [Next]_vars => IInv'
  BY StepIInv
<1> QED
  BY <1>1, <1>2, PTL DEF Spec

(* Neither path nor its backup is ever a torn file, for any set of contents:
   whatever storage call fails and whenever the power goes. *)
THEOREM NeverTorn == Spec => []TypeOK
<1>1. IInv => TypeOK
  BY DEF IInv
<1> QED
  BY <1>1, Inductive, PTL

(* An idle writer whose storage calls all succeeded since the boot leaves
   nothing beside path, and path holds the surviving content. *)
THEOREM QuietFile == Spec => []QuietFileIsWhole
<1>1. IInv => QuietFileIsWhole
  BY DEF IInv, TypeOK, CleanSoFar, QuietFileIsWhole, Recoverable
<1> QED
  BY <1>1, Inductive, PTL

-----------------------------------------------------------------------------
(* One step of the writer is one step of the register, or none. *)
LEMMA StepRefines ==
  IInv /\ [Next]_vars => [Register!Next]_(Register!vars)
<1> SUFFICES ASSUME IInv, [Next]_vars
             PROVE  Register!Next \/ UNCHANGED Register!vars
  OBVIOUS
<1> USE FileAssumption DEF IInv, TypeOK, DataInPlace, Steps, WriteSteps,
        BootSteps, files, Goto, FailTo, GiveUp, Recoverable, PhaseOf,
        Register!vars
<1>1. ASSUME NEW v \in Content, Call(v) PROVE Register!Begin(v)
  BY <1>1 DEF Call, Register!Begin
<1>2. CASE Recover
  <2>1. UNCHANGED Register!vars
    BY <1>2 DEF Recover, RecoverBackup, RemoveTemp
  <2> QED BY <2>1
<1>3. CASE ClearTemp
  <2>1. UNCHANGED Register!vars
    BY <1>3 DEF ClearTemp, RemoveTemp
  <2> QED BY <2>1
<1>4. CASE OpenTemp
  <2>1. CASE step' = "fill"
    BY <1>4, <2>1 DEF OpenTemp
  <2>2. CASE step' # "fill"
    <3>1. Register!Return(FALSE)
      BY <1>4, <2>2 DEF OpenTemp, Register!Return
    <3> QED BY <3>1 DEF Register!Next
  <2> QED BY <2>1, <2>2
<1>5. CASE FillTemp
  <2>1. CASE step' = "retire"
    BY <1>5, <2>1 DEF FillTemp
  <2>2. CASE step' # "retire"
    <3>1. Register!Return(FALSE)
      BY <1>5, <2>2 DEF FillTemp, Register!Return
    <3> QED BY <3>1 DEF Register!Next
  <2> QED BY <2>1, <2>2
<1>6. CASE RetireFinal
  <2>1. UNCHANGED Register!vars
    BY <1>6 DEF RetireFinal
  <2> QED BY <2>1
<1>7. CASE PublishTemp
  <2>1. CASE step' = "drop_bak"
    <3>1. Register!Commit
      BY <1>7, <2>1 DEF PublishTemp, Register!Commit
    <3> QED BY <3>1 DEF Register!Next
  <2>2. CASE step' # "drop_bak"
    BY <1>7, <2>2 DEF PublishTemp
  <2> QED BY <2>1, <2>2
<1>8. CASE DropBackup
  <2>1. Register!Return(TRUE)
    BY <1>8 DEF DropBackup, Register!Return
  <2> QED BY <2>1 DEF Register!Next
<1>9. CASE RollBack
  <2>1. UNCHANGED Register!vars
    BY <1>9 DEF RollBack
  <2> QED BY <2>1
<1>10. CASE Abandon
  <2>1. Register!Return(FALSE)
    BY <1>10 DEF Abandon, Register!Return
  <2> QED BY <2>1 DEF Register!Next
<1>11. CASE PowerLoss
  <2>1. Register!PowerLoss
    BY <1>11 DEF PowerLoss, Register!PowerLoss
  <2> QED BY <2>1 DEF Register!Next
<1>12. CASE Boot
  BY <1>12 DEF Boot
<1>13. CASE BootRecover
  <2>1. CASE step = "boot_bak"
    BY <1>13, <2>1 DEF BootRecover, RecoverBackup, RemoveTemp
  <2>2. CASE step # "boot_bak"
    <3>1. Register!Boot
      BY <1>13, <2>2 DEF BootRecover, RecoverBackup, RemoveTemp, Register!Boot
    <3> QED BY <3>1 DEF Register!Next
  <2> QED BY <2>1, <2>2
<1>14. CASE BootMissesFile
  <2>1. Register!Boot
    BY <1>14 DEF BootMissesFile, Register!Boot
  <2> QED BY <2>1 DEF Register!Next
<1>15. CASE UNCHANGED vars
  BY <1>15 DEF vars
<1> QED
  BY <1>1, <1>2, <1>3, <1>4, <1>5, <1>6, <1>7, <1>8, <1>9, <1>10, <1>11,
     <1>12, <1>13, <1>14, <1>15 DEF Next, Register!Next

(* The writer implements the register: a write happens at one instant or not
   at all, its answer says which, and a power loss never takes content away. *)
THEOREM WriterIsAtomic == Spec => RegisterSpec
<1>1. Init => Register!Init
  BY DEF Init, Register!Init, Recoverable, PhaseOf, WriteSteps
<1>2. IInv /\ [Next]_vars => [Register!Next]_(Register!vars)
  BY StepRefines
<1> QED
  BY <1>1, <1>2, Inductive, PTL DEF Spec, RegisterSpec, Register!Spec

(* A behaviour of the three is one of the writer of the queue's files. *)
LEMMA QueueSteps == AllSpec => Spec
<1>1. AllInit => Init
  BY DEF AllInit
<1>2. [AllNext]_everything => [Next]_vars
  BY DEF AllNext, QueueNext, ProgressNext, FirmwareNext, everything
<1> QED
  BY <1>1, <1>2, PTL DEF AllSpec, Spec, everything

(* With the position and the firmware beside it, the writer of the queue's files
   still tears no file, leaves a quiet one whole and is an atomic register. *)
THEOREM QueueTogether == AllSpec => []TypeOK /\ []QuietFileIsWhole /\ RegisterSpec
  BY QueueSteps, NeverTorn, QuietFile, WriterIsAtomic, PTL

-----------------------------------------------------------------------------
(* Between filling .tmp and publishing it, .tmp holds the data; once
   published, progress.bin does.  Only a file that is there is retired. *)
PositionInPlace ==
    /\ at \in Progress!WriteSteps \cup {"published"} => position \in Content
    /\ at \in {"look", "clear_bak", "retire", "publish"} => temp = position
    /\ at \in {"clear_bak", "retire"} => progress # NoFile
    /\ at = "published" => progress = position

(* The last position is in progress.bin, or it is retired and the backup is
   the only copy; beside the last one the backup is the one before it. *)
LatestInPlace ==
    IF progress = NoFile
    THEN backup = latest
    ELSE progress = latest /\ backup \in {NoFile, former}

PositionIInv == Progress!TypeOK /\ PositionInPlace /\ LatestInPlace

LEMMA InitPosition == Progress!Init => PositionIInv
  BY FileAssumption DEF Progress!Init, PositionIInv, Progress!TypeOK,
     PositionInPlace, LatestInPlace, Progress!WriteSteps

(* Every step of the writer of progress.bin keeps it. *)
LEMMA StepPosition == PositionIInv /\ [Progress!Next]_(Progress!vars) => PositionIInv'
<1> SUFFICES ASSUME PositionIInv, [Progress!Next]_(Progress!vars) PROVE PositionIInv'
  OBVIOUS
<1> USE FileAssumption DEF PositionIInv, Progress!TypeOK, PositionInPlace,
        LatestInPlace, Progress!WriteSteps, Progress!files, Progress!history,
        Progress!Goto, Progress!Refused
<1>1. ASSUME NEW v \in Content, Progress!WriteAtomic(v) PROVE PositionIInv'
  <2>1. Progress!TypeOK'
    BY <1>1 DEF Progress!WriteAtomic
  <2>2. PositionInPlace'
    BY <1>1 DEF Progress!WriteAtomic
  <2>3. LatestInPlace'
    BY <1>1 DEF Progress!WriteAtomic
  <2> QED BY <2>1, <2>2, <2>3
<1>2. CASE Progress!OpenTemp
  <2>1. Progress!TypeOK'
    BY <1>2 DEF Progress!OpenTemp
  <2>2. PositionInPlace'
    BY <1>2 DEF Progress!OpenTemp
  <2>3. LatestInPlace'
    BY <1>2 DEF Progress!OpenTemp
  <2> QED BY <2>1, <2>2, <2>3
<1>3. CASE Progress!FillTemp
  <2>1. Progress!TypeOK'
    BY <1>3 DEF Progress!FillTemp
  <2>2. PositionInPlace'
    BY <1>3 DEF Progress!FillTemp
  <2>3. LatestInPlace'
    BY <1>3 DEF Progress!FillTemp
  <2> QED BY <2>1, <2>2, <2>3
<1>4. CASE Progress!LookForFinal
  <2>1. Progress!TypeOK'
    BY <1>4 DEF Progress!LookForFinal
  <2>2. PositionInPlace'
    BY <1>4 DEF Progress!LookForFinal
  <2>3. LatestInPlace'
    BY <1>4 DEF Progress!LookForFinal
  <2> QED BY <2>1, <2>2, <2>3
<1>5. CASE Progress!ClearBackup
  <2>1. Progress!TypeOK'
    BY <1>5 DEF Progress!ClearBackup
  <2>2. PositionInPlace'
    BY <1>5 DEF Progress!ClearBackup
  <2>3. LatestInPlace'
    BY <1>5 DEF Progress!ClearBackup
  <2> QED BY <2>1, <2>2, <2>3
<1>6. CASE Progress!RetireFinal
  <2>1. Progress!TypeOK'
    BY <1>6 DEF Progress!RetireFinal
  <2>2. PositionInPlace'
    BY <1>6 DEF Progress!RetireFinal
  <2>3. LatestInPlace'
    BY <1>6 DEF Progress!RetireFinal
  <2> QED BY <2>1, <2>2, <2>3
<1>7. CASE Progress!PublishTemp
  <2>1. Progress!TypeOK'
    BY <1>7 DEF Progress!PublishTemp
  <2>2. PositionInPlace'
    BY <1>7 DEF Progress!PublishTemp
  <2>3. LatestInPlace'
    BY <1>7 DEF Progress!PublishTemp
  <2> QED BY <2>1, <2>2, <2>3
<1>8. CASE Progress!ReturnTrue
  <2>1. Progress!TypeOK'
    BY <1>8 DEF Progress!ReturnTrue
  <2>2. PositionInPlace'
    BY <1>8 DEF Progress!ReturnTrue
  <2>3. LatestInPlace'
    BY <1>8 DEF Progress!ReturnTrue
  <2> QED BY <2>1, <2>2, <2>3
<1>9. CASE Progress!RollBack
  <2>1. Progress!TypeOK'
    BY <1>9 DEF Progress!RollBack
  <2>2. PositionInPlace'
    BY <1>9 DEF Progress!RollBack
  <2>3. LatestInPlace'
    BY <1>9 DEF Progress!RollBack
  <2> QED BY <2>1, <2>2, <2>3
<1>10. CASE Progress!PowerLoss
  <2>1. Progress!TypeOK'
    BY <1>10 DEF Progress!PowerLoss
  <2>2. PositionInPlace'
    BY <1>10 DEF Progress!PowerLoss
  <2>3. LatestInPlace'
    BY <1>10 DEF Progress!PowerLoss
  <2> QED BY <2>1, <2>2, <2>3
<1>11. CASE Progress!Restart
  <2>1. Progress!TypeOK'
    BY <1>11 DEF Progress!Restart
  <2>2. PositionInPlace'
    BY <1>11 DEF Progress!Restart
  <2>3. LatestInPlace'
    BY <1>11 DEF Progress!Restart
  <2> QED BY <2>1, <2>2, <2>3
<1>12. CASE UNCHANGED Progress!vars
  BY <1>12 DEF Progress!vars
<1> QED
  BY <1>1, <1>2, <1>3, <1>4, <1>5, <1>6, <1>7, <1>8, <1>9, <1>10, <1>11,
     <1>12 DEF Progress!Next

-----------------------------------------------------------------------------
(* One step of the writer is one step of the register, or none. *)
LEMMA PositionStepRefines ==
  PositionIInv /\ [Progress!Next]_(Progress!vars)
     => [Progress!Register!Next]_(Progress!Register!vars)
<1> SUFFICES ASSUME PositionIInv, [Progress!Next]_(Progress!vars)
             PROVE  Progress!Register!Next \/ UNCHANGED Progress!Register!vars
  OBVIOUS
<1> USE FileAssumption DEF PositionIInv, Progress!TypeOK, PositionInPlace, LatestInPlace,
        Progress!WriteSteps, Progress!files, Progress!history, Progress!Goto,
        Progress!Refused, Progress!OpenForRead, Progress!PhaseOf, Progress!Register!vars
<1>1. ASSUME NEW v \in Content, Progress!WriteAtomic(v) PROVE Progress!Register!Begin(v)
  BY <1>1 DEF Progress!WriteAtomic, Progress!Register!Begin
<1>2. CASE Progress!OpenTemp
  <2>1. CASE at' = "fill"
    BY <1>2, <2>1 DEF Progress!OpenTemp
  <2>2. CASE at' # "fill"
    <3>1. Progress!Register!Return(FALSE)
      BY <1>2, <2>2 DEF Progress!OpenTemp, Progress!Register!Return
    <3> QED BY <3>1 DEF Progress!Register!Next
  <2> QED BY <2>1, <2>2
<1>3. CASE Progress!FillTemp
  <2>1. CASE at' = "look"
    BY <1>3, <2>1 DEF Progress!FillTemp
  <2>2. CASE at' # "look"
    <3>1. Progress!Register!Return(FALSE)
      BY <1>3, <2>2 DEF Progress!FillTemp, Progress!Register!Return
    <3> QED BY <3>1 DEF Progress!Register!Next
  <2> QED BY <2>1, <2>2
<1>4. CASE Progress!LookForFinal
  BY <1>4 DEF Progress!LookForFinal
<1>5. CASE Progress!ClearBackup
  <2>1. CASE at' = "retire"
    BY <1>5, <2>1 DEF Progress!ClearBackup
  <2>2. CASE at' # "retire"
    <3>1. Progress!Register!Return(FALSE)
      BY <1>5, <2>2 DEF Progress!ClearBackup, Progress!Register!Return
    <3> QED BY <3>1 DEF Progress!Register!Next
  <2> QED BY <2>1, <2>2
<1>6. CASE Progress!RetireFinal
  <2>1. CASE at' = "publish"
    BY <1>6, <2>1 DEF Progress!RetireFinal
  <2>2. CASE at' # "publish"
    <3>1. Progress!Register!Return(FALSE)
      BY <1>6, <2>2 DEF Progress!RetireFinal, Progress!Register!Return
    <3> QED BY <3>1 DEF Progress!Register!Next
  <2> QED BY <2>1, <2>2
<1>7. CASE Progress!PublishTemp
  <2>1. CASE at' = "published"
    <3>1. Progress!Register!Commit
      BY <1>7, <2>1 DEF Progress!PublishTemp, Progress!Register!Commit
    <3> QED BY <3>1 DEF Progress!Register!Next
  <2>2. CASE at' # "published"
    BY <1>7, <2>2 DEF Progress!PublishTemp
  <2> QED BY <2>1, <2>2
<1>8. CASE Progress!ReturnTrue
  <2>1. Progress!Register!Return(TRUE)
    BY <1>8 DEF Progress!ReturnTrue, Progress!Register!Return
  <2> QED BY <2>1 DEF Progress!Register!Next
<1>9. CASE Progress!RollBack
  <2>1. Progress!Register!Return(FALSE)
    BY <1>9 DEF Progress!RollBack, Progress!Register!Return
  <2> QED BY <2>1 DEF Progress!Register!Next
<1>10. CASE Progress!PowerLoss
  <2>1. Progress!Register!PowerLoss
    BY <1>10 DEF Progress!PowerLoss, Progress!Register!PowerLoss
  <2> QED BY <2>1 DEF Progress!Register!Next
<1>11. CASE Progress!Restart
  <2>1. Progress!Register!Boot
    BY <1>11 DEF Progress!Restart, Progress!Register!Boot
  <2> QED BY <2>1 DEF Progress!Register!Next
<1>12. CASE UNCHANGED Progress!vars
  BY <1>12 DEF Progress!vars
<1> QED
  BY <1>1, <1>2, <1>3, <1>4, <1>5, <1>6, <1>7, <1>8, <1>9, <1>10, <1>11,
     <1>12 DEF Progress!Next, Progress!Register!Next

(* A step of the whole is a step of the writer of progress.bin, or none. *)
LEMMA ProgressSteps == [AllNext]_everything => [Progress!Next]_(Progress!vars)
  BY DEF AllNext, QueueNext, ProgressNext, FirmwareNext, everything, ofProgress,
     Progress!vars

LEMMA PositionInductive == AllSpec => []PositionIInv
<1>1. AllInit => PositionIInv
  BY InitPosition DEF AllInit
<1>2. PositionIInv /\ [Progress!Next]_(Progress!vars) => PositionIInv'
  BY StepPosition
<1> QED
  BY <1>1, <1>2, ProgressSteps, PTL DEF AllSpec, everything

(* Neither progress.bin nor its backup is ever a torn file, whatever storage
   call fails and whenever the power goes, and a reader whose open of
   progress.bin fails reads the last position or the one saved just before. *)
THEOREM PositionsTogether == AllSpec => []FallbackIsOneSaveBehind
<1>1. PositionIInv => FallbackIsOneSaveBehind
  BY DEF PositionIInv, LatestInPlace, FallbackIsOneSaveBehind,
     Progress!FallbackIsOneSaveBehind, Progress!MayOpen
<1> QED
  BY <1>1, PositionInductive, PTL

(* The writer of progress.bin implements the register as openForRead reads it,
   although it repairs nothing at boot and keeps its backup. *)
THEOREM PositionsAtomic == AllSpec => ProgressRegisterSpec
<1>1. AllInit => Progress!Register!Init
  BY DEF AllInit, Progress!Init, Progress!Register!Init, Progress!OpenForRead,
     Progress!PhaseOf, Progress!WriteSteps
<1>2. PositionIInv /\ [Progress!Next]_(Progress!vars)
        => [Progress!Register!Next]_(Progress!Register!vars)
  BY PositionStepRefines
<1> QED
  BY <1>1, <1>2, PositionInductive, ProgressSteps, PTL
  DEF AllSpec, everything, ProgressRegisterSpec, Progress!RegisterSpec, Progress!Register!Spec

-----------------------------------------------------------------------------
(* The update of the firmware. *)
OtaSlots == [Firmware!Parts -> Firmware!Entries \cup {Firmware!Blank}]

(* Where an image is about to be selected, it is complete. *)
ImageInPlace ==
    /\ phase \in {"started", "copying", "switching", "erased", "switched"}
          => source \in Firmware!Whole
    /\ phase \in {"switching", "erased", "switched"}
          => image[Firmware!NextUpdatePartition] = source
    /\ image[running] # Firmware!Nothing

(* Two slots never claim the same sequence, and only the active one is new:
   a rejected image leaves the slot that was active before it. *)
SlotsDiffer ==
    /\ Firmware!Usable(otadata) = Firmware!Parts => otadata[0].seq # otadata[1].seq
    /\ \A s \in Firmware!Parts : otadata[s].state = "new" => s \in Firmware!Active(otadata)

(* Both what is selected and what would be if it were rejected start. *)
SelectionStarts ==
    /\ image[Firmware!Selected(otadata)] # Firmware!Nothing
    /\ image[Firmware!Selected(Firmware!Judge(otadata, "bad"))] # Firmware!Nothing

(* Between boots the device runs what is selected, and has judged it. *)
RunningIsSelected ==
    /\ phase \notin {"switched", "off"} =>
          /\ Firmware!Selected(otadata) = running
          /\ \A s \in Firmware!Parts : otadata[s].state # "new"
    /\ phase = "switched" => Firmware!Selected(otadata) = Firmware!NextUpdatePartition

UpdateIInv ==
    Firmware!TypeOK /\ ImageInPlace /\ SlotsDiffer /\ SelectionStarts /\ RunningIsSelected

-----------------------------------------------------------------------------
(* What the lemmas say of two slots, once and for all. *)

(* The active sequence is that of any active slot; there is one if a slot is
   usable. *)
LEMMA ActiveSeqIs ==
  ASSUME NEW slots \in OtaSlots
  PROVE  /\ Firmware!ActiveSeq(slots) \in Nat
         /\ Firmware!Usable(slots) = {} => Firmware!ActiveSeq(slots) = 0
         /\ Firmware!Usable(slots) # {} => Firmware!Active(slots) # {}
         /\ \A s \in Firmware!Usable(slots) : slots[s].seq <= Firmware!ActiveSeq(slots)
         /\ \A s \in Firmware!Active(slots) : Firmware!ActiveSeq(slots) = slots[s].seq
<1>1. \A s \in Firmware!Parts : slots[s].seq \in Nat
  BY DEF OtaSlots, Firmware!Entries, Firmware!Blank
<1>2. \A s, t \in Firmware!Active(slots) : slots[s].seq = slots[t].seq
  BY <1>1 DEF Firmware!Active, Firmware!Usable
<1>3. Firmware!Usable(slots) # {} => Firmware!Active(slots) # {}
  <2>1. CASE Firmware!Usable(slots) = {0} \/ Firmware!Usable(slots) = {1}
    BY <1>1, <2>1 DEF Firmware!Active, Firmware!Usable, Firmware!Parts
  <2>2. CASE Firmware!Usable(slots) = {0, 1}
    <3>1. CASE slots[0].seq <= slots[1].seq
      BY <1>1, <2>2, <3>1 DEF Firmware!Active, Firmware!Parts
    <3>2. CASE slots[1].seq <= slots[0].seq
      BY <1>1, <2>2, <3>2 DEF Firmware!Active, Firmware!Parts
    <3> QED BY <1>1, <3>1, <3>2 DEF Firmware!Parts
  <2> QED BY <2>1, <2>2 DEF Firmware!Usable, Firmware!Parts
<1>4. CASE Firmware!Active(slots) = {}
  BY <1>3, <1>4 DEF Firmware!ActiveSeq, Firmware!Active
<1>5. CASE Firmware!Active(slots) # {}
  <2>1. PICK a \in Firmware!Active(slots) : Firmware!ActiveSeq(slots) = slots[a].seq
    BY <1>5 DEF Firmware!ActiveSeq, Firmware!Active, Firmware!Usable, Firmware!Parts
  <2>2. \A s \in Firmware!Usable(slots) : slots[s].seq <= slots[a].seq
    BY DEF Firmware!Active
  <2> QED BY <1>1, <1>2, <1>3, <1>5, <2>1, <2>2 DEF Firmware!Active, Firmware!Usable
<1> QED BY <1>4, <1>5

(* The new sequence is above the active one and selects the destination. *)
LEMMA NewSeqSelects ==
  ASSUME NEW slots \in OtaSlots, NEW dest \in Firmware!Parts
  PROVE  /\ Firmware!NewSeq(slots, dest) \in Nat
         /\ Firmware!NewSeq(slots, dest) > Firmware!ActiveSeq(slots)
         /\ Firmware!PartitionOf(Firmware!NewSeq(slots, dest)) = dest
<1>1. Firmware!ActiveSeq(slots) \in Nat
  BY ActiveSeqIs
<1> QED BY <1>1 DEF Firmware!NewSeq, Firmware!PartitionOf, Firmware!Parts

LEMMA SelectedIsPartition ==
  ASSUME NEW slots \in OtaSlots
  PROVE  Firmware!Selected(slots) \in Firmware!Parts
<1>1. Firmware!ActiveSeq(slots) \in Nat
  BY ActiveSeqIs
<1> QED BY <1>1 DEF Firmware!Selected, Firmware!PartitionOf, Firmware!Parts

(* The target slot is one of the two, and not an active one. *)
LEMMA TargetIsNotActive ==
  ASSUME NEW slots \in OtaSlots,
         Firmware!Usable(slots) = Firmware!Parts => slots[0].seq # slots[1].seq
  PROVE  /\ Firmware!TargetSlot(slots) \in Firmware!Parts
         /\ Firmware!TargetSlot(slots) \notin Firmware!Active(slots)
<1>1. \A s \in Firmware!Parts : slots[s].seq \in Nat
  BY DEF OtaSlots, Firmware!Entries, Firmware!Blank
<1>2. Firmware!Active(slots) # {0, 1}
  BY <1>1 DEF Firmware!Active, Firmware!Usable, Firmware!Parts
<1> QED BY <1>2 DEF Firmware!TargetSlot, Firmware!Active, Firmware!Usable, Firmware!Parts

(* A slot that is not active does not matter to the selection: whatever else it
   holds that is not usable, the same partition is selected. *)
LEMMA OtherSlotIsFree ==
  ASSUME NEW slots \in OtaSlots, NEW other \in OtaSlots, NEW t \in Firmware!Parts,
         t \notin Firmware!Active(slots),
         t \notin Firmware!Usable(other),
         \A s \in Firmware!Parts \ {t} : other[s] = slots[s]
  PROVE  /\ Firmware!Selected(other) = Firmware!Selected(slots)
         /\ Firmware!ActiveSeq(other) = Firmware!ActiveSeq(slots)
<1>1. \A s \in Firmware!Parts : slots[s].seq \in Nat
  BY DEF OtaSlots, Firmware!Entries, Firmware!Blank
<1>2. Firmware!Usable(other) = Firmware!Usable(slots) \ {t}
  BY DEF Firmware!Usable
<1>3. CASE Firmware!Usable(slots) = {}
  BY <1>2, <1>3, ActiveSeqIs DEF Firmware!Selected
<1>4. CASE Firmware!Usable(slots) # {}
  <2>1. PICK a \in Firmware!Active(slots) : TRUE
    BY <1>4, ActiveSeqIs
  <2>2. a \in Firmware!Active(other)
    BY <1>2, <2>1 DEF Firmware!Active, Firmware!Usable
  <2>3. Firmware!ActiveSeq(other) = Firmware!ActiveSeq(slots)
    BY <2>1, <2>2, ActiveSeqIs DEF Firmware!Active, Firmware!Usable
  <2> QED BY <1>4, <2>2, <2>3 DEF Firmware!Selected, Firmware!Active
<1> QED BY <1>3, <1>4

-----------------------------------------------------------------------------
LEMMA InitUpdate == Firmware!Init => UpdateIInv
<1> SUFFICES ASSUME Firmware!Init PROVE UpdateIInv
  OBVIOUS
<1>1. Firmware!TypeOK
  BY DEF Firmware!Init, Firmware!TypeOK, Firmware!Parts
<1>2. Firmware!Usable(otadata) = {} /\ Firmware!Judge(otadata, "bad") = otadata
  BY DEF Firmware!Init, Firmware!Usable, Firmware!Blank, Firmware!Judge, Firmware!Active,
     Firmware!Parts
<1>3. Firmware!Selected(otadata) = 0
  BY <1>2 DEF Firmware!Selected
<1>4. image[0] # Firmware!Nothing
  BY DEF Firmware!Init, Firmware!Parts, Firmware!Whole, Firmware!Nothing
<1>5. ImageInPlace
  BY <1>4 DEF Firmware!Init, ImageInPlace
<1>6. SlotsDiffer
  BY <1>2 DEF SlotsDiffer, Firmware!Init, Firmware!Blank, Firmware!Parts
<1>7. RunningIsSelected
  BY <1>3 DEF Firmware!Init, RunningIsSelected, Firmware!Blank, Firmware!Parts
<1> QED BY <1>1, <1>2, <1>3, <1>4, <1>5, <1>6, <1>7 DEF UpdateIInv, SelectionStarts

-----------------------------------------------------------------------------
(* Rewriting the partition that does not run disturbs no selection. *)
LEMMA CopyKeepsUpdate ==
  ASSUME UpdateIInv, phase \notin {"switched", "off"}, Firmware!TypeOK', ImageInPlace',
         UNCHANGED <<otadata, running>>, image'[running] = image[running],
         phase' \notin {"switched", "off"}
  PROVE  UpdateIInv'
<1>1. Firmware!Selected(otadata) = running
  BY DEF UpdateIInv, RunningIsSelected
<1>2. Firmware!Judge(otadata, "bad") = otadata
  BY DEF UpdateIInv, RunningIsSelected, Firmware!Judge, Firmware!TypeOK
<1>3. image[running] # Firmware!Nothing
  BY DEF UpdateIInv, ImageInPlace
<1>4. SlotsDiffer'
  BY DEF UpdateIInv, SlotsDiffer, Firmware!Usable, Firmware!Active
<1>5. SelectionStarts'
  BY <1>1, <1>2, <1>3 DEF SelectionStarts
<1>6. RunningIsSelected'
  BY <1>1 DEF UpdateIInv, RunningIsSelected, Firmware!Selected, Firmware!Usable,
     Firmware!Active, Firmware!ActiveSeq
<1> QED BY <1>4, <1>5, <1>6 DEF UpdateIInv

(* Losing power disturbs nothing. *)
LEMMA DownKeepsUpdate ==
  ASSUME UpdateIInv, Firmware!GoDown
  PROVE  UpdateIInv'
<1> USE DEF Firmware!GoDown, UpdateIInv
<1>1. Firmware!TypeOK'
  BY DEF Firmware!TypeOK
<1>2. ImageInPlace'
  BY DEF ImageInPlace
<1>3. SlotsDiffer'
  BY DEF SlotsDiffer, Firmware!Usable, Firmware!Active
<1>4. SelectionStarts'
  BY DEF SelectionStarts
<1>5. RunningIsSelected'
  BY DEF RunningIsSelected
<1> QED BY <1>1, <1>2, <1>3, <1>4, <1>5

(* Erasing the target slot: the other one still selects what runs. *)
LEMMA EraseKeepsUpdate ==
  ASSUME UpdateIInv, Firmware!EraseSlot
  PROVE  UpdateIInv'
<1> DEFINE t == Firmware!TargetSlot(otadata)
<1>1. otadata \in OtaSlots /\ Firmware!TypeOK
  BY DEF UpdateIInv, Firmware!TypeOK, OtaSlots
<1>2. t \in Firmware!Parts /\ t \notin Firmware!Active(otadata)
  BY <1>1, TargetIsNotActive DEF UpdateIInv, SlotsDiffer
<1>3. otadata' = [otadata EXCEPT ![t] = Firmware!Blank] /\ otadata' \in OtaSlots
  BY <1>1 DEF Firmware!EraseSlot, OtaSlots
<1>4. otadata'[t] = Firmware!Blank /\ \A s \in Firmware!Parts \ {t} : otadata'[s] = otadata[s]
  BY <1>1, <1>2, <1>3 DEF OtaSlots
<1>5. t \notin Firmware!Usable(otadata')
  BY <1>4 DEF Firmware!Usable, Firmware!Blank
<1>6. Firmware!Selected(otadata') = Firmware!Selected(otadata)
  BY <1>1, <1>2, <1>3, <1>4, <1>5, OtherSlotIsFree
<1>7. \A s \in Firmware!Parts : otadata'[s].state # "new"
  BY <1>4 DEF UpdateIInv, RunningIsSelected, Firmware!EraseSlot, Firmware!Blank
<1>8. Firmware!TypeOK'
  BY <1>1, <1>3 DEF Firmware!EraseSlot, Firmware!TypeOK, OtaSlots
<1>9. ImageInPlace'
  BY DEF UpdateIInv, ImageInPlace, Firmware!EraseSlot, Firmware!NextUpdatePartition
<1>10. SlotsDiffer'
  <2>1. Firmware!Usable(otadata') # Firmware!Parts
    BY <1>2, <1>5
  <2> QED BY <1>7, <2>1 DEF SlotsDiffer
<1>11. Firmware!Selected(otadata') = running' /\ image' = image
  BY <1>6 DEF UpdateIInv, RunningIsSelected, Firmware!EraseSlot
<1>12. Firmware!Judge(otadata', "bad") = otadata'
  BY <1>3, <1>7 DEF Firmware!Judge, OtaSlots
<1>13. SelectionStarts'
  <2>1. image'[Firmware!Selected(otadata')] # Firmware!Nothing
    BY <1>6, <1>11 DEF UpdateIInv, SelectionStarts
  <2> QED BY <1>12, <2>1 DEF SelectionStarts
<1>14. RunningIsSelected'
  BY <1>7, <1>11 DEF RunningIsSelected, Firmware!EraseSlot
<1> QED BY <1>8, <1>9, <1>10, <1>13, <1>14 DEF UpdateIInv

(* Writing the target slot selects the new image; rejecting it selects what
   runs now. *)
LEMMA WriteKeepsUpdate ==
  ASSUME UpdateIInv, Firmware!WriteSlot
  PROVE  UpdateIInv'
<1> DEFINE t == Firmware!TargetSlot(otadata)
           entry == [seq |-> Firmware!NewSeq(otadata, Firmware!NextUpdatePartition), state |-> "new"]
<1>1. otadata \in OtaSlots /\ Firmware!TypeOK
  BY DEF UpdateIInv, Firmware!TypeOK, OtaSlots
<1>2. t \in Firmware!Parts /\ t \notin Firmware!Active(otadata)
  BY <1>1, TargetIsNotActive DEF UpdateIInv, SlotsDiffer
<1>3. Firmware!NextUpdatePartition \in Firmware!Parts
  BY <1>1 DEF Firmware!TypeOK, Firmware!NextUpdatePartition, Firmware!Other, Firmware!Parts
<1>4. /\ entry.seq \in Nat \ {0}
      /\ entry.seq > Firmware!ActiveSeq(otadata)
      /\ Firmware!PartitionOf(entry.seq) = Firmware!NextUpdatePartition
  <2>1. Firmware!ActiveSeq(otadata) \in Nat
    BY <1>1, ActiveSeqIs
  <2> QED BY <1>1, <1>3, <2>1, NewSeqSelects
<1> HIDE DEF t
<1>5. otadata' = [otadata EXCEPT ![t] = entry] /\ otadata' \in OtaSlots
  BY <1>1, <1>4 DEF Firmware!WriteSlot, OtaSlots, Firmware!Entries, t
<1>6. otadata'[t] = entry /\ \A s \in Firmware!Parts \ {t} : otadata'[s] = otadata[s]
  BY <1>1, <1>2, <1>5 DEF OtaSlots
<1>7. /\ t \in Firmware!Usable(otadata')
      /\ \A s \in Firmware!Parts \ {t} :
            s \in Firmware!Usable(otadata') <=> s \in Firmware!Usable(otadata)
  BY <1>2, <1>6 DEF Firmware!Usable
<1>8. \A s \in Firmware!Usable(otadata) : otadata[s].seq \in Nat /\ otadata[s].seq < entry.seq
  BY <1>1, <1>4, ActiveSeqIs DEF OtaSlots, Firmware!Entries, Firmware!Blank, Firmware!Usable
<1>9. Firmware!Active(otadata') = {t}
  BY <1>2, <1>4, <1>6, <1>7, <1>8 DEF Firmware!Active, Firmware!Usable
<1>10. Firmware!Selected(otadata') = Firmware!NextUpdatePartition
  <2>1. Firmware!ActiveSeq(otadata') = entry.seq
    <3>1. t \in Firmware!Active(otadata')
      BY <1>9
    <3>2. Firmware!ActiveSeq(otadata') = otadata'[t].seq
      BY <1>5, <3>1, ActiveSeqIs
    <3> QED BY <1>6, <3>2
  <2> QED BY <1>4, <1>7, <2>1 DEF Firmware!Selected
<1>11. Firmware!Selected(Firmware!Judge(otadata', "bad")) = Firmware!Selected(otadata)
  <2> DEFINE other == Firmware!Judge(otadata', "bad")
  <2>1. other \in OtaSlots
    BY <1>5 DEF Firmware!Judge, OtaSlots, Firmware!Entries, Firmware!Blank
  <2>2. \A s \in Firmware!Parts \ {t} : other[s] = otadata[s]
    BY <1>6, <1>9 DEF Firmware!Judge
  <2>3. t \notin Firmware!Usable(other)
    BY <1>2, <1>6, <1>9 DEF Firmware!Judge, Firmware!Usable
  <2> QED BY <1>1, <1>2, <2>1, <2>2, <2>3, OtherSlotIsFree
<1>12. UNCHANGED <<image, running, source>> /\ phase = "erased" /\ phase' = "switched"
  BY DEF Firmware!WriteSlot
<1>13. Firmware!TypeOK'
  BY <1>1, <1>5, <1>12 DEF Firmware!TypeOK, OtaSlots
<1>14. ImageInPlace'
  BY <1>12 DEF UpdateIInv, ImageInPlace, Firmware!NextUpdatePartition
<1>15. SlotsDiffer'
  <2>1. Firmware!Usable(otadata') = Firmware!Parts => otadata'[0].seq # otadata'[1].seq
    <3> SUFFICES ASSUME Firmware!Usable(otadata') = Firmware!Parts
                 PROVE  otadata'[0].seq # otadata'[1].seq
      OBVIOUS
    <3>1. \A s \in Firmware!Parts \ {t} : otadata'[s].seq \in Nat /\ otadata'[s].seq < entry.seq
      BY <1>6, <1>7, <1>8
    <3> QED BY <1>2, <1>4, <1>6, <3>1 DEF Firmware!Parts
  <2>2. \A s \in Firmware!Parts : otadata'[s].state = "new" => s \in Firmware!Active(otadata')
    BY <1>6, <1>9, <1>12 DEF UpdateIInv, RunningIsSelected
  <2> QED BY <2>1, <2>2 DEF SlotsDiffer
<1>16. SelectionStarts'
  <2>1. image'[Firmware!Selected(otadata')] # Firmware!Nothing
    BY <1>10, <1>12 DEF UpdateIInv, ImageInPlace, Firmware!Whole, Firmware!Nothing
  <2>2. image'[Firmware!Selected(Firmware!Judge(otadata', "bad"))] # Firmware!Nothing
    BY <1>11, <1>12 DEF UpdateIInv, SelectionStarts
  <2> QED BY <2>1, <2>2 DEF SelectionStarts
<1>17. RunningIsSelected'
  BY <1>10, <1>12 DEF RunningIsSelected, Firmware!NextUpdatePartition
<1> QED BY <1>13, <1>14, <1>15, <1>16, <1>17 DEF UpdateIInv

(* The bootloader's verdict leaves no new slot, and what it starts is whole. *)
LEMMA BootKeepsUpdate ==
  ASSUME UpdateIInv, NEW verdict \in {"valid", "bad"}, Firmware!Boot(verdict)
  PROVE  UpdateIInv'
<1>1. otadata \in OtaSlots /\ Firmware!TypeOK
  BY DEF UpdateIInv, Firmware!TypeOK, OtaSlots
<1>2. otadata' = Firmware!Judge(otadata, verdict) /\ otadata' \in OtaSlots
  BY <1>1 DEF Firmware!Boot, Firmware!Judge, OtaSlots, Firmware!Entries, Firmware!Blank
<1>3. \A s \in Firmware!Parts : otadata'[s].state # "new"
  BY <1>2 DEF Firmware!Judge, UpdateIInv, SlotsDiffer
<1>4. \A s \in Firmware!Parts : otadata'[s].seq = otadata[s].seq
  BY <1>1, <1>2 DEF Firmware!Judge, OtaSlots, Firmware!Entries, Firmware!Blank
<1>5. Firmware!Usable(otadata') \subseteq Firmware!Usable(otadata)
  BY <1>2 DEF Firmware!Judge, Firmware!Usable, Firmware!Active
<1>6. image[Firmware!Selected(otadata')] # Firmware!Nothing
  <2>1. CASE verdict = "bad"
    BY <1>2, <2>1 DEF UpdateIInv, SelectionStarts
  <2>2. CASE verdict = "valid"
    <3>1. Firmware!Usable(otadata') = Firmware!Usable(otadata)
      BY <1>1, <1>2, <2>2 DEF Firmware!Judge, Firmware!Usable, Firmware!Active, OtaSlots,
         Firmware!Entries, Firmware!Blank
    <3>2. Firmware!Active(otadata') = Firmware!Active(otadata)
      BY <1>4, <3>1 DEF Firmware!Active, Firmware!Usable
    <3>3. Firmware!Selected(otadata') = Firmware!Selected(otadata)
      <4>1. CASE Firmware!Usable(otadata) = {}
        BY <3>1, <4>1 DEF Firmware!Selected
      <4>2. CASE Firmware!Usable(otadata) # {}
        <5>1. PICK a \in Firmware!Active(otadata) : TRUE
          BY <1>1, <4>2, ActiveSeqIs
        <5>2. Firmware!ActiveSeq(otadata') = Firmware!ActiveSeq(otadata)
          BY <1>1, <1>2, <1>4, <3>2, <5>1, ActiveSeqIs DEF Firmware!Active, Firmware!Usable
        <5> QED BY <3>1, <4>2, <5>2 DEF Firmware!Selected
      <4> QED BY <4>1, <4>2
    <3> QED BY <3>3 DEF UpdateIInv, SelectionStarts
  <2> QED BY <2>1, <2>2
<1>7. UNCHANGED <<image, source>> /\ phase' = "idle" /\ running' = Firmware!Boots(otadata')
  BY DEF Firmware!Boot
<1>8. running' = Firmware!Selected(otadata') /\ running' \in Firmware!Parts
  <2>1. running' = Firmware!Selected(otadata')
    BY <1>6, <1>7 DEF Firmware!Boots
  <2> QED BY <1>2, <2>1, SelectedIsPartition
<1>9. Firmware!TypeOK'
  BY <1>1, <1>2, <1>7, <1>8 DEF Firmware!TypeOK, OtaSlots
<1>10. ImageInPlace'
  BY <1>6, <1>7, <1>8 DEF ImageInPlace
<1>11. SlotsDiffer'
  BY <1>3, <1>4, <1>5 DEF UpdateIInv, SlotsDiffer, Firmware!Usable, Firmware!Parts
<1>12. Firmware!Judge(otadata', "bad") = otadata'
  BY <1>2, <1>3 DEF Firmware!Judge, OtaSlots
<1>13. SelectionStarts'
  BY <1>6, <1>7, <1>12 DEF SelectionStarts
<1>14. RunningIsSelected'
  BY <1>3, <1>7, <1>8 DEF RunningIsSelected
<1> QED BY <1>9, <1>10, <1>11, <1>13, <1>14 DEF UpdateIInv

(* Every step keeps the inductive invariant. *)
LEMMA StepUpdate == UpdateIInv /\ [Firmware!Next]_(Firmware!vars) => UpdateIInv'
<1> SUFFICES ASSUME UpdateIInv, [Firmware!Next]_(Firmware!vars) PROVE UpdateIInv'
  OBVIOUS
<1> USE DEF Firmware!Fail, Firmware!NextUpdatePartition
<1>0. /\ Firmware!TypeOK /\ Firmware!NextUpdatePartition \in Firmware!Parts
      /\ Firmware!NextUpdatePartition # running
  BY DEF UpdateIInv, Firmware!TypeOK, Firmware!Parts, Firmware!Other
<1>1. ASSUME NEW v \in Firmware!Whole, Firmware!StartUpdate(v) PROVE UpdateIInv'
  <2>1. Firmware!TypeOK'
    BY <1>0, <1>1 DEF Firmware!StartUpdate, Firmware!TypeOK
  <2>2. ImageInPlace'
    BY <1>1 DEF Firmware!StartUpdate, ImageInPlace, UpdateIInv
  <2> QED BY <1>1, <2>1, <2>2, CopyKeepsUpdate DEF Firmware!StartUpdate
<1>2. CASE Firmware!ErasePartition
  <2>1. Firmware!TypeOK'
    BY <1>0, <1>2 DEF Firmware!ErasePartition, Firmware!TypeOK
  <2>2. ImageInPlace'
    BY <1>0, <1>2 DEF Firmware!ErasePartition, ImageInPlace, UpdateIInv, Firmware!TypeOK
  <2> QED BY <1>0, <1>2, <2>1, <2>2, CopyKeepsUpdate DEF Firmware!ErasePartition, Firmware!TypeOK
<1>3. CASE Firmware!FinishCopy
  <2>1. Firmware!TypeOK'
    BY <1>0, <1>3 DEF Firmware!FinishCopy, Firmware!TypeOK
  <2>2. ImageInPlace'
    BY <1>0, <1>3 DEF Firmware!FinishCopy, ImageInPlace, UpdateIInv, Firmware!TypeOK
  <2> QED BY <1>0, <1>3, <2>1, <2>2, CopyKeepsUpdate DEF Firmware!FinishCopy, Firmware!TypeOK
<1>4. CASE Firmware!GiveUp
  <2>1. Firmware!TypeOK'
    BY <1>0, <1>4 DEF Firmware!GiveUp, Firmware!TypeOK
  <2>2. ImageInPlace'
    BY <1>4 DEF Firmware!GiveUp, ImageInPlace, UpdateIInv
  <2> QED BY <1>4, <2>1, <2>2, CopyKeepsUpdate DEF Firmware!GiveUp
<1>5. ASSUME NEW v \in Firmware!Whole \cup {Firmware!Nothing}, Firmware!RefuseImage(v)
      PROVE  UpdateIInv'
  <2>1. Firmware!TypeOK'
    BY <1>0, <1>5 DEF Firmware!RefuseImage, Firmware!TypeOK
  <2>2. ImageInPlace'
    BY <1>0, <1>5 DEF Firmware!RefuseImage, ImageInPlace, UpdateIInv, Firmware!TypeOK
  <2> QED BY <1>0, <1>5, <2>1, <2>2, CopyKeepsUpdate DEF Firmware!RefuseImage, Firmware!TypeOK
<1>6. CASE Firmware!EraseSlot
  BY <1>6, EraseKeepsUpdate
<1>7. CASE Firmware!WriteSlot
  BY <1>7, WriteKeepsUpdate
<1>8. CASE Firmware!GoDown
  BY <1>8, DownKeepsUpdate
<1>9. ASSUME NEW verdict \in {"valid", "bad"}, Firmware!Boot(verdict) PROVE UpdateIInv'
  BY <1>9, BootKeepsUpdate
<1>10. CASE UNCHANGED Firmware!vars
  BY <1>10 DEF Firmware!vars, UpdateIInv, Firmware!TypeOK, ImageInPlace, SlotsDiffer,
     SelectionStarts, RunningIsSelected
<1> QED
  BY <1>1, <1>2, <1>3, <1>4, <1>5, <1>6, <1>7, <1>8, <1>9, <1>10 DEF Firmware!Next

(* A step of the whole is a step of the update, or none. *)
LEMMA UpdateSteps ==
  [AllNext]_everything => [Firmware!Next]_(Firmware!vars)
  BY DEF AllNext, QueueNext, ProgressNext, FirmwareNext, everything, ofFirmware,
     Firmware!vars

(* So it holds of the update on its own, and of the three writers together. *)
LEMMA UpdateInductive ==
  /\ Firmware!Spec => []UpdateIInv
  /\ AllSpec => []UpdateIInv
<1>1. AllInit => Firmware!Init
  BY DEF AllInit
<1>2. Firmware!Init => UpdateIInv
  BY InitUpdate
<1>3. UpdateIInv /\ [Firmware!Next]_(Firmware!vars) => UpdateIInv'
  BY StepUpdate
<1> QED
  BY <1>1, <1>2, <1>3, UpdateSteps, PTL DEF AllSpec, Firmware!Spec, everything

(* What boots is whole: the partition the selection names holds the image that
   was started or the one it replaces. *)
LEMMA UpdateIsWhole == UpdateIInv => UpdateIsAllOrNothing
<1> SUFFICES ASSUME UpdateIInv PROVE UpdateIsAllOrNothing
  OBVIOUS
<1>1. Firmware!AlwaysBootable
  BY DEF UpdateIInv, SelectionStarts, Firmware!AlwaysBootable, Firmware!Boots
<1>2. Firmware!Boots(otadata) = Firmware!Selected(otadata)
  BY DEF UpdateIInv, SelectionStarts, Firmware!Boots
<1> QED
  BY <1>1, <1>2
  DEF UpdateIInv, ImageInPlace, RunningIsSelected, UpdateIsAllOrNothing,
      Firmware!UpdateIsAllOrNothing

(* At every instant of any number of updates there is one whole firmware the
   device would start: the old one until the new one is complete and selected,
   and a whole one also when the bootloader rejects the new one. *)
THEOREM OneFirmwareAlways == Firmware!Spec => []UpdateIsAllOrNothing
  BY UpdateIsWhole, UpdateInductive, PTL

(* So it is also beside the queue and the position, whatever they write. *)
THEOREM FirmwareTogether == AllSpec => []UpdateIsAllOrNothing
  BY UpdateIsWhole, UpdateInductive, PTL
=============================================================================
