----------------------- MODULE LegacyMigration_proofs -----------------------
(***************************************************************************)
(* The move of the old connections loses nothing, however many times it is *)
(* cut short: for any number of crashes.                                   *)
(***************************************************************************)
EXTENDS LegacyMigration, TLAPS

USE DEF Files, Ghost, Goto, ReturnFrom, Returned

LEMMA InitIInv == Init => IInv
  BY MaxCrashesAssumption DEF Init, IInv, TypeOK, Contents, Steps, Moving

\* BaseDir, up to the point where there is something to move.
LEMMA LookPreserves ==
  ASSUME IInv,
         \/ Start \/ StatNewDir \/ StatOldDir \/ MakeNewDir
         \/ StatNewFile \/ StatOldFile
  PROVE  IInv'
  BY DEF IInv, TypeOK, Steps, Moving, Start, StatNewDir, StatOldDir,
         MakeNewDir, StatNewFile, StatOldFile

LEMMA RenamePreserves == IInv /\ Rename => IInv'
  BY DEF IInv, TypeOK, Contents, Steps, Moving, Rename

LEMMA CopyPreserves ==
  ASSUME IInv,
         \/ OpenOld \/ MakeNewDirAgain \/ CreateNew \/ CopyPart \/ CopyRest
         \/ SyncNew \/ GiveUp
  PROVE  IInv'
  BY DEF IInv, TypeOK, Contents, Steps, Moving, OpenOld, MakeNewDirAgain,
         CreateNew, CopyPart, CopyRest, SyncNew, GiveUp

LEMMA RemovePreserves == IInv /\ RemoveOld => IInv'
  BY DEF IInv, TypeOK, Contents, Steps, Moving, RemoveOld

LEMMA ServePreserves == IInv /\ (UserSaves \/ Stop) => IInv'
  BY DEF IInv, TypeOK, Contents, Steps, Moving, UserSaves, Stop

LEMMA CrashPreserves == IInv /\ (Kill \/ PowerLoss) => IInv'
  BY MaxCrashesAssumption
  DEF IInv, TypeOK, Contents, Steps, Moving, Kill, PowerLoss, Crash

\* The old connections are whole in one of the two files, at every step.
THEOREM NothingLost == Spec => []LegacySurvives
  <1>1. IInv /\ UNCHANGED vars => IInv'
    BY DEF IInv, TypeOK, vars
  <1>2. IInv /\ [Next]_vars => IInv'
    BY <1>1, LookPreserves, RenamePreserves, CopyPreserves, RemovePreserves,
       ServePreserves, CrashPreserves
    DEF Next
  <1>3. IInv => LegacySurvives
    BY DEF IInv, LegacySurvives
  <1> QED
    BY InitIInv, <1>2, <1>3, PTL DEF Spec
=============================================================================
