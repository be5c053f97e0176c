-------------------------- MODULE DesktopPartsProofs --------------------------
(***************************************************************************)
(* Proofs about the parts side by side, for any constants.  Every part     *)
(* either takes a step of its own or stays as it is, so the invariant of   *)
(* each, from the module its proof is in, is one of all of them together.  *)
(***************************************************************************)
EXTENDS DesktopParts, AccessSourceProofs, PlanProofs

\* The proofs about the files, of the files of this profile.
FilesP == INSTANCE ProfileFilesProofs WITH
  Document <- FilesDocument, Connection <- FilesConnection,
  MaxStops <- MaxFilesStops, MaxFailures <- MaxFilesFailures,
  vault <- filesVault, pc <- filesPc, expected <- filesExpected, used <- filesUsed,
  stops <- filesStops, failures <- filesFailures

-----------------------------------------------------------------------------
(* The files are those that ProfileFilesProofs speaks of *)

LEMMA FilesBegin == Files!Init <=> FilesP!Init
  BY DEF Files!Init, FilesP!Init

LEMMA FilesMove == Files!Next <=> FilesP!Next
  BY DEF Files!Next, FilesP!Next, Files!Fails, FilesP!Fails, Files!DeleteFails, FilesP!DeleteFails,
         Files!MayFail, FilesP!MayFail, Files!RecordFails, FilesP!RecordFails, Files!Profile, FilesP!Profile,
         Files!The, FilesP!The, Files!history, FilesP!history, Files!files, FilesP!files,
         Files!RecoveryFails, FilesP!RecoveryFails, Files!Opening, FilesP!Opening, Files!Undoing, FilesP!Undoing,
         Files!SwapFails, FilesP!SwapFails, Files!Dropping, FilesP!Dropping, Files!SwapTargets, FilesP!SwapTargets,
         Files!Swapping, FilesP!Swapping, Files!RestoreRefused, FilesP!RestoreRefused, Files!Written, FilesP!Written,
         Files!Command, FilesP!Command, Files!FinishDelete, FilesP!FinishDelete, Files!bounds, FilesP!bounds,
         Files!ResetDatabase, FilesP!ResetDatabase, Files!MakeVault, FilesP!MakeVault,
         Files!DeleteProfile, FilesP!DeleteProfile, Files!Export, FilesP!Export, Files!SaveAiKey, FilesP!SaveAiKey,
         Files!Record, FilesP!Record, Files!Connect, FilesP!Connect, Files!Shred, FilesP!Shred,
         Files!Import, FilesP!Import, Files!Restore, FilesP!Restore, Files!FinishRestore, FilesP!FinishRestore,
         Files!DropJournal, FilesP!DropJournal, Files!DropKeys, FilesP!DropKeys,
         Files!DropSecrets, FilesP!DropSecrets, Files!PlaceVault, FilesP!PlaceVault, Files!PlaceDb, FilesP!PlaceDb,
         Files!MoveVault, FilesP!MoveVault, Files!MoveDb, FilesP!MoveDb, Files!CloseDatabase, FilesP!CloseDatabase,
         Files!WriteJournal, FilesP!WriteJournal, Files!CreateJournal, FilesP!CreateJournal,
         Files!Begun, FilesP!Begun, Files!StageArchive, FilesP!StageArchive, Files!Startup, FilesP!Startup,
         Files!Recovery, FilesP!Recovery, Files!UndoJournal, FilesP!UndoJournal, Files!UndoStage, FilesP!UndoStage,
         Files!ReturnVault, FilesP!ReturnVault, Files!UndoVault, FilesP!UndoVault,
         Files!PutsBackVault, FilesP!PutsBackVault, Files!ReturnDb, FilesP!ReturnDb, Files!UndoDb, FilesP!UndoDb,
         Files!PutsBackDb, FilesP!PutsBackDb, Files!FinishOpening, FilesP!FinishOpening,
         Files!RefuseDamaged, FilesP!RefuseDamaged, Files!Damaged, FilesP!Damaged,
         Files!PlayForeignJournal, FilesP!PlayForeignJournal, Files!OpenDatabase, FilesP!OpenDatabase,
         Files!NewDatabase, FilesP!NewDatabase, Files!Start, FilesP!Start,
         Files!JournalReadable, FilesP!JournalReadable, Files!Stop, FilesP!Stop

LEMMA FilesVars == Files!vars = FilesP!vars
  BY DEF Files!vars, FilesP!vars, Files!bounds, FilesP!bounds, Files!history, FilesP!history,
         Files!files, FilesP!files

LEMMA FilesTyped == Files!TypeOK <=> FilesP!TypeOK
<1>1. \A S : Files!Cardinality(S) = FilesP!Cardinality(S)
  BY DEF Files!Cardinality, FilesP!Cardinality
<1> QED
  BY <1>1 DEF Files!TypeOK, FilesP!TypeOK, Files!Step, FilesP!Step, Files!Commands, FilesP!Commands,
         Files!Opening, FilesP!Opening, Files!Undoing, FilesP!Undoing, Files!Swapping, FilesP!Swapping,
         Files!Written, FilesP!Written, Files!Begun, FilesP!Begun, Files!Secret, FilesP!Secret,
         Files!Damaged, FilesP!Damaged, Files!Content, FilesP!Content

LEMMA FilesSecrets == Files!SecretsWereEntered <=> FilesP!SecretsWereEntered
  BY DEF Files!SecretsWereEntered, FilesP!SecretsWereEntered, Files!Profile, FilesP!Profile, Files!The, FilesP!The

LEMMA FilesAssumed == FilesP!ProfileAssumption
  BY FilesAssumption DEF FilesP!ProfileAssumption

LEMMA FilesInit == Files!Init => FilesP!IInv
  BY FilesBegin, FilesAssumed, FilesP!InitInv

LEMMA FilesNext == FilesP!IInv /\ [Files!Next]_(Files!vars) => FilesP!IInv'
<1>1. [Files!Next]_(Files!vars) => [FilesP!Next]_(FilesP!vars)
  <2>1. CASE Files!Next
    BY <2>1, FilesMove
  <2>2. CASE UNCHANGED Files!vars
    BY <2>2 DEF Files!vars, FilesP!vars, Files!bounds, FilesP!bounds, Files!history, FilesP!history,
         Files!files, FilesP!files
  <2> QED
    BY <2>1, <2>2
<1> QED
  BY <1>1, FilesAssumed, FilesP!NextInv

LEMMA FilesImply == FilesP!IInv => Files!TypeOK /\ Files!SecretsWereEntered
<1>1. FilesP!IInv => FilesP!TypeOK
  BY FilesAssumed, FilesP!IInvTypes
<1>2. FilesP!IInv => FilesP!SecretsWereEntered
  BY FilesAssumed, FilesP!IInvSecrets
<1> QED
  BY <1>1, <1>2, FilesTyped, FilesSecrets

-----------------------------------------------------------------------------
(* A step of the parts is a step of each, or leaves it alone *)

LEMMA PartsBegin ==
  ASSUME PartsInit
  PROVE  /\ part \in Part
         /\ Plan!Init
         /\ Remind!Init
         /\ Review!Init
         /\ Canvas!Init
         /\ Picture!Init
         /\ Ai!Init
         /\ Pin!Init
         /\ Init
         /\ Account!Init
         /\ Files!Init
         /\ Devices!Init
         /\ Records!Init
         /\ Reading!Init
         /\ School!Init
         /\ Transfer!Init
         /\ Upgrade!Init
  BY DEF PartsInit

LEMMA PartsMove ==
  ASSUME [PartsNext]_partsVars
  PROVE  /\ UNCHANGED part
         /\ [Plan!Next]_(Plan!vars)
         /\ [Remind!Next]_(Remind!vars)
         /\ [Review!Next]_(Review!vars)
         /\ [Canvas!Next]_(Canvas!vars)
         /\ [Picture!Next]_(Picture!vars)
         /\ [Ai!Next]_(Ai!vars)
         /\ [Pin!Next]_(Pin!vars)
         /\ [Next]_vars
         /\ [Account!Next]_(Account!vars)
         /\ [Files!Next]_(Files!vars)
         /\ [Devices!Next]_(Devices!vars)
         /\ [Records!Next]_(Records!vars)
         /\ [Reading!Next]_(Reading!vars)
         /\ [School!Next]_(School!vars)
         /\ [Transfer!Next]_(Transfer!vars)
         /\ [Upgrade!Next]_(Upgrade!vars)
<1>1. UNCHANGED remindVars => UNCHANGED Remind!vars
  BY DEF remindVars, Remind!vars
<1>2. UNCHANGED reviewVars => UNCHANGED Review!vars
  BY DEF reviewVars, Review!vars
<1>3. UNCHANGED canvasVars => UNCHANGED Canvas!vars
  BY DEF canvasVars, Canvas!vars
<1>4. UNCHANGED pictureVars => UNCHANGED Picture!vars
  BY DEF pictureVars, Picture!vars
<1>5. UNCHANGED aiVars => UNCHANGED Ai!vars
  BY DEF aiVars, Ai!vars
<1>6. UNCHANGED pinVars => UNCHANGED Pin!vars
  BY DEF pinVars, Pin!vars, Pin!files, Pin!throttle
<1>7. UNCHANGED accountVars => UNCHANGED Account!vars
  BY DEF accountVars, Account!vars
<1>8. UNCHANGED filesVars => UNCHANGED Files!vars
  BY DEF filesVars, Files!vars, Files!files, Files!history, Files!bounds
<1>9. UNCHANGED devicesVars => UNCHANGED Devices!vars
  BY DEF devicesVars, Devices!vars
<1>10. UNCHANGED recordsVars => UNCHANGED Records!vars
  BY DEF recordsVars, Records!vars
<1>11. UNCHANGED readingVars => UNCHANGED Reading!vars
  BY DEF readingVars, Reading!vars
<1>12. UNCHANGED transferVars => UNCHANGED Transfer!vars
  BY DEF transferVars, Transfer!vars, Transfer!disk, Transfer!history
<1>13. UNCHANGED upgradeVars => UNCHANGED Upgrade!vars
  BY DEF upgradeVars, Upgrade!vars
<1>14. UNCHANGED schoolVars => UNCHANGED School!vars
  BY DEF schoolVars, School!vars
<1>0. UNCHANGED planVars => UNCHANGED Plan!vars
  BY DEF planVars, Plan!vars
<1>15. CASE PartsNext
  <2>0. Plan!Next \/ UNCHANGED planVars
    BY <1>15, Zenon DEF PartsNext
  <2>1. Remind!Next \/ UNCHANGED remindVars
    BY <1>15, Zenon DEF PartsNext
  <2>2. Review!Next \/ UNCHANGED reviewVars
    BY <1>15, Zenon DEF PartsNext
  <2>3. Canvas!Next \/ UNCHANGED canvasVars
    BY <1>15, Zenon DEF PartsNext
  <2>4. Picture!Next \/ UNCHANGED pictureVars
    BY <1>15, Zenon DEF PartsNext
  <2>5. Ai!Next \/ UNCHANGED aiVars
    BY <1>15, Zenon DEF PartsNext
  <2>6. Pin!Next \/ UNCHANGED pinVars
    BY <1>15, Zenon DEF PartsNext
  <2>7. Next \/ UNCHANGED vars
    BY <1>15, Zenon DEF PartsNext
  <2>8. Account!Next \/ UNCHANGED accountVars
    BY <1>15, Zenon DEF PartsNext
  <2>9. Files!Next \/ UNCHANGED filesVars
    BY <1>15, Zenon DEF PartsNext
  <2>10. Devices!Next \/ UNCHANGED devicesVars
    BY <1>15, Zenon DEF PartsNext
  <2>11. Records!Next \/ UNCHANGED recordsVars
    BY <1>15, Zenon DEF PartsNext
  <2>12. Reading!Next \/ UNCHANGED readingVars
    BY <1>15, Zenon DEF PartsNext
  <2>13. Transfer!Next \/ UNCHANGED transferVars
    BY <1>15, Zenon DEF PartsNext
  <2>14. Upgrade!Next \/ UNCHANGED upgradeVars
    BY <1>15, Zenon DEF PartsNext
  <2>15. School!Next \/ UNCHANGED schoolVars
    BY <1>15, Zenon DEF PartsNext
  <2>16. UNCHANGED part
    BY <1>15, Zenon DEF PartsNext
  <2> QED
    BY <1>0, <1>1, <1>2, <1>3, <1>4, <1>5, <1>6, <1>7, <1>8, <1>9, <1>10, <1>11, <1>12, <1>13, <1>14,
       <2>0, <2>1, <2>2, <2>3, <2>4, <2>5, <2>6, <2>7, <2>8, <2>9, <2>10, <2>11, <2>12, <2>13, <2>14, <2>15, <2>16
<1>16. CASE UNCHANGED partsVars
  <2>1. /\ UNCHANGED part
        /\ UNCHANGED planVars
        /\ UNCHANGED remindVars
        /\ UNCHANGED reviewVars
        /\ UNCHANGED canvasVars
        /\ UNCHANGED pictureVars
        /\ UNCHANGED aiVars
        /\ UNCHANGED pinVars
        /\ UNCHANGED vars
        /\ UNCHANGED accountVars
        /\ UNCHANGED filesVars
        /\ UNCHANGED devicesVars
        /\ UNCHANGED recordsVars
        /\ UNCHANGED readingVars
        /\ UNCHANGED schoolVars
        /\ UNCHANGED transferVars
        /\ UNCHANGED upgradeVars
    BY <1>16 DEF partsVars
  <2> QED
    BY <2>1, <1>0, <1>1, <1>2, <1>3, <1>4, <1>5, <1>6, <1>7, <1>8, <1>9, <1>10, <1>11, <1>12, <1>13, <1>14
<1> QED
  BY <1>15, <1>16

-----------------------------------------------------------------------------
(* The invariant of all parts *)

PartsInv ==
  /\ part \in Part
  /\ PlanState
  /\ RemindInv
  /\ ReviewInv /\ ReviewBounds
  /\ CanvasInv /\ CanvasBounds
  /\ PictureInv
  /\ Ai!TypeOK
  /\ PinInv /\ PinTypes /\ PinTime
  /\ KeyInv
  /\ SessionInv /\ SessionTypes
  /\ FilesP!IInv
  /\ DevicesInv
  /\ RecordsInv
  /\ ReadingInv
  /\ SchoolInv
  /\ TransferInv
  /\ UpgradeInv /\ Upgrade!TypeOK

LEMMA PartsInitInv == PartsInit => PartsInv
  BY PartsBegin, PlanBegins, RemindInit, ReviewInit, ReviewBoundsInit, CanvasInit, CanvasBoundsInit, PictureInit, AiInit, PinInit,
     PinTimeInit, KeyInit, SessionInit, SessionTypesInit, FilesInit, DevicesInit, RecordsInit, ReadingInit, SchoolInit, TransferInit,
     UpgradeInit, UpgradeTypesInit
     DEF PartsInv

LEMMA PartsNextInv == PartsInv /\ [PartsNext]_partsVars => PartsInv'
<1> SUFFICES ASSUME PartsInv, [PartsNext]_partsVars PROVE PartsInv'
  OBVIOUS
<1>1. ReviewInv'
  BY PartsMove, ReviewAction, ReviewStutter DEF PartsInv
<1>2. RemindInv' /\ ReviewBounds' /\ RecordsInv' /\ ReadingInv' /\ SchoolInv'
  BY PartsMove, RemindNext, ReviewBoundsNext, RecordsNext, ReadingNext, SchoolNext DEF PartsInv
<1>3. CanvasInv' /\ CanvasBounds' /\ PictureInv' /\ Ai!TypeOK' /\ TransferInv' /\ UpgradeInv' /\ Upgrade!TypeOK'
  BY PartsMove, CanvasNext, CanvasBoundsNext, PictureNext, AiNext, TransferNext, UpgradeNext, UpgradeTypesNext
     DEF PartsInv
<1>4. PinInv' /\ PinTypes' /\ PinTime' /\ KeyInv' /\ SessionInv' /\ SessionTypes' /\ DevicesInv'
  BY PartsMove, PinNext, PinTypesNext, PinTimeNext, KeyNext, SessionNext, SessionTypesNext, DevicesNext DEF PartsInv
<1>5. FilesP!IInv'
  BY PartsMove, FilesNext DEF PartsInv
<1>6. (part \in Part)' /\ PlanState'
  BY PartsMove, PlanMoves DEF PartsInv, Part
<1> QED
  BY <1>1, <1>2, <1>3, <1>4, <1>5, <1>6 DEF PartsInv

LEMMA PartsAlways == PartsSpec => []PartsInv
  BY PartsInitInv, PartsNextInv, PTL DEF PartsSpec

-----------------------------------------------------------------------------
(* What each part promises *)

\* The PIN in force is the one that was set, whatever fails, and wrong ones cost their time
\* (pin.rs, main.rs).
THEOREM PinInForce == PartsSpec => []PinHolds
<1>1. PartsInv => PinHolds
  BY DEF PartsInv, PinInv, PinTime, PinHolds
<1> QED
  BY <1>1, PartsAlways, PTL

\* Whatever the start took its key from and whenever it stops, the next one opens the database
\* (device_key.rs).
THEOREM KeyOfDatabase == PartsSpec => []KeyOpensDatabase
<1>1. PartsInv => KeyOpensDatabase
  BY KeyImplies DEF PartsInv, KeyOpensDatabase
<1> QED
  BY <1>1, PartsAlways, PTL

\* The vault has the session that is in use, and no unwanted callback signs anybody in
\* (auth.rs).
THEOREM SessionInUse == PartsSpec => []SessionIsKept
<1>1. PartsInv => SessionIsKept
  BY SessionImplies DEF PartsInv, SessionIsKept
<1> QED
  BY <1>1, PartsAlways, PTL

\* A device that was revoked stays so, and only authorized ones append to the log
\* (sync-repository.ts, main.rs).
THEOREM RevocationsStay == PartsSpec => RevocationHolds
<1>1. PartsInv /\ [PartsNext]_partsVars =>
        /\ [\A d \in Device : devices[d] = "revoked" => devices'[d] = "revoked"]_(Devices!vars)
        /\ [\A i \in 1 .. Len(deviceRows') : i > Len(deviceRows) => Devices!Authorized(deviceRows'[i].author)]_(Devices!vars)
  BY PartsMove, RevocationSteps DEF PartsInv
<1> QED
  BY <1>1, PartsAlways, PTL DEF PartsSpec, RevocationHolds, Devices!ApprovalNeverResurrects, Devices!AppendedByAuthorized

\* The hourly thread and the student do not refresh one connection at the same time (main.rs).
THEOREM RefreshedByOne == PartsSpec => []OneRefreshAtATime
<1>1. PartsInv => OneRefreshAtATime
  BY CanvasImplies DEF PartsInv, OneRefreshAtATime
<1> QED
  BY <1>1, PartsAlways, PTL

\* What is to be reviewed of a picture has its picture, and a document that is listed its file
\* (main.rs, sync_transport.rs).
THEOREM DocumentsThere == PartsSpec => []DocumentsHold
<1>1. PartsInv => DocumentsHold
  BY TransferImplies DEF PartsInv, PictureInv, Picture!ReviewedAgainstItsSource, DocumentsHold
<1> QED
  BY <1>1, PartsAlways, PTL

\* An upgrade that is cut off anywhere is completed, and changes nothing the student decided
\* (main.rs: open_database).
THEOREM UpgradeCompletes == PartsSpec => []UpgradeKeeps
<1>1. PartsInv => UpgradeKeeps
  BY UpgradeImplies DEF PartsInv, UpgradeKeeps
<1> QED
  BY <1>1, PartsAlways, PTL

\* A credential that an open profile could use was entered into that profile (main.rs).
THEOREM SecretsOfProfile == PartsSpec => []SecretsWereEntered
<1>1. PartsInv => SecretsWereEntered
  BY FilesImply DEF PartsInv, SecretsWereEntered
<1> QED
  BY <1>1, PartsAlways, PTL

\* However often an item is offered, it has one record, and an open conflict can be settled
\* (main.rs: approve_candidates).
THEOREM RecordOfItem == PartsSpec => []OneRecordPerSource
<1>1. PartsInv => OneRecordPerSource
  BY ReviewImplies DEF PartsInv, OneRecordPerSource
<1> QED
  BY <1>1, PartsAlways, PTL

\* A reminder that was heard does not come again by itself (main.rs: run_reminder_tick).
THEOREM ReminderHeard == PartsSpec => []RemindedOnce
<1>1. PartsInv => RemindedOnce
  BY RemindImplies DEF PartsInv, RemindedOnce
<1> QED
  BY <1>1, PartsAlways, PTL

\* No record refers to one that is gone, and one term is active at most (profile.rs).
THEOREM RecordReferences == PartsSpec => []ReferencesHold
<1>1. PartsInv => ReferencesHold
  BY RecordsImply DEF PartsInv, ReferencesHold
<1> QED
  BY <1>1, PartsAlways, PTL

\* However long a page is, the dates read off it are the ones written there, each under its own
\* label (school_calendar.rs).
THEOREM DatesRead == PartsSpec => []EntriesAsWritten
<1>1. PartsInv => EntriesAsWritten
  BY ReadingImplies DEF PartsInv, EntriesAsWritten
<1> QED
  BY <1>1, PartsAlways, PTL

\* A plan that is made at any moment can be followed, and every minute it is to place is placed
\* or told of (planner.rs: generate; main.rs: regenerate_plan_for_trigger).
THEOREM PlansHold == PartsSpec => []PlanHolds
<1>1. PartsInv => PlanHolds
  BY PlanHoldsIs DEF PartsInv, PlanHolds
<1> QED
  BY <1>1, PartsAlways, PTL

\* Approving the same differences again, as after an error in making the plan, changes nothing
\* (main.rs: apply_calendar_diff_in).
THEOREM DifferencesOnce == PartsSpec => []ApplyingTwiceIsOnce
<1>1. PartsInv => ApplyingTwiceIsOnce
  BY SchoolOnce DEF PartsInv, ApplyingTwiceIsOnce
<1> QED
  BY <1>1, PartsAlways, PTL

\* The types of every part hold.
THEOREM PartsTyped == PartsSpec => []TypesOK
<1>1. ASSUME PartsInv PROVE TypesOK
  <2>1. Remind!TypeOK
    BY <1>1 DEF PartsInv, RemindInv
  <2>2. Review!TypeOK
    BY <1>1, ReviewTypesImply DEF PartsInv
  <2>3. Canvas!TypeOK
    BY <1>1, CanvasTypesImply DEF PartsInv
  <2>4. Picture!TypeOK
    BY <1>1 DEF PartsInv, PictureInv
  <2>5. Ai!TypeOK
    BY <1>1 DEF PartsInv
  <2>6. Pin!TypeOK
    BY <1>1, PinTypesImply DEF PartsInv
  <2>7. TypeOK
    BY <1>1 DEF PartsInv, KeyInv, KeyTypes
  <2>8. Account!TypeOK
    BY <1>1 DEF PartsInv, SessionTypes
  <2>9. Files!TypeOK
    BY <1>1, FilesImply DEF PartsInv
  <2>10. Devices!TypeOK
    BY <1>1 DEF PartsInv, DevicesInv
  <2>11. Records!TypeOK
    BY <1>1, RecordsImply DEF PartsInv
  <2>12. Reading!TypeOK
    BY <1>1, ReadingImplies DEF PartsInv
  <2>13. Transfer!TypeOK
    BY <1>1, TransferImplies DEF PartsInv
  <2>14. Upgrade!TypeOK
    BY <1>1 DEF PartsInv
  <2>15. School!TypeOK
    BY <1>1, SchoolTyped DEF PartsInv
  <2> QED
    BY <1>1, <2>1, <2>2, <2>3, <2>4, <2>5, <2>6, <2>7, <2>8, <2>9, <2>10, <2>11, <2>12, <2>13, <2>14, <2>15, Zenon DEF PartsInv, Part, TypesOK
<1> QED
  BY <1>1, PartsAlways, PTL
=============================================================================
