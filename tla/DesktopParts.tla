---------------------------- MODULE DesktopParts ----------------------------
(***************************************************************************)
(* The parts of the program that keep to themselves, side by side: they    *)
(* share no state, so one of them moves in a behaviour and the others stay *)
(* as they began.                                                          *)
(***************************************************************************)
EXTENDS AccessParts, SourceParts, RecordParts

VARIABLE part  \* the one that moves

Part == {"plan", "remind", "review", "canvas", "picture", "ai", "pin", "key", "account", "files", "devices",
         "records", "reading", "school", "transfer", "upgrade"}

PartsInit ==
  /\ part \in Part
  /\ Plan!Init /\ Remind!Init /\ Review!Init /\ Canvas!Init /\ Picture!Init /\ Ai!Init /\ Pin!Init
  /\ Init /\ Account!Init /\ Files!Init /\ Devices!Init /\ Records!Init /\ Reading!Init /\ School!Init
  /\ Transfer!Init /\ Upgrade!Init

PartsNext ==
  /\ UNCHANGED part
  /\ IF part = "plan" THEN Plan!Next ELSE UNCHANGED planVars
  /\ IF part = "remind" THEN Remind!Next ELSE UNCHANGED remindVars
  /\ IF part = "review" THEN Review!Next ELSE UNCHANGED reviewVars
  /\ IF part = "canvas" THEN Canvas!Next ELSE UNCHANGED canvasVars
  /\ IF part = "picture" THEN Picture!Next ELSE UNCHANGED pictureVars
  /\ IF part = "ai" THEN Ai!Next ELSE UNCHANGED aiVars
  /\ IF part = "pin" THEN Pin!Next ELSE UNCHANGED pinVars
  /\ IF part = "key" THEN Next ELSE UNCHANGED vars
  /\ IF part = "account" THEN Account!Next ELSE UNCHANGED accountVars
  /\ IF part = "files" THEN Files!Next ELSE UNCHANGED filesVars
  /\ IF part = "devices" THEN Devices!Next ELSE UNCHANGED devicesVars
  /\ IF part = "records" THEN Records!Next ELSE UNCHANGED recordsVars
  /\ IF part = "reading" THEN Reading!Next ELSE UNCHANGED readingVars
  /\ IF part = "school" THEN School!Next ELSE UNCHANGED schoolVars
  /\ IF part = "transfer" THEN Transfer!Next ELSE UNCHANGED transferVars
  /\ IF part = "upgrade" THEN Upgrade!Next ELSE UNCHANGED upgradeVars

partsVars == <<part, planVars, remindVars, reviewVars, canvasVars, pictureVars, aiVars, pinVars, vars,
               accountVars, filesVars, devicesVars, recordsVars, readingVars, schoolVars, transferVars,
               upgradeVars>>

PartsSpec == PartsInit /\ [][PartsNext]_partsVars

-----------------------------------------------------------------------------
(* What is checked of the part that moves; of the key, KeyOpensDatabase of DeviceKey *)

\* The type invariant of the part that moves.
TypesOK ==
  CASE part = "plan" -> TRUE
    [] part = "remind" -> Remind!TypeOK
    [] part = "review" -> Review!TypeOK
    [] part = "canvas" -> Canvas!TypeOK
    [] part = "picture" -> Picture!TypeOK
    [] part = "ai" -> Ai!TypeOK
    [] part = "pin" -> Pin!TypeOK
    [] part = "key" -> TypeOK
    [] part = "account" -> Account!TypeOK
    [] part = "files" -> Files!TypeOK
    [] part = "devices" -> Devices!TypeOK
    [] part = "records" -> Records!TypeOK
    [] part = "reading" -> Reading!TypeOK
    [] part = "school" -> School!TypeOK
    [] part = "transfer" -> Transfer!TypeOK
    [] part = "upgrade" -> Upgrade!TypeOK

\* A plan made at any moment can be followed, and every minute it is to place is placed or told.
PlanHolds == part = "plan" => Plan!PlanHolds

\* A reminder that was heard does not come again by itself.
RemindedOnce == part = "remind" => Remind!RemindedOnce

\* However often an item is offered, it has one record, and an open conflict can be settled.
OneRecordPerSource == part = "review" => Review!OneRecordPerSource /\ Review!ConflictsCanBeSettled

\* The hourly thread and the student do not refresh one connection at the same time.
OneRefreshAtATime == part = "canvas" => Canvas!OneRefreshAtATime

\* What is to be reviewed of a picture has its picture; a document that is listed has its file.
DocumentsHold ==
  /\ part = "picture" => Picture!ReviewedAgainstItsSource
  /\ part = "transfer" => Transfer!DocumentHolds

\* An upgrade that is cut off anywhere is completed, and changes nothing the student decided.
UpgradeKeeps == part = "upgrade" => Upgrade!UpgradeKeeps

\* The PIN in force is the one that was set, whatever fails, and wrong ones cost their time.
PinHolds == part = "pin" => Pin!PinIsKept /\ Pin!WrongPinsTakeTime

\* The vault has the session that is in use, and no unwanted callback signs anybody in.
SessionIsKept == part = "account" => Account!SessionIsKept /\ Account!CallbackIsWanted

\* A credential that an open profile could use was entered into that profile.
SecretsWereEntered == part = "files" => Files!SecretsWereEntered

\* A revocation holds: no approval on its way brings the device back, and the log is appended
\* to only for a device that is approved and not revoked.
RevocationHolds == Devices!ApprovalNeverResurrects /\ Devices!AppendedByAuthorized

\* No record refers to one that is gone, and one term is active at most.
ReferencesHold == part = "records" => Records!ReferencesHold /\ Records!OneActiveTerm

\* The dates read off a page are the ones written there, each under its own label.
EntriesAsWritten == part = "reading" => Reading!EntriesAsWritten

\* Approving the same differences twice is approving them once.
ApplyingTwiceIsOnce == part = "school" => School!ApplyingTwiceIsOnce
=============================================================================
