----------------------------- MODULE SourceParts -----------------------------
(***************************************************************************)
(* The files of the profile and what comes into it from outside, side by   *)
(* side: Canvas connections, pictures of schedules, the companies asked,   *)
(* restores and deletions, documents in transfer, and the upgrade of an    *)
(* older profile.  Variables and constants of one name in two parts get    *)
(* the part's name.                                                        *)
(***************************************************************************)
EXTENDS Naturals, FiniteSets, DesktopShared

CONSTANTS Connection, Tokened, Process, Worker, MaxConnects, MaxCanvasStops, MaxCanvasFailures

ASSUME CanvasAssumption == None \notin Connection /\ MaxConnects \in Nat

VARIABLES status, canvasCredential, canvasRevoked, refresh, due, listed, contested, connects, canvasStops,
          canvasFailures
canvasVars == <<status, canvasCredential, canvasRevoked, refresh, due, listed, contested, connects,
                canvasStops, canvasFailures>>

Canvas == INSTANCE CanvasConnection WITH
  MaxStops <- MaxCanvasStops, MaxFailures <- MaxCanvasFailures,
  credential <- canvasCredential, revoked <- canvasRevoked, stops <- canvasStops, failures <- canvasFailures

-----------------------------------------------------------------------------
CONSTANT Class

ASSUME ClassAssumption == IsFiniteSet(Class)

VARIABLES pictureStored, kept, local, reading, picturePending, pictureRecords
pictureVars == <<pictureStored, kept, local, reading, picturePending, pictureRecords>>

Picture == INSTANCE ScheduleSource WITH
  stored <- pictureStored, pending <- picturePending, records <- pictureRecords

-----------------------------------------------------------------------------
CONSTANT Provider

ASSUME ProviderAssumption == IsFiniteSet(Provider)

VARIABLES order, keys, healthy, aiShown, consent, aiCalls, testing
aiVars == <<order, keys, healthy, aiShown, consent, aiCalls, testing>>

Ai == INSTANCE AiProviders WITH shown <- aiShown, calls <- aiCalls

-----------------------------------------------------------------------------
CONSTANTS FilesDocument, FilesConnection, AiKey, TornJournal, MaxRestores, MaxFilesStops, MaxFilesFailures

ASSUME FilesAssumption ==
  /\ AiKey \notin FilesConnection
  /\ TornJournal \in BOOLEAN
  /\ MaxRestores \in Nat /\ MaxFilesStops \in Nat /\ MaxFilesFailures \in Nat

VARIABLES db, filesVault, rollbackDb, rollbackVault, stageDb, stageVault, resetDir, journal, hot,
          secrets, archives, filesPc, mode, target, filesExpected, discarded, entered, filesUsed,
          restores, filesStops, filesFailures
filesVars == <<db, filesVault, rollbackDb, rollbackVault, stageDb, stageVault, resetDir, journal,
               hot, secrets, archives, filesPc, mode, target, filesExpected, discarded, entered,
               filesUsed, restores, filesStops, filesFailures>>

Files == INSTANCE ProfileFiles WITH
  Document <- FilesDocument, Connection <- FilesConnection,
  MaxStops <- MaxFilesStops, MaxFailures <- MaxFilesFailures,
  vault <- filesVault, pc <- filesPc, expected <- filesExpected, used <- filesUsed,
  stops <- filesStops, failures <- filesFailures

-----------------------------------------------------------------------------
CONSTANTS Home, Chunks, MaxUploads, MaxDownloads, MaxDeletions

ASSUME TransferAssumption ==
  /\ Home \in Computer
  /\ {Chunks, MaxUploads, MaxDownloads, MaxDeletions} \subseteq Nat
  /\ None \notin [manifest : 1 .. MaxUploads, done : BOOLEAN]

VARIABLES object, storage, documentRows, documentFiles, syncing, writer, uploads, downloads, settling,
          deleted, overlapped, cutShort, given
transferVars == <<object, storage, documentRows, documentFiles, syncing, writer, uploads, downloads,
                  settling, deleted, overlapped, cutShort, given>>

Transfer == INSTANCE DocumentTransfer WITH rows <- documentRows, files <- documentFiles

-----------------------------------------------------------------------------
CONSTANTS Document, Sample, Versions, CurrentVersion, RetentionVersion, SchemaPart, MaxStarts

ASSUME UpgradeAssumption ==
  /\ Versions \subseteq Nat /\ CurrentVersion \in Nat /\ RetentionVersion \in Nat
  /\ 0 < RetentionVersion /\ RetentionVersion <= CurrentVersion
  /\ None \notin {"ask", "keep_encrypted", "delete_now"}

VARIABLES version, at, schemaMade, unique, retention, samples, reviewed, undecided, samplesWanted, upgradeStarts
upgradeVars == <<version, at, schemaMade, unique, retention, samples, reviewed, undecided, samplesWanted,
                 upgradeStarts>>

Upgrade == INSTANCE ProfileUpgrade WITH
  Part <- SchemaPart, made <- schemaMade, wanted <- samplesWanted, starts <- upgradeStarts
=============================================================================
