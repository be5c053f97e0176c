---------------------------- MODULE ProfileFiles ----------------------------
(***************************************************************************)
(* The files of a local profile and their replacement (main.rs:            *)
(* restore_backup, install_staged_profile, recover_interrupted_restore,    *)
(* delete_local_profile, ingest_document, settle_schedule_source and the   *)
(* start of the program; backup.rs: export_archive, stage_archive).        *)
(*                                                                         *)
(* A profile is a database file and a vault directory of encrypted         *)
(* documents; its credentials are in the operating system's credential     *)
(* vault.  A restore stages a backup beside the profile, notes in a        *)
(* journal that the swap has begun, moves the profile aside, moves the     *)
(* staged one in, opens it, forgets the credentials, removes the journal.  *)
(* The program may stop at every step, and most steps can fail; the next   *)
(* start, or the failing restore itself, undoes what the journal says.     *)
(*                                                                         *)
(* A file or directory is a set: empty when it is not there, otherwise one *)
(* content.  A rename is one step, and what it did survives a stop.  The   *)
(* interface runs one of these commands at a time (StudentCenter.tsx:      *)
(* busy).  Each restore has file names of its own, so leftovers of earlier *)
(* ones are never looked at again and are not kept here.                   *)
(***************************************************************************)
EXTENDS Integers, FiniteSets

CONSTANTS
  Document,      \* documents, each named by the identifier of one import
  Connection,    \* Canvas connections, each named by its identifier
  AiKey,         \* the keys of the AI providers, taken together
  TornJournal,   \* whether the restore journal may be left half written
  MaxRestores,   \* bound: restores begun
  MaxStops,      \* bound: stops of the program
  MaxFailures    \* bound: steps that fail

ASSUME ProfileAssumption ==
  /\ AiKey \notin Connection
  /\ TornJournal \in BOOLEAN
  /\ MaxRestores \in Nat /\ MaxStops \in Nat /\ MaxFailures \in Nat

VARIABLES
  db,             \* student-center.db
  vault,          \* the vault directory: a set of documents
  rollbackDb,     \* the database a restore has moved aside
  rollbackVault,  \* the vault a restore has moved aside
  stageDb,        \* the staged database
  stageVault,     \* the staged vault
  resetDir,       \* the vault a deletion of the profile has moved aside
  journal,        \* restore-journal.json: "begun" (created, not written) or "written"
  hot,            \* student-center.db-journal, left by a stop: the profile it belongs to
  secrets,        \* credentials in the operating system's vault
  archives,       \* exported backups
  pc,             \* what the program does next; "off" when it does not run
  mode,           \* why a database is opened: "start", "install" or "undo"
  target,         \* history: the content the command under way will leave
  expected,       \* history: the contents the student may find
  discarded,      \* history: documents the student had deleted, per profile
  entered,        \* history: credentials the student entered, per profile
  used,           \* history: identifiers given out
  restores,       \* number of restores begun
  stops,          \* number of stops
  failures        \* number of failed steps

files == <<db, vault, rollbackDb, rollbackVault, stageDb, stageVault, resetDir, journal, hot>>
history == <<expected, discarded, entered, used>>
bounds == <<restores, stops, failures>>
vars == <<files, secrets, archives, pc, mode, target, history, bounds>>

-----------------------------------------------------------------------------
\* A database: docs are the rows of documents that name a file of the vault,
\* conns the rows of integration_connections.
Content == [gen : 0 .. MaxRestores, docs : SUBSET Document, conns : SUBSET Connection]

\* What opening an absent file makes, and a database that cannot be read.
NewDatabase == [gen |-> -1, docs |-> {}, conns |-> {}]
Damaged == [gen |-> -2, docs |-> {}, conns |-> {}]

Secret == Connection \cup {AiKey}

\* The one content of a file that is there.
The(file) == CHOOSE content \in file : TRUE

Begun == {"begun"}
Written == {"written"}

Swapping == {"moveDb", "moveVault", "placeDb", "placeVault",
             "dropSecrets", "dropKeys", "dropJournal", "installed"}
Undoing == {"undoDb", "returnDb", "undoVault", "returnVault", "undoStage", "undoJournal"}
Opening == {"opening", "committing"}
Commands == {"inserting", "shredding", "connecting", "resetVault", "resetDb", "resetRest"}
Step == {"off", "idle", "broken", "noteBegun", "noteWritten", "closing"}
          \cup Swapping \cup Undoing \cup Opening \cup Commands

Init ==
  /\ db = {[gen |-> 0, docs |-> {}, conns |-> {}]} /\ vault = {{}}
  /\ rollbackDb = {} /\ rollbackVault = {}
  /\ stageDb = {} /\ stageVault = {} /\ resetDir = {}
  /\ journal = {} /\ hot = {}
  /\ secrets = {} /\ archives = {}
  /\ pc = "off" /\ mode = "start" /\ target = {}
  /\ expected = db /\ discarded = {} /\ entered = {} /\ used = {}
  /\ restores = 0 /\ stops = 0 /\ failures = 0

-----------------------------------------------------------------------------
(* The start of the program.                                               *)

\* Mutant of JournalReadable: any journal ends the start with an error.
NoJournal == journal = {}

\* A journal that was not written ends the start with an error.
JournalReadable == journal # Begun

\* A journal that is there is dealt with before anything else.
Start ==
  /\ pc = "off" /\ JournalReadable
  /\ pc' = IF journal = Written THEN "undoDb" ELSE "opening"
  /\ mode' = "start"
  /\ UNCHANGED <<files, secrets, archives, target, history, bounds>>

\* Mutant of PutsBackDb: a database that is in place is kept.
PutsBackMissingDb == rollbackDb # {} /\ db = {}

PutsBackDb == rollbackDb # {}

\* Mutant of PutsBackVault: nobody asks whether a vault was moved aside.
PutsBackAnyVault == TRUE

PutsBackVault == rollbackVault # {}

\* recover_interrupted_restore, at the start and when a restore fails: what
\* was moved aside takes the place of whatever stands there now.
UndoDb ==
  /\ pc = "undoDb"
  /\ \/ PutsBackDb /\ db' = {} /\ pc' = "returnDb"
     \/ ~ PutsBackDb /\ pc' = "undoVault" /\ UNCHANGED db
  /\ UNCHANGED <<vault, rollbackDb, rollbackVault, stageDb, stageVault, resetDir, journal, hot,
                 secrets, archives, mode, target, history, bounds>>

ReturnDb ==
  /\ pc = "returnDb"
  /\ db' = rollbackDb /\ rollbackDb' = {}
  /\ pc' = "undoVault"
  /\ UNCHANGED <<vault, rollbackVault, stageDb, stageVault, resetDir, journal, hot,
                 secrets, archives, mode, target, history, bounds>>

UndoVault ==
  /\ pc = "undoVault"
  /\ \/ PutsBackVault /\ vault' = {} /\ pc' = "returnVault"
     \/ ~ PutsBackVault /\ pc' = "undoStage" /\ UNCHANGED vault
  /\ UNCHANGED <<db, rollbackDb, rollbackVault, stageDb, stageVault, resetDir, journal, hot,
                 secrets, archives, mode, target, history, bounds>>

ReturnVault ==
  /\ pc = "returnVault"
  /\ vault' = rollbackVault /\ rollbackVault' = {}
  /\ pc' = "undoStage"
  /\ UNCHANGED <<db, rollbackDb, stageDb, stageVault, resetDir, journal, hot,
                 secrets, archives, mode, target, history, bounds>>

UndoStage ==
  /\ pc = "undoStage"
  /\ stageDb' = {} /\ stageVault' = {}
  /\ pc' = "undoJournal"
  /\ UNCHANGED <<db, vault, rollbackDb, rollbackVault, resetDir, journal, hot,
                 secrets, archives, mode, target, history, bounds>>

UndoJournal ==
  /\ pc = "undoJournal"
  /\ journal' = {}
  /\ pc' = "opening"
  /\ UNCHANGED <<db, vault, rollbackDb, rollbackVault, stageDb, stageVault, resetDir, hot,
                 secrets, archives, mode, target, history, bounds>>

\* open_database.  A journal of the database itself is rolled back; a missing
\* file is made anew.  The start also makes a missing vault directory.
OpenDatabase ==
  /\ pc = "opening" /\ db # {Damaged}
  /\ db = {} \/ hot \subseteq {content.gen : content \in db}
  /\ db' = IF db = {} THEN {NewDatabase} ELSE db
  /\ hot' = {}
  /\ vault' = IF mode = "start" /\ vault = {} THEN {{}} ELSE vault
  /\ pc' = "committing"
  /\ UNCHANGED <<rollbackDb, rollbackVault, stageDb, stageVault, resetDir, journal,
                 secrets, archives, mode, target, history, bounds>>

\* SQLite plays back whatever student-center.db-journal it finds: pages of one
\* database overwrite another's.
PlayForeignJournal ==
  /\ pc = "opening" /\ db # {}
  /\ ~ hot \subseteq {content.gen : content \in db}
  /\ db' = {Damaged} /\ hot' = {}
  /\ UNCHANGED <<vault, rollbackDb, rollbackVault, stageDb, stageVault, resetDir, journal,
                 secrets, archives, pc, mode, target, history, bounds>>

RefuseDamaged ==
  /\ pc = "opening" /\ db = {Damaged}
  /\ pc' = "off"
  /\ UNCHANGED <<files, secrets, archives, mode, target, history, bounds>>

\* The migrations and the schema version are committed.  At a start the student
\* sees which profile is there; a restore that was undone ends with its error.
FinishOpening ==
  /\ pc = "committing"
  /\ pc' = IF mode = "install" THEN "dropSecrets" ELSE "idle"
  /\ expected' = IF mode = "start" /\ db \subseteq expected THEN db ELSE expected
  /\ UNCHANGED <<files, secrets, archives, mode, target, discarded, entered, used, bounds>>

-----------------------------------------------------------------------------
(* A restore: restore_backup and install_staged_profile.                   *)

\* The backup is verified, re-keyed and laid out in a directory of its own.  A
\* failure there changes nothing else; a journal that is still there refuses
\* the restore.
StageArchive ==
  /\ pc = "idle" /\ restores < MaxRestores
  /\ journal = {}
  /\ \E archive \in archives :
       /\ stageDb' = {[gen |-> restores + 1, docs |-> archive.docs, conns |-> archive.conns]}
       /\ stageVault' = {archive.docs}
  /\ rollbackDb' = {} /\ rollbackVault' = {}
  /\ restores' = restores + 1
  /\ pc' = "noteBegun"
  /\ UNCHANGED <<db, vault, resetDir, journal, hot, secrets, archives, mode, target, history,
                 stops, failures>>

CreateJournal ==
  /\ pc = "noteBegun"
  /\ journal' = Begun
  /\ pc' = "noteWritten"
  /\ UNCHANGED <<db, vault, rollbackDb, rollbackVault, stageDb, stageVault, resetDir, hot,
                 secrets, archives, mode, target, history, bounds>>

WriteJournal ==
  /\ pc = "noteWritten"
  /\ journal' = Written
  /\ pc' = "closing"
  /\ UNCHANGED <<db, vault, rollbackDb, rollbackVault, stageDb, stageVault, resetDir, hot,
                 secrets, archives, mode, target, history, bounds>>

CloseDatabase ==
  /\ pc = "closing"
  /\ mode' = "install"
  /\ pc' = "moveDb"
  /\ UNCHANGED <<files, secrets, archives, target, history, bounds>>

MoveDb ==
  /\ pc = "moveDb"
  /\ rollbackDb' = db /\ db' = {}
  /\ pc' = "moveVault"
  /\ UNCHANGED <<vault, rollbackVault, stageDb, stageVault, resetDir, journal, hot,
                 secrets, archives, mode, target, history, bounds>>

MoveVault ==
  /\ pc = "moveVault" /\ vault # {}
  /\ rollbackVault' = vault /\ vault' = {}
  /\ pc' = "placeDb"
  /\ UNCHANGED <<db, rollbackDb, stageDb, stageVault, resetDir, journal, hot,
                 secrets, archives, mode, target, history, bounds>>

PlaceDb ==
  /\ pc = "placeDb"
  /\ db' = stageDb /\ stageDb' = {}
  /\ pc' = "placeVault"
  /\ UNCHANGED <<vault, rollbackDb, rollbackVault, stageVault, resetDir, journal, hot,
                 secrets, archives, mode, target, history, bounds>>

PlaceVault ==
  /\ pc = "placeVault"
  /\ vault' = stageVault /\ stageVault' = {}
  /\ pc' = "opening"
  /\ UNCHANGED <<db, rollbackDb, rollbackVault, stageDb, resetDir, journal, hot,
                 secrets, archives, mode, target, history, bounds>>

\* Mutant of SwapTargets: only the connections of the previous profile.
PreviousTargets == UNION {content.conns : content \in rollbackDb}

\* The credentials of both profiles' connections.
SwapTargets == UNION {content.conns : content \in db \cup rollbackDb}

DropSecrets ==
  /\ pc = "dropSecrets"
  /\ secrets' = secrets \ SwapTargets
  /\ pc' = "dropKeys"
  /\ UNCHANGED <<files, archives, mode, target, history, bounds>>

DropKeys ==
  /\ pc = "dropKeys"
  /\ secrets' = secrets \ {AiKey}
  /\ pc' = "dropJournal"
  /\ UNCHANGED <<files, archives, mode, target, history, bounds>>

DropJournal ==
  /\ pc = "dropJournal"
  /\ journal' = {}
  /\ target' = db
  /\ pc' = "installed"
  /\ UNCHANGED <<db, vault, rollbackDb, rollbackVault, stageDb, stageVault, resetDir, hot,
                 secrets, archives, mode, history, bounds>>

FinishRestore ==
  /\ pc = "installed"
  /\ rollbackDb' = {} /\ rollbackVault' = {}
  /\ expected' = target /\ target' = {}
  /\ pc' = "idle"
  /\ UNCHANGED <<db, vault, stageDb, stageVault, resetDir, journal, hot, secrets, archives,
                 mode, discarded, entered, used, bounds>>

-----------------------------------------------------------------------------
(* The other commands on the profile's files.                              *)

Profile == The(db)

\* ingest_document: the encrypted file first, then its row.
Import(d) ==
  /\ pc = "idle" /\ vault # {}
  /\ d \notin used
  /\ vault' = {The(vault) \cup {d}}
  /\ target' = {[Profile EXCEPT !.docs = @ \cup {d}]}
  /\ used' = used \cup {d}
  /\ pc' = "inserting"
  /\ UNCHANGED <<db, rollbackDb, rollbackVault, stageDb, stageVault, resetDir, journal, hot,
                 secrets, archives, mode, expected, discarded, entered, bounds>>

\* settle_schedule_source: the file first, which may be gone already.
Shred(d) ==
  /\ pc = "idle" /\ d \in Profile.docs
  /\ vault' = {contents \ {d} : contents \in vault}
  /\ target' = {[Profile EXCEPT !.docs = @ \ {d}]}
  /\ discarded' = discarded \cup {<<Profile.gen, d>>}
  /\ pc' = "shredding"
  /\ UNCHANGED <<db, rollbackDb, rollbackVault, stageDb, stageVault, resetDir, journal, hot,
                 secrets, archives, mode, expected, entered, used, bounds>>

\* connect_canvas_calendar: the credential first, then the connection's row.
Connect(c) ==
  /\ pc = "idle"
  /\ c \notin used
  /\ secrets' = secrets \cup {c}
  /\ entered' = entered \cup {<<Profile.gen, c>>}
  /\ target' = {[Profile EXCEPT !.conns = @ \cup {c}]}
  /\ used' = used \cup {c}
  /\ pc' = "connecting"
  /\ UNCHANGED <<files, archives, mode, expected, discarded, bounds>>

\* The row of the command under way, and its answer.
Record ==
  /\ pc \in {"inserting", "shredding", "connecting"}
  /\ db' = target /\ expected' = target /\ target' = {}
  /\ pc' = "idle"
  /\ UNCHANGED <<vault, rollbackDb, rollbackVault, stageDb, stageVault, resetDir, journal, hot,
                 secrets, archives, mode, discarded, entered, used, bounds>>

SaveAiKey ==
  /\ pc = "idle"
  /\ secrets' = secrets \cup {AiKey}
  /\ entered' = entered \cup {<<Profile.gen, AiKey>>}
  /\ UNCHANGED <<files, archives, pc, mode, target, expected, discarded, used, bounds>>

\* export_archive is refused when the file of a row is missing.
Export ==
  /\ pc = "idle" /\ vault # {}
  /\ Profile.docs \subseteq The(vault)
  /\ archives' = archives \cup {[docs |-> Profile.docs, conns |-> Profile.conns]}
  /\ UNCHANGED <<files, secrets, pc, mode, target, history, bounds>>

\* delete_local_profile: the vault is moved aside and made anew, the database
\* emptied, credentials removed as far as that succeeds, the old vault removed.
DeleteProfile ==
  /\ pc = "idle"
  /\ resetDir' = vault /\ vault' = {}
  /\ target' = {[gen |-> Profile.gen, docs |-> {}, conns |-> {}]}
  /\ discarded' = discarded \cup {<<Profile.gen, d>> : d \in Profile.docs}
  /\ pc' = "resetVault"
  /\ UNCHANGED <<db, rollbackDb, rollbackVault, stageDb, stageVault, journal, hot,
                 secrets, archives, mode, expected, entered, used, bounds>>

MakeVault ==
  /\ pc = "resetVault"
  /\ vault' = {{}}
  /\ pc' = "resetDb"
  /\ UNCHANGED <<db, rollbackDb, rollbackVault, stageDb, stageVault, resetDir, journal, hot,
                 secrets, archives, mode, target, history, bounds>>

ResetDatabase ==
  /\ pc = "resetDb"
  /\ db' = target
  /\ \E removed \in SUBSET (Profile.conns \cup {AiKey}) : secrets' = secrets \ removed
  /\ pc' = "resetRest"
  /\ UNCHANGED <<vault, rollbackDb, rollbackVault, stageDb, stageVault, resetDir, journal, hot,
                 archives, mode, target, history, bounds>>

FinishDelete ==
  /\ pc = "resetRest"
  /\ resetDir' = {}
  /\ expected' = target /\ target' = {}
  /\ pc' = "idle"
  /\ UNCHANGED <<db, vault, rollbackDb, rollbackVault, stageDb, stageVault, journal, hot,
                 secrets, archives, mode, discarded, entered, used, bounds>>

-----------------------------------------------------------------------------
(* Steps that fail, and stops.                                             *)

MayFail == failures < MaxFailures /\ failures' = failures + 1

\* A restore fails before the swap.  Only when the database could not be closed
\* does it take its journal back, as far as that succeeds.
RestoreRefused ==
  /\ MayFail
  /\ \/ pc = "noteBegun" /\ UNCHANGED journal
     \/ pc = "noteWritten" /\ journal' = Written
     \/ pc = "noteWritten" /\ TornJournal /\ UNCHANGED journal
     \/ pc = "closing" /\ UNCHANGED journal
     \/ pc = "closing" /\ journal' = {}
  /\ pc' = "idle"
  /\ UNCHANGED <<db, vault, rollbackDb, rollbackVault, stageDb, stageVault, resetDir, hot,
                 secrets, archives, mode, target, history, restores, stops>>

\* The credentials the step of a swap removes one after the other.
Dropping ==
  CASE pc = "dropSecrets" -> SwapTargets
    [] pc = "dropKeys" -> {AiKey}
    [] OTHER -> {}

\* A step of the swap fails: the restore undoes what its journal says.  Some
\* credentials may be gone by then.
SwapFails ==
  /\ mode = "install" /\ pc \in (Swapping \cup Opening) \ {"installed"}
  /\ \/ MayFail
     \/ pc = "moveVault" /\ vault = {} /\ UNCHANGED failures
  /\ \E removed \in SUBSET Dropping : secrets' = secrets \ removed
  /\ mode' = "undo" /\ pc' = "undoDb"
  /\ UNCHANGED <<files, archives, target, history, restores, stops>>

\* A step of the recovery or of the opening that follows fails.  The start
\* ends; a failing restore leaves an empty database in memory behind, on which
\* every command fails until the program is stopped.
RecoveryFails ==
  /\ mode # "install" /\ pc \in Undoing \cup Opening
  /\ MayFail
  /\ \/ UNCHANGED vault
     \/ pc = "undoVault" /\ rollbackVault # {} /\ vault # {} /\ vault' = {{}}
  /\ pc' = IF mode = "start" THEN "off" ELSE "broken"
  /\ UNCHANGED <<db, rollbackDb, rollbackVault, stageDb, stageVault, resetDir, journal, hot,
                 secrets, archives, mode, target, history, restores, stops>>

\* The row of a command is not written.  A connection takes its credential
\* back, as far as that succeeds.
RecordFails ==
  /\ pc \in {"inserting", "shredding", "connecting"}
  /\ MayFail
  /\ \E removed \in SUBSET (UNION {content.conns : content \in target} \ Profile.conns) :
       secrets' = secrets \ removed
  /\ target' = {}
  /\ pc' = "idle"
  /\ UNCHANGED <<files, archives, mode, history, restores, stops>>

\* The deletion fails: without the new vault it ends at once; when the reset
\* fails, before or after its commit, the old vault is moved back; the removal
\* of the old vault comes too late for that.
DeleteFails ==
  /\ MayFail
  /\ \/ pc = "resetVault" /\ UNCHANGED <<db, vault, resetDir>>
     \/ pc = "resetDb" /\ db' \in {db, target} /\ vault' = resetDir /\ resetDir' = {}
     \/ pc = "resetRest" /\ UNCHANGED <<db, vault, resetDir>>
  /\ expected' = expected \cup db'
  /\ target' = {}
  /\ pc' = "idle"
  /\ UNCHANGED <<rollbackDb, rollbackVault, stageDb, stageVault, journal, hot,
                 secrets, archives, mode, discarded, entered, used, restores, stops>>

\* The program stops: by the student, the system or a crash.
Stop ==
  /\ pc # "off" /\ stops < MaxStops
  /\ pc = "noteWritten" => TornJournal
  /\ stops' = stops + 1
  /\ hot' = IF pc = "committing" THEN {content.gen : content \in db} ELSE hot
  /\ expected' = expected \cup target /\ target' = {}
  /\ pc' = "off" /\ mode' = "start"
  /\ UNCHANGED <<db, vault, rollbackDb, rollbackVault, stageDb, stageVault, resetDir, journal,
                 secrets, archives, discarded, entered, used, restores, failures>>

-----------------------------------------------------------------------------
Recovery == UndoDb \/ ReturnDb \/ UndoVault \/ ReturnVault \/ UndoStage \/ UndoJournal

Startup == Start \/ Recovery \/ OpenDatabase \/ PlayForeignJournal \/ RefuseDamaged
             \/ FinishOpening

Restore == StageArchive \/ CreateJournal \/ WriteJournal \/ CloseDatabase
             \/ MoveDb \/ MoveVault \/ PlaceDb \/ PlaceVault
             \/ DropSecrets \/ DropKeys \/ DropJournal \/ FinishRestore

Command ==
  \/ \E d \in Document : Import(d) \/ Shred(d)
  \/ \E c \in Connection : Connect(c)
  \/ Record \/ SaveAiKey \/ Export
  \/ DeleteProfile \/ MakeVault \/ ResetDatabase \/ FinishDelete

Fails == RestoreRefused \/ SwapFails \/ RecoveryFails \/ RecordFails \/ DeleteFails

Next == Startup \/ Restore \/ Command \/ Fails \/ Stop

Spec == Init /\ [][Next]_vars

\* The student starts the program again, and a start goes on by itself.
FairSpec == Spec /\ WF_vars(Startup)

-----------------------------------------------------------------------------
(* Properties.                                                             *)

\* Every file is absent or has one content, and no start ever finds the
\* database missing and makes a new one (open_database).
TypeOK ==
  /\ \A file \in {db, rollbackDb, stageDb, target} :
       file \subseteq Content \cup {Damaged} /\ Cardinality(file) <= 1
  /\ \A directory \in {vault, rollbackVault, stageVault, resetDir} :
       directory \subseteq SUBSET Document /\ Cardinality(directory) <= 1
  /\ journal \in {{}, Begun, Written}
  /\ hot \subseteq 0 .. MaxRestores
  /\ secrets \subseteq Secret
  /\ archives \subseteq [docs : SUBSET Document, conns : SUBSET Connection]
  /\ pc \in Step /\ mode \in {"start", "install", "undo"}
  /\ expected \subseteq Content
  /\ discarded \subseteq (0 .. MaxRestores) \X Document
  /\ entered \subseteq (0 .. MaxRestores) \X Secret
  /\ used \subseteq Document \cup Connection
  /\ restores \in 0 .. MaxRestores /\ stops \in 0 .. MaxStops
  /\ failures \in 0 .. MaxFailures

\* The profile the student works on is the one the program last told of: a
\* restore that reported success is never undone, one that failed or was
\* stopped before its end has changed nothing, and no answered command is lost
\* (install_staged_profile and recover_interrupted_restore).
ProfileAsTold == pc = "idle" => db \subseteq expected

\* A row that names a file of the vault finds it there, unless the student had
\* that document, or the whole profile, deleted (the database and the vault are
\* moved by separate renames).
DocumentsReadable ==
  pc = "idle" => \A d \in Profile.docs : d \in UNION vault \/ <<Profile.gen, d>> \in discarded

\* A credential that an open profile could use was entered into that profile,
\* although connection identifiers return with a backup (main.rs, the comment
\* before previous_credentials: an old keychain item never makes a restored
\* connection usable).
SecretsWereEntered ==
  pc = "idle" => \A s \in secrets \cap (Profile.conns \cup {AiKey}) :
                   <<Profile.gen, s>> \in entered

\* What a start would find, whatever the moment: the profile a written journal
\* moved aside, otherwise the one that is in place.
AsFound(aside, inPlace) == IF journal = Written /\ aside # {} THEN aside ELSE inPlace

Store == INSTANCE ProfileStore
           WITH database  <- The(AsFound(rollbackDb, db)),
                documents <- UNION AsFound(rollbackVault, vault)

\* The files change hands in single renames, yet the profile is replaced in one step, the
\* removal of the journal; that is all that ever happens to it but for one thing: after a stop
\* in a commit, SQLite may play the journal it left into another database.
ReplacesInOneStep == Store!Init /\ [][Store!Change \/ Store!Replace \/ db' = {Damaged}]_Store!profile

\* A program that is off runs again when it is started, even if it is stopped
\* or a step fails a few more times, unless its database was damaged in that way.
EventuallyRuns == pc = "off" ~> (pc = "idle" \/ db = {Damaged})
=============================================================================
