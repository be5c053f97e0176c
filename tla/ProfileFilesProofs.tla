------------------------- MODULE ProfileFilesProofs -------------------------
(***************************************************************************)
(* Proofs about ProfileFiles, for every number of documents, connections,  *)
(* restores, stops and failures.                                           *)
(*                                                                         *)
(* The invariant speaks of what a start would find at that moment: the     *)
(* profile that a written journal moved aside, otherwise the one in place. *)
(* It is complete, its documents can be read, its credentials are its own, *)
(* and it is the one the student was told of; or pages of another database *)
(* were played into it (Contents).  The rest (Shape) says where the files  *)
(* stand at each step of a restore, of a command and of a recovery.        *)
(***************************************************************************)
EXTENDS ProfileFiles, FiniteSetTheorems, TLAPS

\* What a start would find, and the vault it would find with it.
Found == AsFound(rollbackDb, db)
FoundVault == AsFound(rollbackVault, vault)

\* A file, or a directory of documents, is absent or has one content.
DbFile == {{}} \cup {{x} : x \in Content \cup {Damaged}}
Directory == {{}} \cup {{x} : x \in SUBSET Document}

Types ==
  /\ db \in DbFile /\ rollbackDb \in DbFile /\ stageDb \in DbFile /\ target \in DbFile
  /\ vault \in Directory /\ rollbackVault \in Directory
  /\ stageVault \in Directory /\ resetDir \in Directory
  /\ journal \in {{}, Begun, Written}
  /\ hot \subseteq 0 .. MaxRestores
  /\ secrets \subseteq Secret
  /\ archives \subseteq [docs : SUBSET Document, conns : SUBSET Connection]
  /\ pc \in Step /\ mode \in {"start", "install", "undo"}
  /\ expected \subseteq Content
  /\ discarded \subseteq (0 .. MaxRestores) \X Document
  /\ entered \subseteq (0 .. MaxRestores) \X Secret
  /\ used \subseteq Document \cup Connection
  /\ restores \in 0 .. MaxRestores /\ stops \in 0 .. MaxStops
  /\ failures \in 0 .. MaxFailures

\* A database whose documents the student can read, and whose credentials were entered into it.
Readable(x, inVault) == \A d \in x.docs : d \in UNION inVault \/ <<x.gen, d>> \in discarded
OwnSecrets(x) == \A s \in secrets \cap (x.conns \cup {AiKey}) : <<x.gen, s>> \in entered
Good(x) == x.gen <= restores /\ Readable(x, FoundVault) /\ OwnSecrets(x)

\* Pages of another database were played into it.
Lost == db = {Damaged} /\ journal = {} /\ pc \in {"off", "opening"} /\ mode = "start" /\ hot = {}

FoundIsGood == Lost \/ \E x \in Content : Found = {x} /\ Good(x)

FoundIsExpected ==
  Lost \/ IF pc \in {"resetRest", "installed"} THEN Found = target ELSE Found \subseteq expected

\* Outside a restore nothing is aside that a start would put back.
InPlace ==
  pc \in {"idle"} \cup Commands /\ journal # {} => rollbackDb = {} /\ rollbackVault = {}

\* The row that a command is to write, and the deletion of a profile.
CommandFollows ==
  /\ pc \notin Commands \cup {"installed"} => target = {}
  /\ pc \in {"inserting", "shredding", "connecting"} =>
       \E x, t \in Content : db = {x} /\ target = {t} /\ t.gen = x.gen /\ Good(t)
  /\ pc \in {"resetVault", "resetDb"} =>
       \E x \in Content : /\ db = {x} /\ target = {[gen |-> x.gen, docs |-> {}, conns |-> {}]}
                          /\ \A d \in x.docs : <<x.gen, d>> \in discarded

UnderWay == Swapping \ {"installed"}

\* What a restore has staged, and where it stands.
Staged(s) == s.gen = restores /\ stageVault = {s.docs}

SwapFollows ==
  /\ pc = "noteBegun" => journal = {}
  /\ pc = "noteWritten" => journal = Begun
  /\ pc \in {"closing"} \cup UnderWay => journal = Written
  /\ pc = "installed" => journal = {}
  /\ pc \in Swapping => mode = "install"
  /\ pc \in {"noteBegun", "noteWritten", "closing", "moveDb"} => rollbackDb = {} /\ rollbackVault = {}
  /\ pc \in {"noteBegun", "noteWritten", "closing", "moveDb", "moveVault", "placeDb"} =>
       \E s \in Content : stageDb = {s} /\ Staged(s)
  /\ pc \in {"moveVault", "placeDb"} => db = {} /\ rollbackDb # {}
  /\ pc = "moveVault" => rollbackVault = {}
  /\ pc \in {"placeDb", "placeVault"} => vault = {} /\ rollbackVault # {}
  /\ pc = "placeVault" => rollbackDb # {} /\ \E s \in Content : db = {s} /\ Staged(s)

\* The staged profile is in place, and none of its credentials is left.
Installing == pc \in {"dropSecrets", "dropKeys", "dropJournal"} \/ (pc \in Opening /\ mode = "install")

InstallFollows ==
  /\ Installing => /\ journal = Written /\ rollbackDb # {} /\ rollbackVault # {}
                   /\ \E s \in Content : db = {s} /\ s.gen = restores /\ vault = {s.docs}
  /\ pc \in {"dropKeys", "dropJournal"} => \A s \in db : secrets \cap s.conns = {}
  /\ pc = "dropJournal" => AiKey \notin secrets

\* The staged profile is newer than the one it replaces.
Newer ==
  pc \in {"noteBegun", "noteWritten", "closing"} \cup UnderWay \/ Installing =>
    \A x \in Found : x.gen < restores

RecoveryFollows ==
  /\ pc \in Undoing => journal = Written /\ mode # "install"
  /\ pc = "returnDb" => rollbackDb # {}
  /\ pc \in {"undoVault", "returnVault", "undoStage", "undoJournal"} => rollbackDb = {}
  /\ pc = "returnVault" => rollbackVault # {}
  /\ pc \in {"undoStage", "undoJournal"} => rollbackVault = {}
  /\ pc \in Opening /\ mode # "install" => journal = {}
  /\ pc = "off" => mode = "start"
  /\ hot # {} => mode = "start" /\ pc \in {"off", "opening"} \cup Undoing

Contents == FoundIsGood /\ FoundIsExpected
Shape == InPlace /\ CommandFollows /\ SwapFollows /\ InstallFollows /\ Newer /\ RecoveryFollows

IInv == Types /\ Contents /\ Shape

LEMMA TheOne == \A x : The({x}) = x
BY DEF The

LEMMA FilesAre ==
  /\ {} \in DbFile /\ \A x \in Content \cup {Damaged} : {x} \in DbFile
  /\ {} \in Directory /\ \A x \in SUBSET Document : {x} \in Directory
  /\ \A f \in DbFile : f = {} \/ \E x \in Content \cup {Damaged} : f = {x}
  /\ \A f \in Directory : f = {} \/ \E x \in SUBSET Document : f = {x}
BY DEF DbFile, Directory

LEMMA StepIs ==
  /\ Swapping \cup Undoing \cup Opening \cup Commands \subseteq Step
  /\ {"off", "idle", "broken", "noteBegun", "noteWritten", "closing"} \subseteq Step
BY DEF Step

\* What may be stored of a database.
LEMMA ContentIs ==
  /\ \A x \in Content : /\ x.gen \in 0 .. MaxRestores /\ x.docs \subseteq Document /\ x.conns \subseteq Connection
                        /\ x # Damaged
  /\ \A n \in 0 .. MaxRestores, docs \in SUBSET Document, conns \in SUBSET Connection :
       [gen |-> n, docs |-> docs, conns |-> conns] \in Content
BY DEF Content, Damaged

\* The rows of a database change, it stays the database it was.
LEMMA OtherDocs ==
  ASSUME NEW x \in Content, NEW docs \in SUBSET Document
  PROVE  /\ [x EXCEPT !.docs = docs] \in Content
         /\ [x EXCEPT !.docs = docs].gen = x.gen /\ [x EXCEPT !.docs = docs].docs = docs
         /\ [x EXCEPT !.docs = docs].conns = x.conns
BY DEF Content

LEMMA OtherConns ==
  ASSUME NEW x \in Content, NEW conns \in SUBSET Connection
  PROVE  /\ [x EXCEPT !.conns = conns] \in Content
         /\ [x EXCEPT !.conns = conns].gen = x.gen /\ [x EXCEPT !.conns = conns].docs = x.docs
         /\ [x EXCEPT !.conns = conns].conns = conns
BY DEF Content

\* While a command runs, or none does, a start would find the profile that is in place.
LEMMA InPlaceIs ==
  ASSUME IInv, pc \in {"idle"} \cup Commands
  PROVE  Found = db /\ FoundVault = vault /\ \E x \in Content : db = {x} /\ Profile = x /\ Good(x)
BY TheOne DEF IInv, Contents, Shape, FoundIsGood, Lost, InPlace, Found, FoundVault, AsFound, Commands, Written,
  Profile

\* A database is opened where there is one.
LEMMA OpensOne == ASSUME IInv, pc \in Opening
  PROVE  db # {} /\ (pc = "committing" => \E x \in Content : db = {x})
BY DEF IInv, Contents, Shape, FoundIsGood, Lost, Found, AsFound, InstallFollows, Installing, RecoveryFollows,
  Opening, Written

LEMMA TypesInv == ASSUME ProfileAssumption, IInv, Next PROVE Types'
<1> USE FilesAre, StepIs, ContentIs DEF IInv, Types, files, history, bounds, Swapping, Undoing, Opening, Commands
<1>1. CASE Startup
  <2>1. CASE Start
    BY <2>1 DEF Start
  <2>2. CASE UndoDb
    BY <2>2 DEF UndoDb
  <2>3. CASE ReturnDb
    BY <2>3 DEF ReturnDb
  <2>4. CASE UndoVault
    BY <2>4 DEF UndoVault
  <2>5. CASE ReturnVault
    BY <2>5 DEF ReturnVault
  <2>6. CASE UndoStage
    BY <2>6 DEF UndoStage
  <2>7. CASE UndoJournal
    BY <2>7 DEF UndoJournal
  <2>8. CASE OpenDatabase
    <3>1. db' = db /\ vault' \in Directory
      BY <2>8, OpensOne DEF OpenDatabase
    <3> QED
      BY <2>8, <3>1 DEF OpenDatabase
  <2>9. CASE PlayForeignJournal
    BY <2>9 DEF PlayForeignJournal
  <2>10. CASE RefuseDamaged
    BY <2>10 DEF RefuseDamaged
  <2>11. CASE FinishOpening
    BY <2>11 DEF FinishOpening
  <2> QED
    BY <1>1, <2>1, <2>2, <2>3, <2>4, <2>5, <2>6, <2>7, <2>8, <2>9, <2>10, <2>11 DEF Startup, Recovery
<1>2. CASE Restore
  <2>1. CASE StageArchive
    <3>1. PICK archive \in archives :
            /\ stageDb' = {[gen |-> restores + 1, docs |-> archive.docs, conns |-> archive.conns]}
            /\ stageVault' = {archive.docs}
      BY <2>1 DEF StageArchive
    <3>2. archive.docs \in SUBSET Document /\ archive.conns \in SUBSET Connection
      OBVIOUS
    <3>3. restores + 1 \in 0 .. MaxRestores
      BY <2>1 DEF StageArchive, ProfileAssumption
    <3>4. stageDb' \in DbFile /\ stageVault' \in Directory
      BY <3>1, <3>2, <3>3
    <3> QED
      BY <2>1, <3>3, <3>4 DEF StageArchive
  <2>2. CASE CreateJournal
    BY <2>2 DEF CreateJournal
  <2>3. CASE WriteJournal
    BY <2>3 DEF WriteJournal
  <2>4. CASE CloseDatabase
    BY <2>4 DEF CloseDatabase
  <2>5. CASE MoveDb
    BY <2>5 DEF MoveDb
  <2>6. CASE MoveVault
    BY <2>6 DEF MoveVault
  <2>7. CASE PlaceDb
    BY <2>7 DEF PlaceDb
  <2>8. CASE PlaceVault
    BY <2>8 DEF PlaceVault
  <2>9. CASE DropSecrets
    BY <2>9 DEF DropSecrets
  <2>10. CASE DropKeys
    BY <2>10 DEF DropKeys
  <2>11. CASE DropJournal
    BY <2>11 DEF DropJournal
  <2>12. CASE FinishRestore
    <3>1. target \subseteq Content
      BY <2>12, <1>1 DEF FinishRestore, Contents, FoundIsGood, FoundIsExpected, Lost
    <3> QED
      BY <2>12, <3>1 DEF FinishRestore
  <2> QED
    BY <1>2, <2>1, <2>2, <2>3, <2>4, <2>5, <2>6, <2>7, <2>8, <2>9, <2>10, <2>11, <2>12 DEF Restore
<1>3. CASE Command
  <2>1. CASE \E d \in Document : Import(d)
    <3>1. PICK d \in Document : Import(d)
      BY <2>1
    <3>2. PICK x \in Content : db = {x} /\ Profile = x
      BY <3>1, InPlaceIs DEF Import
    <3>3. target' \in DbFile
      <4>1. x.docs \cup {d} \in SUBSET Document
        OBVIOUS
      <4> QED
        BY <3>1, <3>2, <4>1, OtherDocs DEF Import
    <3>4. vault' \in Directory
      <4>1. PICK v \in SUBSET Document : vault = {v}
        BY <3>1 DEF Import
      <4>2. vault' = {v \cup {d}} /\ v \cup {d} \in SUBSET Document
        BY <3>1, <4>1, TheOne DEF Import
      <4> QED
        BY <4>2
    <3> QED
      BY <3>1, <3>3, <3>4 DEF Import
  <2>2. CASE \E d \in Document : Shred(d)
    <3>1. PICK d \in Document : Shred(d)
      BY <2>2
    <3>2. PICK x \in Content : db = {x} /\ Profile = x
      BY <3>1, InPlaceIs DEF Shred
    <3>3. target' \in DbFile
      BY <3>1, <3>2, OtherDocs DEF Shred
    <3>4. vault' \in Directory
      <4>1. vault = {} \/ \E v \in SUBSET Document : vault = {v}
        OBVIOUS
      <4>2. vault' = {contents \ {d} : contents \in vault}
        BY <3>1 DEF Shred
      <4>3. ASSUME NEW v \in SUBSET Document, vault = {v} PROVE vault' \in Directory
        <5>1. vault' = {v \ {d}} /\ v \ {d} \in SUBSET Document
          BY <4>2, <4>3
        <5> QED
          BY <5>1
      <4>4. vault = {} => vault' = {}
        BY <4>2
      <4> QED
        BY <4>1, <4>3, <4>4 DEF Directory
    <3>5. discarded' \subseteq (0 .. MaxRestores) \X Document
      BY <3>1, <3>2 DEF Shred
    <3> QED
      BY <3>1, <3>3, <3>4, <3>5 DEF Shred
  <2>3. CASE \E c \in Connection : Connect(c)
    <3>1. PICK c \in Connection : Connect(c)
      BY <2>3
    <3>2. PICK x \in Content : db = {x} /\ Profile = x
      BY <3>1, InPlaceIs DEF Connect
    <3>3. target' \in DbFile
      <4>1. x.conns \cup {c} \in SUBSET Connection
        OBVIOUS
      <4> QED
        BY <3>1, <3>2, <4>1, OtherConns DEF Connect
    <3>4. secrets' \subseteq Secret /\ entered' \subseteq (0 .. MaxRestores) \X Secret
      BY <3>1, <3>2 DEF Connect, Secret
    <3> QED
      BY <3>1, <3>3, <3>4 DEF Connect
  <2>4. CASE Record
    <3>1. \E t \in Content : target = {t}
      BY <2>4 DEF Record, Shape, CommandFollows
    <3> QED
      BY <2>4, <3>1 DEF Record
  <2>5. CASE SaveAiKey
    <3>1. PICK x \in Content : Profile = x
      BY <2>5, InPlaceIs DEF SaveAiKey
    <3>2. secrets' \subseteq Secret /\ entered' \subseteq (0 .. MaxRestores) \X Secret
      BY <2>5, <3>1 DEF SaveAiKey, Secret
    <3> QED
      BY <2>5, <3>2 DEF SaveAiKey
  <2>6. CASE Export
    <3>1. PICK x \in Content : Profile = x
      BY <2>6, InPlaceIs DEF Export
    <3>2. archives' \subseteq [docs : SUBSET Document, conns : SUBSET Connection]
      BY <2>6, <3>1 DEF Export
    <3> QED
      BY <2>6, <3>2 DEF Export
  <2>7. CASE DeleteProfile
    <3>1. PICK x \in Content : Profile = x
      BY <2>7, InPlaceIs DEF DeleteProfile
    <3>2. target' \in DbFile
      <4>1. target' = {[gen |-> x.gen, docs |-> {}, conns |-> {}]} /\ x.gen \in 0 .. MaxRestores
        BY <2>7, <3>1 DEF DeleteProfile
      <4>2. [gen |-> x.gen, docs |-> {}, conns |-> {}] \in Content
        BY <4>1
      <4> QED
        BY <4>1, <4>2
    <3>3. discarded' \subseteq (0 .. MaxRestores) \X Document
      BY <2>7, <3>1 DEF DeleteProfile
    <3> QED
      BY <2>7, <3>2, <3>3 DEF DeleteProfile
  <2>8. CASE MakeVault
    BY <2>8 DEF MakeVault
  <2>9. CASE ResetDatabase
    BY <2>9 DEF ResetDatabase
  <2>10. CASE FinishDelete
    <3>1. target \subseteq Content
      BY <2>10 DEF FinishDelete, Contents, FoundIsGood, FoundIsExpected, Lost
    <3> QED
      BY <2>10, <3>1 DEF FinishDelete
  <2> QED
    BY <1>3, <2>1, <2>2, <2>3, <2>4, <2>5, <2>6, <2>7, <2>8, <2>9, <2>10 DEF Command
<1>4. CASE Fails
  <2>1. CASE RestoreRefused
    BY <2>1 DEF RestoreRefused, MayFail
  <2>2. CASE SwapFails
    BY <2>2 DEF SwapFails, MayFail
  <2>3. CASE RecoveryFails
    <3>1. vault' \in Directory
      <4>1. vault' = vault \/ vault' = {{}}
        BY <2>3 DEF RecoveryFails
      <4>2. {{}} \in Directory /\ vault \in Directory
        BY DEF Directory
      <4> QED
        BY <4>1, <4>2
    <3> QED
      BY <2>3, <3>1 DEF RecoveryFails, MayFail
  <2>4. CASE RecordFails
    BY <2>4 DEF RecordFails, MayFail
  <2>5. CASE DeleteFails
    <3>1. db' \subseteq Content /\ db' \in DbFile
      <4>1. pc \in Commands
        BY <2>5 DEF DeleteFails
      <4>2. db \in DbFile /\ db \subseteq Content
        BY <4>1, InPlaceIs
      <4>3. pc = "resetDb" => target \in DbFile /\ target \subseteq Content
        BY DEF Shape, CommandFollows
      <4> QED
        BY <2>5, <4>2, <4>3 DEF DeleteFails
    <3>2. vault' \in Directory /\ resetDir' \in Directory
      BY <2>5 DEF DeleteFails
    <3>3. expected' \subseteq Content /\ failures' \in 0 .. MaxFailures
      BY <2>5, <3>1 DEF DeleteFails, MayFail
    <3>4. pc' = "idle" /\ target' = {}
      BY <2>5 DEF DeleteFails
    <3> QED
      BY <2>5, <3>1, <3>2, <3>3, <3>4 DEF DeleteFails
  <2> QED
    BY <1>4, <2>1, <2>2, <2>3, <2>4, <2>5 DEF Fails
<1>5. CASE Stop
  <2>1. target \subseteq Content
    BY <1>5, SMTT(30) DEF Contents, Shape, FoundIsGood, FoundIsExpected, Lost, CommandFollows
  <2>2. hot' \subseteq 0 .. MaxRestores
    <3>1. {content.gen : content \in db} \subseteq 0 .. MaxRestores \/ pc # "committing"
      BY OpensOne
    <3> QED
      BY <1>5, <3>1 DEF Stop
  <2> QED
    BY <1>5, <2>1, <2>2 DEF Stop
<1> QED
  BY <1>1, <1>2, <1>3, <1>4, <1>5 DEF Next

\* What the commands on the profile's rows leave, and are to leave.
LEMMA ImportKeeps == ASSUME ProfileAssumption, IInv, NEW d \in Document, Import(d) PROVE Contents' /\ Shape'
<1>1. PICK x \in Content : db = {x} /\ Profile = x /\ Good(x) /\ Found = db /\ FoundVault = vault
  BY InPlaceIs DEF Import
<1>2. PICK v \in SUBSET Document : vault = {v} /\ vault' = {v \cup {d}}
  <2>1. PICK v \in SUBSET Document : vault = {v}
    BY FilesAre DEF Import, IInv, Types
  <2>2. vault' = {v \cup {d}}
    BY <2>1, TheOne DEF Import
  <2> QED
    BY <2>1, <2>2
<1> DEFINE t == [x EXCEPT !.docs = x.docs \cup {d}]
<1>3. t \in Content /\ t.gen = x.gen /\ t.docs = x.docs \cup {d} /\ t.conns = x.conns
  <2>1. x.docs \cup {d} \in SUBSET Document
    BY ContentIs
  <2> QED
    BY <2>1, OtherDocs
<1>4. target' = {t} /\ pc = "idle" /\ pc' = "inserting"
  BY <1>1 DEF Import
<1> HIDE DEF t
<1>5. Found' = {x} /\ FoundVault' = vault'
  BY <1>1 DEF Import, IInv, Shape, InPlace, Found, FoundVault, AsFound, Written
<1>6. Good(x)' /\ Good(t)'
  BY <1>1, <1>2, <1>3, <1>5 DEF Import, bounds, Good, Readable, OwnSecrets
<1>7. Contents'
  BY <1>1, <1>4, <1>5, <1>6 DEF IInv, Contents, FoundIsGood, FoundIsExpected, Lost, Import
<1>8. Shape'
  <2>1. InPlace' /\ CommandFollows'
    BY <1>1, <1>3, <1>4, <1>6 DEF IInv, Shape, Import, InPlace, CommandFollows, Commands
  <2>2. SwapFollows' /\ InstallFollows' /\ Newer' /\ RecoveryFollows'
    BY <1>4 DEF IInv, Shape, Import, SwapFollows, InstallFollows, Newer, RecoveryFollows, Installing, UnderWay,
      Swapping, Undoing, Opening
  <2> QED
    BY <2>1, <2>2 DEF Shape
<1> QED
  BY <1>7, <1>8

LEMMA ShredKeeps == ASSUME ProfileAssumption, IInv, NEW d \in Document, Shred(d) PROVE Contents' /\ Shape'
<1>1. PICK x \in Content : db = {x} /\ Profile = x /\ Good(x) /\ Found = db /\ FoundVault = vault
  BY InPlaceIs DEF Shred
<1>2. (\A e \in UNION vault : e = d \/ e \in UNION vault') /\ discarded' = discarded \cup {<<x.gen, d>>}
  <2>1. vault' = {contents \ {d} : contents \in vault} /\ discarded' = discarded \cup {<<x.gen, d>>}
    BY <1>1 DEF Shred
  <2>2. ASSUME NEW e \in UNION vault, e # d PROVE e \in UNION vault'
    <3>1. PICK contents \in vault : e \in contents
      BY <2>2
    <3>2. contents \ {d} \in vault' /\ e \in contents \ {d}
      BY <2>1, <2>2, <3>1
    <3> QED
      BY <3>2
  <2> QED
    BY <2>1, <2>2
<1> DEFINE t == [x EXCEPT !.docs = x.docs \ {d}]
<1>3. t \in Content /\ t.gen = x.gen /\ t.docs = x.docs \ {d} /\ t.conns = x.conns
  <2>1. x.docs \ {d} \in SUBSET Document
    BY ContentIs
  <2> QED
    BY <2>1, OtherDocs
<1>4. target' = {t} /\ pc = "idle" /\ pc' = "shredding"
  BY <1>1 DEF Shred
<1> HIDE DEF t
<1>5. Found' = {x} /\ FoundVault' = vault'
  BY <1>1 DEF Shred, IInv, Shape, InPlace, Found, FoundVault, AsFound, Written
<1>6. Good(x)' /\ Good(t)'
  BY <1>1, <1>2, <1>3, <1>5 DEF Shred, bounds, Good, Readable, OwnSecrets
<1>7. Contents'
  BY <1>1, <1>4, <1>5, <1>6 DEF IInv, Contents, FoundIsGood, FoundIsExpected, Lost, Shred
<1>8. Shape'
  <2>1. InPlace' /\ CommandFollows'
    BY <1>1, <1>3, <1>4, <1>6 DEF IInv, Shape, Shred, InPlace, CommandFollows, Commands
  <2>2. SwapFollows' /\ InstallFollows' /\ Newer' /\ RecoveryFollows'
    BY <1>4 DEF IInv, Shape, Shred, SwapFollows, InstallFollows, Newer, RecoveryFollows, Installing, UnderWay,
      Swapping, Undoing, Opening
  <2> QED
    BY <2>1, <2>2 DEF Shape
<1> QED
  BY <1>7, <1>8

LEMMA ConnectKeeps == ASSUME ProfileAssumption, IInv, NEW c \in Connection, Connect(c) PROVE Contents' /\ Shape'
<1>1. PICK x \in Content : db = {x} /\ Profile = x /\ Good(x) /\ Found = db /\ FoundVault = vault
  BY InPlaceIs DEF Connect
<1>2. secrets' = secrets \cup {c} /\ entered' = entered \cup {<<x.gen, c>>}
  BY <1>1 DEF Connect
<1> DEFINE t == [x EXCEPT !.conns = x.conns \cup {c}]
<1>3. t \in Content /\ t.gen = x.gen /\ t.docs = x.docs /\ t.conns = x.conns \cup {c}
  <2>1. x.conns \cup {c} \in SUBSET Connection
    BY ContentIs
  <2> QED
    BY <2>1, OtherConns
<1>4. target' = {t} /\ pc = "idle" /\ pc' = "connecting"
  BY <1>1 DEF Connect
<1> HIDE DEF t
<1>5. Found' = {x} /\ FoundVault' = vault'
  BY <1>1 DEF Connect, files, Found, FoundVault, AsFound
<1>6. Good(x)' /\ Good(t)'
  BY <1>1, <1>2, <1>3, <1>5 DEF Connect, files, bounds, Good, Readable, OwnSecrets
<1>7. Contents'
  BY <1>1, <1>4, <1>5, <1>6 DEF IInv, Contents, FoundIsGood, FoundIsExpected, Lost, Connect
<1>8. Shape'
  <2>1. InPlace' /\ CommandFollows'
    BY <1>1, <1>3, <1>4, <1>6 DEF IInv, Shape, Connect, files, InPlace, CommandFollows, Commands
  <2>2. SwapFollows' /\ InstallFollows' /\ Newer' /\ RecoveryFollows'
    BY <1>4 DEF IInv, Shape, Connect, files, SwapFollows, InstallFollows, Newer, RecoveryFollows, Installing, UnderWay,
      Swapping, Undoing, Opening
  <2> QED
    BY <2>1, <2>2 DEF Shape
<1> QED
  BY <1>7, <1>8

LEMMA DeleteProfileKeeps == ASSUME ProfileAssumption, IInv, DeleteProfile PROVE Contents'
<1>1. PICK x \in Content : db = {x} /\ Profile = x /\ Good(x) /\ Found = db /\ FoundVault = vault
  BY InPlaceIs DEF DeleteProfile
<1>2. discarded' = discarded \cup {<<x.gen, d>> : d \in x.docs}
  BY <1>1 DEF DeleteProfile
<1>3. Found' = {x} /\ Good(x)'
  BY <1>1, <1>2 DEF DeleteProfile, bounds, Good, Readable, OwnSecrets, Found, FoundVault, AsFound,
    IInv, Shape, InPlace, Written
<1> QED
  BY <1>1, <1>3 DEF IInv, Contents, FoundIsGood, FoundIsExpected, Lost, DeleteProfile

\* The emptied database of the same profile keeps what was true of the full one.
LEMMA EmptiedIsGood ==
  ASSUME IInv, pc = "resetDb"
  PROVE  \E x, t \in Content : /\ db = {x} /\ Profile = x /\ Good(x) /\ target = {t}
                               /\ t.gen = x.gen /\ t.docs = {} /\ t.conns = {}
                               /\ Found = db /\ FoundVault = vault
                               /\ \A d \in x.docs : <<x.gen, d>> \in discarded
<1>1. PICK x \in Content : /\ db = {x} /\ target = {[gen |-> x.gen, docs |-> {}, conns |-> {}]}
                           /\ \A d \in x.docs : <<x.gen, d>> \in discarded
  BY DEF IInv, Shape, CommandFollows
<1>2. Found = db /\ FoundVault = vault /\ Profile = x /\ Good(x)
  BY <1>1, InPlaceIs DEF Commands
<1>3. [gen |-> x.gen, docs |-> {}, conns |-> {}] \in Content
  BY ContentIs
<1> QED
  BY <1>1, <1>2, <1>3

LEMMA ResetDatabaseKeeps == ASSUME ProfileAssumption, IInv, ResetDatabase PROVE Contents'
<1>1. PICK x, t \in Content : /\ db = {x} /\ Profile = x /\ Good(x) /\ target = {t}
                              /\ t.gen = x.gen /\ t.docs = {} /\ t.conns = {}
                              /\ Found = db /\ FoundVault = vault
                              /\ \A d \in x.docs : <<x.gen, d>> \in discarded
  BY EmptiedIsGood DEF ResetDatabase
<1>2. Found' = {t} /\ target' = {t} /\ pc' = "resetRest"
  BY <1>1 DEF ResetDatabase, Found, AsFound, IInv, Shape, InPlace, Commands, Written
<1>3. secrets' \subseteq secrets
  BY DEF ResetDatabase
<1>4. Good(t)'
  BY <1>1, <1>3 DEF ResetDatabase, history, bounds, Good, Readable, OwnSecrets
<1> QED
  BY <1>2, <1>4 DEF Contents, FoundIsGood, FoundIsExpected

LEMMA DeleteFailsKeeps == ASSUME ProfileAssumption, IInv, DeleteFails PROVE Contents'
<1>1. CASE pc = "resetDb"
  <2>1. PICK x, t \in Content : /\ db = {x} /\ Profile = x /\ Good(x) /\ target = {t}
                                /\ t.gen = x.gen /\ t.docs = {} /\ t.conns = {}
                                /\ Found = db /\ FoundVault = vault
                                /\ \A d \in x.docs : <<x.gen, d>> \in discarded
    BY <1>1, EmptiedIsGood
  <2>2. (db' = {x} \/ db' = {t}) /\ Found' = db'
    BY <1>1, <2>1 DEF DeleteFails, Found, AsFound, IInv, Shape, InPlace, Commands, Written
  <2>3. Good(x)' /\ Good(t)'
    BY <2>1 DEF DeleteFails, bounds, Good, Readable, OwnSecrets
  <2> QED
    BY <2>2, <2>3 DEF Contents, FoundIsGood, FoundIsExpected, DeleteFails
<1>2. CASE pc \in {"resetVault", "resetRest"}
  <2>1. PICK x \in Content : db = {x} /\ Good(x) /\ Found = db /\ FoundVault = vault
    BY <1>2, InPlaceIs DEF Commands
  <2>2. Found' = {x} /\ db' = {x} /\ Good(x)'
    BY <1>2, <2>1 DEF DeleteFails, MayFail, bounds, Good, Readable, OwnSecrets, Found, FoundVault, AsFound
  <2> QED
    BY <2>2 DEF Contents, FoundIsGood, FoundIsExpected, DeleteFails
<1> QED
  BY <1>1, <1>2 DEF DeleteFails

\* A restore stages what it is to put in place, newer than any profile there is.
LEMMA StageArchiveKeeps == ASSUME ProfileAssumption, IInv, StageArchive PROVE Shape'
<1>1. PICK x \in Content : db = {x} /\ Good(x) /\ Found = db
  BY InPlaceIs DEF StageArchive
<1>2. PICK archive \in archives :
        /\ stageDb' = {[gen |-> restores + 1, docs |-> archive.docs, conns |-> archive.conns]}
        /\ stageVault' = {archive.docs}
  BY DEF StageArchive
<1>3. restores \in Nat /\ restores + 1 \in 0 .. MaxRestores /\ restores' = restores + 1
  BY DEF StageArchive, IInv, Types, ProfileAssumption
<1>4. [gen |-> restores + 1, docs |-> archive.docs, conns |-> archive.conns] \in Content
  BY <1>3, ContentIs DEF IInv, Types
<1>5. \E s \in Content : stageDb' = {s} /\ Staged(s)'
  BY <1>2, <1>3, <1>4 DEF Staged
<1>6. Found' = {x} /\ x.gen < restores'
  <2>1. x.gen \in 0 .. MaxRestores /\ x.gen <= restores
    BY <1>1, ContentIs DEF Good
  <2> QED
    BY <1>1, <1>3, <2>1 DEF StageArchive, Found, AsFound, Written
<1>7. Newer' /\ InPlace' /\ CommandFollows' /\ SwapFollows'
  BY <1>5, <1>6 DEF StageArchive, Newer, InPlace, IInv, Shape, CommandFollows, SwapFollows, Commands, Swapping,
    UnderWay
<1>8. InstallFollows' /\ RecoveryFollows'
  BY DEF StageArchive, IInv, Shape, InstallFollows, Installing, RecoveryFollows, Opening, Undoing
<1> QED
  BY <1>7, <1>8 DEF Shape

LEMMA ContentsInv == ASSUME ProfileAssumption, IInv, Next PROVE Contents'
<1> USE TheOne DEF IInv, Types, Contents, FoundIsGood, FoundIsExpected, Shape, InPlace, CommandFollows, SwapFollows, InstallFollows,
    Newer, RecoveryFollows,
    Readable, OwnSecrets, Good, DbFile, Directory, Content, Damaged,
    files, history, bounds, Swapping, Undoing, Opening, Commands, Profile, Begun, Written,
    Found, FoundVault, AsFound, Lost, UnderWay, Staged, Installing, Secret
<1>1. CASE Startup
  <2>1. CASE Start
    BY <2>1 DEF Start, JournalReadable
  <2>2. CASE UndoDb
    BY <2>2 DEF UndoDb, PutsBackDb
  <2>3. CASE ReturnDb
    BY <2>3 DEF ReturnDb
  <2>4. CASE UndoVault
    BY <2>4 DEF UndoVault, PutsBackVault
  <2>5. CASE ReturnVault
    BY <2>5 DEF ReturnVault
  <2>6. CASE UndoStage
    BY <2>6 DEF UndoStage
  <2>7. CASE UndoJournal
    BY <2>7 DEF UndoJournal
  <2>8. CASE OpenDatabase
    BY <2>8 DEF OpenDatabase
  <2>9. CASE PlayForeignJournal
    BY <2>9 DEF PlayForeignJournal
  <2>10. CASE RefuseDamaged
    BY <2>10 DEF RefuseDamaged
  <2>11. CASE FinishOpening
    BY <2>11 DEF FinishOpening
  <2> QED
    BY <1>1, <2>1, <2>2, <2>3, <2>4, <2>5, <2>6, <2>7, <2>8, <2>9, <2>10, <2>11 DEF Startup, Recovery
<1>2. CASE Restore
  <2>1. CASE StageArchive
    BY <2>1 DEF StageArchive
  <2>2. CASE CreateJournal
    BY <2>2 DEF CreateJournal
  <2>3. CASE WriteJournal
    BY <2>3 DEF WriteJournal
  <2>4. CASE CloseDatabase
    BY <2>4 DEF CloseDatabase
  <2>5. CASE MoveDb
    BY <2>5 DEF MoveDb
  <2>6. CASE MoveVault
    BY <2>6 DEF MoveVault
  <2>7. CASE PlaceDb
    BY <2>7 DEF PlaceDb
  <2>8. CASE PlaceVault
    BY <2>8 DEF PlaceVault
  <2>9. CASE DropSecrets
    BY <2>9 DEF DropSecrets, SwapTargets
  <2>10. CASE DropKeys
    BY <2>10 DEF DropKeys
  <2>11. CASE DropJournal
    BY <2>11 DEF DropJournal
  <2>12. CASE FinishRestore
    BY <2>12 DEF FinishRestore
  <2> QED
    BY <1>2, <2>1, <2>2, <2>3, <2>4, <2>5, <2>6, <2>7, <2>8, <2>9, <2>10, <2>11, <2>12 DEF Restore
<1>3. CASE Command
  <2>1. CASE \E d \in Document : Import(d)
    BY <2>1, ImportKeeps
  <2>2. CASE \E d \in Document : Shred(d)
    BY <2>2, ShredKeeps
  <2>3. CASE \E c \in Connection : Connect(c)
    BY <2>3, ConnectKeeps
  <2>4. CASE Record
    BY <2>4 DEF Record
  <2>5. CASE SaveAiKey
    BY <2>5 DEF SaveAiKey
  <2>6. CASE Export
    BY <2>6 DEF Export
  <2>7. CASE DeleteProfile
    BY <2>7, DeleteProfileKeeps
  <2>8. CASE MakeVault
    BY <2>8 DEF MakeVault
  <2>9. CASE ResetDatabase
    BY <2>9, ResetDatabaseKeeps
  <2>10. CASE FinishDelete
    BY <2>10 DEF FinishDelete
  <2> QED
    BY <1>3, <2>1, <2>2, <2>3, <2>4, <2>5, <2>6, <2>7, <2>8, <2>9, <2>10 DEF Command
<1>4. CASE Fails
  <2>1. CASE RestoreRefused
    BY <2>1 DEF RestoreRefused, MayFail
  <2>2. CASE SwapFails
    BY <2>2 DEF SwapFails, Dropping, SwapTargets, MayFail
  <2>3. CASE RecoveryFails
    BY <2>3 DEF RecoveryFails, MayFail
  <2>4. CASE RecordFails
    BY <2>4 DEF RecordFails, MayFail
  <2>5. CASE DeleteFails
    BY <2>5, DeleteFailsKeeps
  <2> QED
    BY <1>4, <2>1, <2>2, <2>3, <2>4, <2>5 DEF Fails
<1>5. CASE Stop
  BY <1>5 DEF Stop
<1> QED
  BY <1>1, <1>2, <1>3, <1>4, <1>5 DEF Next

LEMMA ShapeInv == ASSUME ProfileAssumption, IInv, Next PROVE Shape'
<1> USE TheOne DEF IInv, Types, Contents, FoundIsGood, FoundIsExpected, Shape, InPlace, CommandFollows, SwapFollows, InstallFollows,
    Newer, RecoveryFollows,
    Readable, OwnSecrets, Good, DbFile, Directory, Content, Damaged,
    files, history, bounds, Swapping, Undoing, Opening, Commands, Profile, Begun, Written,
    Found, FoundVault, AsFound, Lost, UnderWay, Staged, Installing, Secret
<1>1. CASE Startup
  <2>1. CASE Start
    BY <2>1 DEF Start, JournalReadable
  <2>2. CASE UndoDb
    BY <2>2 DEF UndoDb, PutsBackDb
  <2>3. CASE ReturnDb
    BY <2>3 DEF ReturnDb
  <2>4. CASE UndoVault
    BY <2>4 DEF UndoVault, PutsBackVault
  <2>5. CASE ReturnVault
    BY <2>5 DEF ReturnVault
  <2>6. CASE UndoStage
    BY <2>6 DEF UndoStage
  <2>7. CASE UndoJournal
    BY <2>7 DEF UndoJournal
  <2>8. CASE OpenDatabase
    BY <2>8 DEF OpenDatabase
  <2>9. CASE PlayForeignJournal
    BY <2>9 DEF PlayForeignJournal
  <2>10. CASE RefuseDamaged
    BY <2>10 DEF RefuseDamaged
  <2>11. CASE FinishOpening
    BY <2>11 DEF FinishOpening
  <2> QED
    BY <1>1, <2>1, <2>2, <2>3, <2>4, <2>5, <2>6, <2>7, <2>8, <2>9, <2>10, <2>11 DEF Startup, Recovery
<1>2. CASE Restore
  <2>1. CASE StageArchive
    BY <2>1, StageArchiveKeeps
  <2>2. CASE CreateJournal
    BY <2>2 DEF CreateJournal
  <2>3. CASE WriteJournal
    BY <2>3 DEF WriteJournal
  <2>4. CASE CloseDatabase
    BY <2>4 DEF CloseDatabase
  <2>5. CASE MoveDb
    BY <2>5 DEF MoveDb
  <2>6. CASE MoveVault
    BY <2>6 DEF MoveVault
  <2>7. CASE PlaceDb
    BY <2>7 DEF PlaceDb
  <2>8. CASE PlaceVault
    BY <2>8 DEF PlaceVault
  <2>9. CASE DropSecrets
    BY <2>9 DEF DropSecrets, SwapTargets
  <2>10. CASE DropKeys
    BY <2>10 DEF DropKeys
  <2>11. CASE DropJournal
    BY <2>11 DEF DropJournal
  <2>12. CASE FinishRestore
    BY <2>12 DEF FinishRestore
  <2> QED
    BY <1>2, <2>1, <2>2, <2>3, <2>4, <2>5, <2>6, <2>7, <2>8, <2>9, <2>10, <2>11, <2>12 DEF Restore
<1>3. CASE Command
  <2>1. CASE \E d \in Document : Import(d)
    BY <2>1, ImportKeeps
  <2>2. CASE \E d \in Document : Shred(d)
    BY <2>2, ShredKeeps
  <2>3. CASE \E c \in Connection : Connect(c)
    BY <2>3, ConnectKeeps
  <2>4. CASE Record
    BY <2>4 DEF Record
  <2>5. CASE SaveAiKey
    BY <2>5 DEF SaveAiKey
  <2>6. CASE Export
    BY <2>6 DEF Export
  <2>7. CASE DeleteProfile
    <3>1. InPlace' /\ SwapFollows' /\ InstallFollows' /\ Newer' /\ RecoveryFollows'
      BY <2>7 DEF DeleteProfile
    <3>2. PICK x \in Content : db = {x}
      BY <2>7 DEF DeleteProfile
    <3>3. Profile = x
      BY <3>2
    <3>4. target' = {[gen |-> x.gen, docs |-> {}, conns |-> {}]} /\ \A d \in x.docs : <<x.gen, d>> \in discarded'
      BY <2>7, <3>3 DEF DeleteProfile
    <3>5. pc' = "resetVault" /\ db' = db
      BY <2>7 DEF DeleteProfile
    <3>6. CommandFollows'
      BY <3>2, <3>4, <3>5
    <3> QED
      BY <3>1, <3>6
  <2>8. CASE MakeVault
    BY <2>8 DEF MakeVault
  <2>9. CASE ResetDatabase
    BY <2>9 DEF ResetDatabase
  <2>10. CASE FinishDelete
    BY <2>10 DEF FinishDelete
  <2> QED
    BY <1>3, <2>1, <2>2, <2>3, <2>4, <2>5, <2>6, <2>7, <2>8, <2>9, <2>10 DEF Command
<1>4. CASE Fails
  <2>1. CASE RestoreRefused
    BY <2>1 DEF RestoreRefused, MayFail
  <2>2. CASE SwapFails
    BY <2>2 DEF SwapFails, Dropping, SwapTargets, MayFail
  <2>3. CASE RecoveryFails
    BY <2>3 DEF RecoveryFails, MayFail
  <2>4. CASE RecordFails
    BY <2>4 DEF RecordFails, MayFail
  <2>5. CASE DeleteFails
    BY <2>5 DEF DeleteFails, MayFail
  <2> QED
    BY <1>4, <2>1, <2>2, <2>3, <2>4, <2>5 DEF Fails
<1>5. CASE Stop
  BY <1>5 DEF Stop
<1> QED
  BY <1>1, <1>2, <1>3, <1>4, <1>5 DEF Next

-----------------------------------------------------------------------------
(* The invariant, and what follows from it.                                *)

LEMMA InitInv == ASSUME ProfileAssumption, Init PROVE IInv
<1> DEFINE x == [gen |-> 0, docs |-> {}, conns |-> {}]
<1>1. x \in Content /\ x.gen = 0 /\ x.docs = {} /\ x.conns = {}
  BY ContentIs DEF ProfileAssumption
<1>2. db = {x} /\ Found = {x} /\ FoundVault = {{}}
  BY DEF Init, Found, FoundVault, AsFound, Written
<1> HIDE DEF x
<1>3. Types
  <2>1. db \in DbFile /\ rollbackDb \in DbFile /\ stageDb \in DbFile /\ target \in DbFile
    BY <1>1, <1>2, FilesAre DEF Init
  <2>2. {{}} \in Directory /\ {} \in Directory
    BY DEF Directory
  <2>3. expected \subseteq Content
    BY <1>1, <1>2 DEF Init
  <2> QED
    BY <2>1, <2>2, <2>3, StepIs DEF Init, Types, ProfileAssumption
<1>4. Contents
  BY <1>1, <1>2 DEF Init, Contents, FoundIsGood, FoundIsExpected, Good, Readable, OwnSecrets
<1>5. Shape
  BY DEF Init, Shape, InPlace, CommandFollows, SwapFollows, InstallFollows, Newer, RecoveryFollows, Installing,
    UnderWay, Swapping, Undoing, Opening, Commands
<1> QED
  BY <1>3, <1>4, <1>5 DEF IInv

LEMMA NextInv == ASSUME ProfileAssumption, IInv, [Next]_vars PROVE IInv'
<1>1. CASE Next
  BY <1>1, TypesInv, ContentsInv, ShapeInv DEF IInv
<1>2. CASE UNCHANGED vars
  <2>1. Types' /\ Contents'
    BY <1>2 DEF vars, files, history, bounds, IInv, Types, Contents, FoundIsGood, FoundIsExpected, Lost, Found,
      FoundVault, AsFound, Good, Readable, OwnSecrets
  <2>2. Shape'
    BY <1>2 DEF vars, files, history, bounds, IInv, Shape, InPlace, CommandFollows, SwapFollows, InstallFollows,
      Newer, RecoveryFollows, Installing, Staged, Found, FoundVault, AsFound, Good, Readable, OwnSecrets
  <2> QED
    BY <2>1, <2>2 DEF IInv
<1> QED
  BY <1>1, <1>2

LEMMA SpecIInv == Spec => []IInv
<1>1. Init => IInv
  BY InitInv, ProfileAssumption
<1>2. IInv /\ [Next]_vars => IInv'
  BY NextInv, ProfileAssumption
<1> QED
  BY <1>1, <1>2, PTL DEF Spec

LEMMA FileHoldsOne ==
  /\ \A file \in DbFile : file \subseteq Content \cup {Damaged} /\ Cardinality(file) <= 1
  /\ \A directory \in Directory : directory \subseteq SUBSET Document /\ Cardinality(directory) <= 1
<1>1. Cardinality({}) <= 1 /\ \A x : Cardinality({x}) <= 1
  BY FS_EmptySet, FS_Singleton
<1>2. \A x \in Content \cup {Damaged} : {x} \subseteq Content \cup {Damaged}
  OBVIOUS
<1>3. \A x \in SUBSET Document : {x} \subseteq SUBSET Document
  OBVIOUS
<1>4. ASSUME NEW file \in DbFile PROVE file \subseteq Content \cup {Damaged} /\ Cardinality(file) <= 1
  <2>1. file = {} \/ \E x \in Content \cup {Damaged} : file = {x}
    BY FilesAre
  <2> QED
    BY <1>1, <1>2, <2>1
<1>5. ASSUME NEW directory \in Directory PROVE directory \subseteq SUBSET Document /\ Cardinality(directory) <= 1
  <2>1. directory = {} \/ \E x \in SUBSET Document : directory = {x}
    BY FilesAre
  <2> QED
    BY <1>1, <1>3, <2>1
<1> QED
  BY <1>4, <1>5

LEMMA IInvTypes == IInv => TypeOK
  BY FileHoldsOne DEF IInv, Types, TypeOK

LEMMA IInvSecrets == IInv => SecretsWereEntered
  BY InPlaceIs DEF Good, OwnSecrets, SecretsWereEntered

\* A file is absent or has one content, through every rename, failure and stop.
THEOREM TypeCorrect == Spec => []TypeOK
  BY IInvTypes, SpecIInv, PTL

\* The profile the student works on is the one the program last told of.
THEOREM WorksOnTheProfileTold == Spec => []ProfileAsTold
<1>1. IInv => ProfileAsTold
  BY InPlaceIs DEF IInv, Contents, FoundIsExpected, Lost, ProfileAsTold
<1> QED
  BY <1>1, SpecIInv, PTL

\* A document with a row can be read, whatever became of the restores and deletions before.
THEOREM RowsFindTheirFiles == Spec => []DocumentsReadable
<1>1. IInv => DocumentsReadable
  BY InPlaceIs DEF Good, Readable, DocumentsReadable
<1> QED
  BY <1>1, SpecIInv, PTL

\* No credential is usable in a profile it was not entered into.
THEOREM OnlyOwnSecrets == Spec => []SecretsWereEntered
  BY IInvSecrets, SpecIInv, PTL

-----------------------------------------------------------------------------
(* The files implement the store.                                          *)

\* What a start would find changes with the row of a command, when a deletion is recorded,
\* when a restore removes its journal, and when pages of another database are played into it.
LEMMA FoundChanges ==
  ASSUME ProfileAssumption, IInv, Next, Found' # Found
  PROVE  PlayForeignJournal \/ DropJournal \/ Record \/ ResetDatabase \/ DeleteFails
<1> USE DEF IInv, Shape, InPlace, CommandFollows, SwapFollows, InstallFollows, Newer, RecoveryFollows, Installing,
    UnderWay, Found, AsFound, files, history, bounds, Swapping, Undoing, Opening, Commands, Begun, Written
<1>1. CASE Startup
  <2>1. CASE Start \/ FinishOpening \/ RefuseDamaged
    BY <2>1 DEF Start, FinishOpening, RefuseDamaged
  <2>2. CASE Recovery
    BY <2>2 DEF Recovery, UndoDb, ReturnDb, UndoVault, ReturnVault, UndoStage, UndoJournal, PutsBackDb
  <2>3. CASE OpenDatabase
    BY <2>3, OpensOne DEF OpenDatabase
  <2> QED
    BY <1>1, <2>1, <2>2, <2>3 DEF Startup
<1>2. CASE Restore
  <2>1. CASE StageArchive \/ CreateJournal \/ WriteJournal \/ CloseDatabase
    BY <2>1 DEF StageArchive, CreateJournal, WriteJournal, CloseDatabase
  <2>2. CASE MoveDb \/ MoveVault \/ PlaceDb \/ PlaceVault
    BY <2>2 DEF MoveDb, MoveVault, PlaceDb, PlaceVault
  <2>3. CASE DropSecrets \/ DropKeys \/ FinishRestore
    BY <2>3 DEF DropSecrets, DropKeys, FinishRestore
  <2> QED
    BY <1>2, <2>1, <2>2, <2>3 DEF Restore
<1>3. CASE Command
  <2>1. CASE \E d \in Document : Import(d) \/ Shred(d)
    BY <2>1 DEF Import, Shred
  <2>2. CASE (\E c \in Connection : Connect(c)) \/ SaveAiKey \/ Export
    BY <2>2 DEF Connect, SaveAiKey, Export
  <2>3. CASE DeleteProfile \/ MakeVault \/ FinishDelete
    BY <2>3 DEF DeleteProfile, MakeVault, FinishDelete
  <2> QED
    BY <1>3, <2>1, <2>2, <2>3 DEF Command
<1>4. CASE Fails
  BY <1>4 DEF Fails, RestoreRefused, SwapFails, RecoveryFails, RecordFails
<1>5. CASE Stop
  BY <1>5 DEF Stop
<1> QED
  BY <1>1, <1>2, <1>3, <1>4, <1>5 DEF Next

\* A command leaves the database the one it was.
LEMMA CommandChanges ==
  ASSUME ProfileAssumption, IInv, Record \/ ResetDatabase \/ DeleteFails
  PROVE  \E x, y \in Content : Found = {x} /\ Found' = {y} /\ x.gen = y.gen
<1>1. Found = db
  BY InPlaceIs DEF Record, ResetDatabase, DeleteFails, Commands
<1>2. journal = {} \/ rollbackDb = {}
  BY DEF IInv, Shape, InPlace, Record, ResetDatabase, DeleteFails, Commands
<1>3. Found' = db'
  BY <1>2 DEF Record, ResetDatabase, DeleteFails, Found, AsFound, Written
<1>4. \E x \in Content : db = {x}
  BY InPlaceIs DEF Record, ResetDatabase, DeleteFails, Commands
<1>5. CASE Record
  BY <1>1, <1>3, <1>5 DEF Record, IInv, Shape, CommandFollows
<1>6. CASE pc = "resetDb" /\ (ResetDatabase \/ DeleteFails)
  BY <1>1, <1>3, <1>6, EmptiedIsGood DEF ResetDatabase, DeleteFails
<1>7. CASE pc # "resetDb" /\ DeleteFails
  BY <1>1, <1>3, <1>4, <1>7 DEF DeleteFails
<1> QED
  BY <1>5, <1>6, <1>7 DEF ResetDatabase

\* With its journal gone, a restore has put a newer profile in place, and all of it.
LEMMA DropJournalReplaces ==
  ASSUME ProfileAssumption, IInv, DropJournal
  PROVE  \E x, y \in Content : /\ Found = {x} /\ Found' = {y} /\ x.gen < y.gen
                               /\ FoundVault' = {y.docs}
<1>1. PICK y \in Content : db = {y} /\ y.gen = restores /\ vault = {y.docs}
  BY DEF DropJournal, IInv, Shape, InstallFollows, Installing
<1>2. PICK x \in Content : Found = {x}
  BY DEF DropJournal, IInv, Contents, FoundIsGood, Lost
<1>3. x.gen < restores
  BY <1>2 DEF DropJournal, IInv, Shape, Newer, Installing
<1>4. Found' = {y} /\ FoundVault' = {y.docs}
  BY <1>1 DEF DropJournal, Found, FoundVault, AsFound, Written
<1> QED
  BY <1>1, <1>2, <1>3, <1>4

\* The profile is replaced in one step, the removal of the journal, by a complete and newer
\* one, whatever stops and fails; every other step leaves it the same profile.
THEOREM FilesImplementStore == Spec => ReplacesInOneStep
<1>1. Init => Store!Init
  <2> DEFINE x == [gen |-> 0, docs |-> {}, conns |-> {}]
  <2>1. Init => The(AsFound(rollbackDb, db)) = x /\ UNION AsFound(rollbackVault, vault) = {}
    BY TheOne DEF Init, AsFound
  <2>2. x.gen = 0 /\ x.docs = {}
    OBVIOUS
  <2> QED
    BY <2>1, <2>2 DEF Store!Init
<1>2. ASSUME ProfileAssumption, IInv, [Next]_vars
      PROVE  [Store!Change \/ Store!Replace \/ db' = {Damaged}]_Store!profile
  <2>1. CASE UNCHANGED vars
    BY <2>1 DEF vars, files, Store!profile, AsFound
  <2>2. CASE Next /\ Found' = Found
    BY <2>2 DEF Store!Change, Found
  <2>3. CASE PlayForeignJournal
    BY <2>3 DEF PlayForeignJournal
  <2>4. CASE Record \/ ResetDatabase \/ DeleteFails
    BY <1>2, <2>4, CommandChanges, TheOne DEF Store!Change, Found
  <2>5. CASE DropJournal
    <3>1. PICK x, y \in Content : Found = {x} /\ Found' = {y} /\ x.gen < y.gen /\ FoundVault' = {y.docs}
      BY <1>2, <2>5, DropJournalReplaces
    <3>2. The(Found) = x /\ The(Found') = y
      BY <3>1, TheOne
    <3>3. UNION FoundVault' = y.docs
      BY <3>1
    <3> QED
      BY <3>1, <3>2, <3>3 DEF Store!Replace, Found, FoundVault
  <2> QED
    BY <1>2, <2>1, <2>2, <2>3, <2>4, <2>5, FoundChanges
<1> QED
  BY <1>1, <1>2, SpecIInv, ProfileAssumption, PTL DEF Spec, ReplacesInOneStep
=============================================================================
