--------------------------- MODULE ProfileUpgrade ---------------------------
(***************************************************************************)
(* Opening a profile that an older build has written.  Every start brings  *)
(* the schema up to date in steps that are committed one by one and does   *)
(* the rest as if for the first time, going by the version the file has;   *)
(* that is written last, so a start that stops or fails in between is      *)
(* taken up by the next one.  Sample records of old builds that nobody     *)
(* touched are put in quarantine, once; the student may restore or purge   *)
(* them.                                                                   *)
(***************************************************************************)
EXTENDS Integers, FiniteSets

CONSTANTS Document, Sample,   \* documents of the vault, sample records
          Versions,           \* the versions a file may have: 0 for a new one
          CurrentVersion,     \* CURRENT_SCHEMA_VERSION
          RetentionVersion,   \* the first version that asks what becomes of a document
          Part,               \* the later tables and columns, in the groups they are made in
          None,
          MaxStarts           \* bound: starts of the program

VARIABLES
  version,    \* user_version of the file
  at,         \* what opening the file does next; "off", or "running" when it is open
  made,       \* the parts of the schema that are there
  unique,     \* whether two courses without a source are refused
  retention,  \* document -> what was decided about it; None before there was a column
  samples,    \* sample -> where it is
  reviewed,   \* the setting legacy_quarantine_complete
  undecided,  \* history: the documents the student was promised to be asked about
  wanted,     \* history: the samples the student changed, or took back
  starts

vars == <<version, at, made, unique, retention, samples, reviewed, undecided, wanted, starts>>

Schema == Part \union {"tables"}

Places == {"untouched", "edited", "quarantined", "restored", "gone"}

\* A new file is empty; builds before and after the quarantine have written the others.
Init == /\ version \in Versions
        /\ at = "off"
        /\ reviewed \in IF version >= RetentionVersion THEN {TRUE}
                        ELSE IF version = 0 THEN {FALSE} ELSE BOOLEAN
        /\ made = IF version = CurrentVersion THEN Schema ELSE IF version = 0 THEN {} ELSE {"tables"}
        /\ unique \in IF version > 0 /\ ~reviewed THEN BOOLEAN ELSE {FALSE}
        /\ \E old \in SUBSET Document :
             retention \in [old -> IF version < RetentionVersion THEN {None} ELSE {"ask", "keep_encrypted"}]
        /\ version = 0 => DOMAIN retention = {}
        /\ samples \in [Sample -> IF version = 0 THEN {"gone"}
                                  ELSE IF reviewed THEN Places \ {"untouched"}
                                  ELSE {"untouched", "edited", "gone"}]
        /\ undecided = {d \in DOMAIN retention : retention[d] = "ask"}
        /\ wanted = {s \in Sample : samples[s] \in {"edited", "restored"}}
        /\ starts = 0

TypeOK == /\ version \in Versions \union {CurrentVersion}
          /\ at \in {"off", "tables", "column", "retention", "parts", "profile", "version", "running"}
          /\ made \subseteq Schema /\ unique \in BOOLEAN /\ reviewed \in BOOLEAN
          /\ DOMAIN retention \subseteq Document
          /\ \A d \in DOMAIN retention : retention[d] \in {None, "ask", "keep_encrypted", "delete_now"}
          /\ samples \in [Sample -> Places]

-----------------------------------------------------------------------------
Open == /\ at = "off" /\ starts < MaxStarts
        /\ at' = "tables" /\ starts' = starts + 1
        /\ UNCHANGED <<version, made, unique, retention, samples, reviewed, undecided, wanted>>

\* The first tables, in one transaction; the table of courses made here refuses a second course
\* without a source until it is rebuilt.
MakeTables ==
  /\ at = "tables" /\ at' = "column"
  /\ made' = made \union {"tables"}
  /\ unique' = (unique \/ "tables" \notin made)
  /\ UNCHANGED <<version, retention, samples, reviewed, undecided, wanted, starts>>

AddRetentionColumn ==
  /\ at = "column" /\ at' = "retention"
  /\ retention' = [d \in DOMAIN retention |-> IF retention[d] = None THEN "ask" ELSE retention[d]]
  /\ UNCHANGED <<version, made, unique, samples, reviewed, undecided, wanted, starts>>

\* Mutant of PredatesRetention: every older version is taken for one that never asked.
PredatesCurrent == version < CurrentVersion

PredatesRetention == version < RetentionVersion

\* Documents of a build that never asked are kept without asking.
KeepOldDocuments ==
  /\ at = "retention" /\ at' = "parts"
  /\ retention' = IF PredatesRetention THEN [d \in DOMAIN retention |-> "keep_encrypted"] ELSE retention
  /\ UNCHANGED <<version, made, unique, samples, reviewed, undecided, wanted, starts>>

\* A column that is there is not added again; each group of tables and columns is its own commit.
AddPart ==
  /\ at = "parts"
  /\ \/ \E part \in Part \ made : made' = made \union {part} /\ UNCHANGED at
     \/ made = Schema /\ at' = "profile" /\ UNCHANGED made
  /\ UNCHANGED <<version, unique, retention, samples, reviewed, undecided, wanted, starts>>

\* Samples are recognized by what they say, so those a student took back look untouched too.
QuarantineUntouchedLegacyDemo ==
  /\ samples' = [s \in Sample |->
       IF ~reviewed /\ samples[s] \in {"untouched", "restored"} THEN "quarantined" ELSE samples[s]]
  /\ reviewed' = TRUE

\* The courses move to a table without the constraint.
RebuildLegacyCoursesTable == unique' = FALSE

\* profile.rs: migrate, in a savepoint.
MigrateProfile ==
  /\ at = "profile" /\ at' = "version"
  /\ RebuildLegacyCoursesTable
  /\ QuarantineUntouchedLegacyDemo
  /\ UNCHANGED <<version, made, retention, undecided, wanted, starts>>

WriteVersion ==
  /\ at = "version" /\ at' = "running"
  /\ version' = CurrentVersion
  /\ UNCHANGED <<made, unique, retention, samples, reviewed, undecided, wanted, starts>>

\* The program ends, or a step fails and the program does not start.
Stop == /\ at # "off" /\ at' = "off"
        /\ UNCHANGED <<version, made, unique, retention, samples, reviewed, undecided, wanted, starts>>

-----------------------------------------------------------------------------
Import(d) ==
  /\ at = "running" /\ d \notin DOMAIN retention
  /\ retention' = [other \in DOMAIN retention \union {d} |-> IF other = d THEN "ask" ELSE retention[other]]
  /\ undecided' = undecided \union {d}
  /\ UNCHANGED <<version, at, made, unique, samples, reviewed, wanted, starts>>

Settle(d, decision) ==
  /\ at = "running"
  /\ retention' = [retention EXCEPT ![d] = decision]
  /\ undecided' = undecided \ {d}
  /\ UNCHANGED <<version, at, made, unique, samples, reviewed, wanted, starts>>

RestoreQuarantine(ids) ==
  /\ at = "running"
  /\ \A s \in ids : samples[s] = "quarantined"
  /\ samples' = [s \in Sample |-> IF s \in ids THEN "restored" ELSE samples[s]]
  /\ wanted' = wanted \union ids
  /\ UNCHANGED <<version, at, made, unique, retention, reviewed, undecided, starts>>

PurgeQuarantine ==
  /\ at = "running"
  /\ samples' = [s \in Sample |-> IF samples[s] = "quarantined" THEN "gone" ELSE samples[s]]
  /\ UNCHANGED <<version, at, made, unique, retention, reviewed, undecided, wanted, starts>>

Next == \/ Open \/ MakeTables \/ AddRetentionColumn \/ KeepOldDocuments \/ AddPart \/ MigrateProfile
        \/ WriteVersion \/ Stop
        \/ \E d \in Document : Import(d)
        \/ \E d \in DOMAIN retention, decision \in {"keep_encrypted", "delete_now"} : Settle(d, decision)
        \/ \E ids \in SUBSET Sample \ {{}} : RestoreQuarantine(ids)
        \/ PurgeQuarantine

Spec == Init /\ [][Next]_vars

-----------------------------------------------------------------------------
\* Whatever build wrote the profile and wherever earlier starts ended: once the program runs, the
\* schema is whole, exactly the documents it promised to ask about are open, and of the samples
\* exactly those the student changed or took back are in the workspace.
UpgradeKeeps ==
  at = "running" =>
    /\ made = Schema /\ ~unique
    /\ {d \in DOMAIN retention : retention[d] = "ask"} = undecided
    /\ {s \in Sample : samples[s] \in {"untouched", "edited", "restored"}} = wanted
=============================================================================
