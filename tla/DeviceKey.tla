------------------------------ MODULE DeviceKey ------------------------------
(***************************************************************************)
(* The key that a profile's database is encrypted with, found or made at   *)
(* each start.  On Windows it is a protected file, with a copy in the      *)
(* credential vault, where older versions kept the only one; elsewhere it  *)
(* is in the credential vault alone.  Keys are numbers, 0 none.            *)
(***************************************************************************)
EXTENDS Integers

CONSTANTS MaxKeys, MaxFailures

ASSUME KeysAssumption == MaxKeys \in Nat \ {0}

VARIABLES windows,     \* what the program is built for
          pc, protected, credential, database,
          key,       \* what the start under way has
          made,      \* keys made so far
          unreadable,  \* whether the credential vault has ever failed or lost its entry, kept by no code
          failures

vars == <<windows, pc, protected, credential, database, key, made, unreadable, failures>>

Legacy == credential = 1 /\ database = 1 /\ made = 1

Init == /\ windows \in BOOLEAN
        /\ pc = "off" /\ protected = 0 /\ key = 0
        /\ \/ credential = 0 /\ database = 0 /\ made = 0
           \/ Legacy
        /\ unreadable = FALSE
        /\ failures = 0

TypeOK == /\ windows \in BOOLEAN
          /\ pc \in {"off", "protected", "credential", "keep", "make", "copy", "open", "running", "refused"}
          /\ {protected, credential, database, key} \subseteq 0 .. MaxKeys

Keep == UNCHANGED <<protected, credential, database, key, made, unreadable, failures>>

Start == pc \in {"off", "refused"} /\ pc' = (IF windows THEN "protected" ELSE "credential")
         /\ key' = 0 /\ UNCHANGED <<protected, credential, database, made, unreadable, failures>>

ReadProtected ==
  /\ pc = "protected"
  /\ pc' = IF protected # 0 THEN "open" ELSE "credential"
  /\ key' = protected
  /\ UNCHANGED <<protected, credential, database, made, unreadable, failures>>

ReadCredential ==
  /\ pc = "credential" /\ credential # 0
  /\ key' = credential
  /\ pc' = IF windows THEN "keep" ELSE "open"
  /\ UNCHANGED <<protected, credential, database, made, unreadable, failures>>

\* Mutant of MayMake: a key is made although there is a database.
MayAlwaysMake == TRUE

\* Windows makes no key for a database that is there already.
MayMake == windows => database = 0

NoCredential ==
  /\ pc = "credential" /\ credential = 0
  /\ pc' = IF MayMake THEN "make" ELSE "refused"
  /\ Keep

\* What is not an entry that can be read is no key, as if there were none.
CredentialFails ==
  /\ pc = "credential"
  /\ failures < MaxFailures /\ failures' = failures + 1
  /\ unreadable' = TRUE
  /\ pc' = IF MayMake THEN "make" ELSE "refused"
  /\ UNCHANGED <<protected, credential, database, key, made>>

WriteProtected ==
  /\ pc = "keep"
  /\ protected' = key
  /\ pc' = "open"
  /\ UNCHANGED <<credential, database, key, made, unreadable, failures>>

\* A new key is stored before anything is encrypted with it.
Make ==
  /\ pc = "make" /\ made < MaxKeys
  /\ made' = made + 1
  /\ key' = made + 1
  /\ IF windows
     THEN protected' = made + 1 /\ pc' = "copy" /\ UNCHANGED credential
     ELSE credential' = made + 1 /\ pc' = "open" /\ UNCHANGED protected
  /\ UNCHANGED <<database, unreadable, failures>>

\* The copy may fail.
Copy ==
  /\ pc = "copy"
  /\ credential' \in {credential, key}
  /\ pc' = "open"
  /\ UNCHANGED <<protected, database, key, made, unreadable, failures>>

OpenDatabase ==
  /\ pc = "open"
  /\ database' = IF database = 0 THEN key ELSE database
  /\ pc' = IF database \in {0, key} THEN "running" ELSE "refused"
  /\ UNCHANGED <<protected, credential, key, made, unreadable, failures>>

\* A step fails, which ends the start, or the program stops.
Ends ==
  /\ pc \notin {"off", "refused"}
  /\ pc' = "off"
  /\ Keep

\* The entry of the credential vault is gone, by another hand.
LoseCredential ==
  /\ pc = "off" /\ credential # 0
  /\ credential' = 0
  /\ unreadable' = TRUE
  /\ UNCHANGED <<pc, protected, database, key, made, failures>>

Step == \/ Start \/ ReadProtected \/ ReadCredential \/ NoCredential \/ CredentialFails
        \/ WriteProtected \/ Make \/ Copy \/ OpenDatabase \/ Ends \/ LoseCredential

Next == Step /\ UNCHANGED windows

Spec == Init /\ [][Next]_vars

-----------------------------------------------------------------------------
\* A start never takes another key than the one the database is encrypted with, and the key
\* is stored as long as there is a database: on Windows whatever the credential vault does,
\* unless it was the only place of an older version's key, elsewhere as long as it can be read.
KeyOpensDatabase ==
  database # 0 =>
    /\ pc = "open" /\ (windows \/ ~unreadable) => key = database
    /\ database \in {protected, credential} \/ (unreadable /\ protected = 0)
=============================================================================
