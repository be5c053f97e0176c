---------------------------- MODULE ProfileStore ----------------------------
(***************************************************************************)
(* What the profile's files promise, seen from outside: at every instant   *)
(* there is one profile, a database with its encrypted documents.  The     *)
(* student's own commands change its contents; a restore replaces the      *)
(* database and the documents together, in one step, by a complete backup. *)
(***************************************************************************)
EXTENDS Naturals

VARIABLES
  database,   \* the profile's database: [gen, docs, conns]
  documents   \* the documents whose encrypted file is in the vault

profile == <<database, documents>>

Init == database.gen = 0 /\ documents = database.docs

\* A command of the student: the same profile goes on.
Change == database'.gen = database.gen

\* A restore: another profile, whole.
Replace == database'.gen > database.gen /\ documents' = database'.docs

Spec == Init /\ [][Change \/ Replace]_profile
=============================================================================
