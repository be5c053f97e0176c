----------------------------- MODULE AccountLog -----------------------------
(***************************************************************************)
(* What the synchronization service promises the computers of an account:  *)
(* one append-only log of mutations.  Every entry keeps its position, new  *)
(* entries come after the old ones, no mutation is in it twice, and what a *)
(* computer counts as uploaded is in it (DESKTOP_ARCHITECTURE.md: "Mutation *)
(* IDs are idempotent but cannot be reused with different ciphertext").    *)
(*                                                                         *)
(* SyncUpload implements this log with requests that are lost, late and    *)
(* retried; CanonicalMerge relies on it.                                   *)
(***************************************************************************)
EXTENDS Naturals

CONSTANT Client

VARIABLES
  log,           \* the entries: records of a position and the mutation's id
  uploaded       \* the ids each client counts as uploaded

Init == log = {} /\ uploaded = [c \in Client |-> {}]

\* A client may also forget: a restored backup brings back an older state.
Next ==
  /\ log \subseteq log'
  /\ \A r \in log, s \in log' \ log : r.position < s.position
  /\ \A r, s \in log' : r.id = s.id \/ r.position = s.position => r = s
  /\ \A c \in Client : uploaded'[c] \subseteq {r.id : r \in log'}

Spec == Init /\ [][Next]_<<log, uploaded>>
=============================================================================
