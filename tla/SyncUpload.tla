----------------------------- MODULE SyncUpload -----------------------------
(***************************************************************************)
(* Uploading recorded mutations (main.rs: prepare_sync_outbox,             *)
(* push_encrypted_mutations, connect_encrypted_sync with                   *)
(* bind_local_mutation_device; sync-repository.ts: pushMutations and the   *)
(* substitution trigger of the migrations).                                *)
(*                                                                         *)
(* A computer has an identity in the credential vault of its operating     *)
(* system and a profile in its database.  A push encrypts the oldest       *)
(* pending mutations into an outbox, sends them in one request and marks   *)
(* them uploaded when the answer comes.  A request that is given up may    *)
(* still reach the service later, or never.  Profiles are exported and     *)
(* restored, on the same or on another computer, with all their sync       *)
(* bookkeeping; identities are not.                                        *)
(*                                                                         *)
(* Mutations are numbered in the order they are recorded, which is the     *)
(* order of (hlc, id) in a profile.  All of a profile's mutations carry    *)
(* its device identity, so it is kept once, in the profile.  A nonce       *)
(* stands for the randomness of an encryption: two envelopes of a mutation *)
(* are the same ciphertext only if their nonces are.                       *)
(***************************************************************************)
EXTENDS Naturals, FiniteSets

CONSTANTS
  Computer,
  Nonce,
  BatchSize,      \* mutations in one push: 100 in the code
  None,
  MaxMutations,   \* bound: mutations recorded by all computers together
  MaxLocalOnly,   \* bound: ... of which are never replicated
  MaxGivenUp,     \* bound: requests given up
  MaxIdentities,  \* bound: identities made by all computers together
  MaxRestores     \* bound: backups restored

ASSUME UploadAssumption ==
  /\ Nonce \subseteq Nat
  /\ None \notin Nat
  /\ BatchSize \in Nat \ {0}
  /\ MaxMutations \in Nat /\ MaxLocalOnly \in Nat /\ MaxGivenUp \in Nat
  /\ MaxIdentities \in Nat /\ MaxRestores \in Nat

VARIABLES
  identity,    \* the sync identity in each computer's vault, or None
  profile,     \* the committed database of each computer
  backup,      \* the exported profile, or None
  push,        \* the envelopes a computer's push waits for an answer to; empty if none
  answer,      \* the service's answer to that push, or "none"
  requests,    \* the requests that may still reach the service
  rows,        \* the account's rows of student_center_encrypted_mutations
  recorded,    \* number of mutations recorded so far
  identities,  \* number of identities made so far
  givenUp,     \* number of requests given up so far
  restores     \* number of backups restored so far

vars == <<identity, profile, backup, push, answer, requests, rows,
          recorded, identities, givenUp, restores>>

-----------------------------------------------------------------------------
Mutation == [id : Nat, replicated : BOOLEAN]

\* An encrypted and signed mutation; device is part of its timestamp.
Envelope == [id : Nat, device : Nat, nonce : Nonce]

Stored == [sequence : Nat, envelope : Envelope]

\* none: the service has not answered yet.
Answer == {"none", "stored", "conflict"}

Request == [from : Computer, batch : SUBSET Envelope, awaited : BOOLEAN]

\* A profile is born with a device identity of its own, None, that no other
\* computer's profile shares until a backup is restored.
Profile ==
  [mutations : SUBSET Mutation,
   uploaded  : SUBSET Nat,          \* sync_uploaded_mutations
   outbox    : SUBSET Envelope,     \* sync_outbox
   device    : Nat \cup {None},     \* local_device_id
   connected : Nat \cup {None}]     \* sync_state.device_id

EmptyProfile ==
  [mutations |-> {}, uploaded |-> {}, outbox |-> {}, device |-> None, connected |-> None]

Ids(envelopes) == {e.id : e \in envelopes}

StoredEnvelopes == {r.envelope : r \in rows}

Init ==
  /\ identity = [c \in Computer |-> None]
  /\ profile = [c \in Computer |-> EmptyProfile]
  /\ backup = None
  /\ push = [c \in Computer |-> {}]
  /\ answer = [c \in Computer |-> "none"]
  /\ requests = {} /\ rows = {}
  /\ recorded = 0 /\ identities = 0 /\ givenUp = 0 /\ restores = 0

-----------------------------------------------------------------------------
(* The profile *)

\* mutation(): plans, reminders and other local-only records are recorded too.
Record(c, replicated) ==
  /\ recorded < MaxMutations
  /\ ~replicated =>
       Cardinality(UNION {{m \in profile[d].mutations : ~m.replicated} : d \in Computer})
         < MaxLocalOnly
  /\ recorded' = recorded + 1
  /\ profile' = [profile EXCEPT ![c].mutations = @ \cup {[id |-> recorded + 1, replicated |-> replicated]}]
  /\ UNCHANGED <<identity, backup, push, answer, requests, rows, identities, givenUp, restores>>

\* recover_sync_protection or the first setup: a fresh device identity.
Protect(c) ==
  /\ identity[c] = None
  /\ identities < MaxIdentities
  /\ identities' = identities + 1
  /\ identity' = [identity EXCEPT ![c] = identities + 1]
  /\ UNCHANGED <<profile, backup, push, answer, requests, rows, recorded, givenUp, restores>>

\* What bind_local_mutation_device leaves of a profile: mutations that were
\* never marked uploaded get the new identity, and their outbox is dropped.
Rebound(p, device) ==
  IF p.device = device THEN p ELSE [p EXCEPT !.device = device, !.outbox = {}]

\* Mutant of MayBind: what was uploaded is not looked at.
MayAlwaysBind(p, device) == TRUE

MayBind(p, device) == p.device = device \/ p.uploaded = {}

\* connect_encrypted_sync, once the device is registered and authorized.
Connect(c) ==
  /\ identity[c] # None
  /\ profile[c].connected # identity[c]
  /\ MayBind(profile[c], identity[c])
  /\ profile' = [profile EXCEPT ![c] = [Rebound(@, identity[c]) EXCEPT !.connected = identity[c]]]
  /\ UNCHANGED <<identity, backup, push, answer, requests, rows, recorded, identities, givenUp, restores>>

Export(c) ==
  /\ backup = None
  /\ restores < MaxRestores
  /\ backup' = profile[c]
  /\ UNCHANGED <<identity, profile, push, answer, requests, rows, recorded, identities, givenUp, restores>>

\* The backup replaces the profile; a push in progress goes on with the
\* restored database.
Restore(c) ==
  /\ backup # None
  /\ restores < MaxRestores
  /\ restores' = restores + 1
  /\ profile' = [profile EXCEPT ![c] = backup]
  /\ UNCHANGED <<identity, backup, push, answer, requests, rows, recorded, identities, givenUp>>

-----------------------------------------------------------------------------
(* One push *)

Pending(p) == {m \in p.mutations : m.replicated /\ m.id \notin p.uploaded}

Oldest(mutations) ==
  {m \in mutations : Cardinality({n \in mutations : n.id < m.id}) < BatchSize}

\* Mutants of ToSend: local-only mutations are filtered after the limit, and
\* the newest mutations come first.
ToSendFiltered(p) ==
  {m \in Oldest({n \in p.mutations : n.id \notin p.uploaded}) : m.replicated}
ToSendNewest(p) ==
  {m \in Pending(p) : Cardinality({n \in Pending(p) : n.id > m.id}) < BatchSize}

ToSend(p) == Oldest(Pending(p))

\* Mutant of Reusable: every attempt encrypts again.
ReusesNothing(p) == {}

\* A saved envelope is sent again, byte for byte.
Reusable(p) == {e \in p.outbox : e.id \in Ids(ToSend(p)) /\ e.device = p.device}

UsedNonces ==
  {e.nonce : e \in StoredEnvelopes \cup UNION {r.batch : r \in requests}
                   \cup UNION {profile[c].outbox : c \in Computer}
                   \cup (IF backup = None THEN {} ELSE backup.outbox)}

Fresh == {n \in Nonce \ UsedNonces : \A k \in Nonce \ UsedNonces : n <= k}

\* The requests computer c still waits for an answer to.
Awaited(c) == {r \in requests : r.from = c /\ r.awaited}

\* prepare_sync_outbox, and the request it is for: a computer that stops in
\* between has sent a request that never arrives.
Push(c) ==
  /\ push[c] = {}
  /\ identity[c] # None
  /\ profile[c].connected = identity[c]
  /\ profile[c].device = identity[c]         \* the timestamps name this computer
  /\ ToSend(profile[c]) # {}
  /\ \E nonce \in Fresh :
       LET p     == profile[c]
           saved == Reusable(p)
           new   == {[id |-> m.id, device |-> p.device, nonce |-> nonce] :
                      m \in {n \in ToSend(p) : n.id \notin Ids(saved)}}
           kept  == {e \in p.outbox : e.id \notin Ids(new)}
       IN  /\ push' = [push EXCEPT ![c] = saved \cup new]
           /\ requests' = requests \cup {[from |-> c, batch |-> saved \cup new, awaited |-> TRUE]}
           /\ profile' = [profile EXCEPT ![c].outbox = kept \cup new]
  /\ answer' = [answer EXCEPT ![c] = "none"]
  /\ UNCHANGED <<identity, backup, rows, recorded, identities, givenUp, restores>>

\* The insert is refused as a whole when a stored row has one of the ids with
\* another ciphertext.
Substituted(batch) ==
  \E e \in batch, s \in StoredEnvelopes : s.id = e.id /\ s # e

\* Mutant of Missing: the unique constraint on mutation_id is gone.
MissingNone(batch) == batch

Missing(batch) == {e \in batch : e.id \notin Ids(StoredEnvelopes)}

\* pushMutations: rows that are there already are ignored.
Appended(batch) ==
  {[sequence |-> Cardinality(rows) + Cardinality({f \in Missing(batch) : f.id <= e.id}),
    envelope |-> e] : e \in Missing(batch)}

Verdict(r) == IF Substituted(r.batch) THEN "conflict" ELSE "stored"

\* The answer reaches the computer only while it waits for this request's.
Answers(r) == IF r.awaited THEN [answer EXCEPT ![r.from] = Verdict(r)] ELSE answer

Serve(r) ==
  /\ requests' = requests \ {r}
  /\ rows' = IF Substituted(r.batch) THEN rows ELSE rows \cup Appended(r.batch)
  /\ answer' = Answers(r)
  /\ UNCHANGED <<identity, profile, backup, push, recorded, identities, givenUp, restores>>

\* Mutant of Acknowledged: whatever is pending by now is marked uploaded.
AcknowledgedPending(p, batch) ==
  [p EXCEPT !.uploaded = @ \cup Ids(Pending(p)),
            !.outbox = {e \in @ : e.id \notin Ids(batch)}]

\* Mutant of Acknowledged: the outbox keeps what was uploaded.
AcknowledgedInOutbox(p, batch) == [p EXCEPT !.uploaded = @ \cup Ids(batch)]

Acknowledged(p, batch) ==
  [p EXCEPT !.uploaded = @ \cup Ids(batch),
            !.outbox = {e \in @ : e.id \notin Ids(batch)}]

\* The answer is recorded in one transaction.  sync_uploaded_mutations names
\* mutations by a foreign key, which fails if a restore took one away.
Acknowledge(c) ==
  /\ answer[c] = "stored"
  /\ push' = [push EXCEPT ![c] = {}]
  /\ answer' = [answer EXCEPT ![c] = "none"]
  /\ profile' = IF Ids(push[c]) \subseteq Ids(profile[c].mutations)
                THEN [profile EXCEPT ![c] = Acknowledged(@, push[c])]
                ELSE profile
  /\ UNCHANGED <<identity, backup, requests, rows, recorded, identities, givenUp, restores>>

Refused(c) ==
  /\ answer[c] = "conflict"
  /\ push' = [push EXCEPT ![c] = {}]
  /\ answer' = [answer EXCEPT ![c] = "none"]
  /\ UNCHANGED <<identity, profile, backup, requests, rows, recorded, identities, givenUp, restores>>

\* The call times out, the answer is lost or the computer stops.
GiveUp(c) ==
  /\ push[c] # {}
  /\ givenUp < MaxGivenUp
  /\ givenUp' = givenUp + 1
  /\ push' = [push EXCEPT ![c] = {}]
  /\ answer' = [answer EXCEPT ![c] = "none"]
  /\ requests' = (requests \ Awaited(c)) \cup {[r EXCEPT !.awaited = FALSE] : r \in Awaited(c)}
  /\ UNCHANGED <<identity, profile, backup, rows, recorded, identities, restores>>

\* A request nobody waits for is lost.
Lose(r) ==
  /\ ~r.awaited
  /\ requests' = requests \ {r}
  /\ UNCHANGED <<identity, profile, backup, push, answer, rows, recorded, identities, givenUp, restores>>

\* The computer is reinstalled or replaced: its profile is gone, and so are
\* its identity and the push it was in.
Replace(c) ==
  /\ identity[c] # None
  /\ identities < MaxIdentities
  /\ restores < MaxRestores
  /\ identity' = [identity EXCEPT ![c] = None]
  /\ profile' = [profile EXCEPT ![c] = EmptyProfile]
  /\ push' = [push EXCEPT ![c] = {}]
  /\ answer' = [answer EXCEPT ![c] = "none"]
  /\ requests' = (requests \ Awaited(c)) \cup {[r EXCEPT !.awaited = FALSE] : r \in Awaited(c)}
  /\ UNCHANGED <<backup, rows, recorded, identities, givenUp, restores>>

Student(c) ==
  \/ \E replicated \in BOOLEAN : Record(c, replicated)
  \/ Export(c) \/ Restore(c) \/ Replace(c)

Synchronize(c) == Protect(c) \/ Connect(c) \/ Push(c) \/ Acknowledge(c) \/ Refused(c)

Next ==
  \/ \E c \in Computer : Student(c) \/ Synchronize(c) \/ GiveUp(c)
  \/ \E r \in requests : Serve(r) \/ Lose(r)

Spec == Init /\ [][Next]_vars

\* The student keeps pressing Synchronize, and a call ends within its timeout:
\* answered, or given up.
FairSpec ==
  /\ Spec
  /\ \A c \in Computer : /\ WF_vars(Synchronize(c))
                          /\ WF_vars(\E r \in Awaited(c) : Serve(r))

-----------------------------------------------------------------------------
(* Properties *)

\* Every variable has its type; an outbox holds only what is not uploaded yet.
TypeOK ==
  /\ identity \in [Computer -> Nat \cup {None}]
  /\ profile \in [Computer -> Profile]
  /\ \A c \in Computer :
       Ids(profile[c].outbox) \subseteq Ids(profile[c].mutations) \ profile[c].uploaded
  /\ backup \in Profile \cup {None}
  /\ push \in [Computer -> SUBSET Envelope]
  /\ answer \in [Computer -> Answer]
  /\ requests \subseteq Request
  /\ rows \subseteq Stored
  /\ recorded \in Nat /\ identities \in Nat /\ givenUp \in Nat /\ restores \in Nat

\* A mutation marked uploaded is in the account's log, whatever was given up,
\* exported, restored or replaced in between.
AcknowledgedIsStored ==
  \A c \in Computer : profile[c].uploaded \subseteq Ids(StoredEnvelopes)

\* What a push between two of its steps, and a backup, rely on: the request in
\* the service is the one the computer waits for, its batch is stored once it is
\* answered, and a backup counts as uploaded only what is stored.
PushSound ==
  /\ \A r \in requests : r.awaited =>
       push[r.from] # {} /\ push[r.from] = r.batch /\ answer[r.from] = "none"
  /\ \A c \in Computer : answer[c] = "stored" =>
       push[c] # {} /\ Ids(push[c]) \subseteq Ids(StoredEnvelopes)
  /\ \A c \in Computer : answer[c] # "none" => push[c] # {}
  /\ backup # None => backup.uploaded \subseteq Ids(StoredEnvelopes)

Log ==
  INSTANCE AccountLog WITH
    Client   <- Computer,
    log      <- {[position |-> r.sequence, id |-> r.envelope.id] : r \in rows},
    uploaded <- [c \in Computer |-> profile[c].uploaded]

\* The rows are an append-only log that holds no mutation twice, however often
\* a request is retried, late or lost.
ImplementsLog == Log!Spec

\* A profile's mutations are stored in the order they were recorded, and none
\* is stored before an older one (as long as no backup is restored).
StoredInOrder ==
  restores = 0 =>
    \A c \in Computer, r \in rows : r.envelope.device = profile[c].device =>
      \A m \in profile[c].mutations :
        m.replicated /\ m.id < r.envelope.id =>
          \E s \in rows : s.envelope.id = m.id /\ s.sequence < r.sequence

\* Retries are idempotent (README.md:27): however often a call is given up, the
\* service never refuses a retry as a substitution (as long as no backup is
\* restored).
RetriesAreIdempotent ==
  restores = 0 =>
    /\ \A c \in Computer : answer[c] # "conflict"
    /\ \A r \in requests : ~Substituted(r.batch)

\* What a connected profile marked uploaded is stored under its own identity: a
\* bind never takes over what another identity uploaded (Export makes one backup).
UploadedUnderOwnIdentity ==
  \A c \in Computer : identity[c] # None /\ profile[c].connected = identity[c] =>
    \A e \in StoredEnvelopes : e.id \in profile[c].uploaded => e.device = profile[c].device

PendingIds(c) == Ids(Pending(profile[c]))

\* Everything recorded is uploaded, in the end.
EventuallyUploaded ==
  \A c \in Computer : \A i \in 1 .. MaxMutations : i \in PendingIds(c) ~> i \notin PendingIds(c)
=============================================================================
