--------------------------- MODULE AccountDevices ---------------------------
(***************************************************************************)
(* The computers of an account: how one comes to hold the account key, is  *)
(* registered, approved and revoked, and what it may write and read        *)
(* (sync_crypto.rs: confirm, recover, begin_existing_device_approval,      *)
(* accept_existing_device_approval; main.rs: the commands around them,     *)
(* connect_encrypted_sync, upsert_peer_device, pull_encrypted_mutations;   *)
(* app.ts, authorizing-repository.ts, sync-repository.ts).                 *)
(*                                                                         *)
(* A call to the service is several requests to its database, and other    *)
(* calls run in between: it reads, decides, and writes.  A call that is    *)
(* given up goes on in the service, or stops between two of its steps.     *)
(*                                                                         *)
(* An account key is named by the device identity that was made with it.   *)
(* A row of the log stands for an uploaded batch (SyncUpload says how it   *)
(* gets there), an author's signature for its device identity.  Envelopes  *)
(* that expired or were consumed are never listed again and are dropped.   *)
(***************************************************************************)
EXTENDS Naturals, Sequences, FiniteSets

CONSTANTS
  Computer,
  Device,        \* device identities, in the order they are made
  None,
  PageSize,      \* rows in a downloaded page: 500 in the code
  MaxKeys,       \* bound: account keys made
  MaxRows,       \* bound: rows uploaded
  MaxRevoked,    \* bound: revocations asked for
  MaxExpired,    \* bound: approval envelopes that expire
  MaxFaults,     \* bound: calls that are given up
  MaxTogether    \* bound: all of these in one behaviour

ASSUME DeviceAssumption ==
  /\ Device \subseteq Nat /\ None \notin Device
  /\ PageSize \in Nat \ {0}
  /\ {MaxKeys, MaxRows, MaxRevoked, MaxExpired, MaxFaults, MaxTogether} \subseteq Nat

VARIABLES
  vault,      \* the credential vault of each computer's operating system
  profile,    \* what each computer's database says of the account
  phrases,    \* the account keys the student wrote down
  devices,    \* student_center_devices: the state of each identity
  envelopes,  \* student_center_device_envelopes
  rows,       \* student_center_encrypted_mutations, in sequence order
  calls,      \* calls to the service in progress
  revoked, expired, faults   \* how many there were of each so far

vars == <<vault, profile, phrases, devices, envelopes, rows, calls,
          revoked, expired, faults>>

-----------------------------------------------------------------------------
Vault ==
  [pending : Device \cup {None},   \* identity that waits for approval
   device  : Device \cup {None},   \* identity of the persisted secrets ...
   key     : Device \cup {None}]   \* ... and their account key

Profile ==
  [connected : Device \cup {None},   \* sync_state.device_id
   pinned    : SUBSET Device,        \* sync_devices
   cursor    : Nat]

Status == {"absent", "pending", "authorized", "revoked"}

Envelope == [sender : Device, target : Device, key : Device]

Row == [author : Device, key : Device]

\* step is the next thing the service does for the call.
Call ==
  [kind : {"register", "approve", "revoke", "push"},
   step : {"check", "save", "recheck", "write"},
   from : Computer, device : Device, target : Device, key : Device \cup {None},
   silent : BOOLEAN,      \* register: approval is not requested; then, granted
   awaited : BOOLEAN]

Init ==
  /\ vault = [c \in Computer |-> [pending |-> None, device |-> None, key |-> None]]
  /\ profile = [c \in Computer |-> [connected |-> None, pinned |-> {}, cursor |-> 0]]
  /\ phrases = {}
  /\ devices = [d \in Device |-> "absent"]
  /\ envelopes = {} /\ rows = <<>> /\ calls = {}
  /\ revoked = 0 /\ expired = 0 /\ faults = 0

Authorized(d) == devices[d] = "authorized"

-----------------------------------------------------------------------------
(* Identities and keys on a computer *)

Protected(c) == vault[c].device # None

Made == UNION {{vault[c].pending, vault[c].device} : c \in Computer}
          \cup {d \in Device : devices[d] # "absent"} \cup phrases

\* A new random identity.
NewDevice == {d \in Device \ Made : \A e \in Device \ Made : d <= e}

Keep(c, device, key) == vault' = [vault EXCEPT ![c].device = device, ![c].key = key]

\* begin and confirm: nothing persists before the words are confirmed, and
\* leaving the dialog cancels the setup.
Protect(c) ==
  /\ ~Protected(c)
  /\ Cardinality(phrases) < MaxKeys
  /\ \E d \in NewDevice : Keep(c, d, d) /\ phrases' = phrases \cup {d}
  /\ UNCHANGED <<profile, devices, envelopes, rows, calls, revoked, expired, faults>>

Recover(c) ==
  /\ ~Protected(c)
  /\ \E d \in NewDevice, key \in phrases : Keep(c, d, key)
  /\ UNCHANGED <<profile, phrases, devices, envelopes, rows, calls, revoked, expired, faults>>

\* begin_existing_device_approval: an identity without an account key.
MakePending(c) ==
  /\ ~Protected(c)
  /\ vault[c].pending = None
  /\ \E d \in NewDevice : vault' = [vault EXCEPT ![c].pending = d]
  /\ UNCHANGED <<profile, phrases, devices, envelopes, rows, calls, revoked, expired, faults>>

\* check_existing_device_approval: the envelopes the service lists, one of which
\* is adopted; telling the service that it was consumed may fail.
Adoptable(c) == {e \in envelopes : e.target = vault[c].pending /\ Authorized(e.sender)}

CheckApproval(c) ==
  /\ ~Protected(c)
  /\ vault[c].pending # None
  /\ devices[vault[c].pending] \in {"pending", "authorized"}
  /\ \E e \in Adoptable(c) :
       /\ vault' = [vault EXCEPT ![c] = [pending |-> None, device |-> e.target, key |-> e.key]]
       /\ envelopes' \in {envelopes, envelopes \ {e}}
  /\ UNCHANGED <<profile, phrases, devices, rows, calls, revoked, expired, faults>>

\* The bounds on what goes wrong leave room for another time.
MayGoWrong == revoked + expired + faults < MaxTogether

Expire ==
  /\ expired < MaxExpired /\ MayGoWrong
  /\ expired' = expired + 1
  /\ \E e \in envelopes : envelopes' = envelopes \ {e}
  /\ UNCHANGED <<vault, profile, phrases, devices, rows, calls, revoked, faults>>

-----------------------------------------------------------------------------
(* Calls to the service *)

\* The interface is busy until the call it made ends.
Idle(c) == \A r \in calls : ~(r.from = c /\ r.awaited)

Start(c, kind, device, target, key, silent) ==
  /\ Idle(c)
  /\ calls' = calls \cup {[kind |-> kind, step |-> "check", from |-> c, device |-> device,
                            target |-> target, key |-> key, silent |-> silent, awaited |-> TRUE]}

\* request_existing_device_approval
RequestApproval(c) ==
  /\ ~Protected(c)
  /\ vault[c].pending # None
  /\ devices[vault[c].pending] = "absent"
  /\ Start(c, "register", vault[c].pending, vault[c].pending, None, FALSE)
  /\ UNCHANGED <<vault, profile, phrases, devices, envelopes, rows, revoked, expired, faults>>

\* connect_encrypted_sync
Connect(c) ==
  /\ Protected(c)
  /\ profile[c].connected # vault[c].device
  /\ devices[vault[c].device] \in {"absent", "authorized"}
  /\ Start(c, "register", vault[c].device, vault[c].device, None, TRUE)
  /\ UNCHANGED <<vault, profile, phrases, devices, envelopes, rows, revoked, expired, faults>>

\* approve_sync_device: the target is in the list of pending devices, which the
\* service shows to authorized devices.
Approve(c, d) ==
  /\ Protected(c)
  /\ Authorized(vault[c].device)
  /\ devices[d] = "pending"
  /\ Start(c, "approve", vault[c].device, d, vault[c].key, FALSE)
  /\ UNCHANGED <<vault, profile, phrases, devices, envelopes, rows, revoked, expired, faults>>

\* revoke_sync_device, of another computer or of this one
Revoke(c, d) ==
  /\ revoked < MaxRevoked /\ MayGoWrong
  /\ Protected(c)
  /\ Authorized(vault[c].device)
  /\ Authorized(d)
  /\ Start(c, "revoke", vault[c].device, d, None, FALSE)
  /\ revoked' = revoked + 1
  /\ UNCHANGED <<vault, profile, phrases, devices, envelopes, rows, expired, faults>>

Connected(c) == Protected(c) /\ profile[c].connected = vault[c].device

Reads(c) == Connected(c) /\ Authorized(vault[c].device)

\* push_encrypted_mutations
Push(c) ==
  /\ Connected(c)
  /\ Len(rows) + Cardinality({r \in calls : r.kind = "push"}) < MaxRows
  /\ Start(c, "push", vault[c].device, vault[c].device, vault[c].key, FALSE)
  /\ UNCHANGED <<vault, profile, phrases, devices, envelopes, rows, revoked, expired, faults>>

GiveUp(r) ==
  /\ r.awaited
  /\ faults < MaxFaults /\ MayGoWrong
  /\ faults' = faults + 1
  /\ calls' = (calls \ {r}) \cup {[r EXCEPT !.awaited = FALSE]}
  /\ UNCHANGED <<vault, profile, phrases, devices, envelopes, rows, revoked, expired>>

\* The service stops between two steps of a call nobody waits for.
Stop(r) ==
  /\ ~r.awaited
  /\ calls' = calls \ {r}
  /\ UNCHANGED <<vault, profile, phrases, devices, envelopes, rows, revoked, expired, faults>>

-----------------------------------------------------------------------------
(* The service *)

Ends(r) == calls' = calls \ {r}

Goes(r, step) ==
  calls' = (calls \ {r}) \cup (IF step = "done" THEN {} ELSE {[r EXCEPT !.step = step]})

\* What the caller does with the answer: a connection is recorded, a computer
\* that revoked itself forgets its sync_state.
Answered(r) ==
  profile' =
    IF r.awaited /\ r.kind = "register" /\ r.silent /\ devices'[r.device] = "authorized"
         /\ vault[r.from].device = r.device
    THEN [profile EXCEPT ![r.from].connected = r.device]
    ELSE IF r.awaited /\ r.kind = "revoke" /\ devices'[r.target] = "revoked" /\ r.target = r.device
    THEN [profile EXCEPT ![r.from].connected = None, ![r.from].cursor = 0]
    ELSE profile

Surviving == {d \in Device : devices[d] \in {"pending", "authorized"}}

\* registerDevice: a device that is there is answered for as it is; a new one is
\* authorized at once only if none survives.
RegisterCheck(r) ==
  /\ r.kind = "register" /\ r.step = "check"
  /\ IF devices[r.device] # "absent"
     THEN Ends(r) /\ UNCHANGED devices /\ Answered(r)
     ELSE /\ calls' = (calls \ {r}) \cup
                        {[r EXCEPT !.step = "write", !.silent = @ /\ Surviving = {}]}
          /\ UNCHANGED <<devices, profile>>
  /\ UNCHANGED <<vault, phrases, envelopes, rows, revoked, expired, faults>>

\* The insert fails when a late call has registered the device already.
RegisterWrite(r) ==
  /\ r.kind = "register" /\ r.step = "write"
  /\ devices' = IF devices[r.device] # "absent" THEN devices
                ELSE [devices EXCEPT ![r.device] = IF r.silent THEN "authorized" ELSE "pending"]
  /\ IF devices[r.device] = "absent" THEN Answered(r) ELSE UNCHANGED profile
  /\ Ends(r)
  /\ UNCHANGED <<vault, phrases, envelopes, rows, revoked, expired, faults>>

\* Mutant of ApproveFollows: the device is authorized before its envelope is saved.
ApproveFollowsLate == [check |-> "recheck", recheck |-> "write", write |-> "save", save |-> "done"]

\* POST /v1/devices/:id/approve, step by step.
ApproveFollows == [check |-> "save", save |-> "recheck", recheck |-> "write", write |-> "done"]

ApproveCheck(r) ==
  /\ r.kind = "approve" /\ r.step = "check"
  /\ IF Authorized(r.device) /\ devices[r.target] = "pending"
     THEN Goes(r, ApproveFollows[r.step])
     ELSE Ends(r)
  /\ UNCHANGED <<vault, profile, phrases, devices, envelopes, rows, revoked, expired, faults>>

\* The envelope is saved first ...
ApproveSave(r) ==
  /\ r.kind = "approve" /\ r.step = "save"
  /\ envelopes' = envelopes \cup {[sender |-> r.device, target |-> r.target, key |-> r.key]}
  /\ Goes(r, ApproveFollows[r.step])
  /\ UNCHANGED <<vault, profile, phrases, devices, rows, revoked, expired, faults>>

\* ... and then authorizes the device, unless it was revoked.
ApproveRecheck(r) ==
  /\ r.kind = "approve" /\ r.step = "recheck"
  /\ IF devices[r.target] = "revoked" THEN Ends(r) ELSE Goes(r, ApproveFollows[r.step])
  /\ UNCHANGED <<vault, profile, phrases, devices, envelopes, rows, revoked, expired, faults>>

\* Mutant of Patched: the filter revoked_at=is.null is left out.
PatchedAnyway(d) == "authorized"

Patched(d) == IF devices[d] = "revoked" THEN "revoked" ELSE "authorized"

ApproveWrite(r) ==
  /\ r.kind = "approve" /\ r.step = "write"
  /\ devices' = [devices EXCEPT ![r.target] = Patched(r.target)]
  /\ Goes(r, ApproveFollows[r.step])
  /\ UNCHANGED <<vault, profile, phrases, envelopes, rows, revoked, expired, faults>>

\* DELETE /v1/devices/:id
RevokeCheck(r) ==
  /\ r.kind = "revoke" /\ r.step = "check"
  /\ IF Authorized(r.device) THEN Goes(r, "write") ELSE Ends(r)
  /\ UNCHANGED <<vault, profile, phrases, devices, envelopes, rows, revoked, expired, faults>>

RevokeWrite(r) ==
  /\ r.kind = "revoke" /\ r.step = "write"
  /\ devices' = [devices EXCEPT ![r.target] = "revoked"]
  /\ Ends(r)
  /\ Answered(r)
  /\ UNCHANGED <<vault, phrases, envelopes, rows, revoked, expired, faults>>

\* POST /v1/sync/push: the route and the decorator look the device up ...
PushCheck(r) ==
  /\ r.kind = "push" /\ r.step = "check"
  /\ IF Authorized(r.device) THEN Goes(r, "write") ELSE Ends(r)
  /\ UNCHANGED <<vault, profile, phrases, devices, envelopes, rows, revoked, expired, faults>>

\* Mutant of PolicyAdmits: the policy looks at the account alone.
PolicyAdmitsAccount(d) == TRUE

\* ... and the insert policy of the database does so once more.
PolicyAdmits(d) == Authorized(d)

PushWrite(r) ==
  /\ r.kind = "push" /\ r.step = "write"
  /\ rows' = IF PolicyAdmits(r.device)
             THEN Append(rows, [author |-> r.device, key |-> r.key])
             ELSE rows
  /\ Ends(r)
  /\ UNCHANGED <<vault, profile, phrases, devices, envelopes, revoked, expired, faults>>

Serve(r) ==
  \/ RegisterCheck(r) \/ RegisterWrite(r)
  \/ ApproveCheck(r) \/ ApproveSave(r) \/ ApproveRecheck(r) \/ ApproveWrite(r)
  \/ RevokeCheck(r) \/ RevokeWrite(r)
  \/ PushCheck(r) \/ PushWrite(r)

-----------------------------------------------------------------------------
(* Downloading *)

\* Mutant of Peers: only an empty cache is warmed.
PeersOnce(c) ==
  IF profile[c].pinned = {} THEN {d \in Device : Authorized(d)} ELSE {}

\* The devices the service lists.
Peers(c) == {d \in Device : Authorized(d)}

\* The pull begins by pinning every listed key.
PinPeers(c) ==
  /\ Reads(c)
  /\ profile' = [profile EXCEPT ![c].pinned = @ \cup Peers(c)]
  /\ UNCHANGED <<vault, phrases, devices, envelopes, rows, calls, revoked, expired, faults>>

Page(c) ==
  LET from == profile[c].cursor
  IN  {i \in 1 .. Len(rows) : from < i /\ i <= from + PageSize}

\* The cursor of a page is the sequence of its last row.
PageEnd(c) == profile[c].cursor + Cardinality(Page(c))

\* The signature is by a pinned device and the ciphertext under the key held.
Opens(c, row) == row.author \in profile[c].pinned /\ row.key = vault[c].key

\* One row that cannot be opened stops the pull where the page began.
PullPage(c) ==
  /\ Reads(c)
  /\ Page(c) # {}
  /\ \A i \in Page(c) : Opens(c, rows[i])
  /\ profile' = [profile EXCEPT ![c].cursor = PageEnd(c)]
  /\ UNCHANGED <<vault, phrases, devices, envelopes, rows, calls, revoked, expired, faults>>

-----------------------------------------------------------------------------
Setup(c) == Protect(c) \/ Recover(c) \/ MakePending(c)

Join(c) == RequestApproval(c) \/ CheckApproval(c) \/ Connect(c)

Next ==
  \/ \E c \in Computer :
       \/ Setup(c) \/ Join(c) \/ Push(c) \/ PinPeers(c) \/ PullPage(c)
       \/ \E d \in Device : Approve(c, d) \/ Revoke(c, d)
  \/ \E r \in calls : Serve(r) \/ GiveUp(r) \/ Stop(r)
  \/ Expire

Spec == Init /\ [][Next]_vars

\* The student sees every dialog through, on every computer: what is requested
\* is checked and connected, what is pending is approved, Synchronize is pressed
\* again and again; the service answers.
FairSpec ==
  /\ Spec
  /\ WF_vars(\E r \in calls : r.awaited /\ Serve(r))
  /\ \A c \in Computer :
       /\ SF_vars(RequestApproval(c)) /\ WF_vars(CheckApproval(c)) /\ SF_vars(Connect(c))
       /\ WF_vars(PinPeers(c)) /\ WF_vars(PullPage(c))
       /\ \A d \in Device : SF_vars(Approve(c, d))

-----------------------------------------------------------------------------
(* Properties *)

TypeOK ==
  /\ vault \in [Computer -> Vault]
  /\ profile \in [Computer -> Profile]
  /\ phrases \subseteq Device
  /\ devices \in [Device -> Status]
  /\ envelopes \subseteq Envelope
  /\ rows \in Seq(Row)
  /\ calls \subseteq Call
  /\ revoked \in Nat /\ expired \in Nat /\ faults \in Nat
  /\ \A c \in Computer : profile[c].cursor <= Len(rows)

\* "Approval must never resurrect a revoked device" (sync-repository.ts:140),
\* not even an approval that was checked before the revocation.
ApprovalNeverResurrects ==
  [][\A d \in Device : devices[d] = "revoked" => devices'[d] = "revoked"]_vars

\* The log is appended to only for an approved, unrevoked device, also when it
\* is revoked while its push is on the way (README.md:29).
AppendedByAuthorized ==
  [][\A i \in 1 .. Len(rows') : i > Len(rows) => Authorized(rows'[i].author)]_vars

\* A computer that asked an account with an authorized computer for approval gets the account
\* key, whichever of its calls are given up or stopped, as long as no device is revoked and no
\* envelope expires.
EventuallyApproved ==
  \A c \in Computer :
    (/\ vault[c].pending # None
     /\ \E b \in Computer : Reads(b)) ~> (Protected(c) \/ revoked + expired > 0)

\* A connected, authorized computer downloads every row.
EventuallyReceived ==
  \A c \in Computer : \A i \in 1 .. MaxRows :
    (Reads(c) /\ Len(rows) >= i) ~> (~Reads(c) \/ profile[c].cursor >= i)

\* It does in an account that has revoked no device, late envelopes and calls or not.
ReceivedUnlessRevoked ==
  \A c \in Computer : \A i \in 1 .. MaxRows :
    (Reads(c) /\ Len(rows) >= i) ~> (~Reads(c) \/ profile[c].cursor >= i \/ revoked > 0)
=============================================================================
