# A formal model of Coqui Student Center

This directory specifies and verifies the parts of Coqui Student Center whose
correctness depends on the order in which things happen: how a student's records
reach the other computers of an account, how computers join an account and leave
it, how the files of a profile are replaced and upgraded, and how the planner, the
reviews, the reminders and the credentials of one computer behave while the
student, a thread and a slow network work on them at once.  The specifications are
TLA+, checked by TLC on small instances and, where it says so, proved with TLAPS
for every size.

Paths are relative to `src/`.  `main.rs` and the other Rust files are those of
`apps/desktop/src-tauri/src/`, `app.ts`, `authorizing-repository.ts` and
`sync-repository.ts` those of `services/cloud-api/src/`, `StudentCenter.tsx` is in
`apps/desktop-ui/src/`, the SQL in `supabase/migrations/`.

## 1. The system

A student runs a desktop program (Tauri: Rust commands under a React interface) on
one or more computers.  Each computer has an encrypted database, a directory of
encrypted documents and entries in the operating system's credential vault.  The
computers never talk to each other: they upload encrypted mutations to a small
HTTP service over a Postgres database, and download the others'.

| Component | State | Operations | What is hard | What makes it correct |
| --- | --- | --- | --- | --- |
| Hybrid clock (`main.rs:1432-1488`) | two settings: physical time, counter | tick, observe | equal readings on two computers, a remote reading ahead of the wall clock | an edit is newer than all its author had merged; the order of keys is the same everywhere |
| Records and mutations (`main.rs:1279-1409`, `profile.rs`) | rows, dependency rows, source conflicts, the mutations table | create, update, toggle, delete, resolve a conflict | a row and its mutation are two autocommitted statements; cascades | a crash loses at most the mutation of one change |
| Merge and pull (`main.rs:4955-5703`) | version registers, set elements, received and deferred mutations, cursor, one open transaction | drain what was deferred, download a page, apply, commit or roll back | any order of arrival, re-delivery, overlapping pulls, a crash between two steps, a build that does not know a type yet | the same mutations give the same registers; nothing is skipped; completions and critical dates survive |
| Upload (`main.rs:4402-4906`) | outbox, uploaded marks, device identity of the profile | prepare, push, acknowledge, bind to a new identity | answers that are lost or late, backups that bring an older state back, replaced computers | what is marked uploaded is stored; a retry is not a substitution |
| Sync service (`app.ts`, `authorizing-repository.ts`, `sync-repository.ts`) | none of its own; every call is several requests to the database | register, approve, revoke, push, pull, objects | calls of several devices interleave between the read and the write | only authorized devices append; a revoked device stays revoked |
| Sync database (SQL) | devices, envelopes, append-only mutations, objects | insert, patch, policies, substitution trigger | sequence order against commit order | a stored mutation is never replaced |
| Account devices (`sync_crypto.rs`, `main.rs:4182-4660`) | pending and persisted identity and account key in the vault; pinned peer keys | set up, recover, ask for approval, approve, adopt, revoke | half-done approvals, expired envelopes, revoked authors | whoever is approved gets the key; whoever is connected reads everything |
| Backup and restore (`backup.rs`, `main.rs:8853-9234`) | database file, vault directory, what was moved aside, journal, stage | export, stage, swap, recover at the next start | four renames and a journal, a stop or a failure at any of them | the profile is replaced in one step or not at all |
| Profile deletion (`main.rs:4037-4138`) | the same files, credentials | move the vault aside, reset, remove | partial failure | the student is told the truth about what is left |
| Documents (`main.rs:7337-7600`) | rows and encrypted files | import, settle, show | file and row are written apart | a row finds its file |
| Document transfer (`sync_transport.rs`, `main.rs:5704-5833`) | object manifest and chunks in the service, rows and files on each computer | upload, download, delete | a retry of a half-done upload, a stop between file and row | a row finds its file, and a document is taken whole |
| Profile upgrade (`main.rs:702-1121`, `profile.rs`) | schema version, tables, retention decisions, quarantine | open, restore and purge the quarantine | every step commits alone, the version is written last | an upgrade that is cut off is completed and changes no decision |
| Device key (`device_key.rs`) | the database key in two stores | load, create | an unreadable vault taken for an empty one | the key of a database is never replaced |
| PIN gate (`pin.rs`, `main.rs:130-165`, `2575-2700`) | PIN record, failures, lock flag | unlock, enable, change, disable, lock | a stop or a failure between two renames; concurrent attempts | the PIN in force is one the student set; wrong ones cost their time |
| Canvas connection (`canvas.rs`, `canvas_calendar.rs`, `main.rs:6240-6695`) | connections, sync runs, credentials | connect, refresh, disconnect | an hourly thread beside the student; a refresh that outlives its connection | one refresh at a time |
| Import review (`imports.rs`, `main.rs:6360-6489`, `7395-8842`) | documents, candidates, provenance, conflicts | pull, ingest, edit, approve, reject, resolve | an item offered again while earlier candidates of it are open | one record per source, and a conflict can be settled |
| Academic records (`profile.rs:743-1321`, `main.rs:3552-3944`) | terms, courses, class times, events, tasks, versions | onboarding, create, update, delete | what a deletion detaches; a form older than its record | no dangling reference; one active term |
| Reminders (`main.rs:1646-1793`) | deliveries per block | tick, snooze, dismiss | a thread beside the commands; replanning moves blocks | a heard reminder does not come again by itself |
| Planner (`planner.rs`, `main.rs:1920-2297`) | blocks, runs | place blocks, move, lock, undo | a pure algorithm with many cases, fed by what earlier plans left | no overlap, no block past its deadline, no minute unaccounted for |
| School calendar (`school_calendar.rs`, `main.rs:3258-3530`) | reviewed difference | read a page, compare, apply | a date under the wrong label; a difference applied twice or to changed data | applying twice is applying once |
| Account session (`auth.rs`) | session, refresh token in the vault | sign in by code or browser, refresh, sign out | a rotated token that is lost; a late callback | one usable session is kept |
| AI invocation (`ai_providers.rs`, `managed_ai.rs`, `main.rs:6787-7324`) | keys, order, health of the providers; consent | ask, test, order | what is shown is older than what is used | nothing is sent to a company the student did not see |
| Schedule picture (`main.rs:7580-7914`) | the picture, candidates, retention | read, review, settle | a late reading of a picture that is gone | what is reviewed can be compared with its source |
| Extraction, capture, PDF rendering, contracts, interface | - | text, images, message shapes, screens | - | no state a model would say anything about |

How they interact.  A command of the interface holds one mutex around the
database while it runs its SQL; the synchronization commands hold it for each of
their transactions and not during a request.  A push reads the mutations the
record commands wrote and fills the outbox; the service appends them to the log
after three separate checks of the device; a pull merges the log into rows and
calls the planner.  Restoring a backup replaces the database under all of this,
with the sync bookkeeping in it, while the device identity stays in the vault of
the operating system.  The interface serializes more than the code behind it:
one `busy` flag covers restoring, deleting and settling, and one `syncBusy` flag
covers the synchronization dialog, but the dialog can be closed and opened again
while a call is still running, and then two pulls overlap.

## 2. Modules

| Module | Models | Lines of code it stands for |
| --- | --- | --- |
| `HybridClock` | the clock and the order of mutation keys | `main.rs:1432-1488` |
| `AccountLog` | what the service promises: an append-only log without duplicates (abstract) | `202608120001_e2ee_sync.sql`, `202608160001_signed_authorized_mutations.sql` |
| `CanonicalMerge` | record commands, pulls and the merge on every computer of an account | `main.rs`, `profile.rs` |
| `CanonicalMergeProofs` | theorems about it: types, transactions, clocks | - |
| `MergeContentProofs` | theorems about what the mutations make of the databases; the refinement of `AccountLog` | - |
| `SyncUpload` | the outbox, the push and its answers, binding, backups as far as they carry sync state | `main.rs:4402-4906`, `sync_transport.rs`, `sync-repository.ts`, the trigger |
| `SyncUploadProofs` | theorems about it; the refinement of `AccountLog` | - |
| `AccountDevices` | identities, keys, approval, revocation, and the service step by step | `sync_crypto.rs`, `main.rs:4182-4660`, `app.ts`, `sync-repository.ts`, `authorizing-repository.ts` |
| `ProfileStore` | what the profile's files promise (abstract) | - |
| `ProfileFiles`, `ProfileFilesProofs` | restore, recovery, import, settle, connect, delete with stops and failures | `main.rs:4037-4138`, `8853-9234`, `backup.rs` |
| `Planner` | `generate` as an operator: availability, sleep, constraints, sessions, placement, what is reported unplaced | `planner.rs` |
| `DailyPlan` | the commands around it; EXTENDS `Planner` | `main.rs:1932-2297`, `2816-2865`, `3776-3815`, `5967-6038` |
| `Reminders` | the reminder thread against the commands | `main.rs:1646-1793`, `6041-6202` |
| `ImportReview` | candidates, records, conflicts | `main.rs:1137-1267`, `6360-6489`, `6697-6781`, `7395-7527`, `7942-8821` |
| `CanvasConnection` | connect, refresh, disconnect, the hourly thread | `main.rs:6240-6695` |
| `AcademicRecords` | the records of one computer, forms with versions | `profile.rs:743-1380`, `main.rs:3552-3944` |
| `CalendarPage`, `SchoolCalendar` | reading a page; comparing it and applying what was ticked | `school_calendar.rs`, `main.rs:3258-3530` |
| `PinGate` | PIN record, lock, back-off | `pin.rs`, `main.rs:130-165`, `2575-2700` |
| `DeviceKey` | the database key | `device_key.rs` |
| `AccountSession` | sign-in, refresh, sign-out | `auth.rs`, `main.rs:1838-1876` |
| `AiProviders` | which company a request goes to | `main.rs:6787-7324`, `StudentCenter.tsx`, `StudyView.tsx` |
| `ScheduleSource` | a schedule's picture and its readings | `main.rs:7580-7914` |
| `DocumentTransfer` | upload, download and deletion of one document | `main.rs:5704-5833`, `sync_transport.rs`, `sync-repository.ts:175-178` |
| `ProfileUpgrade` | opening an older profile; the quarantine | `main.rs:702-1121`, `profile.rs:464-691`, `1409-1581` |
| `MCCanonicalMerge`, `MCSyncUpload` | instances: symmetry sets, and functions a cfg cannot write | - |
| `AccessParts` | `PinGate`, `DeviceKey`, `AccountSession` and `AccountDevices` side by side | - |
| `SourceParts` | `CanvasConnection`, `ScheduleSource`, `AiProviders`, `ProfileFiles`, `DocumentTransfer` and `ProfileUpgrade` side by side | - |
| `AccessSourceProofs` | theorems about the parts of these two groups | - |
| `RecordParts`, `RecordProofs` | `DailyPlan`, `Reminders`, `ImportReview`, `AcademicRecords`, `CalendarPage` and `SchoolCalendar` side by side; theorems about them | - |
| `PlanProofs` | theorems about the plan of `RecordParts` (`Planner`, `DailyPlan`) | - |
| `DesktopParts`, `DesktopPartsProofs` | the three groups together; what holds of all parts at once | - |
| `DesktopShared` | the two constants the groups have in common | - |
| `MCDesktopParts` | the instance of `DesktopParts` that is checked | - |

They compose through `AccountLog`: `SyncUpload` is proved to implement it from
requests that are lost, late or repeated, and `CanonicalMerge` is proved to use it
as given (its `log` is the same log, one mutation per upload).  `AccountDevices`
keeps a row of that log down to its author and its account key.

### CanonicalMerge

`db[d]` is the committed database of computer `d`, one record of functions named
after the tables (`version` is `sync_entity_versions`, `elements` is
`sync_set_elements`, `received` and `deferred` are `sync_received_mutations` by
outcome).  `open[d]` is the pull transaction in progress, with the working copy it
changes; `pull[d]` the pulls between two transactions; `log` the account's rows in
sequence order.  Create, Update, Toggle, Delete and Resolve are the commands: each
changes rows and calls `Record` (`mutation()`), and a crash between the two
statements is the second disjunct of `Save`.  A pull is StartPull (reads the
cursor), BeginDrain, DrainStep, CommitDrain, Fetch, BeginPage, PageStep and
CommitPage, one step per mutation; AbortTransaction is an SQL error, Crash and
DownloadFails the environment, Upgrade a new build.

Abstractions.  A row is a value, a critical date and a completion; the two dates
of a commitment or of a term are one.  Contents are told apart by equality alone, so
a new record has default ones.  All entity types without a foreign key, a critical
date or a completion behave alike and are one kind of record.  Preferences,
availability and imported records go through `mutation()` like the rest and have no
action of their own.  A local-only record leaves its clock tick.

Foreign keys are on (`main.rs:705`).  `Parent` is the row a record's NOT NULL key
names (the several of a class meeting are one), whose deletion takes the record with
it; `Named` the row its nullable key may name, with ON DELETE SET NULL
(`profile.rs:561`, `573`), and `links` the records that have it set.  A snapshot that
names a missing row either way is refused (`ForeignKeyFails`).  The keys that have no
ON DELETE are those of an import candidate and of a conflict (`main.rs:729`, `738`),
whose insertion is refused in the same way and which have no record of their own
here, and `plan_blocks.task_id` (`main.rs:723`): of the plan, `planned[d]` keeps the
tasks that have study blocks.  Which ones have them after planning is left open
(`Replan`); a tombstone of one of them is refused with its page (`StillPlanned`).
Conflicts about one record, date and mutation are one element of `conflicts`.  That
replanning begins a transaction inside the page's transaction is the constant
`NestedBegin` (section 5).

### SyncUpload

`profile[c]` is what a database carries of the upload (mutations, uploaded marks,
outbox, device, connected identity), `identity[c]` what stays in the vault.  Push
prepares the outbox and sends one request; `requests` holds every request that may
still reach the service, awaited or not; Serve is `pushMutations` with the trigger
and the unique constraint; Acknowledge, Refused and GiveUp end the push.  Export,
Restore and Replace bring older profiles back or take identities away, also
between the two halves of a push.  A mutation is its number; an encryption is its
nonce, so that encrypting twice is visible.

### AccountDevices

`vault[c]` holds the pending and the persisted identity, `profile[c]` the
connection, the pinned keys and the cursor.  A call to the service is a record in
`calls` with the step the service takes next; each step is one request to the
database, so calls interleave wherever the code awaits.  GiveUp makes a call
nobody waits for, Stop ends such a call between two steps.  The recovery words and
the cryptography are reduced to who holds which key.

### ProfileFiles

Every file is the set of its contents, empty when it is absent; `pc` is the next
file operation.  Each rename, the journal's creation, its writing and its removal
is one step, and every step may fail (the action group `Fails`) or be the last one
before a stop (`Stop`).  Start, the Undo and Return actions are
`recover_interrupted_restore`, which runs at the next start and inside a failing
restore.  `expected`, `discarded`, `entered` and `used` are history: what the
student has been told, had deleted, and typed in.  The archive's format, its
hashes and its password stay out: a backup is what it lays out.

### The parts of one computer

- `Planner` is a function; nothing in it is a variable.  Times are in units of a
  fixed length of which `Granule` make the five minutes the planner counts in;
  `Skipped` are the local times a change of the clocks leaves out.  A plan fails when
  one of them is looked up for it (`CannotPlan`): the start or the end of an hour of
  availability on its weekday, of a night, or of a class.  That an hour which comes
  twice gives a start its first and an end its second reading, and that the midnights
  around a day without classes are looked up too, is left out.  `Place` is the
  placement of one session with the scores and tie-breaks of `candidate_slots`;
  `Schedule` goes through the tasks in the order of `task_order` and reports what
  it could not place.  `DailyPlan` keeps tasks, commitments and blocks, and each
  command is what the code makes of it: the edit is saved, and a plan is made from
  the saved state, which may fail and leave the old blocks (`Edit`).
- `Reminders` has the thread as one action, because it holds the database lock
  while it looks and writes down (`Tick`), and the commands that move, complete
  and replan blocks under it.  `told` is history: what the student heard.
- `ImportReview` has two kinds of item for the code's four: a task, whose date is
  compared with its record, and a class meeting, compared with its last approval,
  which needs a term and brings a course.  A candidate is a row, known by its
  number; `Apply` is `apply_candidate`, whoever calls it.
- `CanvasConnection` cuts a refresh where the code releases the database lock
  (`Begin`, `ReadCredential`, the answer, `PersistPull`, or one of the failures).
  The thread lists once what is due (`ListDue`, kept in `listed`) and comes to each
  later, whatever became of it (`Begin`, `PassOver`).  `contested` is history.  What the server sends is a success, a failure or a
  refusal of the credential.
- `AcademicRecords` keeps a row per record with its version and references.  A
  form keeps the row it was opened on while the lists beside it stay in use: the
  interface does close most forms first, so this is an over-approximation.  It is
  one computer; see section 6 for two.
- `CalendarPage` reads a page line by line as `parse_sessions` does, each longer
  page a step further; `SchoolCalendar` takes such rows, compares and applies.
- `PinGate` has a step per file operation of `write_atomic`, each of which may
  fail or be the last before a stop, and several unlock commands at once.  When the
  new record cannot be moved in, the old one is moved back and the new one removed;
  both may fail, and nobody is told (`TakesBack`; `let _ =`, `pin.rs:163`, `165`).
  A start may fail in its tidying too (`StartFails`).
  `DeviceKey` has a step per access to either store.
- `AccountSession` lets one call at a time hold the account's lock, with the
  browser's callback, the lock of the program and stops in between.
- `AiProviders` has two views, each with its own wait; a request and a test wait
  without any lock.  `ScheduleSource` is the picture whose reading it may send.
- `DocumentTransfer` has a sealing per upload, chunk writes, completion, and on
  the other side chunk reads, the temporary file, its move and the row
  (`OpenTemporary`, `WriteFile`, `MoveFile`, `InsertRow`), against deletion in two
  steps.  All downloads of a document on a computer use one temporary name
  (`main.rs:5818`), so a file has an identity beside its names: a download empties the
  file another one is writing, or has written and is about to move, and goes on
  writing to it after it was moved (`writer`).
- `ProfileUpgrade` commits one step of `open_database` at a time and writes the
  version last, from any version an older build may have left.

## 3. What is checked

Nine runs pass; three show a disagreement (section 5).  Model values stand for
computers, records, documents; `None` is one too.

| Run | Question | Instance |
| --- | --- | --- |
| `MergeRecords` | Do two computers that edit, complete, delete and resolve dated tasks agree, keep completions, ask before a date changes, and lose nothing when a mutation is delivered again? | 2 computers, one's wall clock ahead, 2 tasks of which one is changed and may depend on the other, 2 titles, 2 dates, 3 mutations |
| `MergePulls` | Does a pull lose or skip anything when pulls overlap, a call fails, a computer stops, a page is refused? | 2 computers, a term, a class that must name it and an event that may, pages of 1, 2 mutations, 1 fault, 1 lost mutation |
| `MergeDependencies` | Is the observed-remove set right for every order of arrival, and is a dependency ever without a task? | 2 computers, 2 tasks, 4 mutations |
| `MergeUpgrade` | Is what a build could not map merged after an upgrade, and everything shared in the end? | 2 computers, a record of an unmapped type, a task that may be planned and deleted, 2 mutations |
| `UploadRetries` | Are retries idempotent, in order, and successful in the end? | 2 computers, 3 mutations of which up to 2 local-only, batches of 2, 2 calls given up |
| `UploadRestores` | Does a restored backup or a replaced computer make an upload lie? | 2 computers, 2 mutations, 3 identities, 2 restores, 1 call given up |
| `DevicesJoin` | Does a second computer get the key, and do both get every row? | 2 computers, one key, one row; one call given up, one envelope expired or one device revoked (`MaxTogether = 1`) |
| `ProfileSwaps` | Is a restore all or nothing, whatever stops or fails? | 1 document, 2 restores, 2 stops, in commits too, 2 failures |
| `DesktopParts` | Sixteen questions about parts that share no state; see below | see below |

`DesktopParts` puts the parts side by side: `part` says which of them moves in a
behaviour, and the others stay as they began.  Since they share no variable, this
explores each part exactly as a run of its own would, and a counterexample names
its part.  Each of its properties is about one part, or about two that keep one
promise together:

| Property | Part | Instance |
| --- | --- | --- |
| `PlanHolds` | `DailyPlan` | days of 12 units, horizon of a day, 2 tasks with alternatives of length, dependency and deadline, 1 commitment, 1 class, 3 instants, 3 edits, 1 move |
| `RemindedOnce` | `Reminders` | 2 blocks, days of 4, 2 leads, 2 changes, 4 ticks |
| `OneRecordPerSource` | `ImportReview` | a task and a class, 2 dates, 3 candidates, 1 edit |
| `OneRefreshAtATime` | `CanvasConnection` | a token and a calendar connection, the thread and the student, 2 connects, 1 stop, 1 failure |
| `DocumentsHold` | `ScheduleSource`, `DocumentTransfer` | 2 classes; 2 computers, 2 chunks, 3 uploads, 2 downloads, 2 deletions |
| `UpgradeKeeps` | `ProfileUpgrade` | 2 documents, 2 samples, 4 versions, 2 parts, 3 starts |
| `PinHolds` | `PinGate` | 2 PINs, 2 unlock commands, 1 stop, 2 failures |
| `KeyOpensDatabase` | `DeviceKey` | 3 keys, 2 failures, with and without Windows |
| `SessionIsKept` | `AccountSession` | 2 accounts, 3 tokens, 2 browser sign-ins, 1 stop, 1 failure |
| `SecretsWereEntered` | `ProfileFiles` | 1 connection, 2 restores, 2 stops, 1 failure, torn journals |
| `RevocationHolds` | `AccountDevices` | 2 computers, one revocation, one expiry, one call given up |
| `ReferencesHold` | `AcademicRecords` | 2 terms and one record of each other kind, 3 edits |
| `EntriesAsWritten` | `CalendarPage` | pages of up to 7 lines, 2 sessions |
| `ApplyingTwiceIsOnce` | `SchoolCalendar` | 2 bundled terms, 2 pages, 3 edits |

What the properties say is at their definitions.  Why the bounds are enough:

- Merging is pairwise.  A register is changed by one mutation against one stored
  key, so two computers and three mutations give every order of two concurrent
  writers with a third mutation that depends on either.  `Wall` gives one computer
  a wall clock that is ahead (`SkewedWall`), so that the other's clock has to
  follow what it merged; in the other runs the clocks agree (`SameWall`) and only
  the counter and the computer decide.  A set element needs four mutations: two
  creations, and two changes that cross.  `Edited`, `Toggled`, `Deleted` and
  `Dependent` name the records a run changes further, so that the second task
  serves as a prerequisite only; `MaxMutations` bounds what is recorded, and
  `MaxCounter` is never reached.
- A mutation that is delivered again acts on its record, its task's dependencies and
  the conflicts about it: `MergeRecords` has a task with two dates and a prerequisite
  that may be deleted, so that each of them can have changed since the first
  delivery.  `RedeliveryIsHarmless` is about every merged mutation in every state,
  whether or not a failed commit or an overlapping pull delivers it there.
- `MergeUpgrade` has one record per exception of `EventuallyShared` beside what must
  be shared: one that waits for an upgrade (`Waits`), and a planned task whose deletion
  refuses the page (`PageRefused`).  A mutation counts as merged when it is received
  and no longer held back.  Since what is recorded stays so, the property demands
  that one of the three holds again and again, for ever.
- Pages of one make a pull of two mutations two pages, with a boundary where the
  cursor is stored; two pulls of one computer overlap at every pair of steps.
- Two batches of two and a given-up call give a late request that overtakes a
  retry; two restores let a backup made in the middle of a push return twice.
- One revocation against one approval, one registration or one push has every
  interleaving of their steps.
- Documents do not interact (nothing compares two), so one that may be in the
  profile, the backup, both or neither stands for each of them.  Two restores let
  the second one meet what the first left.
- Of the three moments the clocks' change (`Skipped`) lets the first two plan, with
  the class and with the hours of both weekdays in their horizons; at the third no
  plan can be made, since a night of its horizon ends in the gap.
- Two tasks are enough for one to depend on the other, to compete for a slot and to
  break a tie; the horizon, the day's availability and a sleep that spans midnight
  are small enough that sessions are split, moved to the next day and reported.
- Three candidates let an item be approved, offered again with another date, and
  once more while that is in conflict.
- Two failures are needed for the PIN: with one, an older record that could not be
  deleted cannot come back, and the failed move in of a record and the failed move back
  of the one before are one failure.  Two unlock commands have every interleaving of the
  attempts lock.
- Three starts let an upgrade be cut off twice, at two different steps.  `Versions`
  has a new file, builds before and after the retention column, and the current one.
- Two downloads of one computer meet at the temporary name at every pair of their
  steps; a third would meet either of them the same way.
- Three uploads: one that is cut off, one that tries again and one of the other
  computer.  Two chunks make a document that is half there.

Deadlock is not checked where the bounds end a behaviour by design: every
`MergeRecords`-like run stops when the mutations are used up, and a profile may
end in the state `broken`, which only a stop leaves.  `MergePulls` checks it: a
pull can always go on or end.

Each property has been shown to fail on a plausible bug in the definition it
depends on: the definitions named "Mutant of ..." beside the ones they replace
(a cursor one too far, a tie without the device, a retry that encrypts again, an
approval without its filter, a recovery that looks at the wrong directory, a
placement that looks only at where a slot starts, a row written before its file, ...).

### Fairness

- `CanonicalMerge` (`NestedBegin = TRUE`: the merge as it would be with the replanning
  call of section 5 repaired): strong fairness of a push and weak fairness of a
  computer's pull: the student keeps pressing Synchronize, and the code's push waits for a
  mutex that a pull's transaction releases (it may be taken again and again, hence
  strong).  No fairness of edits, upgrades, crashes.
- `SyncUpload`: the same for the steps of a push; a call that is waited for is
  answered or given up (`reqwest`'s timeout, `sync_transport.rs:239-245`).  A
  request nobody waits for may never arrive.
- `AccountDevices`: the student sees the dialogs through on both computers; the
  service answers calls that are waited for.  Strong fairness for requesting,
  connecting and approving, which the interface disables while another call runs.
  `EventuallyApproved` is claimed as long as no envelope expires: an authorized
  device whose envelope expired unread is no longer pending, and nothing sends it
  another one.  `ReceivedUnlessRevoked` is claimed as long as no device is
  revoked (section 5).
- `ProfileFiles`: weak fairness of starting and of the steps of a start.  Nothing
  else goes on by itself.
- The other parts promise nothing that must happen in the end beyond what their
  code does in one step, and assume no fairness.  What could be asked of them does
  not hold (an interrupted document upload is never completed, a connection left
  marked by a stop is never refreshed: section 6).

## 4. What is proved

TLAPS checks these for every value of the constants that the named assumptions
allow.  Hypotheses about constants stand in the theorem itself where the module
has no ASSUME.

`CanonicalMergeProofs`: `TypeCorrect` (`TypeOK`), `PullsAreSound` (`PullSound`),
`NothingIsSkipped` (`NothingSkipped`), `EditsAreNewest` (`EditIsNewest`).  Type correctness alone is not inductive
in what it says of log positions, and `NothingSkipped` says nothing of a page in
flight: when a page commits, that its cursor is covered by what was received must
come from the transaction, and that the transaction still covers what an
overlapping pull stored meanwhile must come from the database.  `PullSound` states
both: the working copy contains what the database received, positions before
`next` are received in it, and every pull between two steps starts where the
database has received all before.  The inductive invariant is
`TypeOK /\ PullSound`; `NothingSkipped` follows from it.  The proof has a lemma
for each operator of the merge (it yields a database, and leaves the bookkeeping
alone: `ApplyKeepsBookkeeping`), a lemma for each kind of step, and `NextInv`,
which puts them together.

`EditsAreNewest` needs one more invariant, `ClocksCover`: a clock is not behind the
timestamp of any mutation its database has recorded or received, so that a tick
is after all of them.  A pull does not observe the computer's own mutations when
they come down again, so the invariant also says that the computer still has
every one of them it uploaded; and since a page commits the clock of its
transaction, it says the same of the copy in an open transaction, in which the
computer's own mutations are those of the database: nothing is recorded beside
an open transaction.

`SyncUploadProofs`: `TypeCorrect`, `UploadsAreStored` (`AcknowledgedIsStored`),
`PushesAreSound` (`PushSound`), and `ServiceIsALog` (`ImplementsLog`): the rows
implement `AccountLog`.  The inductive invariant adds to these that every profile
and the backup are finite and consistent (one envelope per mutation in an outbox,
and none of an uploaded one), that every batch on its way has one envelope per
mutation, and that the rows are numbered 1, 2, ... with one row per mutation
(`RowsSound`).  The last is what makes a new batch come after every stored row,
the step condition of `AccountLog`.

`RetriesAreTheSame` (`RetriesAreIdempotent`) and `StoresInOrder` (`StoredInOrder`) hold
as long as no backup is restored, for any number of computers, calls given up and
computers replaced.  Their invariant, `Strong`, adds to `IInv` what only a restore
disturbs (`Undisturbed`): mutations and identities stay with the computer they
were made on, so no two computers write for one identity; what was ever sent of
a mutation that is not acknowledged is in the outbox, so that it is never
encrypted a second time (`SentOnce`); and every request on its way covers the
older replicated mutations of its profile, by its own batch or by what is
acknowledged, so that a request that overtakes another leaves no gap
(`SentInOrder`).

`UploadsAreOwn` (`UploadedUnderOwnIdentity`) holds through restores.  Its invariant,
`Own`, says that a push is of the computer's own identity and is stored as it was
sent, that no profile names an identity still to be made, and that until the
backup is made every profile holds only what its own identity uploaded, a push in
progress included; so the backup does too.  A profile restored in the middle of a
push may be acknowledged under an identity that is not its own, but is then not
connected, and binding refuses it from then on, since it marked something
uploaded.  The theorem is about one backup, as the model is (section 6).

`ProfileFilesProofs`: `TypeCorrect`, `WorksOnTheProfileTold` (`ProfileAsTold`),
`RowsFindTheirFiles` (`DocumentsReadable`), `OnlyOwnSecrets` (`SecretsWereEntered`) and
`FilesImplementStore` (`ReplacesInOneStep`, the refinement of `ProfileStore`), for any
documents, connections, restores, stops and failures, torn journals and foreign
SQLite journals included.  None of these is inductive: in the middle of a restore
the database is in one of three places and the journal decides which of them the
next start takes.  The invariant is `Types /\ Contents /\ Shape`.  `Contents` speaks
of what a start would find (`Found`): it is a whole profile, and the one the student
was told of, unless the database is lost to a foreign journal.  `Shape` says for
each step of a restore, a recovery and a deletion where every file is by then
(`InPlace`, `SwapFollows`, `InstallFollows`, `RecoveryFollows`, ...), which is what lets
a stop at any of them be undone.

The other proofs are about parts that share no variable.  Each is a section of the
proof module of its group, with an inductive invariant of its own:

- `KeyAlwaysOpens` (`KeyOpensDatabase`), for any number of keys and failures.  Whether
  the next start finds the right key depends on where the start under way took its
  own from, so `KeyInv` says of each step of a start what the two stores hold by then.
- `PinsAreKept` (`PinIsKept`, with the one exception it names: the program runs on
  without a PIN when neither record could be moved, until the next start) and `WrongPinsAreSlow` (`WrongPinsTakeTime`), for any PINs,
  unlock commands, stops and failures.  `PinInv` says for each step of a settings
  command where the old and the new record are, so that the recovery of the next
  start, whatever it meets, finds one of the two.  For the delays, `PinTime` says that
  the moment of the next attempt (`retryAt`) is not before the sum of the delays of the
  wrong ones so far, and that whoever has got past that moment holds the attempts lock.
- `SessionsAreKept` (`SessionIsKept`, `CallbackIsWanted`), for any accounts, tokens,
  sign-ins and failures.  A call under way holds a session of its own and a refresh
  has used the stored one up: `SessionInv` says for each kind of call what the vault,
  the memory and the service hold while it runs.
- `RevocationsHold` (`ApprovalNeverResurrects`, `AppendedByAuthorized`, two action
  properties), for any computers, page size, revocations and calls given up.  A push
  that has passed its check may still be on its way when its device is revoked;
  `KeysSent` says that a computer with secrets, and a call that sends one, has a key.
- `RefreshesAreSingle` (`OneRefreshAtATime`), for any connections, processes and
  failures.  It follows from what a refresh leaves visible to the others: its
  connection is marked `syncing`, or disconnected, until it ends (`Marked`).
- `PicturesAreThere` (`ReviewedAgainstItsSource`), for any classes; `TransfersHold`
  (`DocumentHolds`), for any computers, chunks, uploads, downloads and deletions: the
  invariant says of every call under way which manifest it works on and which
  chunks of it are stored (`Service`, `Sending`, `Fetching`), of every row that its
  file came before it (`Listing`).  Of every file that is not whole it says that a
  download fills it or one was cut short (`Lying`), and that two of them met (`NoneMet`).
- `UpgradesKeep` (`UpgradeKeeps`), for any documents, samples and schema parts and any
  number of starts cut off anywhere.  What is open about a document depends on a
  version that is not written yet; `UpgradeInv` says what holds at each step.
- `RecordsAreSingle` (`OneRecordPerSource`, `ConflictsCanBeSettled`), for any items, dates
  and numbers of candidates.  A conflict is settled by writing to the record its item
  was approved into, so the invariant says that what approved candidates and
  conflicts point to is a record of their own item (`ApprovedIsRecord`,
  `ConflictsFollow`).  `LatestIsApproved` shows that the latest of the approved candidates
  exists (a non-empty set of positions of a sequence has a last one, from the
  well-foundedness of the naturals).
- `RemindersComeOnce` (`RemindedOnce`), for any blocks, plans, settings and moments:
  what the student heard is written down, as delivered or dismissed, in a row of its
  block that no command but a snooze or a move takes back (`RemindInv`).
- `RecordsRefer` (`ReferencesHold`, `OneActiveTerm`), for any records.  A form that was
  opened earlier writes back the references it was opened with, so `FormFollows` says
  what of them the row still has as long as its version is the form's.
- `PagesAreRead` (`EntriesAsWritten`), for pages of any length: `ReadingInv` keeps with
  the lines read so far where the current label begins (`LabelFollows`) and which
  lines were dates under it (`EntriesFollow`).
- `DifferencesApplyOnce` (`ApplyingTwiceIsOnce`), for any bundled terms, pages, dates and
  edits, and for every selection and order of what is approved.  A difference is
  settled when applying it changes nothing (`Settled`).  `ChangeSettles` and
  `HolidaySettles` show that one which was applied is settled, and `ChangesStay` and
  `HolidaysStay` that the others leave it so: a date is moved away from the one the
  page was compared with and no other difference moves it back, since all
  differences of one date were compared with the same one (`SameDate`, from
  `DiffShown`), and events only become more.  The fold over the approved list is
  unfolded to a function of the number of differences applied (`ChangesFold`,
  `HolidaysFold`), and the lemmas go through it step by step (`CountUp`).
- `PlansCanBeFollowed` (`PlanHolds`, in `PlanProofs`), for any tasks, commitments, classes,
  hours, sleep, skipped minutes and moments: what is shown as planned can be followed, and what does not fit is told with
  the minutes that are missing.  It has three layers.
  - A session: the starts that are tried are finitely many, so a lexicographically best
    one exists (`BestExists`), and what the planner takes is in a window, awake
    (`AwakeIs`) and clear of what is occupied (`MeetsNone`, `MeetsNoKept`).  The sessions
    a task is split into have its remaining minutes in all (`IsSplit`); minutes are added
    up over finite sets (`Total`).
  - A task: placing and scheduling are folds, unfolded to functions of the number of
    steps taken.  `Placing` says of a task whose sessions are being placed what is
    placed and what is still owed, `Scheduled` what one task leaves of the others, and
    `Laid` and `Accounted` what holds after any number of tasks: blocks fit, lie apart
    with their pauses, end by their deadlines and after what they depend on
    (`InOrder`, `DoneIs`), and for every task the kept, planned and told minutes are the
    minutes it needs (`Owed`, `SettledTask`).
  - The commands: `PlanState` says that what is saved and shown is well formed, which
    every command keeps (`PlanMoves`), so that each replanning is of well-formed tasks;
    `FollowedIs` and `AccountedIs` turn the two layers before into `PlanHolds`.
  `Planner` writes overriding and adding an entry as `Over` and `With`, as the provers do
  not know the operators `@@` and `:>` of `TLC`.

`DesktopPartsProofs` states the properties of the run `DesktopParts` under its own
specification.  `PartsInv` is the invariants above together: every part either moves
by a step of its own or stays as it began, so each of them is kept.  The theorems of
`ProfileFilesProofs` are used there through an instance, `FilesP`, and `FilesBegin`,
`FilesMove` and the lemmas beside them say that it speaks of the same files.
`PartsTyped` is `TypesOK`, and `PlansHold` is `PlanHolds` of that specification.

What the theorems assume of the constants are the ASSUMEs of the modules, which TLC
evaluates in every run: that bounds are numbers (`FilesAssumption`,
`TransferAssumption`, `RemindAssumption`, `RecordsAssumption`, ...), that `None` is not
one of the values it stands beside (`PinAssumption`, `DevicesAssumption`,
`CanvasAssumption`, `ReadingAssumption`), that records of different kinds have
different names (`RecordsAssumption`: ids are UUIDs), that bundled terms have names of
their own and days off that do not end before they begin, as the shipped ones do, and
that a page has finitely many rows (`SchoolAssumption`), that classes and providers are
finitely many, and of the upgrade that versions are numbers and that the one that
added the retention column is a positive one not after the current one
(`UpgradeAssumption`).  `PlanAssumption` is what the planner's callers check before
they save: a granule that is positive and not longer than a day, hours of sleep within
the day and pauses that are not negative (`profile.rs:1345-1351`), commitments and
classes that end after they begin (`profile.rs:1337`, `main.rs:8405`), tasks whose
fields are within their limits (`profile.rs:1252`), and blocks of at least a minute
(`main.rs:2852` takes 5 to 480), all of them finitely many.

`MergeContentProofs`: what the mutations make of the databases, on every computer
and in every open transaction, for any computers, records, clocks and bounds.
`RegistersAreNewest` (`RegisterIsNewest`), `ElementsAreNewest` (`ElementIsNewest`),
`NoOrphansEver` (`NoOrphans`), `KeptDatesAreFlagged` (`KeptDateIsFlagged`),
`RedeliveryIsAlwaysHarmless` (`RedeliveryIsHarmless`), `ComputersConverge` (`Converged`),
`CompletionsSurvivePulls` (`CompletionSurvivesPull`) and `LogIsImplemented`
(`ImplementsLog`).  The argument has four layers:

- What an operator of the model changes is stated once, as relations of two
  databases: `RecordsRow`, `MergesRow`, `Applies`.  A database then stays, is rewritten
  without a mutation, records one or merges one (`Stays`, `Rewrites`, `Records`,
  `Merges`), and every action of a computer is such a move of its database, of its
  transaction's working copy, or of the one to the other (`StepOf`).
- `Content` is the inductive invariant of one database: the register of a record is
  the greatest key merged for it (`Registers`), a set element is what the newest
  known mutation says (`Elements`), what is held back is another computer's and of a
  type the build could not map (`HeldBack`), plain records stay plain (`PlainRows`), and
  foreign keys hold.  `Clean` adds what only a crash between a row change and its
  mutation disturbs: a row has the newest mutation's value (`Values`, `LastWritten`),
  its date or a conflict about it (`Flagged`), and a task depends only on what a live
  set element names (`DepsLive`).  `EvolvesContent` and
  `FollowsContent` show that each kind of step keeps both, one lemma per conjunct.
- `CInv` is the invariant of all computers.  It carries `Content` through the working
  copy of a transaction to the commit, and adds what the merge needs of the others:
  that no two mutations have one key (`OneKey`, from `OwnOrder` and `ClocksCover`: a
  computer's mutations have ever greater keys), that the log has every uploaded
  mutation once (`UploadedOnce`), and that a pull has merged all it held back before
  it downloads on (`DrainedFirst`): a drain that finds no next
  mutation has none left, since a non-empty set of positions has an oldest one
  (`OldestMutation`).
- `RedeliveryIsAlwaysHarmless` compares a database with what the merge would make of it:
  no register is behind the mutation and no element behind what it says, so only the
  dependencies are rebuilt, which loses none by `DepsLive`, and a date may be asked
  about (`Rebuilt`, `Asks`, `AppliesAlike`).
- The theorems follow without another induction.  Two computers that merged the
  same mutations have the same registers (`SameRegister`) and elements
  (`SameElement`), because the newest of a set of mutations with different keys is
  one; the rows follow from `Clean`.

`SchemaAssumption` is what they assume of the schema: a NOT NULL foreign key names a
record that has none of its own, so that a `DELETE` cascades one step, and tasks,
commitments and terms have no foreign key that a merge could miss.  `NoOrphans` is
about the keys that may not be null and about dependencies; that a nullable key
names a row that is there is left to SQLite.

Every invariant and every action property of a passing run is stated by a theorem.
Only model-checked are the five liveness properties (`EventuallyShared`,
`EventuallyUploaded`, `EventuallyRuns`, `EventuallyApproved`, `ReceivedUnlessRevoked`):
liveness under fairness and ENABLED are out of reach of TLAPS's backends.

## 5. Where code and documentation disagree

Three runs show a property violated by what the code does.

`MergeNestedBegin`.  `pull_encrypted_mutations` calls `regenerate_plan` on the open
transaction of a page (`main.rs:5686`, `5597`), and `regenerate_plan_for_trigger`
begins one of its own (`main.rs:2197`).  SQLite refuses a BEGIN inside a
transaction, the page rolls back, and the cursor never moves: no downloaded
change is ever merged.  **The passing `Merge` runs set `NestedBegin = TRUE`**, that
is, they describe the merge with that call repaired; the safety theorems hold for
either value.

`DevicesRevokedAuthor`.  A pull pins the keys of the devices that are authorized
now and stops at the first row whose author is not pinned.  Rows of a revoked
author stay in the log and it can never be approved again, so a computer that
joins after the revocation never gets past them.

`AiShown`.  The study view names the provider it resolved when it was opened; its
request names none, and the program resolves the provider again when it sends
(`main.rs:6847`, `7313`).  A key added or an order changed behind the open view
sends the materials to a company the student was not shown, against
`docs/PRODUCT_EXECUTION_IMPLEMENTATION.md:26`.  `DesktopParts` therefore checks the
type invariant only of this part.

## 6. What else was met

These have no run of their own; each follows from the modules as they are, with
the property and the constants named here, or from the lines quoted.

Merge, upload, devices, profile files:

- A record whose NOT NULL foreign key names a document (`import_candidate`) cannot
  be inserted elsewhere, documents being local-only; the page is refused for ever.
  `EventuallyShared` fails with `LocalOnly = {document}` as the candidate's `Parent`.
- A tombstone of a task that has study blocks on the computer that receives it cannot be
  applied: `plan_blocks.task_id` has no ON DELETE (`main.rs:723`), the bare DELETE
  (`main.rs:5317`) fails, and the page is refused every time, until the blocks go by
  themselves (another plan without the task, or the student deletes it there).
  `EventuallyShared` fails in `MergeUpgrade` without its exception `PageRefused`.
- A class whose instructor, or an event whose term, has been deleted where its
  snapshot arrives is refused with its page (`profile.rs:561`, `573`), in every later
  pull too, though the key may be null.  The same holds for a conflict's candidate
  and for a candidate's source object (`main.rs:738`, `729`).
- A mutation that is delivered again asks about its date again if the row has
  another one: questions that the student has answered come back.  It also attaches
  prerequisites that have arrived since.  `RedeliveryIsHarmless` says no more than that.
- A task command removes the set elements whose prerequisite has not arrived or is
  gone here, because it compares the elements with the dependency rows
  (`main.rs:1376`); completing the task is enough.
- A tombstone and a newer snapshot in one page replace a critical date without a
  conflict (`main.rs:5322`), against README.md:30.  To see it, state that a commit
  that changes the date of a row that stays leaves a conflict on it; three computers,
  one commitment, two dates, three mutations, pages of three.
- A tombstone that a computer refuses because the task is completed there still
  takes the register (`main.rs:5306-5327`): an older change that arrives afterwards is
  superseded, while a computer where it arrived before the tombstone keeps its
  value.  Two computers that merged the same mutations then keep the completed task
  with different values, against "Deterministic local merge" (README.md:30).  That is
  what `Converged` exempts by `LastDeleted`; without it, it fails with three
  computers, one task and four mutations (one computer creates, completes and
  deletes the task, another one changes it before it has seen the deletion).
- A dependency whose prerequisite arrives later is not attached (`main.rs:5163`):
  computers that merged the same mutations may differ in `deps`, with four
  mutations on two tasks that may be deleted.
- A backup older than the last push, restored on its own computer, encrypts an
  uploaded mutation again; the trigger refuses the batch as a substitution for
  ever.  `EventuallyUploaded` fails with one computer and `MaxRestores = 1`; that
  is why `UploadRetries` has `MaxRestores = 0`.
- Binding to a new identity looks at what was acknowledged, not at what was stored
  (`main.rs:4412`): a stored mutation whose answer was lost is rewritten under
  another identity.  `UploadedUnderOwnIdentity`, for `uploaded` replaced by all the
  profile's mutations, fails with two computers, one given-up call, one restore.
- `UploadedUnderOwnIdentity` is about one backup (`Export` needs `backup = None`).  With
  a second export, two computers, one mutation and three restores break it: a
  profile restored on another computer in the middle of a push is acknowledged
  under an identity that is not its own, exported, and restored on the first.
- Two first registrations read an empty device list and are both authorized
  (`sync-repository.ts:122-127`), although "any surviving device" should block it.
- A second computer that sets up protection of its own is approved although it
  holds another account key (`main.rs:4507-4514`); `MaxKeys = 2`.
- The first device of an account that asks for approval waits for ever and keeps
  every later one pending (`sync-repository.ts:124`).  A computer that revokes
  itself keeps an identity that can neither register nor be approved again.
- The restore journal is created before it is written (`main.rs:9078-9086`); a stop
  in between leaves a file no start can read.  `EventuallyRuns` fails with
  `TornJournal = TRUE`, which `ProfileSwaps` leaves FALSE.
- A stop in the first commit on the restored database leaves its
  `student-center.db-journal`; the recovery then moves the previous database under
  that name, and SQLite plays the foreign pages back: the previous profile is lost.
  `ReplacesInOneStep` and `EventuallyRuns` name this as their only exception
  (`db' = {Damaged}`).
- A stop between moving the vault aside and resetting the database
  (`main.rs:4052`) leaves a profile without its documents; `DocumentsReadable`
  exempts what the student had asked to delete.

Planning and reminders:

- Planning again deletes open blocks with what was written down of their reminders
  (a cascade), delivered and dismissed ones too, so a block that comes back is
  reminded of again; `docs/releases/0.5.0.md:10`.  `RemindedOnce` is about one plan.
- A locked block whose id is planned again is moved by the upsert
  (`main.rs:2236-2240`), against `docs/releases/0.4.0.md:10` and
  `docs/PRODUCT_EXECUTION_IMPLEMENTATION.md:35`.
- A prerequisite whose minutes are all in a locked future block counts as done at
  once; undo may restore a block over a slot planned meanwhile; the minutes of an
  unlocked block in progress are planned again; a break is not kept between a new
  session and a later item that was occupied before.
- A snooze longer than five minutes past the block's start never comes back, and a
  reminder is marked delivered before it is shown.
- An edit is saved even if planning again fails, while the view keeps the old list.

Sources and credentials:

- A changed date may not be offered again once its contents were seen
  (`main.rs:6419-6425`, `6296`), against `README.md:20` and `docs/RELEASE_AUDIT.md:58`:
  a date that goes back to an earlier value is passed over.
- A connection left `syncing` by a stop or by an error of the vault is never
  refreshed again.  A refresh under way at a disconnection revives the connection;
  one that the server refuses deletes a token that was stored meanwhile.
- A date that is removed leaves its provenance link behind.
- After a PIN change whose last deletion failed, a disable that is cut short or
  fails may bring an older PIN back at the next start (`PinIsKept` names it in
  `expected`).
- When the new PIN record cannot be moved in and the old one cannot be moved back
  (`pin.rs:161-165`), the program runs without a PIN: locking is refused and settings
  offer to enable one.  The next start finds the old record and moves it back.
  Without the exception (`unrestored`) `PinIsKept` fails with one PIN and one failure;
  enabling a PIN meanwhile deletes the old record.
- Enabling a PIN does not forget earlier failed attempts (`main.rs:2622-2639`), as
  changing and disabling it do.
- Outside Windows any failure of the credential vault makes a new key
  (`device_key.rs:188-198`); `KeyOpensDatabase` exempts a vault that cannot be read.
- Signing in by code may replace a signed-in account; a callback accepted before
  the program is locked completes while it is locked; a sign-out whose vault entry
  cannot be deleted leaves a revoked session; a refresh whose answer is lost
  leaves a used-up token (`lost` in `SessionIsKept`).

AI and pictures:

- Any error, an invalid input too, marks a provider unhealthy; a failed test leaves
  the window's list as it was; a test that ends between a screenshot's
  confirmation and its sending changes the company; the study view's tick stays
  after a success; a refused model name leaves its key stored.
- The places of an AI reading are their identifiers, so that a second reading in
  another order makes a class twice (the comment at `main.rs:7770-7772` calls them
  stable across readings).

Records and school calendar:

- Two computers: a form's version check passes on a row that was pulled with the
  same version (`main.rs:4955-5006`, `profile.rs:958-960`;
  `docs/DESKTOP_ARCHITECTURE.md:23`).  What a deletion or an activation changes in
  other rows is not recorded as mutations, so another computer keeps dangling term
  and course references and two active terms.  `ReferencesHold` is about one.
- The confirmation of a term's deletion says "Courses and class times in this term
  are removed with it." (`WorkspaceView.tsx:1394`) while courses are kept without a
  term (`profile.rs:1019`); editing a class time from the Courses view drops its
  instructor (`WorkspaceView.tsx:827`).
- An edit commits before its mutation is recorded; `complete_onboarding` commits
  before it plans, and a retry makes a second term, courses and commitments.
- After one applied change the next change of the same date is always skipped;
  applying does not check that a term starts before it ends; a row without a
  session within three days after a term's end is given to that term; a moved last
  day of classes leaves the old event; a deleted term's holidays can be added again.

Documents and upgrades:

- A document upload that was interrupted after its initiation can never be resumed
  or completed, against `docs/releases/0.6.0.md:14` ("resumable document chunks"):
  every attempt seals with fresh nonces and `initiateObject` refuses another
  manifest.  Even an equal one would be refused, because `JSON.stringify` compares
  objects whose keys are in another order (`sync-repository.ts:175`).
- A download of a document the student has deleted writes its file back into the
  vault, where no row names it (`main.rs:5790-5820`).  The interface calls neither
  transfer command.
- Two downloads of one document on a computer share a temporary name
  (`main.rs:5818-5820`): the second empties the file while the first moves it, so that
  a partial file lies under the name of a listed document.  It is whole again when
  the second one has written; if that one is cut short, it stays partial until another
  download.  Without the exception (`overlapped`) `DocumentHolds` fails with two
  downloads.
- An older build that opens a newer database lowers `user_version`, and the next
  upgrade keeps every document without asking, whatever was decided or still open.
- Restoring a quarantined legacy profile after onboarding overwrites the student's
  name in the settings but not in the profile's row.
- `backfill_legacy_canvas_links` may link two approved candidates of equal title and
  date to the one record that remains.

## 7. What is not modelled

- Text and image extraction (`imports.rs`, `schedule_reader.rs`, `pdf_renderer.rs`):
  regular expressions and heuristics over text, a function of one input without
  state; what is done with their candidates is in `ImportReview` and
  `ScheduleSource`.
- Fetching: pagination, redirects and limits of `canvas.rs`, `canvas_calendar.rs`,
  `school_calendar.rs` and `sync_transport.rs` are one step that succeeds or fails.
- The catalogue of schools (`school_provider.rs`), dashboards, search, export of the
  calendar, preferences and availability forms: reads, or single-row writes.
- `backfill_legacy_canvas_links` but for the conflicts it opens, and what the
  quarantine restores of the student's name.
- Prompts and answers of AI providers (`managed_ai.rs`, `ai_providers.rs`) but for
  their success, failure and the classes they return.
- Archive format, cryptography (an encryption is a nonce, a signature its author, a
  key its name), token verification, account isolation policies.
- The order of commits in the sync database: the identity column draws a sequence
  before its transaction commits, and a download asks for what is above its cursor
  (`sync-repository.ts:169`); the modules take sequence order for commit order, so a
  batch that commits late and is passed over is not in them.

What could follow: a `CommitOrder` variant of `AccountLog`, in which a batch may
commit behind one with higher sequences.

To repeat a check: `tlc -config MergeRecords.cfg MCCanonicalMerge.tla`, likewise for
the others (`Merge...` with `MCCanonicalMerge`, `Upload...` with `MCSyncUpload`,
`Devices...` with `AccountDevices`, `ProfileSwaps` with `ProfileFiles`, `AiShown` with
`AiProviders`, `DesktopParts` with `MCDesktopParts`); to repeat a proof:
`tlapm CanonicalMergeProofs.tla`.
