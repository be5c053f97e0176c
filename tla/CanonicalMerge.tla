---------------------------- MODULE CanonicalMerge ----------------------------
(***************************************************************************)
(* The merge of canonical mutations on the computers of one account        *)
(* (main.rs: mutation, apply_canonical_mutation, drain_deferred_mutations, *)
(* pull_encrypted_mutations and the record commands that call mutation).   *)
(*                                                                         *)
(* Every computer keeps an encrypted database.  A record command changes   *)
(* rows and appends a mutation stamped with a hybrid logical timestamp;    *)
(* mutations reach the account's append-only server log (SyncUpload says   *)
(* how) and the other computers download the log page by page.  A page is  *)
(* one SQL transaction: it is applied to a working copy, under the         *)
(* database lock, and becomes the database at commit or leaves no trace.   *)
(*                                                                         *)
(* Payload fields that no property tells apart are one Value; the two      *)
(* dates of a commitment or of a term are one Date.  Every computer has    *)
(* finished onboarding: the interface offers nothing else before.          *)
(***************************************************************************)
EXTENDS HybridClock, Sequences, FiniteSets

CONSTANTS
  Device,        \* identities of the approved computers
  Entity,        \* record ids
  Task,          \* tasks
  Dated,         \* commitments and academic terms
  LocalOnly,     \* documents and other records that are never replicated
  Unmapped,      \* records whose type a build before the upgrade cannot map
  Parent,        \* the row a record's NOT NULL foreign key names, or None
  Named,         \* the row its nullable foreign key may name, or None
  Value, Date, DefaultValue, DefaultDate,
  None,
  Wall,          \* readings of each computer's wall clock
  PageSize,      \* mutations in a downloaded page: 500 in the code
  NestedBegin,   \* whether SQLite accepts BEGIN inside a transaction
  MaxMutations,  \* bound: mutations recorded by all computers together
  Edited,        \* bound: records the student edits after creating them
  Toggled,       \* bound: tasks the student completes or reopens
  Deleted,       \* bound: records the student deletes
  Dependent,     \* bound: tasks the student gives prerequisites
  Plannable,     \* bound: tasks the planner finds time for
  Overlapping,   \* bound: computers on which two pulls may overlap
  MaxFaults,     \* bound: crashes and failed downloads of all computers
  MaxTorn        \* bound: crashes between a row change and its mutation

ASSUME RecordAssumption ==
  /\ Device \subseteq Nat \ {0}
  /\ Task \subseteq Entity /\ Dated \subseteq Entity \ Task
  /\ LocalOnly \subseteq Entity \ (Task \cup Dated)
  /\ Unmapped \subseteq Entity \ (Task \cup Dated \cup LocalOnly)
  /\ Parent \in [Entity -> Entity \cup {None}]
  /\ Named \in [Entity -> Entity \cup {None}]
  /\ None \notin Entity
  /\ DefaultValue \in Value /\ DefaultDate \in Date
  /\ Wall \in [Device -> SUBSET Nat]

ASSUME BoundAssumption ==
  /\ Edited \subseteq Entity \ LocalOnly
  /\ Toggled \subseteq Task /\ Deleted \subseteq Entity \ LocalOnly
  /\ Dependent \subseteq Task /\ Plannable \subseteq Task
  /\ MaxMutations \in Nat /\ Overlapping \subseteq Device
  /\ MaxFaults \in Nat /\ MaxTorn \in Nat
  /\ PageSize \in Nat \ {0} /\ NestedBegin \in BOOLEAN

VARIABLES
  db,      \* the committed database of each computer
  planned, \* the tasks with study blocks in its plan (plan_blocks)
  open,    \* the pull transaction a computer has open, or None
  pull,    \* the pulls running on each computer
  log,     \* the account's mutations in server order
  faults,  \* number of crashes and failed downloads so far
  torn     \* number of row changes that lost their mutation so far

vars == <<db, planned, open, pull, log, faults, torn>>

-----------------------------------------------------------------------------
(* The database of one computer *)

NoKey == [physical |-> 0, counter |-> 0, device |-> 0]   \* no register yet

Row == [value : Value, date : Date, done : BOOLEAN]

\* A NOT NULL foreign key names a course, a term, the profile or a document:
\* none of these has one of its own, and neither has a task or a commitment.
ASSUME SchemaAssumption ==
  /\ \A e \in Entity : Parent[e] # None => Parent[Parent[e]] = None
  /\ \A e \in Task \cup Dated : Parent[e] = None /\ Named[e] = None
  /\ None \notin Row

\* Only tasks, commitments and terms have critical dates.
DatesOf(e) == IF e \in Task \cup Dated THEN Date ELSE {DefaultDate}

MutationSet ==
  [key : Key(Device), entity : Entity, snapshot : Row \cup {None},
   linked : BOOLEAN, added : SUBSET Task, removed : SUBSET Task]

Element == [key : Key(Device) \cup {NoKey}, live : BOOLEAN]

NoElement == [key |-> NoKey, live |-> FALSE]

\* A sync_critical_date conflict; by names the mutation that raised it.
Conflict == [entity : Entity, proposed : Date, by : Key(Device), resolved : BOOLEAN]

Database ==
  [clock     : Clock,
   rows      : [Entity -> Row \cup {None}],
   links     : SUBSET Entity,       \* records whose nullable foreign key is set
   deps      : [Task -> SUBSET Task],                 \* task_dependencies
   version   : [Entity -> Key(Device) \cup {NoKey}],  \* sync_entity_versions
   elements  : [Task -> [Task -> Element]],           \* sync_set_elements
   conflicts : SUBSET Conflict,                       \* source_conflicts
   mutations : Seq(MutationSet),
   uploaded  : Nat,
   received  : SUBSET Nat,          \* log positions in sync_received_mutations
   deferred  : SUBSET Nat,          \* ... with outcome deferred_unknown_type
   cursor    : Nat,                 \* last_pull_cursor
   upgraded  : BOOLEAN]             \* the installed build maps Unmapped

EmptyDatabase ==
  [clock     |-> InitialClock,
   rows      |-> [e \in Entity |-> None],
   links     |-> {},
   deps      |-> [t \in Task |-> {}],
   version   |-> [e \in Entity |-> NoKey],
   elements  |-> [t \in Task |-> [x \in Task |-> NoElement]],
   conflicts |-> {},
   mutations |-> <<>>,
   uploaded  |-> 0,
   received  |-> {},
   deferred  |-> {},
   cursor    |-> 0,
   upgraded  |-> Unmapped = {}]

Exists(r, e) == r.rows[e] # None

LiveElements(r, t) == {x \in Task : r.elements[t][x].live}

\* SQL DELETE of one row with the actions the schema declares: CASCADE for the
\* foreign keys that may not be null, SET NULL for those that may.
DeleteRow(r, e) ==
  LET gone == {e} \cup {c \in Entity : Parent[c] = e}
  IN  [r EXCEPT !.rows = [x \in Entity |-> IF x \in gone THEN None ELSE @[x]],
                !.links = {x \in @ : x \notin gone /\ Named[x] \notin gone},
                !.deps = [t \in Task |-> IF t \in gone THEN {} ELSE @[t] \ gone]]

\* A row is written, with or without its nullable foreign key.
Put(r, e, row, linked) ==
  [r EXCEPT !.rows[e] = row,
            !.links = IF linked THEN @ \cup {e} ELSE @ \ {e}]

-----------------------------------------------------------------------------
(* Recording a local change: mutation() *)

\* local_set_changes and record_local_set_elements: the dependency rows are
\* compared with the live set elements, and each difference is an element
\* change stamped with this mutation's key.  A local-only record's mutation
\* is never uploaded and sets no register: its clock tick is all that is left.
Record(r, d, e, now) ==
  LET clock    == Tick(r.clock, now)
      key      == KeyOf(clock, d)
      incoming == IF e \in Task /\ Exists(r, e) THEN r.deps[e] ELSE {}
      current  == IF e \in Task THEN LiveElements(r, e) ELSE {}
      changed  == (incoming \ current) \cup (current \ incoming)
  IN  IF e \in LocalOnly THEN [r EXCEPT !.clock = clock] ELSE
      [r EXCEPT
        !.clock     = clock,
        !.version   = [@ EXCEPT ![e] = key],
        !.mutations = Append(@, [key      |-> key,
                                 entity   |-> e,
                                 snapshot |-> r.rows[e],
                                 linked   |-> e \in r.links,
                                 added    |-> incoming \ current,
                                 removed  |-> current \ incoming]),
        !.elements  = [t \in Task |-> [x \in Task |->
                        IF t = e /\ x \in changed /\ AtMost(@[t][x].key, key)
                        THEN [key |-> key, live |-> x \in incoming]
                        ELSE @[t][x]]]]

-----------------------------------------------------------------------------
(* Applying a downloaded mutation: apply_canonical_mutation() *)

\* Mutant of RebuildDependencies: prerequisites are not looked up in tasks.
RebuildUnchecked(r, t) ==
  IF t \in Task /\ Exists(r, t)
  THEN [r EXCEPT !.deps[t] = LiveElements(r, t) \ {t}]
  ELSE r

\* rebuild_task_dependencies_from_set
RebuildDependencies(r, t) ==
  IF t \in Task /\ Exists(r, t)
  THEN [r EXCEPT !.deps[t] = {x \in LiveElements(r, t) \ {t} : Exists(r, x)}]
  ELSE r

\* Mutant of Observed: a late element change overwrites a newer one.
ObservedInArrivalOrder(r, m) ==
  RebuildDependencies(
    [r EXCEPT !.clock = Observe(@, ReadingOf(m.key)),
              !.elements = [t \in Task |-> [x \in Task |->
                             IF t = m.entity /\ x \in m.added \cup m.removed
                             THEN [key |-> m.key, live |-> x \in m.added]
                             ELSE @[t][x]]]],
    m.entity)

\* observe_hybrid_logical_timestamp, then apply_task_dependency_changes
Observed(r, m) ==
  LET merged == [r EXCEPT
        !.clock    = Observe(@, ReadingOf(m.key)),
        !.elements = [t \in Task |-> [x \in Task |->
                       IF /\ t = m.entity
                          /\ x \in m.added \cup m.removed
                          /\ Before(@[t][x].key, m.key)
                       THEN [key |-> m.key, live |-> x \in m.added]
                       ELSE @[t][x]]]]
  IN  RebuildDependencies(merged, m.entity)

\* The critical date of the local row differs from the one proposed.
DateDiffers(r, m) ==
  /\ m.entity \in Task \cup Dated
  /\ m.snapshot # None
  /\ Exists(r, m.entity)
  /\ r.rows[m.entity].date # m.snapshot.date

\* sync_conflict
RaiseConflict(r, m) ==
  IF DateDiffers(r, m)
  THEN [r EXCEPT !.conflicts = @ \cup {[entity   |-> m.entity,
                                         proposed |-> m.snapshot.date,
                                         by       |-> m.key,
                                         resolved |-> FALSE]}]
  ELSE r

\* A local critical date is kept, and so is a completed task.
MergedRow(r, m) ==
  IF Exists(r, m.entity)
  THEN [m.snapshot EXCEPT !.date = r.rows[m.entity].date,
                          !.done = @ \/ r.rows[m.entity].done]
  ELSE m.snapshot

\* Mutant of DeletesRow: a tombstone deletes a completed task.
DeletesAnyRow(r, m) == m.snapshot = None /\ Exists(r, m.entity)

\* Only a task that is not completed is deleted by a tombstone.
DeletesRow(r, m) ==
  /\ m.snapshot = None
  /\ Exists(r, m.entity)
  /\ ~r.rows[m.entity].done

Understands(r, e) == e \notin Unmapped \/ r.upgraded

\* Mutant of IsStale: whatever arrives last wins.
IsSame(r, m) == m.key = r.version[m.entity]

\* The register already holds this mutation or a newer one.
IsStale(r, m) == AtMost(m.key, r.version[m.entity])

Outcome(r, m) ==
  IF IsStale(r, m) THEN "superseded"
  ELSE IF ~Understands(r, m.entity) THEN "deferred"
  ELSE "applied"

\* Mutant of Merged: a newer mutation's date is dropped without a conflict.
MergedSilently(r, m) ==
  LET written == IF m.snapshot # None
                 THEN RebuildDependencies(Put(r, m.entity, MergedRow(r, m), m.linked), m.entity)
                 ELSE IF DeletesRow(r, m) THEN DeleteRow(r, m.entity)
                 ELSE r
  IN  [written EXCEPT !.version[m.entity] = m.key]

Merged(r, m) ==
  LET dated   == RaiseConflict(r, m)
      written == IF m.snapshot # None
                 THEN RebuildDependencies(Put(dated, m.entity, MergedRow(r, m), m.linked), m.entity)
                 ELSE IF DeletesRow(r, m) THEN DeleteRow(dated, m.entity)
                 ELSE dated
  IN  [written EXCEPT !.version[m.entity] = m.key]

ApplyMutation(r, m) ==
  LET seen == Observed(r, m)
  IN  CASE Outcome(r, m) = "superseded" -> RaiseConflict(seen, m)
        [] Outcome(r, m) = "deferred"   -> seen
        [] Outcome(r, m) = "applied"    -> Merged(seen, m)

\* The rows the foreign keys of a snapshot name.
Targets(m) == {Parent[m.entity]} \cup (IF m.linked THEN {Named[m.entity]} ELSE {})

\* SQLite refuses the row (foreign_keys = ON): one it names is not there.
ForeignKeyFails(r, m) ==
  /\ Outcome(r, m) = "applied"
  /\ m.snapshot # None
  /\ \E e \in Targets(m) \ {None} : ~Exists(r, e)

\* SQLite refuses the deletion: plan_blocks names the task, without ON DELETE.
StillPlanned(r, m, tasks) ==
  /\ Outcome(r, m) = "applied"
  /\ DeletesRow(r, m)
  /\ m.entity \in tasks

-----------------------------------------------------------------------------
(* Initial state *)

Worker(d) == IF d \in Overlapping THEN {1, 2} ELSE {1}

IdlePull == [stage |-> "idle", cursor |-> 0, to |-> 0, more |-> FALSE]

Init ==
  /\ db = [d \in Device |-> EmptyDatabase]
  /\ planned = [d \in Device |-> {}]
  /\ open = [d \in Device |-> None]
  /\ pull = [d \in Device |-> [w \in Worker(d) |-> IdlePull]]
  /\ log = <<>>
  /\ faults = 0 /\ torn = 0

-----------------------------------------------------------------------------
(* Record commands.  They hold the database lock, so none runs while a     *)
(* pull transaction is open; the row change and mutation() are separate    *)
(* autocommitted statements, and a crash may fall between them.            *)

Recorded(d) == Len(db[d].mutations)

RecordedByAll == Cardinality(UNION {{<<d, i>> : i \in 1 .. Recorded(d)} : d \in Device})

CanRecord(d) ==
  /\ open[d] = None
  /\ RecordedByAll < MaxMutations
  /\ db[d].clock.counter < MaxCounter

\* regenerate_plan: which tasks of database r have blocks afterwards is the
\* planner's affair and what was locked, done or begun before; all of them exist.
Replan(d, r) ==
  \E tasks \in SUBSET {t \in Plannable : Exists(r, t)} :
    planned' = [planned EXCEPT ![d] = tasks]

\* A command plans again after mutation(); delete_task removes the task's
\* blocks with its row.
Save(d, e, changed) ==
  \/ /\ \E now \in Wall[d] : db' = [db EXCEPT ![d] = Record(changed, d, e, now)]
     /\ Replan(d, changed)
     /\ UNCHANGED <<open, pull, log, faults, torn>>
  \/ /\ torn < MaxTorn
     /\ db' = [db EXCEPT ![d] = changed]
     /\ planned' = [planned EXCEPT ![d] = {t \in @ : Exists(changed, t)}]
     /\ pull' = [pull EXCEPT ![d] = [w \in Worker(d) |-> IdlePull]]
     /\ torn' = torn + 1
     /\ UNCHANGED <<open, log, faults>>

\* A record id is a new UUID: nothing anywhere mentions it.
Fresh(e) ==
  \A d \in Device : /\ ~Exists(db[d], e)
                     /\ \A i \in 1 .. Recorded(d) : db[d].mutations[i].entity # e

\* The prerequisites a task command may name.
DependencySets(r, e) ==
  IF e \in Dependent THEN SUBSET {x \in Task \ {e} : Exists(r, x)} ELSE {{}}

\* Whether the record's nullable foreign key may be set.
LinkChoices(r, e) ==
  IF Named[e] # None /\ Exists(r, Named[e]) THEN BOOLEAN ELSE {FALSE}

WithRow(r, e, row, linked, deps) ==
  [Put(r, e, row, linked) EXCEPT
     !.deps = [t \in Task |-> IF t = e THEN deps ELSE @[t]]]

NewRow == [value |-> DefaultValue, date |-> DefaultDate, done |-> FALSE]

\* Contents are told apart by equality alone: a record's first are the default.
Create(d, e) ==
  /\ CanRecord(d)
  /\ Fresh(e)
  /\ Parent[e] # None => Exists(db[d], Parent[e])
  /\ e \in Unmapped => db[d].upgraded
  /\ \E linked \in LinkChoices(db[d], e), deps \in DependencySets(db[d], e) :
       Save(d, e, WithRow(db[d], e, NewRow, linked, deps))

Update(d, e) ==
  /\ CanRecord(d)
  /\ e \in Edited
  /\ Exists(db[d], e)
  /\ \E v \in Value, date \in DatesOf(e), linked \in LinkChoices(db[d], e),
        deps \in DependencySets(db[d], e) :
       Save(d, e, WithRow(db[d], e, [db[d].rows[e] EXCEPT !.value = v, !.date = date], linked, deps))

\* toggle_task, which does not plan again
Toggle(d, e) ==
  /\ CanRecord(d)
  /\ e \in Toggled
  /\ Exists(db[d], e)
  /\ Save(d, e, [db[d] EXCEPT !.rows[e].done = ~@])
  /\ planned' = planned

Delete(d, e) ==
  /\ CanRecord(d)
  /\ e \in Deleted
  /\ Exists(db[d], e)
  /\ Save(d, e, DeleteRow(db[d], e))

Resolved(r, c) == [r EXCEPT !.conflicts = (@ \ {c}) \cup {[c EXCEPT !.resolved = TRUE]}]

\* resolve_source_conflict_in_db, one transaction: the proposed date is taken
\* and recorded, or only the conflict is closed.  The conflict's own mutation
\* is reduced to its clock tick.
UseSource(d, c) ==
  /\ CanRecord(d)
  /\ \E now \in Wall[d] :
       LET r     == db[d]
           taken == IF Exists(r, c.entity)
                    THEN [r EXCEPT !.rows[c.entity].date = c.proposed]
                    ELSE r
           saved == Resolved(Record(taken, d, c.entity, now), c)
       IN  /\ saved.clock.counter < MaxCounter
           /\ db' = [db EXCEPT ![d] = [saved EXCEPT !.clock = Tick(@, now)]]
           /\ Replan(d, saved)
  /\ UNCHANGED <<open, pull, log, faults, torn>>

KeepExisting(d, c) ==
  /\ open[d] = None
  /\ db[d].clock.counter < MaxCounter
  /\ \E now \in Wall[d] :
       db' = [db EXCEPT ![d] = [Resolved(db[d], c) EXCEPT !.clock = Tick(@, now)]]
  /\ Replan(d, db[d])
  /\ UNCHANGED <<open, pull, log, faults, torn>>

Resolve(d) ==
  \E c \in db[d].conflicts : ~c.resolved /\ (UseSource(d, c) \/ KeepExisting(d, c))

\* The commands of the plan itself (replan and the changes of one block): the
\* mutations they record are local-only.
PlanAgain(d) ==
  /\ open[d] = None
  /\ Replan(d, db[d])
  /\ UNCHANGED <<db, open, pull, log, faults, torn>>

-----------------------------------------------------------------------------
(* Synchronizing *)

\* Mutant of Push: the acknowledgement is not recorded.
PushForgotten(d) ==
  /\ open[d] = None
  /\ db[d].uploaded < Recorded(d)
  /\ Len(log) < MaxMutations
  /\ log' = Append(log, db[d].mutations[db[d].uploaded + 1])
  /\ UNCHANGED <<db, planned, open, pull, faults, torn>>

\* The next mutation of the outbox reaches the server log.
Push(d) ==
  /\ open[d] = None
  /\ db[d].uploaded < Recorded(d)
  /\ log' = Append(log, db[d].mutations[db[d].uploaded + 1])
  /\ db' = [db EXCEPT ![d].uploaded = @ + 1]
  /\ UNCHANGED <<planned, open, pull, faults, torn>>

SetPull(d, w, p) == pull' = [pull EXCEPT ![d][w] = p]

\* A pull with nothing to merge commits an empty page over an unchanged
\* database: a stutter, left out unless another pull is under way.
WorthPulling(d) ==
  \/ \E w \in Worker(d) : pull[d][w].stage # "idle"
  \/ db[d].cursor < Len(log)
  \/ db[d].deferred # {}

\* pull_encrypted_mutations reads the cursor ...
StartPull(d, w) ==
  /\ pull[d][w].stage = "idle"
  /\ WorthPulling(d)
  /\ open[d] = None
  /\ SetPull(d, w, [IdlePull EXCEPT !.stage = "drain", !.cursor = db[d].cursor])
  /\ UNCHANGED <<db, planned, open, log, faults, torn>>

\* ... then retries what an earlier build held back, in a transaction ...
BeginDrain(d, w) ==
  /\ pull[d][w].stage = "drain"
  /\ open[d] = None
  /\ open' = [open EXCEPT ![d] = [worker |-> w, work |-> db[d], next |-> 0, drained |-> FALSE]]
  /\ UNCHANGED <<db, planned, pull, log, faults, torn>>

\* Mutant of Drainable: only records that have no register yet are retried.
DrainableNew(r) ==
  {p \in r.deferred : Outcome(r, log[p]) # "deferred" /\ r.version[log[p].entity] = NoKey}

Drainable(r) == {p \in r.deferred : Outcome(r, log[p]) # "deferred"}

\* The log position an open transaction applies next, if any is left.
NextUp(d) ==
  LET o == open[d]
      p == pull[d][o.worker]
  IN  IF p.stage = "drain"
      THEN {q \in Drainable(o.work) : \A s \in Drainable(o.work) : AtMost(log[q].key, log[s].key)}
      ELSE {q \in {o.next} : q <= p.to}

\* This computer wrote it: the mutation is in the mutations table already.
AlreadyLocal(d, m) == m.key.device = d

\* The database refuses the mutation at position q.
RowRefused(d, q) ==
  /\ ~AlreadyLocal(d, log[q])
  /\ \/ ForeignKeyFails(open[d].work, log[q])
     \/ StillPlanned(open[d].work, log[q], planned[d])

\* ... oldest mutation first ...
DrainStep(d) ==
  /\ open[d] # None
  /\ pull[d][open[d].worker].stage = "drain"
  /\ \E q \in NextUp(d) :
       /\ ~RowRefused(d, q)
       /\ open' = [open EXCEPT
                    ![d].work = [ApplyMutation(open[d].work, log[q]) EXCEPT !.deferred = @ \ {q}],
                    ![d].drained = TRUE]
  /\ UNCHANGED <<db, planned, pull, log, faults, torn>>

\* regenerate_plan begins a transaction of its own inside the open one.
ReplanFails(o) == ~NestedBegin /\ (o.next > 0 \/ o.drained)

CommitDrain(d) ==
  /\ open[d] # None
  /\ pull[d][open[d].worker].stage = "drain"
  /\ NextUp(d) = {}
  /\ ~ReplanFails(open[d])
  /\ db' = [db EXCEPT ![d] = open[d].work]
  /\ IF open[d].drained THEN Replan(d, open[d].work) ELSE planned' = planned
  /\ open' = [open EXCEPT ![d] = None]
  /\ pull' = [pull EXCEPT ![d][open[d].worker].stage = "fetch"]
  /\ UNCHANGED <<log, faults, torn>>

\* ... and downloads pages until the server has no more.
Fetch(d, w) ==
  /\ pull[d][w].stage = "fetch"
  /\ LET from == pull[d][w].cursor
         to   == IF from + PageSize < Len(log) THEN from + PageSize ELSE Len(log)
     IN  SetPull(d, w, [stage |-> "page", cursor |-> from, to |-> to, more |-> to < Len(log)])
  /\ UNCHANGED <<db, planned, open, log, faults, torn>>

BeginPage(d, w) ==
  /\ pull[d][w].stage = "page"
  /\ open[d] = None
  /\ open' = [open EXCEPT ![d] = [worker |-> w, work |-> db[d],
                                  next |-> pull[d][w].cursor + 1, drained |-> FALSE]]
  /\ UNCHANGED <<db, planned, pull, log, faults, torn>>

\* The next mutation of the page is applied, unless this computer wrote it,
\* and INSERT OR IGNOREd into sync_received_mutations.
Received(d, r, p) ==
  LET m       == log[p]
      applied == IF AlreadyLocal(d, m) THEN r ELSE ApplyMutation(r, m)
      held    == /\ ~AlreadyLocal(d, m)
                 /\ p \notin r.received
                 /\ Outcome(r, m) = "deferred"
  IN  [applied EXCEPT !.received = @ \cup {p},
                      !.deferred = IF held THEN @ \cup {p} ELSE @]

PageStep(d) ==
  /\ open[d] # None
  /\ pull[d][open[d].worker].stage = "page"
  /\ \E q \in NextUp(d) :
       /\ ~RowRefused(d, q)
       /\ open' = [open EXCEPT ![d].work = Received(d, @, q), ![d].next = q + 1]
  /\ UNCHANGED <<db, planned, pull, log, faults, torn>>

\* Mutants of CursorAfter: one too far, and the end of the log.
CursorPastPage(d) == open[d].next
CursorAtEnd(d) == Len(log)

\* The cursor a committed page leaves: the one the server sent with it.
CursorAfter(d) == pull[d][open[d].worker].to

CommitPage(d) ==
  /\ open[d] # None
  /\ LET o == open[d]
         p == pull[d][o.worker]
     IN  /\ p.stage = "page"
         /\ NextUp(d) = {}
         /\ ~ReplanFails(o)
         /\ db' = [db EXCEPT ![d] = [o.work EXCEPT !.cursor = CursorAfter(d)]]
         /\ Replan(d, o.work)
         /\ SetPull(d, o.worker, IF p.more THEN [IdlePull EXCEPT !.stage = "fetch", !.cursor = p.to]
                                 ELSE IdlePull)
  /\ open' = [open EXCEPT ![d] = None]
  /\ UNCHANGED <<log, faults, torn>>

\* An error in the transaction rolls it back and ends the pull.
Refused(d) ==
  \/ NextUp(d) = {} /\ ReplanFails(open[d])
  \/ \E q \in NextUp(d) : RowRefused(d, q)

AbortTransaction(d) ==
  /\ open[d] # None
  /\ Refused(d)
  /\ SetPull(d, open[d].worker, IdlePull)
  /\ open' = [open EXCEPT ![d] = None]
  /\ UNCHANGED <<db, planned, log, faults, torn>>

-----------------------------------------------------------------------------
(* The environment *)

Crash(d) ==
  /\ faults < MaxFaults
  /\ \E w \in Worker(d) : pull[d][w].stage # "idle"
  /\ open' = [open EXCEPT ![d] = None]
  /\ pull' = [pull EXCEPT ![d] = [w \in Worker(d) |-> IdlePull]]
  /\ faults' = faults + 1
  /\ UNCHANGED <<db, planned, log, torn>>

DownloadFails(d, w) ==
  /\ faults < MaxFaults
  /\ pull[d][w].stage = "fetch"
  /\ SetPull(d, w, IdlePull)
  /\ faults' = faults + 1
  /\ UNCHANGED <<db, planned, open, log, torn>>

\* A later build that maps every entity type is installed.
Upgrade(d) ==
  /\ ~db[d].upgraded
  /\ open[d] = None
  /\ db' = [db EXCEPT ![d].upgraded = TRUE]
  /\ pull' = [pull EXCEPT ![d] = [w \in Worker(d) |-> IdlePull]]
  /\ UNCHANGED <<planned, open, log, faults, torn>>

Edit(d) ==
  \/ \E e \in Entity : Create(d, e) \/ Update(d, e) \/ Toggle(d, e) \/ Delete(d, e)
  \/ Resolve(d) \/ PlanAgain(d)

PullRuns(d) ==
  \/ \E w \in Worker(d) : StartPull(d, w) \/ BeginDrain(d, w) \/ Fetch(d, w) \/ BeginPage(d, w)
  \/ DrainStep(d) \/ CommitDrain(d) \/ PageStep(d) \/ CommitPage(d) \/ AbortTransaction(d)

Next ==
  \E d \in Device :
    \/ Edit(d) \/ Push(d) \/ PullRuns(d) \/ Crash(d) \/ Upgrade(d)
    \/ \E w \in Worker(d) : DownloadFails(d, w)

Spec == Init /\ [][Next]_vars

\* The student keeps pressing Synchronize on every computer, which pushes and
\* then pulls; a push waits for the database lock and gets it in the end.
FairSpec == Spec /\ \A d \in Device : SF_vars(Push(d)) /\ WF_vars(PullRuns(d))

-----------------------------------------------------------------------------
(* Properties *)

Pull == [stage : {"idle", "drain", "fetch", "page"}, cursor : Nat, to : Nat, more : BOOLEAN]

Pulls == [{1} -> Pull] \cup [{1, 2} -> Pull]

Transaction == [worker : {1, 2}, work : Database, next : Nat, drained : BOOLEAN]

\* What is received or being read is in the log.
SyncTypes ==
  /\ db \in [Device -> Database]
  /\ \A d \in Device : db[d].received \subseteq 1 .. Len(log) /\ db[d].cursor <= Len(log)
  /\ open \in [Device -> Transaction \cup {None}]
  /\ pull \in [Device -> Pulls] /\ \A d \in Device : pull[d] \in [Worker(d) -> Pull]
  /\ log \in Seq(MutationSet)
  /\ faults \in Nat /\ torn \in Nat

\* Every variable has its type.
TypeOK == SyncTypes /\ planned \in [Device -> SUBSET Task]

\* What a computer wrote or downloaded, and what it has merged of it.
Own(r) == {r.mutations[i] : i \in 1 .. Len(r.mutations)}
Known(r) == Own(r) \cup {log[p] : p \in r.received}
MergedBy(r) == Own(r) \cup {log[p] : p \in r.received \ r.deferred}

\* The version register of a record is the newest merged mutation's key.
RegisterIsNewest ==
  \A d \in Device, e \in Entity :
    LET about == {m \in MergedBy(db[d]) : m.entity = e}
    IN  IF about = {} THEN db[d].version[e] = NoKey
        ELSE /\ \E m \in about : m.key = db[d].version[e]
             /\ \A m \in about : AtMost(m.key, db[d].version[e])

\* A dependency's set element is what the newest known mutation that added or
\* removed it says, whatever the order of arrival.
ElementIsNewest ==
  \A d \in Device, t \in Task, x \in Task :
    LET touching == {m \in Known(db[d]) : m.entity = t /\ x \in m.added \cup m.removed}
        element  == db[d].elements[t][x]
    IN  IF touching = {} THEN element = NoElement
        ELSE \E m \in touching :
               /\ \A n \in touching : AtMost(n.key, m.key)
               /\ element = [key |-> m.key, live |-> x \in m.added]

\* Foreign keys hold: no record without its parent, and no dependency without
\* both of its tasks, after any interleaving of cascades and late arrivals.
NoOrphans ==
  \A d \in Device :
    /\ \A e \in Entity : Exists(db[d], e) /\ Parent[e] # None => Exists(db[d], Parent[e])
    /\ \A t \in Task : \A x \in db[d].deps[t] : Exists(db[d], t) /\ Exists(db[d], x)

\* Records without a parent, a critical date or a completion: what the last
\* writer wrote is all there is to merge.
Plain == {e \in Entity \ (Task \cup Dated \cup LocalOnly) : Parent[e] = None}

\* The newest merged mutation of a record deleted it.
LastDeleted(r, e) ==
  \E m \in MergedBy(r) : m.entity = e /\ m.key = r.version[e] /\ m.snapshot = None

\* Two computers that merged the same mutations agree: on every register and
\* set element, on the rows the last writer decides alone, and on the values
\* of the others, unless both kept a completed task that was deleted last.
Converged ==
  \A c, d \in Device :
    (/\ torn = 0
     /\ MergedBy(db[c]) = MergedBy(db[d])) =>
      /\ db[c].version = db[d].version
      /\ db[c].elements = db[d].elements
      /\ \A e \in Plain : db[c].rows[e] = db[d].rows[e]
      /\ \A e \in Task \cup Dated :
           Exists(db[c], e) /\ Exists(db[d], e) /\ ~LastDeleted(db[c], e) =>
             db[c].rows[e].value = db[d].rows[e].value

\* A critical date that differs from the winning mutation's was kept on
\* purpose: the student was, or still is, asked about it.
KeptDateIsFlagged ==
  torn = 0 =>
    \A d \in Device, e \in Task \cup Dated : Exists(db[d], e) =>
      \A m \in MergedBy(db[d]) :
        (/\ m.entity = e
         /\ m.key = db[d].version[e]
         /\ m.snapshot # None
         /\ m.snapshot.date # db[d].rows[e].date) =>
           \E c \in db[d].conflicts : c.entity = e /\ c.by = m.key

\* The cursor never runs past a mutation that was not received, not even when
\* pulls overlap, fail or are cut off by a crash.
NothingSkipped ==
  \A d \in Device : 1 .. db[d].cursor \subseteq db[d].received

\* What a transaction in progress, and a pull between two of its steps, rely on:
\* the working copy has lost nothing the database received, and every position
\* a pull claims to be past was received.
Sound(r) ==
  /\ r.uploaded <= Len(r.mutations)
  /\ r.received \subseteq 1 .. Len(log)
  /\ r.deferred \subseteq r.received
  /\ r.cursor <= Len(log)
  /\ 1 .. r.cursor \subseteq r.received

SoundPulls(d, r, pulls) ==
  \A w \in Worker(d) :
    /\ pulls[w].cursor <= Len(log)
    /\ 1 .. pulls[w].cursor \subseteq r.received
    /\ pulls[w].stage = "page" => pulls[w].cursor <= pulls[w].to /\ pulls[w].to <= Len(log)

SoundTransaction(d, r, pulls, o) ==
  /\ o.worker \in Worker(d)
  /\ pulls[o.worker].stage \in {"drain", "page"}
  /\ Sound(o.work)
  /\ r.received \subseteq o.work.received
  /\ pulls[o.worker].stage = "page" =>
       /\ 0 < o.next /\ o.next <= pulls[o.worker].to + 1
       /\ 1 .. o.next - 1 \subseteq o.work.received

PullSound ==
  \A d \in Device :
    /\ Sound(db[d])
    /\ SoundPulls(d, db[d], pull[d])
    /\ open[d] # None => SoundTransaction(d, db[d], pull[d], open[d])

Log ==
  INSTANCE AccountLog WITH
    Client   <- Device,
    log      <- {[position |-> p, id |-> log[p].key] : p \in 1 .. Len(log)},
    uploaded <- [d \in Device |-> {db[d].mutations[i].key : i \in 1 .. db[d].uploaded}]

\* The log is used as SyncUpload provides it: entries are only appended, and no
\* two mutations of any computers have one key.
ImplementsLog == Log!Spec

\* What database r may become when it merges again what it has merged.
Harmless(r, m, again) ==
  /\ again.rows = r.rows /\ again.links = r.links
  /\ again.version = r.version
  /\ again.elements = r.elements
  /\ again.clock = r.clock
  /\ \A t \in Task :
       /\ torn = 0 => r.deps[t] \subseteq again.deps[t]
       /\ again.deps[t] # r.deps[t] =>
            t = m.entity /\ again.deps[t] \subseteq LiveElements(r, t)
  /\ r.conflicts \subseteq again.conflicts
  /\ \A c \in again.conflicts \ r.conflicts :
       /\ c.entity = m.entity /\ c.by = m.key /\ ~c.resolved
       /\ c.proposed # r.rows[m.entity].date

\* A mutation that is delivered again changes no row, register, set element or
\* clock.  It rebuilds its task's dependencies, which loses none unless a crash
\* cut a change off from its mutation, and adds none that no set element has.  It
\* asks about its record's date where the row has another one - answered
\* questions too - and disturbs no other conflict and no other record.
RedeliveryIsHarmless ==
  \A d \in Device : \A p \in db[d].received \ db[d].deferred :
    ~AlreadyLocal(d, log[p]) => Harmless(db[d], log[p], ApplyMutation(db[d], log[p]))

\* What a student records is newer than everything the computer had merged.
EditIsNewest ==
  [][\A d \in Device : Recorded(d)' > Recorded(d) =>
       \A m \in Known(db[d]) : Before(m.key, db'[d].mutations[Recorded(d)'].key)]_vars

\* A synchronization never deletes or reopens a task completed here.
CompletionSurvivesPull ==
  [][\A d \in Device : CommitPage(d) \/ CommitDrain(d) =>
       \A t \in Task : Exists(db[d], t) /\ db[d].rows[t].done =>
         Exists(db'[d], t) /\ db'[d].rows[t].done]_vars

\* A mutation whose type the installed build cannot map waits for an upgrade.
Waits(d, m) == ~db[d].upgraded /\ \E p \in db[d].deferred : log[p] = m

\* A foreign key of the database refuses the page in progress.
PageRefused(d) == open[d] # None /\ \E q \in NextUp(d) : RowRefused(d, q)

\* Every recorded change is merged by every other computer in the end; while it
\* is held back, its build is one that cannot map it; and where a change is not
\* merged, a foreign key refuses the pages again and again.
EventuallyShared ==
  \A c \in Device : \A d \in Device \ {c} : \A i \in 1 .. MaxMutations :
    i <= Recorded(c) ~>
      /\ i <= Recorded(c)
      /\ \/ db[c].mutations[i] \in MergedBy(db[d])
         \/ Waits(d, db[c].mutations[i])
         \/ PageRefused(d)
=============================================================================
