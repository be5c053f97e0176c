------------------------ MODULE CanonicalMergeProofs ------------------------
(***************************************************************************)
(* Theorems about CanonicalMerge for every account: any set of computers   *)
(* and records, any page size, overlapping pulls, crashes and lost         *)
(* mutations.                                                              *)
(***************************************************************************)
EXTENDS CanonicalMerge, TLAPS

USE MaxCounterAssumption, RecordAssumption, BoundAssumption

-----------------------------------------------------------------------------
(* The operators keep a database a database *)

\* The clock stays a clock when it ticks or observes a reading.
LEMMA ClockType ==
  ASSUME NEW c \in Clock, NEW now \in Nat, NEW reading \in Clock
  PROVE  /\ Tick(c, now) \in Clock
         /\ Observe(c, reading) \in Clock
BY DEF Clock, Tick, Observe

\* Keys are made of a reading and a device, and give the reading back.
LEMMA KeyType ==
  /\ \A c \in Clock, d \in Device : KeyOf(c, d) \in Key(Device)
  /\ \A k \in Key(Device) : ReadingOf(k) \in Clock
BY DEF Clock, Key, KeyOf, ReadingOf

\* A fresh profile.
LEMMA EmptyDatabaseType == EmptyDatabase \in Database
<1>1. NoElement \in Element
  BY DEF NoElement, Element
<1>2. InitialClock \in Clock
  BY DEF InitialClock, Clock
<1>3. << >> \in Seq(MutationSet)
  OBVIOUS
<1> QED
  BY <1>1, <1>2, <1>3 DEF EmptyDatabase, Database

\* Deleting a row with its cascades.
LEMMA DeleteRowType ==
  ASSUME NEW r \in Database, NEW e \in Entity
  PROVE  DeleteRow(r, e) \in Database
BY DEF DeleteRow, Database

\* Rebuilding the dependency rows of a task.
LEMMA RebuildType ==
  ASSUME NEW r \in Database, NEW t \in Entity
  PROVE  RebuildDependencies(r, t) \in Database
BY DEF RebuildDependencies, LiveElements, Database

\* Writing a row.
LEMMA PutType ==
  ASSUME NEW r \in Database, NEW e \in Entity, NEW row \in Row, NEW linked
  PROVE  Put(r, e, row, linked) \in Database
BY DEF Put, Database

\* Recording a local change.
LEMMA RecordType ==
  ASSUME NEW r \in Database, NEW d \in Device, NEW e \in Entity, NEW now \in Nat
  PROVE  Record(r, d, e, now) \in Database
<1> DEFINE clock    == Tick(r.clock, now)
           key      == KeyOf(clock, d)
           incoming == IF e \in Task /\ Exists(r, e) THEN r.deps[e] ELSE {}
           current  == IF e \in Task THEN LiveElements(r, e) ELSE {}
           m        == [key |-> key, entity |-> e, snapshot |-> r.rows[e],
                        linked |-> e \in r.links, added |-> incoming \ current, removed |-> current \ incoming]
<1>1. clock \in Clock /\ key \in Key(Device)
  BY ClockType, KeyType DEF Database, Clock
<1>2. incoming \subseteq Task /\ current \subseteq Task
  BY DEF Database, LiveElements
<1>3. m \in MutationSet
  <2>1. r.rows[e] \in Row \cup {None}
    BY DEF Database
  <2> HIDE DEF key, incoming, current
  <2> QED
    BY <1>1, <1>2, <2>1 DEF MutationSet
<1>4. Append(r.mutations, m) \in Seq(MutationSet)
  <2> HIDE DEF m
  <2> QED
    BY <1>3 DEF Database
<1>5. ASSUME NEW t \in Task, NEW x \in Task
      PROVE  /\ r.elements[t][x] \in Element
             /\ [key |-> key, live |-> x \in incoming] \in Element
  <2> HIDE DEF key, incoming
  <2> QED
    BY <1>1 DEF Database, Element
<1> HIDE DEF clock, key, incoming, current, m
<1>6. [r EXCEPT !.clock = clock] \in Database
  BY <1>1 DEF Database
<1> DEFINE changed == (incoming \ current) \cup (current \ incoming)
           elements == [t \in Task |-> [x \in Task |->
                         IF t = e /\ x \in changed /\ AtMost(r.elements[t][x].key, key)
                         THEN [key |-> key, live |-> x \in incoming]
                         ELSE r.elements[t][x]]]
<1>7. elements \in [Task -> [Task -> Element]]
  BY <1>5
<1> HIDE DEF elements
<1>8. [r EXCEPT !.clock = clock, !.version = [@ EXCEPT ![e] = key],
                !.mutations = Append(@, m), !.elements = elements] \in Database
  BY <1>1, <1>4, <1>7 DEF Database
<1> QED
  BY <1>6, <1>8 DEF Record, clock, key, incoming, current, m, elements

\* Observing a mutation's clock and set changes.
LEMMA ObservedType ==
  ASSUME NEW r \in Database, NEW m \in MutationSet
  PROVE  Observed(r, m) \in Database
<1> DEFINE clock == Observe(r.clock, ReadingOf(m.key))
           elements == [t \in Task |-> [x \in Task |->
                         IF /\ t = m.entity
                            /\ x \in m.added \cup m.removed
                            /\ Before(r.elements[t][x].key, m.key)
                         THEN [key |-> m.key, live |-> x \in m.added]
                         ELSE r.elements[t][x]]]
<1>1. m.key \in Key(Device) /\ m.entity \in Entity
  BY DEF MutationSet
<1>2. clock \in Clock
  BY <1>1, ClockType, KeyType DEF Database, Clock
<1>3. ASSUME NEW t \in Task, NEW x \in Task
      PROVE  /\ r.elements[t][x] \in Element
             /\ [key |-> m.key, live |-> x \in m.added] \in Element
  BY <1>1 DEF Database, Element
<1>4. elements \in [Task -> [Task -> Element]]
  BY <1>3
<1> HIDE DEF clock, elements
<1>5. [r EXCEPT !.clock = clock, !.elements = elements] \in Database
  BY <1>2, <1>4 DEF Database
<1>6. RebuildDependencies([r EXCEPT !.clock = clock, !.elements = elements], m.entity) \in Database
  BY <1>1, <1>5, RebuildType
<1> QED
  BY <1>6 DEF Observed, clock, elements

\* Raising a conflict.
LEMMA RaiseConflictType ==
  ASSUME NEW r \in Database, NEW m \in MutationSet
  PROVE  RaiseConflict(r, m) \in Database
<1> DEFINE c == [entity |-> m.entity, proposed |-> m.snapshot.date, by |-> m.key, resolved |-> FALSE]
<1>1. CASE DateDiffers(r, m)
  <2>1. c \in Conflict
    BY <1>1 DEF DateDiffers, MutationSet, Row, Conflict
  <2> HIDE DEF c
  <2>2. [r EXCEPT !.conflicts = @ \cup {c}] \in Database
    BY <2>1 DEF Database
  <2> QED
    BY <1>1, <2>2 DEF RaiseConflict, c
<1> QED
  BY <1>1 DEF RaiseConflict

\* Merging a newer mutation.
LEMMA MergedType ==
  ASSUME NEW r \in Database, NEW m \in MutationSet
  PROVE  Merged(r, m) \in Database
<1> DEFINE dated   == RaiseConflict(r, m)
           placed  == Put(dated, m.entity, MergedRow(r, m), m.linked)
           written == IF m.snapshot # None
                      THEN RebuildDependencies(placed, m.entity)
                      ELSE IF DeletesRow(r, m) THEN DeleteRow(dated, m.entity)
                      ELSE dated
<1>1. m.key \in Key(Device) /\ m.entity \in Entity
  BY DEF MutationSet
<1>2. dated \in Database
  BY RaiseConflictType
<1>3. m.snapshot # None => MergedRow(r, m) \in Row
  BY DEF MergedRow, MutationSet, Database, Row, Exists
<1> HIDE DEF dated
<1>4. m.snapshot # None => placed \in Database
  BY <1>1, <1>2, <1>3, PutType
<1> HIDE DEF placed
<1>5. written \in Database
  BY <1>1, <1>2, <1>4, RebuildType, DeleteRowType
<1> HIDE DEF written
<1>6. [written EXCEPT !.version[m.entity] = m.key] \in Database
  BY <1>1, <1>5 DEF Database
<1> QED
  BY <1>6 DEF Merged, dated, placed, written

\* Applying a downloaded mutation.
LEMMA ApplyType ==
  ASSUME NEW r \in Database, NEW m \in MutationSet
  PROVE  ApplyMutation(r, m) \in Database
<1>1. Outcome(r, m) \in {"superseded", "deferred", "applied"}
  BY DEF Outcome
<1> QED
  BY <1>1, ObservedType, RaiseConflictType, MergedType DEF ApplyMutation, Outcome

\* The merge leaves the computer's own mutations, its upload position, what it
\* received and its cursor alone.
Bookkeeping(r) == <<r.mutations, r.uploaded, r.received, r.deferred, r.cursor, r.upgraded>>

LEMMA ApplyKeepsBookkeeping ==
  ASSUME NEW r \in Database, NEW m \in MutationSet
  PROVE  Bookkeeping(ApplyMutation(r, m)) = Bookkeeping(r)
<1>1. ASSUME NEW q \in Database, NEW t \in Entity
      PROVE  /\ Bookkeeping(RebuildDependencies(q, t)) = Bookkeeping(q)
             /\ Bookkeeping(DeleteRow(q, t)) = Bookkeeping(q)
  BY DEF Bookkeeping, RebuildDependencies, DeleteRow, Database
<1>2. ASSUME NEW q \in Database
      PROVE  Bookkeeping(RaiseConflict(q, m)) = Bookkeeping(q)
  BY DEF Bookkeeping, RaiseConflict, Database
<1>3. ASSUME NEW q \in Database
      PROVE  Bookkeeping(Observed(q, m)) = Bookkeeping(q)
  BY DEF Bookkeeping, Observed, RebuildDependencies, Database
<1>4. ASSUME NEW q \in Database
      PROVE  Bookkeeping(Merged(q, m)) = Bookkeeping(q)
  <2> DEFINE dated   == RaiseConflict(q, m)
             placed  == Put(dated, m.entity, MergedRow(q, m), m.linked)
  <2>1. dated \in Database /\ Bookkeeping(dated) = Bookkeeping(q)
    BY <1>2, RaiseConflictType
  <2> HIDE DEF dated
  <2>2. Bookkeeping(placed) = Bookkeeping(q)
    BY <2>1 DEF Bookkeeping, Put, Database
  <2>3. Bookkeeping(RebuildDependencies(placed, m.entity)) = Bookkeeping(placed)
    BY <2>1 DEF Bookkeeping, RebuildDependencies, Put, Database
  <2>4. Bookkeeping(DeleteRow(dated, m.entity)) = Bookkeeping(q)
    BY <2>1 DEF Bookkeeping, DeleteRow, Database
  <2> QED
    BY <2>1, <2>2, <2>3, <2>4 DEF Merged, Bookkeeping, dated
<1> QED
  BY <1>2, <1>3, <1>4, ObservedType DEF ApplyMutation, Outcome

-----------------------------------------------------------------------------
(* The inductive invariant: types, and what pulls in progress rely on *)

IInv == SyncTypes /\ PullSound

\* The computers start with empty databases.
LEMMA InitInv == Init => IInv
<1> SUFFICES ASSUME Init PROVE IInv
  OBVIOUS
<1>1. db \in [Device -> Database]
  BY EmptyDatabaseType DEF Init
<1>2. \A d \in Device : Sound(db[d])
  BY DEF Init, Sound, EmptyDatabase
<1>3. SyncTypes
  <2>1. log \in Seq(MutationSet)
    BY DEF Init
  <2>2. IdlePull \in Pull
    BY DEF IdlePull, Pull
  <2>3. /\ pull \in [Device -> Pulls]
        /\ \A d \in Device : pull[d] \in [Worker(d) -> Pull]
    BY <2>2 DEF Init, Worker, Pulls
  <2>4. \A d \in Device : db[d].received \subseteq 1 .. Len(log) /\ db[d].cursor <= Len(log)
    BY DEF Init, EmptyDatabase
  <2> QED
    BY <1>1, <2>1, <2>3, <2>4 DEF Init, SyncTypes
<1>4. PullSound
  BY <1>2 DEF Init, PullSound, SoundPulls, IdlePull
<1> QED
  BY <1>3, <1>4 DEF IInv

\* A change of one computer's database outside any transaction, whether the
\* computer's pulls go on or are reset.
LEMMA DatabaseStep ==
  ASSUME IInv, NEW d \in Device, NEW r \in Database,
         open[d] = None,
         db' = [db EXCEPT ![d] = r],
         pull' = pull \/ pull' = [pull EXCEPT ![d] = [w \in Worker(d) |-> IdlePull]],
         UNCHANGED <<open, log>>,
         faults' \in Nat, torn' \in Nat,
         Sound(r),
         db[d].received \subseteq r.received
  PROVE  IInv'
<1>1. db' \in [Device -> Database]
  BY DEF IInv, SyncTypes
<1>2. \A c \in Device : Sound(db[c])'
  BY DEF IInv, PullSound, SyncTypes, Sound
<1>3. pull' \in [Device -> Pulls] /\ \A c \in Device : pull'[c] \in [Worker(c) -> Pull]
  <2>1. IdlePull \in Pull
    BY DEF IdlePull, Pull
  <2>2. [w \in Worker(d) |-> IdlePull] \in [Worker(d) -> Pull]
    BY <2>1
  <2>3. CASE pull' = pull
    BY <2>3 DEF IInv, SyncTypes
  <2>4. CASE pull' = [pull EXCEPT ![d] = [w \in Worker(d) |-> IdlePull]]
    <3>1. [w \in Worker(d) |-> IdlePull] \in Pulls
      BY <2>2 DEF Pulls, Worker
    <3>2. pull' \in [Device -> Pulls]
      BY <2>4, <3>1 DEF IInv, SyncTypes
    <3>3. ASSUME NEW c \in Device PROVE pull'[c] \in [Worker(c) -> Pull]
      BY <2>2, <2>4 DEF IInv, SyncTypes
    <3> QED
      BY <3>2, <3>3
  <2> QED
    BY <2>3, <2>4
<1>4. SyncTypes'
  BY <1>1, <1>2, <1>3 DEF IInv, SyncTypes, Sound
<1>5. ASSUME NEW c \in Device
      PROVE  SoundPulls(c, db[c], pull[c])'
  <2>1. SoundPulls(c, db[c], pull[c])
    BY DEF IInv, PullSound
  <2>2. Len(log) \in Nat
    BY DEF IInv, SyncTypes
  <2>3. db[c].received \subseteq db'[c].received
    BY DEF IInv, SyncTypes
  <2>4. ASSUME NEW w \in Worker(c) PROVE pull'[c][w] = pull[c][w] \/ pull'[c][w] = IdlePull
    BY DEF IInv, SyncTypes
  <2> QED
    BY <2>1, <2>2, <2>3, <2>4 DEF SoundPulls, IdlePull
<1>6. ASSUME NEW c \in Device, open[c] # None
      PROVE  SoundTransaction(c, db[c], pull[c], open[c])'
  <2>1. pull'[c] = pull[c] /\ db'[c] = db[c]
    BY <1>6 DEF IInv, SyncTypes
  <2>2. SoundTransaction(c, db[c], pull[c], open[c])
    BY <1>6 DEF IInv, PullSound
  <2> QED
    BY <2>1, <2>2 DEF SoundTransaction, Sound
<1>7. PullSound'
  BY <1>2, <1>5, <1>6 DEF PullSound
<1> QED
  BY <1>4, <1>7 DEF IInv

\* A local mutation leaves what the computer received alone.
LEMMA RecordKeeps ==
  ASSUME NEW r \in Database, NEW d \in Device, NEW e \in Entity, NEW now \in Nat
  PROVE  LET q == Record(r, d, e, now)
         IN  /\ q.uploaded = r.uploaded /\ q.received = r.received
             /\ q.deferred = r.deferred /\ q.cursor = r.cursor
             /\ Len(r.mutations) <= Len(q.mutations)
<1>1. r.mutations \in Seq(MutationSet)
  BY DEF Database
<1>2. \A m : Len(Append(r.mutations, m)) = Len(r.mutations) + 1
  BY <1>1
<1>3. Len(r.mutations) \in Nat
  BY <1>1
<1> QED
  BY <1>2, <1>3 DEF Record, Database

\* A record command, with or without its mutation.
LEMMA SaveInv ==
  ASSUME IInv, NEW d \in Device, NEW e \in Entity, NEW changed \in Database,
         Bookkeeping(changed) = Bookkeeping(db[d]),
         open[d] = None,
         Save(d, e, changed)
  PROVE  IInv'
<1>1. Sound(changed) /\ changed.received = db[d].received
  BY DEF IInv, PullSound, Sound, Bookkeeping
<1>2. ASSUME NEW now \in Wall[d], db' = [db EXCEPT ![d] = Record(changed, d, e, now)],
             UNCHANGED <<open, pull, log, faults, torn>>
      PROVE  IInv'
  <2> DEFINE r == Record(changed, d, e, now)
  <2>1. r \in Database
    BY RecordType
  <2>2. Sound(r) /\ db[d].received \subseteq r.received
    <3>1. changed.mutations \in Seq(MutationSet) /\ r.mutations \in Seq(MutationSet)
      BY <2>1 DEF Database
    <3>2. Len(changed.mutations) \in Nat /\ Len(r.mutations) \in Nat
      BY <3>1
    <3>3. changed.uploaded \in Nat
      BY DEF Database
    <3> HIDE DEF r
    <3>4. /\ r.uploaded = changed.uploaded /\ r.received = changed.received
          /\ r.deferred = changed.deferred /\ r.cursor = changed.cursor
          /\ Len(changed.mutations) <= Len(r.mutations)
      BY RecordKeeps DEF r
    <3> QED
      BY <1>1, <3>2, <3>3, <3>4 DEF Sound
  <2>3. faults' \in Nat /\ torn' \in Nat
    BY <1>2 DEF IInv, SyncTypes
  <2> HIDE DEF r
  <2>4. db' = [db EXCEPT ![d] = r]
    BY <1>2 DEF r
  <2> QED
    BY <1>2, <2>1, <2>2, <2>3, <2>4, DatabaseStep
<1>3. ASSUME db' = [db EXCEPT ![d] = changed],
             pull' = [pull EXCEPT ![d] = [w \in Worker(d) |-> IdlePull]],
             torn' = torn + 1, UNCHANGED <<open, log, faults>>
      PROVE  IInv'
  <2>1. faults' \in Nat /\ torn' \in Nat
    BY <1>3 DEF IInv, SyncTypes
  <2> QED
    BY <1>1, <1>3, <2>1, DatabaseStep
<1> QED
  BY <1>2, <1>3 DEF Save

\* Writing a row with its dependencies.
LEMMA WithRowType ==
  ASSUME NEW r \in Database, NEW e \in Entity, NEW row \in Row, NEW linked,
         NEW deps \in SUBSET Task
  PROVE  LET q == WithRow(r, e, row, linked, deps)
         IN  q \in Database /\ Bookkeeping(q) = Bookkeeping(r) /\ q.clock = r.clock
<1> DEFINE put   == Put(r, e, row, linked)
           named == [t \in Task |-> IF t = e THEN deps ELSE put.deps[t]]
<1>1. put \in Database
  BY PutType
<1>2. Bookkeeping(put) = Bookkeeping(r) /\ put.clock = r.clock
  BY DEF Put, Database, Bookkeeping
<1>3. WithRow(r, e, row, linked, deps) = [put EXCEPT !.deps = named]
  BY DEF WithRow
<1>4. named \in [Task -> SUBSET Task]
  <2>1. put.deps \in [Task -> SUBSET Task]
    BY <1>1 DEF Database
  <2> QED
    BY <2>1
<1> HIDE DEF put, named
<1>5. [put EXCEPT !.deps = named] \in Database
  BY <1>1, <1>4 DEF Database
<1>6. /\ Bookkeeping([put EXCEPT !.deps = named]) = Bookkeeping(put)
      /\ [put EXCEPT !.deps = named].clock = put.clock
  BY <1>1 DEF Database, Bookkeeping
<1> QED
  BY <1>2, <1>3, <1>5, <1>6

\* A record command other than settling a conflict saves a changed database.
LEMMA EditSaves ==
  ASSUME IInv, NEW d \in Device,
         \E e \in Entity : Create(d, e) \/ Update(d, e) \/ Toggle(d, e) \/ Delete(d, e)
  PROVE  /\ CanRecord(d)
         /\ \E e \in Entity : \E changed \in Database :
              /\ Bookkeeping(changed) = Bookkeeping(db[d])
              /\ changed.clock = db[d].clock
              /\ Save(d, e, changed)
<1>1. db[d] \in Database
  BY DEF IInv, SyncTypes
<1>2. ASSUME NEW e \in Entity, NEW row \in Row, NEW linked \in BOOLEAN,
             NEW deps \in DependencySets(db[d], e)
      PROVE  /\ WithRow(db[d], e, row, linked, deps) \in Database
             /\ Bookkeeping(WithRow(db[d], e, row, linked, deps)) = Bookkeeping(db[d])
             /\ WithRow(db[d], e, row, linked, deps).clock = db[d].clock
  <2>1. deps \subseteq Task
    BY DEF DependencySets
  <2> QED
    BY <1>1, <2>1, WithRowType
<1>3. ASSUME NEW e \in Entity
      PROVE  DatesOf(e) \subseteq Date
  BY DEF DatesOf
<1> DEFINE Saves(e) == \E changed \in Database : /\ Bookkeeping(changed) = Bookkeeping(db[d])
                                                 /\ changed.clock = db[d].clock
                                                 /\ Save(d, e, changed)
<1>4. ASSUME NEW e \in Entity, Create(d, e) PROVE CanRecord(d) /\ Saves(e)
  <2>1. PICK linked \in BOOLEAN, deps \in DependencySets(db[d], e) :
          Save(d, e, WithRow(db[d], e, NewRow, linked, deps))
    BY <1>4 DEF Create, LinkChoices
  <2>2. NewRow \in Row
    BY DEF NewRow, Row
  <2> QED
    BY <1>2, <1>4, <2>1, <2>2 DEF Create
<1>5. ASSUME NEW e \in Entity, Update(d, e) PROVE CanRecord(d) /\ Saves(e)
  <2>1. PICK v \in Value, date \in DatesOf(e), linked \in BOOLEAN,
             deps \in DependencySets(db[d], e) :
          Save(d, e, WithRow(db[d], e, [db[d].rows[e] EXCEPT !.value = v, !.date = date], linked, deps))
    BY <1>5 DEF Update, LinkChoices
  <2>2. db[d].rows[e] \in Row
    BY <1>1, <1>5 DEF Update, Exists, Database
  <2>3. [db[d].rows[e] EXCEPT !.value = v, !.date = date] \in Row
    BY <1>3, <2>2 DEF Row
  <2>4. CanRecord(d)
    BY <1>5 DEF Update
  <2>5. \A row \in Row : Save(d, e, WithRow(db[d], e, row, linked, deps)) => Saves(e)
    BY <1>2
  <2> QED
    BY <2>1, <2>3, <2>4, <2>5
<1>6. ASSUME NEW e \in Entity, Toggle(d, e) PROVE CanRecord(d) /\ Saves(e)
  <2> DEFINE r == [db[d] EXCEPT !.rows[e].done = ~@]
  <2>1. db[d].rows[e] \in Row
    BY <1>1, <1>6 DEF Toggle, Exists, Database
  <2>2. [db[d].rows[e] EXCEPT !.done = ~@] \in Row
    BY <2>1 DEF Row
  <2>3. r \in Database /\ Bookkeeping(r) = Bookkeeping(db[d]) /\ r.clock = db[d].clock
    BY <1>1, <2>2 DEF Database, Bookkeeping
  <2> QED
    BY <1>6, <2>3 DEF Toggle
<1>7. ASSUME NEW e \in Entity, Delete(d, e) PROVE CanRecord(d) /\ Saves(e)
  <2>1. /\ Bookkeeping(DeleteRow(db[d], e)) = Bookkeeping(db[d])
        /\ DeleteRow(db[d], e).clock = db[d].clock
    BY <1>1 DEF DeleteRow, Database, Bookkeeping
  <2> QED
    BY <1>1, <1>7, <2>1, DeleteRowType DEF Delete
<1> QED
  BY <1>4, <1>5, <1>6, <1>7

\* A conflict is closed, and the clock ticks.
LEMMA ResolvedTicks ==
  ASSUME NEW r \in Database, NEW c \in r.conflicts, NEW now \in Nat
  PROVE  LET q == [Resolved(r, c) EXCEPT !.clock = Tick(@, now)]
         IN  /\ q \in Database
             /\ Bookkeeping(q) = Bookkeeping(r)
             /\ q.clock = Tick(r.clock, now)
<1>1. c \in Conflict /\ r.conflicts \subseteq Conflict
  BY DEF Database
<1>2. [c EXCEPT !.resolved = TRUE] \in Conflict
  BY <1>1 DEF Conflict
<1> DEFINE q == Resolved(r, c)
<1>3. q \in Database /\ Bookkeeping(q) = Bookkeeping(r) /\ q.clock = r.clock
  BY <1>1, <1>2 DEF Resolved, Database, Bookkeeping
<1> HIDE DEF q
<1>4. q.clock \in Clock
  BY <1>3 DEF Database
<1>5. now \in Nat
  OBVIOUS
<1>6. Tick(q.clock, now) \in Clock
  <2>1. InitialClock \in Clock
    BY DEF InitialClock, Clock
  <2> QED
    BY <1>4, <1>5, <2>1, ClockType
<1>7. [q EXCEPT !.clock = Tick(@, now)] \in Database
  BY <1>3, <1>6 DEF Database
<1>8. /\ Bookkeeping([q EXCEPT !.clock = Tick(@, now)]) = Bookkeeping(q)
      /\ [q EXCEPT !.clock = Tick(@, now)].clock = Tick(q.clock, now)
  BY <1>3 DEF Database, Bookkeeping
<1> QED
  BY <1>3, <1>7, <1>8 DEF q

\* Taking the proposed date records the change and ticks the clock once more.
LEMMA UseSourceRecords ==
  ASSUME IInv, NEW d \in Device, NEW c \in db[d].conflicts, UseSource(d, c)
  PROVE  \E taken \in Database : \E e \in Entity : \E now \in Wall[d] : \E q \in Database :
           /\ Bookkeeping(taken) = Bookkeeping(db[d])
           /\ taken.clock = db[d].clock
           /\ Bookkeeping(q) = Bookkeeping(Record(taken, d, e, now))
           /\ q.clock = Tick(Record(taken, d, e, now).clock, now)
           /\ db' = [db EXCEPT ![d] = q]
<1> DEFINE r     == db[d]
           taken == IF Exists(r, c.entity)
                    THEN [r EXCEPT !.rows[c.entity].date = c.proposed]
                    ELSE r
<1>1. r \in Database
  BY DEF IInv, SyncTypes
<1>2. c \in Conflict
  BY <1>1 DEF Database
<1>3. c.entity \in Entity /\ c.proposed \in Date
  BY <1>2 DEF Conflict
<1>4. Exists(r, c.entity) => [r.rows[c.entity] EXCEPT !.date = c.proposed] \in Row
  <2>1. Exists(r, c.entity) => r.rows[c.entity] \in Row
    BY <1>1, <1>3 DEF Exists, Database
  <2> QED
    BY <1>3, <2>1 DEF Row
<1>5. /\ taken \in Database /\ Bookkeeping(taken) = Bookkeeping(r)
      /\ taken.conflicts = r.conflicts /\ taken.clock = r.clock
  BY <1>1, <1>3, <1>4 DEF Database, Bookkeeping
<1> HIDE DEF taken
<1>6. PICK now \in Wall[d] :
        db' = [db EXCEPT ![d] =
                [Resolved(Record(taken, d, c.entity, now), c) EXCEPT !.clock = Tick(@, now)]]
  BY DEF UseSource, taken
<1> DEFINE recorded == Record(taken, d, c.entity, now)
           q == [Resolved(recorded, c) EXCEPT !.clock = Tick(@, now)]
<1>7. recorded \in Database
  BY <1>3, <1>5, RecordType
<1>8. recorded.conflicts = taken.conflicts
  BY <1>5 DEF Record, Database
<1> HIDE DEF recorded
<1>9. /\ q \in Database /\ Bookkeeping(q) = Bookkeeping(recorded)
      /\ q.clock = Tick(recorded.clock, now)
  BY <1>5, <1>7, <1>8, ResolvedTicks
<1> HIDE DEF q
<1>10. db' = [db EXCEPT ![d] = q]
  BY <1>6 DEF q, recorded
<1> QED
  BY <1>3, <1>5, <1>9, <1>10 DEF recorded

\* Every record command of the student.
LEMMA EditInv ==
  ASSUME IInv, NEW d \in Device, Edit(d)
  PROVE  IInv'
<1>1. db[d] \in Database
  BY DEF IInv, SyncTypes
<1>2. CASE \E e \in Entity : Create(d, e) \/ Update(d, e) \/ Toggle(d, e) \/ Delete(d, e)
  BY <1>2, EditSaves, SaveInv DEF CanRecord
<1>3. ASSUME NEW c \in db[d].conflicts, UseSource(d, c) PROVE IInv'
  <2>1. PICK taken \in Database, e \in Entity, now \in Wall[d], q \in Database :
          /\ Bookkeeping(taken) = Bookkeeping(db[d])
          /\ Bookkeeping(q) = Bookkeeping(Record(taken, d, e, now))
          /\ db' = [db EXCEPT ![d] = q]
    BY <1>3, UseSourceRecords
  <2> DEFINE r        == db[d]
             recorded == Record(taken, d, e, now)
  <2>2. recorded \in Database
    BY RecordType
  <2>3. /\ recorded.uploaded = r.uploaded /\ recorded.received = r.received
        /\ recorded.deferred = r.deferred /\ recorded.cursor = r.cursor
        /\ Len(r.mutations) <= Len(recorded.mutations)
    <3>1. /\ recorded.uploaded = taken.uploaded /\ recorded.received = taken.received
          /\ recorded.deferred = taken.deferred /\ recorded.cursor = taken.cursor
          /\ Len(taken.mutations) <= Len(recorded.mutations)
      BY RecordKeeps
    <3> HIDE DEF recorded
    <3> QED
      BY <2>1, <3>1 DEF Bookkeeping
  <2> HIDE DEF recorded
  <2>4. Bookkeeping(q) = Bookkeeping(recorded)
    BY <2>1 DEF recorded
  <2>5. Sound(q) /\ db[d].received \subseteq q.received
    <3>1. Sound(r)
      BY DEF IInv, PullSound
    <3>2. /\ r.mutations \in Seq(MutationSet) /\ recorded.mutations \in Seq(MutationSet)
          /\ r.uploaded \in Nat
      BY <1>1, <2>2 DEF Database
    <3>3. Len(r.mutations) \in Nat /\ Len(recorded.mutations) \in Nat
      BY <3>2
    <3> QED
      BY <2>3, <2>4, <3>1, <3>2, <3>3 DEF Sound, Bookkeeping
  <2>6. /\ open[d] = None /\ UNCHANGED <<open, pull, log>>
        /\ faults' \in Nat /\ torn' \in Nat
    BY <1>3 DEF UseSource, CanRecord, IInv, SyncTypes
  <2> QED
    BY <2>1, <2>5, <2>6, DatabaseStep
<1>4. ASSUME NEW c \in db[d].conflicts, KeepExisting(d, c) PROVE IInv'
  <2>1. PICK now \in Wall[d] :
          db' = [db EXCEPT ![d] = [Resolved(db[d], c) EXCEPT !.clock = Tick(@, now)]]
    BY <1>4 DEF KeepExisting
  <2> DEFINE q == [Resolved(db[d], c) EXCEPT !.clock = Tick(@, now)]
  <2>2. q \in Database /\ Bookkeeping(q) = Bookkeeping(db[d])
    BY <1>1, ResolvedTicks
  <2> HIDE DEF q
  <2>3. Sound(q) /\ db[d].received \subseteq q.received
    BY <2>2 DEF IInv, PullSound, Sound, Bookkeeping
  <2>4. /\ open[d] = None /\ UNCHANGED <<open, pull, log>>
        /\ faults' \in Nat /\ torn' \in Nat
    BY <1>4 DEF KeepExisting, IInv, SyncTypes
  <2>5. db' = [db EXCEPT ![d] = q]
    BY <2>1 DEF q
  <2> QED
    BY <2>2, <2>3, <2>4, <2>5, DatabaseStep
<1>5. CASE PlanAgain(d)
  <2>1. UNCHANGED <<db, open, pull, log, faults, torn>>
    BY <1>5 DEF PlanAgain
  <2>2. SyncTypes'
    BY <2>1 DEF IInv, SyncTypes
  <2>3. PullSound'
    BY <2>1 DEF IInv, PullSound, SoundPulls, SoundTransaction, Sound
  <2> QED
    BY <2>2, <2>3 DEF IInv
<1> QED
  BY <1>2, <1>3, <1>4, <1>5 DEF Edit, Resolve

-----------------------------------------------------------------------------
(* The steps of a pull *)

\* One computer's database, pulls and transaction change to sound ones.
LEMMA LocalStep ==
  ASSUME IInv, NEW d \in Device, NEW r \in Database,
         NEW pulls \in [Worker(d) -> Pull], NEW o \in Transaction \cup {None},
         db' = [db EXCEPT ![d] = r],
         pull' = [pull EXCEPT ![d] = pulls],
         open' = [open EXCEPT ![d] = o],
         log' = log, faults' \in Nat, torn' \in Nat,
         Sound(r), SoundPulls(d, r, pulls),
         o # None => SoundTransaction(d, r, pulls, o)
  PROVE  IInv'
<1>1. /\ db' \in [Device -> Database]
      /\ open' \in [Device -> Transaction \cup {None}]
      /\ log' \in Seq(MutationSet)
  BY DEF IInv, SyncTypes
<1>2. pull' \in [Device -> Pulls]
  <2>1. pulls \in Pulls
    BY DEF Pulls, Worker
  <2> QED
    BY <2>1 DEF IInv, SyncTypes
<1>3. ASSUME NEW c \in Device
      PROVE  /\ pull'[c] \in [Worker(c) -> Pull]
             /\ Sound(db[c])'
             /\ SoundPulls(c, db[c], pull[c])'
             /\ open'[c] # None => SoundTransaction(c, db[c], pull[c], open[c])'
  <2>1. CASE c = d
    <3>1. db'[c] = r /\ pull'[c] = pulls /\ open'[c] = o
      BY <2>1 DEF IInv, SyncTypes
    <3> QED
      BY <2>1, <3>1 DEF Sound, SoundPulls, SoundTransaction
  <2>2. CASE c # d
    <3>1. db'[c] = db[c] /\ pull'[c] = pull[c] /\ open'[c] = open[c]
      BY <2>2 DEF IInv, SyncTypes
    <3>2. /\ pull[c] \in [Worker(c) -> Pull]
          /\ Sound(db[c])
          /\ SoundPulls(c, db[c], pull[c])
          /\ open[c] # None => SoundTransaction(c, db[c], pull[c], open[c])
      BY DEF IInv, SyncTypes, PullSound
    <3> QED
      BY <3>1, <3>2 DEF Sound, SoundPulls, SoundTransaction
  <2> QED
    BY <2>1, <2>2
<1>4. SyncTypes'
  BY <1>1, <1>2, <1>3 DEF SyncTypes, Sound
<1>5. PullSound'
  BY <1>3 DEF PullSound
<1> QED
  BY <1>4, <1>5 DEF IInv

\* What the invariant says of one computer.
LEMMA LocalFacts ==
  ASSUME IInv, NEW d \in Device
  PROVE  /\ db[d] \in Database /\ pull[d] \in [Worker(d) -> Pull]
         /\ open[d] \in Transaction \cup {None}
         /\ db' = db => db' = [db EXCEPT ![d] = db[d]]
         /\ pull' = pull => pull' = [pull EXCEPT ![d] = pull[d]]
         /\ open' = open => open' = [open EXCEPT ![d] = open[d]]
         /\ Sound(db[d]) /\ SoundPulls(d, db[d], pull[d])
         /\ open[d] # None => SoundTransaction(d, db[d], pull[d], open[d])
         /\ log \in Seq(MutationSet) /\ Len(log) \in Nat
         /\ faults \in Nat /\ torn \in Nat
<1>1. \A x : x \in [Device -> Database] => x = [x EXCEPT ![d] = x[d]]
  OBVIOUS
<1>2. open = [open EXCEPT ![d] = open[d]]
  BY DEF IInv, SyncTypes
<1>3. pull = [pull EXCEPT ![d] = pull[d]]
  BY DEF IInv, SyncTypes
<1> QED
  BY <1>1, <1>2, <1>3 DEF IInv, SyncTypes, PullSound

\* One pull moves on; the database and any open transaction stay as they are.
LEMMA PullStep ==
  ASSUME IInv, NEW d \in Device, NEW w \in Worker(d), NEW p \in Pull,
         SetPull(d, w, p),
         UNCHANGED <<db, open, log>>, faults' \in Nat, torn' \in Nat,
         open[d] # None => open[d].worker # w,
         p.cursor <= Len(log),
         1 .. p.cursor \subseteq db[d].received,
         p.stage = "page" => p.cursor <= p.to /\ p.to <= Len(log)
  PROVE  IInv'
<1> DEFINE pulls == [pull[d] EXCEPT ![w] = p]
<1>1. pulls \in [Worker(d) -> Pull]
  BY LocalFacts
<1>2. pull' = [pull EXCEPT ![d] = pulls]
  BY DEF SetPull, IInv, SyncTypes
<1>3. \A x \in Worker(d) : pulls[x] = IF x = w THEN p ELSE pull[d][x]
  BY LocalFacts
<1> HIDE DEF pulls
<1>4. SoundPulls(d, db[d], pulls)
  <2>1. SoundPulls(d, db[d], pull[d])
    BY LocalFacts
  <2> QED
    BY <1>3, <2>1 DEF SoundPulls
<1>5. open[d] # None => SoundTransaction(d, db[d], pulls, open[d])
  <2>1. open[d] # None => SoundTransaction(d, db[d], pull[d], open[d])
    BY LocalFacts
  <2> QED
    BY <1>3, <2>1 DEF SoundTransaction
<1> QED
  BY <1>1, <1>2, <1>4, <1>5, LocalFacts, LocalStep

\* A transaction begins or goes on; the database and the pulls stay.
LEMMA TransactionStep ==
  ASSUME IInv, NEW d \in Device, NEW o \in Transaction,
         open' = [open EXCEPT ![d] = o],
         UNCHANGED <<db, pull, log, faults, torn>>,
         SoundTransaction(d, db[d], pull[d], o)
  PROVE  IInv'
BY LocalFacts, LocalStep

\* A transaction ends, with the database and its pull in a sound state.
LEMMA CloseStep ==
  ASSUME IInv, NEW d \in Device, NEW r \in Database, NEW p \in Pull,
         NEW w \in Worker(d),
         db' = [db EXCEPT ![d] = r],
         SetPull(d, w, p),
         open' = [open EXCEPT ![d] = None],
         UNCHANGED <<log, faults, torn>>,
         Sound(r), db[d].received \subseteq r.received,
         p.cursor <= Len(log), 1 .. p.cursor \subseteq r.received,
         p.stage # "page"
  PROVE  IInv'
<1> DEFINE pulls == [pull[d] EXCEPT ![w] = p]
<1>1. pulls \in [Worker(d) -> Pull]
  BY LocalFacts
<1>2. pull' = [pull EXCEPT ![d] = pulls]
  BY DEF SetPull, IInv, SyncTypes
<1>3. \A x \in Worker(d) : pulls[x] = IF x = w THEN p ELSE pull[d][x]
  BY LocalFacts
<1> HIDE DEF pulls
<1>4. SoundPulls(d, r, pulls)
  <2>1. SoundPulls(d, db[d], pull[d])
    BY LocalFacts
  <2> QED
    BY <1>3, <2>1 DEF SoundPulls
<1> QED
  BY <1>1, <1>2, <1>4, LocalFacts, LocalStep

\* Transactions that merge the log into a working copy.
LEMMA BeginInv ==
  ASSUME IInv, NEW d \in Device, NEW w \in Worker(d), BeginDrain(d, w) \/ BeginPage(d, w)
  PROVE  IInv'
<1>1. CASE BeginDrain(d, w)
  <2> DEFINE o == [worker |-> w, work |-> db[d], next |-> 0, drained |-> FALSE]
  <2>1. o \in Transaction
    BY LocalFacts DEF Transaction, Worker
  <2>2. SoundTransaction(d, db[d], pull[d], o)
    BY <1>1, LocalFacts DEF SoundTransaction, BeginDrain
  <2> QED
    BY <1>1, <2>1, <2>2, TransactionStep DEF BeginDrain
<1>2. CASE BeginPage(d, w)
  <2> DEFINE o == [worker |-> w, work |-> db[d], next |-> pull[d][w].cursor + 1, drained |-> FALSE]
  <2>1. pull[d][w].cursor \in Nat /\ pull[d][w].to \in Nat
    BY LocalFacts DEF Pull
  <2>2. o \in Transaction
    <3>1. w \in {1, 2} /\ db[d] \in Database
      BY LocalFacts DEF Worker
    <3>2. pull[d][w].cursor + 1 \in Nat
      BY <2>1
    <3> QED
      BY <3>1, <3>2 DEF Transaction
  <2>3. SoundTransaction(d, db[d], pull[d], o)
    <3>1. /\ o.worker = w /\ o.work = db[d] /\ o.next = pull[d][w].cursor + 1
          /\ o.next - 1 = pull[d][w].cursor
      BY <2>1
    <3>2. /\ pull[d][w].stage = "page" /\ pull[d][w].cursor <= pull[d][w].to
          /\ 1 .. pull[d][w].cursor \subseteq db[d].received
      BY <1>2, LocalFacts DEF SoundPulls, BeginPage
    <3>3. Sound(db[d]) /\ db[d].received \subseteq db[d].received
      BY LocalFacts
    <3>4. /\ 0 < pull[d][w].cursor + 1
          /\ pull[d][w].cursor + 1 <= pull[d][w].to + 1
      BY ONLY <2>1, <3>2
    <3> HIDE DEF o
    <3> QED
      BY ONLY <3>1, <3>2, <3>3, <3>4, w \in Worker(d) DEF SoundTransaction
  <2> QED
    BY <1>2, <2>2, <2>3, TransactionStep DEF BeginPage
<1> QED
  BY <1>1, <1>2

\* A pull starts, downloads a page, or fails to.
LEMMA FetchInv ==
  ASSUME IInv, NEW d \in Device, NEW w \in Worker(d),
         StartPull(d, w) \/ Fetch(d, w) \/ DownloadFails(d, w)
  PROVE  IInv'
<1> USE LocalFacts
<1>1. pull[d][w] \in Pull /\ pull[d][w].cursor \in Nat /\ db[d].cursor \in Nat
  BY DEF Pull, Database
<1>2. CASE StartPull(d, w)
  <2> DEFINE p == [IdlePull EXCEPT !.stage = "drain", !.cursor = db[d].cursor]
  <2>1. p \in Pull /\ p.cursor = db[d].cursor /\ p.stage = "drain"
    BY <1>1 DEF Pull, IdlePull
  <2>2. SetPull(d, w, p) /\ open[d] = None /\ UNCHANGED <<db, open, log, faults, torn>>
    BY <1>2 DEF StartPull
  <2>3. p.cursor <= Len(log) /\ 1 .. p.cursor \subseteq db[d].received
    BY <2>1 DEF Sound
  <2> HIDE DEF p
  <2> QED
    BY <2>1, <2>2, <2>3, PullStep
<1>3. CASE Fetch(d, w)
  <2> DEFINE from == pull[d][w].cursor
             to   == IF from + PageSize < Len(log) THEN from + PageSize ELSE Len(log)
             p    == [stage |-> "page", cursor |-> from, to |-> to, more |-> to < Len(log)]
  <2>1. from <= Len(log) /\ 1 .. from \subseteq db[d].received
    BY DEF SoundPulls
  <2>2. to \in Nat /\ from <= to /\ to <= Len(log)
    BY <1>1, <2>1, SMTT(30)
  <2> HIDE DEF to, from
  <2>3. p \in Pull
    BY <1>1, <2>2 DEF Pull, from
  <2>4. open[d] # None => open[d].worker # w
    BY <1>3 DEF Fetch, SoundTransaction
  <2>5. SetPull(d, w, p) /\ UNCHANGED <<db, open, log, faults, torn>>
    BY <1>3 DEF Fetch, to, from
  <2>6. p.stage = "page" /\ p.cursor = from /\ p.to = to
    OBVIOUS
  <2> HIDE DEF p
  <2> QED
    BY <2>1, <2>2, <2>3, <2>4, <2>5, <2>6, PullStep
<1>4. CASE DownloadFails(d, w)
  <2>1. open[d] # None => open[d].worker # w
    BY <1>4 DEF DownloadFails, SoundTransaction
  <2>2. IdlePull \in Pull /\ IdlePull.cursor = 0 /\ IdlePull.stage = "idle"
    BY DEF IdlePull, Pull
  <2> QED
    BY <1>4, <2>1, <2>2, PullStep DEF DownloadFails
<1> QED
  BY <1>2, <1>3, <1>4

\* Merging the mutation at a log position into a sound database.
LEMMA ApplySound ==
  ASSUME NEW r \in Database, log \in Seq(MutationSet), Sound(r), NEW q \in 1 .. Len(log)
  PROVE  LET a == ApplyMutation(r, log[q])
         IN  /\ a \in Database
             /\ Sound(a)
             /\ a.received = r.received /\ a.deferred = r.deferred
<1>1. log[q] \in MutationSet
  OBVIOUS
<1> DEFINE a == ApplyMutation(r, log[q])
<1>2. a \in Database /\ Bookkeeping(a) = Bookkeeping(r)
  BY <1>1, ApplyType, ApplyKeepsBookkeeping
<1> HIDE DEF a
<1> QED
  BY <1>2 DEF a, Sound, Bookkeeping

\* A mutation held back by an earlier build is retried.
LEMMA DrainInv ==
  ASSUME IInv, NEW d \in Device, DrainStep(d)
  PROVE  IInv'
<1> USE LocalFacts
<1> DEFINE o == open[d]
<1>1. /\ o \in Transaction
      /\ pull[d][o.worker].stage = "drain"
      /\ SoundTransaction(d, db[d], pull[d], o)
  BY DEF DrainStep
<1>2. /\ o.work \in Database /\ Sound(o.work)
      /\ db[d].received \subseteq o.work.received /\ o.worker \in Worker(d)
  BY <1>1 DEF Transaction, SoundTransaction
<1>3. PICK q \in NextUp(d) :
        open' = [open EXCEPT
                  ![d].work = [ApplyMutation(open[d].work, log[q]) EXCEPT !.deferred = @ \ {q}],
                  ![d].drained = TRUE]
  BY DEF DrainStep
<1>4. q \in 1 .. Len(log)
  <2>1. q \in o.work.deferred
    BY <1>1 DEF NextUp, Drainable
  <2> QED
    BY <1>2, <2>1 DEF Sound
<1> DEFINE a == ApplyMutation(o.work, log[q])
           work == [a EXCEPT !.deferred = @ \ {q}]
           n == [o EXCEPT !.work = work, !.drained = TRUE]
<1>5. /\ a \in Database /\ Sound(a)
      /\ a.received = o.work.received /\ a.deferred = o.work.deferred
  BY <1>2, <1>4, ApplySound
<1>6. open' = [open EXCEPT ![d] = n]
  BY <1>3 DEF IInv, SyncTypes
<1> HIDE DEF a
<1>7. work \in Database /\ Sound(work) /\ work.received = o.work.received
  BY <1>5 DEF Database, Sound
<1> HIDE DEF work
<1>8. n \in Transaction /\ n.worker = o.worker /\ n.work = work
  BY <1>1, <1>7 DEF Transaction
<1> HIDE DEF n
<1>9. SoundTransaction(d, db[d], pull[d], n)
  BY <1>1, <1>2, <1>7, <1>8 DEF SoundTransaction
<1> QED
  BY <1>6, <1>8, <1>9, TransactionStep DEF DrainStep

\* The next mutation of a downloaded page is merged.
LEMMA PageInv ==
  ASSUME IInv, NEW d \in Device, PageStep(d)
  PROVE  IInv'
<1> USE LocalFacts
<1> DEFINE o == open[d]
<1>1. /\ o \in Transaction
      /\ pull[d][o.worker].stage = "page"
      /\ SoundTransaction(d, db[d], pull[d], o)
  BY DEF PageStep
<1>2. /\ o.work \in Database /\ Sound(o.work)
      /\ db[d].received \subseteq o.work.received /\ o.worker \in Worker(d)
      /\ o.next \in Nat /\ 0 < o.next
      /\ 1 .. o.next - 1 \subseteq o.work.received
      /\ pull[d][o.worker].to \in Nat /\ pull[d][o.worker].to <= Len(log)
  BY <1>1 DEF Transaction, SoundTransaction, SoundPulls, Pull
<1>3. PICK q \in NextUp(d) :
        open' = [open EXCEPT ![d].work = Received(d, @, q), ![d].next = q + 1]
  BY DEF PageStep
<1>4. q = o.next /\ q <= pull[d][o.worker].to
  BY <1>1 DEF NextUp
<1>5. q \in 1 .. Len(log)
  BY <1>2, <1>4
<1> DEFINE a    == IF AlreadyLocal(d, log[q]) THEN o.work ELSE ApplyMutation(o.work, log[q])
           held == /\ ~AlreadyLocal(d, log[q])
                   /\ q \notin o.work.received
                   /\ Outcome(o.work, log[q]) = "deferred"
           work == [a EXCEPT !.received = @ \cup {q},
                             !.deferred = IF held THEN @ \cup {q} ELSE @]
           n    == [o EXCEPT !.work = work, !.next = q + 1]
<1>6. /\ a \in Database /\ Sound(a)
      /\ a.received = o.work.received /\ a.deferred = o.work.deferred
  BY <1>2, <1>5, ApplySound
<1>7. open' = [open EXCEPT ![d] = n]
  BY <1>3 DEF Received, IInv, SyncTypes
<1> HIDE DEF a, held
<1> DEFINE deferred == IF held THEN a.deferred \cup {q} ELSE a.deferred
<1>8. /\ q \in Nat /\ deferred \subseteq a.deferred \cup {q}
      /\ a.received \subseteq Nat /\ a.deferred \subseteq Nat
  BY <1>5, <1>6 DEF Database
<1> HIDE DEF deferred
<1>9. /\ work \in Database /\ Sound(work)
      /\ work.received = o.work.received \cup {q}
  <2> DEFINE u == [a EXCEPT !.received = a.received \cup {q}, !.deferred = deferred]
  <2>1. work = u
    BY DEF deferred
  <2>2. a.received \cup {q} \in SUBSET Nat /\ deferred \in SUBSET Nat
    BY <1>8
  <2>3. u \in Database
    BY <1>6, <2>2 DEF Database
  <2>4. /\ u.received = a.received \cup {q} /\ u.deferred = deferred
        /\ u.uploaded = a.uploaded /\ u.mutations = a.mutations /\ u.cursor = a.cursor
    BY <1>6 DEF Database
  <2> HIDE DEF u, work
  <2>5. Sound(u)
    BY <1>5, <1>6, <1>8, <2>4 DEF Sound
  <2> QED
    BY <1>6, <2>1, <2>3, <2>4, <2>5
<1> HIDE DEF work
<1>10. n \in Transaction /\ n.worker = o.worker /\ n.work = work /\ n.next = q + 1
  <2>1. q + 1 \in Nat
    BY <1>8
  <2> QED
    BY <1>1, <1>9, <2>1 DEF Transaction
<1> HIDE DEF n
<1>11. 1 .. n.next - 1 \subseteq n.work.received
  <2>1. n.next - 1 = q /\ 1 .. q = (1 .. o.next - 1) \cup {q}
    BY <1>2, <1>4, <1>10, SMTT(30)
  <2> QED
    BY ONLY <1>2, <1>9, <1>10, <2>1
<1>12. 0 < n.next /\ n.next <= pull[d][n.worker].to + 1
  <2>1. n.next = o.next + 1 /\ n.worker = o.worker
    BY ONLY <1>4, <1>10
  <2> QED
    BY ONLY <1>2, <1>4, <2>1, SMTT(30)
<1>13. SoundTransaction(d, db[d], pull[d], n)
  BY <1>1, <1>2, <1>9, <1>10, <1>11, <1>12 DEF SoundTransaction
<1> QED
  BY <1>7, <1>10, <1>13, TransactionStep DEF PageStep

\* A transaction commits or rolls back.
LEMMA CommitInv ==
  ASSUME IInv, NEW d \in Device, CommitDrain(d) \/ CommitPage(d) \/ AbortTransaction(d)
  PROVE  IInv'
<1> USE LocalFacts
<1> DEFINE o == open[d]
           w == o.worker
           p == pull[d][w]
<1>1. /\ o \in Transaction
      /\ SoundTransaction(d, db[d], pull[d], o)
  <2>1. open[d] # None
    BY ONLY CommitDrain(d) \/ CommitPage(d) \/ AbortTransaction(d)
    DEF CommitDrain, CommitPage, AbortTransaction
  <2> QED
    BY ONLY <2>1, IInv, d \in Device, LocalFacts
<1>2. /\ o.work \in Database /\ Sound(o.work)
      /\ db[d].received \subseteq o.work.received /\ w \in Worker(d)
      /\ o.next \in Nat
  BY <1>1 DEF Transaction, SoundTransaction
<1>3. /\ p \in Pull /\ p.cursor \in Nat /\ p.to \in Nat
      /\ p.cursor <= Len(log) /\ 1 .. p.cursor \subseteq db[d].received
  <2>1. p \in Pull /\ SoundPulls(d, db[d], pull[d])
    BY <1>2
  <2>2. p.cursor \in Nat /\ p.to \in Nat
    BY ONLY <2>1 DEF Pull
  <2> QED
    BY ONLY <1>2, <2>1, <2>2 DEF SoundPulls
<1>4. IdlePull \in Pull /\ IdlePull.cursor = 0 /\ IdlePull.stage = "idle"
  BY DEF IdlePull, Pull
<1>5. CASE CommitDrain(d)
  <2> DEFINE n == [p EXCEPT !.stage = "fetch"]
  <2>1. n \in Pull /\ n.cursor = p.cursor /\ n.stage = "fetch"
    BY <1>3 DEF Pull
  <2>2. SetPull(d, w, n)
    BY <1>5 DEF CommitDrain, SetPull, IInv, SyncTypes
  <2> HIDE DEF n
  <2>3. 1 .. n.cursor \subseteq o.work.received
    BY <1>2, <1>3, <2>1
  <2> QED
    BY <1>2, <1>3, <1>5, <2>1, <2>2, <2>3, CloseStep DEF CommitDrain
<1>6. CASE CommitPage(d)
  <2>1. p.stage = "page" /\ p.to <= Len(log) /\ o.next <= p.to + 1 /\ NextUp(d) = {}
    BY <1>1, <1>2, <1>6 DEF CommitPage, SoundPulls, SoundTransaction
  <2>2. o.next = p.to + 1
    <3>1. ~(o.next <= p.to)
      <4>1. {q \in {o.next} : q <= p.to} = {}
        BY <2>1 DEF NextUp
      <4> QED
        BY <4>1
    <3>2. \A a, b \in Nat : ~(a <= b) /\ a <= b + 1 => a = b + 1
      OBVIOUS
    <3>3. o.next \in Nat /\ p.to \in Nat
      BY ONLY <1>2, <1>3
    <3> HIDE DEF o, p
    <3> QED
      BY ONLY <2>1, <3>1, <3>2, <3>3
  <2>3. 1 .. p.to \subseteq o.work.received
    <3>1. 1 .. o.next - 1 \subseteq o.work.received
      BY ONLY <1>1, <2>1 DEF SoundTransaction
    <3>2. o.next - 1 = p.to
      <4> HIDE DEF o, p
      <4> QED
        BY ONLY <1>3, <2>2
    <3> QED
      BY ONLY <3>1, <3>2
  <2> DEFINE r == [o.work EXCEPT !.cursor = CursorAfter(d)]
             n == IF p.more THEN [IdlePull EXCEPT !.stage = "fetch", !.cursor = p.to] ELSE IdlePull
  <2>4. CursorAfter(d) = p.to
    BY DEF CursorAfter
  <2>5. r \in Database /\ Sound(r) /\ r.received = o.work.received
    BY <1>2, <1>3, <2>1, <2>3, <2>4 DEF Database, Sound
  <2>6. n \in Pull /\ n.stage # "page" /\ (n.cursor = p.to \/ n.cursor = 0)
    BY <1>3, <1>4 DEF Pull, IdlePull
  <2>7. /\ db' = [db EXCEPT ![d] = r] /\ SetPull(d, w, n)
        /\ open' = [open EXCEPT ![d] = None] /\ UNCHANGED <<log, faults, torn>>
    BY <1>6 DEF CommitPage
  <2> HIDE DEF r, n
  <2>8. n.cursor <= Len(log) /\ 1 .. n.cursor \subseteq r.received
    BY <1>3, <2>1, <2>3, <2>5, <2>6
  <2> QED
    BY <1>2, <2>5, <2>6, <2>7, <2>8, CloseStep
<1>7. CASE AbortTransaction(d)
  <2>1. db' = [db EXCEPT ![d] = db[d]]
    BY <1>7 DEF AbortTransaction
  <2>2. IdlePull.cursor <= Len(log) /\ 1 .. IdlePull.cursor \subseteq db[d].received
    BY <1>4
  <2>3. /\ SetPull(d, w, IdlePull) /\ open' = [open EXCEPT ![d] = None]
        /\ UNCHANGED <<log, faults, torn>>
    BY <1>7 DEF AbortTransaction
  <2>4. IdlePull.stage # "page"
    BY <1>4
  <2> HIDE DEF w
  <2> QED
    BY <1>2, <1>4, <2>1, <2>2, <2>3, <2>4, CloseStep
<1> QED
  BY <1>5, <1>6, <1>7

\* The next mutation of the outbox reaches the log.
LEMMA PushInv ==
  ASSUME IInv, NEW d \in Device, Push(d)
  PROVE  IInv'
<1> USE LocalFacts
<1> DEFINE i == db[d].uploaded + 1
           m == db[d].mutations[i]
<1>1. /\ db[d].uploaded \in Nat /\ db[d].mutations \in Seq(MutationSet)
      /\ i \in 1 .. Len(db[d].mutations)
  <2>1. db[d] \in Database
    OBVIOUS
  <2>2. db[d].uploaded \in Nat /\ db[d].mutations \in Seq(MutationSet)
    BY <2>1 DEF Database
  <2>3. Len(db[d].mutations) \in Nat
    BY <2>2
  <2>4. db[d].uploaded < Len(db[d].mutations)
    BY DEF Push, Recorded
  <2> QED
    BY ONLY <2>2, <2>3, <2>4
<1>2. m \in MutationSet
  BY ONLY <1>1
<1>3. log' = Append(log, m) /\ UNCHANGED <<open, pull, faults, torn>>
  BY DEF Push
<1>4. PICK r \in Database : r = [db[d] EXCEPT !.uploaded = @ + 1]
  <2>1. db[d] \in Database
    OBVIOUS
  <2>2. db[d].uploaded + 1 \in Nat
    BY ONLY <1>1
  <2>3. [db[d] EXCEPT !.uploaded = @ + 1] \in Database
    BY ONLY <2>1, <2>2 DEF Database
  <2> QED
    BY <2>3
<1>5. db' = [db EXCEPT ![d] = r]
  BY <1>4 DEF Push, IInv, SyncTypes
<1>6. /\ r.mutations = db[d].mutations /\ r.uploaded = i /\ r.received = db[d].received
      /\ r.deferred = db[d].deferred /\ r.cursor = db[d].cursor
  BY <1>1, <1>4 DEF Database
<1> HIDE DEF m
<1>7. log' \in Seq(MutationSet) /\ Len(log') = Len(log) + 1
  BY <1>2, <1>3
<1>8. Len(log) <= Len(log') /\ 1 .. Len(log) \subseteq 1 .. Len(log')
  BY <1>7
<1>9. ASSUME NEW q \in Database, Sound(q) PROVE Sound(q)'
  BY <1>7, <1>8, <1>9, SMTT(30) DEF Sound, Database
<1>10. Sound(r)'
  <2>1. Sound(db[d]) /\ db[d] \in Database
    OBVIOUS
  <2>2. db[d].cursor \in Nat /\ Len(log) \in Nat
    BY <2>1 DEF Database
  <2>3. /\ i <= Len(db[d].mutations)
        /\ db[d].cursor <= Len(log')
    BY <1>1, <1>8, <2>1, <2>2, <1>7 DEF Sound
  <2> HIDE DEF i
  <2> QED
    BY ONLY <1>6, <1>8, <2>1, <2>3 DEF Sound
<1>11. ASSUME NEW c \in Device
       PROVE  /\ Sound(db[c])'
              /\ SoundPulls(c, db[c], pull[c])'
              /\ open'[c] # None => SoundTransaction(c, db[c], pull[c], open[c])'
  <2>1. /\ Sound(db[c]) /\ SoundPulls(c, db[c], pull[c])
        /\ open[c] # None => SoundTransaction(c, db[c], pull[c], open[c])
        /\ pull[c] \in [Worker(c) -> Pull] /\ open[c] \in Transaction \cup {None}
    OBVIOUS
  <2>2. db'[c].received = db[c].received /\ Sound(db[c])'
    <3>1. CASE c = d
      <4>1. db'[c] = r
        BY <1>5, <3>1 DEF IInv, SyncTypes
      <4> QED
        BY ONLY <1>6, <1>10, <3>1, <4>1 DEF Sound
    <3>2. CASE c # d
      <4>1. db'[c] = db[c]
        BY <1>5, <3>2 DEF IInv, SyncTypes
      <4> QED
        BY <1>9, <2>1, <4>1 DEF Sound
    <3> QED
      BY <3>1, <3>2
  <2>3. SoundPulls(c, db[c], pull[c])'
    <3>1. ASSUME NEW w \in Worker(c)
          PROVE  pull[c][w].cursor \in Nat /\ pull[c][w].to \in Nat
      BY DEF Pull
    <3> QED
      BY <1>3, <1>7, <1>8, <2>1, <2>2, <3>1, SMTT(30) DEF SoundPulls
  <2>4. open[c] # None => open[c].work \in Database /\ Sound(open[c].work)'
    <3>1. open[c] # None => open[c].work \in Database /\ Sound(open[c].work)
      BY <2>1 DEF Transaction, SoundTransaction
    <3> QED
      BY <1>3, <1>9, <3>1 DEF Sound
  <2>5. open'[c] # None => SoundTransaction(c, db[c], pull[c], open[c])'
    BY <1>3, <2>1, <2>2, <2>4 DEF SoundTransaction, Sound
  <2> QED
    BY <2>2, <2>3, <2>5
<1>12. PullSound'
  BY <1>11 DEF PullSound
<1>13. SyncTypes'
  BY <1>3, <1>4, <1>5, <1>7, <1>11 DEF IInv, SyncTypes, Sound
<1> QED
  BY <1>12, <1>13 DEF IInv

\* A crash and an upgrade end the pulls of a computer.
LEMMA EnvironmentInv ==
  ASSUME IInv, NEW d \in Device, Crash(d) \/ Upgrade(d)
  PROVE  IInv'
<1> USE LocalFacts
<1> DEFINE idle == [w \in Worker(d) |-> IdlePull]
<1>1. IdlePull \in Pull /\ IdlePull.cursor = 0 /\ IdlePull.stage = "idle"
  BY DEF IdlePull, Pull
<1>2. idle \in [Worker(d) -> Pull]
  BY <1>1
<1>3. ASSUME NEW r \in Database PROVE SoundPulls(d, r, idle)
  BY <1>1 DEF SoundPulls
<1>4. CASE Crash(d)
  <2>1. faults' \in Nat /\ torn' \in Nat
    <3>1. faults \in Nat /\ torn \in Nat
      OBVIOUS
    <3> QED
      BY <1>4, <3>1 DEF Crash
  <2>2. db' = [db EXCEPT ![d] = db[d]] /\ pull' = [pull EXCEPT ![d] = idle]
    BY <1>4 DEF Crash
  <2> HIDE DEF idle
  <2> QED
    BY <1>2, <1>3, <1>4, <2>1, <2>2, LocalStep DEF Crash
<1>5. CASE Upgrade(d)
  <2> DEFINE r == [db[d] EXCEPT !.upgraded = TRUE]
  <2>1. r \in Database /\ Sound(r) /\ db[d].received \subseteq r.received
    <3>1. db[d] \in Database /\ Sound(db[d])
      OBVIOUS
    <3>2. r \in Database
      BY ONLY <3>1 DEF Database
    <3>3. Sound(r) /\ r.received = db[d].received
      BY ONLY <3>1 DEF Sound, Database
    <3> QED
      BY ONLY <3>2, <3>3
  <2>2. db' = [db EXCEPT ![d] = r]
    BY <1>5 DEF Upgrade, IInv, SyncTypes
  <2>3. faults' \in Nat /\ torn' \in Nat
    BY <1>5 DEF Upgrade
  <2> HIDE DEF r
  <2> QED
    BY <1>5, <2>1, <2>2, <2>3, DatabaseStep DEF Upgrade
<1> QED
  BY <1>4, <1>5

-----------------------------------------------------------------------------
(* The theorems *)

\* Every step keeps the invariant.
LEMMA NextInv == IInv /\ [Next]_vars => IInv'
<1> SUFFICES ASSUME IInv, [Next]_vars PROVE IInv'
  OBVIOUS
<1>1. CASE UNCHANGED vars
  <2>1. SyncTypes'
    BY <1>1 DEF vars, IInv, SyncTypes
  <2>2. PullSound'
    BY <1>1 DEF vars, IInv, PullSound, SoundPulls, SoundTransaction, Sound
  <2> QED
    BY <2>1, <2>2 DEF IInv
<1>2. ASSUME NEW d \in Device,
             \/ Edit(d) \/ Push(d) \/ PullRuns(d) \/ Crash(d) \/ Upgrade(d)
             \/ \E w \in Worker(d) : DownloadFails(d, w)
      PROVE  IInv'
  <2>1. CASE Edit(d)
    BY <2>1, EditInv
  <2>2. CASE Push(d)
    BY <2>2, PushInv
  <2>3. CASE PullRuns(d)
    BY <2>3, FetchInv, BeginInv, DrainInv, PageInv, CommitInv DEF PullRuns
  <2>4. CASE Crash(d) \/ Upgrade(d)
    BY <2>4, EnvironmentInv
  <2>5. CASE \E w \in Worker(d) : DownloadFails(d, w)
    BY <2>5, FetchInv
  <2> QED
    BY <1>2, <2>1, <2>2, <2>3, <2>4, <2>5
<1> QED
  BY <1>1, <1>2 DEF Next

\* The plan of every computer is about tasks, whatever plans again or removes.
LEMMA PlanTypeKept ==
  ASSUME planned \in [Device -> SUBSET Task], [Next]_vars
  PROVE  planned' \in [Device -> SUBSET Task]
<1>1. CASE UNCHANGED planned
  BY <1>1
<1>2. ASSUME NEW d \in Device, NEW tasks \in SUBSET Task, planned' = [planned EXCEPT ![d] = tasks]
      PROVE  planned' \in [Device -> SUBSET Task]
  BY <1>2
<1>3. ASSUME NEW d \in Device, NEW r, Replan(d, r) PROVE planned' \in [Device -> SUBSET Task]
  BY <1>2, <1>3 DEF Replan
<1>4. ASSUME NEW d \in Device, NEW e \in Entity, NEW r, Save(d, e, r)
      PROVE  planned' \in [Device -> SUBSET Task]
  BY <1>2, <1>3, <1>4 DEF Save
<1>5. ASSUME NEW d \in Device, Edit(d) PROVE planned' \in [Device -> SUBSET Task]
  BY <1>3, <1>4, <1>5 DEF Edit, Create, Update, Toggle, Delete, Resolve, UseSource,
                          KeepExisting, PlanAgain
<1>6. ASSUME NEW d \in Device, PullRuns(d) PROVE planned' \in [Device -> SUBSET Task]
  BY <1>1, <1>3, <1>6 DEF PullRuns, StartPull, BeginDrain, Fetch, BeginPage, DrainStep,
                          CommitDrain, PageStep, CommitPage, AbortTransaction
<1>7. ASSUME NEW d \in Device,
             Push(d) \/ Crash(d) \/ Upgrade(d) \/ \E w \in Worker(d) : DownloadFails(d, w)
      PROVE  UNCHANGED planned
  BY <1>7 DEF Push, Crash, Upgrade, DownloadFails
<1> QED
  BY <1>1, <1>5, <1>6, <1>7 DEF Next, vars

\* Every state has its type: the databases stay databases, whatever is edited,
\* merged, refused, interrupted or lost.
THEOREM TypeCorrect == Spec => []TypeOK
<1> DEFINE PlanType == planned \in [Device -> SUBSET Task]
<1>1. Init => PlanType
  BY DEF Init
<1>2. PlanType /\ [Next]_vars => PlanType'
  BY PlanTypeKept
<1>3. IInv /\ PlanType => TypeOK
  BY DEF IInv, TypeOK
<1> HIDE DEF PlanType
<1> QED
  BY <1>1, <1>2, <1>3, InitInv, NextInv, PTL DEF Spec

\* What a pull relies on between its steps holds in every state.
THEOREM PullsAreSound == Spec => []PullSound
<1>1. IInv => PullSound
  BY DEF IInv
<1> QED
  BY <1>1, InitInv, NextInv, PTL DEF Spec

\* The cursor never runs past a mutation that was not received, for any number
\* of computers and records, any page size, and any overlap of pulls.
THEOREM NothingIsSkipped == Spec => []NothingSkipped
<1>1. IInv => NothingSkipped
  BY DEF IInv, PullSound, Sound, NothingSkipped
<1> QED
  BY <1>1, InitInv, NextInv, PTL DEF Spec

-----------------------------------------------------------------------------
(* Clocks: what is recorded is newer than everything merged before            *)

\* The clock is not behind a mutation's timestamp.
Covered(clock, key) == ~ClockBefore(clock, ReadingOf(key))

\* ... of any mutation a database knows.
Covers(r) ==
  /\ \A i \in 1 .. Len(r.mutations) : Covered(r.clock, r.mutations[i].key)
  /\ \A p \in r.received : Covered(r.clock, log[p].key)

\* A computer's own mutations are not observed when they are downloaded again:
\* it still has them, in a transaction too.
ClocksCover ==
  /\ \A d \in Device :
       /\ Covers(db[d])
       /\ \A i \in 1 .. Len(db[d].mutations) : db[d].mutations[i].key.device = d
       /\ open[d] # None => Covers(open[d].work) /\ open[d].work.mutations = db[d].mutations
  /\ \A p \in 1 .. Len(log) : \E d \in Device : \E i \in 1 .. Len(db[d].mutations) :
       log[p] = db[d].mutations[i]

\* The step that EditIsNewest allows.
RecordsNewest ==
  \A d \in Device : Recorded(d)' > Recorded(d) =>
    \A m \in Known(db[d]) : Before(m.key, db'[d].mutations[Recorded(d)'].key)

\* The order of readings.
LEMMA ClockOrder ==
  ASSUME NEW a \in Clock, NEW b \in Clock, NEW c \in Clock
  PROVE  /\ ~ClockBefore(b, a) /\ ~ClockBefore(a, c) => ~ClockBefore(b, c)
         /\ ClockBefore(a, b) /\ ~ClockBefore(a, c) => ClockBefore(c, b)
BY DEF ClockBefore, Clock

\* A tick goes forward, and it goes on unless the counter is at its end.
LEMMA TickForward ==
  ASSUME NEW c \in Clock, NEW now \in Nat
  PROVE  /\ Tick(c, now) \in Clock
         /\ ~ClockBefore(Tick(c, now), c)
         /\ c.counter < MaxCounter => ClockBefore(c, Tick(c, now))
<1>1. c.physical \in Nat /\ c.counter \in 0 .. MaxCounter
  BY DEF Clock
<1> QED
  BY <1>1 DEF Clock, Tick, ClockBefore

\* An observed reading is covered, and so is what was covered before.
LEMMA ObserveForward ==
  ASSUME NEW c \in Clock, NEW reading \in Clock
  PROVE  /\ Observe(c, reading) \in Clock
         /\ ~ClockBefore(Observe(c, reading), c)
         /\ ~ClockBefore(Observe(c, reading), reading)
BY DEF Clock, Observe, ClockBefore

\* A key is one of a device, with a reading.
LEMMA MutationKey ==
  ASSUME NEW m \in MutationSet
  PROVE  m.key \in Key(Device) /\ ReadingOf(m.key) \in Clock
BY KeyType DEF MutationSet

\* A database with the same mutations and receipts and a later clock.
LEMMA LaterCovers ==
  ASSUME log \in Seq(MutationSet), NEW r \in Database, NEW q \in Database,
         r.received \subseteq 1 .. Len(log), Covers(r),
         q.mutations = r.mutations, q.received = r.received,
         ~ClockBefore(q.clock, r.clock)
  PROVE  Covers(q)
<1>1. q.clock \in Clock /\ r.clock \in Clock /\ r.mutations \in Seq(MutationSet)
  BY DEF Database
<1>2. \A i \in 1 .. Len(r.mutations) : r.mutations[i] \in MutationSet
  BY <1>1
<1>3. \A p \in r.received : log[p] \in MutationSet
  OBVIOUS
<1>4. \A m \in MutationSet : Covered(r.clock, m.key) => Covered(q.clock, m.key)
  BY <1>1, MutationKey, ClockOrder DEF Covered
<1> QED
  BY <1>2, <1>3, <1>4 DEF Covers

\* A mutation of computer d is added that is newer than all the database knew.
Stamped(d, r, q) ==
  /\ Covers(q) /\ q.received = r.received
  /\ \/ q.mutations = r.mutations
     \/ \E m \in MutationSet :
          /\ q.mutations = Append(r.mutations, m)
          /\ m.key.device = d
          /\ \A i \in 1 .. Len(r.mutations) : Before(r.mutations[i].key, m.key)
          /\ \A p \in r.received : Before(log[p].key, m.key)

\* One more mutation, stamped with the clock it leaves.
LEMMA RecordCovers ==
  ASSUME log \in Seq(MutationSet), NEW r \in Database, NEW d \in Device, NEW e \in Entity,
         NEW now \in Nat, r.received \subseteq 1 .. Len(log), Covers(r),
         r.clock.counter < MaxCounter
  PROVE  Stamped(d, r, Record(r, d, e, now))
<1> DEFINE q     == Record(r, d, e, now)
           clock == Tick(r.clock, now)
<1>1. q \in Database
  BY RecordType
<1>2. r.clock \in Clock /\ r.mutations \in Seq(MutationSet) /\ q.mutations \in Seq(MutationSet)
  BY <1>1 DEF Database
<1>3. clock \in Clock /\ ~ClockBefore(clock, r.clock) /\ ClockBefore(r.clock, clock)
  BY <1>2, TickForward
<1>4. q.clock = clock /\ q.received = r.received
  BY DEF Record, Database
<1>5. \/ q.mutations = r.mutations
      \/ \E m : q.mutations = Append(r.mutations, m) /\ m.key = KeyOf(clock, d)
  <2> DEFINE incoming == IF e \in Task /\ Exists(r, e) THEN r.deps[e] ELSE {}
             current  == IF e \in Task THEN LiveElements(r, e) ELSE {}
             m        == [key |-> KeyOf(clock, d), entity |-> e, snapshot |-> r.rows[e],
                          linked |-> e \in r.links, added |-> incoming \ current, removed |-> current \ incoming]
  <2>1. m.key = KeyOf(clock, d)
    OBVIOUS
  <2>2. e \in LocalOnly => q.mutations = r.mutations
    BY DEF Record, Database
  <2>3. e \notin LocalOnly => q.mutations = Append(r.mutations, m)
    BY DEF Record, Database
  <2> HIDE DEF m, q, clock
  <2> QED
    BY <2>1, <2>2, <2>3
<1> HIDE DEF q, clock
<1>6. CASE q.mutations = r.mutations
  BY <1>1, <1>3, <1>4, <1>6, LaterCovers DEF q, Stamped
<1>7. CASE \E m : q.mutations = Append(r.mutations, m) /\ m.key = KeyOf(clock, d)
  <2>1. PICK m : q.mutations = Append(r.mutations, m) /\ m.key = KeyOf(clock, d)
    BY <1>7
  <2>2. /\ Len(q.mutations) = Len(r.mutations) + 1 /\ Len(r.mutations) \in Nat
        /\ \A i \in 1 .. Len(r.mutations) : q.mutations[i] = r.mutations[i]
        /\ q.mutations[Len(r.mutations) + 1] = m
    BY <1>2, <2>1
  <2>3. m \in MutationSet
    BY <1>2, <2>2
  <2>4. ReadingOf(m.key) = clock /\ m.key.device = d
    BY <1>3, <2>1 DEF ReadingOf, KeyOf, Clock
  <2>5. \A n \in MutationSet : Covered(r.clock, n.key) => Before(n.key, m.key)
    <3> SUFFICES ASSUME NEW n \in MutationSet, Covered(r.clock, n.key)
                 PROVE  Before(n.key, m.key)
      OBVIOUS
    <3>1. ClockBefore(ReadingOf(n.key), ReadingOf(m.key))
      BY <1>2, <1>3, <2>4, MutationKey, ClockOrder DEF Covered
    <3> QED
      BY <3>1 DEF Before, ClockBefore, ReadingOf
  <2>6. \A n \in MutationSet : Covered(r.clock, n.key) => Covered(clock, n.key)
    BY <1>2, <1>3, MutationKey, ClockOrder DEF Covered
  <2>7. Covered(clock, m.key)
    BY <1>3, <2>4 DEF Covered, ClockBefore, Clock
  <2>8. /\ \A i \in 1 .. Len(r.mutations) :
             r.mutations[i] \in MutationSet /\ Covered(r.clock, r.mutations[i].key)
        /\ \A p \in r.received : log[p] \in MutationSet /\ Covered(r.clock, log[p].key)
    BY <1>2 DEF Covers
  <2>9. \A i \in 1 .. Len(q.mutations) : i \in 1 .. Len(r.mutations) \/ i = Len(r.mutations) + 1
    BY <2>2
  <2>10. Covers(q)
    BY <1>4, <2>2, <2>6, <2>7, <2>8, <2>9 DEF Covers
  <2> QED
    BY <1>1, <1>4, <2>1, <2>3, <2>4, <2>5, <2>8, <2>10 DEF q, Stamped
<1> QED
  BY <1>5, <1>6, <1>7

\* Merging a mutation observes its timestamp, whatever becomes of it.
LEMMA ApplyObserves ==
  ASSUME NEW r \in Database, NEW m \in MutationSet
  PROVE  ApplyMutation(r, m).clock = Observe(r.clock, ReadingOf(m.key))
<1>1. \A q \in Database, t \in Entity :
        RebuildDependencies(q, t).clock = q.clock /\ DeleteRow(q, t).clock = q.clock
  BY DEF RebuildDependencies, DeleteRow, Database
<1>2. \A q \in Database : RaiseConflict(q, m).clock = q.clock
  BY DEF RaiseConflict, Database
<1>3. Observed(r, m).clock = Observe(r.clock, ReadingOf(m.key))
  BY DEF Observed, RebuildDependencies, Database
<1>4. ASSUME NEW q \in Database
      PROVE  Merged(q, m).clock = q.clock
  <2> DEFINE dated   == RaiseConflict(q, m)
             placed  == Put(dated, m.entity, MergedRow(q, m), m.linked)
  <2>1. dated \in Database /\ dated.clock = q.clock
    BY <1>2, RaiseConflictType
  <2> HIDE DEF dated
  <2>2. placed.clock = q.clock
    BY <2>1 DEF Put, Database
  <2>3. RebuildDependencies(placed, m.entity).clock = placed.clock
    BY <2>1 DEF RebuildDependencies, Put, Database
  <2>4. DeleteRow(dated, m.entity).clock = q.clock
    BY <2>1 DEF DeleteRow, Database
  <2>5. \/ Merged(q, m) = [RebuildDependencies(placed, m.entity) EXCEPT !.version[m.entity] = m.key]
        \/ Merged(q, m) = [DeleteRow(dated, m.entity) EXCEPT !.version[m.entity] = m.key]
        \/ Merged(q, m) = [dated EXCEPT !.version[m.entity] = m.key]
    BY DEF Merged, dated
  <2>6. \A x \in {RebuildDependencies(placed, m.entity), DeleteRow(dated, m.entity), dated} :
          [x EXCEPT !.version[m.entity] = m.key].clock = x.clock
    BY <2>1 DEF RebuildDependencies, DeleteRow, Put, Database
  <2> QED
    BY <2>1, <2>2, <2>3, <2>4, <2>5, <2>6
<1> QED
  BY <1>2, <1>3, <1>4, ObservedType DEF ApplyMutation, Outcome

\* What a database may become while its computer has no transaction open.
Grows(d, r) ==
  /\ Covers(r)
  /\ \A i \in 1 .. Len(r.mutations) : r.mutations[i].key.device = d
  /\ \A i \in 1 .. Recorded(d) : i \in 1 .. Len(r.mutations) /\ r.mutations[i] = db[d].mutations[i]
  /\ Len(r.mutations) > Recorded(d) =>
       \A m \in Known(db[d]) : Before(m.key, r.mutations[Len(r.mutations)].key)

\* A computer's database grows, or a transaction of its own moves on.
LEMMA GrowStep ==
  ASSUME IInv, ClocksCover, NEW d \in Device, NEW r \in Database,
         NEW o \in Transaction \cup {None},
         db' = [db EXCEPT ![d] = r], open' = [open EXCEPT ![d] = o], log' = log,
         Grows(d, r), o # None => Covers(o.work) /\ o.work.mutations = r.mutations
  PROVE  ClocksCover' /\ RecordsNewest
<1>1. \A c \in Device : /\ db'[c] = IF c = d THEN r ELSE db[c]
                        /\ open'[c] = IF c = d THEN o ELSE open[c]
  BY DEF IInv, SyncTypes
<1>2. ASSUME NEW c \in Device
      PROVE  /\ Covers(db[c])'
             /\ \A i \in 1 .. Len(db'[c].mutations) : db'[c].mutations[i].key.device = c
             /\ open'[c] # None => Covers(open[c].work)' /\ open'[c].work.mutations = db'[c].mutations
  <2>1. CASE c = d
    <3>1. db'[c] = r /\ open'[c] = o
      BY <1>1, <2>1
    <3> QED
      BY <2>1, <3>1 DEF Grows, Covers
  <2>2. CASE c # d
    <3>1. db'[c] = db[c] /\ open'[c] = open[c]
      BY <1>1, <2>2
    <3>2. /\ Covers(db[c])
          /\ \A i \in 1 .. Len(db[c].mutations) : db[c].mutations[i].key.device = c
          /\ open[c] # None => Covers(open[c].work) /\ open[c].work.mutations = db[c].mutations
      BY DEF ClocksCover
    <3> QED
      BY <3>1, <3>2 DEF Covers
  <2> QED
    BY <2>1, <2>2
<1>3. ASSUME NEW p \in 1 .. Len(log')
      PROVE  \E c \in Device : \E i \in 1 .. Len(db'[c].mutations) : log'[p] = db'[c].mutations[i]
  <2>1. PICK c \in Device : \E i \in 1 .. Len(db[c].mutations) : log[p] = db[c].mutations[i]
    BY DEF ClocksCover
  <2>2. PICK i \in 1 .. Len(db[c].mutations) : log[p] = db[c].mutations[i]
    BY <2>1
  <2>3. i \in 1 .. Len(db'[c].mutations) /\ db'[c].mutations[i] = db[c].mutations[i]
    BY <1>1 DEF Grows, Recorded
  <2> QED
    BY <2>2, <2>3
<1>4. ClocksCover'
  BY <1>2, <1>3 DEF ClocksCover
<1>5. RecordsNewest
  <2>1. \A c \in Device : Recorded(c) \in Nat
    BY DEF Recorded, IInv, SyncTypes, Database
  <2> QED
    BY <1>1, <2>1 DEF RecordsNewest, Grows, Recorded
<1> QED
  BY <1>4, <1>5

\* A database that knows the same, with a later clock, has grown.
LEMMA SameGrows ==
  ASSUME IInv, ClocksCover, NEW d \in Device, NEW r \in Database,
         r.mutations = db[d].mutations, Covers(r)
  PROVE  Grows(d, r)
<1>1. Recorded(d) \in Nat
  BY DEF Recorded, IInv, SyncTypes, Database
<1> QED
  BY <1>1 DEF Grows, ClocksCover, Recorded

\* A mutation is recorded, and the clock may tick once more.
LEMMA RecordGrows ==
  ASSUME IInv, ClocksCover, NEW d \in Device, NEW e \in Entity, NEW now \in Nat,
         NEW changed \in Database, NEW q \in Database,
         Bookkeeping(changed) = Bookkeeping(db[d]), changed.clock = db[d].clock,
         db[d].clock.counter < MaxCounter,
         Bookkeeping(q) = Bookkeeping(Record(changed, d, e, now)),
         ~ClockBefore(q.clock, Record(changed, d, e, now).clock)
  PROVE  Grows(d, q)
<1> DEFINE r == Record(changed, d, e, now)
<1>1. /\ changed.mutations = db[d].mutations /\ changed.received = db[d].received
      /\ q.mutations = r.mutations /\ q.received = r.received
  BY DEF Bookkeeping
<1>2. /\ log \in Seq(MutationSet) /\ db[d].received \subseteq 1 .. Len(log)
      /\ db[d].mutations \in Seq(MutationSet)
  BY LocalFacts DEF Sound, Database
<1>3. Covers(changed)
  BY <1>1 DEF ClocksCover, Covers
<1>4. r \in Database /\ Stamped(d, changed, r)
  <2>1. changed.received \subseteq 1 .. Len(log) /\ changed.clock.counter < MaxCounter
    BY <1>1, <1>2
  <2>2. log \in Seq(MutationSet)
    BY <1>2
  <2> QED
    BY <1>3, <2>1, <2>2, RecordType, RecordCovers
<1> HIDE DEF r
<1>5. Covers(q)
  BY <1>1, <1>2, <1>4, LaterCovers DEF r, Stamped
<1>6. CASE r.mutations = changed.mutations
  BY <1>1, <1>5, <1>6, SameGrows
<1>7. ASSUME NEW m \in MutationSet,
             r.mutations = Append(changed.mutations, m), m.key.device = d,
             \A i \in 1 .. Len(changed.mutations) : Before(changed.mutations[i].key, m.key),
             \A p \in changed.received : Before(log[p].key, m.key)
      PROVE  Grows(d, q)
  <2>1. /\ Len(q.mutations) = Recorded(d) + 1 /\ Recorded(d) \in Nat
        /\ \A i \in 1 .. Recorded(d) : q.mutations[i] = db[d].mutations[i]
        /\ q.mutations[Recorded(d) + 1] = m
    BY <1>1, <1>2, <1>7 DEF Recorded
  <2>2. \A i \in 1 .. Len(q.mutations) : i \in 1 .. Recorded(d) \/ i = Recorded(d) + 1
    BY <2>1
  <2>3. \A i \in 1 .. Len(q.mutations) : q.mutations[i].key.device = d
    <3>1. \A i \in 1 .. Recorded(d) : db[d].mutations[i].key.device = d
      BY DEF ClocksCover, Recorded
    <3> QED
      BY <1>7, <2>1, <2>2, <3>1
  <2>4. \A n \in Known(db[d]) : Before(n.key, m.key)
    BY <1>1, <1>7 DEF Known, Own
  <2>5. \A i \in 1 .. Recorded(d) : i \in 1 .. Len(q.mutations)
    BY <2>1
  <2> QED
    BY <1>5, <2>1, <2>3, <2>4, <2>5 DEF Grows
<1> QED
  BY <1>4, <1>6, <1>7 DEF Stamped

\* The student's record commands.
LEMMA EditClock ==
  ASSUME IInv, ClocksCover, NEW d \in Device, Edit(d)
  PROVE  ClocksCover' /\ RecordsNewest
<1> USE LocalFacts
<1>1. CanRecord(d) => db[d].clock.counter < MaxCounter /\ open[d] = None
  BY DEF CanRecord
<1>2. open[d] = None /\ open' = open => open' = [open EXCEPT ![d] = None]
  OBVIOUS
<1>3. \A q \in Database : q.clock \in Clock
  BY DEF Database
<1>4. ASSUME NEW q \in Database, Grows(d, q), db' = [db EXCEPT ![d] = q],
             open[d] = None, UNCHANGED <<open, log>>
      PROVE  ClocksCover' /\ RecordsNewest
  BY <1>2, <1>4, GrowStep
<1>5. ASSUME NEW q \in Database, q.mutations = db[d].mutations, q.received = db[d].received,
             ~ClockBefore(q.clock, db[d].clock), db' = [db EXCEPT ![d] = q],
             open[d] = None, UNCHANGED <<open, log>>
      PROVE  ClocksCover' /\ RecordsNewest
  <2>1. Covers(db[d]) /\ db[d].received \subseteq 1 .. Len(log)
    BY DEF ClocksCover, Sound
  <2>2. Covers(q)
    BY <1>5, <2>1, LaterCovers
  <2> QED
    BY <1>4, <1>5, <2>2, SameGrows
<1>6. CASE \E e \in Entity : Create(d, e) \/ Update(d, e) \/ Toggle(d, e) \/ Delete(d, e)
  <2>1. PICK e \in Entity, changed \in Database :
          /\ Bookkeeping(changed) = Bookkeeping(db[d])
          /\ changed.clock = db[d].clock
          /\ CanRecord(d)
          /\ Save(d, e, changed)
    BY <1>6, EditSaves
  <2>2. ASSUME NEW now \in Wall[d], db' = [db EXCEPT ![d] = Record(changed, d, e, now)],
               UNCHANGED <<open, log>>
        PROVE  ClocksCover' /\ RecordsNewest
    <3> DEFINE q == Record(changed, d, e, now)
    <3>1. now \in Nat /\ q \in Database
      BY RecordType
    <3>2. ~ClockBefore(q.clock, q.clock)
      BY <1>3, <3>1 DEF ClockBefore, Clock
    <3>3. Grows(d, q)
      BY <1>1, <2>1, <3>1, <3>2, RecordGrows
    <3> HIDE DEF q
    <3>4. db' = [db EXCEPT ![d] = q]
      BY <2>2 DEF q
    <3> QED
      BY <1>1, <1>4, <2>1, <2>2, <3>1, <3>3, <3>4
  <2>3. ASSUME db' = [db EXCEPT ![d] = changed], UNCHANGED <<open, log>>
        PROVE  ClocksCover' /\ RecordsNewest
    <3>1. ~ClockBefore(changed.clock, db[d].clock)
      BY <1>3, <2>1, SMTT(30) DEF ClockBefore, Clock
    <3>2. changed.mutations = db[d].mutations /\ changed.received = db[d].received
      BY <2>1 DEF Bookkeeping
    <3> QED
      BY <1>1, <1>5, <2>1, <2>3, <3>1, <3>2
  <2> QED
    BY <2>1, <2>2, <2>3 DEF Save
<1>7. ASSUME NEW c \in db[d].conflicts, UseSource(d, c)
      PROVE  ClocksCover' /\ RecordsNewest
  <2>1. PICK taken \in Database, e \in Entity, now \in Wall[d], q \in Database :
          /\ Bookkeeping(taken) = Bookkeeping(db[d])
          /\ taken.clock = db[d].clock
          /\ Bookkeeping(q) = Bookkeeping(Record(taken, d, e, now))
          /\ q.clock = Tick(Record(taken, d, e, now).clock, now)
          /\ db' = [db EXCEPT ![d] = q]
    BY <1>7, UseSourceRecords
  <2>2. now \in Nat
    OBVIOUS
  <2>3. ~ClockBefore(q.clock, Record(taken, d, e, now).clock)
    <3>1. Record(taken, d, e, now) \in Database
      BY <2>2, RecordType
    <3> QED
      BY <1>3, <2>1, <2>2, <3>1, TickForward
  <2>4. CanRecord(d) /\ UNCHANGED <<open, log>>
    BY <1>7 DEF UseSource
  <2>5. Grows(d, q)
    BY <1>1, <2>1, <2>2, <2>3, <2>4, RecordGrows
  <2> QED
    BY <1>1, <1>4, <2>1, <2>4, <2>5
<1>8. ASSUME NEW c \in db[d].conflicts, KeepExisting(d, c)
      PROVE  ClocksCover' /\ RecordsNewest
  <2>1. PICK now \in Wall[d] :
          db' = [db EXCEPT ![d] = [Resolved(db[d], c) EXCEPT !.clock = Tick(@, now)]]
    BY <1>8 DEF KeepExisting
  <2> DEFINE q == [Resolved(db[d], c) EXCEPT !.clock = Tick(@, now)]
  <2>2. /\ q \in Database /\ Bookkeeping(q) = Bookkeeping(db[d])
        /\ q.clock = Tick(db[d].clock, now)
    BY ResolvedTicks
  <2> HIDE DEF q
  <2>3. ~ClockBefore(q.clock, db[d].clock)
    BY <1>3, <2>2, TickForward
  <2>4. q.mutations = db[d].mutations /\ q.received = db[d].received
    BY <2>2 DEF Bookkeeping
  <2>5. open[d] = None /\ UNCHANGED <<open, log>>
    BY <1>8 DEF KeepExisting
  <2>6. db' = [db EXCEPT ![d] = q]
    BY <2>1 DEF q
  <2> QED
    BY <1>5, <2>2, <2>3, <2>4, <2>5, <2>6
<1>9. CASE PlanAgain(d)
  <2>1. db' = db /\ open[d] = None /\ UNCHANGED <<open, log>>
    BY <1>9 DEF PlanAgain
  <2>2. db[d] \in Database /\ db' = [db EXCEPT ![d] = db[d]]
    BY <2>1
  <2>3. ~ClockBefore(db[d].clock, db[d].clock)
    BY <1>3, <2>2 DEF ClockBefore, Clock
  <2> QED
    BY <1>5, <2>1, <2>2, <2>3
<1> QED
  BY <1>6, <1>7, <1>8, <1>9 DEF Edit, Resolve

\* A step that leaves the database as it is.
LEMMA StillStep ==
  ASSUME IInv, ClocksCover, NEW d \in Device, NEW o \in Transaction \cup {None},
         db' = db, open' = [open EXCEPT ![d] = o], log' = log,
         o # None => Covers(o.work) /\ o.work.mutations = db[d].mutations
  PROVE  ClocksCover' /\ RecordsNewest
<1>1. db[d] \in Database /\ db' = [db EXCEPT ![d] = db[d]]
  BY LocalFacts
<1>2. Grows(d, db[d])
  <2>1. Covers(db[d])
    BY DEF ClocksCover
  <2> QED
    BY <1>1, <2>1, SameGrows
<1> QED
  BY <1>1, <1>2, GrowStep

\* Merging the mutation at a log position covers it.
LEMMA ApplyCovers ==
  ASSUME NEW r \in Database, log \in Seq(MutationSet), Sound(r), Covers(r),
         NEW q \in 1 .. Len(log)
  PROVE  LET a == ApplyMutation(r, log[q])
         IN  /\ a \in Database /\ Covers(a)
             /\ a.mutations = r.mutations /\ a.received = r.received
             /\ Covered(a.clock, log[q].key)
<1> DEFINE a == ApplyMutation(r, log[q])
<1>1. log[q] \in MutationSet
  OBVIOUS
<1>2. a \in Database /\ a.clock = Observe(r.clock, ReadingOf(log[q].key))
  BY <1>1, ApplyType, ApplyObserves
<1>3. a.mutations = r.mutations /\ a.received = r.received
  BY <1>1, ApplyKeepsBookkeeping DEF Bookkeeping
<1> HIDE DEF a
<1>4. r.clock \in Clock /\ ReadingOf(log[q].key) \in Clock
  BY <1>1, MutationKey DEF Database
<1>5. ~ClockBefore(a.clock, r.clock) /\ Covered(a.clock, log[q].key)
  BY <1>2, <1>4, ObserveForward DEF Covered
<1>6. Covers(a)
  BY <1>2, <1>3, <1>5, LaterCovers DEF Sound
<1> QED
  BY <1>2, <1>3, <1>5, <1>6 DEF a

\* The steps of a transaction.
LEMMA TransactionClock ==
  ASSUME IInv, ClocksCover, NEW d \in Device, DrainStep(d) \/ PageStep(d)
  PROVE  ClocksCover' /\ RecordsNewest
<1> USE LocalFacts
<1> DEFINE o == open[d]
<1>1. o \in Transaction /\ SoundTransaction(d, db[d], pull[d], o)
  BY DEF DrainStep, PageStep
<1>2. /\ o.work \in Database /\ Sound(o.work)
      /\ Covers(o.work) /\ o.work.mutations = db[d].mutations
  BY <1>1 DEF Transaction, SoundTransaction, ClocksCover, DrainStep, PageStep
<1>3. o # None /\ UNCHANGED <<db, log>>
  BY DEF DrainStep, PageStep
<1>4. IInv'
  BY DrainInv, PageInv
<1>5. CASE DrainStep(d)
  <2>1. PICK q \in NextUp(d) :
          open' = [open EXCEPT
                    ![d].work = [ApplyMutation(open[d].work, log[q]) EXCEPT !.deferred = @ \ {q}],
                    ![d].drained = TRUE]
    BY <1>5 DEF DrainStep
  <2>2. q \in 1 .. Len(log)
    <3>1. q \in o.work.deferred
      BY <1>5 DEF DrainStep, NextUp, Drainable
    <3> QED
      BY <1>2, <3>1 DEF Sound
  <2> DEFINE a    == ApplyMutation(o.work, log[q])
             work == [a EXCEPT !.deferred = @ \ {q}]
             n    == [o EXCEPT !.work = work, !.drained = TRUE]
  <2>3. /\ a \in Database /\ Covers(a)
        /\ a.mutations = o.work.mutations /\ a.received = o.work.received
    BY <1>2, <2>2, ApplyCovers
  <2> HIDE DEF a
  <2>4. /\ work \in Database
        /\ work.mutations = a.mutations /\ work.received = a.received /\ work.clock = a.clock
    BY <2>3 DEF Database
  <2>5. open' = [open EXCEPT ![d] = n]
    BY <2>1 DEF a, IInv, SyncTypes
  <2> HIDE DEF work
  <2>6. n \in Transaction /\ n.work = work
    BY <1>1, <2>4 DEF Transaction
  <2> HIDE DEF n
  <2>7. Covers(n.work) /\ n.work.mutations = db[d].mutations
    BY <1>2, <2>3, <2>4, <2>6 DEF Covers
  <2> QED
    BY <1>3, <2>5, <2>6, <2>7, StillStep
<1>6. CASE PageStep(d)
  <2>1. PICK q \in NextUp(d) :
          open' = [open EXCEPT ![d].work = Received(d, @, q), ![d].next = q + 1]
    BY <1>6 DEF PageStep
  <2>2. q = o.next /\ q <= pull[d][o.worker].to /\ pull[d][o.worker].stage = "page"
    BY <1>6 DEF PageStep, NextUp
  <2>3. q \in 1 .. Len(log)
    <3>1. /\ o.worker \in Worker(d) /\ o.next \in Nat /\ 0 < o.next
          /\ pull[d][o.worker].to \in Nat /\ pull[d][o.worker].to <= Len(log)
      BY <1>1, <2>2 DEF SoundTransaction, SoundPulls, Transaction, Pull
    <3> QED
      BY <2>2, <3>1, SMTT(30)
  <2> DEFINE a    == IF AlreadyLocal(d, log[q]) THEN o.work ELSE ApplyMutation(o.work, log[q])
             held == /\ ~AlreadyLocal(d, log[q])
                     /\ q \notin o.work.received
                     /\ Outcome(o.work, log[q]) = "deferred"
             work == [a EXCEPT !.received = @ \cup {q},
                               !.deferred = IF held THEN @ \cup {q} ELSE @]
             n    == [o EXCEPT !.work = work, !.next = q + 1]
  <2>4. /\ a \in Database /\ Covers(a)
        /\ a.mutations = o.work.mutations /\ a.received = o.work.received
        /\ Covered(a.clock, log[q].key)
    <3>1. CASE AlreadyLocal(d, log[q])
      <4>1. PICK c \in Device : \E i \in 1 .. Len(db[c].mutations) : log[q] = db[c].mutations[i]
        BY <2>3 DEF ClocksCover
      <4>2. PICK i \in 1 .. Len(db[c].mutations) : log[q] = db[c].mutations[i]
        BY <4>1
      <4>3. db[c].mutations[i].key.device = c
        BY <4>2 DEF ClocksCover
      <4>4. c = d
        BY <3>1, <4>2, <4>3 DEF AlreadyLocal
      <4>5. Covered(o.work.clock, log[q].key)
        BY <1>2, <4>2, <4>4 DEF Covers
      <4> QED
        BY <1>2, <3>1, <4>5
    <3>2. CASE ~AlreadyLocal(d, log[q])
      BY <1>2, <2>3, <3>2, ApplyCovers
    <3> QED
      BY <3>1, <3>2
  <2>5. open' = [open EXCEPT ![d] = n]
    BY <2>1 DEF Received, IInv, SyncTypes
  <2> HIDE DEF a, held
  <2>6. /\ work.mutations = a.mutations /\ work.received = a.received \cup {q}
        /\ work.clock = a.clock
    BY <2>4 DEF Database
  <2> HIDE DEF work
  <2>7. n.work = work
    BY <1>1 DEF Transaction
  <2> HIDE DEF n
  <2>8. Covers(n.work) /\ n.work.mutations = db[d].mutations
    BY <1>2, <2>4, <2>6, <2>7 DEF Covers
  <2>9. n \in Transaction \cup {None}
    <3>1. open'[d] = n /\ open'[d] \in Transaction \cup {None}
      BY <1>4, <2>5 DEF IInv, SyncTypes
    <3> QED
      BY <3>1
  <2> QED
    BY <1>3, <2>5, <2>8, <2>9, StillStep
<1> QED
  BY <1>5, <1>6

\* A transaction begins, commits or rolls back.
LEMMA BoundaryClock ==
  ASSUME IInv, ClocksCover, NEW d \in Device,
         \/ \E w \in Worker(d) : BeginDrain(d, w) \/ BeginPage(d, w)
         \/ CommitDrain(d) \/ CommitPage(d) \/ AbortTransaction(d)
  PROVE  ClocksCover' /\ RecordsNewest
<1> USE LocalFacts
<1>1. Covers(db[d])
  BY DEF ClocksCover
<1>2. IInv'
  BY BeginInv, CommitInv
<1>3. CASE \E w \in Worker(d) : BeginDrain(d, w) \/ BeginPage(d, w)
  <2>1. PICK o : o.work = db[d] /\ open' = [open EXCEPT ![d] = o] /\ UNCHANGED <<db, log>>
    BY <1>3 DEF BeginDrain, BeginPage
  <2>2. o \in Transaction \cup {None}
    BY <1>2, <2>1 DEF IInv, SyncTypes
  <2> QED
    BY <1>1, <2>1, <2>2, StillStep
<1>4. CASE AbortTransaction(d)
  BY <1>4, StillStep DEF AbortTransaction
<1>5. CASE CommitDrain(d) \/ CommitPage(d)
  <2> DEFINE o == open[d]
  <2>1. o # None /\ open' = [open EXCEPT ![d] = None] /\ log' = log
    BY <1>5 DEF CommitDrain, CommitPage
  <2>2. o \in Transaction /\ o.work \in Database
    BY <2>1 DEF Transaction
  <2>3. Covers(o.work) /\ o.work.mutations = db[d].mutations
    BY <2>1 DEF ClocksCover
  <2>4. PICK r : /\ db' = [db EXCEPT ![d] = r]
                 /\ r.mutations = o.work.mutations /\ r.received = o.work.received
                 /\ r.clock = o.work.clock
    <3>1. CASE CommitDrain(d)
      BY <3>1 DEF CommitDrain
    <3>2. CASE CommitPage(d)
      <4> DEFINE n == [o.work EXCEPT !.cursor = CursorAfter(d)]
      <4>1. db' = [db EXCEPT ![d] = n]
        BY <3>2 DEF CommitPage
      <4>2. /\ n.mutations = o.work.mutations /\ n.received = o.work.received
            /\ n.clock = o.work.clock
        BY <2>2 DEF Database
      <4> HIDE DEF n
      <4> QED
        BY <4>1, <4>2
    <3> QED
      BY <1>5, <3>1, <3>2
  <2>5. r \in Database
    BY <1>2, <2>4 DEF IInv, SyncTypes
  <2>6. Covers(r) /\ r.mutations = db[d].mutations
    BY <2>3, <2>4 DEF Covers
  <2>7. Grows(d, r)
    BY <2>5, <2>6, SameGrows
  <2> QED
    BY <2>1, <2>4, <2>5, <2>7, GrowStep
<1> QED
  BY <1>3, <1>4, <1>5

\* A mutation of the outbox reaches the log.
LEMMA PushClock ==
  ASSUME IInv, ClocksCover, NEW d \in Device, Push(d)
  PROVE  ClocksCover' /\ RecordsNewest
<1> USE LocalFacts
<1> DEFINE i == db[d].uploaded + 1
           m == db[d].mutations[i]
<1>1. db[d] \in Database /\ db[d].uploaded \in Nat /\ db[d].mutations \in Seq(MutationSet)
  BY DEF Database
<1>2. i \in 1 .. Len(db[d].mutations)
  <2>1. Len(db[d].mutations) \in Nat /\ db[d].uploaded < Len(db[d].mutations)
    BY <1>1 DEF Push, Recorded
  <2> QED
    BY ONLY <1>1, <2>1
<1>3. m \in MutationSet
  BY ONLY <1>1, <1>2
<1>4. log' = Append(log, m) /\ UNCHANGED open /\ db' = [db EXCEPT ![d].uploaded = @ + 1]
  BY DEF Push
<1> HIDE DEF m
<1>5. /\ Len(log') = Len(log) + 1
      /\ log'[Len(log) + 1] = m
      /\ \A p \in 1 .. Len(log) : log'[p] = log[p]
  BY <1>3, <1>4
<1>6. \A c \in Device : /\ db'[c].mutations = db[c].mutations /\ db'[c].received = db[c].received
                        /\ db'[c].clock = db[c].clock
  <2>1. db'[d] = [db[d] EXCEPT !.uploaded = @ + 1]
    BY <1>4 DEF IInv, SyncTypes
  <2>2. \A c \in Device : c # d => db'[c] = db[c]
    BY <1>4 DEF IInv, SyncTypes
  <2>3. /\ db'[d].mutations = db[d].mutations /\ db'[d].received = db[d].received
        /\ db'[d].clock = db[d].clock
    BY <1>1, <2>1 DEF Database
  <2> QED
    BY ONLY <2>2, <2>3
<1>7. ASSUME NEW r, r.received \subseteq 1 .. Len(log), Covers(r)
      PROVE  \A p \in r.received : Covered(r.clock, log'[p].key)
  BY <1>5, <1>7 DEF Covers
<1>8. ASSUME NEW c \in Device
      PROVE  /\ Covers(db[c])'
             /\ \A k \in 1 .. Len(db'[c].mutations) : db'[c].mutations[k].key.device = c
             /\ open'[c] # None => Covers(open[c].work)' /\ open'[c].work.mutations = db'[c].mutations
  <2>1. /\ Covers(db[c])
        /\ \A k \in 1 .. Len(db[c].mutations) : db[c].mutations[k].key.device = c
        /\ open[c] # None => Covers(open[c].work) /\ open[c].work.mutations = db[c].mutations
    BY DEF ClocksCover
  <2>2. db[c].received \subseteq 1 .. Len(log)
    BY DEF Sound
  <2>3. open[c] # None => open[c].work.received \subseteq 1 .. Len(log)
    BY DEF SoundTransaction, Sound
  <2>4. Covers(db[c])'
    BY <1>6, <1>7, <2>1, <2>2 DEF Covers
  <2>5. open[c] # None => Covers(open[c].work)'
    BY <1>4, <1>7, <2>1, <2>3 DEF Covers
  <2> QED
    BY <1>4, <1>6, <2>1, <2>4, <2>5
<1>9. ASSUME NEW p \in 1 .. Len(log')
      PROVE  \E c \in Device : \E k \in 1 .. Len(db'[c].mutations) : log'[p] = db'[c].mutations[k]
  <2>1. CASE p \in 1 .. Len(log)
    <3>1. \E c \in Device : \E k \in 1 .. Len(db[c].mutations) : log[p] = db[c].mutations[k]
      BY <2>1 DEF ClocksCover
    <3>2. log'[p] = log[p]
      BY <1>5, <2>1
    <3> QED
      BY ONLY <1>6, <3>1, <3>2
  <2>2. CASE p \notin 1 .. Len(log)
    <3>1. log'[p] = m
      <4>1. Len(log) \in Nat
        OBVIOUS
      <4>2. p = Len(log) + 1
        BY ONLY <1>5, <2>2, <4>1, p \in 1 .. Len(log')
      <4> QED
        BY <1>5, <4>2
    <3>2. i \in 1 .. Len(db'[d].mutations) /\ db'[d].mutations[i] = m
      BY <1>2, <1>6 DEF m
    <3> HIDE DEF i
    <3> QED
      BY ONLY <3>1, <3>2, d \in Device
  <2> QED
    BY <2>1, <2>2
<1>10. ClocksCover'
  BY <1>8, <1>9 DEF ClocksCover
<1>11. RecordsNewest
  <2>1. \A c \in Device : Recorded(c)' = Recorded(c) /\ Recorded(c) \in Nat
    BY <1>6 DEF Recorded, Database
  <2> QED
    BY <2>1 DEF RecordsNewest
<1> QED
  BY <1>10, <1>11

\* Downloads, stops, upgrades, and steps that change no database.
LEMMA OtherClock ==
  ASSUME IInv, ClocksCover, NEW d \in Device,
         \/ \E w \in Worker(d) : StartPull(d, w) \/ Fetch(d, w) \/ DownloadFails(d, w)
         \/ Crash(d) \/ Upgrade(d) \/ UNCHANGED vars
  PROVE  ClocksCover' /\ RecordsNewest
<1> USE LocalFacts
<1>1. open[d] # None => Covers(open[d].work) /\ open[d].work.mutations = db[d].mutations
  BY DEF ClocksCover
<1>2. open = [open EXCEPT ![d] = open[d]] /\ open[d] \in Transaction \cup {None}
  BY DEF IInv, SyncTypes
<1>3. CASE UNCHANGED <<db, open, log>>
  BY <1>1, <1>2, <1>3, StillStep
<1>4. CASE Crash(d)
  BY <1>4, StillStep DEF Crash
<1>5. CASE Upgrade(d)
  <2> DEFINE r == [db[d] EXCEPT !.upgraded = TRUE]
  <2>1. r \in Database /\ r.mutations = db[d].mutations /\ r.received = db[d].received
          /\ r.clock = db[d].clock
    <3>1. db[d] \in Database
      OBVIOUS
    <3> QED
      BY ONLY <3>1 DEF Database
  <2>2. db' = [db EXCEPT ![d] = r] /\ open[d] = None /\ UNCHANGED <<open, log>>
    BY <1>5 DEF Upgrade
  <2> HIDE DEF r
  <2>3. Covers(r)
    BY <2>1 DEF ClocksCover, Covers
  <2>4. Grows(d, r)
    BY <2>1, <2>3, SameGrows
  <2>5. open' = [open EXCEPT ![d] = None]
    BY <1>2, <2>2
  <2> QED
    BY <2>1, <2>2, <2>4, <2>5, GrowStep
<1> QED
  BY <1>3, <1>4, <1>5 DEF StartPull, Fetch, DownloadFails, vars

LEMMA NextClock == IInv /\ ClocksCover /\ [Next]_vars => ClocksCover' /\ RecordsNewest
<1> SUFFICES ASSUME IInv, ClocksCover, [Next]_vars PROVE ClocksCover' /\ RecordsNewest
  OBVIOUS
<1>1. CASE UNCHANGED vars
  <2>1. CASE Device = {}
    <3>1. log = << >>
      BY <2>1 DEF IInv, SyncTypes, ClocksCover
    <3> QED
      BY <1>1, <2>1 DEF vars, ClocksCover, RecordsNewest
  <2>2. CASE Device # {}
    BY <1>1, <2>2, OtherClock
  <2> QED
    BY <2>1, <2>2
<1>2. ASSUME NEW d \in Device,
             \/ Edit(d) \/ Push(d) \/ PullRuns(d) \/ Crash(d) \/ Upgrade(d)
             \/ \E w \in Worker(d) : DownloadFails(d, w)
      PROVE  ClocksCover' /\ RecordsNewest
  BY <1>2, EditClock, PushClock, TransactionClock, BoundaryClock, OtherClock DEF PullRuns
<1> QED
  BY <1>1, <1>2 DEF Next

LEMMA InitClock == Init => ClocksCover
<1> SUFFICES ASSUME Init PROVE ClocksCover
  OBVIOUS
<1>1. EmptyDatabase.mutations = << >> /\ EmptyDatabase.received = {}
  BY DEF EmptyDatabase
<1>2. Len(<< >>) = 0
  OBVIOUS
<1> QED
  BY <1>1, <1>2 DEF Init, ClocksCover, Covers

\* What a student records is newer than everything the computer had written or
\* merged, for any number of computers, whatever their wall clocks read.
THEOREM EditsAreNewest == Spec => EditIsNewest
<1>1. Init => IInv /\ ClocksCover
  BY InitInv, InitClock
<1>2. IInv /\ ClocksCover /\ [Next]_vars => (IInv /\ ClocksCover)'
  BY NextInv, NextClock
<1>3. IInv /\ ClocksCover /\ [Next]_vars =>
        [\A d \in Device : Recorded(d)' > Recorded(d) =>
           \A m \in Known(db[d]) : Before(m.key, db'[d].mutations[Recorded(d)'].key)]_vars
  BY NextClock DEF RecordsNewest
<1> QED
  BY <1>1, <1>2, <1>3, PTL DEF Spec, EditIsNewest
=============================================================================
