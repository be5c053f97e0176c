-------------------------- MODULE MergeContentProofs --------------------------
(***************************************************************************)
(* What the merge makes of the mutations, whatever their order of arrival: *)
(* registers, set elements, rows and conflicts, on every computer and in   *)
(* every transaction, for any computers, records, clocks and bounds.       *)
(***************************************************************************)
EXTENDS CanonicalMergeProofs, WellFoundedInduction

USE MaxCounterAssumption, RecordAssumption, BoundAssumption

-----------------------------------------------------------------------------
(* The invariants *)

\* What is held back is of a type an older build could not map, and was
\* written on another computer.
HeldBack(d, r) ==
  \A p \in r.deferred : log[p].entity \in Unmapped /\ log[p].key.device # d

\* A pull downloads nothing before all that was held back is merged.
Drained(d) ==
  /\ db[d].upgraded /\ (\E w \in Worker(d) : pull[d][w].stage \in {"fetch", "page"}) =>
       db[d].deferred = {}
  /\ open[d] # None =>
       /\ open[d].work.upgraded = db[d].upgraded
       /\ open[d].work.uploaded = db[d].uploaded
       /\ db[d].upgraded => open[d].work.deferred \subseteq db[d].deferred

DrainedFirst == \A d \in Device : Drained(d)

\* A register is the key of the newest merged mutation of its record.
Registers(r) ==
  \A e \in Entity :
    /\ r.version[e] = NoKey \/ \E m \in MergedBy(r) : m.entity = e /\ m.key = r.version[e]
    /\ \A m \in MergedBy(r) : m.entity = e => AtMost(m.key, r.version[e])

\* A set element is what the newest known mutation of it says.
Touches(m, t, x) == m.entity = t /\ x \in m.added \cup m.removed

Says(known, t, x, element) ==
  \/ element = NoElement /\ \A m \in known : ~Touches(m, t, x)
  \/ \E m \in known :
       /\ Touches(m, t, x)
       /\ \A n \in known : Touches(n, t, x) => AtMost(n.key, m.key)
       /\ element = [key |-> m.key, live |-> x \in m.added]

Elements(r) == \A t \in Task, x \in Task : Says(Known(r), t, x, r.elements[t][x])

\* The newest merged mutations of a record (one, as no two keys are equal).
Newest(r, e) == {m \in MergedBy(r) : m.entity = e /\ m.key = r.version[e]}

\* A row has the newest value, and its date or a conflict about it.
Values(r) ==
  \A e \in Entity \ LocalOnly :
    Exists(r, e) =>
      /\ r.version[e] # NoKey
      /\ \A m \in Newest(r, e) : m.snapshot # None => m.snapshot.value = r.rows[e].value

Flagged(r) ==
  \A e \in Task \cup Dated :
    Exists(r, e) =>
      \A m \in Newest(r, e) :
        m.snapshot # None /\ m.snapshot.date # r.rows[e].date =>
          \E c \in r.conflicts : c.entity = e /\ c.by = m.key

\* A plain record is what the newest mutation says.
PlainRow(row) == row = None \/ (row.date = DefaultDate /\ ~row.done)

PlainRows(r) ==
  /\ \A c \in r.conflicts : c.entity \in Task \cup Dated
  /\ \A e \in Entity \ (Task \cup Dated) : PlainRow(r.rows[e])
  /\ \A m \in Known(r) : m.entity \notin Task \cup Dated => PlainRow(m.snapshot)

LastWritten(r) ==
  \A e \in Plain : 
    /\ r.version[e] = NoKey => r.rows[e] = None
    /\ \A m \in Newest(r, e) : r.rows[e] = m.snapshot

\* Foreign keys hold in one database.
ForeignKeys(r) ==
  /\ \A e \in Entity : Exists(r, e) /\ Parent[e] # None => Exists(r, Parent[e])
  /\ \A t \in Task : \A x \in r.deps[t] : Exists(r, t) /\ Exists(r, x)

\* A computer's own mutations have ever greater keys.
OwnOrder(r) ==
  \A i, j \in 1 .. Len(r.mutations) : i < j => Before(r.mutations[i].key, r.mutations[j].key)

\* The log has each computer's uploaded mutations, each of them once.
UploadedOnce ==
  /\ \A d \in Device : \A i \in 1 .. db[d].uploaded : \E p \in 1 .. Len(log) : log[p] = db[d].mutations[i]
  /\ \A p \in 1 .. Len(log) : \E d \in Device : \E i \in 1 .. db[d].uploaded : log[p] = db[d].mutations[i]
  /\ \A p, q \in 1 .. Len(log) : log[p].key = log[q].key => p = q

\* A page merges no completion away.
KeepsCompletions(r, q) ==
  \A t \in Task : Exists(r, t) /\ r.rows[t].done => Exists(q, t) /\ q.rows[t].done

CompletionsStay ==
  \A d \in Device : open[d] # None => KeepsCompletions(db[d], open[d].work)


-----------------------------------------------------------------------------
(* The order of keys *)

\* Keys are ordered by their parts, and a computer's number is not zero.
LEMMA KeyParts ==
  ASSUME NEW k \in Key(Device) \cup {NoKey}
  PROVE  /\ k.physical \in Nat /\ k.counter \in Nat /\ k.device \in Nat
         /\ k = [physical |-> k.physical, counter |-> k.counter, device |-> k.device]
         /\ k = NoKey <=> k.device = 0
<1>1. CASE k = NoKey
  BY <1>1 DEF NoKey
<1>2. CASE k \in Key(Device)
  <2>1. k.device \in Device /\ k.device \in Nat /\ k.device # 0
    BY <1>2 DEF Key
  <2>2. k # NoKey
    BY <2>1 DEF NoKey
  <2> QED
    BY <1>2, <2>1, <2>2 DEF Key
<1> QED
  BY <1>1, <1>2

\* The order is total, and NoKey comes before every key.
LEMMA KeyOrder ==
  ASSUME NEW a \in Key(Device) \cup {NoKey}, NEW b \in Key(Device) \cup {NoKey},
         NEW c \in Key(Device) \cup {NoKey}
  PROVE  /\ AtMost(a, b) \/ Before(b, a)
         /\ AtMost(a, b) /\ AtMost(b, a) => a = b
         /\ Before(a, b) => ~AtMost(b, a)
         /\ AtMost(a, b) /\ AtMost(b, c) => AtMost(a, c)
         /\ b # NoKey => Before(NoKey, b) /\ ~AtMost(b, NoKey)
<1>1. /\ a.physical \in Nat /\ a.counter \in Nat /\ a.device \in Nat
      /\ b.physical \in Nat /\ b.counter \in Nat /\ b.device \in Nat
      /\ c.physical \in Nat /\ c.counter \in Nat /\ c.device \in Nat
  BY KeyParts
<1>2. a.physical = b.physical /\ a.counter = b.counter /\ a.device = b.device => a = b
  <2>1. /\ a = [physical |-> a.physical, counter |-> a.counter, device |-> a.device]
        /\ b = [physical |-> b.physical, counter |-> b.counter, device |-> b.device]
    BY KeyParts
  <2> QED
    BY ONLY <2>1
<1>3. ~Before(a, a) /\ ~(Before(a, b) /\ Before(b, a))
  BY ONLY <1>1 DEF Before, ClockBefore
<1>4. Before(a, b) \/ Before(b, a) \/ a = b
  BY ONLY <1>1, <1>2 DEF Before, ClockBefore
<1>5. Before(a, b) /\ Before(b, c) => Before(a, c)
  BY ONLY <1>1 DEF Before, ClockBefore
<1>6. b # NoKey => Before(NoKey, b) /\ ~Before(b, NoKey)
  <2>1. /\ NoKey.physical = 0 /\ NoKey.counter = 0 /\ NoKey.device = 0
        /\ b = NoKey <=> b.device = 0
    BY KeyParts DEF NoKey
  <2> QED
    BY ONLY <1>1, <2>1 DEF Before, ClockBefore
<1> QED
  BY ONLY <1>3, <1>4, <1>5, <1>6 DEF AtMost

\* A mutation has a key of its own, which is not NoKey.
LEMMA MutationParts ==
  ASSUME NEW m \in MutationSet
  PROVE  /\ m.key \in Key(Device) /\ m.key # NoKey
         /\ m.entity \in Entity /\ m.snapshot \in Row \cup {None}
         /\ m.added \subseteq Task /\ m.removed \subseteq Task
<1>1. m.key \in Key(Device) /\ m.key.device # 0
  BY DEF MutationSet, Key
<1> QED
  BY <1>1 DEF MutationSet, NoKey

-----------------------------------------------------------------------------
(* What the operators change *)

\* A mutation says of a task's prerequisites what its set elements do not.
Tells(m, e, deps, elements) ==
  \A x \in deps : IF elements[x].live THEN ~Touches(m, e, x) ELSE x \in m.added

\* A recorded change: one mutation of this row, and its register and elements.
RecordsRow(d, e, r, q, m) ==
  /\ m.entity = e /\ m.snapshot = r.rows[e] /\ m.key.device = d
  /\ e \in Task /\ Exists(r, e) => Tells(m, e, r.deps[e], r.elements[e])
  /\ q.mutations = Append(r.mutations, m)
  /\ q.version = [r.version EXCEPT ![e] = m.key]
  /\ \A t \in Task, x \in Task :
       q.elements[t][x] = IF Touches(m, t, x) /\ AtMost(r.elements[t][x].key, m.key)
                          THEN [key |-> m.key, live |-> x \in m.added]
                          ELSE r.elements[t][x]

\* What recording leaves alone.
Unrecorded(r) == <<r.rows, r.deps, r.conflicts, r.uploaded, r.received, r.deferred, r.upgraded>>

LEMMA RecordEffect ==
  ASSUME NEW r \in Database, NEW d \in Device, NEW e \in Entity, NEW now \in Nat
  PROVE  LET q == Record(r, d, e, now)
         IN  /\ q \in Database
             /\ Unrecorded(q) = Unrecorded(r)
             /\ e \in LocalOnly => /\ q.mutations = r.mutations /\ q.version = r.version
                                   /\ q.elements = r.elements
             /\ e \notin LocalOnly => \E m \in MutationSet : RecordsRow(d, e, r, q, m)
<1> DEFINE clock    == Tick(r.clock, now)
           key      == KeyOf(clock, d)
           incoming == IF e \in Task /\ Exists(r, e) THEN r.deps[e] ELSE {}
           current  == IF e \in Task THEN LiveElements(r, e) ELSE {}
           changed  == (incoming \ current) \cup (current \ incoming)
           m        == [key |-> key, entity |-> e, snapshot |-> r.rows[e],
                        linked |-> e \in r.links,
                        added |-> incoming \ current, removed |-> current \ incoming]
           elements == [t \in Task |-> [x \in Task |->
                          IF t = e /\ x \in changed /\ AtMost(r.elements[t][x].key, key)
                          THEN [key |-> key, live |-> x \in incoming]
                          ELSE r.elements[t][x]]]
           q        == Record(r, d, e, now)
<1>1. q \in Database
  BY RecordType
<1>2. e \in LocalOnly => q = [r EXCEPT !.clock = clock]
  BY DEF Record
<1>3. e \notin LocalOnly =>
        q = [r EXCEPT !.clock = clock, !.version = [@ EXCEPT ![e] = key],
                      !.mutations = Append(@, m), !.elements = elements]
  BY DEF Record
<1>4. m \in MutationSet
  <2>1. r.clock \in Clock /\ r.deps \in [Task -> SUBSET Task] /\ r.rows[e] \in Row \cup {None}
    BY DEF Database
  <2>2. key \in Key(Device)
    BY <2>1, ClockType, KeyType
  <2>3. incoming \subseteq Task /\ current \subseteq Task
    BY <2>1 DEF LiveElements
  <2> HIDE DEF key, incoming, current
  <2> QED
    BY <2>1, <2>2, <2>3 DEF MutationSet
<1>5. m.entity = e /\ m.snapshot = r.rows[e] /\ m.key = key /\ key.device = d
      /\ m.added = incoming \ current /\ m.removed = current \ incoming
  BY DEF KeyOf
<1>6. \A t \in Task, x \in Task :
        elements[t][x] = IF Touches(m, t, x) /\ AtMost(r.elements[t][x].key, m.key)
                         THEN [key |-> m.key, live |-> x \in m.added]
                         ELSE r.elements[t][x]
  <2> SUFFICES ASSUME NEW t \in Task, NEW x \in Task
               PROVE  elements[t][x] = IF Touches(m, t, x) /\ AtMost(r.elements[t][x].key, m.key)
                                       THEN [key |-> m.key, live |-> x \in m.added]
                                       ELSE r.elements[t][x]
    OBVIOUS
  <2>1. elements[t][x] = IF t = e /\ x \in changed /\ AtMost(r.elements[t][x].key, key)
                         THEN [key |-> key, live |-> x \in incoming]
                         ELSE r.elements[t][x]
    OBVIOUS
  <2>2. Touches(m, t, x) <=> t = e /\ x \in changed
    BY <1>5 DEF Touches
  <2>3. t = e /\ x \in changed /\ ~(x \in incoming \ current) => x \notin incoming
    OBVIOUS
  <2>4. x \in incoming \ current => x \in incoming
    OBVIOUS
  <2> HIDE DEF m, elements, key, changed, incoming, current
  <2>5. t = e /\ x \in changed => (x \in incoming <=> x \in m.added)
    BY <1>5, <2>3, <2>4
  <2> QED
    <3>1. CASE t = e /\ x \in changed
      BY ONLY <1>5, <2>1, <2>2, <2>5, <3>1
    <3>2. CASE ~(t = e /\ x \in changed)
      BY ONLY <2>1, <2>2, <3>2
    <3> QED
      BY ONLY <3>1, <3>2
<1>9. e \in Task /\ Exists(r, e) => Tells(m, e, r.deps[e], r.elements[e])
  <2> SUFFICES ASSUME e \in Task, Exists(r, e), NEW x \in r.deps[e]
               PROVE  IF r.elements[e][x].live THEN ~Touches(m, e, x) ELSE x \in m.added
    BY DEF Tells
  <2>1. incoming = r.deps[e] /\ current = LiveElements(r, e) /\ x \in Task
    BY DEF Database
  <2>2. x \in current <=> r.elements[e][x].live
    BY <2>1 DEF LiveElements
  <2> HIDE DEF m, incoming, current
  <2> QED
    BY <1>5, <2>1, <2>2 DEF Touches
<1> HIDE DEF clock, key, m, elements
<1>7. CASE e \in LocalOnly
  BY <1>1, <1>2, <1>7 DEF Unrecorded, Database
<1>8. CASE e \notin LocalOnly
  <2>1. /\ Unrecorded(q) = Unrecorded(r)
        /\ q.mutations = Append(r.mutations, m)
        /\ q.version = [r.version EXCEPT ![e] = m.key] /\ q.elements = elements
    <3>1. q.mutations = Append(r.mutations, m) /\ q.version = [r.version EXCEPT ![e] = m.key]
      BY <1>3, <1>5, <1>8 DEF Database
    <3>2. q.elements = elements
      BY <1>3, <1>8 DEF Database
    <3>3. Unrecorded(q) = Unrecorded(r)
      BY <1>3, <1>8 DEF Unrecorded, Database
    <3> QED
      BY <3>1, <3>2, <3>3
  <2>2. RecordsRow(d, e, r, q, m)
    BY <1>5, <1>6, <1>9, <2>1 DEF RecordsRow
  <2> QED
    BY <1>1, <1>4, <1>8, <2>1, <2>2
<1> QED
  BY <1>7, <1>8

\* Rebuilding dependency rows and deleting a row keep what is not a row.
Unmerged(r) == <<r.version, r.elements, r.conflicts, r.upgraded>>

\* The prerequisites of task u once those of t are rebuilt.
Rebuilt(r, q, t, u) ==
  q.deps[u] = IF u = t /\ Exists(q, t)
              THEN {x \in LiveElements(q, t) \ {t} : Exists(q, x)}
              ELSE r.deps[u]

LEMMA RebuildEffect ==
  ASSUME NEW r \in Database, NEW t \in Entity
  PROVE  LET q == RebuildDependencies(r, t)
         IN  /\ q \in Database /\ q.rows = r.rows /\ q.links = r.links
             /\ Unmerged(q) = Unmerged(r)
             /\ \A u \in Task : Rebuilt(r, q, t, u)
<1> DEFINE q == RebuildDependencies(r, t)
<1>1. q \in Database
  BY RebuildType
<1>2. CASE t \in Task /\ Exists(r, t)
  <2> DEFINE deps == {x \in LiveElements(r, t) \ {t} : Exists(r, x)}
  <2>1. q = [r EXCEPT !.deps = [@ EXCEPT ![t] = deps]]
    BY <1>2 DEF RebuildDependencies
  <2>2. /\ q.rows = r.rows /\ q.links = r.links /\ Unmerged(q) = Unmerged(r)
        /\ q.deps = [r.deps EXCEPT ![t] = deps]
    BY <2>1 DEF Unmerged, Database
  <2>3. r.deps \in [Task -> SUBSET Task]
    BY DEF Database
  <2> HIDE DEF q
  <2>4. LiveElements(q, t) = LiveElements(r, t) /\ \A x \in Entity : Exists(q, x) <=> Exists(r, x)
    BY <2>2 DEF Unmerged, LiveElements, Exists
  <2>5. \A u \in Task : Rebuilt(r, q, t, u)
    BY <1>2, <2>2, <2>3, <2>4 DEF Rebuilt, LiveElements
  <2> QED
    BY <1>1, <2>2, <2>5 DEF q
<1>3. CASE ~(t \in Task /\ Exists(r, t))
  <2>1. q = r
    BY <1>3 DEF RebuildDependencies
  <2> QED
    BY <1>3, <2>1 DEF Rebuilt
<1> QED
  BY <1>2, <1>3

LEMMA DeleteEffect ==
  ASSUME NEW r \in Database, NEW e \in Entity
  PROVE  LET q == DeleteRow(r, e)
         IN  /\ q \in Database /\ Unmerged(q) = Unmerged(r)
             /\ \A x \in Entity : q.rows[x] = IF x = e \/ Parent[x] = e THEN None ELSE r.rows[x]
             /\ \A t \in Task : q.deps[t] \subseteq r.deps[t]
<1>1. DeleteRow(r, e) \in Database
  BY DeleteRowType
<1> QED
  BY <1>1 DEF DeleteRow, Unmerged, Database

\* Observing a mutation merges its element changes, the newer one wins.
LEMMA ObservedEffect ==
  ASSUME NEW r \in Database, NEW m \in MutationSet
  PROVE  LET q == Observed(r, m)
         IN  /\ q \in Database
             /\ q.rows = r.rows /\ q.version = r.version /\ q.conflicts = r.conflicts
             /\ q.upgraded = r.upgraded /\ q.links = r.links
             /\ \A t \in Task, x \in Task :
                  q.elements[t][x] = IF Touches(m, t, x) /\ Before(r.elements[t][x].key, m.key)
                                     THEN [key |-> m.key, live |-> x \in m.added]
                                     ELSE r.elements[t][x]
             /\ \A t \in Task : Rebuilt(r, q, m.entity, t)
<1> DEFINE elements == [t \in Task |-> [x \in Task |->
                         IF /\ t = m.entity
                            /\ x \in m.added \cup m.removed
                            /\ Before(r.elements[t][x].key, m.key)
                         THEN [key |-> m.key, live |-> x \in m.added]
                         ELSE r.elements[t][x]]]
           merged == [r EXCEPT !.clock = Observe(@, ReadingOf(m.key)), !.elements = elements]
<1>1. Observed(r, m) = RebuildDependencies(merged, m.entity)
  BY DEF Observed
<1>2. elements \in [Task -> [Task -> Element]]
  <2>1. r.elements \in [Task -> [Task -> Element]]
    BY DEF Database
  <2>2. \A t \in Task, x \in Task : r.elements[t][x] \in Element
    BY <2>1
  <2>3. \A x \in Task : [key |-> m.key, live |-> x \in m.added] \in Element
    BY MutationParts DEF Element
  <2> QED
    BY <2>2, <2>3
<1>3. \A t \in Task, x \in Task :
        elements[t][x] = IF Touches(m, t, x) /\ Before(r.elements[t][x].key, m.key)
                         THEN [key |-> m.key, live |-> x \in m.added]
                         ELSE r.elements[t][x]
  BY DEF Touches
<1> HIDE DEF elements
<1>4. merged \in Database
  BY <1>2, ClockType, MutationKey DEF Database
<1>5. /\ merged.rows = r.rows /\ merged.version = r.version /\ merged.conflicts = r.conflicts
      /\ merged.upgraded = r.upgraded /\ merged.elements = elements
      /\ merged.links = r.links /\ merged.deps = r.deps
  BY DEF Database
<1> HIDE DEF merged
<1>6. m.entity \in Entity
  BY MutationParts
<1> DEFINE q == RebuildDependencies(merged, m.entity)
<1>7. /\ q \in Database /\ q.rows = merged.rows /\ q.links = merged.links
      /\ Unmerged(q) = Unmerged(merged)
      /\ \A t \in Task : Rebuilt(merged, q, m.entity, t)
  BY <1>4, <1>6, RebuildEffect
<1> HIDE DEF q
<1>8. /\ q.version = merged.version /\ q.elements = merged.elements
      /\ q.conflicts = merged.conflicts /\ q.upgraded = merged.upgraded
  BY <1>7 DEF Unmerged
<1>9. q = Observed(r, m)
  BY <1>1 DEF q
<1>10. /\ q.rows = r.rows /\ q.version = r.version /\ q.conflicts = r.conflicts
       /\ q.upgraded = r.upgraded /\ q.elements = elements /\ q.links = r.links
  BY ONLY <1>5, <1>7, <1>8
<1>11. \A t \in Task : Rebuilt(r, q, m.entity, t)
  BY <1>5, <1>7 DEF Rebuilt
<1> QED
  BY ONLY <1>3, <1>7, <1>9, <1>10, <1>11

\* A conflict raised is an open one about the mutation's record and its date.
Asks(r, m, c) ==
  /\ m.entity \in Task \cup Dated
  /\ c.entity = m.entity /\ c.by = m.key /\ ~c.resolved
  /\ c.proposed # r.rows[m.entity].date

LEMMA RaiseEffect ==
  ASSUME NEW r \in Database, NEW m \in MutationSet
  PROVE  LET q == RaiseConflict(r, m)
         IN  /\ q \in Database
             /\ q.rows = r.rows /\ q.deps = r.deps /\ q.version = r.version
             /\ q.elements = r.elements /\ q.upgraded = r.upgraded
             /\ q.links = r.links /\ q.clock = r.clock
             /\ r.conflicts \subseteq q.conflicts
             /\ \A c \in q.conflicts : c \in r.conflicts \/ Asks(r, m, c)
             /\ DateDiffers(r, m) => \E c \in q.conflicts : c.entity = m.entity /\ c.by = m.key
<1> DEFINE c == [entity |-> m.entity, proposed |-> m.snapshot.date, by |-> m.key,
                 resolved |-> FALSE]
           q == RaiseConflict(r, m)
<1>1. q \in Database
  BY RaiseConflictType
<1>2. CASE DateDiffers(r, m)
  <2>1. q = [r EXCEPT !.conflicts = @ \cup {c}]
    BY <1>2 DEF RaiseConflict
  <2>2. Asks(r, m, c)
    BY <1>2 DEF DateDiffers, Asks
  <2> HIDE DEF c
  <2>3. /\ q.rows = r.rows /\ q.deps = r.deps /\ q.version = r.version
        /\ q.elements = r.elements /\ q.upgraded = r.upgraded
        /\ q.links = r.links /\ q.clock = r.clock
        /\ q.conflicts = r.conflicts \cup {c}
    BY <2>1 DEF Database
  <2>4. c.entity = m.entity /\ c.by = m.key
    BY <2>2 DEF Asks
  <2> HIDE DEF q
  <2> QED
    BY <1>1, <2>2, <2>3, <2>4 DEF q
<1>3. CASE ~DateDiffers(r, m)
  <2>1. q = r
    BY <1>3 DEF RaiseConflict
  <2> QED
    BY <1>3, <2>1
<1> QED
  BY <1>2, <1>3

\* What merging does to the rows: the snapshot is written, or the row is
\* deleted with its children unless it is a completed task.
MergesRow(r, q, m) ==
  \/ m.snapshot # None /\ q.rows = [r.rows EXCEPT ![m.entity] = MergedRow(r, m)]
  \/ /\ m.snapshot = None /\ DeletesRow(r, m)
     /\ \A x \in Entity : q.rows[x] = IF x = m.entity \/ Parent[x] = m.entity
                                      THEN None ELSE r.rows[x]
  \/ m.snapshot = None /\ ~DeletesRow(r, m) /\ q.rows = r.rows

\* No prerequisite is new but those the set elements have.
Lives(r, q, t) ==
  q.deps[t] \subseteq LiveElements(q, t) \ {t} \/ q.deps[t] \subseteq r.deps[t]

LEMMA MergedEffect ==
  ASSUME NEW r \in Database, NEW m \in MutationSet
  PROVE  LET q == Merged(r, m)
         IN  /\ q \in Database
             /\ MergesRow(r, q, m)
             /\ q.version = [r.version EXCEPT ![m.entity] = m.key]
             /\ q.elements = r.elements /\ q.upgraded = r.upgraded
             /\ \A t \in Task : Lives(r, q, t)
             /\ r.conflicts \subseteq q.conflicts
             /\ \A c \in q.conflicts : c \in r.conflicts \/ Asks(r, m, c)
             /\ DateDiffers(r, m) => \E c \in q.conflicts : c.entity = m.entity /\ c.by = m.key
<1> DEFINE q       == Merged(r, m)
           dated   == RaiseConflict(r, m)
           placed  == Put(dated, m.entity, MergedRow(r, m), m.linked)
           written == IF m.snapshot # None THEN RebuildDependencies(placed, m.entity)
                      ELSE IF DeletesRow(r, m) THEN DeleteRow(dated, m.entity)
                      ELSE dated
<1>1. /\ dated \in Database /\ dated.rows = r.rows /\ dated.version = r.version
      /\ dated.elements = r.elements /\ dated.upgraded = r.upgraded /\ dated.deps = r.deps
  BY RaiseEffect
<1>2. q \in Database /\ q = [written EXCEPT !.version[m.entity] = m.key]
  BY MergedType DEF Merged
<1>3. m.entity \in Entity
  BY MutationParts
<1> HIDE DEF dated
<1>4. /\ written \in Database
      /\ written.version = r.version /\ written.elements = r.elements
      /\ written.upgraded = r.upgraded /\ written.conflicts = dated.conflicts
      /\ MergesRow(r, written, m)
      /\ \A t \in Task : Lives(r, written, t)
  <2>1. CASE m.snapshot # None
    <3>1. MergedRow(r, m) \in Row
      <4>1. m.snapshot \in Row
        BY <2>1, MutationParts
      <4>2. Exists(r, m.entity) => r.rows[m.entity] \in Row
        BY <1>3 DEF Exists, Database
      <4> QED
        BY <4>1, <4>2 DEF MergedRow, Row
    <3>2. placed \in Database
      BY <1>1, <1>3, <3>1, PutType
    <3>3. /\ placed.rows = [r.rows EXCEPT ![m.entity] = MergedRow(r, m)]
          /\ placed.deps = r.deps
          /\ Unmerged(placed) = Unmerged(dated)
      BY <1>1 DEF Database, Unmerged, Put
    <3> HIDE DEF placed
    <3>4. written = RebuildDependencies(placed, m.entity)
      BY <2>1
    <3>5. /\ written \in Database /\ written.rows = placed.rows
          /\ Unmerged(written) = Unmerged(placed)
          /\ \A t \in Task : Rebuilt(placed, written, m.entity, t)
      BY <1>3, <3>2, <3>4, RebuildEffect
    <3> HIDE DEF written
    <3>6. \A t \in Task : Lives(r, written, t)
      BY <3>3, <3>5 DEF Rebuilt, Lives
    <3> QED
      BY <1>1, <2>1, <3>3, <3>5, <3>6 DEF Unmerged, MergesRow
  <2>2. CASE m.snapshot = None /\ DeletesRow(r, m)
    <3>1. written = DeleteRow(dated, m.entity)
      BY <2>2
    <3> HIDE DEF written
    <3> QED
      BY <1>1, <1>3, <2>2, <3>1, DeleteEffect DEF Unmerged, MergesRow, Lives
  <2>3. CASE m.snapshot = None /\ ~DeletesRow(r, m)
    BY <1>1, <2>3 DEF MergesRow, Lives
  <2> QED
    BY <2>1, <2>2, <2>3
<1> HIDE DEF written
<1>5. /\ q.rows = written.rows /\ q.version = [written.version EXCEPT ![m.entity] = m.key]
      /\ q.elements = written.elements /\ q.upgraded = written.upgraded
      /\ q.conflicts = written.conflicts /\ q.deps = written.deps
  BY <1>2, <1>4 DEF Database
<1>6. MergesRow(r, q, m)
  BY <1>4, <1>5 DEF MergesRow
<1>8. \A t \in Task : Lives(r, q, t)
  BY <1>4, <1>5 DEF Lives, LiveElements
<1>7. /\ r.conflicts \subseteq dated.conflicts
      /\ \A c \in dated.conflicts : c \in r.conflicts \/ Asks(r, m, c)
      /\ DateDiffers(r, m) => \E c \in dated.conflicts : c.entity = m.entity /\ c.by = m.key
  BY RaiseEffect DEF dated
<1> HIDE DEF q
<1> QED
  BY <1>2, <1>4, <1>5, <1>6, <1>7, <1>8 DEF q

\* What merging a mutation changes.
Applies(r, q, m) ==
  /\ q \in Database /\ q.upgraded = r.upgraded
  /\ \A t \in Task, x \in Task :
       q.elements[t][x] = IF Touches(m, t, x) /\ Before(r.elements[t][x].key, m.key)
                          THEN [key |-> m.key, live |-> x \in m.added]
                          ELSE r.elements[t][x]
  /\ Outcome(r, m) # "applied" =>
       /\ q.rows = r.rows /\ q.links = r.links /\ q.version = r.version
       /\ \A t \in Task : Rebuilt(r, q, m.entity, t)
  /\ \A t \in Task :
       \/ q.deps[t] \subseteq LiveElements(q, t) \ {t}
       \/ q.deps[t] \subseteq r.deps[t] /\ (t # m.entity \/ ~Exists(r, t))
  /\ Outcome(r, m) = "applied" =>
       /\ MergesRow(r, q, m)
       /\ q.version = [r.version EXCEPT ![m.entity] = m.key]
       /\ DateDiffers(r, m) => \E c \in q.conflicts : c.entity = m.entity /\ c.by = m.key
  /\ r.conflicts \subseteq q.conflicts
  /\ \A c \in q.conflicts : c \in r.conflicts \/ Asks(r, m, c)

LEMMA ApplyEffect ==
  ASSUME NEW r \in Database, NEW m \in MutationSet
  PROVE  Applies(r, ApplyMutation(r, m), m)
<1> DEFINE seen == Observed(r, m)
           q    == ApplyMutation(r, m)
<1>1. /\ seen \in Database /\ seen.rows = r.rows /\ seen.version = r.version
      /\ seen.conflicts = r.conflicts /\ seen.upgraded = r.upgraded /\ seen.links = r.links
      /\ \A t \in Task, x \in Task :
           seen.elements[t][x] = IF Touches(m, t, x) /\ Before(r.elements[t][x].key, m.key)
                                 THEN [key |-> m.key, live |-> x \in m.added]
                                 ELSE r.elements[t][x]
      /\ \A t \in Task : Rebuilt(r, seen, m.entity, t)
  BY ObservedEffect
<1>2. Outcome(r, m) \in {"superseded", "deferred", "applied"}
  BY DEF Outcome
<1>3. /\ Outcome(r, m) = "superseded" => q = RaiseConflict(seen, m)
      /\ Outcome(r, m) = "deferred" => q = seen
      /\ Outcome(r, m) = "applied" => q = Merged(seen, m)
  BY <1>2 DEF ApplyMutation
<1>4. /\ DateDiffers(seen, m) <=> DateDiffers(r, m)
      /\ \A p : MergesRow(seen, p, m) <=> MergesRow(r, p, m)
      /\ \A c : Asks(seen, m, c) <=> Asks(r, m, c)
  BY <1>1 DEF DateDiffers, Exists, MergesRow, MergedRow, DeletesRow, Asks
<1> HIDE DEF seen, q
<1>5. \A t \in Task : \/ seen.deps[t] \subseteq LiveElements(seen, t) \ {t}
                      \/ seen.deps[t] \subseteq r.deps[t] /\ (t # m.entity \/ ~Exists(r, t))
  <2> TAKE t \in Task
  <2>1. seen.deps[t] = IF t = m.entity /\ Exists(seen, m.entity)
                       THEN {x \in LiveElements(seen, m.entity) \ {m.entity} : Exists(seen, x)}
                       ELSE r.deps[t]
    BY <1>1 DEF Rebuilt
  <2>2. Exists(seen, t) <=> Exists(r, t)
    BY <1>1 DEF Exists
  <2>3. CASE t = m.entity /\ Exists(seen, m.entity)
    <3>1. seen.deps[t] = {x \in LiveElements(seen, m.entity) \ {m.entity} : Exists(seen, x)}
      BY ONLY <2>1, <2>3
    <3>2. \A x \in seen.deps[t] : x \in LiveElements(seen, m.entity) \ {m.entity}
      BY ONLY <3>1
    <3>3. t = m.entity
      BY <2>3
    <3> QED
      BY ONLY <3>2, <3>3
  <2>4. CASE ~(t = m.entity /\ Exists(seen, m.entity))
    <3>1. seen.deps[t] = r.deps[t]
      BY <2>1, <2>4
    <3> QED
      BY <2>2, <2>4, <3>1
  <2> QED
    BY <2>3, <2>4
<1>6. CASE Outcome(r, m) = "superseded"
  <2>1. /\ q \in Database /\ q.rows = seen.rows /\ q.deps = seen.deps
        /\ q.version = seen.version /\ q.elements = seen.elements
        /\ q.upgraded = seen.upgraded /\ q.links = seen.links
        /\ seen.conflicts \subseteq q.conflicts
        /\ \A c \in q.conflicts : c \in seen.conflicts \/ Asks(seen, m, c)
    BY <1>1, <1>3, <1>6, RaiseEffect
  <2>3. /\ \A t \in Task \cup {m.entity} : LiveElements(q, t) = LiveElements(seen, t)
        /\ \A x : Exists(q, x) <=> Exists(seen, x)
    BY <2>1 DEF LiveElements, Exists
  <2>2. ASSUME NEW t \in Task PROVE Rebuilt(r, q, m.entity, t)
    <3>1. q.deps[t] = IF t = m.entity /\ Exists(seen, m.entity)
                      THEN {x \in LiveElements(seen, m.entity) \ {m.entity} : Exists(seen, x)}
                      ELSE r.deps[t]
      BY <1>1, <2>1 DEF Rebuilt
    <3> QED
      BY ONLY <2>3, <3>1 DEF Rebuilt
  <2> QED
    BY <1>1, <1>4, <1>5, <1>6, <2>1, <2>2, <2>3 DEF Applies, q
<1>7. CASE Outcome(r, m) = "deferred"
  BY <1>1, <1>3, <1>5, <1>7 DEF Applies, q
<1>8. CASE Outcome(r, m) = "applied"
  <2>1. /\ q \in Database /\ MergesRow(seen, q, m)
        /\ q.version = [seen.version EXCEPT ![m.entity] = m.key]
        /\ q.elements = seen.elements /\ q.upgraded = seen.upgraded
        /\ \A t \in Task : Lives(seen, q, t)
        /\ seen.conflicts \subseteq q.conflicts
        /\ \A c \in q.conflicts : c \in seen.conflicts \/ Asks(seen, m, c)
        /\ DateDiffers(seen, m) => \E c \in q.conflicts : c.entity = m.entity /\ c.by = m.key
    BY <1>1, <1>3, <1>8, MergedEffect
  <2>2. \A t \in Task : LiveElements(q, t) = LiveElements(seen, t)
    BY <2>1 DEF LiveElements
  <2>3. \A t \in Task : \/ q.deps[t] \subseteq LiveElements(q, t) \ {t}
                        \/ q.deps[t] \subseteq r.deps[t] /\ (t # m.entity \/ ~Exists(r, t))
    BY <1>5, <2>1, <2>2 DEF Lives
  <2> QED
    BY <1>1, <1>4, <1>8, <2>1, <2>3 DEF Applies, q
<1> QED
  BY <1>2, <1>6, <1>7, <1>8

-----------------------------------------------------------------------------
(* How a database moves                                                       *)

\* The same mutations, receipts, rows, registers and elements; a conflict may
\* have been settled.
Keeps(r, q) ==
  /\ q \in Database
  /\ q.mutations = r.mutations /\ q.received = r.received /\ q.deferred = r.deferred
  /\ q.rows = r.rows /\ q.deps = r.deps /\ q.version = r.version /\ q.elements = r.elements
  /\ \A c \in r.conflicts : \E k \in q.conflicts : k.entity = c.entity /\ k.by = c.by
  /\ \A k \in q.conflicts : \E c \in r.conflicts : k.entity = c.entity

\* The student wrote the row of e, or deleted it: not yet recorded.
Written(r, q, e) ==
  /\ Parent[e] # None => Exists(r, e) \/ Exists(r, Parent[e])
  /\ \E row \in Row :
       /\ q.rows = [r.rows EXCEPT ![e] = row]
       /\ e \notin Task \cup Dated /\ PlainRow(r.rows[e]) => PlainRow(row)
  /\ \A t \in Task : q.deps[t] # r.deps[t] =>
       t = e /\ \A x \in q.deps[t] : Exists(r, x) /\ x # t

Changes(r, q, e) ==
  /\ q \in Database
  /\ Bookkeeping(q) = Bookkeeping(r)
  /\ q.version = r.version /\ q.elements = r.elements /\ q.conflicts = r.conflicts
  /\ \/ Written(r, q, e)
     \/ q = DeleteRow(r, e)
     \/ q = r /\ ~Exists(r, e)

\* The change is recorded in the same command.
Edits(d, r, q) ==
  \E e \in Entity : \E changed \in Database : \E now \in Nat :
    /\ Changes(r, changed, e)
    /\ Keeps(Record(changed, d, e, now), q)

\* A mutation that was held back is merged in a transaction.
Drains(d, r, q) ==
  \E p \in r.deferred :
    /\ Outcome(r, log[p]) # "deferred"
    /\ AlreadyLocal(d, log[p]) \/ ~ForeignKeyFails(r, log[p])
    /\ q = [ApplyMutation(r, log[p]) EXCEPT !.deferred = @ \ {p}]

\* The mutation at a log position is received in a transaction.
Receives(d, r, q) ==
  \E p \in 1 .. Len(log) :
    /\ AlreadyLocal(d, log[p]) \/ ~ForeignKeyFails(r, log[p])
    /\ r.upgraded => r.deferred = {}
    /\ q = Received(d, r, p)

\* Writing a row with its dependency rows.
LEMMA RowWritten ==
  ASSUME NEW r \in Database, NEW e \in Entity, NEW row \in Row, NEW linked,
         NEW deps \in DependencySets(r, e),
         Parent[e] # None => Exists(r, e) \/ Exists(r, Parent[e]),
         e \notin Task \cup Dated /\ PlainRow(r.rows[e]) => PlainRow(row)
  PROVE  Changes(r, WithRow(r, e, row, linked, deps), e)
<1> DEFINE put   == Put(r, e, row, linked)
           named == [t \in Task |-> IF t = e THEN deps ELSE put.deps[t]]
           q     == WithRow(r, e, row, linked, deps)
<1>1. deps \in SUBSET Task /\ \A x \in deps : Exists(r, x) /\ x # e
  BY DEF DependencySets
<1>2. q \in Database /\ Bookkeeping(q) = Bookkeeping(r)
  BY <1>1, WithRowType
<1>3. /\ put \in Database /\ put.deps = r.deps
      /\ put.version = r.version /\ put.elements = r.elements /\ put.conflicts = r.conflicts
      /\ put.rows = [r.rows EXCEPT ![e] = row]
  <2>1. PICK links : links = IF linked THEN r.links \cup {e} ELSE r.links \ {e}
    OBVIOUS
  <2>2. put = [r EXCEPT !.rows = [@ EXCEPT ![e] = row], !.links = links]
    BY <2>1 DEF Put
  <2>3. put \in Database
    BY PutType
  <2> HIDE DEF put
  <2> QED
    BY <2>2, <2>3 DEF Database
<1>4. q = [put EXCEPT !.deps = named]
  BY DEF WithRow
<1>5. \A t \in Task : named[t] = IF t = e THEN deps ELSE r.deps[t]
  BY <1>3
<1> HIDE DEF put, named, q
<1>6. /\ q.version = put.version /\ q.elements = put.elements /\ q.conflicts = put.conflicts
      /\ q.rows = put.rows /\ q.deps = named
  BY <1>3, <1>4 DEF Database
<1>7. Written(r, q, e)
  BY <1>1, <1>3, <1>5, <1>6 DEF Written
<1> QED
  BY <1>2, <1>3, <1>6, <1>7 DEF Changes, q

\* A record command changes one row and saves the change.
LEMMA CommandChanges ==
  ASSUME IInv, NEW d \in Device, NEW e \in Entity,
         Create(d, e) \/ Update(d, e) \/ Toggle(d, e) \/ Delete(d, e)
  PROVE  \E changed \in Database : Changes(db[d], changed, e) /\ Save(d, e, changed)
<1> DEFINE r == db[d]
<1>1. r \in Database
  BY DEF IInv, SyncTypes
<1>2. Exists(r, e) => r.rows[e] \in Row
  BY <1>1 DEF Exists, Database
<1>3. DatesOf(e) \subseteq Date /\ (e \notin Task \cup Dated => DatesOf(e) = {DefaultDate})
  BY DEF DatesOf
<1>4. \A q : Changes(r, q, e) => q \in Database
  BY DEF Changes
<1>5. CASE Create(d, e)
  <2>1. PICK linked \in LinkChoices(r, e), deps \in DependencySets(r, e) :
          Save(d, e, WithRow(r, e, NewRow, linked, deps))
    BY <1>5 DEF Create
  <2>2. PICK row : row = NewRow
    OBVIOUS
  <2>3. row \in Row /\ PlainRow(row)
    BY <2>2 DEF NewRow, Row, PlainRow
  <2>4. Parent[e] # None => Exists(r, Parent[e])
    BY <1>5 DEF Create
  <2>5. Changes(r, WithRow(r, e, row, linked, deps), e)
    BY <1>1, <2>3, <2>4, RowWritten
  <2> QED
    BY <1>4, <2>1, <2>2, <2>5
<1>6. CASE Update(d, e)
  <2>1. PICK v \in Value, date \in DatesOf(e), linked \in LinkChoices(r, e),
             deps \in DependencySets(r, e) :
          Save(d, e, WithRow(r, e, [r.rows[e] EXCEPT !.value = v, !.date = date], linked, deps))
    BY <1>6 DEF Update
  <2>2. PICK row : row = [r.rows[e] EXCEPT !.value = v, !.date = date]
    OBVIOUS
  <2>3. Exists(r, e)
    BY <1>6 DEF Update
  <2>4. row \in Row /\ row.date = date /\ row.done = r.rows[e].done
    BY <1>2, <1>3, <2>2, <2>3 DEF Row
  <2>5. e \notin Task \cup Dated /\ PlainRow(r.rows[e]) => PlainRow(row)
    BY <1>3, <2>3, <2>4 DEF PlainRow, Exists
  <2>6. Changes(r, WithRow(r, e, row, linked, deps), e)
    BY <1>1, <2>3, <2>4, <2>5, RowWritten
  <2> QED
    BY <1>4, <2>1, <2>2, <2>6
<1>7. CASE Toggle(d, e)
  <2>1. Exists(r, e) /\ e \in Task
    BY <1>7 DEF Toggle
  <2>2. PICK row : row = [r.rows[e] EXCEPT !.done = ~@]
    OBVIOUS
  <2>3. row \in Row
    BY <1>2, <2>1, <2>2 DEF Row
  <2> DEFINE q == [r EXCEPT !.rows[e].done = ~@]
  <2>4. q = [r EXCEPT !.rows = [@ EXCEPT ![e] = row]]
    BY <2>2
  <2> HIDE DEF q
  <2>5. /\ q \in Database /\ Bookkeeping(q) = Bookkeeping(r)
        /\ q.version = r.version /\ q.elements = r.elements /\ q.conflicts = r.conflicts
        /\ q.rows = [r.rows EXCEPT ![e] = row] /\ q.deps = r.deps
    BY <1>1, <2>3, <2>4 DEF Database, Bookkeeping
  <2>6. Changes(r, q, e)
    BY <2>1, <2>3, <2>5 DEF Changes, Written
  <2>7. Save(d, e, q)
    BY <1>7 DEF Toggle, q
  <2> QED
    BY <2>5, <2>6, <2>7
<1>8. CASE Delete(d, e)
  <2> DEFINE q == DeleteRow(r, e)
  <2>1. q \in Database /\ Bookkeeping(q) = Bookkeeping(r)
    <3>1. q \in Database
      BY <1>1, DeleteRowType
    <3>2. Bookkeeping(q) = Bookkeeping(r)
      BY <1>1 DEF DeleteRow, Database, Bookkeeping
    <3> QED
      BY <3>1, <3>2
  <2>2. q.version = r.version /\ q.elements = r.elements /\ q.conflicts = r.conflicts
    BY <1>1 DEF DeleteRow, Database
  <2>3. Changes(r, q, e)
    BY <2>1, <2>2 DEF Changes
  <2> QED
    BY <1>8, <2>1, <2>3 DEF Delete
<1> QED
  BY <1>5, <1>6, <1>7, <1>8

\* A conflict is closed, and the clock ticks.
LEMMA SettlingKeeps ==
  ASSUME NEW r \in Database, NEW c \in r.conflicts, NEW now \in Nat
  PROVE  LET q == [Resolved(r, c) EXCEPT !.clock = Tick(@, now)]
         IN  Keeps(r, q) /\ Bookkeeping(q) = Bookkeeping(r)
<1> DEFINE closed == Resolved(r, c)
           q      == [closed EXCEPT !.clock = Tick(@, now)]
<1>1. q \in Database /\ Bookkeeping(q) = Bookkeeping(r)
  BY ResolvedTicks
<1>2. PICK k : k = [c EXCEPT !.resolved = TRUE]
  OBVIOUS
<1>3. c \in Conflict
  BY DEF Database
<1>4. k.entity = c.entity /\ k.by = c.by
  BY <1>2, <1>3 DEF Conflict
<1>5. closed = [r EXCEPT !.conflicts = (@ \ {c}) \cup {k}]
  BY <1>2 DEF Resolved
<1> HIDE DEF closed
<1>6. /\ q.rows = r.rows /\ q.deps = r.deps /\ q.version = r.version /\ q.elements = r.elements
      /\ q.conflicts = (r.conflicts \ {c}) \cup {k}
  BY <1>5 DEF Database
<1>7. /\ \A x \in r.conflicts : \E y \in q.conflicts : y.entity = x.entity /\ y.by = x.by
      /\ \A y \in q.conflicts : \E x \in r.conflicts : y.entity = x.entity
  BY <1>4, <1>6
<1> HIDE DEF q
<1>8. q.mutations = r.mutations /\ q.received = r.received /\ q.deferred = r.deferred
  BY <1>1 DEF Bookkeeping
<1>9. Keeps(r, q)
  BY <1>1, <1>6, <1>7, <1>8 DEF Keeps
<1> QED
  BY <1>1, <1>9 DEF q, closed

\* A database that is kept.
LEMMA SameKeeps ==
  ASSUME NEW r \in Database
  PROVE  Keeps(r, r)
BY DEF Keeps

\* What a record command makes of the database of its computer.
EditMoves(d, q) ==
  /\ q \in Database /\ db' = [db EXCEPT ![d] = q]
  /\ q.uploaded = db[d].uploaded /\ q.deferred = db[d].deferred /\ q.upgraded = db[d].upgraded
  /\ open[d] = None /\ open' = open /\ log' = log
  /\ \/ pull' = pull /\ torn' = torn
     \/ pull' = [pull EXCEPT ![d] = [w \in Worker(d) |-> IdlePull]] /\ torn' = torn + 1
  /\ \/ Keeps(db[d], q)
     \/ Edits(d, db[d], q)
     \/ torn' = torn + 1 /\ \E e \in Entity : Changes(db[d], q, e)

LEMMA EditsMove ==
  ASSUME IInv, NEW d \in Device, Edit(d),
         \A c \in db[d].conflicts : c.entity \in Task \cup Dated
  PROVE  \E q : EditMoves(d, q)
<1> DEFINE r == db[d]
<1>1. r \in Database
  BY DEF IInv, SyncTypes
<1>2. CASE \E e \in Entity : Create(d, e) \/ Update(d, e) \/ Toggle(d, e) \/ Delete(d, e)
  <2>1. PICK e \in Entity : Create(d, e) \/ Update(d, e) \/ Toggle(d, e) \/ Delete(d, e)
    BY <1>2
  <2>2. PICK changed \in Database : Changes(r, changed, e) /\ Save(d, e, changed)
    BY <2>1, CommandChanges
  <2>3. open[d] = None
    BY <2>1 DEF Create, Update, Toggle, Delete, CanRecord
  <2>4. /\ changed.uploaded = r.uploaded /\ changed.deferred = r.deferred
        /\ changed.upgraded = r.upgraded
    BY <2>2 DEF Changes, Bookkeeping
  <2>5. CASE /\ \E now \in Wall[d] : db' = [db EXCEPT ![d] = Record(changed, d, e, now)]
             /\ UNCHANGED <<open, pull, log, faults, torn>>
    <3>1. PICK now \in Wall[d] : db' = [db EXCEPT ![d] = Record(changed, d, e, now)]
      BY <2>5
    <3> DEFINE q == Record(changed, d, e, now)
    <3>2. now \in Nat
      OBVIOUS
    <3>3. q \in Database /\ Unrecorded(q) = Unrecorded(changed)
      BY <3>2, RecordEffect
    <3>4. Edits(d, r, q)
      BY <2>2, <3>2, <3>3, SameKeeps DEF Edits
    <3>5. db' = [db EXCEPT ![d] = q]
      BY <3>1
    <3> HIDE DEF q
    <3>6. /\ q.uploaded = r.uploaded /\ q.deferred = r.deferred /\ q.upgraded = r.upgraded
      BY <2>4, <3>3 DEF Unrecorded
    <3>7. EditMoves(d, q)
      BY <2>3, <2>5, <3>3, <3>4, <3>5, <3>6 DEF EditMoves
    <3> QED
      BY <3>7
  <2>6. CASE /\ torn < MaxTorn
             /\ db' = [db EXCEPT ![d] = changed]
             /\ pull' = [pull EXCEPT ![d] = [w \in Worker(d) |-> IdlePull]]
             /\ torn' = torn + 1
             /\ UNCHANGED <<open, log, faults>>
    <3>1. EditMoves(d, changed)
      BY <2>2, <2>3, <2>4, <2>6 DEF EditMoves
    <3> QED
      BY <3>1
  <2> QED
    BY <2>2, <2>5, <2>6 DEF Save
<1>3. ASSUME NEW c \in r.conflicts, UseSource(d, c) PROVE \E q : EditMoves(d, q)
  <2> DEFINE taken == IF Exists(r, c.entity)
                      THEN [r EXCEPT !.rows[c.entity].date = c.proposed]
                      ELSE r
  <2>1. c.entity \in Entity /\ c.proposed \in Date /\ c.entity \in Task \cup Dated
    BY <1>1 DEF Database, Conflict
  <2>2. taken \in Database /\ Changes(r, taken, c.entity)
    <3>1. CASE Exists(r, c.entity)
      <4>1. PICK row : row = [r.rows[c.entity] EXCEPT !.date = c.proposed]
        OBVIOUS
      <4>2. row \in Row
        <5>1. r.rows[c.entity] \in Row
          BY <1>1, <2>1, <3>1 DEF Exists, Database
        <5> QED
          BY <2>1, <4>1, <5>1 DEF Row
      <4>3. taken = [r EXCEPT !.rows = [@ EXCEPT ![c.entity] = row]]
        BY <3>1, <4>1
      <4> HIDE DEF taken
      <4>4. /\ taken \in Database /\ Bookkeeping(taken) = Bookkeeping(r)
            /\ taken.version = r.version /\ taken.elements = r.elements
            /\ taken.conflicts = r.conflicts
            /\ taken.rows = [r.rows EXCEPT ![c.entity] = row] /\ taken.deps = r.deps
        BY <1>1, <2>1, <4>2, <4>3 DEF Database, Bookkeeping
      <4> QED
        BY <2>1, <3>1, <4>2, <4>4 DEF Changes, Written
    <3>2. CASE ~Exists(r, c.entity)
      <4>1. taken = r
        BY <3>2
      <4> QED
        BY <1>1, <3>2, <4>1 DEF Changes
    <3> QED
      BY <3>1, <3>2
  <2> HIDE DEF taken
  <2>3. PICK now \in Wall[d] :
          db' = [db EXCEPT ![d] =
                  [Resolved(Record(taken, d, c.entity, now), c) EXCEPT !.clock = Tick(@, now)]]
    BY <1>3 DEF UseSource, taken
  <2> DEFINE saved == Record(taken, d, c.entity, now)
             q     == [Resolved(saved, c) EXCEPT !.clock = Tick(@, now)]
  <2>4. now \in Nat
    OBVIOUS
  <2>5. saved \in Database /\ Unrecorded(saved) = Unrecorded(taken)
    BY <2>1, <2>2, <2>4, RecordEffect
  <2>6. taken.conflicts = r.conflicts
    BY <2>2 DEF Changes
  <2>7. db' = [db EXCEPT ![d] = q]
    BY <2>3
  <2> HIDE DEF saved
  <2>8. c \in saved.conflicts
    BY <2>5, <2>6 DEF Unrecorded
  <2>9. Keeps(saved, q) /\ Bookkeeping(q) = Bookkeeping(saved)
    BY <2>4, <2>5, <2>8, SettlingKeeps
  <2> HIDE DEF q
  <2>10. q \in Database
    BY <2>9 DEF Keeps
  <2>11. Edits(d, r, q)
    BY <2>1, <2>2, <2>4, <2>9 DEF Edits, saved
  <2>12. q.uploaded = r.uploaded /\ q.deferred = r.deferred /\ q.upgraded = r.upgraded
    BY <2>2, <2>5, <2>9 DEF Changes, Bookkeeping, Unrecorded
  <2>13. open[d] = None /\ UNCHANGED <<open, pull, log, torn>>
    BY <1>3 DEF UseSource, CanRecord
  <2>14. EditMoves(d, q)
    BY <2>7, <2>10, <2>11, <2>12, <2>13 DEF EditMoves
  <2> QED
    BY <2>14
<1>4. ASSUME NEW c \in r.conflicts, KeepExisting(d, c) PROVE \E q : EditMoves(d, q)
  <2>1. PICK now \in Wall[d] :
          db' = [db EXCEPT ![d] = [Resolved(r, c) EXCEPT !.clock = Tick(@, now)]]
    BY <1>4 DEF KeepExisting
  <2> DEFINE q == [Resolved(r, c) EXCEPT !.clock = Tick(@, now)]
  <2>2. now \in Nat
    OBVIOUS
  <2>3. Keeps(r, q) /\ Bookkeeping(q) = Bookkeeping(r)
    BY <1>1, <2>2, SettlingKeeps
  <2>4. db' = [db EXCEPT ![d] = q]
    BY <2>1
  <2> HIDE DEF q
  <2>5. q \in Database
    BY <2>3 DEF Keeps
  <2>6. q.uploaded = r.uploaded /\ q.deferred = r.deferred /\ q.upgraded = r.upgraded
    BY <2>3 DEF Bookkeeping
  <2>7. open[d] = None /\ UNCHANGED <<open, pull, log, torn>>
    BY <1>4 DEF KeepExisting
  <2>8. EditMoves(d, q)
    BY <2>3, <2>4, <2>5, <2>6, <2>7 DEF EditMoves
  <2> QED
    BY <2>8
<1>5. CASE PlanAgain(d)
  <2>1. open[d] = None /\ UNCHANGED <<db, open, pull, log, torn>>
    BY <1>5 DEF PlanAgain
  <2>2. db \in [Device -> Database]
    BY DEF IInv, SyncTypes
  <2>3. db' = [db EXCEPT ![d] = r]
    BY <2>1, <2>2
  <2>4. EditMoves(d, r)
    BY <1>1, <2>1, <2>3, SameKeeps DEF EditMoves
  <2> QED
    BY <2>4
<1> QED
  BY <1>2, <1>3, <1>4, <1>5 DEF Edit, Resolve

-----------------------------------------------------------------------------
(* How a step moves the databases and the transactions                        *)

\* A sequence of mutations and one more.
LEMMA AppendParts ==
  ASSUME NEW s \in Seq(MutationSet), NEW m \in MutationSet, NEW a, a = Append(s, m)
  PROVE  /\ Len(s) \in Nat /\ Len(a) = Len(s) + 1 /\ a[Len(a)] = m
         /\ \A i \in 1 .. Len(s) : a[i] = s[i]
         /\ {a[i] : i \in 1 .. Len(a)} = {s[i] : i \in 1 .. Len(s)} \cup {m}
<1>1. /\ Len(s) \in Nat /\ Len(a) = Len(s) + 1 /\ a[Len(a)] = m
      /\ \A i \in 1 .. Len(s) : a[i] = s[i]
  OBVIOUS
<1>2. 1 .. Len(a) = 1 .. Len(s) \cup {Len(a)}
  BY <1>1
<1> QED
  BY <1>1, <1>2

\* A set of numbers has a least one, and a set of mutations an oldest one.
LEMMA LeastNat ==
  ASSUME NEW S \in SUBSET Nat, S # {}
  PROVE  \E n \in S : \A m \in S : n <= m
<1> DEFINE R == {ss \in Nat \X Nat : ss[1] < ss[2]}
<1>1. IsWellFoundedOn(R, Nat)
  BY NatLessThanWellFounded DEF OpToRel
<1>2. \A m, n \in Nat : m < n => <<m, n>> \in R
  OBVIOUS
<1> HIDE DEF R
<1>3. PICK n \in S : \A m \in S : ~(<<m, n>> \in R)
  BY <1>1, WFMin
<1>4. \A m \in S : ~(m < n)
  BY <1>2, <1>3
<1> QED
  BY <1>4

LEMMA OldestMutation ==
  ASSUME log \in Seq(MutationSet), NEW T \in SUBSET (1 .. Len(log)), T # {}
  PROVE  \E q \in T : \A s \in T : AtMost(log[q].key, log[s].key)
<1> DEFINE P == {log[q].key.physical : q \in T}
<1>1. \A q \in T : log[q] \in MutationSet /\ log[q].key \in Key(Device)
  BY MutationParts
<1>2. \A q \in T : /\ log[q].key.physical \in Nat /\ log[q].key.counter \in Nat
                   /\ log[q].key.device \in Nat
  BY <1>1, KeyParts
<1>3. PICK p \in P : \A m \in P : p <= m
  <2>1. P \in SUBSET Nat
    BY <1>2
  <2>2. P # {}
    <3>1. PICK x \in T : TRUE
      OBVIOUS
    <3>2. log[x].key.physical \in P
      BY <3>1
    <3> QED
      BY <3>2
  <2> HIDE DEF P
  <2> QED
    BY <2>1, <2>2, LeastNat
<1> DEFINE U == {x \in T : log[x].key.physical = p}
           C == {log[q].key.counter : q \in U}
<1>4. C \in SUBSET Nat
  BY <1>2
<1>5. PICK c \in C : \A m \in C : c <= m
  <2>2. C # {}
    <3>1. PICK x \in U : TRUE
      OBVIOUS
    <3>2. log[x].key.counter \in C
      BY <3>1
    <3> QED
      BY <3>2
  <2> HIDE DEF C
  <2> QED
    BY <1>4, <2>2, LeastNat
<1> DEFINE V == {x \in U : log[x].key.counter = c}
           D == {log[q].key.device : q \in V}
<1>6. D \in SUBSET Nat
  BY <1>2
<1>7. PICK d \in D : \A m \in D : d <= m
  <2>2. D # {}
    <3>1. PICK x \in V : TRUE
      OBVIOUS
    <3>2. log[x].key.device \in D
      BY <3>1
    <3> QED
      BY <3>2
  <2> HIDE DEF D
  <2> QED
    BY <1>6, <2>2, LeastNat
<1>8. PICK q \in T : /\ log[q].key.physical = p /\ log[q].key.counter = c
                     /\ log[q].key.device = d
  OBVIOUS
<1>9. ASSUME NEW s \in T PROVE AtMost(log[q].key, log[s].key)
  <2> DEFINE a == log[q].key
             b == log[s].key
  <2>1. /\ a.physical = p /\ a.counter = c /\ a.device = d
        /\ a.physical \in Nat /\ a.counter \in Nat /\ a.device \in Nat
        /\ b.physical \in Nat /\ b.counter \in Nat /\ b.device \in Nat
    BY <1>2, <1>8
  <2>2. p <= b.physical
    BY <1>3
  <2>3. b.physical = p => c <= b.counter
    BY <1>5
  <2>4. b.physical = p /\ b.counter = c => d <= b.device
    BY <1>7
  <2>5. a.physical = b.physical /\ a.counter = b.counter /\ a.device = b.device => a = b
    <3>1. /\ a = [physical |-> a.physical, counter |-> a.counter, device |-> a.device]
          /\ b = [physical |-> b.physical, counter |-> b.counter, device |-> b.device]
      BY <1>1, KeyParts
    <3> HIDE DEF a, b
    <3> QED
      BY ONLY <3>1
  <2> HIDE DEF a, b
  <2>6. Before(a, b) \/ a = b
    BY ONLY <2>1, <2>2, <2>3, <2>4, <2>5 DEF Before, ClockBefore
  <2> QED
    BY <2>6 DEF AtMost, a, b
<1> QED
  BY <1>9

\* What happens to a computer's database in one step ...
Moves(c) ==
  \/ Keeps(db[c], db'[c])
  \/ open[c] # None /\ Keeps(open[c].work, db'[c])
  \/ Edits(c, db[c], db'[c])
  \/ torn' # 0 /\ \E e \in Entity : Changes(db[c], db'[c], e)

\* ... and to the transaction it has open.
Opens(c) ==
  open'[c] # None =>
    /\ db'[c] = db[c]
    /\ \/ open'[c].work = db[c]
       \/ /\ open[c] # None
          /\ \/ open'[c].work = open[c].work
             \/ Drains(c, open[c].work, open'[c].work)
             \/ Receives(c, open[c].work, open'[c].work)

\* One mutation is uploaded, or none.
Uploads(d) ==
  /\ db[d].uploaded < Len(db[d].mutations)
  /\ log' = Append(log, db[d].mutations[db[d].uploaded + 1])
  /\ db' = [db EXCEPT ![d].uploaded = @ + 1]

\* What one step of computer d does there and everywhere.
StepOf(d) ==
  /\ Moves(d) /\ Opens(d) /\ Drained(d)'
  /\ torn' = torn \/ torn' = torn + 1
  /\ \/ log' = log /\ db'[d].uploaded = db[d].uploaded
     \/ Uploads(d)
  /\ \A c \in Device \ {d} : db'[c] = db[c] /\ open'[c] = open[c] /\ pull'[c] = pull[c]

\* No record command but one about a dated record leaves a conflict behind.
ConflictsDated == \A d \in Device : \A c \in db[d].conflicts : c.entity \in Task \cup Dated

LEMMA EditStep ==
  ASSUME IInv, DrainedFirst, ConflictsDated, NEW d \in Device, Edit(d)
  PROVE  StepOf(d)
<1>1. /\ db \in [Device -> Database] /\ DOMAIN pull = Device /\ DOMAIN open = Device
      /\ db[d] \in Database
  BY DEF IInv, SyncTypes
<1>2. PICK q : EditMoves(d, q)
  BY EditsMove DEF ConflictsDated
<1>3. db'[d] = q /\ \A c \in Device \ {d} : db'[c] = db[c]
  BY <1>1, <1>2 DEF EditMoves
<1>4. /\ open'[d] = None /\ \A c \in Device \ {d} : open'[c] = open[c] /\ pull'[c] = pull[c]
      /\ pull'[d] = pull[d] \/ pull'[d] = [w \in Worker(d) |-> IdlePull]
      /\ log' = log
  BY <1>1, <1>2 DEF EditMoves
<1>5. torn' = torn + 1 => torn' # 0
  BY DEF IInv, SyncTypes
<1>6. Moves(d)
  BY <1>2, <1>3, <1>5 DEF EditMoves, Moves
<1>7. Opens(d)
  BY <1>4 DEF Opens
<1>8. Drained(d)
  BY DEF DrainedFirst
<1>9. Drained(d)'
  <2>1. q.deferred = db[d].deferred /\ q.upgraded = db[d].upgraded
    BY <1>2 DEF EditMoves
  <2>2. IdlePull.stage = "idle"
    BY DEF IdlePull
  <2> QED
    BY <1>3, <1>4, <1>8, <2>1, <2>2 DEF Drained
<1> QED
  BY <1>2, <1>3, <1>4, <1>6, <1>7, <1>9 DEF EditMoves, StepOf

\* Steps that leave the database as it is: a pull starts, downloads or ends,
\* a transaction begins or is rolled back, a computer crashes.
LEMMA StillMoves ==
  ASSUME IInv, DrainedFirst, NEW d \in Device,
         \/ \E w \in Worker(d) : \/ StartPull(d, w) \/ BeginDrain(d, w) \/ Fetch(d, w)
                                 \/ BeginPage(d, w) \/ DownloadFails(d, w)
         \/ AbortTransaction(d) \/ Crash(d)
  PROVE  StepOf(d)
<1>1. /\ DOMAIN pull = Device /\ DOMAIN open = Device /\ db[d] \in Database
      /\ DOMAIN pull[d] = Worker(d)
      /\ open[d] # None => open[d].worker \in Worker(d)
  BY DEF IInv, SyncTypes, PullSound, SoundTransaction
<1>2. db' = db /\ log' = log /\ torn' = torn
  BY DEF StartPull, BeginDrain, Fetch, BeginPage, DownloadFails, AbortTransaction, Crash
<1> DEFINE Still ==
      /\ \A c \in Device \ {d} : open'[c] = open[c] /\ pull'[c] = pull[c]
      /\ \/ open'[d] = None \/ open'[d] = open[d] \/ open'[d].work = db[d]
      /\ \A w \in Worker(d) :
           \/ pull'[d][w].stage \in {"idle", "drain"}
           \/ pull'[d][w].stage \in {"fetch", "page"} /\ pull[d][w].stage \in {"fetch", "page"}
           \/ pull'[d][w] = pull[d][w]
<1>3. Still
  <2>1. IdlePull.stage = "idle"
    BY DEF IdlePull
  <2>2. ASSUME NEW w \in Worker(d), StartPull(d, w) PROVE Still
    BY <1>1, <2>2 DEF StartPull, SetPull, IdlePull
  <2>3. ASSUME NEW w \in Worker(d), BeginDrain(d, w) PROVE Still
    BY <1>1, <2>3 DEF BeginDrain
  <2>4. ASSUME NEW w \in Worker(d), Fetch(d, w) PROVE Still
    BY <1>1, <2>4 DEF Fetch, SetPull
  <2>5. ASSUME NEW w \in Worker(d), BeginPage(d, w) PROVE Still
    BY <1>1, <2>5 DEF BeginPage
  <2>6. ASSUME NEW w \in Worker(d), DownloadFails(d, w) PROVE Still
    BY <1>1, <2>1, <2>6 DEF DownloadFails, SetPull
  <2>7. CASE AbortTransaction(d)
    BY <1>1, <2>1, <2>7 DEF AbortTransaction, SetPull
  <2>8. CASE Crash(d)
    BY <1>1, <2>1, <2>8 DEF Crash
  <2> QED
    BY <2>2, <2>3, <2>4, <2>5, <2>6, <2>7, <2>8
<1>4. Moves(d)
  BY <1>1, <1>2, SameKeeps DEF Moves
<1>5. Opens(d)
  BY <1>2, <1>3 DEF Opens
<1>6. Drained(d)
  BY DEF DrainedFirst
<1>7. Drained(d)'
  <2>1. db[d].upgraded /\ (\E w \in Worker(d) : pull'[d][w].stage \in {"fetch", "page"}) =>
          db[d].deferred = {}
    BY <1>3, <1>6 DEF Drained
  <2>2. open'[d] # None =>
          /\ open'[d].work.upgraded = db[d].upgraded
          /\ open'[d].work.uploaded = db[d].uploaded
          /\ db[d].upgraded => open'[d].work.deferred \subseteq db[d].deferred
    BY <1>3, <1>6 DEF Drained
  <2> QED
    BY <1>2, <2>1, <2>2 DEF Drained
<1> QED
  BY <1>2, <1>3, <1>4, <1>5, <1>7 DEF StepOf

\* A held back mutation is merged: no other database changes.
LEMMA DrainMoves ==
  ASSUME IInv, DrainedFirst, NEW d \in Device, DrainStep(d)
  PROVE  StepOf(d)
<1> USE LocalFacts
<1> DEFINE o == open[d]
<1>1. /\ DOMAIN open = Device /\ o \in Transaction /\ o.work \in Database /\ Sound(o.work)
      /\ o # None /\ pull[d][o.worker].stage = "drain"
  BY DEF DrainStep, Transaction, SoundTransaction, IInv, SyncTypes
<1>2. PICK q \in NextUp(d) :
        /\ ~RowRefused(d, q)
        /\ open' = [open EXCEPT
                     ![d].work = [ApplyMutation(open[d].work, log[q]) EXCEPT !.deferred = @ \ {q}],
                     ![d].drained = TRUE]
  BY DEF DrainStep
<1>3. q \in o.work.deferred /\ Outcome(o.work, log[q]) # "deferred"
  BY <1>1 DEF NextUp, Drainable
<1>4. q \in 1 .. Len(log)
  BY <1>1, <1>3 DEF Sound
<1> DEFINE a    == ApplyMutation(o.work, log[q])
           work == [a EXCEPT !.deferred = @ \ {q}]
<1>5. a \in Database /\ Bookkeeping(a) = Bookkeeping(o.work)
  BY <1>1, <1>4, ApplyType, ApplyKeepsBookkeeping
<1>6. Drains(d, o.work, work)
  BY <1>2, <1>3 DEF Drains, RowRefused
<1>7. /\ open'[d].work = work
      /\ \A c \in Device \ {d} : open'[c] = open[c]
  <2>1. open' = [open EXCEPT ![d] = [o EXCEPT !.work = work, !.drained = TRUE]]
    BY <1>1, <1>2
  <2> HIDE DEF work
  <2>2. [o EXCEPT !.work = work, !.drained = TRUE].work = work
    BY <1>1 DEF Transaction
  <2> QED
    BY <1>1, <2>1, <2>2
<1> HIDE DEF a
<1>8. /\ work.upgraded = o.work.upgraded /\ work.uploaded = o.work.uploaded
      /\ work.deferred \subseteq o.work.deferred
  BY <1>5 DEF Bookkeeping, Database
<1> HIDE DEF work, o
<1>9. UNCHANGED <<db, pull, log, torn>>
  BY DEF DrainStep
<1>10. Opens(d)
  BY <1>1, <1>6, <1>7, <1>9 DEF Opens, o
<1>11. Drained(d)'
  <2>1. Drained(d)
    BY DEF DrainedFirst
  <2>2. /\ open[d].work.upgraded = db[d].upgraded
        /\ open[d].work.uploaded = db[d].uploaded
        /\ db[d].upgraded => open[d].work.deferred \subseteq db[d].deferred
    BY <1>1, <2>1 DEF Drained, o
  <2>3. /\ open'[d].work.upgraded = db[d].upgraded
        /\ open'[d].work.uploaded = db[d].uploaded
        /\ db[d].upgraded => open'[d].work.deferred \subseteq db[d].deferred
    BY <1>7, <1>8, <2>2 DEF o
  <2> QED
    BY <1>9, <2>1, <2>3 DEF Drained
<1>12. Moves(d)
  BY <1>9, SameKeeps DEF Moves
<1> QED
  BY <1>7, <1>9, <1>10, <1>11, <1>12 DEF StepOf

\* The next mutation of a page is received.
LEMMA PageMoves ==
  ASSUME IInv, DrainedFirst, NEW d \in Device, PageStep(d)
  PROVE  StepOf(d)
<1> USE LocalFacts
<1> DEFINE o == open[d]
<1>1. /\ DOMAIN open = Device /\ o \in Transaction /\ o.work \in Database /\ Sound(o.work)
      /\ o # None /\ pull[d][o.worker].stage = "page" /\ o.worker \in Worker(d)
      /\ o.next \in Nat /\ 0 < o.next
      /\ pull[d][o.worker].to \in Nat /\ pull[d][o.worker].to <= Len(log)
  <2>1. o # None /\ pull[d][o.worker].stage = "page"
    BY DEF PageStep
  <2>2. o \in Transaction /\ o.work \in Database /\ o.next \in Nat /\ DOMAIN open = Device
    BY <2>1 DEF Transaction, IInv, SyncTypes
  <2>3. SoundTransaction(d, db[d], pull[d], o) /\ SoundPulls(d, db[d], pull[d])
    BY <2>1
  <2>4. o.worker \in Worker(d) /\ Sound(o.work) /\ 0 < o.next
    BY <2>1, <2>3 DEF SoundTransaction
  <2>5. pull[d][o.worker].to <= Len(log)
    BY <2>1, <2>3, <2>4 DEF SoundPulls
  <2>6. pull[d][o.worker].to \in Nat
    BY <2>4 DEF Pull
  <2> QED
    BY <2>1, <2>2, <2>4, <2>5, <2>6
<1>2. PICK q \in NextUp(d) :
        /\ ~RowRefused(d, q)
        /\ open' = [open EXCEPT ![d].work = Received(d, @, q), ![d].next = q + 1]
  BY DEF PageStep
<1>3. q \in 1 .. Len(log)
  <2>1. q = o.next /\ q <= pull[d][o.worker].to
    BY <1>1 DEF NextUp
  <2> QED
    BY <1>1, <2>1
<1>4. Drained(d)
  BY DEF DrainedFirst
<1>5. /\ o.work.upgraded = db[d].upgraded /\ o.work.uploaded = db[d].uploaded
      /\ db[d].upgraded => db[d].deferred = {} /\ o.work.deferred = {}
  BY <1>1, <1>4 DEF Drained
<1> DEFINE a    == IF AlreadyLocal(d, log[q]) THEN o.work ELSE ApplyMutation(o.work, log[q])
           held == /\ ~AlreadyLocal(d, log[q])
                   /\ q \notin o.work.received
                   /\ Outcome(o.work, log[q]) = "deferred"
           work == Received(d, o.work, q)
<1>6. a \in Database /\ Bookkeeping(a) = Bookkeeping(o.work)
  BY <1>1, <1>3, ApplyType, ApplyKeepsBookkeeping
<1>7. held => ~o.work.upgraded
  BY DEF Outcome, Understands
<1>8. work = [a EXCEPT !.received = @ \cup {q}, !.deferred = IF held THEN @ \cup {q} ELSE @]
  BY DEF Received
<1>9. Receives(d, o.work, work)
  BY <1>2, <1>3, <1>5 DEF Receives, RowRefused
<1>10. /\ open'[d].work = work
       /\ \A c \in Device \ {d} : open'[c] = open[c]
  <2>1. open' = [open EXCEPT ![d] = [o EXCEPT !.work = work, !.next = q + 1]]
    BY <1>1, <1>2
  <2> HIDE DEF work
  <2>2. [o EXCEPT !.work = work, !.next = q + 1].work = work
    BY <1>1 DEF Transaction
  <2> QED
    BY <1>1, <2>1, <2>2
<1> HIDE DEF a, held, work
<1>11. /\ work.upgraded = o.work.upgraded /\ work.uploaded = o.work.uploaded
       /\ o.work.upgraded => work.deferred = o.work.deferred
  <2>1. PICK deferred : deferred = IF held THEN a.deferred \cup {q} ELSE a.deferred
    OBVIOUS
  <2>2. work = [a EXCEPT !.received = a.received \cup {q}, !.deferred = deferred]
    BY <1>8, <2>1
  <2>3. /\ work.upgraded = a.upgraded /\ work.uploaded = a.uploaded
        /\ work.deferred = deferred
    BY <1>6, <2>2 DEF Database
  <2> QED
    BY <1>6, <1>7, <2>1, <2>3 DEF Bookkeeping
<1> HIDE DEF o
<1>12. UNCHANGED <<db, pull, log, torn>>
  BY DEF PageStep
<1>13. Opens(d)
  BY <1>1, <1>9, <1>10, <1>12 DEF Opens, o
<1>14. Drained(d)'
  <2>1. /\ open'[d].work.upgraded = db[d].upgraded
        /\ open'[d].work.uploaded = db[d].uploaded
        /\ db[d].upgraded => open'[d].work.deferred \subseteq db[d].deferred
    BY <1>5, <1>10, <1>11
  <2> QED
    BY <1>4, <1>12, <2>1 DEF Drained
<1>15. Moves(d)
  BY <1>12, SameKeeps DEF Moves
<1> QED
  BY <1>10, <1>12, <1>13, <1>14, <1>15 DEF StepOf

\* A transaction commits: its working copy becomes the database.
LEMMA CommitMoves ==
  ASSUME IInv, DrainedFirst, NEW d \in Device, CommitDrain(d) \/ CommitPage(d)
  PROVE  StepOf(d)
<1> USE LocalFacts
<1> DEFINE o == open[d]
           w == o.worker
<1>1. /\ DOMAIN open = Device /\ DOMAIN pull = Device /\ db \in [Device -> Database]
      /\ o \in Transaction /\ o.work \in Database /\ Sound(o.work)
      /\ o # None /\ w \in Worker(d) /\ DOMAIN pull[d] = Worker(d)
      /\ log \in Seq(MutationSet)
  BY DEF CommitDrain, CommitPage, Transaction, SoundTransaction, IInv, SyncTypes
<1>2. Drained(d)
  BY DEF DrainedFirst
<1>3. /\ o.work.upgraded = db[d].upgraded /\ o.work.uploaded = db[d].uploaded
      /\ db[d].upgraded => o.work.deferred \subseteq db[d].deferred
  BY <1>1, <1>2 DEF Drained
<1>4. db[d].upgraded => o.work.deferred = {}
  <2>1. CASE CommitDrain(d)
    <3>1. pull[d][w].stage = "drain" /\ NextUp(d) = {}
      BY <2>1 DEF CommitDrain
    <3>2. Drainable(o.work) \in SUBSET (1 .. Len(log))
      BY <1>1 DEF Drainable, Sound
    <3>3. NextUp(d) = {q \in Drainable(o.work) :
                         \A s \in Drainable(o.work) : AtMost(log[q].key, log[s].key)}
      BY <3>1 DEF NextUp
    <3>4. Drainable(o.work) = {}
      <4> SUFFICES ASSUME Drainable(o.work) # {}
                   PROVE  FALSE
        OBVIOUS
      <4>1. \E q \in Drainable(o.work) :
              \A s \in Drainable(o.work) : AtMost(log[q].key, log[s].key)
        BY <1>1, <3>2, OldestMutation
      <4> QED
        BY <3>1, <3>3, <4>1
    <3>5. \A p \in o.work.deferred : o.work.upgraded => Outcome(o.work, log[p]) # "deferred"
      BY DEF Outcome, Understands
    <3> QED
      BY <1>3, <3>4, <3>5 DEF Drainable
  <2>2. CASE CommitPage(d)
    <3>1. pull[d][w].stage = "page"
      BY <2>2 DEF CommitPage
    <3> QED
      BY <1>1, <1>2, <1>3, <3>1 DEF Drained
  <2> QED
    BY <2>1, <2>2
<1>5. PICK r : /\ db' = [db EXCEPT ![d] = r]
               /\ \/ r = o.work
                  \/ r = [o.work EXCEPT !.cursor = CursorAfter(d)] /\ CursorAfter(d) \in Nat
  <2>1. CASE CommitDrain(d)
    <3>1. db' = [db EXCEPT ![d] = o.work]
      BY <2>1 DEF CommitDrain
    <3> QED
      BY <3>1
  <2>2. CASE CommitPage(d)
    <3>1. CursorAfter(d) \in Nat
      BY <1>1 DEF CursorAfter, Pull
    <3>2. db' = [db EXCEPT ![d] = [o.work EXCEPT !.cursor = CursorAfter(d)]]
      BY <2>2 DEF CommitPage
    <3> QED
      BY <3>1, <3>2
  <2> QED
    BY <2>1, <2>2
<1>6. /\ Keeps(o.work, r)
      /\ r.upgraded = o.work.upgraded /\ r.uploaded = o.work.uploaded
      /\ r.deferred = o.work.deferred
  <2>1. CASE r = o.work
    BY <1>1, <2>1, SameKeeps
  <2>2. CASE r = [o.work EXCEPT !.cursor = CursorAfter(d)] /\ CursorAfter(d) \in Nat
    BY <1>1, <2>2 DEF Keeps, Database
  <2> QED
    BY <1>5, <2>1, <2>2
<1>7. /\ open' = [open EXCEPT ![d] = None] /\ log' = log /\ torn' = torn
      /\ \E p : pull' = [pull EXCEPT ![d] = p]
  <2>1. CASE CommitDrain(d)
    <3>1. pull' = [pull EXCEPT ![d] = [pull[d] EXCEPT ![w].stage = "fetch"]]
      BY <1>1, <2>1 DEF CommitDrain
    <3> QED
      BY <2>1, <3>1 DEF CommitDrain
  <2>2. CASE CommitPage(d)
    <3>1. \E p : pull' = [pull EXCEPT ![d] = [pull[d] EXCEPT ![w] = p]]
      BY <1>1, <2>2 DEF CommitPage, SetPull
    <3> QED
      BY <2>2, <3>1 DEF CommitPage
  <2> QED
    BY <2>1, <2>2
<1>8. /\ db'[d] = r /\ open'[d] = None
      /\ \A c \in Device \ {d} : db'[c] = db[c] /\ open'[c] = open[c] /\ pull'[c] = pull[c]
  BY <1>1, <1>5, <1>7
<1>9. Moves(d)
  BY <1>1, <1>6, <1>8 DEF Moves
<1>10. Opens(d) /\ Drained(d)'
  BY <1>3, <1>4, <1>6, <1>8 DEF Opens, Drained
<1> QED
  BY <1>3, <1>6, <1>7, <1>8, <1>9, <1>10 DEF StepOf

\* A mutation is uploaded, or a later build is installed.
LEMMA PushMoves ==
  ASSUME IInv, DrainedFirst, NEW d \in Device, Push(d) \/ Upgrade(d)
  PROVE  StepOf(d)
<1>1. /\ db \in [Device -> Database] /\ db[d] \in Database
      /\ DOMAIN open = Device /\ DOMAIN pull = Device
  BY DEF IInv, SyncTypes
<1>2. Drained(d)
  BY DEF DrainedFirst
<1>3. open[d] = None /\ open' = open /\ torn' = torn
  BY DEF Push, Upgrade
<1>4. CASE Push(d)
  <2> DEFINE r == [db[d] EXCEPT !.uploaded = @ + 1]
  <2>1. db' = [db EXCEPT ![d] = r] /\ pull' = pull /\ Uploads(d)
    BY <1>4 DEF Push, Uploads, Recorded
  <2>2. db[d].uploaded + 1 \in Nat
    BY <1>1 DEF Database
  <2>3. Keeps(db[d], r) /\ r.deferred = db[d].deferred /\ r.upgraded = db[d].upgraded
    BY <1>1, <2>2 DEF Keeps, Database
  <2> HIDE DEF r
  <2>4. db'[d] = r /\ \A c \in Device \ {d} : db'[c] = db[c]
    BY <1>1, <2>1
  <2>5. Moves(d) /\ Opens(d) /\ Drained(d)'
    BY <1>2, <1>3, <2>1, <2>3, <2>4 DEF Moves, Opens, Drained
  <2> QED
    BY <1>3, <2>1, <2>4, <2>5 DEF StepOf
<1>5. CASE Upgrade(d)
  <2> DEFINE r == [db[d] EXCEPT !.upgraded = TRUE]
  <2>1. /\ db' = [db EXCEPT ![d] = r] /\ log' = log
        /\ pull' = [pull EXCEPT ![d] = [w \in Worker(d) |-> IdlePull]]
    BY <1>5 DEF Upgrade
  <2>2. Keeps(db[d], r) /\ r.uploaded = db[d].uploaded
    BY <1>1 DEF Keeps, Database
  <2> HIDE DEF r
  <2>3. /\ db'[d] = r /\ \A c \in Device \ {d} : db'[c] = db[c] /\ pull'[c] = pull[c]
        /\ pull'[d] = [w \in Worker(d) |-> IdlePull]
    BY <1>1, <2>1
  <2>4. IdlePull.stage = "idle"
    BY DEF IdlePull
  <2>5. Moves(d) /\ Opens(d) /\ Drained(d)'
    BY <1>2, <1>3, <2>2, <2>3, <2>4 DEF Moves, Opens, Drained
  <2> QED
    BY <1>3, <2>1, <2>2, <2>3, <2>5 DEF StepOf
<1> QED
  BY <1>4, <1>5

\* Every step is a step of one computer, or none.
LEMMA NextStep ==
  ASSUME IInv, DrainedFirst, ConflictsDated, [Next]_vars
  PROVE  (\E d \in Device : StepOf(d)) \/ UNCHANGED vars
<1>1. CASE Next
  <2>1. PICK d \in Device :
          \/ Edit(d) \/ Push(d) \/ PullRuns(d) \/ Crash(d) \/ Upgrade(d)
          \/ \E w \in Worker(d) : DownloadFails(d, w)
    BY <1>1 DEF Next
  <2>2. StepOf(d)
    BY <2>1, EditStep, StillMoves, DrainMoves, PageMoves, CommitMoves, PushMoves DEF PullRuns
  <2> QED
    BY <2>2
<1> QED
  BY <1>1

-----------------------------------------------------------------------------
(* The four ways the contents of a database change                            *)

\* A conflict may have been settled or raised about the record of a mutation.
SameConflicts(r, q) ==
  /\ \A c \in r.conflicts : \E k \in q.conflicts : k.entity = c.entity /\ k.by = c.by
  /\ \A k \in q.conflicts : \E c \in r.conflicts : k.entity = c.entity

\* The rows after the student wrote or deleted the row of e.
RowsChange(r, q, e) ==
  \/ Written(r, q, e)
  \/ q.rows = DeleteRow(r, e).rows /\ q.deps = DeleteRow(r, e).deps
  \/ q.rows = r.rows /\ q.deps = r.deps /\ ~Exists(r, e)

\* Nothing changes but the receipts and the local settings ...
Stays(r, q) ==
  /\ q \in Database
  /\ Known(q) = Known(r) /\ MergedBy(q) = MergedBy(r)
  /\ q.rows = r.rows /\ q.deps = r.deps /\ q.version = r.version /\ q.elements = r.elements
  /\ SameConflicts(r, q)

\* ... or a row changes and no mutation is recorded ...
Rewrites(r, q, e) ==
  /\ q \in Database
  /\ Known(q) = Known(r) /\ MergedBy(q) = MergedBy(r)
  /\ RowsChange(r, q, e) /\ q.version = r.version /\ q.elements = r.elements
  /\ SameConflicts(r, q)

\* ... or it changes and a mutation newer than all others is recorded ...
Records(r, q, e, m) ==
  /\ q \in Database
  /\ Known(q) = Known(r) \cup {m} /\ MergedBy(q) = MergedBy(r) \cup {m}
  /\ \A n \in Known(r) : Before(n.key, m.key)
  /\ m.entity = e /\ m.snapshot = q.rows[e]
  /\ RowsChange(r, q, e) /\ q.version = [r.version EXCEPT ![e] = m.key]
  /\ \A t \in Task, x \in Task :
       q.elements[t][x] = IF Touches(m, t, x) /\ AtMost(r.elements[t][x].key, m.key)
                          THEN [key |-> m.key, live |-> x \in m.added]
                          ELSE r.elements[t][x]
  /\ e \in Task /\ Exists(q, e) => Tells(m, e, q.deps[e], r.elements[e])
  /\ SameConflicts(r, q)

\* ... or a mutation is merged.
Merges(r, q, m) ==
  /\ m \in {log[p] : p \in 1 .. Len(log)}
  /\ Applies(r, q, m)
  /\ q.rows = ApplyMutation(r, m).rows /\ q.deps = ApplyMutation(r, m).deps
  /\ ~ForeignKeyFails(r, m)
  /\ Known(q) = Known(r) \cup {m}
  /\ \A n \in Known(r) : n.key = m.key => n = m
  /\ \/ MergedBy(q) = MergedBy(r) \cup {m} /\ Outcome(r, m) # "deferred"
     \/ MergedBy(q) = MergedBy(r) /\ Outcome(r, m) # "applied"

\* What every database and transaction of computer d rests on.
Based(d, r) ==
  /\ r \in Database /\ Sound(r) /\ log \in Seq(MutationSet)
  /\ \A p \in 1 .. Len(log) : log[p].key.device = d => log[p] \in Own(r)
  /\ \A m \in Known(r) : \A p \in 1 .. Len(log) : m.key = log[p].key => m = log[p]

\* A newly recorded mutation is the newest one known.
Newer(r, q) ==
  Len(q.mutations) > Len(r.mutations) =>
    \A n \in Known(r) : Before(n.key, q.mutations[Len(q.mutations)].key)

LEMMA KnownMutations ==
  ASSUME NEW r \in Database, Sound(r), log \in Seq(MutationSet)
  PROVE  Known(r) \subseteq MutationSet /\ MergedBy(r) \subseteq Known(r)
<1>1. r.mutations \in Seq(MutationSet)
  BY DEF Database
<1>2. Own(r) \subseteq MutationSet
  BY <1>1 DEF Own
<1> QED
  BY <1>2 DEF Known, MergedBy, Sound

LEMMA KeepsStays ==
  ASSUME NEW d, NEW r, NEW q, Keeps(r, q)
  PROVE  Stays(r, q) /\ (HeldBack(d, r) => HeldBack(d, q))
BY DEF Keeps, Stays, SameConflicts, Known, MergedBy, Own, HeldBack

LEMMA ChangesRewrite ==
  ASSUME NEW d, NEW r, NEW q, NEW e, Changes(r, q, e)
  PROVE  Rewrites(r, q, e) /\ (HeldBack(d, r) => HeldBack(d, q))
<1>1. q.mutations = r.mutations /\ q.received = r.received /\ q.deferred = r.deferred
  BY DEF Changes, Bookkeeping
<1>2. Own(q) = Own(r)
  BY <1>1 DEF Own
<1>3. Known(q) = Known(r) /\ MergedBy(q) = MergedBy(r) /\ (HeldBack(d, r) => HeldBack(d, q))
  BY <1>1, <1>2 DEF Known, MergedBy, HeldBack
<1>4. RowsChange(r, q, e)
  BY DEF Changes, RowsChange
<1> QED
  BY <1>3, <1>4 DEF Changes, Rewrites, SameConflicts

LEMMA EditsRecord ==
  ASSUME NEW d \in Device, NEW r \in Database, NEW q, Edits(d, r, q), Newer(r, q)
  PROVE  /\ \/ \E e \in LocalOnly : Rewrites(r, q, e)
            \/ \E e \in Entity \ LocalOnly : \E m \in MutationSet : Records(r, q, e, m)
         /\ HeldBack(d, r) => HeldBack(d, q)
<1>1. PICK e \in Entity, changed \in Database, now \in Nat :
        Changes(r, changed, e) /\ Keeps(Record(changed, d, e, now), q)
  BY DEF Edits
<1> DEFINE saved == Record(changed, d, e, now)
<1>2. saved \in Database /\ Unrecorded(saved) = Unrecorded(changed)
  BY RecordEffect
<1>3. /\ changed.mutations = r.mutations /\ changed.received = r.received
      /\ changed.deferred = r.deferred /\ changed.version = r.version
      /\ changed.elements = r.elements /\ changed.conflicts = r.conflicts
  BY <1>1 DEF Changes, Bookkeeping
<1>4. Rewrites(r, changed, e) /\ (HeldBack(d, r) => HeldBack(d, changed))
  BY <1>1, ChangesRewrite
<1>5. /\ saved.rows = changed.rows /\ saved.deps = changed.deps /\ saved.conflicts = r.conflicts
      /\ saved.received = r.received /\ saved.deferred = r.deferred
  BY <1>2, <1>3 DEF Unrecorded
<1>6. /\ q \in Database /\ q.mutations = saved.mutations
      /\ q.received = r.received /\ q.deferred = r.deferred
      /\ q.rows = changed.rows /\ q.deps = changed.deps
      /\ q.version = saved.version /\ q.elements = saved.elements /\ SameConflicts(r, q)
  BY <1>1, <1>5 DEF Keeps, SameConflicts
<1>7. HeldBack(d, r) => HeldBack(d, q)
  BY <1>6 DEF HeldBack
<1>8. RowsChange(r, q, e)
  BY <1>4, <1>6 DEF Rewrites, RowsChange, Written
<1>9. CASE e \in LocalOnly
  <2>1. q.mutations = r.mutations /\ q.version = r.version /\ q.elements = r.elements
    BY <1>3, <1>6, <1>9, RecordEffect
  <2>2. Known(q) = Known(r) /\ MergedBy(q) = MergedBy(r)
    BY <1>6, <2>1 DEF Known, MergedBy, Own
  <2>3. Rewrites(r, q, e)
    BY <1>6, <1>8, <2>1, <2>2 DEF Rewrites
  <2> QED
    BY <1>7, <1>9, <2>3
<1>10. CASE e \notin LocalOnly
  <2>1. PICK m \in MutationSet : RecordsRow(d, e, changed, saved, m)
    BY <1>10, RecordEffect
  <2> HIDE DEF saved
  <2>2. q.mutations = Append(r.mutations, m) /\ r.mutations \in Seq(MutationSet)
    BY <1>3, <1>6, <2>1 DEF RecordsRow, Database
  <2>3. /\ Len(r.mutations) \in Nat /\ Len(q.mutations) = Len(r.mutations) + 1
        /\ q.mutations[Len(q.mutations)] = m
        /\ \A i \in 1 .. Len(r.mutations) : q.mutations[i] = r.mutations[i]
    BY <2>2, AppendParts
  <2>4. Own(q) = Own(r) \cup {m}
    BY <2>2, AppendParts DEF Own
  <2>5. Known(q) = Known(r) \cup {m} /\ MergedBy(q) = MergedBy(r) \cup {m}
    BY <1>6, <2>4 DEF Known, MergedBy
  <2>6. \A n \in Known(r) : Before(n.key, m.key)
    BY <2>3 DEF Newer
  <2>7. /\ m.entity = e /\ m.snapshot = q.rows[e]
        /\ q.version = [r.version EXCEPT ![e] = m.key]
        /\ \A t \in Task, x \in Task :
             q.elements[t][x] = IF Touches(m, t, x) /\ AtMost(r.elements[t][x].key, m.key)
                                THEN [key |-> m.key, live |-> x \in m.added]
                                ELSE r.elements[t][x]
    BY <1>3, <1>6, <2>1 DEF RecordsRow
  <2>9. e \in Task /\ Exists(q, e) => Tells(m, e, q.deps[e], r.elements[e])
    <3>1. Exists(q, e) <=> Exists(changed, e)
      BY <1>6 DEF Exists
    <3> QED
      BY <1>3, <1>6, <2>1, <3>1 DEF RecordsRow
  <2>8. Records(r, q, e, m)
    BY <1>6, <1>8, <2>5, <2>6, <2>7, <2>9 DEF Records
  <2> QED
    BY <1>7, <1>10, <2>8
<1> QED
  BY <1>9, <1>10

\* What merging changes is told by the contents alone.
LEMMA AppliesAlike ==
  ASSUME NEW r, NEW a, NEW q \in Database, NEW m, Applies(r, a, m),
         q.rows = a.rows, q.links = a.links, q.deps = a.deps, q.version = a.version,
         q.elements = a.elements, q.conflicts = a.conflicts, q.upgraded = a.upgraded
  PROVE  Applies(r, q, m)
<1>1. /\ \A t : LiveElements(q, t) = LiveElements(a, t)
      /\ \A x : Exists(q, x) <=> Exists(a, x)
  BY DEF LiveElements, Exists
<1>2. ASSUME NEW t, Rebuilt(r, a, m.entity, t) PROVE Rebuilt(r, q, m.entity, t)
  <2>1. a.deps[t] = IF t = m.entity /\ Exists(a, m.entity)
                    THEN {x \in LiveElements(a, m.entity) \ {m.entity} : Exists(a, x)}
                    ELSE r.deps[t]
    BY <1>2 DEF Rebuilt
  <2>2. q.deps[t] = a.deps[t]
    OBVIOUS
  <2> QED
    BY ONLY <1>1, <2>1, <2>2 DEF Rebuilt
<1>3. MergesRow(r, a, m) => MergesRow(r, q, m)
  BY DEF MergesRow
<1> QED
  BY <1>1, <1>2, <1>3 DEF Applies

\* A mutation held back is merged.
LEMMA DrainsMerge ==
  ASSUME NEW d \in Device, NEW r, NEW q, Based(d, r), HeldBack(d, r), Drains(d, r, q)
  PROVE  (\E m \in MutationSet : Merges(r, q, m)) /\ HeldBack(d, q)
<1>1. r \in Database /\ Sound(r) /\ log \in Seq(MutationSet)
  BY DEF Based
<1>2. PICK p \in r.deferred :
        /\ Outcome(r, log[p]) # "deferred"
        /\ AlreadyLocal(d, log[p]) \/ ~ForeignKeyFails(r, log[p])
        /\ q = [ApplyMutation(r, log[p]) EXCEPT !.deferred = @ \ {p}]
  BY DEF Drains
<1> DEFINE m == log[p]
           a == ApplyMutation(r, m)
<1>3. p \in r.received /\ p \in 1 .. Len(log) /\ m \in MutationSet
  BY <1>1, <1>2 DEF Sound
<1>4. ~ForeignKeyFails(r, m)
  BY <1>2 DEF HeldBack, AlreadyLocal
<1>5. Applies(r, a, m) /\ Bookkeeping(a) = Bookkeeping(r) /\ a \in Database
  BY <1>1, <1>3, ApplyEffect, ApplyKeepsBookkeeping, ApplyType
<1>6. q = [a EXCEPT !.deferred = @ \ {p}]
  BY <1>2
<1> HIDE DEF a
<1>7. /\ q \in Database /\ q.rows = a.rows /\ q.deps = a.deps /\ q.version = a.version
      /\ q.links = a.links
      /\ q.elements = a.elements /\ q.conflicts = a.conflicts /\ q.upgraded = a.upgraded
      /\ q.mutations = a.mutations /\ q.received = a.received /\ q.deferred = a.deferred \ {p}
  BY <1>5, <1>6 DEF Database
<1>8. Applies(r, q, m)
  BY <1>5, <1>7, AppliesAlike
<1>9. /\ q.mutations = r.mutations /\ q.received = r.received /\ q.deferred = r.deferred \ {p}
  BY <1>5, <1>7 DEF Bookkeeping
<1>10. Own(q) = Own(r)
  BY <1>9 DEF Own
<1>11. Known(q) = Known(r) \cup {m}
  BY <1>3, <1>9, <1>10 DEF Known
<1>12. MergedBy(q) = MergedBy(r) \cup {m}
  <2>1. q.received \ q.deferred = (r.received \ r.deferred) \cup {p}
    BY <1>3, <1>9
  <2> QED
    BY <1>10, <2>1 DEF MergedBy
<1>13. HeldBack(d, q)
  BY <1>9 DEF HeldBack
<1>14. Merges(r, q, m)
  <2>1. \A n \in Known(r) : n.key = m.key => n = m
    BY <1>3 DEF Based
  <2>2. q.rows = ApplyMutation(r, m).rows /\ q.deps = ApplyMutation(r, m).deps
    BY <1>7 DEF a
  <2> QED
    BY <1>2, <1>3, <1>4, <1>8, <1>11, <1>12, <2>1, <2>2 DEF Merges
<1> QED
  BY <1>3, <1>13, <1>14

\* A mutation is received: this computer's own is known already.
LEMMA ReceivesMerge ==
  ASSUME NEW d \in Device, NEW r, NEW q, Based(d, r), HeldBack(d, r), Registers(r),
         Receives(d, r, q)
  PROVE  (Stays(r, q) \/ \E m \in MutationSet : Merges(r, q, m)) /\ HeldBack(d, q)
<1>1. r \in Database /\ Sound(r) /\ log \in Seq(MutationSet)
  BY DEF Based
<1>2. PICK p \in 1 .. Len(log) :
        /\ AlreadyLocal(d, log[p]) \/ ~ForeignKeyFails(r, log[p])
        /\ r.upgraded => r.deferred = {}
        /\ q = Received(d, r, p)
  BY DEF Receives
<1> DEFINE m    == log[p]
           a    == IF AlreadyLocal(d, m) THEN r ELSE ApplyMutation(r, m)
           held == /\ ~AlreadyLocal(d, m)
                   /\ p \notin r.received
                   /\ Outcome(r, m) = "deferred"
<1>3. p \in Nat /\ m \in MutationSet
  BY <1>1
<1>4. a \in Database /\ Bookkeeping(a) = Bookkeeping(r)
  BY <1>1, <1>3, ApplyType, ApplyKeepsBookkeeping
<1>5. q = [a EXCEPT !.received = @ \cup {p}, !.deferred = IF held THEN @ \cup {p} ELSE @]
  BY <1>2 DEF Received
<1>6. held \in BOOLEAN
  OBVIOUS
<1> HIDE DEF held, a
<1>7. PICK deferred : deferred = IF held THEN a.deferred \cup {p} ELSE a.deferred
  OBVIOUS
<1>8. deferred \in SUBSET Nat /\ a.received \cup {p} \in SUBSET Nat
  BY <1>3, <1>4, <1>7 DEF Database
<1>9. q = [a EXCEPT !.received = a.received \cup {p}, !.deferred = deferred]
  BY <1>5, <1>7
<1>10. /\ q \in Database /\ q.rows = a.rows /\ q.deps = a.deps /\ q.version = a.version
       /\ q.links = a.links
       /\ q.elements = a.elements /\ q.conflicts = a.conflicts /\ q.upgraded = a.upgraded
       /\ q.mutations = a.mutations /\ q.received = a.received \cup {p} /\ q.deferred = deferred
  BY <1>4, <1>8, <1>9 DEF Database
<1>11. /\ q.mutations = r.mutations /\ q.received = r.received \cup {p}
       /\ held => q.deferred = r.deferred \cup {p}
       /\ ~held => q.deferred = r.deferred
  BY <1>4, <1>7, <1>10 DEF Bookkeeping
<1>12. Own(q) = Own(r)
  BY <1>11 DEF Own
<1>13. Known(q) = Known(r) \cup {m}
  BY <1>11, <1>12 DEF Known
<1>14. HeldBack(d, q)
  <2>1. held => m.entity \in Unmapped /\ m.key.device # d
    BY DEF held, AlreadyLocal, Outcome, Understands
  <2> QED
    BY <1>11, <2>1 DEF HeldBack
<1>15. CASE AlreadyLocal(d, m)
  <2>1. m \in Own(r)
    BY <1>2, <1>15 DEF Based, AlreadyLocal
  <2>2. ~held /\ a = r
    BY <1>15 DEF held, a
  <2>3. MergedBy(q) = MergedBy(r)
    <3>1. MergedBy(q) \subseteq MergedBy(r) \cup {m}
      BY <1>11, <1>12, <2>2 DEF MergedBy
    <3>2. MergedBy(r) \subseteq MergedBy(q)
      <4>1. r.received \ r.deferred \subseteq q.received \ q.deferred
        BY <1>11, <2>2
      <4> QED
        BY <1>12, <4>1 DEF MergedBy
    <3>3. m \in MergedBy(r)
      BY <2>1 DEF MergedBy
    <3> QED
      BY <3>1, <3>2, <3>3
  <2>4. m \in Known(r)
    BY <2>1 DEF Known
  <2>5. Stays(r, q)
    BY <1>10, <1>13, <2>2, <2>3, <2>4 DEF Stays, SameConflicts
  <2> QED
    BY <1>14, <2>5
<1>16. CASE ~AlreadyLocal(d, m)
  <2>1. a = ApplyMutation(r, m) /\ (held <=> p \notin r.received /\ Outcome(r, m) = "deferred")
    BY <1>16 DEF a, held
  <2>2. Applies(r, a, m)
    BY <1>1, <1>3, <2>1, ApplyEffect
  <2>3. Applies(r, q, m)
    BY <1>10, <2>2, AppliesAlike
  <2>4. p \in r.deferred => Outcome(r, m) # "applied"
    <3>1. p \in r.deferred => m.entity \in Unmapped /\ ~r.upgraded
      BY <1>2 DEF HeldBack
    <3> QED
      BY <3>1 DEF Outcome, Understands
  <2>5. p \in r.received \ r.deferred => Outcome(r, m) # "deferred"
    <3>1. p \in r.received \ r.deferred => m \in MergedBy(r)
      BY DEF MergedBy
    <3>2. m \in MergedBy(r) => IsStale(r, m)
      BY <1>3, MutationParts DEF Registers, IsStale
    <3> QED
      BY <3>1, <3>2 DEF Outcome
  <2>6. \/ MergedBy(q) = MergedBy(r) \cup {m} /\ Outcome(r, m) # "deferred"
        \/ MergedBy(q) = MergedBy(r) /\ Outcome(r, m) # "applied"
    <3>1. CASE held
      <4>1. q.received \ q.deferred = (r.received \ r.deferred) \ {p} /\ p \notin r.received
        BY <1>11, <2>1, <3>1
      <4>2. q.received \ q.deferred = r.received \ r.deferred
        BY <4>1
      <4> QED
        BY <1>12, <2>1, <3>1, <4>2 DEF MergedBy
    <3>2. CASE ~held /\ p \in r.deferred
      <4>1. q.received \ q.deferred = r.received \ r.deferred
        BY <1>11, <3>2
      <4> QED
        BY <1>12, <2>4, <3>2, <4>1 DEF MergedBy
    <3>3. CASE ~held /\ p \notin r.deferred
      <4>1. q.received \ q.deferred = (r.received \ r.deferred) \cup {p}
        BY <1>11, <3>3
      <4>2. Outcome(r, m) # "deferred"
        BY <2>1, <2>5, <3>3
      <4> QED
        BY <1>12, <4>1, <4>2 DEF MergedBy
    <3> QED
      BY <3>1, <3>2, <3>3
  <2>7. \A n \in Known(r) : n.key = m.key => n = m
    BY <1>2 DEF Based
  <2>8. q.rows = ApplyMutation(r, m).rows /\ q.deps = ApplyMutation(r, m).deps
    BY <1>10, <2>1
  <2>9. Merges(r, q, m)
    BY <1>2, <1>13, <1>16, <2>3, <2>6, <2>7, <2>8 DEF Merges
  <2> QED
    BY <1>3, <1>14, <2>9
<1> QED
  BY <1>15, <1>16

-----------------------------------------------------------------------------
(* Registers and set elements                                                 *)

\* Everything that may happen to the contents of a database; the last case is
\* a row that lost its mutation in a crash, or is never replicated.
Replicates(r, q) ==
  \/ Stays(r, q)
  \/ \E e \in Entity \ LocalOnly : \E m \in MutationSet : Records(r, q, e, m)
  \/ \E m \in MutationSet : Merges(r, q, m)
  \/ \E e \in LocalOnly : Rewrites(r, q, e)

Evolves(r, q) == Replicates(r, q) \/ \E e \in Entity : Rewrites(r, q, e)

\* What is known is mutations, and what is merged is known.
OfMutations(r) == r \in Database /\ Known(r) \subseteq MutationSet /\ MergedBy(r) \subseteq Known(r)

LEMMA RegistersMove ==
  ASSUME NEW r, NEW q, OfMutations(r), Registers(r), Evolves(r, q)
  PROVE  Registers(q)
<1>1. /\ \A e \in Entity : r.version[e] \in Key(Device) \cup {NoKey}
      /\ r.version \in [Entity -> Key(Device) \cup {NoKey}]
      /\ \A n \in MergedBy(r) : n.key \in Key(Device) /\ n.key # NoKey /\ n \in Known(r)
  BY MutationParts DEF OfMutations, Database
<1>2. CASE Stays(r, q) \/ \E e \in Entity : Rewrites(r, q, e)
  BY <1>2 DEF Stays, Rewrites, Registers
<1>3. CASE \E e \in Entity : \E m \in MutationSet : Records(r, q, e, m)
  <2>1. PICK e \in Entity, m \in MutationSet : Records(r, q, e, m)
    BY <1>3
  <2>2. /\ q.version = [r.version EXCEPT ![e] = m.key] /\ MergedBy(q) = MergedBy(r) \cup {m}
        /\ m.entity = e /\ \A n \in MergedBy(r) : AtMost(n.key, m.key)
    BY <1>1, <2>1 DEF Records, AtMost
  <2>3. AtMost(m.key, m.key)
    BY DEF AtMost
  <2> QED
    BY <1>1, <2>2, <2>3 DEF Registers
<1>4. CASE \E m \in MutationSet : Merges(r, q, m)
  <2>1. PICK m \in MutationSet : Merges(r, q, m)
    BY <1>4
  <2>2. m.key \in Key(Device) /\ m.key # NoKey /\ m.entity \in Entity /\ AtMost(m.key, m.key)
    BY MutationParts DEF AtMost
  <2>3. CASE Outcome(r, m) = "applied"
    <3>1. q.version = [r.version EXCEPT ![m.entity] = m.key] /\ MergedBy(q) = MergedBy(r) \cup {m}
      BY <2>1, <2>3 DEF Merges, Applies
    <3>2. ~AtMost(m.key, r.version[m.entity])
      BY <2>3 DEF Outcome, IsStale
    <3>3. AtMost(r.version[m.entity], m.key)
      BY <1>1, <2>2, <3>2, KeyOrder DEF AtMost
    <3>4. \A n \in MergedBy(r) : n.entity = m.entity => AtMost(n.key, m.key)
      <4> SUFFICES ASSUME NEW n \in MergedBy(r), n.entity = m.entity
                   PROVE  AtMost(n.key, m.key)
        OBVIOUS
      <4>1. AtMost(n.key, r.version[m.entity])
        BY <2>2 DEF Registers
      <4> QED
        BY <1>1, <2>2, <3>3, <4>1, KeyOrder
    <3>5. ASSUME NEW e \in Entity
          PROVE  /\ q.version[e] = NoKey \/ \E n \in MergedBy(q) : n.entity = e /\ n.key = q.version[e]
                 /\ \A n \in MergedBy(q) : n.entity = e => AtMost(n.key, q.version[e])
      <4>1. CASE e = m.entity
        BY <1>1, <2>2, <3>1, <3>4, <4>1
      <4>2. CASE e # m.entity
        BY <1>1, <2>2, <3>1, <4>2 DEF Registers
      <4> QED
        BY <4>1, <4>2
    <3> QED
      BY <3>5 DEF Registers
  <2>4. CASE Outcome(r, m) # "applied"
    <3>1. q.version = r.version
      BY <2>1, <2>4 DEF Merges, Applies
    <3>2. CASE MergedBy(q) = MergedBy(r)
      BY <3>1, <3>2 DEF Registers
    <3>3. CASE MergedBy(q) = MergedBy(r) \cup {m} /\ Outcome(r, m) # "deferred"
      <4>1. AtMost(m.key, r.version[m.entity])
        BY <2>4, <3>3 DEF Outcome, IsStale
      <4> QED
        BY <3>1, <3>3, <4>1 DEF Registers
    <3> QED
      BY <2>1, <3>2, <3>3 DEF Merges
  <2> QED
    BY <2>3, <2>4
<1> QED
  BY <1>2, <1>3, <1>4 DEF Evolves, Replicates

\* One more mutation is known, and the newer element wins.
LEMMA SaysMore ==
  ASSUME NEW known \in SUBSET MutationSet, NEW m \in MutationSet, NEW t \in Task, NEW x \in Task,
         NEW old, NEW new, NEW more, Says(known, t, x, old), more = known \cup {m},
         new = IF Touches(m, t, x) /\ Before(old.key, m.key)
               THEN [key |-> m.key, live |-> x \in m.added] ELSE old
  PROVE  Says(more, t, x, new)
<1>1. /\ m.key \in Key(Device) /\ m.key # NoKey /\ AtMost(m.key, m.key)
      /\ \A n \in known : n.key \in Key(Device)
  BY MutationParts DEF AtMost
<1>2. CASE ~Touches(m, t, x)
  <2>1. new = old
    BY <1>2
  <2> QED
    BY <1>2, <2>1 DEF Says
<1>3. CASE Touches(m, t, x) /\ old = NoElement /\ \A n \in known : ~Touches(n, t, x)
  <2>1. Before(NoKey, m.key) /\ old.key = NoKey
    BY <1>1, <1>3, KeyOrder DEF NoElement
  <2>2. new = [key |-> m.key, live |-> x \in m.added]
    BY <1>3, <2>1
  <2> QED
    BY <1>1, <1>3, <2>2 DEF Says
<1>4. CASE Touches(m, t, x) /\ \E n \in known :
             /\ Touches(n, t, x)
             /\ \A k \in known : Touches(k, t, x) => AtMost(k.key, n.key)
             /\ old = [key |-> n.key, live |-> x \in n.added]
  <2>1. PICK n \in known : /\ Touches(n, t, x)
                           /\ \A k \in known : Touches(k, t, x) => AtMost(k.key, n.key)
                           /\ old = [key |-> n.key, live |-> x \in n.added]
    BY <1>4
  <2>2. old.key = n.key
    BY <2>1
  <2>3. CASE Before(n.key, m.key)
    <3>1. new = [key |-> m.key, live |-> x \in m.added]
      BY <1>4, <2>2, <2>3
    <3>2. AtMost(n.key, m.key)
      BY <2>3 DEF AtMost
    <3>3. \A k \in known : Touches(k, t, x) => AtMost(k.key, m.key)
      BY <1>1, <2>1, <3>2, KeyOrder
    <3> QED
      BY <1>1, <1>4, <3>1, <3>3 DEF Says
  <2>4. CASE ~Before(n.key, m.key)
    <3>1. new = old
      BY <2>2, <2>4
    <3>2. AtMost(m.key, n.key)
      BY <1>1, <2>4, KeyOrder
    <3> QED
      BY <2>1, <3>1, <3>2 DEF Says
  <2> QED
    BY <2>3, <2>4
<1> QED
  BY <1>2, <1>3, <1>4 DEF Says

LEMMA ElementsMove ==
  ASSUME NEW r, NEW q, OfMutations(r), Elements(r), Evolves(r, q)
  PROVE  Elements(q)
<1>1. CASE Stays(r, q) \/ \E e \in Entity : Rewrites(r, q, e)
  BY <1>1 DEF Stays, Rewrites, Elements
<1>2. CASE \E e \in Entity : \E m \in MutationSet : Records(r, q, e, m)
  <2>1. PICK e \in Entity, m \in MutationSet : Records(r, q, e, m)
    BY <1>2
  <2>0. Known(q) = Known(r) \cup {m}
    BY <2>1 DEF Records
  <2>2. ASSUME NEW t \in Task, NEW x \in Task
        PROVE  Says(Known(q), t, x, q.elements[t][x])
    <3> DEFINE old == r.elements[t][x]
               new == q.elements[t][x]
    <3>1. Says(Known(r), t, x, old)
      BY DEF Elements
    <3>2. Before(old.key, m.key)
      <4>1. CASE old = NoElement
        <5>1. old.key = NoKey
          BY <4>1 DEF NoElement
        <5> QED
          BY <5>1, MutationParts, KeyOrder
      <4>2. CASE \E n \in Known(r) : old = [key |-> n.key, live |-> x \in n.added]
        <5>1. \E n \in Known(r) : old.key = n.key
          BY <4>2
        <5> QED
          BY <2>1, <5>1 DEF Records
      <4> QED
        BY <3>1, <4>1, <4>2 DEF Says
    <3>3. new = IF Touches(m, t, x) /\ AtMost(old.key, m.key)
                THEN [key |-> m.key, live |-> x \in m.added] ELSE old
      BY <2>1 DEF Records
    <3>4. AtMost(old.key, m.key)
      BY <3>2 DEF AtMost
    <3> HIDE DEF old, new
    <3>5. new = IF Touches(m, t, x) /\ Before(old.key, m.key)
                THEN [key |-> m.key, live |-> x \in m.added] ELSE old
      BY ONLY <3>2, <3>3, <3>4
    <3>6. Known(r) \in SUBSET MutationSet
      BY DEF OfMutations
    <3> QED
      BY <2>0, <3>1, <3>5, <3>6, SaysMore DEF new
  <2> QED
    BY <2>2 DEF Elements
<1>3. CASE \E m \in MutationSet : Merges(r, q, m)
  <2>1. PICK m \in MutationSet : Merges(r, q, m)
    BY <1>3
  <2>0. Known(q) = Known(r) \cup {m}
    BY <2>1 DEF Merges
  <2>2. ASSUME NEW t \in Task, NEW x \in Task
        PROVE  Says(Known(q), t, x, q.elements[t][x])
    <3> DEFINE old == r.elements[t][x]
               new == q.elements[t][x]
    <3>1. Says(Known(r), t, x, old)
      BY DEF Elements
    <3>2. new = IF Touches(m, t, x) /\ Before(old.key, m.key)
                THEN [key |-> m.key, live |-> x \in m.added] ELSE old
      BY <2>1 DEF Merges, Applies
    <3>3. Known(r) \in SUBSET MutationSet
      BY DEF OfMutations
    <3> HIDE DEF old, new
    <3> QED
      BY <2>0, <3>1, <3>2, <3>3, SaysMore DEF new
  <2> QED
    BY <2>2 DEF Elements
<1> QED
  BY <1>1, <1>2, <1>3 DEF Evolves, Replicates

\* The newest mutations of the records that a change does not concern stay.
LEMMA NewestStays ==
  ASSUME NEW r, NEW q, Stays(r, q), NEW x \in Entity
  PROVE  q.version[x] = r.version[x] /\ Newest(q, x) = Newest(r, x)
BY DEF Stays, Newest

LEMMA NewestRewritten ==
  ASSUME NEW r, NEW q, NEW e \in Entity, Rewrites(r, q, e), NEW x \in Entity
  PROVE  q.version[x] = r.version[x] /\ Newest(q, x) = Newest(r, x)
BY DEF Rewrites, Newest

LEMMA NewestRecorded ==
  ASSUME NEW r, NEW q, OfMutations(r), NEW x \in Entity,
         NEW e \in Entity, NEW m \in MutationSet, Records(r, q, e, m)
  PROVE  /\ x = e => q.version[x] = m.key /\ Newest(q, x) = {m}
         /\ x # e => q.version[x] = r.version[x] /\ Newest(q, x) = Newest(r, x)
<1>1. /\ r.version \in [Entity -> Key(Device) \cup {NoKey}]
      /\ \A n \in MergedBy(r) : n \in Known(r) /\ n.key \in Key(Device)
  BY MutationParts DEF OfMutations, Database
<1>2. /\ q.version = [r.version EXCEPT ![e] = m.key] /\ MergedBy(q) = MergedBy(r) \cup {m}
      /\ m.entity = e /\ \A n \in MergedBy(r) : Before(n.key, m.key)
  BY <1>1 DEF Records
<1>3. \A n \in MergedBy(r) : n.key # m.key
  BY <1>1, <1>2, MutationParts, KeyOrder DEF AtMost
<1> QED
  BY <1>1, <1>2, <1>3 DEF Newest

LEMMA NewestMerged ==
  ASSUME NEW r, NEW q, OfMutations(r), Registers(r), NEW x \in Entity,
         NEW m \in MutationSet, Merges(r, q, m)
  PROVE  /\ Outcome(r, m) = "applied" /\ x = m.entity =>
              q.version[x] = m.key /\ Newest(q, x) = {m}
         /\ Outcome(r, m) # "applied" \/ x # m.entity =>
              q.version[x] = r.version[x] /\ Newest(q, x) = Newest(r, x)
<1>1. /\ r.version \in [Entity -> Key(Device) \cup {NoKey}]
      /\ \A n \in MergedBy(r) : n \in Known(r) /\ n.key \in Key(Device)
  BY MutationParts DEF OfMutations, Database
<1>2. /\ m.entity \in Entity /\ m.key # NoKey
      /\ \A n \in MergedBy(r) : n.key = m.key => n = m
  BY <1>1, MutationParts DEF Merges
<1>3. CASE Outcome(r, m) = "applied"
  <2>1. q.version = [r.version EXCEPT ![m.entity] = m.key] /\ MergedBy(q) = MergedBy(r) \cup {m}
    BY <1>3 DEF Merges, Applies
  <2> QED
    BY <1>1, <1>2, <1>3, <2>1 DEF Newest
<1>4. CASE Outcome(r, m) # "applied"
  <2>1. q.version = r.version /\ (MergedBy(q) = MergedBy(r) \/ MergedBy(q) = MergedBy(r) \cup {m})
    BY <1>4 DEF Merges, Applies
  <2>2. m.entity = x /\ m.key = r.version[x] => m \in MergedBy(r)
    BY <1>2 DEF Registers
  <2> QED
    BY <1>4, <2>1, <2>2 DEF Newest
<1> QED
  BY <1>3, <1>4

-----------------------------------------------------------------------------
(* Rows                                                                       *)

LEMMA RowParts ==
  ASSUME NEW r \in Database, NEW e \in Entity
  PROVE  r.rows[e] \in Row \cup {None} /\ r.rows \in [Entity -> Row \cup {None}]
BY DEF Database

\* A change of one row leaves every other one, but those it cascades to.
LEMMA OtherRows ==
  ASSUME NEW r \in Database, NEW q, NEW e \in Entity, NEW x \in Entity, x # e,
         RowsChange(r, q, e)
  PROVE  q.rows[x] = r.rows[x] \/ (q.rows[x] = None /\ Parent[x] = e)
<1>1. CASE Written(r, q, e)
  BY <1>1, RowParts DEF Written
<1>2. CASE q.rows = DeleteRow(r, e).rows
  BY <1>2, DeleteEffect
<1> QED
  BY <1>1, <1>2 DEF RowsChange

\* The row of a merged mutation.
LEMMA MergedRowParts ==
  ASSUME NEW r \in Database, NEW m \in MutationSet, m.snapshot # None
  PROVE  LET row == MergedRow(r, m)
         IN  /\ row \in Row /\ row # None /\ row.value = m.snapshot.value
             /\ Exists(r, m.entity) =>
                  /\ row.date = r.rows[m.entity].date
                  /\ row.done = (m.snapshot.done \/ r.rows[m.entity].done)
             /\ ~Exists(r, m.entity) => row = m.snapshot
<1>1. m.snapshot \in Row /\ r.rows[m.entity] \in Row \cup {None}
  BY MutationParts, RowParts
<1>2. CASE Exists(r, m.entity)
  <2>1. r.rows[m.entity] \in Row
    BY <1>1, <1>2 DEF Exists
  <2>2. PICK done \in BOOLEAN : done = (m.snapshot.done \/ r.rows[m.entity].done)
    BY Zenon
  <2>3. MergedRow(r, m) = [m.snapshot EXCEPT !.date = r.rows[m.entity].date, !.done = done]
    BY <1>2, <2>2 DEF MergedRow
  <2>4. /\ MergedRow(r, m) \in Row /\ MergedRow(r, m).value = m.snapshot.value
        /\ MergedRow(r, m).date = r.rows[m.entity].date /\ MergedRow(r, m).done = done
    BY <1>1, <2>1, <2>3 DEF Row
  <2> QED
    BY <1>2, <2>2, <2>4, SchemaAssumption
<1>3. CASE ~Exists(r, m.entity)
  <2>1. MergedRow(r, m) = m.snapshot
    BY <1>3 DEF MergedRow
  <2> QED
    BY <1>1, <1>3, <2>1, SchemaAssumption
<1> QED
  BY <1>2, <1>3

\* Merging a mutation changes the row of its record, and deletes what goes with it.
LEMMA MergedRows ==
  ASSUME NEW r \in Database, NEW q, NEW m \in MutationSet, Applies(r, q, m), NEW x \in Entity
  PROVE  /\ Outcome(r, m) # "applied" => q.rows[x] = r.rows[x]
         /\ x # m.entity => q.rows[x] = r.rows[x] \/ (q.rows[x] = None /\ Parent[x] = m.entity)
         /\ Outcome(r, m) = "applied" /\ x = m.entity =>
              /\ m.snapshot # None => q.rows[x] = MergedRow(r, m)
              /\ m.snapshot = None =>
                   \/ q.rows[x] = None
                   \/ q.rows[x] = r.rows[x] /\ r.rows[x].done
<1>1. Outcome(r, m) # "applied" => q.rows[x] = r.rows[x]
  BY DEF Applies
<1>2. CASE Outcome(r, m) = "applied"
  <2>1. MergesRow(r, q, m) /\ m.entity \in Entity
    BY <1>2, MutationParts DEF Applies
  <2>2. CASE m.snapshot # None
    <3>1. q.rows = [r.rows EXCEPT ![m.entity] = MergedRow(r, m)]
      BY <2>1, <2>2 DEF MergesRow
    <3> QED
      BY <1>2, <2>1, <2>2, <3>1, RowParts
  <2>3. CASE m.snapshot = None /\ DeletesRow(r, m)
    BY <1>2, <2>1, <2>3 DEF MergesRow
  <2>4. CASE m.snapshot = None /\ ~DeletesRow(r, m)
    <3>1. q.rows = r.rows
      BY <2>1, <2>4 DEF MergesRow
    <3>2. r.rows[m.entity] = None \/ r.rows[m.entity].done
      BY <2>4 DEF DeletesRow, Exists
    <3> QED
      BY <1>2, <2>4, <3>1, <3>2
  <2> QED
    BY <2>2, <2>3, <2>4
<1> QED
  BY <1>1, <1>2

LEMMA ParentApart ==
  ASSUME NEW x \in Entity, NEW e \in Entity, Parent[x] = None
  PROVE  Parent[x] # e
BY DEF RecordAssumption

\* Records without a critical date and a completion stay so.
PlainLog == \A p \in 1 .. Len(log) : log[p].entity \notin Task \cup Dated => PlainRow(log[p].snapshot)

LEMMA PlainRowsMove ==
  ASSUME NEW r, NEW q, OfMutations(r), PlainRows(r), PlainLog, Evolves(r, q)
  PROVE  PlainRows(q)
<1>1. r \in Database
  BY DEF OfMutations
<1>2. \A c \in r.conflicts : c.entity \in Task \cup Dated
  BY DEF PlainRows
<1>3. \A e \in Entity \ (Task \cup Dated) : PlainRow(r.rows[e])
  BY DEF PlainRows
<1>4. \A m \in Known(r) : m.entity \notin Task \cup Dated => PlainRow(m.snapshot)
  BY DEF PlainRows
<1>5. ASSUME NEW e \in Entity, RowsChange(r, q, e), NEW x \in Entity \ (Task \cup Dated)
      PROVE  PlainRow(q.rows[x])
  <2>1. CASE x # e
    BY <1>1, <1>3, <1>5, <2>1, OtherRows DEF PlainRow
  <2>2. CASE x = e
    <3>1. CASE Written(r, q, e)
      <4>1. PICK row \in Row : /\ q.rows = [r.rows EXCEPT ![e] = row]
                               /\ e \notin Task \cup Dated /\ PlainRow(r.rows[e]) => PlainRow(row)
        BY <3>1 DEF Written
      <4> QED
        BY <1>1, <1>3, <2>2, <4>1, RowParts
    <3>2. CASE q.rows = DeleteRow(r, e).rows
      <4>1. q.rows[x] = None
        BY <1>1, <2>2, <3>2, DeleteEffect
      <4> QED
        BY <4>1 DEF PlainRow
    <3>3. CASE q.rows = r.rows
      BY <1>3, <3>3
    <3> QED
      BY <1>5, <3>1, <3>2, <3>3 DEF RowsChange
  <2> QED
    BY <2>1, <2>2
<1>6. CASE Stays(r, q)
  BY <1>2, <1>3, <1>4, <1>6 DEF Stays, SameConflicts, PlainRows
<1>7. CASE \E e \in Entity : Rewrites(r, q, e)
  <2>1. PICK e \in Entity : Rewrites(r, q, e)
    BY <1>7
  <2> QED
    BY <1>2, <1>4, <1>5, <2>1 DEF Rewrites, SameConflicts, PlainRows
<1>8. CASE \E e \in Entity, m \in MutationSet : Records(r, q, e, m)
  <2>1. PICK e \in Entity, m \in MutationSet : Records(r, q, e, m)
    BY <1>8
  <2>2. \A x \in Entity \ (Task \cup Dated) : PlainRow(q.rows[x])
    BY <1>5, <2>1 DEF Records
  <2>3. m.entity = e /\ m.snapshot = q.rows[e] /\ Known(q) = Known(r) \cup {m} /\ SameConflicts(r, q)
    BY <2>1 DEF Records
  <2> QED
    BY <1>2, <1>4, <2>2, <2>3 DEF SameConflicts, PlainRows
<1>9. CASE \E m \in MutationSet : Merges(r, q, m)
  <2>1. PICK m \in MutationSet : Merges(r, q, m)
    BY <1>9
  <2>2. Applies(r, q, m) /\ Known(q) = Known(r) \cup {m} /\ m \in {log[p] : p \in 1 .. Len(log)}
    BY <2>1 DEF Merges
  <2>3. m.entity \notin Task \cup Dated => PlainRow(m.snapshot)
    BY <2>2 DEF PlainLog
  <2>4. \A c \in q.conflicts : c.entity \in Task \cup Dated
    <3>1. \A c \in q.conflicts : c \in r.conflicts \/ Asks(r, m, c)
      BY <2>2 DEF Applies
    <3> QED
      BY <1>2, <3>1 DEF Asks
  <2>5. ASSUME NEW x \in Entity \ (Task \cup Dated)
        PROVE  PlainRow(q.rows[x])
    <3>1. CASE x # m.entity \/ Outcome(r, m) # "applied"
      BY <1>1, <1>3, <2>2, <3>1, MergedRows DEF PlainRow
    <3>2. CASE x = m.entity /\ Outcome(r, m) = "applied" /\ m.snapshot # None
      <4>1. q.rows[x] = MergedRow(r, m)
        BY <1>1, <2>2, <3>2, MergedRows
      <4>2. m.snapshot.date = DefaultDate /\ m.snapshot.done = FALSE
        BY <2>3, <3>2, MutationParts DEF PlainRow, Row
      <4>3. CASE Exists(r, m.entity)
        <5>1. r.rows[m.entity].date = DefaultDate /\ ~r.rows[m.entity].done
          BY <1>3, <3>2, <4>3 DEF PlainRow, Exists
        <5>2. MergedRow(r, m).date = DefaultDate /\ ~MergedRow(r, m).done
          BY <1>1, <3>2, <4>2, <4>3, <5>1, MergedRowParts
        <5> QED
          BY <4>1, <5>2 DEF PlainRow
      <4>4. CASE ~Exists(r, m.entity)
        <5>1. MergedRow(r, m) = m.snapshot
          BY <1>1, <3>2, <4>4, MergedRowParts
        <5> QED
          BY <2>3, <3>2, <4>1, <5>1
      <4> QED
        BY <4>3, <4>4
    <3>3. CASE x = m.entity /\ Outcome(r, m) = "applied" /\ m.snapshot = None
      BY <1>1, <1>3, <2>2, <3>3, MergedRows DEF PlainRow
    <3> QED
      BY <3>1, <3>2, <3>3
  <2> QED
    BY <1>4, <2>2, <2>3, <2>4, <2>5 DEF PlainRows
<1> QED
  BY <1>6, <1>7, <1>8, <1>9 DEF Evolves, Replicates

\* What the last writer decides alone is the newest mutation's.
LEMMA LastWrittenMoves ==
  ASSUME NEW r, NEW q, OfMutations(r), Registers(r), PlainRows(r), PlainRows(q), LastWritten(r),
         Replicates(r, q)
  PROVE  LastWritten(q)
<1> SUFFICES ASSUME NEW x \in Plain
             PROVE  /\ q.version[x] = NoKey => q.rows[x] = None
                    /\ \A n \in Newest(q, x) : q.rows[x] = n.snapshot
  BY DEF LastWritten
<1>1. /\ r \in Database /\ x \in Entity \ (Task \cup Dated) /\ x \notin LocalOnly /\ Parent[x] = None
      /\ r.version[x] = NoKey => r.rows[x] = None
      /\ \A n \in Newest(r, x) : r.rows[x] = n.snapshot
  BY DEF OfMutations, Plain, LastWritten
<1>2. \A e \in Entity : Parent[x] # e
  BY <1>1, ParentApart
<1>3. CASE Stays(r, q)
  <2>1. q.version[x] = r.version[x] /\ Newest(q, x) = Newest(r, x)
    BY <1>1, <1>3, NewestStays
  <2>2. q.rows[x] = r.rows[x]
    BY <1>3 DEF Stays
  <2> QED
    BY <1>1, <2>1, <2>2
<1>4. CASE \E e \in LocalOnly : Rewrites(r, q, e)
  <2>1. PICK e \in LocalOnly : Rewrites(r, q, e)
    BY <1>4
  <2>2. e \in Entity /\ x # e
    BY <1>1 DEF RecordAssumption
  <2>3. q.rows[x] = r.rows[x]
    BY <1>1, <1>2, <2>1, <2>2, OtherRows DEF Rewrites
  <2>4. q.version[x] = r.version[x] /\ Newest(q, x) = Newest(r, x)
    BY <1>1, <2>1, <2>2, NewestRewritten
  <2> QED
    BY <1>1, <2>3, <2>4
<1>5. CASE \E e \in Entity \ LocalOnly : \E m \in MutationSet : Records(r, q, e, m)
  <2>1. PICK e \in Entity \ LocalOnly, m \in MutationSet : Records(r, q, e, m)
    BY <1>5
  <2>2. /\ x = e => q.version[x] = m.key /\ Newest(q, x) = {m}
        /\ x # e => q.version[x] = r.version[x] /\ Newest(q, x) = Newest(r, x)
    BY <1>1, <2>1, NewestRecorded
  <2>3. CASE x = e
    <3>1. m.snapshot = q.rows[e]
      BY <2>1 DEF Records
    <3> QED
      BY <2>2, <2>3, <3>1, MutationParts
  <2>4. CASE x # e
    <3>1. q.rows[x] = r.rows[x]
      BY <1>1, <1>2, <2>1, <2>4, OtherRows DEF Records
    <3> QED
      BY <1>1, <2>2, <2>4, <3>1
  <2> QED
    BY <2>3, <2>4
<1>6. CASE \E m \in MutationSet : Merges(r, q, m)
  <2>1. PICK m \in MutationSet : Merges(r, q, m)
    BY <1>6
  <2>2. Applies(r, q, m) /\ Known(q) = Known(r) \cup {m} /\ m.entity \in Entity /\ m.key # NoKey
    BY <2>1, MutationParts DEF Merges
  <2>3. /\ Outcome(r, m) = "applied" /\ x = m.entity =>
             q.version[x] = m.key /\ Newest(q, x) = {m}
        /\ Outcome(r, m) # "applied" \/ x # m.entity =>
             q.version[x] = r.version[x] /\ Newest(q, x) = Newest(r, x)
    BY <1>1, <2>1, NewestMerged
  <2>4. CASE Outcome(r, m) # "applied" \/ x # m.entity
    <3>1. q.rows[x] = r.rows[x]
      BY <1>1, <1>2, <2>2, <2>4, MergedRows
    <3> QED
      BY <1>1, <2>3, <2>4, <3>1
  <2>5. CASE Outcome(r, m) = "applied" /\ x = m.entity
    <3>1. q.rows[x] = m.snapshot
      <4>1. CASE m.snapshot = None
        <5>1. r.rows[x] = None \/ ~r.rows[x].done
          <6>1. PlainRow(r.rows[x])
            BY <1>1 DEF PlainRows
          <6> QED
            BY <6>1, Zenon DEF PlainRow
        <5>2. q.rows[x] = None \/ (q.rows[x] = r.rows[x] /\ r.rows[x].done)
          BY <1>1, <2>2, <2>5, <4>1, MergedRows
        <5> QED
          BY <4>1, <5>1, <5>2
      <4>2. CASE m.snapshot # None
        <5>1. q.rows[x] = MergedRow(r, m)
          BY <1>1, <2>2, <2>5, <4>2, MergedRows
        <5>2. CASE ~Exists(r, x)
          BY <1>1, <2>5, <4>2, <5>1, <5>2, MergedRowParts
        <5>3. CASE Exists(r, x)
          <6>1. m.snapshot \in Row /\ m.snapshot.date = DefaultDate /\ m.snapshot.done = FALSE
            <7>1. PlainRow(m.snapshot)
              BY <1>1, <2>2, <2>5 DEF PlainRows
            <7>2. m.snapshot \in Row
              BY <4>2, MutationParts
            <7> QED
              BY <4>2, <7>1, <7>2 DEF PlainRow, Row
          <6>2. r.rows[x].date = DefaultDate /\ ~r.rows[x].done
            BY <1>1, <5>3 DEF PlainRows, PlainRow, Exists
          <6>3. /\ MergedRow(r, m) \in Row /\ MergedRow(r, m).value = m.snapshot.value
                /\ MergedRow(r, m).date = DefaultDate /\ MergedRow(r, m).done = FALSE
            <7>1. /\ MergedRow(r, m) \in Row /\ MergedRow(r, m).value = m.snapshot.value
                  /\ MergedRow(r, m).date = r.rows[x].date
                  /\ MergedRow(r, m).done = (m.snapshot.done \/ r.rows[x].done)
              BY <1>1, <2>5, <4>2, <5>3, MergedRowParts
            <7>2. (m.snapshot.done \/ r.rows[x].done) = FALSE
              BY <6>1, <6>2, Zenon
            <7> QED
              BY <6>2, <7>1, <7>2
          <6> DEFINE row == MergedRow(r, m)
          <6> HIDE DEF row
          <6>4. ASSUME NEW a \in Row, NEW b \in Row, a.value = b.value, a.date = b.date, a.done = b.done
                PROVE  a = b
            BY <6>4 DEF Row
          <6>5. row = m.snapshot
            BY <6>1, <6>3, <6>4 DEF row
          <6> QED
            BY <5>1, <6>5 DEF row
        <5> QED
          BY <5>2, <5>3
      <4> QED
        BY <4>1, <4>2
    <3> QED
      BY <2>2, <2>3, <2>5, <3>1
  <2> QED
    BY <2>4, <2>5
<1> QED
  BY <1>3, <1>4, <1>5, <1>6 DEF Replicates

\* The newest mutation of every row that exists, and its value ...
LEMMA ValuesMove ==
  ASSUME NEW r, NEW q, OfMutations(r), Registers(r), Values(r), Replicates(r, q)
  PROVE  Values(q)
<1> SUFFICES ASSUME NEW x \in Entity \ LocalOnly, Exists(q, x)
             PROVE  /\ q.version[x] # NoKey
                    /\ \A n \in Newest(q, x) : n.snapshot # None => n.snapshot.value = q.rows[x].value
  BY DEF Values
<1>1. /\ r \in Database /\ x \in Entity
      /\ Exists(r, x) =>
           /\ r.version[x] # NoKey
           /\ \A n \in Newest(r, x) : n.snapshot # None => n.snapshot.value = r.rows[x].value
  BY DEF OfMutations, Values
<1>2. ASSUME q.rows[x] = r.rows[x] \/ q.rows[x] = None, q.version[x] = r.version[x],
             Newest(q, x) = Newest(r, x)
      PROVE  /\ q.version[x] # NoKey
             /\ \A n \in Newest(q, x) : n.snapshot # None => n.snapshot.value = q.rows[x].value
  BY <1>1, <1>2 DEF Exists
<1>3. CASE Stays(r, q)
  <2>1. q.version[x] = r.version[x] /\ Newest(q, x) = Newest(r, x)
    BY <1>1, <1>3, NewestStays
  <2>2. q.rows[x] = r.rows[x]
    BY <1>3 DEF Stays
  <2> QED
    BY <1>2, <2>1, <2>2
<1>4. CASE \E e \in LocalOnly : Rewrites(r, q, e)
  <2>1. PICK e \in LocalOnly : Rewrites(r, q, e)
    BY <1>4
  <2>2. e \in Entity /\ x # e
    BY DEF RecordAssumption
  <2>3. q.version[x] = r.version[x] /\ Newest(q, x) = Newest(r, x)
    BY <1>1, <2>1, <2>2, NewestRewritten
  <2>4. q.rows[x] = r.rows[x] \/ q.rows[x] = None
    BY <1>1, <2>1, <2>2, OtherRows DEF Rewrites
  <2> QED
    BY <1>2, <2>3, <2>4
<1>5. CASE \E e \in Entity \ LocalOnly : \E m \in MutationSet : Records(r, q, e, m)
  <2>1. PICK e \in Entity \ LocalOnly, m \in MutationSet : Records(r, q, e, m)
    BY <1>5
  <2>2. /\ x = e => q.version[x] = m.key /\ Newest(q, x) = {m}
        /\ x # e => q.version[x] = r.version[x] /\ Newest(q, x) = Newest(r, x)
    <3>1. e \in Entity /\ x \in Entity /\ m \in MutationSet /\ OfMutations(r)
      BY <1>1
    <3> QED
      BY ONLY <2>1, <3>1, NewestRecorded
  <2>3. CASE x = e
    <3>1. m.snapshot = q.rows[e]
      BY <2>1 DEF Records
    <3> QED
      BY <2>2, <2>3, <3>1, MutationParts
  <2>4. CASE x # e
    <3>1. q.rows[x] = r.rows[x] \/ q.rows[x] = None
      BY <1>1, <2>1, <2>4, OtherRows DEF Records
    <3> QED
      BY <1>2, <2>2, <2>4, <3>1
  <2> QED
    BY <2>3, <2>4
<1>6. CASE \E m \in MutationSet : Merges(r, q, m)
  <2>1. PICK m \in MutationSet : Merges(r, q, m)
    BY <1>6
  <2>2. Applies(r, q, m) /\ m.key # NoKey
    BY <2>1, MutationParts DEF Merges
  <2>3. /\ Outcome(r, m) = "applied" /\ x = m.entity =>
             q.version[x] = m.key /\ Newest(q, x) = {m}
        /\ Outcome(r, m) # "applied" \/ x # m.entity =>
             q.version[x] = r.version[x] /\ Newest(q, x) = Newest(r, x)
    <3>1. x \in Entity /\ m \in MutationSet /\ OfMutations(r) /\ Registers(r)
      BY <1>1
    <3> QED
      BY ONLY <2>1, <3>1, NewestMerged
  <2>4. CASE Outcome(r, m) # "applied" \/ x # m.entity
    <3>1. q.rows[x] = r.rows[x] \/ q.rows[x] = None
      BY <1>1, <2>2, <2>4, MergedRows
    <3> QED
      BY <1>2, <2>2, <2>3, <2>4, <3>1
  <2>5. CASE Outcome(r, m) = "applied" /\ x = m.entity
    <3>1. m.snapshot # None => q.rows[x].value = m.snapshot.value
      BY <1>1, <2>2, <2>5, MergedRows, MergedRowParts
    <3> QED
      BY <2>2, <2>3, <2>5, <3>1
  <2> QED
    BY <2>4, <2>5
<1> QED
  BY <1>3, <1>4, <1>5, <1>6 DEF Replicates

\* ... and its date, or a conflict about it.
LEMMA FlaggedMoves ==
  ASSUME NEW r, NEW q, OfMutations(r), Registers(r), Flagged(r), Replicates(r, q)
  PROVE  Flagged(q)
<1> DEFINE Told(s, x) ==
      \A n \in Newest(s, x) : n.snapshot # None /\ n.snapshot.date # s.rows[x].date =>
        \E c \in s.conflicts : c.entity = x /\ c.by = n.key
<1> SUFFICES ASSUME NEW x \in Task \cup Dated, Exists(q, x)
             PROVE  Told(q, x)
  BY DEF Flagged
<1>1. r \in Database /\ x \in Entity \ LocalOnly /\ (Exists(r, x) => Told(r, x))
  BY DEF OfMutations, Flagged, RecordAssumption
<1>2. ASSUME q.rows[x] = r.rows[x] \/ q.rows[x] = None, Newest(q, x) = Newest(r, x),
             \A c \in r.conflicts : \E k \in q.conflicts : k.entity = c.entity /\ k.by = c.by
      PROVE  Told(q, x)
  <2>1. q.rows[x] = r.rows[x] /\ Told(r, x)
    BY <1>1, <1>2 DEF Exists
  <2> QED
    BY <1>2, <2>1
<1> HIDE DEF Told
<1>3. CASE Stays(r, q)
  <2>1. Newest(q, x) = Newest(r, x)
    BY <1>1, <1>3, NewestStays
  <2>2. q.rows[x] = r.rows[x] /\ SameConflicts(r, q)
    BY <1>3 DEF Stays
  <2> QED
    BY <1>2, <2>1, <2>2 DEF SameConflicts
<1>4. CASE \E e \in LocalOnly : Rewrites(r, q, e)
  <2>1. PICK e \in LocalOnly : Rewrites(r, q, e)
    BY <1>4
  <2>2. e \in Entity /\ x # e
    BY <1>1 DEF RecordAssumption
  <2>3. Newest(q, x) = Newest(r, x)
    BY <1>1, <2>1, <2>2, NewestRewritten
  <2>4. q.rows[x] = r.rows[x] \/ q.rows[x] = None
    BY <1>1, <2>1, <2>2, OtherRows DEF Rewrites
  <2>5. SameConflicts(r, q)
    BY <2>1 DEF Rewrites
  <2> QED
    BY <1>2, <2>3, <2>4, <2>5 DEF SameConflicts
<1>5. CASE \E e \in Entity \ LocalOnly : \E m \in MutationSet : Records(r, q, e, m)
  <2>1. PICK e \in Entity \ LocalOnly, m \in MutationSet : Records(r, q, e, m)
    BY <1>5
  <2>2. /\ x = e => q.version[x] = m.key /\ Newest(q, x) = {m}
        /\ x # e => q.version[x] = r.version[x] /\ Newest(q, x) = Newest(r, x)
    <3>1. e \in Entity /\ x \in Entity /\ m \in MutationSet /\ OfMutations(r)
      BY <1>1
    <3> QED
      BY ONLY <2>1, <3>1, NewestRecorded
  <2>3. CASE x = e
    BY <2>1, <2>2, <2>3 DEF Records, Told
  <2>4. CASE x # e
    <3>1. q.rows[x] = r.rows[x] \/ q.rows[x] = None
      BY <1>1, <2>1, <2>4, OtherRows DEF Records
    <3>2. SameConflicts(r, q)
      BY <2>1 DEF Records
    <3> QED
      BY <1>2, <2>2, <2>4, <3>1, <3>2 DEF SameConflicts
  <2> QED
    BY <2>3, <2>4
<1>6. CASE \E m \in MutationSet : Merges(r, q, m)
  <2>1. PICK m \in MutationSet : Merges(r, q, m)
    BY <1>6
  <2>2. Applies(r, q, m) /\ r.conflicts \subseteq q.conflicts
    BY <2>1 DEF Merges, Applies
  <2>3. /\ Outcome(r, m) = "applied" /\ x = m.entity =>
             q.version[x] = m.key /\ Newest(q, x) = {m}
        /\ Outcome(r, m) # "applied" \/ x # m.entity =>
             q.version[x] = r.version[x] /\ Newest(q, x) = Newest(r, x)
    BY <1>1, <2>1, NewestMerged
  <2>4. CASE Outcome(r, m) # "applied" \/ x # m.entity
    <3>1. q.rows[x] = r.rows[x] \/ q.rows[x] = None
      BY <1>1, <2>2, <2>4, MergedRows
    <3> QED
      BY <1>2, <2>2, <2>3, <2>4, <3>1
  <2>5. CASE Outcome(r, m) = "applied" /\ x = m.entity
    <3>1. SUFFICES ASSUME m.snapshot # None, m.snapshot.date # q.rows[x].date
                   PROVE  \E c \in q.conflicts : c.entity = x /\ c.by = m.key
      BY <2>3, <2>5 DEF Told
    <3>2. q.rows[x] = MergedRow(r, m)
      BY <1>1, <2>2, <2>5, <3>1, MergedRows
    <3>3. Exists(r, x) /\ r.rows[x].date # m.snapshot.date
      BY <1>1, <2>5, <3>1, <3>2, MergedRowParts
    <3>4. DateDiffers(r, m)
      BY <2>5, <3>1, <3>3 DEF DateDiffers
    <3> QED
      BY <2>2, <2>5, <3>4 DEF Applies
  <2> QED
    BY <2>4, <2>5
<1> QED
  BY <1>3, <1>4, <1>5, <1>6 DEF Replicates

\* Merging takes no completed task away and reopens none.
LEMMA CompletionsKept ==
  ASSUME NEW r, NEW q, OfMutations(r), Stays(r, q) \/ \E m \in MutationSet : Merges(r, q, m)
  PROVE  KeepsCompletions(r, q)
<1>1. CASE Stays(r, q)
  BY <1>1 DEF Stays, KeepsCompletions, Exists
<1>2. CASE \E m \in MutationSet : Merges(r, q, m)
  <2>1. PICK m \in MutationSet : Merges(r, q, m)
    BY <1>2
  <2>2. Applies(r, q, m) /\ m.entity \in Entity /\ r \in Database
    BY <2>1, MutationParts DEF Merges, OfMutations
  <2>3. SUFFICES ASSUME NEW t \in Task, Exists(r, t), r.rows[t].done
                 PROVE  Exists(q, t) /\ q.rows[t].done
    BY DEF KeepsCompletions
  <2>4. t \in Entity /\ Parent[t] # m.entity
    <3>1. t \in Entity /\ Parent[t] = None
      BY SchemaAssumption DEF RecordAssumption
    <3> QED
      BY <2>2, <3>1, ParentApart
  <2>5. CASE Outcome(r, m) # "applied" \/ t # m.entity
    <3>1. q.rows[t] = r.rows[t]
      BY <2>2, <2>4, <2>5, MergedRows
    <3> QED
      BY <2>3, <3>1 DEF Exists
  <2>6. CASE Outcome(r, m) = "applied" /\ t = m.entity /\ m.snapshot # None
    <3>1. q.rows[t] = MergedRow(r, m)
      BY <2>2, <2>6, <2>4, MergedRows
    <3>2. MergedRow(r, m) # None /\ MergedRow(r, m).done = (m.snapshot.done \/ r.rows[t].done)
      BY <2>2, <2>3, <2>6, MergedRowParts
    <3>3. (m.snapshot.done \/ r.rows[t].done) = TRUE
      BY <2>3, RowParts, <2>2, <2>4, Zenon DEF Row
    <3> QED
      BY <3>1, <3>2, <3>3 DEF Exists
  <2>7. CASE Outcome(r, m) = "applied" /\ t = m.entity /\ m.snapshot = None
    <3>1. m.snapshot = None /\ ~DeletesRow(r, m)
      BY <2>3, <2>7 DEF DeletesRow
    <3>2. q.rows = r.rows
      BY <2>2, <2>7, <3>1 DEF Applies, MergesRow
    <3> QED
      BY <2>3, <3>2 DEF Exists
  <2> QED
    BY <2>5, <2>6, <2>7
<1> QED
  BY <1>1, <1>2

\* Foreign keys, which only the rows and the dependencies decide.
LEMMA SameKeys ==
  ASSUME NEW r, NEW q, q.rows = r.rows, q.deps = r.deps, ForeignKeys(r)
  PROVE  ForeignKeys(q)
BY DEF ForeignKeys, Exists

LEMMA RebuildForeignKeys ==
  ASSUME NEW r \in Database, NEW t \in Entity, ForeignKeys(r)
  PROVE  ForeignKeys(RebuildDependencies(r, t))
<1> DEFINE q == RebuildDependencies(r, t)
<1>1. CASE t \in Task /\ Exists(r, t)
  <2>1. PICK D \in SUBSET Task : D = {x \in LiveElements(r, t) \ {t} : Exists(r, x)}
    BY DEF LiveElements
  <2>2. q = [r EXCEPT !.deps[t] = D]
    BY <1>1, <2>1 DEF RebuildDependencies
  <2> HIDE DEF q
  <2>3. q.rows = r.rows /\ q.deps = [r.deps EXCEPT ![t] = D] /\ r.deps \in [Task -> SUBSET Task]
    BY <2>2 DEF Database
  <2>4. \A u \in Task : \A x \in q.deps[u] : Exists(q, u) /\ Exists(q, x)
    BY <1>1, <2>1, <2>3 DEF ForeignKeys, Exists
  <2>5. \A e \in Entity : Exists(q, e) /\ Parent[e] # None => Exists(q, Parent[e])
    BY <2>3 DEF ForeignKeys, Exists
  <2>6. ForeignKeys(q)
    BY <2>4, <2>5 DEF ForeignKeys
  <2> QED
    BY <2>6 DEF q
<1>2. CASE ~(t \in Task /\ Exists(r, t))
  BY <1>2 DEF RebuildDependencies
<1> QED
  BY <1>1, <1>2

\* A row is written whose parent is there.
LEMMA WriteForeignKeys ==
  ASSUME NEW r \in Database, NEW q, NEW e \in Entity, NEW row \in Row, ForeignKeys(r),
         Parent[e] # None => Exists(r, e) \/ Exists(r, Parent[e]),
         q.rows = [r.rows EXCEPT ![e] = row],
         \A t \in Task : q.deps[t] # r.deps[t] => t = e /\ \A x \in q.deps[t] : Exists(r, x)
  PROVE  ForeignKeys(q)
<1>1. r.rows \in [Entity -> Row \cup {None}] /\ row # None /\ Task \subseteq Entity
  BY RowParts, SchemaAssumption DEF RecordAssumption
<1>2. \A x \in Entity : (Exists(r, x) => Exists(q, x)) /\ (Exists(q, x) => x = e \/ Exists(r, x))
      /\ Exists(q, e)
  BY <1>1 DEF Exists
<1>3. ASSUME NEW x \in Entity, Exists(q, x), Parent[x] # None
      PROVE  Exists(q, Parent[x])
  <2>1. Parent[x] \in Entity
    BY <1>3 DEF RecordAssumption
  <2>2. Exists(r, Parent[x])
    BY <1>2, <1>3 DEF ForeignKeys
  <2> QED
    BY <1>2, <2>1, <2>2
<1>4. ASSUME NEW t \in Task, NEW x \in q.deps[t]
      PROVE  Exists(q, t) /\ Exists(q, x)
  <2>1. CASE q.deps[t] = r.deps[t]
    <3>1. Exists(r, t) /\ Exists(r, x) /\ r.deps[t] \subseteq Task
      BY <1>4, <2>1 DEF ForeignKeys, Database
    <3> QED
      BY <1>1, <1>2, <1>4, <2>1, <3>1
  <2>2. CASE q.deps[t] # r.deps[t]
    <3>1. t = e /\ Exists(r, x)
      BY <1>4, <2>2
    <3>2. Exists(q, x)
      BY <1>1, <3>1 DEF Exists
    <3> QED
      BY <1>2, <3>1, <3>2
  <2> QED
    BY <2>1, <2>2
<1> QED
  BY <1>3, <1>4 DEF ForeignKeys

\* A row is deleted with what refers to it, and none of that is referred to.
LEMMA DeleteForeignKeys ==
  ASSUME NEW r \in Database, NEW e \in Entity, ForeignKeys(r)
  PROVE  ForeignKeys(DeleteRow(r, e))
<1> DEFINE gone == {e} \cup {c \in Entity : Parent[c] = e}
           q    == DeleteRow(r, e)
<1>1. /\ \A x \in Entity : q.rows[x] = IF x \in gone THEN None ELSE r.rows[x]
      /\ \A t \in Task : q.deps[t] = IF t \in gone THEN {} ELSE r.deps[t] \ gone
  BY DEF DeleteRow, Database
<1> HIDE DEF q
<1>2. ASSUME NEW x \in Entity, Exists(q, x), Parent[x] # None
      PROVE  Exists(q, Parent[x])
  <2>1. x \notin gone /\ Exists(r, x) /\ Parent[x] \in Entity
    BY <1>1, <1>2 DEF Exists, RecordAssumption
  <2>2. Exists(r, Parent[x]) /\ Parent[x] # e
    BY <1>2, <2>1 DEF ForeignKeys
  <2>3. Parent[Parent[x]] # e
    BY <1>2, <2>1, SchemaAssumption, ParentApart
  <2> QED
    BY <1>1, <2>1, <2>2, <2>3 DEF Exists
<1>3. ASSUME NEW t \in Task, NEW x \in q.deps[t]
      PROVE  Exists(q, t) /\ Exists(q, x)
  <2>1. t \notin gone /\ x \in r.deps[t] \ gone
    BY <1>1, <1>3
  <2>2. Exists(r, t) /\ Exists(r, x) /\ x \in Task /\ Task \subseteq Entity
    BY <2>1 DEF ForeignKeys, Database, RecordAssumption
  <2> QED
    BY <1>1, <2>1, <2>2 DEF Exists
<1>4. ForeignKeys(q)
  BY <1>2, <1>3 DEF ForeignKeys
<1> QED
  BY <1>4 DEF q

\* A mutation that SQLite accepts is merged.
LEMMA ApplyForeignKeys ==
  ASSUME NEW r \in Database, NEW m \in MutationSet, ForeignKeys(r), ~ForeignKeyFails(r, m)
  PROVE  ForeignKeys(ApplyMutation(r, m))
<1> DEFINE seen == Observed(r, m)
<1>1. /\ seen \in Database /\ seen.rows = r.rows /\ seen.version = r.version /\ seen.upgraded = r.upgraded
      /\ m.entity \in Entity /\ m.snapshot \in Row \cup {None}
  BY ObservedEffect, MutationParts
<1>2. ForeignKeys(seen)
  <2> DEFINE el == [t \in Task |-> [x \in Task |->
                       IF /\ t = m.entity
                          /\ x \in m.added \cup m.removed
                          /\ Before(r.elements[t][x].key, m.key)
                       THEN [key |-> m.key, live |-> x \in m.added]
                       ELSE r.elements[t][x]]]
             merged == [r EXCEPT !.clock = Observe(@, ReadingOf(m.key)), !.elements = el]
  <2>1. seen = RebuildDependencies(merged, m.entity)
    BY DEF Observed
  <2>2. el \in [Task -> [Task -> Element]]
    <3>1. ASSUME NEW t \in Task, NEW x \in Task
          PROVE  /\ [key |-> m.key, live |-> x \in m.added] \in Element
                 /\ r.elements[t][x] \in Element
      <4>1. (x \in m.added) \in BOOLEAN
        OBVIOUS
      <4> QED
        BY <4>1, MutationParts DEF Element, Database
    <3> QED
      BY <3>1
  <2>3. Observe(r.clock, ReadingOf(m.key)) \in Clock
    BY ClockType, KeyType, MutationParts DEF Database
  <2> HIDE DEF el
  <2>4. merged \in Database /\ merged.rows = r.rows /\ merged.deps = r.deps
    BY <2>2, <2>3 DEF Database
  <2> HIDE DEF merged, seen
  <2>5. ForeignKeys(merged)
    BY <2>4, SameKeys
  <2> QED
    BY <1>1, <2>1, <2>4, <2>5, RebuildForeignKeys
<1> HIDE DEF seen
<1>3. ASSUME NEW s \in Database, ForeignKeys(s)
      PROVE  /\ RaiseConflict(s, m) \in Database /\ ForeignKeys(RaiseConflict(s, m))
             /\ RaiseConflict(s, m).rows = s.rows
  BY <1>3, RaiseEffect, SameKeys
<1>4. Outcome(r, m) = "applied" => ForeignKeys(Merged(seen, m))
  <2> SUFFICES ASSUME Outcome(r, m) = "applied"
               PROVE  ForeignKeys(Merged(seen, m))
    OBVIOUS
  <2> DEFINE dated   == RaiseConflict(seen, m)
             row     == MergedRow(seen, m)
             put     == Put(dated, m.entity, row, m.linked)
             written == IF m.snapshot # None THEN RebuildDependencies(put, m.entity)
                        ELSE IF DeletesRow(seen, m) THEN DeleteRow(dated, m.entity)
                        ELSE dated
  <2>1. dated \in Database /\ ForeignKeys(dated) /\ dated.rows = seen.rows
    BY <1>1, <1>2, <1>3
  <2>2. Merged(seen, m) = [written EXCEPT !.version[m.entity] = m.key]
    BY DEF Merged
  <2>3. m.snapshot # None => put \in Database /\ ForeignKeys(put)
    <3> SUFFICES ASSUME m.snapshot # None PROVE put \in Database /\ ForeignKeys(put)
      OBVIOUS
    <3>1. row \in Row
      BY <1>1, MergedRowParts
    <3>2. Parent[m.entity] # None => Exists(dated, Parent[m.entity])
      <4>1. Parent[m.entity] # None => Exists(r, Parent[m.entity])
        BY DEF ForeignKeyFails, Targets
      <4> QED
        BY <1>1, <2>1, <4>1 DEF Exists
    <3> HIDE DEF dated, row
    <3>3. /\ put \in Database /\ put.rows = [dated.rows EXCEPT ![m.entity] = row]
          /\ put.deps = dated.deps
      <4>1. put \in Database
        BY <1>1, <2>1, <3>1, PutType
      <4> QED
        BY <1>1, <2>1, <3>1, <4>1 DEF Database, Put
    <3> HIDE DEF put
    <3> QED
      BY <1>1, <2>1, <3>1, <3>2, <3>3, WriteForeignKeys
  <2>4. written \in Database /\ ForeignKeys(written)
    <3> HIDE DEF dated, put
    <3>1. m.snapshot # None => RebuildDependencies(put, m.entity) \in Database
                                 /\ ForeignKeys(RebuildDependencies(put, m.entity))
      BY <1>1, <2>3, RebuildForeignKeys, RebuildType
    <3>2. DeleteRow(dated, m.entity) \in Database /\ ForeignKeys(DeleteRow(dated, m.entity))
      BY <1>1, <2>1, DeleteForeignKeys, DeleteRowType
    <3> QED
      BY <2>1, <3>1, <3>2
  <2> HIDE DEF written
  <2>5. Merged(seen, m).rows = written.rows /\ Merged(seen, m).deps = written.deps
    BY <2>2, <2>4 DEF Database
  <2> QED
    BY <2>4, <2>5, SameKeys
<1>5. Outcome(r, m) \in {"superseded", "deferred", "applied"}
  BY DEF Outcome
<1>6. /\ Outcome(r, m) = "superseded" => ApplyMutation(r, m) = RaiseConflict(seen, m)
      /\ Outcome(r, m) = "deferred" => ApplyMutation(r, m) = seen
      /\ Outcome(r, m) = "applied" => ApplyMutation(r, m) = Merged(seen, m)
  BY DEF ApplyMutation, seen
<1> QED
  BY <1>1, <1>2, <1>3, <1>4, <1>5, <1>6

LEMMA ForeignKeysMove ==
  ASSUME NEW r, NEW q, OfMutations(r), ForeignKeys(r), Evolves(r, q)
  PROVE  ForeignKeys(q)
<1>1. r \in Database
  BY DEF OfMutations
<1>2. ASSUME NEW e \in Entity, RowsChange(r, q, e)
      PROVE  ForeignKeys(q)
  <2>1. CASE Written(r, q, e)
    BY <1>1, <2>1, WriteForeignKeys DEF Written
  <2>2. CASE q.rows = DeleteRow(r, e).rows /\ q.deps = DeleteRow(r, e).deps
    BY <1>1, <2>2, DeleteForeignKeys, SameKeys
  <2>3. CASE q.rows = r.rows /\ q.deps = r.deps
    BY <2>3, SameKeys
  <2> QED
    BY <1>2, <2>1, <2>2, <2>3 DEF RowsChange
<1>3. CASE Stays(r, q)
  BY <1>3, SameKeys DEF Stays
<1>4. CASE \E e \in Entity : Rewrites(r, q, e)
  BY <1>2, <1>4 DEF Rewrites
<1>5. CASE \E e \in Entity : \E m \in MutationSet : Records(r, q, e, m)
  BY <1>2, <1>5 DEF Records
<1>6. CASE \E m \in MutationSet : Merges(r, q, m)
  <2>1. PICK m \in MutationSet : Merges(r, q, m)
    BY <1>6
  <2> QED
    BY <1>1, <2>1, ApplyForeignKeys, SameKeys DEF Merges
<1> QED
  BY <1>3, <1>4, <1>5, <1>6 DEF Evolves, Replicates

-----------------------------------------------------------------------------
(* Prerequisites                                                              *)

\* Every prerequisite of a task is a set element of it.
DepsLive(r) == \A t \in Task : r.deps[t] \subseteq LiveElements(r, t) \ {t}

\* A mutation newer than all that is known is newer than every set element.
LEMMA ElementBefore ==
  ASSUME NEW r, OfMutations(r), Elements(r), NEW m \in MutationSet,
         \A n \in Known(r) : Before(n.key, m.key), NEW t \in Task, NEW x \in Task
  PROVE  AtMost(r.elements[t][x].key, m.key)
<1> DEFINE old == r.elements[t][x]
<1>1. Says(Known(r), t, x, old)
  BY DEF Elements
<1>2. CASE old = NoElement
  <2>1. old.key = NoKey
    BY <1>2 DEF NoElement
  <2> QED
    BY <2>1, MutationParts, KeyOrder DEF AtMost
<1>3. CASE \E n \in Known(r) : old = [key |-> n.key, live |-> x \in n.added]
  <2>1. \E n \in Known(r) : old.key = n.key
    BY <1>3
  <2> QED
    BY <2>1 DEF AtMost
<1> QED
  BY <1>1, <1>2, <1>3 DEF Says

\* What a command does to the prerequisites of a task.
LEMMA DepsWritten ==
  ASSUME NEW r \in Database, NEW q \in Database, NEW e \in Entity, RowsChange(r, q, e), DepsLive(r),
         NEW t \in Task, NEW x \in q.deps[t]
  PROVE  x # t /\ (t # e => x \in r.deps[t])
<1>1. CASE Written(r, q, e)
  BY <1>1 DEF Written, DepsLive
<1>2. CASE q.deps = DeleteRow(r, e).deps
  BY <1>2, DeleteEffect DEF DepsLive
<1>3. CASE q.deps = r.deps
  BY <1>3 DEF DepsLive
<1> QED
  BY <1>1, <1>2, <1>3 DEF RowsChange

LEMMA DepsLiveMoves ==
  ASSUME NEW r, NEW q, OfMutations(r), Elements(r), ForeignKeys(r), ForeignKeys(q), DepsLive(r),
         Replicates(r, q)
  PROVE  DepsLive(q)
<1>1. r \in Database /\ q \in Database
  BY DEF OfMutations, Replicates, Stays, Records, Merges, Rewrites, Applies
<1>2. SUFFICES ASSUME NEW t \in Task, NEW x \in q.deps[t]
               PROVE  x # t /\ q.elements[t][x].live
  <2>1. \A t \in Task : q.deps[t] \subseteq Task
    BY <1>1 DEF Database
  <2> QED
    BY <1>2, <2>1 DEF DepsLive, LiveElements
<1>3. x \in Task /\ Exists(q, t)
  BY <1>1 DEF Database, ForeignKeys
<1>4. x \in r.deps[t] => x # t /\ r.elements[t][x].live
  BY DEF DepsLive, LiveElements
<1>5. CASE Stays(r, q)
  BY <1>4, <1>5 DEF Stays
<1>6. CASE \E e \in LocalOnly : Rewrites(r, q, e)
  <2>1. PICK e \in LocalOnly : Rewrites(r, q, e)
    BY <1>6
  <2>2. e \in Entity /\ t # e
    BY DEF RecordAssumption
  <2>3. x \in r.deps[t]
    BY <1>1, <2>1, <2>2, DepsWritten DEF Rewrites
  <2> QED
    BY <1>4, <2>1, <2>3 DEF Rewrites
<1>7. CASE \E e \in Entity \ LocalOnly : \E m \in MutationSet : Records(r, q, e, m)
  <2>1. PICK e \in Entity, m \in MutationSet : Records(r, q, e, m)
    BY <1>7
  <2>2. x # t /\ (t # e => x \in r.deps[t])
    BY <1>1, <2>1, DepsWritten DEF Records
  <2>3. m.entity = e /\ AtMost(r.elements[t][x].key, m.key)
    BY <1>3, <2>1, ElementBefore DEF Records
  <2>4. q.elements[t][x] = IF Touches(m, t, x)
                           THEN [key |-> m.key, live |-> x \in m.added]
                           ELSE r.elements[t][x]
    BY <1>3, <2>1, <2>3 DEF Records
  <2>5. CASE t # e
    BY <1>4, <2>2, <2>3, <2>4, <2>5 DEF Touches
  <2>6. CASE t = e
    <3>0. Tells(m, e, q.deps[e], r.elements[e])
      <4>1. e \in Task /\ Exists(q, e) => Tells(m, e, q.deps[e], r.elements[e])
        BY <2>1 DEF Records
      <4> QED
        BY <1>3, <2>6, <4>1
    <3>1. IF r.elements[t][x].live THEN ~Touches(m, t, x) ELSE x \in m.added
      <4>1. x \in q.deps[e] /\ t = e
        BY <2>6
      <4>2. IF r.elements[e][x].live THEN ~Touches(m, e, x) ELSE x \in m.added
        BY ONLY <3>0, <4>1 DEF Tells
      <4> QED
        BY ONLY <4>1, <4>2
    <3>2. CASE r.elements[t][x].live
      <4>1. q.elements[t][x] = r.elements[t][x]
        BY ONLY <2>4, <3>1, <3>2
      <4> QED
        BY <2>2, <3>2, <4>1
    <3>3. CASE ~r.elements[t][x].live
      <4>1. x \in m.added
        BY ONLY <3>1, <3>3
      <4>2. Touches(m, t, x)
        BY <2>3, <2>6, <4>1 DEF Touches
      <4>3. q.elements[t][x] = [key |-> m.key, live |-> x \in m.added]
        BY ONLY <2>4, <4>2
      <4>4. q.elements[t][x].live = (x \in m.added)
        BY ONLY <4>3
      <4> QED
        BY <2>2, <4>1, <4>4
    <3> QED
      BY <3>2, <3>3
  <2> QED
    BY <2>5, <2>6
<1>8. CASE \E m \in MutationSet : Merges(r, q, m)
  <2>1. PICK m \in MutationSet : Applies(r, q, m)
    BY <1>8 DEF Merges
  <2>2. \/ q.deps[t] \subseteq LiveElements(q, t) \ {t}
        \/ q.deps[t] \subseteq r.deps[t] /\ (t # m.entity \/ ~Exists(r, t))
    BY <2>1 DEF Applies
  <2>3. CASE q.deps[t] \subseteq LiveElements(q, t) \ {t}
    BY <2>3 DEF LiveElements
  <2>4. CASE q.deps[t] \subseteq r.deps[t] /\ (t # m.entity \/ ~Exists(r, t))
    <3>1. x \in r.deps[t]
      BY <2>4
    <3>2. t # m.entity
      BY <2>4, <3>1 DEF ForeignKeys
    <3>3. q.elements[t][x] = r.elements[t][x]
      BY <1>3, <2>1, <3>2 DEF Applies, Touches
    <3> QED
      BY <1>4, <3>1, <3>3
  <2> QED
    BY <2>2, <2>3, <2>4
<1> QED
  BY <1>5, <1>6, <1>7, <1>8 DEF Replicates

-----------------------------------------------------------------------------
(* The invariant of one database, and of the working copy of a transaction    *)

Content(d, r) ==
  HeldBack(d, r) /\ Registers(r) /\ Elements(r) /\ PlainRows(r) /\ ForeignKeys(r)

\* As long as no row change has lost its mutation.
Clean(r) == Values(r) /\ Flagged(r) /\ LastWritten(r) /\ DepsLive(r)

\* A step on a database of computer d that records or merges what it changes.
Follows(d, r, q) ==
  \/ Keeps(r, q)
  \/ Edits(d, r, q) /\ Newer(r, q)
  \/ Drains(d, r, q)
  \/ Receives(d, r, q)

LEMMA FollowsReplicates ==
  ASSUME NEW d \in Device, NEW r, NEW q, Based(d, r), HeldBack(d, r), Registers(r), Follows(d, r, q)
  PROVE  Replicates(r, q) /\ HeldBack(d, q)
<1>1. CASE Keeps(r, q)
  BY <1>1, KeepsStays DEF Replicates
<1>2. CASE Edits(d, r, q) /\ Newer(r, q)
  BY <1>2, EditsRecord DEF Replicates, Based
<1>3. CASE Drains(d, r, q)
  BY <1>3, DrainsMerge DEF Replicates
<1>4. CASE Receives(d, r, q)
  BY <1>4, ReceivesMerge DEF Replicates
<1> QED
  BY <1>1, <1>2, <1>3, <1>4 DEF Follows

LEMMA BasedOfMutations ==
  ASSUME NEW d, NEW r, Based(d, r)
  PROVE  OfMutations(r)
BY KnownMutations DEF Based, OfMutations

LEMMA EvolvesContent ==
  ASSUME NEW d \in Device, NEW r, NEW q, Based(d, r), PlainLog, Content(d, r), HeldBack(d, q),
         Evolves(r, q)
  PROVE  Content(d, q)
<1>1. OfMutations(r)
  BY BasedOfMutations
<1>2. Registers(q)
  BY <1>1, RegistersMove DEF Content
<1>3. Elements(q)
  BY <1>1, ElementsMove DEF Content
<1>4. PlainRows(q)
  BY <1>1, PlainRowsMove DEF Content
<1>5. ForeignKeys(q)
  BY <1>1, ForeignKeysMove DEF Content
<1> QED
  BY <1>2, <1>3, <1>4, <1>5 DEF Content

LEMMA FollowsContent ==
  ASSUME NEW d \in Device, NEW r, NEW q, Based(d, r), PlainLog, Content(d, r), Follows(d, r, q)
  PROVE  Content(d, q) /\ (Clean(r) => Clean(q))
<1>1. Replicates(r, q) /\ HeldBack(d, q)
  BY FollowsReplicates DEF Content
<1>2. Content(d, q)
  BY <1>1, EvolvesContent DEF Evolves
<1>3. OfMutations(r) /\ Registers(r) /\ PlainRows(r) /\ PlainRows(q)
  BY <1>2, BasedOfMutations DEF Content
<1>4. Values(r) => Values(q)
  BY <1>1, <1>3, ValuesMove
<1>5. Flagged(r) => Flagged(q)
  BY <1>1, <1>3, FlaggedMoves
<1>6. LastWritten(r) => LastWritten(q)
  BY <1>1, <1>3, LastWrittenMoves
<1>7. DepsLive(r) => DepsLive(q)
  BY <1>1, <1>2, <1>3, DepsLiveMoves DEF Content
<1> QED
  BY <1>2, <1>4, <1>5, <1>6, <1>7 DEF Clean

LEMMA TornContent ==
  ASSUME NEW d \in Device, NEW r, NEW q, NEW e \in Entity, Based(d, r), PlainLog, Content(d, r),
         Changes(r, q, e)
  PROVE  Content(d, q)
<1>1. Rewrites(r, q, e) /\ HeldBack(d, q)
  BY ChangesRewrite DEF Content
<1>2. Evolves(r, q)
  BY <1>1 DEF Evolves
<1> QED
  BY <1>1, <1>2, EvolvesContent

\* The log grows, and what a database has of it stays what it was.
LEMMA LogGrows ==
  ASSUME NEW d \in Device, NEW r, log \in Seq(MutationSet),
         log' = log \/ \E m \in MutationSet : log' = Append(log, m),
         r.received \subseteq 1 .. Len(log), r.deferred \subseteq r.received
  PROVE  (Content(d, r) => Content(d, r)') /\ (Clean(r) => Clean(r)')
<1>1. \A p \in 1 .. Len(log) : log'[p] = log[p]
  OBVIOUS
<1>2. Known(r)' = Known(r) /\ MergedBy(r)' = MergedBy(r)
  BY <1>1 DEF Known, MergedBy, Own
<1>3. \A e : Newest(r, e)' = Newest(r, e)
  BY <1>2 DEF Newest
<1>4. HeldBack(d, r) => HeldBack(d, r)'
  BY <1>1 DEF HeldBack
<1>5. Registers(r) => Registers(r)'
  BY <1>2 DEF Registers
<1>6. Elements(r) => Elements(r)'
  BY <1>2 DEF Elements
<1>7. PlainRows(r) => PlainRows(r)'
  BY <1>2 DEF PlainRows
<1>8. ForeignKeys(r) => ForeignKeys(r)'
  BY DEF ForeignKeys
<1>9. Clean(r) => Clean(r)'
  BY <1>3 DEF Clean, Values, Flagged, LastWritten, DepsLive, LiveElements
<1> QED
  BY <1>4, <1>5, <1>6, <1>7, <1>8, <1>9 DEF Content

-----------------------------------------------------------------------------
(* All computers together                                                     *)

CInv ==
  /\ DrainedFirst /\ UploadedOnce /\ CompletionsStay
  /\ \A d \in Device : OwnOrder(db[d]) /\ Content(d, db[d])
  /\ \A d \in Device : open[d] # None => Content(d, open[d].work)
  /\ torn = 0 => \A d \in Device : Clean(db[d]) /\ (open[d] # None => Clean(open[d].work))

\* No two mutations of any computers have one key.
LEMMA OneKey ==
  ASSUME IInv, ClocksCover, \A d \in Device : OwnOrder(db[d]),
         NEW c \in Device, NEW d \in Device,
         NEW i \in 1 .. Len(db[c].mutations), NEW j \in 1 .. Len(db[d].mutations),
         db[c].mutations[i].key = db[d].mutations[j].key
  PROVE  c = d /\ i = j
<1>1. c = d
  <2>1. db[c].mutations[i].key.device = c /\ db[d].mutations[j].key.device = d
    BY DEF ClocksCover
  <2> QED
    BY <2>1
<1>2. db[d].mutations \in Seq(MutationSet)
  BY DEF IInv, SyncTypes, Database
<1>3. \A k \in 1 .. Len(db[d].mutations) : db[d].mutations[k].key \in Key(Device) \cup {NoKey}
  BY <1>2, MutationParts
<1>4. \A k, l \in 1 .. Len(db[d].mutations) : k < l => db[d].mutations[k].key # db[d].mutations[l].key
  <2> SUFFICES ASSUME NEW k \in 1 .. Len(db[d].mutations), NEW l \in 1 .. Len(db[d].mutations), k < l
               PROVE  db[d].mutations[k].key # db[d].mutations[l].key
    OBVIOUS
  <2>1. Before(db[d].mutations[k].key, db[d].mutations[l].key)
    <3>1. OwnOrder(db[d])
      OBVIOUS
    <3> QED
      BY <3>1 DEF OwnOrder
  <2>2. ~AtMost(db[d].mutations[l].key, db[d].mutations[k].key)
    <3>1. /\ db[d].mutations[k].key \in Key(Device) \cup {NoKey}
          /\ db[d].mutations[l].key \in Key(Device) \cup {NoKey}
      BY <1>3
    <3>2. PICK a \in Key(Device) \cup {NoKey}, b \in Key(Device) \cup {NoKey} :
            a = db[d].mutations[k].key /\ b = db[d].mutations[l].key
      BY <3>1
    <3>3. Before(a, b)
      BY <2>1, <3>2
    <3>4. ~AtMost(b, a)
      BY ONLY <3>3, KeyOrder
    <3> QED
      BY <3>2, <3>4
  <2> QED
    BY <2>2 DEF AtMost
<1>5. Len(db[d].mutations) \in Nat
  BY <1>2
<1>6. ~(i < j) /\ ~(j < i)
  BY <1>1, <1>4
<1> QED
  BY <1>1, <1>5, <1>6

\* What any computer has written.
WrittenHere(m) == \E c \in Device : \E i \in 1 .. Len(db[c].mutations) : m = db[c].mutations[i]

LEMMA WrittenOnce ==
  ASSUME IInv, ClocksCover, \A d \in Device : OwnOrder(db[d])
  PROVE  /\ \A p \in 1 .. Len(log) : WrittenHere(log[p])
         /\ \A d \in Device : \A m \in Known(db[d]) : WrittenHere(m)
         /\ \A d \in Device : open[d] # None => \A m \in Known(open[d].work) : WrittenHere(m)
         /\ \A m, n : WrittenHere(m) /\ WrittenHere(n) /\ m.key = n.key => m = n
         /\ \A m : \A d \in Device : WrittenHere(m) /\ m.key.device = d => m \in Own(db[d])
<1>1. \A p \in 1 .. Len(log) : WrittenHere(log[p])
  BY DEF ClocksCover, WrittenHere
<1>2. ASSUME NEW d \in Device
      PROVE  /\ \A m \in Known(db[d]) : WrittenHere(m)
             /\ open[d] # None => \A m \in Known(open[d].work) : WrittenHere(m)
  <2>1. \A m \in Own(db[d]) : WrittenHere(m)
    BY DEF Own, WrittenHere
  <2>2. db[d].received \subseteq 1 .. Len(log)
    BY LocalFacts DEF Sound
  <2>3. open[d] # None => Own(open[d].work) = Own(db[d]) /\ open[d].work.received \subseteq 1 .. Len(log)
    <3> SUFFICES ASSUME open[d] # None
                 PROVE  Own(open[d].work) = Own(db[d]) /\ open[d].work.received \subseteq 1 .. Len(log)
      OBVIOUS
    <3>1. Own(open[d].work) = Own(db[d])
      BY DEF ClocksCover, Own
    <3>2. SoundTransaction(d, db[d], pull[d], open[d])
      BY LocalFacts
    <3> QED
      BY <3>1, <3>2 DEF SoundTransaction, Sound
  <2> QED
    BY <1>1, <2>1, <2>2, <2>3 DEF Known
<1>3. ASSUME NEW m, NEW n, WrittenHere(m), WrittenHere(n), m.key = n.key
      PROVE  m = n
  <2>1. PICK c \in Device : \E i \in 1 .. Len(db[c].mutations) : m = db[c].mutations[i]
    BY <1>3 DEF WrittenHere
  <2>2. PICK i \in 1 .. Len(db[c].mutations) : m = db[c].mutations[i]
    BY <2>1
  <2>3. PICK d \in Device : \E j \in 1 .. Len(db[d].mutations) : n = db[d].mutations[j]
    BY <1>3 DEF WrittenHere
  <2>4. PICK j \in 1 .. Len(db[d].mutations) : n = db[d].mutations[j]
    BY <2>3
  <2>5. db[c].mutations[i].key = db[d].mutations[j].key
    BY <1>3, <2>2, <2>4
  <2>6. c = d /\ i = j
    BY <2>5, OneKey
  <2>7. db[c].mutations[i] = db[d].mutations[j]
    BY <2>6
  <2> QED
    BY <2>2, <2>4, <2>7
<1>4. \A m : \A d \in Device : WrittenHere(m) /\ m.key.device = d => m \in Own(db[d])
  <2> SUFFICES ASSUME NEW m, NEW d \in Device, WrittenHere(m), m.key.device = d
               PROVE  m \in Own(db[d])
    OBVIOUS
  <2>1. PICK c \in Device : \E i \in 1 .. Len(db[c].mutations) : m = db[c].mutations[i]
    BY DEF WrittenHere
  <2>2. m.key.device = c
    <3>1. \A i \in 1 .. Len(db[c].mutations) : db[c].mutations[i].key.device = c
      BY DEF ClocksCover
    <3> QED
      BY ONLY <2>1, <3>1
  <2> QED
    BY <2>1, <2>2 DEF Own
<1> QED
  BY <1>1, <1>2, <1>3, <1>4

LEMMA AllBased ==
  ASSUME IInv, ClocksCover, \A d \in Device : OwnOrder(db[d]), NEW d \in Device
  PROVE  Based(d, db[d]) /\ (open[d] # None => Based(d, open[d].work))
<1>1. ASSUME NEW r \in Database, Sound(r), Own(r) = Own(db[d]), \A m \in Known(r) : WrittenHere(m)
      PROVE  Based(d, r)
  <2>1. log \in Seq(MutationSet)
    BY LocalFacts
  <2>2. \A p \in 1 .. Len(log) : log[p].key.device = d => log[p] \in Own(r)
    BY <1>1, WrittenOnce
  <2>3. \A m \in Known(r) : \A p \in 1 .. Len(log) : m.key = log[p].key => m = log[p]
    BY <1>1, WrittenOnce
  <2> QED
    BY <1>1, <2>1, <2>2, <2>3 DEF Based
<1>2. Based(d, db[d])
  BY <1>1, WrittenOnce, LocalFacts
<1>3. ASSUME open[d] # None
      PROVE  Based(d, open[d].work)
  <2>1. open[d].work \in Database /\ Sound(open[d].work)
    BY <1>3, LocalFacts DEF SoundTransaction, Transaction
  <2>2. Own(open[d].work) = Own(db[d])
    <3>1. open[d].work.mutations = db[d].mutations
      BY <1>3 DEF ClocksCover
    <3> QED
      BY ONLY <3>1 DEF Own
  <2>3. \A m \in Known(open[d].work) : WrittenHere(m)
    BY <1>3, WrittenOnce
  <2> QED
    BY ONLY <1>1, <2>1, <2>2, <2>3
<1> QED
  BY <1>2, <1>3

LEMMA AllPlain ==
  ASSUME IInv, ClocksCover, CInv
  PROVE  PlainLog /\ ConflictsDated
<1>1. \A d \in Device : PlainRows(db[d])
  BY DEF CInv, Content
<1>2. ASSUME NEW p \in 1 .. Len(log), log[p].entity \notin Task \cup Dated
      PROVE  PlainRow(log[p].snapshot)
  <2>1. PICK d \in Device : \E i \in 1 .. Len(db[d].mutations) : log[p] = db[d].mutations[i]
    BY DEF ClocksCover
  <2>2. log[p] \in Known(db[d])
    BY <2>1 DEF Known, Own
  <2> QED
    BY <1>1, <1>2, <2>2 DEF PlainRows
<1> QED
  BY <1>1, <1>2 DEF PlainLog, ConflictsDated, PlainRows

\* The computer that moves: what becomes of its mutations.
LEMMA MutationsGrow ==
  ASSUME IInv, ClocksCover, NEW d \in Device, NEW q,
         \/ Keeps(db[d], q)
         \/ open[d] # None /\ Keeps(open[d].work, q)
         \/ Edits(d, db[d], q)
         \/ \E e \in Entity : Changes(db[d], q, e)
  PROVE  q.mutations = db[d].mutations \/ \E m \in MutationSet : q.mutations = Append(db[d].mutations, m)
<1>1. CASE Keeps(db[d], q)
  BY <1>1 DEF Keeps
<1>2. CASE open[d] # None /\ Keeps(open[d].work, q)
  BY <1>2 DEF Keeps, ClocksCover
<1>3. CASE Edits(d, db[d], q)
  <2>1. PICK e \in Entity, changed \in Database, now \in Nat :
          Changes(db[d], changed, e) /\ Keeps(Record(changed, d, e, now), q)
    BY <1>3 DEF Edits
  <2>2. changed.mutations = db[d].mutations
    BY <2>1 DEF Changes, Bookkeeping
  <2>3. q.mutations = Record(changed, d, e, now).mutations
    BY <2>1 DEF Keeps
  <2>4. CASE e \in LocalOnly
    <3>1. Record(changed, d, e, now).mutations = changed.mutations
      BY <2>4, RecordEffect
    <3> QED
      BY <2>2, <2>3, <3>1
  <2>5. CASE e \notin LocalOnly
    <3>1. PICK m \in MutationSet : RecordsRow(d, e, changed, Record(changed, d, e, now), m)
      BY <2>5, RecordEffect
    <3>2. Record(changed, d, e, now).mutations = Append(changed.mutations, m)
      BY <3>1 DEF RecordsRow
    <3> QED
      BY <2>2, <2>3, <3>2
  <2> QED
    BY <2>4, <2>5
<1>4. CASE \E e \in Entity : Changes(db[d], q, e)
  BY <1>4 DEF Changes, Bookkeeping
<1> QED
  BY <1>1, <1>2, <1>3, <1>4

\* A newly recorded mutation has the greatest key of all its computer wrote.
LEMMA OwnOrderGrows ==
  ASSUME NEW r \in Database, NEW q, OwnOrder(r), Newer(r, q),
         q.mutations = r.mutations \/ \E m \in MutationSet : q.mutations = Append(r.mutations, m)
  PROVE  /\ OwnOrder(q)
         /\ Len(q.mutations) \in Nat /\ Len(r.mutations) <= Len(q.mutations)
         /\ \A i \in 1 .. Len(r.mutations) : q.mutations[i] = r.mutations[i]
<1>1. r.mutations \in Seq(MutationSet) /\ Len(r.mutations) \in Nat
  BY DEF Database
<1>2. CASE q.mutations = r.mutations
  BY <1>1, <1>2 DEF OwnOrder
<1>3. CASE \E m \in MutationSet : q.mutations = Append(r.mutations, m)
  <2>1. PICK m \in MutationSet : q.mutations = Append(r.mutations, m)
    BY <1>3
  <2>2. /\ Len(q.mutations) = Len(r.mutations) + 1 /\ q.mutations[Len(q.mutations)] = m
        /\ \A i \in 1 .. Len(r.mutations) : q.mutations[i] = r.mutations[i]
    BY <1>1, <2>1, AppendParts
  <2>3. \A i \in 1 .. Len(r.mutations) : Before(r.mutations[i].key, m.key)
    <3>1. \A n \in Known(r) : Before(n.key, q.mutations[Len(q.mutations)].key)
      BY <1>1, <2>2 DEF Newer
    <3> QED
      BY <2>2, <3>1 DEF Known, Own
  <2>4. ASSUME NEW i \in 1 .. Len(q.mutations), NEW j \in 1 .. Len(q.mutations), i < j
        PROVE  Before(q.mutations[i].key, q.mutations[j].key)
    <3>1. i \in 1 .. Len(r.mutations)
      BY <1>1, <2>2, <2>4
    <3>2. CASE j = Len(q.mutations)
      BY <2>2, <2>3, <3>1, <3>2
    <3>3. CASE j # Len(q.mutations)
      <4>1. j \in 1 .. Len(r.mutations)
        BY <1>1, <2>2, <3>3
      <4> QED
        BY <2>2, <2>4, <3>1, <4>1 DEF OwnOrder
    <3> QED
      BY <3>2, <3>3
  <2>5. OwnOrder(q)
    BY <2>4 DEF OwnOrder
  <2> QED
    BY <1>1, <2>2, <2>5
<1> QED
  BY <1>2, <1>3

\* The computer that moves, and the others.
LEMMA StepDatabase ==
  ASSUME IInv, ClocksCover, CInv, RecordsNewest, NEW d \in Device, StepOf(d),
         NEW q, q = db'[d]
  PROVE  /\ Newer(db[d], q) /\ OwnOrder(q)
         /\ Len(q.mutations) \in Nat /\ Len(db[d].mutations) <= Len(q.mutations)
         /\ \A i \in 1 .. Len(db[d].mutations) : q.mutations[i] = db[d].mutations[i]
         /\ Content(d, q)
         /\ torn' = 0 => Clean(q)
<1>1. db[d] \in Database /\ OwnOrder(db[d]) /\ torn \in Nat
  BY LocalFacts DEF CInv
<1>2. \/ Keeps(db[d], q)
      \/ open[d] # None /\ Keeps(open[d].work, q)
      \/ Edits(d, db[d], q)
      \/ torn' # 0 /\ \E e \in Entity : Changes(db[d], q, e)
  BY DEF StepOf, Moves
<1>3. Newer(db[d], q)
  BY DEF RecordsNewest, Newer, Recorded
<1>4. q.mutations = db[d].mutations \/ \E m \in MutationSet : q.mutations = Append(db[d].mutations, m)
  BY <1>2, MutationsGrow
<1>5. /\ OwnOrder(q) /\ Len(q.mutations) \in Nat /\ Len(db[d].mutations) <= Len(q.mutations)
      /\ \A i \in 1 .. Len(db[d].mutations) : q.mutations[i] = db[d].mutations[i]
  BY ONLY <1>1, <1>3, <1>4, OwnOrderGrows
<1>6. PlainLog /\ Based(d, db[d]) /\ (open[d] # None => Based(d, open[d].work))
  BY AllBased, AllPlain DEF CInv
<1>7. torn' = 0 => torn = 0
  BY <1>1 DEF StepOf
<1>8. Content(d, db[d]) /\ (torn = 0 => Clean(db[d]))
  BY DEF CInv
<1>9. CASE Keeps(db[d], q) \/ Edits(d, db[d], q)
  <2>1. Follows(d, db[d], q)
    BY <1>3, <1>9 DEF Follows
  <2> QED
    BY <1>3, <1>5, <1>6, <1>7, <1>8, <2>1, FollowsContent
<1>10. CASE open[d] # None /\ Keeps(open[d].work, q)
  <2>1. Follows(d, open[d].work, q)
    BY <1>10 DEF Follows
  <2>2. Content(d, open[d].work) /\ (torn = 0 => Clean(open[d].work))
    BY <1>10 DEF CInv
  <2> QED
    BY <1>3, <1>5, <1>6, <1>7, <1>10, <2>1, <2>2, FollowsContent
<1>11. CASE torn' # 0 /\ \E e \in Entity : Changes(db[d], q, e)
  BY <1>3, <1>5, <1>6, <1>8, <1>11, TornContent
<1> QED
  BY <1>2, <1>9, <1>10, <1>11

\* Its transaction.
LEMMA StepTransaction ==
  ASSUME IInv, ClocksCover, CInv, NEW d \in Device, StepOf(d), NEW o, o = open'[d], o # None
  PROVE  /\ db'[d] = db[d] /\ log' = log
         /\ Content(d, o.work)
         /\ torn' = 0 => Clean(o.work)
         /\ KeepsCompletions(db[d], o.work)
<1>1. /\ db'[d] = db[d]
      /\ \/ o.work = db[d]
         \/ /\ open[d] # None
            /\ \/ o.work = open[d].work
               \/ Drains(d, open[d].work, o.work)
               \/ Receives(d, open[d].work, o.work)
  BY DEF StepOf, Opens
<1>2. log' = log
  <2>1. ~Uploads(d)
    <3> SUFFICES ASSUME Uploads(d) PROVE FALSE
      OBVIOUS
    <3>1. db \in [Device -> Database] /\ db' = [db EXCEPT ![d].uploaded = @ + 1] /\ db[d].uploaded \in Nat
      BY LocalFacts DEF Uploads, IInv, SyncTypes, Database
    <3>2. db'[d].uploaded = db[d].uploaded + 1
      BY <3>1 DEF Database
    <3> QED
      BY <1>1, <3>1, <3>2
  <2> QED
    BY <2>1 DEF StepOf
<1>3. torn' = 0 => torn = 0
  BY LocalFacts DEF StepOf
<1>4. PlainLog /\ Based(d, db[d]) /\ (open[d] # None => Based(d, open[d].work))
  BY AllBased, AllPlain DEF CInv
<1>5. CASE o.work = db[d]
  BY <1>1, <1>2, <1>3, <1>5 DEF CInv, KeepsCompletions
<1>6. CASE open[d] # None /\ o.work = open[d].work
  BY <1>1, <1>2, <1>3, <1>6 DEF CInv, CompletionsStay
<1>7. CASE /\ open[d] # None
           /\ Drains(d, open[d].work, o.work) \/ Receives(d, open[d].work, o.work)
  <2>1. Follows(d, open[d].work, o.work)
    BY <1>7 DEF Follows
  <2>2. Content(d, open[d].work) /\ (torn = 0 => Clean(open[d].work)) /\ KeepsCompletions(db[d], open[d].work)
    BY <1>7 DEF CInv, CompletionsStay
  <2>3. Content(d, o.work) /\ (torn' = 0 => Clean(o.work))
    BY <1>3, <1>4, <1>7, <2>1, <2>2, FollowsContent
  <2>4. Stays(open[d].work, o.work) \/ \E m \in MutationSet : Merges(open[d].work, o.work, m)
    BY <1>4, <1>7, <2>2, DrainsMerge, ReceivesMerge DEF Content
  <2>5. OfMutations(open[d].work)
    BY <1>4, <1>7, BasedOfMutations
  <2>6. KeepsCompletions(open[d].work, o.work)
    BY <2>4, <2>5, CompletionsKept
  <2>7. KeepsCompletions(db[d], o.work)
    BY <2>2, <2>6 DEF KeepsCompletions
  <2> QED
    BY <1>1, <1>2, <2>3, <2>7
<1> QED
  BY <1>1, <1>5, <1>6, <1>7

\* What the log takes in.
LEMMA StepLog ==
  ASSUME IInv, ClocksCover, CInv, NEW d \in Device, StepOf(d)
  PROVE  log' = log \/ \E m \in MutationSet : log' = Append(log, m)
<1>1. CASE log' = log
  BY <1>1
<1>2. CASE Uploads(d)
  <2>1. db[d].mutations \in Seq(MutationSet) /\ db[d].uploaded \in Nat
        /\ db[d].uploaded < Len(db[d].mutations)
    BY <1>2, LocalFacts DEF Uploads, Database
  <2>2. db[d].uploaded + 1 \in 1 .. Len(db[d].mutations)
    BY <2>1
  <2>3. db[d].mutations[db[d].uploaded + 1] \in MutationSet
    BY <2>1, <2>2
  <2> QED
    BY <1>2, <2>3 DEF Uploads
<1> QED
  BY <1>1, <1>2 DEF StepOf

LEMMA UploadedKept ==
  ASSUME UploadedOnce, log' = log, \A c \in Device : db'[c].uploaded = db[c].uploaded,
         \A c \in Device : \A i \in 1 .. db[c].uploaded : db'[c].mutations[i] = db[c].mutations[i]
  PROVE  UploadedOnce'
<1>1. ASSUME NEW c \in Device, NEW i \in 1 .. db'[c].uploaded
      PROVE  \E p \in 1 .. Len(log') : log'[p] = db'[c].mutations[i]
  <2>1. PICK p \in 1 .. Len(log) : log[p] = db[c].mutations[i]
    BY DEF UploadedOnce
  <2> QED
    BY <2>1
<1>2. ASSUME NEW p \in 1 .. Len(log')
      PROVE  \E c \in Device : \E i \in 1 .. db'[c].uploaded : log'[p] = db'[c].mutations[i]
  <2>1. PICK c \in Device : \E i \in 1 .. db[c].uploaded : log[p] = db[c].mutations[i]
    BY DEF UploadedOnce
  <2> QED
    BY <2>1
<1>3. \A p, q \in 1 .. Len(log') : log'[p].key = log'[q].key => p = q
  BY DEF UploadedOnce
<1> QED
  BY <1>1, <1>2, <1>3 DEF UploadedOnce

LEMMA UploadedStep ==
  ASSUME IInv, ClocksCover, CInv, RecordsNewest, NEW d \in Device, StepOf(d)
  PROVE  UploadedOnce'
<1>1. /\ log \in Seq(MutationSet) /\ Len(log) \in Nat
      /\ \A c \in Device : db[c].uploaded \in Nat /\ db[c].uploaded <= Len(db[c].mutations)
                           /\ Len(db[c].mutations) \in Nat
  BY LocalFacts DEF Sound, Database
<1>2. \A c \in Device : \A i \in 1 .. Len(db[c].mutations) : db'[c].mutations[i] = db[c].mutations[i]
  <2>1. PICK q : q = db'[d]
    OBVIOUS
  <2>2. \A i \in 1 .. Len(db[d].mutations) : q.mutations[i] = db[d].mutations[i]
    BY <2>1, StepDatabase
  <2> QED
    BY <2>1, <2>2 DEF StepOf
<1>3. CASE log' = log /\ db'[d].uploaded = db[d].uploaded
  <2>1. \A c \in Device : db'[c].uploaded = db[c].uploaded
    BY <1>3 DEF StepOf
  <2>2. \A c \in Device : \A i \in 1 .. db[c].uploaded : db'[c].mutations[i] = db[c].mutations[i]
    BY <1>1, <1>2
  <2> QED
    BY <1>3, <2>1, <2>2, UploadedKept DEF CInv
<1>4. CASE Uploads(d)
  <2> DEFINE next == db[d].uploaded + 1
             m    == db[d].mutations[next]
  <2>1. next \in 1 .. Len(db[d].mutations) /\ m \in MutationSet
    <3>1. db[d].mutations \in Seq(MutationSet) /\ db[d].uploaded \in Nat
          /\ db[d].uploaded < Len(db[d].mutations)
      BY <1>4, LocalFacts DEF Uploads, Database
    <3>2. next \in 1 .. Len(db[d].mutations)
      BY <3>1
    <3> QED
      BY <3>1, <3>2
  <2>2. /\ log' = Append(log, m) /\ Len(log') = Len(log) + 1 /\ log'[Len(log')] = m
        /\ \A p \in 1 .. Len(log) : log'[p] = log[p]
    BY <1>1, <1>4, <2>1 DEF Uploads
  <2>3. \A c \in Device : db'[c].mutations = db[c].mutations
                          /\ db'[c].uploaded = IF c = d THEN next ELSE db[c].uploaded
    BY <1>4, LocalFacts DEF Uploads, IInv, SyncTypes, Database
  <2>4. \A p, q \in 1 .. Len(log) : log[p].key = log[q].key => p = q
    BY DEF CInv, UploadedOnce
  <2>5. \A p \in 1 .. Len(log) : log[p].key # m.key
    <3> SUFFICES ASSUME NEW p \in 1 .. Len(log), log[p].key = m.key
                 PROVE  FALSE
      OBVIOUS
    <3>1. PICK c \in Device : \E i \in 1 .. db[c].uploaded : log[p] = db[c].mutations[i]
      BY DEF CInv, UploadedOnce
    <3>2. PICK i \in 1 .. db[c].uploaded : log[p] = db[c].mutations[i]
      BY <3>1
    <3>3. i \in 1 .. Len(db[c].mutations)
      <4>1. db[c].uploaded \in Nat /\ db[c].uploaded <= Len(db[c].mutations) /\ Len(db[c].mutations) \in Nat
        BY <1>1
      <4> QED
        BY <4>1
    <3>4. c = d /\ i = next
      <4>1. db[c].mutations[i].key = db[d].mutations[next].key /\ \A a \in Device : OwnOrder(db[a])
        BY <3>2 DEF CInv
      <4>2. next \in 1 .. Len(db[d].mutations)
        BY <2>1
      <4> HIDE DEF next
      <4> QED
        BY <3>3, <4>1, <4>2, OneKey
    <3> QED
      BY <1>1, <3>2, <3>4
  <2> HIDE DEF m
  <2>6. \A p : p \in 1 .. Len(log') <=> p \in 1 .. Len(log) \/ p = Len(log')
    BY <1>1, <2>2
  <2>7. ASSUME NEW p \in 1 .. Len(log'), NEW q \in 1 .. Len(log'), log'[p].key = log'[q].key
        PROVE  p = q
    BY <2>2, <2>4, <2>5, <2>6, <2>7
  <2>8. ASSUME NEW c \in Device, NEW i \in 1 .. db'[c].uploaded
        PROVE  \E p \in 1 .. Len(log') : log'[p] = db'[c].mutations[i]
    <3>1. CASE i \in 1 .. db[c].uploaded
      <4>1. PICK p \in 1 .. Len(log) : log[p] = db[c].mutations[i]
        BY <3>1 DEF CInv, UploadedOnce
      <4> QED
        BY <2>2, <2>3, <2>6, <4>1
    <3>2. CASE i \notin 1 .. db[c].uploaded
      <4>1. c = d /\ i = next
        <5>1. db[c].uploaded \in Nat /\ db'[c].uploaded = IF c = d THEN next ELSE db[c].uploaded
          BY <1>1, <2>3
        <5> QED
          BY <3>2, <5>1
      <4>2. db'[c].mutations[i] = m
        BY <2>3, <4>1 DEF m
      <4>3. Len(log') \in 1 .. Len(log')
        BY <2>6
      <4> QED
        BY <2>2, <4>2, <4>3
    <3> QED
      BY <3>1, <3>2
  <2>9. ASSUME NEW p \in 1 .. Len(log')
        PROVE  \E c \in Device : \E i \in 1 .. db'[c].uploaded : log'[p] = db'[c].mutations[i]
    <3>1. CASE p \in 1 .. Len(log)
      <4>1. PICK c \in Device : \E i \in 1 .. db[c].uploaded : log[p] = db[c].mutations[i]
        BY <3>1 DEF CInv, UploadedOnce
      <4>2. PICK i \in 1 .. db[c].uploaded : log[p] = db[c].mutations[i]
        BY <4>1
      <4>3. i \in 1 .. db'[c].uploaded
        BY <1>1, <2>3, <4>2
      <4> QED
        BY <2>2, <2>3, <3>1, <4>2, <4>3
    <3>2. CASE p = Len(log')
      <4>1. next \in 1 .. db'[d].uploaded
        BY <1>1, <2>3
      <4>2. log'[p] = db'[d].mutations[next]
        BY <2>2, <2>3, <3>2 DEF m
      <4> QED
        BY <4>1, <4>2
    <3> QED
      BY <2>6, <3>1, <3>2
  <2> QED
    BY <2>7, <2>8, <2>9 DEF UploadedOnce
<1> QED
  BY <1>3, <1>4 DEF StepOf

\* A computer that does not move, while the log may grow.
LEMMA OthersKeep ==
  ASSUME IInv, CInv, log' = log \/ \E m \in MutationSet : log' = Append(log, m),
         torn' = 0 => torn = 0, NEW c \in Device, db'[c] = db[c], open'[c] = open[c]
  PROVE  /\ OwnOrder(db[c])' /\ Content(c, db[c])'
         /\ open'[c] # None => Content(c, open[c].work)'
         /\ torn' = 0 => Clean(db[c])' /\ (open'[c] # None => Clean(open[c].work)')
<1>1. PICK r, w : r = db[c] /\ w = open[c]
  OBVIOUS
<1>2. db'[c] = r /\ open'[c] = w
  BY <1>1
<1>3. /\ r.received \subseteq 1 .. Len(log) /\ r.deferred \subseteq r.received
      /\ w # None => w.work.received \subseteq 1 .. Len(log) /\ w.work.deferred \subseteq w.work.received
      /\ log \in Seq(MutationSet)
  BY <1>1, LocalFacts DEF Sound, SoundTransaction
<1>4. Content(c, r) /\ OwnOrder(r) /\ (torn = 0 => Clean(r))
      /\ (w # None => Content(c, w.work) /\ (torn = 0 => Clean(w.work)))
  BY <1>1 DEF CInv
<1>5. Content(c, r)' /\ (torn' = 0 => Clean(r)')
  BY <1>3, <1>4, LogGrows
<1>6. PICK v : v = w.work
  OBVIOUS
<1>7. w # None => Content(c, v)' /\ (torn' = 0 => Clean(v)')
  BY <1>3, <1>4, <1>6, LogGrows
<1>8. OwnOrder(db[c])'
  BY <1>2, <1>4 DEF OwnOrder
<1> QED
  BY <1>2, <1>5, <1>6, <1>7, <1>8

\* The invariant of all computers is kept.
LEMMA StepContent ==
  ASSUME IInv, IInv', ClocksCover, CInv, RecordsNewest, NEW d \in Device, StepOf(d)
  PROVE  CInv'
<1> USE DEF CInv
<1>1. log \in Seq(MutationSet) /\ (log' = log \/ \E m \in MutationSet : log' = Append(log, m))
  BY LocalFacts, StepLog
<1>2. torn' = 0 => torn = 0
  BY LocalFacts DEF StepOf
<1>3. PICK q : q = db'[d]
  OBVIOUS
<1>4. OwnOrder(q) /\ Content(d, q) /\ (torn' = 0 => Clean(q))
  BY <1>3, StepDatabase
<1>5. q.received \subseteq 1 .. Len(log) /\ q.deferred \subseteq q.received
  <2>1. q.received \subseteq 1 .. Len(log') /\ q.deferred \subseteq q.received
    BY <1>3 DEF IInv, PullSound, Sound
  <2>2. CASE log' = log
    BY <2>1, <2>2
  <2>3. CASE Uploads(d)
    <3>1. q.received = db[d].received
      BY <1>3, <2>3, LocalFacts DEF Uploads, IInv, SyncTypes, Database
    <3> QED
      BY <2>1, <3>1, LocalFacts DEF Sound
  <2> QED
    BY <2>2, <2>3 DEF StepOf
<1>6. Content(d, q)' /\ (torn' = 0 => Clean(q)')
  BY <1>1, <1>4, <1>5, LogGrows
<1>7. Content(d, db[d])' /\ OwnOrder(db[d])' /\ (torn' = 0 => Clean(db[d])')
  BY <1>3, <1>4, <1>6 DEF OwnOrder
<1>8. ASSUME NEW c \in Device \ {d}
      PROVE  /\ OwnOrder(db[c])' /\ Content(c, db[c])'
             /\ open'[c] # None => Content(c, open[c].work)'
             /\ torn' = 0 => Clean(db[c])' /\ (open'[c] # None => Clean(open[c].work)')
  <2>1. db'[c] = db[c] /\ open'[c] = open[c]
    BY DEF StepOf
  <2> QED
    BY <1>1, <1>2, <2>1, OthersKeep
<1>9. open'[d] # None =>
        /\ Content(d, open[d].work)' /\ (torn' = 0 => Clean(open[d].work)')
        /\ KeepsCompletions(db'[d], open'[d].work)
  <2> SUFFICES ASSUME open'[d] # None
               PROVE  /\ Content(d, open[d].work)' /\ (torn' = 0 => Clean(open[d].work)')
                      /\ KeepsCompletions(db'[d], open'[d].work)
    OBVIOUS
  <2>1. PICK o, v : o = open'[d] /\ v = o.work
    OBVIOUS
  <2>2. /\ db'[d] = db[d] /\ log' = log /\ Content(d, v) /\ (torn' = 0 => Clean(v))
        /\ KeepsCompletions(db[d], v)
    BY <2>1, StepTransaction
  <2>3. v.received \subseteq 1 .. Len(log) /\ v.deferred \subseteq v.received
    BY <2>1, <2>2 DEF IInv, PullSound, SoundTransaction, Sound
  <2>4. Content(d, v)' /\ (torn' = 0 => Clean(v)')
    BY <1>1, <2>2, <2>3, LogGrows
  <2> QED
    BY <2>1, <2>2, <2>4
<1>10. CompletionsStay'
  <2>1. ASSUME NEW c \in Device, open'[c] # None
        PROVE  KeepsCompletions(db'[c], open'[c].work)
    BY <1>9, <2>1 DEF StepOf, CompletionsStay
  <2> QED
    BY <2>1 DEF CompletionsStay, KeepsCompletions, Exists
<1>11. DrainedFirst'
  <2>1. ASSUME NEW c \in Device \ {d}
        PROVE  Drained(c)'
    BY DEF StepOf, DrainedFirst, Drained
  <2> QED
    BY <2>1 DEF StepOf, DrainedFirst
<1>12. UploadedOnce'
  BY UploadedStep
<1>13. /\ \A c \in Device : OwnOrder(db[c])' /\ Content(c, db[c])'
       /\ \A c \in Device : open'[c] # None => Content(c, open[c].work)'
       /\ torn' = 0 => \A c \in Device : Clean(db[c])' /\ (open'[c] # None => Clean(open[c].work)')
  BY <1>7, <1>8, <1>9
<1> QED
  BY <1>10, <1>11, <1>12, <1>13

LEMMA InitContent == Init => CInv
<1> SUFFICES ASSUME Init PROVE CInv
  OBVIOUS
<1>1. /\ \A d \in Device : db[d] = EmptyDatabase /\ open[d] = None /\ pull[d] = [w \in Worker(d) |-> IdlePull]
      /\ log = <<>> /\ torn = 0
  BY DEF Init
<1> DEFINE r == EmptyDatabase
<1>2. /\ r.mutations = <<>> /\ r.uploaded = 0 /\ r.received = {} /\ r.deferred = {} /\ r.conflicts = {}
      /\ \A e \in Entity : r.rows[e] = None /\ r.version[e] = NoKey
      /\ \A t \in Task : r.deps[t] = {} /\ \A x \in Task : r.elements[t][x] = NoElement
  BY DEF EmptyDatabase, RecordAssumption
<1> HIDE DEF r
<1>3. Known(r) = {} /\ MergedBy(r) = {}
  BY <1>2 DEF Known, MergedBy, Own
<1>4. ASSUME NEW d \in Device
      PROVE  OwnOrder(r) /\ Content(d, r) /\ Clean(r)
  <2>1. OwnOrder(r)
    BY <1>2 DEF OwnOrder
  <2>2. HeldBack(d, r) /\ Registers(r)
    BY <1>2, <1>3 DEF HeldBack, Registers
  <2>3. Elements(r)
    BY <1>2, <1>3 DEF Elements, Says
  <2>4. PlainRows(r) /\ ForeignKeys(r)
    BY <1>2, <1>3 DEF PlainRows, PlainRow, ForeignKeys, Exists
  <2>5. Clean(r)
    <3>1. Values(r) /\ Flagged(r) /\ LastWritten(r)
      BY <1>2, <1>3 DEF Values, Flagged, LastWritten, Newest, Exists, RecordAssumption, Plain
    <3>2. DepsLive(r)
      BY <1>2 DEF DepsLive
    <3> QED
      BY <3>1, <3>2 DEF Clean
  <2> QED
    BY <2>1, <2>2, <2>3, <2>4, <2>5 DEF Content
<1>5. DrainedFirst
  <2>1. IdlePull.stage = "idle"
    BY DEF IdlePull
  <2>2. ASSUME NEW d \in Device, NEW w \in Worker(d)
        PROVE  pull[d][w] = IdlePull
    <3>1. pull[d] = [v \in Worker(d) |-> IdlePull]
      BY <1>1
    <3> QED
      BY ONLY <2>2, <3>1
  <2>3. \A d \in Device : open[d] = None /\ db[d].deferred = {}
    BY <1>1, <1>2 DEF r
  <2> QED
    BY <2>1, <2>2, <2>3 DEF DrainedFirst, Drained
<1>6. UploadedOnce
  <2>1. \A d \in Device : db[d].uploaded = 0
    BY <1>1, <1>2 DEF r
  <2>2. Len(log) = 0
    BY <1>1
  <2>3. 1 .. 0 = {}
    OBVIOUS
  <2> QED
    BY <2>1, <2>2, <2>3 DEF UploadedOnce
<1>7. CompletionsStay
  BY <1>1 DEF CompletionsStay
<1>8. /\ \A d \in Device : OwnOrder(db[d]) /\ Content(d, db[d]) /\ Clean(db[d])
      /\ \A d \in Device : open[d] = None
  <2>1. \A d \in Device : db[d] = r /\ open[d] = None
    BY <1>1 DEF r
  <2> QED
    BY <1>4, <2>1
<1> QED
  BY <1>5, <1>6, <1>7, <1>8 DEF CInv

LEMMA NextContent ==
  ASSUME IInv, ClocksCover, CInv, [Next]_vars
  PROVE  CInv'
<1>1. IInv' /\ RecordsNewest
  BY NextInv, NextClock
<1>2. (\E d \in Device : StepOf(d)) \/ UNCHANGED vars
  BY NextStep, AllPlain DEF CInv
<1>3. CASE UNCHANGED vars
  <2> SUFFICES ASSUME UNCHANGED vars PROVE CInv'
    BY <1>3
  <2>1. db' = db /\ open' = open /\ pull' = pull /\ log' = log /\ torn' = torn
    BY DEF vars
  <2>2. DrainedFirst' /\ UploadedOnce' /\ CompletionsStay'
    <3>1. DrainedFirst /\ UploadedOnce /\ CompletionsStay
      BY DEF CInv
    <3>2. DrainedFirst'
      BY <2>1, <3>1 DEF DrainedFirst, Drained
    <3>3. UploadedOnce'
      BY <2>1, <3>1, UploadedKept
    <3>4. CompletionsStay'
      BY <2>1, <3>1 DEF CompletionsStay, KeepsCompletions, Exists
    <3> QED
      BY <3>2, <3>3, <3>4
  <2>3. ASSUME NEW c \in Device
        PROVE  /\ OwnOrder(db[c])' /\ Content(c, db[c])'
               /\ open'[c] # None => Content(c, open[c].work)'
               /\ torn' = 0 => Clean(db[c])' /\ (open'[c] # None => Clean(open[c].work)')
    BY <2>1, OthersKeep
  <2> QED
    BY <2>2, <2>3 DEF CInv
<1> QED
  BY <1>1, <1>2, <1>3, StepContent

-----------------------------------------------------------------------------
(* What follows of every behaviour                                            *)

AInv == IInv /\ ClocksCover /\ CInv

LEMMA AlwaysAll == Spec => []AInv /\ [][RecordsNewest]_vars
<1>1. Init => AInv
  BY InitInv, InitClock, InitContent DEF AInv
<1>2. AInv /\ [Next]_vars => AInv'
  BY NextInv, NextClock, NextContent DEF AInv
<1>3. AInv /\ [Next]_vars => RecordsNewest
  BY NextClock DEF AInv
<1> QED
  BY <1>1, <1>2, <1>3, PTL DEF Spec

LEMMA RegistersHold == AInv => RegisterIsNewest
<1> SUFFICES ASSUME AInv, NEW d \in Device, NEW e \in Entity
             PROVE  LET about == {m \in MergedBy(db[d]) : m.entity = e}
                    IN  IF about = {} THEN db[d].version[e] = NoKey
                        ELSE /\ \E m \in about : m.key = db[d].version[e]
                             /\ \A m \in about : AtMost(m.key, db[d].version[e])
  BY DEF RegisterIsNewest
<1> DEFINE about == {m \in MergedBy(db[d]) : m.entity = e}
<1>1. /\ db[d].version[e] = NoKey \/ \E m \in about : m.key = db[d].version[e]
      /\ \A m \in about : AtMost(m.key, db[d].version[e])
  BY DEF AInv, CInv, Content, Registers
<1>2. OfMutations(db[d])
  BY AllBased, BasedOfMutations DEF AInv, CInv
<1>3. \A m \in about : m \in MutationSet
  BY <1>2 DEF OfMutations
<1>4. \A m \in about : ~AtMost(m.key, NoKey)
  BY <1>3, MutationParts, KeyOrder
<1> QED
  BY <1>1, <1>4

\* On every computer, whatever the order of arrival, crashes and aborted pages: the
\* version register of a record is the key of the newest mutation merged for it.
THEOREM RegistersAreNewest == Spec => []RegisterIsNewest
BY RegistersHold, AlwaysAll, PTL

LEMMA ElementsHold == AInv => ElementIsNewest
<1> SUFFICES ASSUME AInv, NEW d \in Device, NEW t \in Task, NEW x \in Task
             PROVE  LET touching == {m \in Known(db[d]) : m.entity = t /\ x \in m.added \cup m.removed}
                        element  == db[d].elements[t][x]
                    IN  IF touching = {} THEN element = NoElement
                        ELSE \E m \in touching :
                               /\ \A n \in touching : AtMost(n.key, m.key)
                               /\ element = [key |-> m.key, live |-> x \in m.added]
  BY DEF ElementIsNewest
<1> DEFINE touching == {m \in Known(db[d]) : m.entity = t /\ x \in m.added \cup m.removed}
<1>1. Says(Known(db[d]), t, x, db[d].elements[t][x])
  BY DEF AInv, CInv, Content, Elements
<1>2. touching = {m \in Known(db[d]) : Touches(m, t, x)}
  BY DEF Touches
<1> HIDE DEF touching
<1>3. CASE touching = {}
  BY <1>1, <1>2, <1>3 DEF Says, touching
<1>4. CASE touching # {}
  <2>1. PICK m \in Known(db[d]) :
          /\ Touches(m, t, x)
          /\ \A n \in Known(db[d]) : Touches(n, t, x) => AtMost(n.key, m.key)
          /\ db[d].elements[t][x] = [key |-> m.key, live |-> x \in m.added]
    BY <1>1, <1>2, <1>4 DEF Says
  <2>2. m \in touching /\ \A n \in touching : AtMost(n.key, m.key)
    BY <1>2, <2>1
  <2> QED
    BY <1>4, <2>1, <2>2 DEF touching
<1> QED
  BY <1>3, <1>4

\* A dependency is there or not as the newest known mutation about it says, whatever
\* the order in which the mutations came.
THEOREM ElementsAreNewest == Spec => []ElementIsNewest
BY ElementsHold, AlwaysAll, PTL

LEMMA KeysHold == AInv => NoOrphans
BY DEF AInv, CInv, Content, ForeignKeys, NoOrphans

\* No record is without its parent and no dependency without its two tasks, although
\* each computer merges, cascades and refuses in an order of its own.
THEOREM NoOrphansEver == Spec => []NoOrphans
BY KeysHold, AlwaysAll, PTL

LEMMA DatesHold == AInv => KeptDateIsFlagged
<1> SUFFICES ASSUME AInv, torn = 0, NEW d \in Device, NEW e \in Task \cup Dated, Exists(db[d], e),
                    NEW m \in MergedBy(db[d]), m.entity = e, m.key = db[d].version[e],
                    m.snapshot # None, m.snapshot.date # db[d].rows[e].date
             PROVE  \E c \in db[d].conflicts : c.entity = e /\ c.by = m.key
  BY DEF KeptDateIsFlagged
<1>1. Flagged(db[d])
  BY DEF AInv, CInv, Clean
<1> QED
  BY <1>1 DEF Flagged, Newest

\* As long as no crash has cut a row change off from its mutation: a critical date
\* that differs from the winning mutation's is one the student was asked about.
THEOREM KeptDatesAreFlagged == Spec => []KeptDateIsFlagged
BY DatesHold, AlwaysAll, PTL

LEMMA RedeliveryHolds == AInv => RedeliveryIsHarmless
<1> SUFFICES ASSUME AInv, NEW d \in Device, NEW p \in db[d].received \ db[d].deferred
             PROVE  Harmless(db[d], log[p], ApplyMutation(db[d], log[p]))
  BY DEF RedeliveryIsHarmless
<1> DEFINE r == db[d]
           m == log[p]
           q == ApplyMutation(r, m)
<1>1. r \in Database /\ p \in 1 .. Len(log) /\ log \in Seq(MutationSet)
  BY LocalFacts DEF AInv, Sound
<1>2. m \in MutationSet /\ m \in MergedBy(r) /\ m \in Known(r)
  BY <1>1 DEF MergedBy, Known
<1>3. Registers(r) /\ Elements(r) /\ OfMutations(r)
  BY AllBased, BasedOfMutations DEF AInv, CInv, Content
<1> HIDE DEF m, r, q
<1>4. Applies(r, q, m)
  BY <1>1, <1>2, ApplyEffect DEF q
<1>5. Outcome(r, m) # "applied"
  <2>1. IsStale(r, m)
    BY <1>2, <1>3, MutationParts DEF Registers, IsStale
  <2> QED
    BY <2>1 DEF Outcome
<1>6. q.rows = r.rows /\ q.links = r.links /\ q.version = r.version /\ q \in Database
  BY <1>4, <1>5 DEF Applies
<1>7. ASSUME NEW t \in Task, NEW x \in Task
      PROVE  q.elements[t][x] = r.elements[t][x]
  <2>1. q.elements[t][x] = IF Touches(m, t, x) /\ Before(r.elements[t][x].key, m.key)
                           THEN [key |-> m.key, live |-> x \in m.added]
                           ELSE r.elements[t][x]
    BY <1>4 DEF Applies
  <2>2. ~(Touches(m, t, x) /\ Before(r.elements[t][x].key, m.key))
    <3> SUFFICES ASSUME Touches(m, t, x), Before(r.elements[t][x].key, m.key)
                 PROVE  FALSE
      OBVIOUS
    <3>1. PICK n \in Known(r) : /\ \A k \in Known(r) : Touches(k, t, x) => AtMost(k.key, n.key)
                                /\ r.elements[t][x] = [key |-> n.key, live |-> x \in n.added]
      BY <1>2, <1>3 DEF Elements, Says
    <3>2. r.elements[t][x].key = n.key /\ AtMost(m.key, n.key) /\ n \in MutationSet
      BY <1>2, <1>3, <3>1 DEF OfMutations
    <3> QED
      BY <1>2, <3>2, MutationParts, KeyOrder
  <2> QED
    BY <2>1, <2>2
<1>8. q.elements = r.elements
  <2>1. q.elements \in [Task -> [Task -> Element]] /\ r.elements \in [Task -> [Task -> Element]]
    BY <1>1, <1>6 DEF Database
  <2>2. ASSUME NEW t \in Task
        PROVE  q.elements[t] = r.elements[t]
    <3>1. q.elements[t] \in [Task -> Element] /\ r.elements[t] \in [Task -> Element]
      BY <2>1
    <3> QED
      BY <1>7, <3>1
  <2> QED
    BY <2>1, <2>2
<1>9. q.clock = r.clock
  <2>1. Covered(r.clock, m.key)
    BY DEF AInv, ClocksCover, Covers, r, m
  <2>2. q.clock = Observe(r.clock, ReadingOf(m.key))
    BY <1>1, <1>2, ApplyObserves DEF q
  <2> QED
    BY <2>1, <2>2 DEF Covered, Observe
<1>10. ASSUME NEW t \in Task
       PROVE  /\ torn = 0 => r.deps[t] \subseteq q.deps[t]
              /\ q.deps[t] # r.deps[t] => t = m.entity /\ q.deps[t] \subseteq LiveElements(r, t)
  <2>1. Rebuilt(r, q, m.entity, t)
    BY <1>4, <1>5 DEF Applies
  <2>2. LiveElements(q, m.entity) = LiveElements(r, m.entity) /\ \A x : Exists(q, x) <=> Exists(r, x)
    BY <1>6, <1>8 DEF LiveElements, Exists
  <2>3. q.deps[t] = IF t = m.entity /\ Exists(r, m.entity)
                    THEN {x \in LiveElements(r, m.entity) \ {m.entity} : Exists(r, x)}
                    ELSE r.deps[t]
    BY ONLY <2>1, <2>2 DEF Rebuilt
  <2>4. torn = 0 => r.deps[t] \subseteq LiveElements(r, t) \ {t}
    BY DEF AInv, CInv, Clean, DepsLive, r
  <2>5. \A x \in r.deps[t] : Exists(r, x)
    BY DEF AInv, CInv, Content, ForeignKeys, r
  <2> QED
    BY ONLY <2>3, <2>4, <2>5
<1>11. /\ r.conflicts \subseteq q.conflicts
       /\ \A c \in q.conflicts \ r.conflicts :
            /\ c.entity = m.entity /\ c.by = m.key /\ ~c.resolved
            /\ c.proposed # r.rows[m.entity].date
  BY <1>4 DEF Applies, Asks
<1>12. Harmless(r, m, q)
  BY <1>6, <1>8, <1>9, <1>10, <1>11 DEF Harmless
<1> QED
  BY <1>12 DEF q, r, m

\* Whatever a database has merged may be delivered again, at any moment: it changes no
\* row, foreign key, register or set element, and not even the clock; of its task's
\* prerequisites it loses none, and it only asks about a date that differs.
THEOREM RedeliveryIsAlwaysHarmless == Spec => []RedeliveryIsHarmless
BY RedeliveryHolds, AlwaysAll, PTL

\* Two databases with the same mutations say the same of an element.
LEMMA SameElement ==
  ASSUME NEW known \in SUBSET MutationSet, NEW other \in SUBSET MutationSet,
         NEW t \in Task, NEW x \in Task, NEW a, NEW b,
         \A m \in MutationSet : Touches(m, t, x) => (m \in known <=> m \in other),
         \A m, n \in known : m.key = n.key => m = n,
         Says(known, t, x, a), Says(other, t, x, b)
  PROVE  a = b
<1>1. CASE \A m \in known : ~Touches(m, t, x)
  <2>1. \A m \in other : ~Touches(m, t, x)
    BY <1>1
  <2> QED
    BY <1>1, <2>1 DEF Says
<1>2. CASE \E m \in known : Touches(m, t, x)
  <2>1. PICK m \in known : /\ Touches(m, t, x)
                           /\ \A k \in known : Touches(k, t, x) => AtMost(k.key, m.key)
                           /\ a = [key |-> m.key, live |-> x \in m.added]
    BY <1>2 DEF Says
  <2>2. m \in other
    BY <2>1
  <2>3. PICK n \in other : /\ Touches(n, t, x)
                           /\ \A k \in other : Touches(k, t, x) => AtMost(k.key, n.key)
                           /\ b = [key |-> n.key, live |-> x \in n.added]
    BY <2>1, <2>2 DEF Says
  <2>4. n \in known
    BY <2>3
  <2>5. m.key = n.key
    <3>1. AtMost(m.key, n.key) /\ AtMost(n.key, m.key)
      BY <2>1, <2>2, <2>3, <2>4
    <3>2. m \in MutationSet /\ n \in MutationSet
      OBVIOUS
    <3> QED
      BY <3>1, <3>2, MutationParts, KeyOrder
  <2>6. m = n
    BY <2>4, <2>5
  <2> QED
    BY <2>1, <2>3, <2>6
<1> QED
  BY <1>1, <1>2

\* The registers of two databases with the same merged mutations.
LEMMA SameRegister ==
  ASSUME NEW r, NEW q, OfMutations(r), OfMutations(q), Registers(r), Registers(q),
         MergedBy(r) = MergedBy(q), NEW e \in Entity
  PROVE  r.version[e] = q.version[e]
<1>1. r.version[e] \in Key(Device) \cup {NoKey} /\ q.version[e] \in Key(Device) \cup {NoKey}
  BY DEF OfMutations, Database
<1>2. \A m \in MergedBy(r) : m.key \in Key(Device) /\ m.key # NoKey
  BY MutationParts DEF OfMutations
<1>3. CASE \A m \in MergedBy(r) : m.entity # e
  <2>1. r.version[e] = NoKey
    BY <1>3 DEF Registers
  <2>2. q.version[e] = NoKey
    BY <1>3 DEF Registers
  <2> QED
    BY <2>1, <2>2
<1>4. CASE \E m \in MergedBy(r) : m.entity = e
  <2>1. PICK k \in MergedBy(r) : k.entity = e
    BY <1>4
  <2>2. AtMost(k.key, r.version[e]) /\ AtMost(k.key, q.version[e])
    BY <2>1 DEF Registers
  <2>3. r.version[e] # NoKey /\ q.version[e] # NoKey
    BY <1>2, <2>2, KeyOrder
  <2>4. PICK m \in MergedBy(r) : m.entity = e /\ m.key = r.version[e]
    BY <2>3 DEF Registers
  <2>5. PICK n \in MergedBy(r) : n.entity = e /\ n.key = q.version[e]
    BY <2>3 DEF Registers
  <2>6. AtMost(m.key, q.version[e]) /\ AtMost(n.key, r.version[e])
    BY <2>4, <2>5 DEF Registers
  <2> QED
    BY <1>1, <2>4, <2>5, <2>6, KeyOrder
<1> QED
  BY <1>3, <1>4

LEMMA ConvergedHolds == AInv => Converged
<1> SUFFICES ASSUME AInv, torn = 0, NEW c \in Device, NEW d \in Device, MergedBy(db[c]) = MergedBy(db[d])
             PROVE  /\ db[c].version = db[d].version
                    /\ db[c].elements = db[d].elements
                    /\ \A e \in Plain : db[c].rows[e] = db[d].rows[e]
                    /\ \A e \in Task \cup Dated :
                         Exists(db[c], e) /\ Exists(db[d], e) /\ ~LastDeleted(db[c], e) =>
                           db[c].rows[e].value = db[d].rows[e].value
  BY DEF Converged
<1> DEFINE r == db[c]
           q == db[d]
<1>1. /\ OfMutations(r) /\ Content(c, r) /\ Clean(r)
      /\ OfMutations(q) /\ Content(d, q) /\ Clean(q)
  BY AllBased, BasedOfMutations DEF AInv, CInv
<1>2. \A e \in Entity : r.version[e] = q.version[e]
  BY <1>1, SameRegister DEF Content
<1>3. r.version = q.version
  <2>1. r.version \in [Entity -> Key(Device) \cup {NoKey}] /\ q.version \in [Entity -> Key(Device) \cup {NoKey}]
    BY <1>1 DEF OfMutations, Database
  <2> QED
    BY <1>2, <2>1
<1>4. ASSUME NEW a \in Device, NEW m \in Known(db[a]), m.entity \in Task
      PROVE  m \in MergedBy(db[a])
  <2>1. \A p \in db[a].deferred : log[p].entity \in Unmapped
    BY DEF AInv, CInv, Content, HeldBack
  <2>2. Unmapped \cap Task = {}
    BY DEF RecordAssumption
  <2> QED
    BY <1>4, <2>1, <2>2 DEF Known, MergedBy
<1>5. ASSUME NEW t \in Task, NEW x \in Task
      PROVE  r.elements[t][x] = q.elements[t][x]
  <2>1. Says(Known(r), t, x, r.elements[t][x]) /\ Says(Known(q), t, x, q.elements[t][x])
    BY <1>1 DEF Content, Elements
  <2>2. \A m \in MutationSet : Touches(m, t, x) => (m \in Known(r) <=> m \in Known(q))
    BY <1>1, <1>4 DEF Touches, OfMutations
  <2>3. \A m, n \in Known(r) : m.key = n.key => m = n
    BY WrittenOnce DEF AInv, CInv
  <2>4. Known(r) \in SUBSET MutationSet /\ Known(q) \in SUBSET MutationSet
    BY <1>1 DEF OfMutations
  <2> QED
    BY <2>1, <2>2, <2>3, <2>4, SameElement
<1>6. r.elements = q.elements
  <2>1. q.elements \in [Task -> [Task -> Element]] /\ r.elements \in [Task -> [Task -> Element]]
    BY <1>1 DEF OfMutations, Database
  <2>2. ASSUME NEW t \in Task
        PROVE  q.elements[t] = r.elements[t]
    <3>1. q.elements[t] \in [Task -> Element] /\ r.elements[t] \in [Task -> Element]
      BY <2>1
    <3> QED
      BY <1>5, <3>1
  <2> QED
    BY <2>1, <2>2
<1>7. \A e \in Entity : Newest(r, e) = Newest(q, e)
  BY <1>2 DEF Newest
<1>8. ASSUME NEW e \in Plain
      PROVE  r.rows[e] = q.rows[e]
  <2>1. e \in Entity
    BY DEF Plain
  <2>2. CASE r.version[e] = NoKey
    BY <1>1, <1>2, <2>1, <2>2 DEF Clean, LastWritten
  <2>3. CASE r.version[e] # NoKey
    <3>1. PICK m \in Newest(r, e) : TRUE
      BY <1>1, <2>1, <2>3 DEF Content, Registers, Newest
    <3>2. r.rows[e] = m.snapshot /\ q.rows[e] = m.snapshot
      BY <1>1, <1>7, <2>1 DEF Clean, LastWritten
    <3> QED
      BY <3>2
  <2> QED
    BY <2>2, <2>3
<1>9. ASSUME NEW e \in Task \cup Dated, Exists(r, e), Exists(q, e), ~LastDeleted(r, e)
      PROVE  r.rows[e].value = q.rows[e].value
  <2>1. e \in Entity \ LocalOnly
    BY DEF RecordAssumption
  <2>2. r.version[e] # NoKey
    BY <1>1, <1>9, <2>1 DEF Clean, Values
  <2>3. PICK m \in Newest(r, e) : TRUE
    BY <1>1, <2>1, <2>2 DEF Content, Registers, Newest
  <2>4. m.snapshot # None
    BY <1>9 DEF LastDeleted, Newest
  <2>5. m.snapshot.value = r.rows[e].value /\ m.snapshot.value = q.rows[e].value
    BY <1>1, <1>7, <1>9, <2>1, <2>4 DEF Clean, Values
  <2> QED
    BY <2>5
<1> QED
  BY <1>3, <1>6, <1>8, <1>9

\* Two computers that have merged the same mutations, in any order, hold the same:
\* whatever was lost to a crash, delayed, held back for a later build or delivered twice.
THEOREM ComputersConverge == Spec => []Converged
BY ConvergedHolds, AlwaysAll, PTL

\* A pull, committed, takes no completed task away and reopens none.
THEOREM CompletionsSurvivePulls == Spec => CompletionSurvivesPull
<1> DEFINE Survives == \A d \in Device : CommitPage(d) \/ CommitDrain(d) =>
             \A t \in Task : Exists(db[d], t) /\ db[d].rows[t].done =>
               Exists(db'[d], t) /\ db'[d].rows[t].done
<1>1. AInv => Survives
  <2> SUFFICES ASSUME AInv, NEW d \in Device, CommitPage(d) \/ CommitDrain(d)
               PROVE  \A t \in Task : Exists(db[d], t) /\ db[d].rows[t].done =>
                        Exists(db'[d], t) /\ db'[d].rows[t].done
    OBVIOUS
  <2>1. open[d] # None /\ open[d].work \in Database /\ db \in [Device -> Database]
    BY LocalFacts DEF AInv, CommitPage, CommitDrain, Transaction, IInv, SyncTypes
  <2>2. db'[d].rows = open[d].work.rows
    <3>1. CASE CommitDrain(d)
      BY <2>1, <3>1 DEF CommitDrain
    <3>2. CASE CommitPage(d)
      <4>1. db'[d] = [open[d].work EXCEPT !.cursor = CursorAfter(d)]
        BY <2>1, <3>2 DEF CommitPage
      <4> QED
        BY <2>1, <4>1 DEF Database
    <3> QED
      BY <3>1, <3>2
  <2>3. KeepsCompletions(db[d], open[d].work)
    BY <2>1 DEF AInv, CInv, CompletionsStay
  <2> QED
    BY <2>2, <2>3 DEF KeepsCompletions, Exists
<1> HIDE DEF Survives
<1>2. Spec => [][Survives]_vars
  BY <1>1, AlwaysAll, PTL
<1> QED
  BY <1>2, PTL DEF CompletionSurvivesPull, Survives

-----------------------------------------------------------------------------
(* The account's log                                                          *)

LEMMA InitLog == Init => Log!Init
<1> SUFFICES ASSUME Init PROVE Log!Init
  OBVIOUS
<1>1. log = <<>> /\ \A d \in Device : db[d].uploaded = 0
  BY DEF Init, EmptyDatabase
<1>2. {[position |-> p, id |-> log[p].key] : p \in 1 .. Len(log)} = {}
  BY <1>1
<1>3. [d \in Device |-> {db[d].mutations[i].key : i \in 1 .. db[d].uploaded}] = [c \in Device |-> {}]
  <2>1. ASSUME NEW d \in Device
        PROVE  {db[d].mutations[i].key : i \in 1 .. db[d].uploaded} = {}
    <3>1. db[d].uploaded = 0
      BY <1>1
    <3>2. 1 .. db[d].uploaded = {}
      BY <3>1
    <3> QED
      BY <3>2
  <2> QED
    BY <2>1
<1> QED
  BY <1>2, <1>3 DEF Log!Init

LEMMA StepOfLog ==
  ASSUME IInv, UploadedOnce', log' = log \/ \E m \in MutationSet : log' = Append(log, m)
  PROVE  Log!Next
<1> DEFINE entry(p) == [position |-> p, id |-> log[p].key]
           logged   == {[position |-> p, id |-> log[p].key] : p \in 1 .. Len(log)}
           after    == {[position |-> p, id |-> log'[p].key] : p \in 1 .. Len(log')}
<1>1. log \in Seq(MutationSet) /\ Len(log) \in Nat /\ Len(log') \in Nat /\ Len(log) <= Len(log')
      /\ \A p \in 1 .. Len(log) : p \in 1 .. Len(log') /\ log'[p] = log[p]
  BY DEF IInv, SyncTypes
<1>2. logged \subseteq after
  BY <1>1
<1>3. \A r \in logged, s \in after \ logged : r.position < s.position
  <2> SUFFICES ASSUME NEW r \in logged, NEW s \in after, s \notin logged
               PROVE  r.position < s.position
    OBVIOUS
  <2>1. PICK p \in 1 .. Len(log) : r = [position |-> p, id |-> log[p].key]
    OBVIOUS
  <2>2. PICK k \in 1 .. Len(log') : s = [position |-> k, id |-> log'[k].key]
    OBVIOUS
  <2>3. k \notin 1 .. Len(log)
    <3> SUFFICES ASSUME k \in 1 .. Len(log) PROVE FALSE
      OBVIOUS
    <3>1. s = [position |-> k, id |-> log[k].key]
      BY <1>1, <2>2
    <3> QED
      BY <3>1
  <2>4. p < k
    BY <1>1, <2>3
  <2> QED
    BY <2>1, <2>2, <2>4
<1>4. \A r, s \in after : r.id = s.id \/ r.position = s.position => r = s
  <2>1. \A p, k \in 1 .. Len(log') : log'[p].key = log'[k].key => p = k
    BY DEF UploadedOnce
  <2> QED
    BY <2>1
<1>5. ASSUME NEW c \in Device
      PROVE  {db'[c].mutations[i].key : i \in 1 .. db'[c].uploaded} \subseteq {r.id : r \in after}
  <2>1. \A i \in 1 .. db'[c].uploaded : \E p \in 1 .. Len(log') : log'[p] = db'[c].mutations[i]
    BY DEF UploadedOnce
  <2> SUFFICES ASSUME NEW i \in 1 .. db'[c].uploaded
               PROVE  \E r \in after : db'[c].mutations[i].key = r.id
    OBVIOUS
  <2>2. PICK p \in 1 .. Len(log') : log'[p] = db'[c].mutations[i]
    BY <2>1
  <2>3. [position |-> p, id |-> log'[p].key] \in after
    OBVIOUS
  <2> QED
    BY <2>2, <2>3
<1> QED
  BY <1>2, <1>3, <1>4, <1>5 DEF Log!Next

LEMMA NextLog == AInv /\ [Next]_vars => Log!Next
<1> SUFFICES ASSUME AInv, [Next]_vars PROVE Log!Next
  OBVIOUS
<1>1. UploadedOnce'
  BY NextContent DEF AInv, CInv
<1>2. log' = log \/ \E m \in MutationSet : log' = Append(log, m)
  <2>1. (\E d \in Device : StepOf(d)) \/ UNCHANGED vars
    BY NextStep, AllPlain DEF AInv, CInv
  <2>2. CASE UNCHANGED vars
    BY <2>2 DEF vars
  <2> QED
    BY <2>1, <2>2, StepLog DEF AInv
<1> QED
  BY <1>1, <1>2, StepOfLog DEF AInv

\* The log is what SyncUpload provides: append-only, with one entry for each uploaded
\* mutation, whichever computer uploads, pulls or crashes in between.
THEOREM LogIsImplemented == Spec => ImplementsLog
<1>1. Init => Log!Init
  BY InitLog
<1>2. AInv /\ [Next]_vars => Log!Next
  BY NextLog
<1> QED
  BY <1>1, <1>2, AlwaysAll, PTL DEF Spec, ImplementsLog, Log!Spec
=============================================================================
