--------------------------- MODULE AcademicRecords ---------------------------
(***************************************************************************)
(* The student's records on one computer: the profile, terms, courses,     *)
(* tasks, instructors, class times and dated events, which refer to each   *)
(* other.  A command changes a record and lets go of what referred to it,  *)
(* in one transaction.  A form keeps the version its record had when it    *)
(* was opened, the lists beside it stay in use, and only that version is   *)
(* saved over.  What is recorded for the other computers, and what they    *)
(* send, is in CanonicalMerge.                                             *)
(***************************************************************************)
EXTENDS Integers, FiniteSets

CONSTANTS Profile, Term, Course, Task, Instructor, Meeting, Event, None, MaxEdits

Record == UNION {Profile, Term, Course, Task, Instructor, Meeting, Event}

VARIABLES rows,  \* a record -> its row, None without one
          used,  \* the records there ever were: an identifier is made once
          form,  \* the row an open form shows, None without a form
          edits

vars == <<rows, used, form, edits>>

Init == /\ rows = [r \in Record |-> None]
        /\ used = {}
        /\ form = None
        /\ edits = 0

Row == [version : Nat \ {0}, active : BOOLEAN, refs : SUBSET Record]

TypeOK == /\ \A r \in Record : rows[r] = None \/ rows[r] \in Row
          /\ used \subseteq Record
          /\ form = None \/ (form.id \in Record /\ form.row \in Row)
          /\ edits \in 0 .. MaxEdits

Has(r) == rows[r] # None

Known == {r \in Record : Has(r)}

\* Setup writes the profile, whose identity is always the same.
Onboarded == \A r \in Profile : Has(r)

-----------------------------------------------------------------------------
(* References *)

Cascades(r, target) ==
  \/ r \in Instructor /\ target \in Course
  \/ r \in Meeting /\ target \in Course \union Term

SetsNull(r, target) ==
  \/ r \in Meeting /\ target \in Instructor
  \/ r \in Event /\ target \in Term

\* A course's term and a task's course are held by the handlers alone, without a foreign key.
Loose(r, target) ==
  \/ r \in Course /\ target \in Term
  \/ r \in Task /\ target \in Course

One(refs, kind) == Cardinality(refs \intersect kind) = 1

AtMostOne(refs, kind) == Cardinality(refs \intersect kind) <= 1

Refers(r, target) == Cascades(r, target) \/ SetsNull(r, target) \/ Loose(r, target)

\* The references a record of r's kind may be given: one of a kind, and those it cannot be without.
Shapes(r) ==
  {refs \in SUBSET {target \in Record : Refers(r, target)} :
     /\ \A kind \in {Term, Course, Instructor} : AtMostOne(refs, kind)
     /\ r \in Instructor \union Meeting => One(refs, Course)
     /\ r \in Meeting => One(refs, Term)}

ForeignKeysHold(r, refs) == \A target \in refs : Has(target) \/ Loose(r, target)

\* The rows of rs that are left when r's row is deleted.
Removed(rs, r) ==
  LET gone == {r} \union {s \in Known : r \in rs[s].refs /\ Cascades(s, r)}
  IN  [s \in Record |->
        IF s \in gone \/ rs[s] = None THEN None
        ELSE [rs[s] EXCEPT !.refs = {t \in @ : ~(t \in gone /\ SetsNull(s, t))}]]

\* Mutant of Detached: what no foreign key holds keeps its reference.
NothingDetached(r) == rows

\* What the handler lets go before it deletes a term or a course.
Detached(r) ==
  [s \in Record |->
    IF Has(s) /\ r \in rows[s].refs /\ Loose(s, r)
    THEN [rows[s] EXCEPT !.refs = @ \ {r}, !.version = @ + 1]
    ELSE rows[s]]

\* Only one term is active: another that becomes active takes its place.
OnlyActive(r, active) ==
  [s \in Record |->
    IF active /\ s \in Term \ {r} /\ Has(s) /\ rows[s].active
    THEN [rows[s] EXCEPT !.active = FALSE, !.version = @ + 1]
    ELSE rows[s]]

-----------------------------------------------------------------------------
(* The commands *)

Commit(rs) == edits < MaxEdits /\ edits' = edits + 1 /\ rows' = rs

NewRow(refs, active) == [version |-> 1, active |-> active, refs |-> refs]

\* The lists that a new record's references are chosen from are the workspace as it is.
Create(r, refs, active) ==
  /\ Onboarded
  /\ r \notin Profile \union used
  /\ refs \subseteq Known
  /\ active => r \in Term
  /\ Commit([OnlyActive(r, active) EXCEPT ![r] = NewRow(refs, active)])
  /\ used' = used \union {r}
  /\ UNCHANGED form

OpenForm(r) ==
  /\ Onboarded /\ form = None /\ Has(r)
  /\ form' = [id |-> r, row |-> rows[r]]
  /\ UNCHANGED <<rows, used, edits>>

\* The row is there and has the version the form was opened with.
Unchanged == Has(form.id) /\ rows[form.id].version = form.row.version

\* The form offers what it shows and what there is.
Update(refs, active) ==
  /\ form # None /\ Unchanged
  /\ ForeignKeysHold(form.id, refs)
  /\ refs \subseteq form.row.refs \union Known
  /\ active => form.id \in Term
  /\ Commit([OnlyActive(form.id, active) EXCEPT
               ![form.id] = [version |-> @.version + 1, active |-> active, refs |-> refs]])
  /\ form' = None
  /\ UNCHANGED used

\* From its list, an open form beside it or not.
Delete(r) ==
  /\ Onboarded /\ Has(r) /\ r \notin Profile
  /\ Commit(Removed(Detached(r), r))
  /\ UNCHANGED <<used, form>>

\* The record changed meanwhile: nothing is saved.
Refuse ==
  /\ form # None /\ ~Unchanged
  /\ form' = None
  /\ UNCHANGED <<rows, used, edits>>

\* What a new record of setup refers to: the new term, and the new course.
Given(r, t, added) ==
  (IF r \in UNION {Course, Meeting, Event} THEN {t} ELSE {})
    \union (IF r \in Instructor \union Meeting THEN added \intersect Course ELSE {})
    \union (IF r \in Meeting THEN added \intersect Instructor ELSE {})

\* The rows setup leaves: the profile, an active term in the others' place, and the new records in it.
SetUp(t, added) ==
  [s \in Record |->
    IF s \in Profile /\ Has(s) THEN [rows[s] EXCEPT !.version = @ + 1]
    ELSE IF s \in Profile \union {t} \union added THEN NewRow(Given(s, t, added), s = t)
    ELSE IF s \in Term /\ Has(s) THEN [rows[s] EXCEPT !.active = FALSE]
    ELSE rows[s]]

\* It may be run again, as when the plan could not be made.
CompleteOnboarding(t, added) ==
  /\ form = None
  /\ ({t} \union added) \intersect used = {}
  /\ AtMostOne(added, Course) /\ AtMostOne(added, Instructor)
  /\ added \intersect (Instructor \union Meeting) # {} => One(added, Course)
  /\ Commit(SetUp(t, added))
  /\ used' = used \union Profile \union {t} \union added
  /\ UNCHANGED form

Next == \/ \E t \in Term, added \in SUBSET UNION {Course, Instructor, Meeting, Event} : CompleteOnboarding(t, added)
        \/ \E r \in Record : OpenForm(r) \/ Delete(r) \/ \E refs \in Shapes(r), active \in BOOLEAN : Create(r, refs, active)
        \/ form # None /\ \E refs \in Shapes(form.id), active \in BOOLEAN : Update(refs, active)
        \/ Refuse

Spec == Init /\ [][Next]_vars

-----------------------------------------------------------------------------
(* Properties *)

\* Whatever is deleted, and whichever form is saved after, no record refers to one that is gone:
\* the handler lets go of what no foreign key holds, and the keys take the rest along.
ReferencesHold == \A r \in Known : rows[r].refs \subseteq Known

\* Classes read off a schedule are put in the active term: there is never more than one.
OneActiveTerm == Cardinality({t \in Term \intersect Known : rows[t].active}) <= 1
=============================================================================
