---------------------------- MODULE ImportReview ----------------------------
(***************************************************************************)
(* What a source says becomes a candidate, and a candidate becomes a       *)
(* record only when the student approves it.  An item that was observed    *)
(* before with the same contents is not offered again; one that gives an   *)
(* approved record another date is a conflict, which only its own          *)
(* resolution settles.  Two kinds of item stand for the four: a task has   *)
(* the date of its record, a class meeting that of its last approval, and  *)
(* a class meeting needs a term and brings its course.                     *)
(***************************************************************************)
EXTENDS Integers, Sequences, FiniteSets

CONSTANTS Item, Meetings, Date, None, MaxCandidates, MaxEdits

VARIABLES source,      \* what the feed says now: an item -> its date, None without one
          objects,     \* the contents observed before
          candidates,  \* in the order of their rows
          conflicts,   \* a candidate -> the record an open conflict is about
          records,     \* in the order of their rows, deleted ones too
          courses,     \* the items whose course has been made
          term,        \* whether there is a term to put classes in
          links,       \* a record -> the value its date is traced to
          edits

vars == <<source, objects, candidates, conflicts, records, courses, term, links, edits>>

Init == /\ source \in [Item -> Date]
        /\ objects = {}
        /\ candidates = <<>>
        /\ conflicts = <<>>
        /\ records = <<>>
        /\ courses = {}
        /\ term = FALSE
        /\ links = <<>>
        /\ edits = 0

TypeOK == /\ source \in [Item -> Date \union {None}]
          /\ objects \subseteq Item \X (Date \union {None})
          /\ \A c \in DOMAIN candidates : candidates[c].status \in {"pending", "approved", "rejected"}
          /\ DOMAIN conflicts \subseteq DOMAIN candidates
          /\ DOMAIN links \subseteq DOMAIN records
          /\ courses \subseteq Item

Pending(c) == candidates[c].status = "pending"

Live(r) == ~records[r].deleted

\* f with the value v at k, which may be new.
With(f, k, v) == [x \in DOMAIN f \union {k} |-> IF x = k THEN v ELSE f[x]]

-----------------------------------------------------------------------------
(* A refresh of the feed, or a file with the same items *)

Approved(item) == {c \in DOMAIN candidates : candidates[c].item = item /\ candidates[c].status = "approved"}

LatestApproved(item) == CHOOSE c \in Approved(item) : \A other \in Approved(item) : c >= other

\* The date an approved record has: a task's own, none when it was deleted; a class has that of its approval.
CurrentDate(item) ==
  LET latest == LatestApproved(item)
      record == candidates[latest].record
  IN  IF item \in Meetings THEN candidates[latest].date
      ELSE IF Live(record) THEN records[record].date ELSE None

Conflicting(item, date) == Approved(item) # {} /\ CurrentDate(item) # date

CandidateConflict(c, item, date) ==
  conflicts' = IF Conflicting(item, date) THEN With(conflicts, c, candidates[LatestApproved(item)].record)
                                          ELSE conflicts

Candidate(item, date, fed) ==
  [item |-> item, date |-> date, fed |-> fed, status |-> "pending", record |-> 0]

Offer(item, date, fed) ==
  /\ Len(candidates) < MaxCandidates
  /\ candidates' = Append(candidates, Candidate(item, date, fed))
  /\ CandidateConflict(Len(candidates) + 1, item, date)

\* One item of a refresh; an item whose contents were seen is passed over.
Pull(item) ==
  /\ IF <<item, source[item]>> \in objects
     THEN UNCHANGED <<objects, candidates, conflicts>>
     ELSE objects' = objects \union {<<item, source[item]>>} /\ Offer(item, source[item], TRUE)
  /\ UNCHANGED <<source, records, courses, term, links, edits>>

\* A file is offered whole, whatever was observed before.
IngestDocument(item) ==
  /\ Offer(item, source[item], FALSE)
  /\ UNCHANGED <<source, objects, records, courses, term, links, edits>>

\* Every start compares what is pending from a feed with the records as they are by then.
BackfillLinks ==
  LET late == {c \in DOMAIN candidates \ DOMAIN conflicts :
                 Pending(c) /\ candidates[c].fed /\ Conflicting(candidates[c].item, candidates[c].date)}
  IN  /\ conflicts' = [c \in late \union DOMAIN conflicts |->
                         IF c \in late THEN candidates[LatestApproved(candidates[c].item)].record ELSE conflicts[c]]
      /\ UNCHANGED <<source, objects, candidates, records, courses, term, links, edits>>

-----------------------------------------------------------------------------
(* The review *)

UpdateCandidate(c, date) ==
  /\ edits < MaxEdits /\ edits' = edits + 1
  /\ Pending(c) /\ candidates[c].date # date
  /\ candidates' = [candidates EXCEPT ![c].date = date]
  /\ UNCHANGED <<source, objects, conflicts, records, courses, term, links>>

FromSource(item) == {r \in DOMAIN records : Live(r) /\ records[r].item = item}

\* Candidate c becomes record r: the one it is about, or a new one at the end.
Apply(c, r) ==
  LET date == candidates[c].date
      item == candidates[c].item
  IN  /\ item \in Meetings => term
      /\ LET Written(i, gone) == [item |-> i, date |-> date, deleted |-> gone, byHand |-> FALSE]
         IN  records' = IF r > Len(records) THEN Append(records, Written(item, FALSE))
                        ELSE [records EXCEPT ![r] = Written(records[r].item, records[r].deleted)]
      /\ courses' = courses \union ({item} \intersect Meetings)
      /\ candidates' = [candidates EXCEPT ![c] = [@ EXCEPT !.status = "approved", !.record = r]]
      /\ links' = IF date = None THEN links ELSE With(links, r, date)

\* Mutant of ApproveCandidate: an item that has a record gets another one.
ApproveAnew(c) ==
  /\ Pending(c)
  /\ c \notin DOMAIN conflicts
  /\ Apply(c, Len(records) + 1)
  /\ UNCHANGED <<source, objects, conflicts, term, edits>>

ApproveCandidate(c) ==
  /\ Pending(c)
  /\ c \notin DOMAIN conflicts
  /\ LET item == candidates[c].item
     IN  Apply(c, IF FromSource(item) = {} THEN Len(records) + 1
                  ELSE CHOOSE r \in FromSource(item) : \A other \in FromSource(item) : r <= other)
  /\ UNCHANGED <<source, objects, conflicts, term, edits>>

RejectCandidate(c) ==
  /\ Pending(c)
  /\ c \notin DOMAIN conflicts
  /\ candidates' = [candidates EXCEPT ![c].status = "rejected"]
  /\ UNCHANGED <<source, objects, conflicts, records, courses, term, links, edits>>

Settle(c) == conflicts' = [other \in DOMAIN conflicts \ {c} |-> conflicts[other]]

\* The record the conflict is about has to be there still.
UseSource(c) ==
  /\ c \in DOMAIN conflicts
  /\ Pending(c)
  /\ Live(conflicts[c])
  /\ Apply(c, conflicts[c])
  /\ Settle(c)
  /\ UNCHANGED <<source, objects, term, edits>>

KeepExisting(c) ==
  /\ c \in DOMAIN conflicts
  /\ Pending(c)
  /\ candidates' = [candidates EXCEPT ![c].status = "rejected"]
  /\ Settle(c)
  /\ UNCHANGED <<source, objects, records, courses, term, links, edits>>

-----------------------------------------------------------------------------
(* What else happens meanwhile *)

EditRecord(r, change) ==
  /\ edits < MaxEdits /\ edits' = edits + 1
  /\ Live(r)
  /\ records' = [records EXCEPT ![r] = change]
  /\ UNCHANGED <<source, objects, candidates, conflicts, courses, term, links>>

CreateTerm ==
  /\ ~term /\ term' = TRUE
  /\ UNCHANGED <<source, objects, candidates, conflicts, records, courses, links, edits>>

SourceChanges(item, date) ==
  /\ edits < MaxEdits /\ edits' = edits + 1
  /\ source[item] # date
  /\ source' = [source EXCEPT ![item] = date]
  /\ UNCHANGED <<objects, candidates, conflicts, records, courses, term, links>>

Next == \/ \E item \in Item : \/ Pull(item)
                              \/ IngestDocument(item)
                              \/ \E date \in Date \union {None} : SourceChanges(item, date)
        \/ \E c \in DOMAIN candidates : \/ \E date \in Date : UpdateCandidate(c, date)
                                        \/ ApproveCandidate(c)
                                        \/ RejectCandidate(c)
                                        \/ UseSource(c)
                                        \/ KeepExisting(c)
        \/ \E r \in DOMAIN records : \/ \E date \in Date : EditRecord(r, [records[r] EXCEPT !.date = date, !.byHand = TRUE])
                                     \/ EditRecord(r, [records[r] EXCEPT !.deleted = TRUE])
        \/ CreateTerm
        \/ BackfillLinks

Spec == Init /\ [][Next]_vars

-----------------------------------------------------------------------------
\* However often an item comes, from a feed and from files, with whatever dates, changed,
\* rejected or deleted in between, there is one record of it, a class it is has a course,
\* and a date that nobody edited by hand is the one its evidence is linked to.
OneRecordPerSource ==
  \A item \in Item :
    /\ Cardinality(FromSource(item)) <= 1
    /\ item \in Meetings /\ FromSource(item) # {} => item \in courses
    /\ \A r \in FromSource(item) :
          ~records[r].byHand /\ records[r].date # None => r \in DOMAIN links /\ links[r] = records[r].date

\* A conflict that is open can be settled: no other command has taken its candidate away.
ConflictsCanBeSettled == \A c \in DOMAIN conflicts : Pending(c) /\ Approved(candidates[c].item) # {}
=============================================================================
