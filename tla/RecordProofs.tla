---------------------------- MODULE RecordProofs ----------------------------
(***************************************************************************)
(* Proofs about the parts of RecordParts, for any items, dates, blocks,    *)
(* records, lines and days.                                                *)
(***************************************************************************)
EXTENDS RecordParts, FiniteSetTheorems, WellFoundedInduction, SequenceTheorems, TLAPS

-----------------------------------------------------------------------------
(* The review of what sources say.  A conflict is settled by writing to the *)
(* record its item was approved into, so what candidates and conflicts      *)
(* point to is a record of their own item.                                  *)

AnyDate == Date \union {None}

ReviewTypes ==
  /\ source \in [Item -> AnyDate]
  /\ candidates \in Seq([item : Item, date : AnyDate, fed : BOOLEAN,
                         status : {"pending", "approved", "rejected"}, record : Nat])
  /\ reviewRecords \in Seq([item : Item, date : AnyDate, deleted : BOOLEAN, byHand : BOOLEAN])
  /\ DOMAIN links \subseteq DOMAIN reviewRecords

\* What was approved is a record of its item, which may have been deleted since.
ApprovedIsRecord ==
  \A c \in DOMAIN candidates : candidates[c].status = "approved" =>
    /\ candidates[c].record \in DOMAIN reviewRecords
    /\ reviewRecords[candidates[c].record].item = candidates[c].item

\* A conflict is of a pending candidate whose item was approved, and about that record.
ConflictsFollow ==
  \A c \in DOMAIN conflicts :
    /\ c \in DOMAIN candidates /\ Review!Pending(c)
    /\ Review!Approved(candidates[c].item) # {}
    /\ conflicts[c] \in DOMAIN reviewRecords
    /\ reviewRecords[conflicts[c]].item = candidates[c].item

OneRecord == \A r, s \in DOMAIN reviewRecords : Review!Live(r) /\ Review!Live(s) /\ reviewRecords[r].item = reviewRecords[s].item => r = s

CoursesFollow == \A r \in DOMAIN reviewRecords : reviewRecords[r].item \in Meetings => reviewRecords[r].item \in courses

DatesTraced ==
  \A r \in DOMAIN reviewRecords :
    Review!Live(r) /\ ~reviewRecords[r].byHand /\ reviewRecords[r].date # None => r \in DOMAIN links /\ links[r] = reviewRecords[r].date

ReviewInv == ReviewTypes /\ ApprovedIsRecord /\ ConflictsFollow /\ OneRecord /\ CoursesFollow /\ DatesTraced

-----------------------------------------------------------------------------
\* A set of candidates that is not empty has a last one.
LEMMA LastExists ==
  ASSUME NEW n \in Nat, NEW S \in SUBSET (1 .. n), S # {}
  PROVE  \E c \in S : \A other \in S : c >= other
<1> DEFINE T == {k \in Nat : \E c \in S : k = n - c}
<1>1. T # {}
  <2>1. PICK c \in S : TRUE
    OBVIOUS
  <2>2. n - c \in T
    BY <2>1
  <2> QED
    BY <2>2
<1>2. PICK m \in T : \A k \in T : ~(<<k, m>> \in OpToRel(<, Nat))
  <2>1. T \subseteq Nat
    OBVIOUS
  <2> HIDE DEF T
  <2> QED
    BY <1>1, <2>1, NatLessThanWellFounded, WFMin
<1>3. \A k \in T : ~(k < m)
  <2> SUFFICES ASSUME NEW k \in T, k < m PROVE FALSE
    OBVIOUS
  <2>1. <<k, m>> \in OpToRel(<, Nat)
    BY DEF OpToRel
  <2> QED
    BY <1>2, <2>1
<1>4. PICK c \in S : m = n - c
  OBVIOUS
<1>5. ASSUME NEW other \in S PROVE c >= other
  <2>1. n - other \in T
    OBVIOUS
  <2>2. ~(n - other < m)
    BY <1>3, <2>1
  <2> QED
    BY <1>4, <2>2
<1> QED
  BY <1>5

\* What an item was last approved into is a candidate that was approved into a record of the item.
LEMMA LatestIsApproved ==
  ASSUME ReviewTypes, ApprovedIsRecord, NEW item, Review!Approved(item) # {}
  PROVE  /\ Review!LatestApproved(item) \in Review!Approved(item)
         /\ candidates[Review!LatestApproved(item)].record \in DOMAIN reviewRecords
         /\ reviewRecords[candidates[Review!LatestApproved(item)].record].item = item
<1>1. Len(candidates) \in Nat /\ Review!Approved(item) \in SUBSET (1 .. Len(candidates))
  BY LenProperties DEF ReviewTypes, Review!Approved
<1>2. \E c \in Review!Approved(item) : \A other \in Review!Approved(item) : c >= other
  BY <1>1, LastExists
<1>3. Review!LatestApproved(item) \in Review!Approved(item)
  BY <1>2 DEF Review!LatestApproved
<1> QED
  BY <1>3 DEF ApprovedIsRecord, Review!Approved

\* The record an item has is the one its next approval writes.
LEMMA FirstIsTheRecord ==
  ASSUME ReviewTypes, OneRecord, NEW item, Review!FromSource(item) # {}
  PROVE  (CHOOSE r \in Review!FromSource(item) : \A other \in Review!FromSource(item) : r <= other) \in Review!FromSource(item)
<1>1. PICK r \in Review!FromSource(item) : TRUE
  OBVIOUS
<1>2. \A other \in Review!FromSource(item) : r <= other
  <2>1. r \in Nat
    BY LenProperties DEF ReviewTypes, Review!FromSource
  <2> QED
    BY <2>1 DEF Review!FromSource, OneRecord
<1> QED
  BY <1>2

-----------------------------------------------------------------------------
CandidateSet ==
  [item : Item, date : AnyDate, fed : BOOLEAN, status : {"pending", "approved", "rejected"}, record : Nat]

LEMMA CandidateTyped ==
  ASSUME ReviewTypes, NEW c \in DOMAIN candidates
  PROVE  candidates[c] \in CandidateSet
<1>1. c \in 1 .. Len(candidates)
  BY LenProperties DEF ReviewTypes
<1> QED
  BY <1>1, ElementOfSeq DEF ReviewTypes, CandidateSet

\* What is written to a sequence of records at r, which may be its end.
LEMMA RecordsApplied ==
  ASSUME ReviewTypes, NEW c \in DOMAIN candidates, NEW r \in DOMAIN reviewRecords \union {Len(reviewRecords) + 1}, Review!Apply(c, r)
  PROVE  /\ r \in Nat
         /\ DOMAIN reviewRecords' = DOMAIN reviewRecords \union {r}
         /\ \A s \in DOMAIN reviewRecords : s # r => reviewRecords'[s] = reviewRecords[s]
         /\ reviewRecords'[r].date = candidates[c].date
         /\ ~reviewRecords'[r].byHand
         /\ r \in DOMAIN reviewRecords => reviewRecords'[r].item = reviewRecords[r].item /\ reviewRecords'[r].deleted = reviewRecords[r].deleted
         /\ r \notin DOMAIN reviewRecords => reviewRecords'[r].item = candidates[c].item
         /\ reviewRecords' \in Seq([item : Item, date : AnyDate, deleted : BOOLEAN, byHand : BOOLEAN])
<1>1. Len(reviewRecords) \in Nat /\ DOMAIN reviewRecords = 1 .. Len(reviewRecords)
  BY LenProperties DEF ReviewTypes
<1>2. candidates[c].item \in Item /\ candidates[c].date \in AnyDate
  BY CandidateTyped DEF CandidateSet
<1>3. CASE r \in DOMAIN reviewRecords
  <2> DEFINE new == [item |-> reviewRecords[r].item, date |-> candidates[c].date, deleted |-> reviewRecords[r].deleted, byHand |-> FALSE]
  <2>1. reviewRecords' = [reviewRecords EXCEPT ![r] = new]
    <3>1. ~(r > Len(reviewRecords))
      BY <1>1, <1>3
    <3> QED
      BY <3>1 DEF Review!Apply
  <2>2. reviewRecords[r] \in [item : Item, date : AnyDate, deleted : BOOLEAN, byHand : BOOLEAN]
    BY <1>3, ElementOfSeq, <1>1 DEF ReviewTypes
  <2>3. new \in [item : Item, date : AnyDate, deleted : BOOLEAN, byHand : BOOLEAN]
    BY <1>2, <2>2
  <2>4. reviewRecords' \in Seq([item : Item, date : AnyDate, deleted : BOOLEAN, byHand : BOOLEAN])
    BY <1>3, <2>1, <2>3, ExceptSeq DEF ReviewTypes
  <2> QED
    BY <1>1, <1>3, <2>1, <2>4
<1>4. CASE r = Len(reviewRecords) + 1
  <2> DEFINE new == [item |-> candidates[c].item, date |-> candidates[c].date, deleted |-> FALSE, byHand |-> FALSE]
  <2>1. reviewRecords' = Append(reviewRecords, new)
    BY <1>1, <1>4 DEF Review!Apply
  <2>2. new \in [item : Item, date : AnyDate, deleted : BOOLEAN, byHand : BOOLEAN]
    BY <1>2
  <2>3. reviewRecords' \in Seq([item : Item, date : AnyDate, deleted : BOOLEAN, byHand : BOOLEAN])
    BY <2>1, <2>2, AppendProperties DEF ReviewTypes
  <2>4. Len(reviewRecords') = Len(reviewRecords) + 1 /\ reviewRecords'[r] = new /\ \A s \in 1 .. Len(reviewRecords) : reviewRecords'[s] = reviewRecords[s]
    BY <1>1, <1>4, <2>1, <2>2, AppendProperties DEF ReviewTypes
  <2>5. new.date = candidates[c].date /\ ~new.byHand /\ new.item = candidates[c].item
    OBVIOUS
  <2> HIDE DEF new
  <2>6. DOMAIN reviewRecords' = 1 .. Len(reviewRecords) + 1
    BY <2>3, <2>4, LenProperties
  <2> QED
    BY <1>1, <1>4, <2>3, <2>4, <2>5, <2>6
<1> QED
  BY <1>3, <1>4

\* A candidate that is applied to the record of its item, or to a new one of an item without, keeps the invariant.
LEMMA ApplyKeeps ==
  ASSUME ReviewInv, NEW c \in DOMAIN candidates, Review!Pending(c),
         NEW r \in DOMAIN reviewRecords \union {Len(reviewRecords) + 1}, Review!Apply(c, r),
         r \in DOMAIN reviewRecords => Review!Live(r) /\ reviewRecords[r].item = candidates[c].item,
         r \notin DOMAIN reviewRecords => Review!FromSource(candidates[c].item) = {},
         source' = source,
         DOMAIN conflicts' = DOMAIN conflicts \ {c},
         \A other \in DOMAIN conflicts' : conflicts'[other] = conflicts[other]
  PROVE  ReviewInv'
<1> USE DEF ReviewInv
<1>1. /\ r \in Nat
      /\ DOMAIN reviewRecords' = DOMAIN reviewRecords \union {r}
      /\ \A s \in DOMAIN reviewRecords : s # r => reviewRecords'[s] = reviewRecords[s]
      /\ reviewRecords'[r].date = candidates[c].date
      /\ ~reviewRecords'[r].byHand
      /\ r \in DOMAIN reviewRecords => reviewRecords'[r].item = reviewRecords[r].item /\ reviewRecords'[r].deleted = reviewRecords[r].deleted
      /\ r \notin DOMAIN reviewRecords => reviewRecords'[r].item = candidates[c].item
      /\ reviewRecords' \in Seq([item : Item, date : AnyDate, deleted : BOOLEAN, byHand : BOOLEAN])
  BY RecordsApplied
<1>2. /\ DOMAIN candidates' = DOMAIN candidates
      /\ \A other \in DOMAIN candidates : other # c => candidates'[other] = candidates[other]
      /\ candidates'[c].status = "approved" /\ candidates'[c].record = r
      /\ candidates'[c].item = candidates[c].item
      /\ candidates' \in Seq(CandidateSet)
  <2> DEFINE new == [candidates[c] EXCEPT !.status = "approved", !.record = r]
  <2>1. c \in 1 .. Len(candidates) /\ candidates \in Seq(CandidateSet) /\ candidates[c] \in CandidateSet
    BY LenProperties, CandidateTyped DEF ReviewTypes, CandidateSet
  <2>2. new \in CandidateSet /\ new.status = "approved" /\ new.record = r /\ new.item = candidates[c].item
    BY <1>1, <2>1 DEF CandidateSet
  <2>3. candidates' = [candidates EXCEPT ![c] = new]
    BY DEF Review!Apply
  <2> HIDE DEF new
  <2>4. candidates' \in Seq(CandidateSet)
    BY <2>1, <2>2, <2>3, ExceptSeq
  <2> QED
    BY <2>1, <2>2, <2>3, <2>4
<1>3. /\ candidates[c].date = None => links' = links
      /\ candidates[c].date # None => /\ DOMAIN links' = DOMAIN links \union {r}
                                      /\ links'[r] = candidates[c].date
                                      /\ \A s \in DOMAIN links : s # r => links'[s] = links[s]
  BY DEF Review!Apply, Review!With
<1>4. ReviewTypes'
  BY <1>1, <1>2, <1>3 DEF ReviewTypes, AnyDate, CandidateSet
<1>5. ApprovedIsRecord'
  <2> SUFFICES ASSUME NEW k \in DOMAIN candidates', candidates'[k].status = "approved"
               PROVE  candidates'[k].record \in DOMAIN reviewRecords' /\ reviewRecords'[candidates'[k].record].item = candidates'[k].item
    BY DEF ApprovedIsRecord
  <2>1. CASE k = c
    BY <1>1, <1>2, <2>1
  <2>2. CASE k # c
    BY <1>1, <1>2, <2>2 DEF ApprovedIsRecord
  <2> QED
    BY <2>1, <2>2
<1>6. ConflictsFollow'
  <2> SUFFICES ASSUME NEW k \in DOMAIN conflicts'
               PROVE  /\ k \in DOMAIN candidates' /\ Review!Pending(k)'
                      /\ Review!Approved(candidates[k].item)' # {}
                      /\ conflicts'[k] \in DOMAIN reviewRecords'
                      /\ reviewRecords'[conflicts'[k]].item = candidates'[k].item
    BY DEF ConflictsFollow
  <2>1. /\ k # c /\ k \in DOMAIN candidates /\ Review!Pending(k) /\ candidates'[k] = candidates[k]
        /\ Review!Approved(candidates[k].item) # {}
        /\ conflicts'[k] = conflicts[k] /\ conflicts[k] \in DOMAIN reviewRecords
        /\ reviewRecords[conflicts[k]].item = candidates[k].item
    BY <1>2 DEF ConflictsFollow
  <2>2. Review!Approved(candidates[k].item) \subseteq Review!Approved(candidates[k].item)'
    BY <1>2, <2>1 DEF Review!Approved, Review!Pending
  <2> QED
    BY <1>1, <1>2, <2>1, <2>2 DEF Review!Pending
<1>7. OneRecord'
  <2>1. \A s \in DOMAIN reviewRecords : Review!Live(s) /\ reviewRecords[s].item = candidates[c].item => s = r
    BY <1>1 DEF OneRecord, Review!FromSource
  <2>2. reviewRecords'[r].item = candidates[c].item
    BY <1>1
  <2> QED
    BY <1>1, <2>1, <2>2 DEF OneRecord, Review!Live
<1>8. CoursesFollow'
  <2>1. courses' = courses \union ({candidates[c].item} \intersect Meetings)
    BY DEF Review!Apply
  <2> QED
    BY <1>1, <2>1 DEF CoursesFollow
<1>9. DatesTraced'
  <2> SUFFICES ASSUME NEW s \in DOMAIN reviewRecords', Review!Live(s)', ~reviewRecords'[s].byHand, reviewRecords'[s].date # None
               PROVE  s \in DOMAIN links' /\ links'[s] = reviewRecords'[s].date
    BY DEF DatesTraced
  <2>1. CASE s = r
    BY <1>1, <1>3, <2>1
  <2>2. CASE s # r
    BY <1>1, <1>3, <2>2 DEF DatesTraced, Review!Live
  <2> QED
    BY <2>1, <2>2
<1> QED
  BY <1>4, <1>5, <1>6, <1>7, <1>8, <1>9

\* A candidate that joins the review, with the conflict its date is in, keeps the invariant.
LEMMA OfferKeeps ==
  ASSUME ReviewInv, NEW item \in Item, NEW date \in AnyDate, NEW fed \in BOOLEAN, Review!Offer(item, date, fed),
         UNCHANGED <<source, reviewRecords, courses, links>>
  PROVE  ReviewInv'
<1> USE DEF ReviewInv
<1>0. PICK n \in Nat : n = Len(candidates) + 1
  BY LenProperties DEF ReviewTypes
<1> DEFINE new == Review!Candidate(item, date, fed)
<1>1. candidates \in Seq(CandidateSet) /\ Len(candidates) \in Nat /\ DOMAIN candidates = 1 .. Len(candidates)
  BY LenProperties DEF ReviewTypes, CandidateSet
<1>2. new \in CandidateSet /\ new.status = "pending" /\ new.item = item
  BY DEF CandidateSet, Review!Candidate
<1>3. candidates' = Append(candidates, new)
  BY DEF Review!Offer
<1> HIDE DEF new
<1>4. /\ candidates' \in Seq(CandidateSet) /\ Len(candidates') = n
      /\ candidates'[n] = new /\ \A c \in DOMAIN candidates : candidates'[c] = candidates[c]
  BY <1>0, <1>1, <1>2, <1>3, AppendProperties
<1>5. DOMAIN candidates' = DOMAIN candidates \union {n} /\ n \notin DOMAIN candidates
  BY <1>0, <1>1, <1>4, LenProperties
<1>6. \A i : Review!Approved(i)' = Review!Approved(i)
  BY <1>2, <1>4, <1>5 DEF Review!Approved
<1>7. ReviewTypes'
  BY <1>4 DEF ReviewTypes, CandidateSet
<1>8. ApprovedIsRecord'
  BY <1>2, <1>4, <1>5 DEF ApprovedIsRecord
<1>9. ConflictsFollow'
  <2>1. \/ conflicts' = conflicts
        \/ Review!Approved(item) # {} /\ conflicts' = Review!With(conflicts, n, candidates[Review!LatestApproved(item)].record)
    BY <1>0 DEF Review!Offer, Review!CandidateConflict, Review!Conflicting
  <2>2. \A c \in DOMAIN conflicts :
          /\ c \in DOMAIN candidates' /\ Review!Pending(c)'
          /\ Review!Approved(candidates[c].item)' # {}
          /\ candidates'[c].item = candidates[c].item
    BY <1>4, <1>5, <1>6 DEF ConflictsFollow, Review!Pending
  <2>3. CASE conflicts' = conflicts
    BY <2>2, <2>3 DEF ConflictsFollow
  <2>4. CASE Review!Approved(item) # {} /\ conflicts' = Review!With(conflicts, n, candidates[Review!LatestApproved(item)].record)
    <3>1. /\ candidates[Review!LatestApproved(item)].record \in DOMAIN reviewRecords
          /\ reviewRecords[candidates[Review!LatestApproved(item)].record].item = item
      BY <2>4, LatestIsApproved
    <3>2. /\ DOMAIN conflicts' = DOMAIN conflicts \union {n}
          /\ conflicts'[n] = candidates[Review!LatestApproved(item)].record
          /\ \A c \in DOMAIN conflicts : c # n => conflicts'[c] = conflicts[c]
      BY <2>4 DEF Review!With
    <3>3. \A c \in DOMAIN conflicts : c # n
      BY <1>5 DEF ConflictsFollow
    <3>4. Review!Pending(n)' /\ Review!Approved(candidates[n].item)' # {}
      BY <1>2, <1>4, <1>6, <2>4 DEF Review!Pending
    <3>5. \A c \in DOMAIN conflicts : conflicts'[c] \in DOMAIN reviewRecords /\ reviewRecords[conflicts'[c]].item = candidates[c].item
      BY <3>2, <3>3 DEF ConflictsFollow
    <3> QED
      BY <1>2, <1>4, <1>5, <2>2, <3>1, <3>2, <3>4, <3>5 DEF ConflictsFollow
  <2> QED
    BY <2>1, <2>3, <2>4
<1>10. OneRecord' /\ CoursesFollow' /\ DatesTraced'
  BY DEF OneRecord, CoursesFollow, DatesTraced, Review!Live
<1> QED
  BY <1>7, <1>8, <1>9, <1>10

\* A candidate that leaves the review, its conflict with it, keeps the invariant.
LEMMA RejectionKeeps ==
  ASSUME ReviewInv, NEW c \in DOMAIN candidates, Review!Pending(c),
         candidates' = [candidates EXCEPT ![c].status = "rejected"],
         DOMAIN conflicts' = DOMAIN conflicts \ {c},
         \A other \in DOMAIN conflicts' : conflicts'[other] = conflicts[other],
         UNCHANGED <<source, reviewRecords, courses, links>>
  PROVE  ReviewInv'
<1> USE DEF ReviewInv
<1> DEFINE new == [candidates[c] EXCEPT !.status = "rejected"]
<1>1. c \in 1 .. Len(candidates) /\ candidates \in Seq(CandidateSet) /\ candidates[c] \in CandidateSet
  BY LenProperties, CandidateTyped DEF ReviewTypes, CandidateSet
<1>2. new \in CandidateSet /\ new.status = "rejected" /\ new.item = candidates[c].item
  BY <1>1 DEF CandidateSet
<1>3. candidates' = [candidates EXCEPT ![c] = new]
  OBVIOUS
<1> HIDE DEF new
<1>4. /\ candidates' \in Seq(CandidateSet) /\ DOMAIN candidates' = DOMAIN candidates
      /\ candidates'[c] = new /\ \A k \in DOMAIN candidates : k # c => candidates'[k] = candidates[k]
  BY <1>1, <1>2, <1>3, ExceptSeq
<1>5. \A i : Review!Approved(i)' = Review!Approved(i)
  BY <1>2, <1>4 DEF Review!Approved, Review!Pending
<1>6. ReviewTypes'
  BY <1>4 DEF ReviewTypes, CandidateSet
<1>7. ApprovedIsRecord'
  BY <1>2, <1>4 DEF ApprovedIsRecord
<1>8. ConflictsFollow'
  BY <1>4, <1>5 DEF ConflictsFollow, Review!Pending
<1>9. OneRecord' /\ CoursesFollow' /\ DatesTraced'
  BY DEF OneRecord, CoursesFollow, DatesTraced, Review!Live
<1> QED
  BY <1>6, <1>7, <1>8, <1>9

\* A pending candidate may have another date, which nothing of the invariant is about.
LEMMA CandidateKeeps ==
  ASSUME ReviewInv, NEW c \in DOMAIN candidates, NEW date \in Date, Review!UpdateCandidate(c, date)
  PROVE  ReviewInv'
<1> USE DEF ReviewInv
<1> DEFINE new == [candidates[c] EXCEPT !.date = date]
<1>1. c \in 1 .. Len(candidates) /\ candidates \in Seq(CandidateSet) /\ candidates[c] \in CandidateSet
  BY LenProperties, CandidateTyped DEF ReviewTypes, CandidateSet
<1>2. new \in CandidateSet /\ new.status = candidates[c].status /\ new.item = candidates[c].item /\ Review!Pending(c)
  BY <1>1 DEF CandidateSet, AnyDate, Review!UpdateCandidate
<1>3. candidates' = [candidates EXCEPT ![c] = new]
  BY DEF Review!UpdateCandidate
<1> HIDE DEF new
<1>4. /\ candidates' \in Seq(CandidateSet) /\ DOMAIN candidates' = DOMAIN candidates
      /\ candidates'[c] = new /\ \A k \in DOMAIN candidates : k # c => candidates'[k] = candidates[k]
  BY <1>1, <1>2, <1>3, ExceptSeq
<1>5. \A k \in DOMAIN candidates : candidates'[k].status = candidates[k].status /\ candidates'[k].item = candidates[k].item
  BY <1>2, <1>4
<1>6. \A i : Review!Approved(i)' = Review!Approved(i)
  BY <1>4, <1>5 DEF Review!Approved
<1>7. UNCHANGED <<source, conflicts, reviewRecords, courses, links>>
  BY DEF Review!UpdateCandidate
<1>8. ReviewTypes'
  BY <1>4, <1>7 DEF ReviewTypes, CandidateSet
<1>9. ApprovedIsRecord'
  BY <1>2, <1>4, <1>7 DEF ApprovedIsRecord, Review!Pending
<1>10. ConflictsFollow'
  BY <1>4, <1>5, <1>6, <1>7 DEF ConflictsFollow, Review!Pending
<1>11. OneRecord' /\ CoursesFollow' /\ DatesTraced'
  BY <1>7 DEF OneRecord, CoursesFollow, DatesTraced, Review!Live
<1> QED
  BY <1>8, <1>9, <1>10, <1>11

\* A conflict found at a start is about the record its item was approved into.
LEMMA BackfillKeeps ==
  ASSUME ReviewInv, Review!BackfillLinks
  PROVE  ReviewInv'
<1> USE DEF ReviewInv
<1>1. PICK late : /\ \A c \in late : c \in DOMAIN candidates /\ Review!Pending(c) /\ Review!Approved(candidates[c].item) # {}
                  /\ conflicts' = [c \in late \union DOMAIN conflicts |->
                                     IF c \in late THEN candidates[Review!LatestApproved(candidates[c].item)].record ELSE conflicts[c]]
  <2> DEFINE late == {c \in DOMAIN candidates \ DOMAIN conflicts :
                        Review!Pending(c) /\ candidates[c].fed /\ Review!Conflicting(candidates[c].item, candidates[c].date)}
  <2>1. conflicts' = [c \in late \union DOMAIN conflicts |->
                        IF c \in late THEN candidates[Review!LatestApproved(candidates[c].item)].record ELSE conflicts[c]]
    BY DEF Review!BackfillLinks
  <2>2. \A c \in late : c \in DOMAIN candidates /\ Review!Pending(c) /\ Review!Approved(candidates[c].item) # {}
    BY DEF Review!Conflicting
  <2> HIDE DEF late
  <2> QED
    BY <2>1, <2>2
<1>2. UNCHANGED <<source, candidates, reviewRecords, courses, links>>
  BY DEF Review!BackfillLinks
<1>3. \A i : Review!Approved(i)' = Review!Approved(i)
  BY <1>2 DEF Review!Approved
<1>4. ConflictsFollow'
  <2> SUFFICES ASSUME NEW c \in DOMAIN conflicts'
               PROVE  /\ c \in DOMAIN candidates /\ Review!Pending(c) /\ Review!Approved(candidates[c].item) # {}
                      /\ conflicts'[c] \in DOMAIN reviewRecords /\ reviewRecords[conflicts'[c]].item = candidates[c].item
    BY <1>2, <1>3 DEF ConflictsFollow, Review!Pending
  <2>1. CASE c \in late
    BY <1>1, <2>1, LatestIsApproved
  <2>2. CASE c \notin late
    BY <1>1, <2>2 DEF ConflictsFollow
  <2> QED
    BY <2>1, <2>2
<1>5. ReviewTypes' /\ ApprovedIsRecord' /\ OneRecord' /\ CoursesFollow' /\ DatesTraced'
  BY <1>2 DEF ReviewTypes, ApprovedIsRecord, OneRecord, CoursesFollow, DatesTraced, Review!Live
<1> QED
  BY <1>4, <1>5

\* A record of the student's that is changed by hand or deleted stays the record of its item.
LEMMA EditKeeps ==
  ASSUME ReviewInv, NEW r \in DOMAIN reviewRecords, NEW change, Review!EditRecord(r, change),
         change \in [item : Item, date : AnyDate, deleted : BOOLEAN, byHand : BOOLEAN],
         change.item = reviewRecords[r].item, change.byHand \/ change.deleted
  PROVE  ReviewInv'
<1> USE DEF ReviewInv
<1>1. r \in 1 .. Len(reviewRecords)
  BY LenProperties DEF ReviewTypes
<1>2. reviewRecords' = [reviewRecords EXCEPT ![r] = change] /\ Review!Live(r)
  BY DEF Review!EditRecord
<1>3. /\ reviewRecords' \in Seq([item : Item, date : AnyDate, deleted : BOOLEAN, byHand : BOOLEAN])
      /\ DOMAIN reviewRecords' = DOMAIN reviewRecords
      /\ reviewRecords'[r] = change /\ \A s \in DOMAIN reviewRecords : s # r => reviewRecords'[s] = reviewRecords[s]
  BY <1>1, <1>2, ExceptSeq DEF ReviewTypes
<1>4. UNCHANGED <<source, candidates, conflicts, courses, links>>
  BY DEF Review!EditRecord
<1>5. \A s \in DOMAIN reviewRecords : reviewRecords'[s].item = reviewRecords[s].item
  BY <1>3
<1>6. \A i : Review!Approved(i)' = Review!Approved(i)
  BY <1>4 DEF Review!Approved
<1>7. ReviewTypes'
  BY <1>3, <1>4 DEF ReviewTypes
<1>8. ApprovedIsRecord' /\ CoursesFollow'
  BY <1>3, <1>4, <1>5 DEF ApprovedIsRecord, CoursesFollow
<1>9. ConflictsFollow'
  BY <1>3, <1>4, <1>5, <1>6 DEF ConflictsFollow, Review!Pending
<1>10. OneRecord'
  <2>1. \A s \in DOMAIN reviewRecords : Review!Live(s)' => Review!Live(s)
    BY <1>2, <1>3 DEF Review!Live
  <2> QED
    BY <1>3, <1>5, <2>1 DEF OneRecord
<1>11. DatesTraced'
  BY <1>3, <1>4 DEF DatesTraced, Review!Live
<1> QED
  BY <1>7, <1>8, <1>9, <1>10, <1>11

-----------------------------------------------------------------------------
LEMMA ReviewInit == Review!Init => ReviewInv
BY EmptySeq DEF Review!Init, ReviewInv, ReviewTypes, AnyDate, ApprovedIsRecord, ConflictsFollow, OneRecord, CoursesFollow, DatesTraced

LEMMA ReviewAction ==
  ASSUME ReviewInv, Review!Next
  PROVE  ReviewInv'
<1> USE DEF ReviewInv
<1>1. ASSUME NEW item \in Item, Review!Pull(item) PROVE ReviewInv'
  <2>1. CASE <<item, source[item]>> \in objects
    BY <1>1, <2>1 DEF Review!Pull, ReviewTypes, ApprovedIsRecord, ConflictsFollow, OneRecord, CoursesFollow, DatesTraced, Review!Approved, Review!Pending, Review!Live
  <2>2. CASE <<item, source[item]>> \notin objects
    <3>1. Review!Offer(item, source[item], TRUE) /\ UNCHANGED <<source, reviewRecords, courses, links>> /\ source[item] \in AnyDate
      BY <1>1, <2>2 DEF Review!Pull, ReviewTypes
    <3> QED
      BY <3>1, OfferKeeps
  <2> QED
    BY <2>1, <2>2
<1>2. ASSUME NEW item \in Item, Review!IngestDocument(item) PROVE ReviewInv'
  <2>1. Review!Offer(item, source[item], FALSE) /\ UNCHANGED <<source, reviewRecords, courses, links>> /\ source[item] \in AnyDate
    BY <1>2 DEF Review!IngestDocument, ReviewTypes
  <2> QED
    BY <2>1, OfferKeeps
<1>3. ASSUME NEW item \in Item, NEW date \in AnyDate, Review!SourceChanges(item, date) PROVE ReviewInv'
  BY <1>3 DEF Review!SourceChanges, ReviewTypes, ApprovedIsRecord, ConflictsFollow, OneRecord, CoursesFollow, DatesTraced, Review!Approved, Review!Pending, Review!Live
<1>4. ASSUME NEW c \in DOMAIN candidates, NEW date \in Date, Review!UpdateCandidate(c, date) PROVE ReviewInv'
  BY <1>4, CandidateKeeps
<1>5. ASSUME NEW c \in DOMAIN candidates, Review!ApproveCandidate(c) PROVE ReviewInv'
  <2> DEFINE own == Review!FromSource(candidates[c].item)
             first == CHOOSE r \in own : \A other \in own : r <= other
  <2>1. /\ Review!Pending(c) /\ c \notin DOMAIN conflicts
        /\ UNCHANGED <<source, conflicts>>
    BY <1>5 DEF Review!ApproveCandidate
  <2>2. CASE own = {}
    <3>1. Review!Apply(c, Len(reviewRecords) + 1)
      BY <1>5, <2>2 DEF Review!ApproveCandidate
    <3>2. Len(reviewRecords) + 1 \notin DOMAIN reviewRecords
      BY LenProperties DEF ReviewTypes
    <3> QED
      BY <2>1, <2>2, <3>1, <3>2, ApplyKeeps
  <2>3. CASE own # {}
    <3>1. Review!Apply(c, first)
      BY <1>5, <2>3 DEF Review!ApproveCandidate
    <3>2. first \in own
      BY <2>3, FirstIsTheRecord
    <3>3. first \in DOMAIN reviewRecords /\ Review!Live(first) /\ reviewRecords[first].item = candidates[c].item
      BY <3>2 DEF Review!FromSource
    <3> HIDE DEF first
    <3> QED
      BY <2>1, <3>1, <3>3, ApplyKeeps
  <2> QED
    BY <2>2, <2>3
<1>6. ASSUME NEW c \in DOMAIN candidates, Review!RejectCandidate(c) PROVE ReviewInv'
  BY <1>6, RejectionKeeps DEF Review!RejectCandidate
<1>7. ASSUME NEW c \in DOMAIN candidates, Review!UseSource(c) PROVE ReviewInv'
  <2>1. conflicts[c] \in DOMAIN reviewRecords /\ reviewRecords[conflicts[c]].item = candidates[c].item
    BY <1>7 DEF Review!UseSource, ConflictsFollow
  <2>2. /\ DOMAIN conflicts' = DOMAIN conflicts \ {c}
        /\ \A other \in DOMAIN conflicts' : conflicts'[other] = conflicts[other]
    BY <1>7 DEF Review!UseSource, Review!Settle
  <2>3. Review!Pending(c) /\ Review!Live(conflicts[c]) /\ Review!Apply(c, conflicts[c]) /\ source' = source
    BY <1>7 DEF Review!UseSource
  <2> QED
    BY <2>1, <2>2, <2>3, ApplyKeeps
<1>8. ASSUME NEW c \in DOMAIN candidates, Review!KeepExisting(c) PROVE ReviewInv'
  <2>1. /\ DOMAIN conflicts' = DOMAIN conflicts \ {c}
        /\ \A other \in DOMAIN conflicts' : conflicts'[other] = conflicts[other]
    BY <1>8 DEF Review!KeepExisting, Review!Settle
  <2> QED
    BY <1>8, <2>1, RejectionKeeps DEF Review!KeepExisting
<1>9. ASSUME NEW r \in DOMAIN reviewRecords, NEW date \in Date, Review!EditRecord(r, [reviewRecords[r] EXCEPT !.date = date, !.byHand = TRUE])
      PROVE  ReviewInv'
  <2>1. reviewRecords[r] \in [item : Item, date : AnyDate, deleted : BOOLEAN, byHand : BOOLEAN]
    BY LenProperties, ElementOfSeq DEF ReviewTypes
  <2> DEFINE change == [reviewRecords[r] EXCEPT !.date = date, !.byHand = TRUE]
  <2>2. /\ change \in [item : Item, date : AnyDate, deleted : BOOLEAN, byHand : BOOLEAN]
        /\ change.item = reviewRecords[r].item /\ change.byHand
    BY <2>1 DEF AnyDate
  <2>3. Review!EditRecord(r, change)
    BY <1>9
  <2> HIDE DEF change
  <2> QED
    BY <2>2, <2>3, EditKeeps
<1>10. ASSUME NEW r \in DOMAIN reviewRecords, Review!EditRecord(r, [reviewRecords[r] EXCEPT !.deleted = TRUE]) PROVE ReviewInv'
  <2>1. reviewRecords[r] \in [item : Item, date : AnyDate, deleted : BOOLEAN, byHand : BOOLEAN]
    BY LenProperties, ElementOfSeq DEF ReviewTypes
  <2> DEFINE change == [reviewRecords[r] EXCEPT !.deleted = TRUE]
  <2>2. /\ change \in [item : Item, date : AnyDate, deleted : BOOLEAN, byHand : BOOLEAN]
        /\ change.item = reviewRecords[r].item /\ change.deleted
    BY <2>1
  <2>3. Review!EditRecord(r, change)
    BY <1>10
  <2> HIDE DEF change
  <2> QED
    BY <2>2, <2>3, EditKeeps
<1>11. CASE Review!CreateTerm
  BY <1>11 DEF Review!CreateTerm, ReviewTypes, ApprovedIsRecord, ConflictsFollow, OneRecord, CoursesFollow, DatesTraced, Review!Approved, Review!Pending, Review!Live
<1>12. CASE Review!BackfillLinks
  BY <1>12, BackfillKeeps
<1> QED
  BY <1>1, <1>2, <1>3, <1>4, <1>5, <1>6, <1>7, <1>8, <1>9, <1>10, <1>11, <1>12 DEF Review!Next, AnyDate

LEMMA ReviewStutter == ReviewInv /\ UNCHANGED Review!vars => ReviewInv'
  BY DEF Review!vars, ReviewInv, ReviewTypes, ApprovedIsRecord, ConflictsFollow, OneRecord, CoursesFollow, DatesTraced, Review!Approved, Review!Pending, Review!Live

\* Counting is the same in every part.
LEMMA ReviewCounts == \A S : Review!Cardinality(S) = Cardinality(S)
  BY Zenon DEF Review!Cardinality, Cardinality

\* The invariant implies what the review promises.
LEMMA ReviewImplies == ReviewInv => Review!OneRecordPerSource /\ Review!ConflictsCanBeSettled
<1> SUFFICES ASSUME ReviewInv PROVE Review!OneRecordPerSource /\ Review!ConflictsCanBeSettled
  OBVIOUS
<1> USE DEF ReviewInv
<1>1. ASSUME NEW item \in Item
      PROVE  /\ Cardinality(Review!FromSource(item)) <= 1
             /\ item \in Meetings /\ Review!FromSource(item) # {} => item \in courses
             /\ \A r \in Review!FromSource(item) :
                   ~reviewRecords[r].byHand /\ reviewRecords[r].date # None => r \in DOMAIN links /\ links[r] = reviewRecords[r].date
  <2>1. CASE Review!FromSource(item) = {}
    BY <2>1, FS_EmptySet
  <2>2. CASE Review!FromSource(item) # {}
    <3>1. PICK r \in Review!FromSource(item) : TRUE
      BY <2>2
    <3>2. Review!FromSource(item) = {r}
      BY <3>1 DEF Review!FromSource, OneRecord
    <3>3. Cardinality(Review!FromSource(item)) = 1
      BY <3>2, FS_Singleton
    <3> QED
      BY <3>1, <3>2, <3>3 DEF Review!FromSource, CoursesFollow, DatesTraced
  <2> QED
    BY <2>1, <2>2
<1> QED
  BY <1>1, ReviewCounts DEF Review!OneRecordPerSource, Review!ConflictsCanBeSettled, ConflictsFollow

\* However often an item is offered, edited, rejected or deleted, there is one record of it, its
\* class has a course, its date is traced to its source, and an open conflict can be settled.
THEOREM RecordsAreSingle == Review!Spec => [](Review!OneRecordPerSource /\ Review!ConflictsCanBeSettled)
<1>1. ReviewInv /\ [Review!Next]_(Review!vars) => ReviewInv'
  BY ReviewAction, ReviewStutter
<1> QED
  BY <1>1, ReviewInit, ReviewImplies, PTL DEF Review!Spec

\* What its types leave open.
ReviewBounds == objects \subseteq Item \X AnyDate /\ courses \subseteq Item

\* The types of the state follow.
LEMMA ReviewTypesImply == ReviewInv /\ ReviewBounds => Review!TypeOK
<1> SUFFICES ASSUME ReviewInv, ReviewBounds PROVE Review!TypeOK
  OBVIOUS
<1>1. \A c \in DOMAIN candidates : candidates[c].status \in {"pending", "approved", "rejected"}
  BY CandidateTyped DEF ReviewInv, CandidateSet
<1> QED
  BY <1>1 DEF ReviewInv, ReviewBounds, ReviewTypes, ConflictsFollow, AnyDate, Review!TypeOK

\* Nothing has been observed at first.
LEMMA ReviewBoundsInit == Review!Init => ReviewBounds
  BY DEF Review!Init, ReviewBounds

\* Every step keeps them.
LEMMA ReviewBoundsNext == ReviewInv /\ ReviewBounds /\ [Review!Next]_(Review!vars) => ReviewBounds'
<1> SUFFICES ASSUME ReviewInv, ReviewBounds, [Review!Next]_(Review!vars) PROVE ReviewBounds'
  OBVIOUS
<1> USE DEF ReviewBounds
<1>1. ASSUME NEW item \in Item, Review!Pull(item) PROVE ReviewBounds'
  <2>1. <<item, source[item]>> \in Item \X AnyDate
    BY DEF ReviewInv, ReviewTypes
  <2>2. objects' \subseteq objects \union {<<item, source[item]>>} /\ courses' = courses
    BY <1>1 DEF Review!Pull
  <2> QED
    BY <2>1, <2>2 DEF AnyDate
<1>2. ASSUME NEW c \in DOMAIN candidates, NEW r, Review!Apply(c, r), UNCHANGED objects PROVE ReviewBounds'
  <2>1. candidates[c].item \in Item
    BY CandidateTyped DEF ReviewInv, CandidateSet
  <2>2. courses' \subseteq courses \union {candidates[c].item}
    BY <1>2 DEF Review!Apply
  <2> QED
    BY <1>2, <2>1, <2>2
<1>3. ASSUME NEW c \in DOMAIN candidates, Review!ApproveCandidate(c) PROVE ReviewBounds'
  BY <1>2, <1>3 DEF Review!ApproveCandidate
<1>4. ASSUME NEW c \in DOMAIN candidates, Review!UseSource(c) PROVE ReviewBounds'
  BY <1>2, <1>4 DEF Review!UseSource
<1>5. CASE UNCHANGED <<objects, courses>>
  BY <1>5 DEF AnyDate
<1> QED
  BY <1>1, <1>3, <1>4, <1>5
     DEF Review!Next, Review!vars, Review!IngestDocument, Review!SourceChanges, Review!UpdateCandidate,
         Review!RejectCandidate, Review!KeepExisting, Review!EditRecord, Review!CreateTerm, Review!BackfillLinks

-----------------------------------------------------------------------------
(* Reminders.  What the student has heard of is written down as given, for  *)
(* the time the block has.                                                  *)

RemindInv ==
  /\ Remind!TypeOK
  /\ \A b \in told : /\ b \in DOMAIN deliveries
                     /\ deliveries[b].starts = remindBlocks[b].starts
                     /\ deliveries[b].dismissed \/ deliveries[b].snoozed = None

\* What was heard is not due.
LEMMA RemindImplies == RemindInv => Remind!RemindedOnce
  BY DEF RemindInv, Remind!RemindedOnce, Remind!TakeDueReminders, Remind!Due

\* Nothing has been heard at first.
LEMMA RemindInit == Remind!Init => RemindInv
  BY RemindAssumption DEF Remind!Init, RemindInv, Remind!TypeOK

\* A row that is written has its types.
LEMMA RowIsWritten ==
  ASSUME NEW starts, NEW snoozed, NEW dismissed \in BOOLEAN
  PROVE  /\ Remind!Row(starts, snoozed, dismissed).starts = starts
         /\ Remind!Row(starts, snoozed, dismissed).snoozed = snoozed
         /\ Remind!Row(starts, snoozed, dismissed).dismissed = dismissed
  BY DEF Remind!Row

\* A plan made anew takes what is written of the open blocks along.
LEMMA RegenerateKeeps ==
  ASSUME RemindInv, NEW S \in SUBSET Block, NEW plan \in [S -> remindNow .. MaxRemindTime],
         Remind!Regenerate(remindNow, plan)
  PROVE  RemindInv'
<1> DEFINE open == {b \in DOMAIN remindBlocks :
                      ~remindBlocks[b].locked /\ ~remindBlocks[b].completed /\ remindBlocks[b].starts >= remindNow}
           New(b) == [starts |-> plan[b], completed |-> FALSE, locked |-> FALSE]
<1>1. /\ S \intersect DOMAIN remindBlocks \subseteq open
      /\ remindBlocks' = [b \in (DOMAIN remindBlocks \ open) \union S |-> IF b \in S THEN New(b) ELSE remindBlocks[b]]
      /\ deliveries' = [b \in DOMAIN deliveries \ open |-> deliveries[b]]
      /\ told' = told \ open
      /\ UNCHANGED <<remindNow, lead>>
  BY DEF Remind!Regenerate, Remind!Change, Remind!With, Remind!Without
<1> HIDE DEF open
<1>2. \A b \in S : New(b) \in [starts : 0 .. MaxRemindTime, completed : BOOLEAN, locked : BOOLEAN]
  BY DEF RemindInv, Remind!TypeOK
<1> HIDE DEF New
<1>3. Remind!TypeOK'
  BY <1>1, <1>2 DEF RemindInv, Remind!TypeOK
<1>4. ASSUME NEW b \in told'
      PROVE  /\ b \in DOMAIN deliveries'
             /\ deliveries'[b].starts = remindBlocks'[b].starts
             /\ deliveries'[b].dismissed \/ deliveries'[b].snoozed = None
  BY <1>1, <1>4 DEF RemindInv, Remind!TypeOK
<1> QED
  BY <1>3, <1>4 DEF RemindInv

\* A block that is moved is a block.
LEMMA MovedIsBlock ==
  ASSUME NEW T, NEW block \in [starts : T, completed : BOOLEAN, locked : BOOLEAN], NEW s \in T
  PROVE  [block EXCEPT !.starts = s, !.locked = TRUE] \in [starts : T, completed : BOOLEAN, locked : BOOLEAN]
  OBVIOUS

\* Every step keeps it.
LEMMA RemindNext == RemindInv /\ [Remind!Next]_(Remind!vars) => RemindInv'
<1> SUFFICES ASSUME RemindInv, [Remind!Next]_(Remind!vars) PROVE RemindInv'
  OBVIOUS
<1> USE DEF RemindInv, Remind!TypeOK
<1>1. CASE Remind!Tick
  <2> DEFINE due == Remind!TakeDueReminders
  <2>1. /\ due \subseteq DOMAIN remindBlocks
        /\ deliveries' = [b \in DOMAIN deliveries \union due |->
                            IF b \in due THEN Remind!Row(remindBlocks[b].starts, None, FALSE) ELSE deliveries[b]]
        /\ told' = told \union due
        /\ UNCHANGED <<remindNow, remindBlocks, lead>>
    BY <1>1 DEF Remind!Tick, Remind!With, Remind!TakeDueReminders
  <2> HIDE DEF due
  <2>2. \A b \in due : /\ deliveries'[b].starts = remindBlocks[b].starts
                      /\ deliveries'[b].snoozed = None
                      /\ deliveries'[b].dismissed \in BOOLEAN
    <3> SUFFICES ASSUME NEW b \in due
                 PROVE  /\ deliveries'[b].starts = remindBlocks[b].starts
                        /\ deliveries'[b].snoozed = None
                        /\ deliveries'[b].dismissed \in BOOLEAN
      OBVIOUS
    <3>1. deliveries'[b] = Remind!Row(remindBlocks[b].starts, None, FALSE)
      BY <2>1
    <3> QED
      BY <3>1 DEF Remind!Row
  <2>3. DOMAIN deliveries' = DOMAIN deliveries \union due
        /\ \A b \in DOMAIN deliveries \ due : deliveries'[b] = deliveries[b]
    BY <2>1
  <2>4. Remind!TypeOK'
    BY <2>1, <2>2, <2>3
  <2> QED
    BY <2>1, <2>2, <2>3, <2>4
<1>2. ASSUME NEW b \in DOMAIN remindBlocks, NEW snoozed, NEW dismissed \in BOOLEAN,
             deliveries' = [x \in DOMAIN deliveries \union {b} |->
                              IF x \in {b} THEN Remind!Row(remindBlocks[x].starts, snoozed, dismissed) ELSE deliveries[x]],
             told' = told \ {b} \/ (told' = told \union {b} /\ dismissed),
             UNCHANGED <<remindNow, remindBlocks, lead>>
      PROVE  RemindInv'
  BY <1>2, RowIsWritten
<1>3. ASSUME NEW b \in DOMAIN remindBlocks, NEW length \in Snoozes, Remind!Snooze(b, length) PROVE RemindInv'
  BY <1>2, <1>3 DEF Remind!Snooze, Remind!With
<1>4. ASSUME NEW b \in DOMAIN remindBlocks, Remind!Dismiss(b) PROVE RemindInv'
  BY <1>2, <1>4 DEF Remind!Dismiss, Remind!With
<1>5. ASSUME NEW b \in DOMAIN remindBlocks, NEW s \in remindNow .. MaxRemindTime, Remind!MoveBlock(b, s) PROVE RemindInv'
  <2> DEFINE moved == [remindBlocks[b] EXCEPT !.starts = s, !.locked = TRUE]
  <2>1. s \in 0 .. MaxRemindTime /\ remindBlocks[b] \in [starts : 0 .. MaxRemindTime, completed : BOOLEAN, locked : BOOLEAN]
    BY RemindAssumption
  <2>3. moved \in [starts : 0 .. MaxRemindTime, completed : BOOLEAN, locked : BOOLEAN]
    BY <2>1, MovedIsBlock
  <2>4. /\ remindBlocks' = [remindBlocks EXCEPT ![b] = moved]
        /\ told' = told \ {b}
        /\ UNCHANGED <<remindNow, lead, deliveries>>
    BY <1>5 DEF Remind!MoveBlock, Remind!Change
  <2> HIDE DEF moved
  <2> QED
    BY <2>3, <2>4
<1>6. ASSUME NEW b \in DOMAIN remindBlocks, Remind!ToggleTask(b) PROVE RemindInv'
  <2> DEFINE toggled == [remindBlocks[b] EXCEPT !.completed = ~@]
  <2>1. /\ toggled \in [starts : 0 .. MaxRemindTime, completed : BOOLEAN, locked : BOOLEAN]
        /\ toggled.starts = remindBlocks[b].starts
    OBVIOUS
  <2>2. remindBlocks' = [remindBlocks EXCEPT ![b] = toggled] /\ UNCHANGED <<remindNow, lead, deliveries, told>>
    BY <1>6 DEF Remind!ToggleTask, Remind!Change
  <2> HIDE DEF toggled
  <2> QED
    BY <2>1, <2>2
<1>7. ASSUME NEW length \in Leads \union {0}, Remind!UpdateSettings(length) PROVE RemindInv'
  BY <1>7 DEF Remind!UpdateSettings
<1>8. ASSUME NEW S \in SUBSET Block, NEW plan \in [S -> remindNow .. MaxRemindTime], Remind!Regenerate(remindNow, plan)
      PROVE  RemindInv'
  BY <1>8, RegenerateKeeps
<1>9. CASE Remind!Wait
  BY <1>9, RemindAssumption DEF Remind!Wait
<1>10. CASE UNCHANGED Remind!vars
  BY <1>10 DEF Remind!vars
<1> QED
  BY <1>1, <1>3, <1>4, <1>5, <1>6, <1>7, <1>8, <1>9, <1>10 DEF Remind!Next

\* As long as the student neither moves nor replans a block, a reminder of it comes once.
THEOREM RemindersComeOnce == Remind!Spec => []Remind!RemindedOnce
  BY RemindInit, RemindNext, RemindImplies, PTL DEF Remind!Spec

-----------------------------------------------------------------------------
(* The student's records.  A record refers only to what there is, and to    *)
(* kinds it may refer to; an open form knows no more than its record, as    *)
(* long as the version is the one it was opened with.                       *)

RecordsTyped ==
  /\ \A r \in Records!Record : recordRows[r] = None \/ recordRows[r] \in Records!Row
  /\ recordsUsed \subseteq Records!Record
  /\ form = None \/ (form.id \in Records!Record /\ form.row \in Records!Row)
  /\ recordEdits \in 0 .. MaxRecordEdits

Referring ==
  \A r \in Records!Known : recordRows[r].refs \subseteq {t \in Records!Known : Records!Refers(r, t)}

FormFollows ==
  form # None =>
    /\ form.id \in recordsUsed
    /\ form.row.refs \subseteq {t \in Records!Record : Records!Refers(form.id, t)}
    /\ Records!Has(form.id) =>
         /\ form.row.version <= recordRows[form.id].version
         /\ Records!Unchanged => \A t \in form.row.refs : Records!Loose(form.id, t) => t \in recordRows[form.id].refs

OnlyOneActive ==
  \A s, t \in Term \intersect Records!Known : recordRows[s].active /\ recordRows[t].active => s = t

RecordsInv == RecordsTyped /\ Records!Known \subseteq recordsUsed /\ Referring /\ FormFollows /\ OnlyOneActive

\* What there is has a row.
LEMMA KnownTyped == ASSUME RecordsInv, NEW r \in Records!Known PROVE recordRows[r] \in Records!Row /\ r \in Records!Record
  BY DEF RecordsInv, RecordsTyped, Records!Known, Records!Has

-----------------------------------------------------------------------------
(* Rows that are changed are rows *)

LEMMA NewRowTyped ==
  ASSUME NEW refs \in SUBSET Records!Record, NEW active \in BOOLEAN
  PROVE  /\ Records!NewRow(refs, active) \in Records!Row
         /\ Records!NewRow(refs, active).refs = refs
         /\ Records!NewRow(refs, active).active = active
  BY DEF Records!NewRow, Records!Row

RowOf(targets) == [version : Nat \ {0}, active : BOOLEAN, refs : SUBSET targets]

LEMMA RowDeactivated ==
  ASSUME NEW targets, NEW row \in RowOf(targets), NEW changed, changed = [row EXCEPT !.active = FALSE, !.version = @ + 1]
  PROVE  /\ changed \in RowOf(targets) /\ changed.version \in Nat
         /\ changed.refs = row.refs /\ changed.version = row.version + 1 /\ changed.active = FALSE
<1>1. changed = [version |-> row.version + 1, active |-> FALSE, refs |-> row.refs]
  BY DEF RowOf
<1>2. row.version \in Nat /\ row.refs \subseteq targets
  BY DEF RowOf
<1>3. changed.version = row.version + 1 /\ changed.refs = row.refs
  BY <1>1
<1>4. changed.active = FALSE
  BY <1>1, Zenon
<1>5. row.version + 1 \in Nat \ {0}
  BY <1>2
<1>6. changed \in RowOf(targets)
  BY <1>1, <1>2, <1>5, Zenon DEF RowOf
<1> QED
  BY <1>2, <1>3, <1>4, <1>6

LEMMA RowDeactivatedAlone ==
  ASSUME NEW targets, NEW row \in RowOf(targets), NEW changed, changed = [row EXCEPT !.active = FALSE]
  PROVE  /\ changed \in RowOf(targets) /\ changed.version \in Nat
         /\ changed.refs = row.refs /\ changed.version = row.version /\ changed.active = FALSE
<1>1. changed = [version |-> row.version, active |-> FALSE, refs |-> row.refs]
  BY DEF RowOf
<1>2. row.version \in Nat \ {0} /\ row.active \in BOOLEAN /\ row.refs \subseteq targets
  BY DEF RowOf
<1> QED
  BY <1>1, <1>2 DEF RowOf

LEMMA RowCounted ==
  ASSUME NEW targets, NEW row \in RowOf(targets), NEW changed, changed = [row EXCEPT !.version = @ + 1]
  PROVE  /\ changed \in RowOf(targets) /\ changed.version \in Nat
         /\ changed.refs = row.refs /\ changed.version = row.version + 1 /\ changed.active = row.active
<1>1. changed = [version |-> row.version + 1, active |-> row.active, refs |-> row.refs]
  BY DEF RowOf
<1>2. row.version \in Nat \ {0} /\ row.active \in BOOLEAN /\ row.refs \subseteq targets
  BY DEF RowOf
<1> QED
  BY <1>1, <1>2 DEF RowOf

LEMMA RowThinned ==
  ASSUME NEW targets, NEW row \in RowOf(targets), NEW refs \in SUBSET row.refs, NEW changed, changed = [row EXCEPT !.refs = refs]
  PROVE  /\ changed \in RowOf(targets) /\ changed.version \in Nat
         /\ changed.refs = refs /\ changed.version = row.version /\ changed.active = row.active
<1>1. changed = [version |-> row.version, active |-> row.active, refs |-> refs]
  BY DEF RowOf
<1>2. row.version \in Nat \ {0} /\ row.active \in BOOLEAN /\ row.refs \subseteq targets
  BY DEF RowOf
<1> QED
  BY <1>1, <1>2 DEF RowOf

-----------------------------------------------------------------------------
(* What the operators make of a row *)

\* The others keep their references and lose what makes them active.
LEMMA OthersKept ==
  ASSUME RecordsInv, NEW r \in Records!Record, NEW active \in BOOLEAN, NEW s \in Records!Record
  PROVE  /\ recordRows[s] = None => Records!OnlyActive(r, active)[s] = None
         /\ recordRows[s] # None =>
              /\ Records!OnlyActive(r, active)[s] \in Records!Row
              /\ Records!OnlyActive(r, active)[s].refs = recordRows[s].refs
              /\ Records!OnlyActive(r, active)[s].version >= recordRows[s].version
              /\ Records!OnlyActive(r, active)[s].active => recordRows[s].active
              /\ s \in Term \ {r} /\ active => ~Records!OnlyActive(r, active)[s].active
<1> DEFINE row == recordRows[s]
<1>1. PICK changed : changed = [row EXCEPT !.active = FALSE, !.version = @ + 1]
  BY Zenon
<1>2. Records!OnlyActive(r, active)[s] = IF active /\ s \in Term \ {r} /\ row # None /\ row.active THEN changed ELSE row
  BY <1>1 DEF Records!OnlyActive, Records!Has
<1> HIDE DEF row
<1>3. CASE row = None
  BY <1>2, <1>3 DEF row
<1>4. CASE row # None
  <2>1. row \in Records!Row
    BY <1>4 DEF RecordsInv, RecordsTyped, row
  <2>2. row \in RowOf(Records!Record) /\ row.version \in Nat
    BY <2>1 DEF Records!Row, RowOf
  <2>3. /\ changed \in RowOf(Records!Record) /\ changed.version \in Nat
        /\ changed.refs = row.refs /\ changed.version = row.version + 1 /\ changed.active = FALSE
    BY <1>1, <2>2, RowDeactivated
  <2>4. changed \in Records!Row
    BY <2>3 DEF Records!Row, RowOf
  <2>5. /\ Records!OnlyActive(r, active)[s] \in Records!Row
        /\ Records!OnlyActive(r, active)[s].refs = row.refs
        /\ Records!OnlyActive(r, active)[s].version >= row.version
    <3>1. CASE Records!OnlyActive(r, active)[s] = changed
      BY <2>2, <2>3, <2>4, <3>1
    <3>2. CASE Records!OnlyActive(r, active)[s] = row
      BY <2>1, <2>2, <3>2
    <3> QED
      BY <1>2, <3>1, <3>2
  <2>6. /\ Records!OnlyActive(r, active)[s].active => row.active
        /\ s \in Term \ {r} /\ active => ~Records!OnlyActive(r, active)[s].active
    BY <1>2, <1>4, <2>3, Zenon
  <2> QED
    BY <1>4, <2>5, <2>6, <2>2 DEF row
<1> QED
  BY <1>3, <1>4

\* What is detached keeps everything but the reference, and is another version.
LEMMA OthersDetached ==
  ASSUME RecordsInv, NEW r \in Records!Record, NEW s \in Records!Record
  PROVE  /\ recordRows[s] = None => Records!Detached(r)[s] = None
         /\ recordRows[s] # None =>
              /\ Records!Detached(r)[s] \in Records!Row
              /\ Records!Detached(r)[s].refs \subseteq recordRows[s].refs
              /\ recordRows[s].version \in Nat /\ Records!Detached(r)[s].version >= recordRows[s].version
              /\ Records!Detached(r)[s].active = recordRows[s].active
              /\ Records!Loose(s, r) => r \notin Records!Detached(r)[s].refs
              /\ Records!Detached(r)[s].version = recordRows[s].version => Records!Detached(r)[s] = recordRows[s]
<1> DEFINE row == recordRows[s]
<1>1. PICK changed : changed = [row EXCEPT !.refs = @ \ {r}, !.version = @ + 1]
  BY Zenon
<1>2. Records!Detached(r)[s] = IF row # None /\ r \in row.refs /\ Records!Loose(s, r) THEN changed ELSE row
  BY <1>1 DEF Records!Detached, Records!Has
<1> HIDE DEF row
<1>3. CASE row = None
  BY <1>2, <1>3 DEF row
<1>4. CASE row # None
  <2>1. row \in Records!Row
    BY <1>4 DEF RecordsInv, RecordsTyped, row
  <2>2. row \in RowOf(Records!Record) /\ row.version \in Nat
    BY <2>1 DEF Records!Row, RowOf
  <2>3. /\ changed \in RowOf(Records!Record) /\ changed.version \in Nat
        /\ changed.refs = row.refs \ {r} /\ changed.version = row.version + 1 /\ changed.active = row.active
    <3>1. changed = [version |-> row.version + 1, active |-> row.active, refs |-> row.refs \ {r}]
      BY <1>1, <2>2 DEF RowOf
    <3>2. row.version \in Nat \ {0} /\ row.active \in BOOLEAN /\ row.refs \subseteq Records!Record
      BY <2>2 DEF RowOf
    <3> QED
      BY <3>1, <3>2 DEF RowOf
  <2>4. changed \in Records!Row
    BY <2>3 DEF Records!Row, RowOf
  <2>5. /\ Records!Detached(r)[s] \in Records!Row
        /\ Records!Detached(r)[s].refs \subseteq row.refs
        /\ Records!Detached(r)[s].version >= row.version
        /\ Records!Loose(s, r) => r \notin Records!Detached(r)[s].refs
        /\ Records!Detached(r)[s].version = row.version => Records!Detached(r)[s] = row
    <3>1. CASE Records!Detached(r)[s] = changed
      BY <2>2, <2>3, <2>4, <3>1
    <3>2. CASE Records!Detached(r)[s] = row /\ ~(r \in row.refs /\ Records!Loose(s, r))
      BY <2>1, <2>2, <3>2
    <3> QED
      BY <1>2, <1>4, <3>1, <3>2
  <2>6. Records!Detached(r)[s].active = row.active
    BY <1>2, <2>3, Zenon
  <2> QED
    BY <1>4, <2>5, <2>6, <2>2 DEF row
<1> QED
  BY <1>3, <1>4

-----------------------------------------------------------------------------
\* Without a record nothing is wrong.
LEMMA RecordsInit == Records!Init => RecordsInv
  BY RecordsAssumption
     DEF Records!Init, RecordsInv, RecordsTyped, Referring, FormFollows, OnlyOneActive, Records!Known, Records!Has

\* A form knows no more than its record when the record keeps its references, or is another version.
LEMMA FormStays ==
  ASSUME RecordsInv, form' = form, recordsUsed \subseteq recordsUsed', form # None,
         Records!Has(form.id)' =>
           /\ Records!Has(form.id)
           /\ recordRows'[form.id].version >= recordRows[form.id].version
           /\ recordRows'[form.id].version \in Nat
           /\ recordRows'[form.id].version = recordRows[form.id].version =>
                \A t \in recordRows[form.id].refs : Records!Loose(form.id, t) => t \in recordRows'[form.id].refs
  PROVE  FormFollows'
<1>1. /\ form'.id = form.id /\ form'.row = form.row /\ form.row.version \in Nat
      /\ form.id \in Records!Record
  BY DEF RecordsInv, RecordsTyped, Records!Row
<1>2. /\ form.id \in recordsUsed'
      /\ form.row.refs \subseteq {t \in Records!Record : Records!Refers(form.id, t)}
  BY DEF RecordsInv, FormFollows
<1>3. ASSUME Records!Has(form.id)'
      PROVE  /\ form.row.version <= recordRows'[form.id].version
             /\ recordRows'[form.id].version = form.row.version =>
                  \A t \in form.row.refs : Records!Loose(form.id, t) => t \in recordRows'[form.id].refs
  <2>1. recordRows[form.id].version \in Nat /\ form.row.version <= recordRows[form.id].version
    BY <1>1, <1>3 DEF RecordsInv, RecordsTyped, FormFollows, Records!Has, Records!Row
  <2>2. recordRows'[form.id].version = form.row.version => recordRows[form.id].version = form.row.version
    BY <1>1, <1>3, <2>1
  <2>3. recordRows[form.id].version = form.row.version =>
          \A t \in form.row.refs : Records!Loose(form.id, t) => t \in recordRows[form.id].refs
    BY <1>3 DEF RecordsInv, FormFollows, Records!Unchanged
  <2> QED
    BY <1>1, <1>3, <2>1, <2>2, <2>3
<1> QED
  BY <1>1, <1>2, <1>3 DEF FormFollows, Records!Has, Records!Unchanged, Records!Refers, Records!Loose, Records!Cascades,
                           Records!SetsNull, Records!Record

\* What a record may refer to is of the kinds it may refer to.
LEMMA ShapeRefers ==
  ASSUME NEW r, NEW refs \in Records!Shapes(r)
  PROVE  refs \subseteq {t \in Records!Record : Records!Refers(r, t)}
  BY DEF Records!Shapes

-----------------------------------------------------------------------------
(* The commands *)

\* One record is written, and the others keep their references.
LEMMA OneWritten ==
  ASSUME RecordsInv, NEW r \in Records!Record, NEW active \in BOOLEAN, NEW row \in Records!Row,
         row.refs \subseteq {t \in Records!Known : Records!Refers(r, t)},
         row.active = active, active => r \in Term,
         recordRows' = [Records!OnlyActive(r, active) EXCEPT ![r] = row]
  PROVE  /\ \A s \in Records!Record : recordRows'[s] = None \/ recordRows'[s] \in Records!Row
         /\ Records!Known' = Records!Known \union {r}
         /\ \A s \in Records!Known \ {r} :
              /\ recordRows'[s].refs = recordRows[s].refs
              /\ recordRows'[s].version \in Nat /\ recordRows'[s].version >= recordRows[s].version
         /\ Referring' /\ OnlyOneActive'
<1>1. recordRows'[r] = row /\ \A s \in Records!Record \ {r} : recordRows'[s] = Records!OnlyActive(r, active)[s]
  BY DEF Records!OnlyActive
<1>2. row # None
  BY RecordsAssumption
<1>3. \A s \in Records!Record : recordRows'[s] = None \/ recordRows'[s] \in Records!Row
  BY <1>1, OthersKept
<1>4. \A s \in Records!Record : recordRows'[s] # None <=> recordRows[s] # None \/ s = r
  BY <1>1, <1>2, OthersKept, RecordsAssumption
<1>5. Records!Known' = Records!Known \union {r}
  BY <1>4 DEF Records!Known, Records!Has, Records!Record
<1>6. ASSUME NEW s \in Records!Known \ {r}
      PROVE  /\ s \in Records!Record /\ recordRows'[s].refs = recordRows[s].refs
             /\ recordRows'[s].version \in Nat /\ recordRows'[s].version >= recordRows[s].version
  <2>1. s \in Records!Record /\ recordRows[s] # None
    BY DEF Records!Known, Records!Has
  <2>2. recordRows'[s] \in Records!Row
    BY <1>1, <2>1, OthersKept
  <2>3. recordRows'[s].version \in Nat
    BY <2>2 DEF Records!Row
  <2> QED
    BY <1>1, <2>1, <2>3, OthersKept
<1>7. Referring'
  <2>1. \A s, t : Records!Refers(s, t)' <=> Records!Refers(s, t)
    BY DEF Records!Refers, Records!Cascades, Records!SetsNull, Records!Loose
  <2>2. ASSUME NEW s \in Records!Known'
        PROVE  recordRows'[s].refs \subseteq {t \in Records!Known' : Records!Refers(s, t)}
    BY <1>1, <1>5, <1>6 DEF RecordsInv, Referring
  <2> QED
    BY <2>1, <2>2 DEF Referring
<1>8. OnlyOneActive'
  <2> SUFFICES ASSUME NEW s \in Term \intersect Records!Known', NEW t \in Term \intersect Records!Known',
                      recordRows'[s].active, recordRows'[t].active
               PROVE  s = t
    BY DEF OnlyOneActive
  <2>1. \A u \in Term \intersect Records!Known' : u # r /\ recordRows'[u].active =>
          u \in Records!Known /\ recordRows[u].active /\ ~active
    <3> SUFFICES ASSUME NEW u \in Term \intersect Records!Known', u # r, recordRows'[u].active
                 PROVE  u \in Records!Known /\ recordRows[u].active /\ ~active
      OBVIOUS
    <3>1. u \in Records!Known /\ u \in Records!Record /\ recordRows[u] # None
      BY <1>5 DEF Records!Known, Records!Has
    <3>2. Records!OnlyActive(r, active)[u].active
      BY <1>1, <3>1
    <3> QED
      BY <3>1, <3>2, OthersKept
  <2>2. recordRows'[r].active <=> active
    BY <1>1
  <2>3. CASE active
    BY <2>1, <2>3
  <2>4. CASE ~active
    <3>1. s # r /\ t # r
      BY <2>2, <2>4
    <3> QED
      BY <2>1, <3>1 DEF RecordsInv, OnlyOneActive
  <2> QED
    BY <2>3, <2>4
<1> QED
  BY <1>3, <1>5, <1>6, <1>7, <1>8

LEMMA CreateKeeps ==
  ASSUME RecordsInv, NEW r \in Records!Record, NEW refs \in Records!Shapes(r), NEW active \in BOOLEAN,
         Records!Create(r, refs, active)
  PROVE  RecordsInv'
<1> DEFINE row == Records!NewRow(refs, active)
<1>1. /\ r \notin recordsUsed /\ refs \subseteq Records!Known /\ (active => r \in Term)
      /\ recordRows' = [Records!OnlyActive(r, active) EXCEPT ![r] = row]
      /\ recordEdits < MaxRecordEdits /\ recordEdits' = recordEdits + 1
      /\ recordsUsed' = recordsUsed \union {r} /\ form' = form
  BY DEF Records!Create, Records!Commit
<1>2. row \in Records!Row /\ row.refs = refs /\ row.active = active
  BY NewRowTyped DEF Records!Shapes
<1> HIDE DEF row
<1>3. row.refs \subseteq {t \in Records!Known : Records!Refers(r, t)}
  BY <1>1, <1>2, ShapeRefers
<1>4. /\ \A s \in Records!Record : recordRows'[s] = None \/ recordRows'[s] \in Records!Row
      /\ Records!Known' = Records!Known \union {r}
      /\ \A s \in Records!Known \ {r} :
           /\ recordRows'[s].refs = recordRows[s].refs
           /\ recordRows'[s].version \in Nat /\ recordRows'[s].version >= recordRows[s].version
      /\ Referring' /\ OnlyOneActive'
  BY <1>1, <1>2, <1>3, OneWritten
<1>5. RecordsTyped'
  BY <1>1, <1>4, RecordsAssumption DEF RecordsInv, RecordsTyped, Records!Record, Records!Row
<1>6. FormFollows'
  <2>1. CASE form = None
    BY <1>1, <2>1 DEF FormFollows
  <2>2. CASE form # None
    <3>1. form.id # r /\ form.id \in Records!Record
      BY <1>1, <2>2 DEF RecordsInv, RecordsTyped, FormFollows
    <3>2. Records!Has(form.id)' => form.id \in Records!Known'
      BY <1>1, <3>1 DEF Records!Known, Records!Has, Records!Record
    <3>3. Records!Has(form.id)' => form.id \in Records!Known \ {r}
      BY <1>4, <3>1, <3>2
    <3> QED
      BY <1>1, <1>4, <2>2, <3>3, FormStays DEF Records!Known
  <2> QED
    BY <2>1, <2>2
<1> QED
  BY <1>1, <1>4, <1>5, <1>6 DEF RecordsInv

LEMMA OpenFormKeeps ==
  ASSUME RecordsInv, NEW r \in Records!Record, Records!OpenForm(r)
  PROVE  RecordsInv'
<1>1. /\ r \in Records!Known /\ form' = [id |-> r, row |-> recordRows[r]]
      /\ UNCHANGED <<recordRows, recordsUsed, recordEdits>>
  BY DEF Records!OpenForm, Records!Known, Records!Has
<1>2. form'.id = r /\ form'.row = recordRows[r] /\ recordRows[r] \in Records!Row /\ recordRows[r].version \in Nat
  BY <1>1, KnownTyped DEF Records!Row
<1>3. RecordsTyped'
  BY <1>1, <1>2 DEF RecordsInv, RecordsTyped, Records!Record, Records!Row
<1>4. FormFollows'
  BY <1>1, <1>2
     DEF RecordsInv, Referring, FormFollows, Records!Known, Records!Has, Records!Unchanged, Records!Refers, Records!Loose,
         Records!Cascades, Records!SetsNull, Records!Record
<1>5. Referring' /\ OnlyOneActive' /\ (Records!Known \subseteq recordsUsed)'
  BY <1>1 DEF RecordsInv, Referring, OnlyOneActive, Records!Known, Records!Has, Records!Record, Records!Refers,
              Records!Loose, Records!Cascades, Records!SetsNull
<1> QED
  BY <1>3, <1>4, <1>5 DEF RecordsInv

\* What a form refers to and no foreign key holds is what its record refers to still.
LEMMA UpdateKeeps ==
  ASSUME RecordsInv, NEW refs \in Records!Shapes(form.id), NEW active \in BOOLEAN, Records!Update(refs, active)
  PROVE  RecordsInv'
<1> DEFINE r == form.id
           row == [version |-> recordRows[r].version + 1, active |-> active, refs |-> refs]
<1>1. /\ form # None /\ Records!Has(r) /\ Records!Unchanged
      /\ \A t \in refs : Records!Has(t) \/ Records!Loose(r, t)
      /\ refs \subseteq form.row.refs \union Records!Known /\ (active => r \in Term)
      /\ recordEdits < MaxRecordEdits /\ recordEdits' = recordEdits + 1
      /\ form' = None /\ recordsUsed' = recordsUsed
  BY DEF Records!Update, Records!Commit, Records!ForeignKeysHold, Records!Unchanged
<1>2. r \in Records!Record /\ r \in Records!Known
  BY <1>1 DEF RecordsInv, RecordsTyped, Records!Known
<1>3. recordRows[r].version \in Nat
  BY <1>2, KnownTyped DEF Records!Row
<1>4. recordRows' = [Records!OnlyActive(r, active) EXCEPT ![r] = row]
  <2>1. Records!OnlyActive(r, active)[r].version = recordRows[r].version
    BY <1>2 DEF Records!OnlyActive
  <2>2. recordRows' = [Records!OnlyActive(r, active) EXCEPT
                         ![r] = [version |-> Records!OnlyActive(r, active)[r].version + 1, active |-> active, refs |-> refs]]
    BY DEF Records!Update, Records!Commit
  <2> QED
    BY <2>1, <2>2
<1>5. refs \subseteq {t \in Records!Record : Records!Refers(r, t)}
  BY ShapeRefers
<1>6. row \in Records!Row /\ row.refs = refs /\ row.active = active
  BY <1>3, <1>5 DEF Records!Row
<1> HIDE DEF row
<1>7. row.refs \subseteq {t \in Records!Known : Records!Refers(r, t)}
  <2>1. ASSUME NEW t \in refs, t \notin Records!Known PROVE FALSE
    <3>1. Records!Loose(r, t)
      BY <1>1, <1>5, <2>1 DEF Records!Known
    <3>2. t \in form.row.refs
      BY <1>1, <2>1
    <3>3. t \in recordRows[r].refs
      BY <1>1, <3>1, <3>2 DEF RecordsInv, FormFollows
    <3> QED
      BY <1>2, <2>1, <3>3 DEF RecordsInv, Referring
  <2> QED
    BY <1>5, <1>6, <2>1
<1> HIDE DEF r
<1>8. /\ \A s \in Records!Record : recordRows'[s] = None \/ recordRows'[s] \in Records!Row
      /\ Records!Known' = Records!Known \union {r}
      /\ Referring' /\ OnlyOneActive'
  BY <1>1, <1>2, <1>4, <1>6, <1>7, OneWritten
<1>9. RecordsTyped'
  BY <1>1, <1>8, RecordsAssumption DEF RecordsInv, RecordsTyped, Records!Record, Records!Row
<1>10. FormFollows'
  BY <1>1 DEF FormFollows
<1> QED
  BY <1>1, <1>2, <1>8, <1>9, <1>10 DEF RecordsInv

\* The handler lets go of what no foreign key holds, the keys take the rest along: nobody refers to
\* what is gone.
LEMMA DeleteKeeps ==
  ASSUME RecordsInv, NEW r \in Records!Record, Records!Delete(r)
  PROVE  RecordsInv'
<1> DEFINE rest == Records!Detached(r)
           gone == {r} \union {s \in Records!Known : r \in rest[s].refs /\ Records!Cascades(s, r)}
           Left(s) == {t \in rest[s].refs : ~(t \in gone /\ Records!SetsNull(s, t))}
<1>1. recordRows' = [s \in Records!Record |->
                       IF s \in gone \/ rest[s] = None THEN None
                       ELSE [rest[s] EXCEPT !.refs = Left(s)]]
  BY DEF Records!Delete, Records!Commit, Records!Removed
<1>2. /\ recordEdits < MaxRecordEdits /\ recordEdits' = recordEdits + 1
      /\ recordsUsed' = recordsUsed /\ form' = form
  BY DEF Records!Delete, Records!Commit
<1>3. \A s \in Records!Record :
        /\ recordRows[s] = None => rest[s] = None
        /\ recordRows[s] # None =>
             /\ rest[s] \in Records!Row /\ rest[s].refs \subseteq recordRows[s].refs
             /\ recordRows[s].version \in Nat /\ rest[s].version >= recordRows[s].version
             /\ rest[s].active = recordRows[s].active
             /\ Records!Loose(s, r) => r \notin rest[s].refs
             /\ rest[s].version = recordRows[s].version => rest[s] = recordRows[s]
  BY OthersDetached
<1> HIDE DEF rest
<1>4. ASSUME NEW s \in Records!Record \ gone, recordRows[s] # None
      PROVE  /\ recordRows'[s] \in Records!Row /\ recordRows'[s].version \in Nat
             /\ recordRows'[s].refs = Left(s) /\ recordRows'[s].version = rest[s].version
             /\ recordRows'[s].active = recordRows[s].active
  <2>1. PICK row : row = rest[s]
    OBVIOUS
  <2>2. row \in RowOf(Records!Record) /\ row # None
    BY <1>3, <1>4, <2>1, RecordsAssumption DEF Records!Row, RowOf
  <2>3. PICK changed : changed = [row EXCEPT !.refs = Left(s)]
    BY Zenon
  <2>4. Left(s) \in SUBSET row.refs
    BY <2>1
  <2>5. /\ changed \in RowOf(Records!Record) /\ changed.version \in Nat
        /\ changed.refs = Left(s) /\ changed.version = row.version /\ changed.active = row.active
    BY <2>2, <2>3, <2>4, RowThinned
  <2>6. recordRows'[s] = changed
    BY <1>1, <1>4, <2>1, <2>2, <2>3
  <2> QED
    BY <1>3, <1>4, <2>1, <2>5, <2>6 DEF Records!Row, RowOf
<1>5. \A s \in Records!Record : s \in gone \/ recordRows[s] = None => recordRows'[s] = None
  BY <1>1, <1>3
<1>6. \A s \in Records!Record : recordRows'[s] # None <=> s \notin gone /\ recordRows[s] # None
  BY <1>4, <1>5, RecordsAssumption
<1>7. Records!Known' = Records!Known \ gone
  BY <1>6 DEF Records!Known, Records!Has, Records!Record
<1>8. \A t \in gone : t = r \/ t \in Instructor \/ t \in Meeting
  BY DEF Records!Cascades
<1> HIDE DEF Left
<1>9. RecordsTyped'
  <2>1. \A s \in Records!Record : recordRows'[s] = None \/ recordRows'[s] \in Records!Row
    <3> SUFFICES ASSUME NEW s \in Records!Record PROVE recordRows'[s] = None \/ recordRows'[s] \in Records!Row
      OBVIOUS
    <3>1. CASE s \in gone \/ recordRows[s] = None
      BY <1>5, <3>1
    <3>2. CASE s \notin gone /\ recordRows[s] # None
      BY <1>4, <3>2
    <3> QED
      BY <3>1, <3>2
  <2> QED
    BY <1>2, <2>1, RecordsAssumption DEF RecordsInv, RecordsTyped, Records!Record, Records!Row
<1>10. ASSUME NEW s \in Records!Known', NEW t \in recordRows'[s].refs
      PROVE  t \in Records!Known' /\ Records!Refers(s, t)
  <2>1. s \in Records!Known /\ s \notin gone /\ s \in Records!Record /\ recordRows[s] # None
    BY <1>7 DEF Records!Known, Records!Has
  <2>2. t \in Left(s)
    BY <1>4, <1>10, <2>1
  <2>3. t \in rest[s].refs /\ ~(t \in gone /\ Records!SetsNull(s, t))
    BY <2>2 DEF Left
  <2>4. t \in Records!Known /\ Records!Refers(s, t)
    BY <1>3, <2>1, <2>3 DEF RecordsInv, Referring
  <2>5. ASSUME t \in gone PROVE FALSE
    <3>1. Records!Cascades(s, t) \/ Records!Loose(s, t)
      BY <2>3, <2>4, <2>5 DEF Records!Refers
    <3>2. CASE t = r
      <4>1. ~Records!Loose(s, r)
        BY <1>3, <2>1, <2>3, <3>2
      <4>2. Records!Cascades(s, r) /\ r \in rest[s].refs
        BY <2>3, <3>1, <3>2, <4>1
      <4> QED
        BY <2>1, <4>2
    <3>3. CASE t \in Instructor \/ t \in Meeting
      BY <3>1, <3>3, RecordsAssumption DEF Records!Cascades, Records!Loose
    <3> QED
      BY <1>8, <2>5, <3>2, <3>3
  <2> QED
    BY <1>7, <2>4, <2>5
<1> HIDE DEF gone
<1>11. Referring'
  BY <1>10 DEF Referring, Records!Refers, Records!Cascades, Records!SetsNull, Records!Loose
<1>12. OnlyOneActive'
  <2>1. \A s \in Term \intersect Records!Known' :
          s \in Records!Known /\ s \in Records!Record /\ s \notin gone /\ recordRows[s] # None
    BY <1>7 DEF Records!Known, Records!Has
  <2> QED
    BY <1>4, <2>1 DEF RecordsInv, OnlyOneActive
<1>13. FormFollows'
  <2>1. CASE form = None
    BY <1>2, <2>1 DEF FormFollows
  <2>2. CASE form # None
    <3>1. form.id \in Records!Record
      BY <2>2 DEF RecordsInv, RecordsTyped
    <3>2. ASSUME Records!Has(form.id)'
          PROVE  /\ Records!Has(form.id)
                 /\ recordRows'[form.id].version >= recordRows[form.id].version
                 /\ recordRows'[form.id].version \in Nat
                 /\ recordRows'[form.id].version = recordRows[form.id].version =>
                      \A t \in recordRows[form.id].refs : Records!Loose(form.id, t) => t \in recordRows'[form.id].refs
      <4>1. recordRows'[form.id] # None
        BY <1>2, <3>2 DEF Records!Has
      <4>2. form.id \notin gone /\ recordRows[form.id] # None
        BY <1>6, <3>1, <4>1
      <4>3. /\ recordRows'[form.id].version \in Nat /\ recordRows'[form.id].version = rest[form.id].version
            /\ recordRows'[form.id].refs = Left(form.id)
        BY <1>4, <3>1, <4>2
      <4>4. \A t : Records!Loose(form.id, t) => ~Records!SetsNull(form.id, t)
        BY RecordsAssumption DEF Records!Loose, Records!SetsNull
      <4>5. rest[form.id].version = recordRows[form.id].version => rest[form.id] = recordRows[form.id]
        BY <1>3, <3>1, <4>2
      <4> QED
        BY <1>3, <3>1, <4>2, <4>3, <4>4, <4>5 DEF Left, Records!Has
    <3> QED
      BY <1>2, <2>2, <3>2, FormStays
  <2> QED
    BY <2>1, <2>2
<1> QED
  BY <1>2, <1>7, <1>9, <1>11, <1>12, <1>13 DEF RecordsInv

\* Setup makes its own records, in a new term, and the terms there are give way.
LEMMA SetUpKeeps ==
  ASSUME RecordsInv, NEW t \in Term, NEW added \in SUBSET UNION {Course, Instructor, Meeting, EventId},
         Records!CompleteOnboarding(t, added)
  PROVE  RecordsInv'
<1> DEFINE new == ProfileId \union {t} \union added
<1>1. /\ form = None /\ form' = None
      /\ ({t} \union added) \intersect recordsUsed = {}
      /\ recordEdits < MaxRecordEdits /\ recordEdits' = recordEdits + 1
      /\ recordsUsed' = recordsUsed \union ProfileId \union {t} \union added
      /\ recordRows' = Records!SetUp(t, added)
  BY DEF Records!CompleteOnboarding, Records!Commit
<1>2. new \subseteq Records!Record
  BY DEF Records!Record
<1>3. \A s : /\ Records!Given(s, t, added) \subseteq {t} \union added
             /\ \A x \in Records!Given(s, t, added) : s \in Records!Record \ ({t} \union ProfileId) => Records!Refers(s, x)
             /\ s \in ProfileId \union {t} => Records!Given(s, t, added) = {}
  BY RecordsAssumption DEF Records!Given, Records!Refers, Records!Loose, Records!Cascades, Records!SetsNull
<1>4. ASSUME NEW s \in new, ~(s \in ProfileId /\ Records!Has(s))
      PROVE  /\ recordRows'[s] \in Records!Row /\ recordRows'[s].refs = Records!Given(s, t, added)
             /\ recordRows'[s].active => s = t
  <2>1. recordRows'[s] = Records!NewRow(Records!Given(s, t, added), s = t)
    BY <1>1, <1>2, <1>4 DEF Records!SetUp
  <2>2. Records!Given(s, t, added) \in SUBSET Records!Record
    BY <1>2, <1>3
  <2>3. (s = t) \in BOOLEAN
    OBVIOUS
  <2> QED
    BY <2>1, <2>2, <2>3, NewRowTyped
<1>5. ASSUME NEW s \in Records!Record, recordRows[s] # None, s \in ProfileId \/ s \notin new
      PROVE  /\ recordRows'[s] \in Records!Row /\ recordRows'[s].refs = recordRows[s].refs
             /\ s \in Term => ~recordRows'[s].active
  <2>1. PICK row : row = recordRows[s]
    OBVIOUS
  <2>2. row \in Records!Row /\ row \in RowOf(Records!Record)
    BY <1>5, <2>1 DEF RecordsInv, RecordsTyped, Records!Row, RowOf
  <2>3. CASE s \in ProfileId
    <3>1. PICK changed : changed = [row EXCEPT !.version = @ + 1]
      BY Zenon
    <3>2. recordRows'[s] = changed
      BY <1>1, <1>5, <2>1, <2>3, <3>1 DEF Records!SetUp, Records!Has
    <3>3. changed \in RowOf(Records!Record) /\ changed.refs = row.refs
      BY <2>2, <3>1, RowCounted
    <3>4. s \notin Term
      BY <2>3, RecordsAssumption
    <3> QED
      BY <2>1, <3>2, <3>3, <3>4 DEF Records!Row, RowOf
  <2>4. CASE s \notin ProfileId /\ s \in Term
    <3>1. PICK changed : changed = [row EXCEPT !.active = FALSE]
      BY Zenon
    <3>2. recordRows'[s] = changed
      BY <1>1, <1>5, <2>1, <2>4, <3>1 DEF Records!SetUp, Records!Has
    <3>3. changed \in RowOf(Records!Record) /\ changed.refs = row.refs /\ changed.active = FALSE
      BY <2>2, <3>1, RowDeactivatedAlone
    <3> QED
      BY <2>1, <3>2, <3>3 DEF Records!Row, RowOf
  <2>5. CASE s \notin ProfileId /\ s \notin Term
    <3>1. recordRows'[s] = row
      BY <1>1, <1>5, <2>1, <2>5 DEF Records!SetUp, Records!Has
    <3> QED
      BY <2>1, <2>2, <2>5, <3>1
  <2> QED
    BY <2>3, <2>4, <2>5
<1>6. \A s \in Records!Record : s \notin new /\ recordRows[s] = None => recordRows'[s] = None
  BY <1>1 DEF Records!SetUp, Records!Has
<1>7. \A s \in Records!Record : recordRows'[s] # None <=> s \in new \/ recordRows[s] # None
  BY <1>4, <1>5, <1>6, RecordsAssumption DEF Records!Has
<1>8. Records!Known' = Records!Known \union new
  BY <1>2, <1>7 DEF Records!Known, Records!Has, Records!Record
<1>9. RecordsTyped'
  <2>1. \A s \in Records!Record : recordRows'[s] = None \/ recordRows'[s] \in Records!Row
    BY <1>4, <1>5, <1>6 DEF Records!Has
  <2> QED
    BY <1>1, <1>2, <2>1, RecordsAssumption DEF RecordsInv, RecordsTyped, Records!Record, Records!Row
<1>10. ASSUME NEW s \in Records!Known', NEW x \in recordRows'[s].refs
       PROVE  x \in Records!Known' /\ Records!Refers(s, x)
  <2>1. s \in Records!Record
    BY <1>2, <1>8 DEF Records!Known
  <2>2. CASE s \in new /\ ~(s \in ProfileId /\ Records!Has(s))
    BY <1>3, <1>4, <1>8, <1>10, <2>1, <2>2
  <2>3. CASE s \in Records!Known /\ (s \in ProfileId \/ s \notin new)
    BY <1>5, <1>8, <1>10, <2>1, <2>3 DEF RecordsInv, Referring, Records!Known, Records!Has
  <2> QED
    BY <1>8, <2>1, <2>2, <2>3 DEF Records!Known
<1>11. Referring'
  BY <1>10 DEF Referring, Records!Refers, Records!Cascades, Records!SetsNull, Records!Loose
<1>12. OnlyOneActive'
  <2>1. ASSUME NEW s \in Term \intersect Records!Known', recordRows'[s].active PROVE s = t
    <3>1. s \in Records!Record
      BY <1>2, <1>8 DEF Records!Known
    <3>2. CASE s \in new
      <4>1. s \notin ProfileId
        BY RecordsAssumption
      <4> QED
        BY <1>4, <2>1, <3>2, <4>1
    <3>3. CASE s \notin new
      <4>1. recordRows[s] # None
        BY <1>8, <3>3 DEF Records!Known, Records!Has
      <4> QED
        BY <1>5, <2>1, <3>1, <3>3, <4>1
    <3> QED
      BY <3>2, <3>3
  <2> QED
    BY <2>1 DEF OnlyOneActive
<1>13. FormFollows'
  BY <1>1 DEF FormFollows
<1> QED
  BY <1>1, <1>8, <1>9, <1>11, <1>12, <1>13 DEF RecordsInv

\* Every step keeps it.
LEMMA RecordsNext == RecordsInv /\ [Records!Next]_(Records!vars) => RecordsInv'
<1> SUFFICES ASSUME RecordsInv, [Records!Next]_(Records!vars) PROVE RecordsInv'
  OBVIOUS
<1>1. ASSUME NEW t \in Term, NEW added \in SUBSET UNION {Course, Instructor, Meeting, EventId},
             Records!CompleteOnboarding(t, added)
      PROVE  RecordsInv'
  BY <1>1, SetUpKeeps
<1>2. ASSUME NEW r \in Records!Record, Records!OpenForm(r) PROVE RecordsInv'
  BY <1>2, OpenFormKeeps
<1>3. ASSUME NEW r \in Records!Record, Records!Delete(r) PROVE RecordsInv'
  BY <1>3, DeleteKeeps
<1>4. ASSUME NEW r \in Records!Record, NEW refs \in Records!Shapes(r), NEW active \in BOOLEAN,
             Records!Create(r, refs, active)
      PROVE  RecordsInv'
  BY <1>4, CreateKeeps
<1>5. ASSUME NEW refs \in Records!Shapes(form.id), NEW active \in BOOLEAN, Records!Update(refs, active)
      PROVE  RecordsInv'
  BY <1>5, UpdateKeeps
<1>6. CASE Records!Refuse
  <2>1. form' = None /\ UNCHANGED <<recordRows, recordsUsed, recordEdits>>
    BY <1>6 DEF Records!Refuse
  <2>2. FormFollows'
    BY <2>1 DEF FormFollows
  <2>3. RecordsTyped' /\ Referring' /\ OnlyOneActive' /\ (Records!Known \subseteq recordsUsed)'
    BY <2>1 DEF RecordsInv, RecordsTyped, Referring, OnlyOneActive, Records!Known, Records!Has, Records!Record, Records!Row,
                Records!Refers, Records!Loose, Records!Cascades, Records!SetsNull
  <2> QED
    BY <2>2, <2>3 DEF RecordsInv
<1>7. CASE UNCHANGED Records!vars
  BY <1>7 DEF Records!vars, RecordsInv, RecordsTyped, Referring, OnlyOneActive, FormFollows, Records!Known, Records!Has,
              Records!Record, Records!Row, Records!Refers, Records!Loose, Records!Cascades, Records!SetsNull,
              Records!Unchanged
<1> QED
  BY <1>1, <1>2, <1>3, <1>4, <1>5, <1>6, <1>7 DEF Records!Next

\* Counting is the same in every part.
LEMMA RecordsCount == \A S : Records!Cardinality(S) = Cardinality(S)
  BY Zenon DEF Records!Cardinality, Cardinality

LEMMA RecordsImply == RecordsInv => Records!TypeOK /\ Records!ReferencesHold /\ Records!OneActiveTerm
<1> SUFFICES ASSUME RecordsInv PROVE Records!TypeOK /\ Records!ReferencesHold /\ Records!OneActiveTerm
  OBVIOUS
<1>1. Records!TypeOK
  BY DEF RecordsInv, RecordsTyped, Records!TypeOK
<1>2. Records!ReferencesHold
  BY DEF RecordsInv, Referring, Records!ReferencesHold
<1>3. Records!OneActiveTerm
  <2> DEFINE active == {t \in Term \intersect Records!Known : recordRows[t].active}
  <2>1. \A s, t \in active : s = t
    BY DEF RecordsInv, OnlyOneActive
  <2>2. CASE active = {}
    BY <2>2, FS_EmptySet, RecordsCount DEF Records!OneActiveTerm
  <2>3. CASE active # {}
    <3>1. PICK t : t \in active
      BY <2>3
    <3>2. active = {t}
      BY <2>1, <3>1
    <3> HIDE DEF active
    <3>3. Cardinality(active) = 1
      BY <3>2, FS_Singleton
    <3> QED
      BY <3>3, RecordsCount DEF active, Records!OneActiveTerm
  <2> QED
    BY <2>2, <2>3
<1> QED
  BY <1>1, <1>2, <1>3

\* Whatever is deleted, and whichever form is saved after, no record refers to one that is gone, and
\* one term is active at most.
THEOREM RecordsRefer == Records!Spec => [](Records!ReferencesHold /\ Records!OneActiveTerm)
  BY RecordsInit, RecordsNext, RecordsImply, PTL DEF Records!Spec

-----------------------------------------------------------------------------
(* Reading a calendar's page.  What is kept of the lines above says which   *)
(* label is nearest, and all of it; so a date gets its own.                 *)

NearestIs(near, n) == near \in Reading!LabelsAbove(n) /\ \A other \in Reading!LabelsAbove(n) : other <= near

Entry == [at : Nat, label : Seq(Nat), session : SessionMark \union {None}]

ReadingTyped ==
  /\ readPage \in Seq(Reading!Line)
  /\ entries \in Seq(Entry)
  /\ parts \in Seq(Nat)
  /\ readPending \in SessionMark \union {None}
  /\ labelAt \in Int

PendingFollows ==
  readPending = IF Len(readPage) > 0 /\ readPage[Len(readPage)] \in SessionMark THEN readPage[Len(readPage)] ELSE None

\* Lines first .. labelAt are the last label, and parts are these lines.
LabelFollows ==
  \/ parts = <<>> /\ labelAt = Reading!NoLabel /\ Reading!LabelsAbove(Len(readPage) + 1) = {}
  \/ \E first \in 1 .. labelAt :
       /\ NearestIs(labelAt, Len(readPage) + 1)
       /\ Len(parts) = labelAt - first + 1
       /\ \A i \in 1 .. Len(parts) : parts[i] = first + i - 1
       /\ \A k \in first .. labelAt : Reading!IsLabel(k)
       /\ first = 1 \/ ~Reading!IsLabel(first - 1)

EntryIsWritten(e) ==
  /\ e.at \in 1 .. Len(readPage) /\ readPage[e.at] = "date"
  /\ \E near \in Nat :
       /\ NearestIs(near, e.at) /\ e.at - near <= Gap
       /\ Reading!ToSet(e.label) =
            {k \in Reading!LabelsAbove(e.at) : (\A between \in k .. near : Reading!IsLabel(between)) /\ k > near - LabelLines}
  /\ e.session = IF e.at > 1 /\ readPage[e.at - 1] \in SessionMark THEN readPage[e.at - 1] ELSE None

EntriesFollow ==
  /\ \A n \in 1 .. Len(entries) : \A e : e = entries[n] => EntryIsWritten(e)
  /\ \A m, n \in 1 .. Len(entries) : m < n => entries[m].at < entries[n].at
  /\ Len(entries) < MaxEntries =>
       \A k \in 1 .. Len(readPage), near \in Nat :
         readPage[k] = "date" /\ NearestIs(near, k) /\ k - near <= Gap => \E n \in 1 .. Len(entries) : entries[n].at = k

ReadingInv == ReadingTyped /\ PendingFollows /\ LabelFollows /\ EntriesFollow

-----------------------------------------------------------------------------
LEMMA PageLines ==
  ASSUME ReadingTyped
  PROVE  Len(readPage) \in Nat /\ DOMAIN readPage = 1 .. Len(readPage) /\ Len(entries) \in Nat
         /\ DOMAIN entries = 1 .. Len(entries) /\ Len(parts) \in Nat /\ DOMAIN parts = 1 .. Len(parts)
         /\ \A i \in 1 .. Len(parts) : parts[i] \in Nat
  BY LenProperties, ElementOfSeq DEF ReadingTyped

\* The nearest label is one, when there is any.
LEMMA NearestExists ==
  ASSUME NEW n \in Nat, Reading!LabelsAbove(n) # {}
  PROVE  NearestIs(Reading!Nearest(n), n)
<1>1. CASE n = 0
  BY <1>1 DEF Reading!LabelsAbove
<1>2. CASE n # 0
  <2>1. n - 1 \in Nat /\ Reading!LabelsAbove(n) \in SUBSET (1 .. n - 1)
    BY <1>2 DEF Reading!LabelsAbove
  <2>2. \E k \in Reading!LabelsAbove(n) : \A other \in Reading!LabelsAbove(n) : k >= other
    BY <2>1, LastExists
  <2>3. \E k \in Reading!LabelsAbove(n) : \A other \in Reading!LabelsAbove(n) : other <= k
    BY <2>1, <2>2
  <2> QED
    BY <2>3 DEF Reading!Nearest, NearestIs
<1> QED
  BY <1>1, <1>2

LEMMA NearestIsOne ==
  ASSUME NEW n \in Nat, NEW near \in Nat, NearestIs(near, n)
  PROVE  Reading!LabelsAbove(n) # {} /\ Reading!Nearest(n) = near
<1>1. Reading!LabelsAbove(n) # {}
  BY DEF NearestIs
<1>2. NearestIs(Reading!Nearest(n), n)
  BY <1>1, NearestExists
<1>3. Reading!Nearest(n) \in Nat
  BY <1>2 DEF NearestIs, Reading!LabelsAbove
<1> QED
  BY <1>1, <1>2, <1>3 DEF NearestIs

\* The last lines of a label.
LEMMA LastLines ==
  ASSUME NEW lines \in Seq(Nat), NEW first \in Nat, \A i \in 1 .. Len(lines) : lines[i] = first + i - 1,
         NEW last \in Int, last = first + Len(lines) - 1
  PROVE  /\ Reading!LabelOf(lines) \in Seq(Nat)
         /\ Reading!ToSet(Reading!LabelOf(lines)) =
              {k \in first .. last : k > last - LabelLines}
<1> DEFINE from == IF Len(lines) > LabelLines THEN Len(lines) - LabelLines + 1 ELSE 1
           label == SubSeq(lines, from, Len(lines))
<1>1. Len(lines) \in Nat /\ \A i \in 1 .. Len(lines) : lines[i] \in Nat
  BY LenProperties, ElementOfSeq
<1>2. from \in Int /\ from >= 1 /\ LabelLines \in Nat
  BY <1>1, ReadingAssumption
<1>3. \A i \in from .. Len(lines) : lines[i] \in Nat
  BY <1>1, <1>2
<1>4. /\ label \in Seq(Nat)
      /\ Len(label) = IF from <= Len(lines) THEN Len(lines) - from + 1 ELSE 0
      /\ \A i \in 1 .. Len(lines) - from + 1 : label[i] = lines[from + i - 1]
  <2>1. Len(lines) \in Int
    BY <1>1
  <2> HIDE DEF from
  <2> QED
    BY <1>2, <1>3, <2>1, SubSeqProperties
<1>5. DOMAIN label = 1 .. Len(label)
  BY <1>4, LenProperties
<1>6. Reading!LabelOf(lines) = label
  BY DEF Reading!LabelOf
<1>7. from = IF Len(lines) > LabelLines THEN Len(lines) - LabelLines + 1 ELSE 1
  OBVIOUS
<1> HIDE DEF label, from
<1>8. Reading!ToSet(label) = {label[i] : i \in 1 .. Len(label)}
  BY <1>5 DEF Reading!ToSet
<1>9. from <= Len(lines) + 1 /\ Len(label) = Len(lines) - from + 1
  <2>1. from <= Len(lines) + 1
    BY <1>1, <1>2, <1>7
  <2>2. CASE from <= Len(lines)
    BY <1>4, <2>1, <2>2
  <2>3. CASE from = Len(lines) + 1
    BY <1>1, <1>4, <2>3
  <2> QED
    BY <1>1, <1>2, <2>1, <2>2, <2>3
<1>10. \A k \in Int : k \in first .. last /\ k > last - LabelLines
                      <=> k \in first + from - 1 .. last
  BY <1>1, <1>2, <1>7
<1>11. \A i \in 1 .. Len(label) : label[i] = first + from + i - 2
  <2> SUFFICES ASSUME NEW i \in 1 .. Len(label) PROVE label[i] = first + from + i - 2
    OBVIOUS
  <2>1. i \in 1 .. Len(lines) - from + 1 /\ from + i - 1 \in 1 .. Len(lines)
    BY <1>1, <1>2, <1>9
  <2> QED
    BY <1>1, <1>2, <1>4, <2>1
<1>12. ASSUME NEW k \in first + from - 1 .. last
       PROVE  \E i \in 1 .. Len(label) : label[i] = k
  <2>1. k - first - from + 2 \in 1 .. Len(label)
    BY <1>1, <1>2, <1>9
  <2>2. label[k - first - from + 2] = first + from + (k - first - from + 2) - 2
    BY <1>11, <2>1
  <2> QED
    BY <1>2, <2>1, <2>2
<1>13. ASSUME NEW i \in 1 .. Len(label)
       PROVE  label[i] \in first + from - 1 .. last
  <2>1. label[i] = first + from + i - 2
    BY <1>11
  <2>2. i \in 1 .. Len(lines) - from + 1
    BY <1>9
  <2>3. first + from + i - 2 \in first + from - 1 .. last
    BY <1>1, <1>2, <2>2
  <2> QED
    BY <2>1, <2>3
<1>14. Reading!ToSet(label) = first + from - 1 .. last
  BY <1>8, <1>12, <1>13
<1>15. first + from - 1 .. last =
         {k \in first .. last : k > last - LabelLines}
  BY <1>1, <1>2, <1>10
<1> QED
  BY <1>4, <1>6, <1>14, <1>15

\* A page begins empty.
LEMMA ReadingInit == Reading!Init => ReadingInv
<1> SUFFICES ASSUME Reading!Init PROVE ReadingInv
  OBVIOUS
<1>1. readPage = <<>> /\ entries = <<>> /\ parts = <<>> /\ readPending = None /\ labelAt = Reading!NoLabel
  BY DEF Reading!Init
<1>2. Len(readPage) = 0 /\ Len(entries) = 0
  BY <1>1
<1>3. ReadingTyped
  BY <1>1, ReadingAssumption DEF ReadingTyped, Reading!NoLabel
<1>4. Reading!LabelsAbove(Len(readPage) + 1) = {}
  BY <1>2 DEF Reading!LabelsAbove
<1> QED
  BY <1>1, <1>2, <1>3, <1>4 DEF ReadingInv, PendingFollows, LabelFollows, EntriesFollow

-----------------------------------------------------------------------------
(* A line more *)

\* What the lines say stays as it is when a line is added.
LEMMA LinesStay ==
  ASSUME ReadingTyped, NEW line \in Reading!Line, readPage' = Append(readPage, line)
  PROVE  /\ readPage' \in Seq(Reading!Line) /\ Len(readPage') = Len(readPage) + 1
         /\ readPage'[Len(readPage) + 1] = line
         /\ \A k \in 1 .. Len(readPage) : readPage'[k] = readPage[k]
         /\ \A k \in 1 .. Len(readPage) : Reading!IsLabel(k)' <=> Reading!IsLabel(k)
         /\ \A n \in 1 .. Len(readPage) + 1 : Reading!LabelsAbove(n)' = Reading!LabelsAbove(n)
         /\ \A n \in 1 .. Len(readPage) + 1 : \A near : NearestIs(near, n)' <=> NearestIs(near, n)
<1>1. Len(readPage) \in Nat
  BY PageLines
<1>2. /\ readPage' \in Seq(Reading!Line) /\ Len(readPage') = Len(readPage) + 1
      /\ readPage'[Len(readPage) + 1] = line
      /\ \A k \in 1 .. Len(readPage) : readPage'[k] = readPage[k]
  BY AppendProperties DEF ReadingTyped
<1>3. ASSUME NEW k \in 1 .. Len(readPage) PROVE Reading!IsLabel(k)' <=> Reading!IsLabel(k)
  <2>1. readPage'[k] = readPage[k]
    BY <1>2
  <2>2. k > 1 => readPage'[k - 1] = readPage[k - 1]
    BY <1>1, <1>2
  <2> QED
    BY <2>1, <2>2 DEF Reading!IsLabel
<1>4. \A n \in 1 .. Len(readPage) + 1 : Reading!LabelsAbove(n)' = Reading!LabelsAbove(n)
  <2> SUFFICES ASSUME NEW n \in 1 .. Len(readPage) + 1 PROVE Reading!LabelsAbove(n)' = Reading!LabelsAbove(n)
    OBVIOUS
  <2>1. 1 .. n - 1 \subseteq 1 .. Len(readPage)
    BY <1>1
  <2> QED
    BY <1>3, <2>1 DEF Reading!LabelsAbove
<1>5. \A n \in 1 .. Len(readPage) + 1 : \A near : NearestIs(near, n)' <=> NearestIs(near, n)
  BY <1>4 DEF NearestIs
<1> QED
  BY <1>2, <1>3, <1>4, <1>5

\* The labels above the next line are those above this one, and this one when it is a label.
LEMMA LabelsGrow ==
  ASSUME ReadingTyped, NEW line \in Reading!Line, readPage' = Append(readPage, line), PendingFollows,
         NEW last \in Nat, last = Len(readPage)
  PROVE  /\ Reading!IsLabel(last + 1)' <=> line = "text" /\ readPending = None
         /\ Reading!LabelsAbove(last + 2)' =
              Reading!LabelsAbove(last + 1) \union IF line = "text" /\ readPending = None THEN {last + 1} ELSE {}
<1>1. /\ readPage'[last + 1] = line /\ (last > 0 => readPage'[last] = readPage[last])
      /\ \A k \in 1 .. last : Reading!IsLabel(k)' <=> Reading!IsLabel(k)
  BY PageLines, LinesStay
<1>2. last > 0 /\ readPage[last] \in SessionMark <=> readPending # None
  BY ReadingAssumption DEF PendingFollows
<1>3. last + 1 - 1 = last /\ last + 2 - 1 = last + 1 /\ (last + 1 > 1 <=> last > 0)
  OBVIOUS
<1>4. Reading!IsLabel(last + 1)' <=> line = "text" /\ readPending = None
  BY <1>1, <1>2, <1>3 DEF Reading!IsLabel
<1>5. 1 .. last + 1 = (1 .. last) \union {last + 1}
  OBVIOUS
<1>6. Reading!LabelsAbove(last + 2)' = {k \in (1 .. last) \union {last + 1} : Reading!IsLabel(k)'}
  BY <1>3, <1>5 DEF Reading!LabelsAbove
<1>7. Reading!LabelsAbove(last + 1) = {k \in 1 .. last : Reading!IsLabel(k)}
  BY <1>3 DEF Reading!LabelsAbove
<1> QED
  BY <1>1, <1>4, <1>6, <1>7

\* The entries made so far are as they were.
LEMMA EntriesStay ==
  ASSUME ReadingInv, NEW line \in Reading!Line, readPage' = Append(readPage, line),
         NEW n \in 1 .. Len(entries), NEW e, e = entries[n]
  PROVE  /\ e.at \in 1 .. Len(readPage') /\ readPage'[e.at] = "date"
         /\ \E near \in Nat :
              /\ NearestIs(near, e.at)' /\ e.at - near <= Gap
              /\ Reading!ToSet(e.label) =
                   {k \in Reading!LabelsAbove(e.at)' :
                      (\A between \in k .. near : Reading!IsLabel(between)') /\ k > near - LabelLines}
         /\ e.session = IF e.at > 1 /\ readPage'[e.at - 1] \in SessionMark THEN readPage'[e.at - 1] ELSE None
<1>1. EntryIsWritten(e) /\ Len(readPage) \in Nat
  BY PageLines DEF ReadingInv, EntriesFollow
<1>2. /\ Len(readPage') = Len(readPage) + 1
      /\ \A k \in 1 .. Len(readPage) : readPage'[k] = readPage[k]
      /\ \A k \in 1 .. Len(readPage) : Reading!IsLabel(k)' <=> Reading!IsLabel(k)
      /\ \A k \in 1 .. Len(readPage) + 1 : Reading!LabelsAbove(k)' = Reading!LabelsAbove(k)
      /\ \A k \in 1 .. Len(readPage) + 1 : \A near : NearestIs(near, k)' <=> NearestIs(near, k)
  BY LinesStay DEF ReadingInv
<1>3. e.at \in 1 .. Len(readPage) /\ readPage[e.at] = "date"
  BY <1>1 DEF EntryIsWritten
<1>4. PICK near \in Nat :
        /\ NearestIs(near, e.at) /\ e.at - near <= Gap
        /\ Reading!ToSet(e.label) =
             {k \in Reading!LabelsAbove(e.at) : (\A between \in k .. near : Reading!IsLabel(between)) /\ k > near - LabelLines}
  BY <1>1 DEF EntryIsWritten
<1>5. near \in 1 .. e.at - 1
  BY <1>4 DEF NearestIs, Reading!LabelsAbove
<1>6. \A k \in Reading!LabelsAbove(e.at) : k \in 1 .. e.at - 1
  BY DEF Reading!LabelsAbove
<1>7. \A k \in Reading!LabelsAbove(e.at) :
        (\A between \in k .. near : Reading!IsLabel(between)) <=> (\A between \in k .. near : Reading!IsLabel(between)')
  <2> SUFFICES ASSUME NEW k \in Reading!LabelsAbove(e.at), NEW between \in k .. near
               PROVE  Reading!IsLabel(between) <=> Reading!IsLabel(between)'
    OBVIOUS
  <2>1. between \in 1 .. Len(readPage)
    BY <1>1, <1>3, <1>5, <1>6
  <2> QED
    BY <1>2, <2>1
<1>8. Reading!LabelsAbove(e.at)' = Reading!LabelsAbove(e.at) /\ NearestIs(near, e.at)'
  BY <1>1, <1>2, <1>3, <1>4
<1>9. Reading!ToSet(e.label) =
        {k \in Reading!LabelsAbove(e.at)' : (\A between \in k .. near : Reading!IsLabel(between)') /\ k > near - LabelLines}
  BY <1>4, <1>7, <1>8
<1>10. e.session = IF e.at > 1 /\ readPage'[e.at - 1] \in SessionMark THEN readPage'[e.at - 1] ELSE None
  <2>1. e.at > 1 => readPage'[e.at - 1] = readPage[e.at - 1]
    BY <1>1, <1>2, <1>3
  <2> QED
    BY <1>1, <2>1 DEF EntryIsWritten
<1>11. \E other \in Nat :
         /\ NearestIs(other, e.at)' /\ e.at - other <= Gap
         /\ Reading!ToSet(e.label) =
              {k \in Reading!LabelsAbove(e.at)' :
                 (\A between \in k .. other : Reading!IsLabel(between)') /\ k > other - LabelLines}
  <2> WITNESS near \in Nat
  <2> QED
    BY <1>4, <1>8, <1>9
<1>12. e.at \in 1 .. Len(readPage') /\ readPage'[e.at] = "date"
  BY <1>1, <1>2, <1>3
<1> QED
  BY <1>10, <1>11, <1>12

\* A date below a label becomes an entry of it.
LEMMA NewEntryIsWritten ==
  ASSUME ReadingInv, readPage' = Append(readPage, "date"), parts # <<>>,
         NEW here, here = Len(readPage) + 1, NEW near, near = labelAt, here - near <= Gap,
         NEW e, e = [at |-> here, label |-> Reading!LabelOf(parts), session |-> readPending]
  PROVE  /\ e \in Entry
         /\ e.at \in 1 .. Len(readPage') /\ readPage'[e.at] = "date"
         /\ \E last \in Nat :
              /\ NearestIs(last, e.at)' /\ e.at - last <= Gap
              /\ Reading!ToSet(e.label) =
                   {k \in Reading!LabelsAbove(e.at)' :
                      (\A between \in k .. last : Reading!IsLabel(between)') /\ k > last - LabelLines}
         /\ e.session = IF e.at > 1 /\ readPage'[e.at - 1] \in SessionMark THEN readPage'[e.at - 1] ELSE None
<1>1. here \in Nat /\ here >= 1 /\ "date" \in Reading!Line /\ ReadingTyped
  BY PageLines DEF ReadingInv, Reading!Line
<1>2. /\ Len(readPage') = here /\ readPage'[here] = "date"
      /\ \A k \in 1 .. here - 1 : readPage'[k] = readPage[k]
      /\ \A k \in 1 .. here - 1 : Reading!IsLabel(k)' <=> Reading!IsLabel(k)
      /\ Reading!LabelsAbove(here)' = Reading!LabelsAbove(here)
      /\ NearestIs(near, here)' <=> NearestIs(near, here)
  BY <1>1, LinesStay, PageLines
<1>3. PICK first \in 1 .. near :
        /\ NearestIs(near, here)
        /\ Len(parts) = near - first + 1
        /\ \A i \in 1 .. Len(parts) : parts[i] = first + i - 1
        /\ \A k \in first .. near : Reading!IsLabel(k)
        /\ first = 1 \/ ~Reading!IsLabel(first - 1)
  BY DEF ReadingInv, LabelFollows
<1>4. near \in 1 .. here - 1 /\ first \in Nat
  BY <1>1, <1>3 DEF NearestIs, Reading!LabelsAbove
<1>5. near = first + Len(parts) - 1
  BY <1>3, <1>4
<1>6. /\ Reading!LabelOf(parts) \in Seq(Nat)
      /\ Reading!ToSet(Reading!LabelOf(parts)) = {k \in first .. near : k > near - LabelLines}
  <2>1. parts \in Seq(Nat) /\ near \in Int
    BY <1>1, <1>4 DEF ReadingTyped
  <2> QED
    BY <1>3, <1>4, <1>5, <2>1, LastLines
<1>7. ASSUME NEW k \in Reading!LabelsAbove(here), \A between \in k .. near : Reading!IsLabel(between)
      PROVE  k \in first .. near
  <2>1. k \in 1 .. here - 1 /\ k <= near
    BY <1>3 DEF NearestIs, Reading!LabelsAbove
  <2>2. ASSUME k < first PROVE FALSE
    <3>1. first - 1 \in k .. near /\ first # 1
      BY <1>4, <2>1, <2>2
    <3> QED
      BY <1>3, <1>7, <3>1
  <2> QED
    BY <1>4, <2>1, <2>2
<1>8. ASSUME NEW k \in first .. near
      PROVE  k \in Reading!LabelsAbove(here) /\ \A between \in k .. near : Reading!IsLabel(between)
  <2>1. k \in 1 .. here - 1
    BY <1>1, <1>4
  <2>2. \A between \in k .. near : between \in first .. near
    BY <1>4
  <2> QED
    BY <1>3, <2>1, <2>2 DEF Reading!LabelsAbove
<1>9. \A k \in Reading!LabelsAbove(here) :
        (\A between \in k .. near : Reading!IsLabel(between)) <=> (\A between \in k .. near : Reading!IsLabel(between)')
  <2> SUFFICES ASSUME NEW k \in Reading!LabelsAbove(here), NEW between \in k .. near
               PROVE  Reading!IsLabel(between) <=> Reading!IsLabel(between)'
    OBVIOUS
  <2>1. between \in 1 .. here - 1
    BY <1>1, <1>4 DEF Reading!LabelsAbove
  <2> QED
    BY <1>2, <2>1
<1>10. Reading!ToSet(Reading!LabelOf(parts)) =
         {k \in Reading!LabelsAbove(here)' :
            (\A between \in k .. near : Reading!IsLabel(between)') /\ k > near - LabelLines}
  <2>1. \A k : k \in first .. near
               <=> k \in Reading!LabelsAbove(here)' /\ \A between \in k .. near : Reading!IsLabel(between)'
    BY <1>2, <1>7, <1>8, <1>9
  <2>2. Reading!ToSet(Reading!LabelOf(parts)) = {k \in first .. near : k > near - LabelLines}
    BY <1>6
  <2> QED
    BY <2>1, <2>2
<1>11. readPending = IF here > 1 /\ readPage'[here - 1] \in SessionMark THEN readPage'[here - 1] ELSE None
  <2>1. here - 1 = Len(readPage) /\ (here > 1 <=> Len(readPage) > 0)
    BY <1>1
  <2>2. here > 1 => readPage'[here - 1] = readPage[here - 1]
    BY <1>1, <1>2
  <2> QED
    BY <2>1, <2>2 DEF ReadingInv, PendingFollows
<1>12. NearestIs(near, here)' /\ near \in Nat
  BY <1>2, <1>3, <1>4
<1>13. e \in Entry
  BY <1>1, <1>6 DEF Entry, ReadingTyped
<1>14. e.at = here /\ e.label = Reading!LabelOf(parts) /\ e.session = readPending
  OBVIOUS
<1>15. e.at - near <= Gap
  BY <1>14
<1> QED
  BY <1>1, <1>2, <1>10, <1>11, <1>12, <1>13, <1>14, <1>15

\* What is kept of the label follows the lines.
LEMMA LabelKept ==
  ASSUME ReadingInv, NEW line \in Reading!Line, readPage' = Append(readPage, line),
         ~(line = "text" /\ readPending = None), UNCHANGED <<parts, labelAt>>
  PROVE  LabelFollows'
<1>1. PICK last \in Nat : last = Len(readPage)
  BY PageLines DEF ReadingInv
<1>2. /\ Len(readPage') = last + 1 /\ ReadingTyped
      /\ \A k \in 1 .. last : Reading!IsLabel(k)' <=> Reading!IsLabel(k)
  BY <1>1, LinesStay DEF ReadingInv
<1>3. Reading!LabelsAbove(last + 2)' = Reading!LabelsAbove(last + 1)
  BY <1>1, LabelsGrow DEF ReadingInv
<1>4. Len(readPage') + 1 = last + 2
  BY <1>2
<1>5. Reading!LabelsAbove(Len(readPage) + 1)' = Reading!LabelsAbove(last + 1)
  BY <1>3, <1>4
<1>6. CASE parts = <<>> /\ labelAt = Reading!NoLabel /\ Reading!LabelsAbove(Len(readPage) + 1) = {}
  BY <1>1, <1>5, <1>6 DEF LabelFollows, Reading!NoLabel
<1>7. ASSUME NEW first \in 1 .. labelAt,
             NearestIs(labelAt, last + 1), Len(parts) = labelAt - first + 1,
             \A i \in 1 .. Len(parts) : parts[i] = first + i - 1,
             \A k \in first .. labelAt : Reading!IsLabel(k),
             first = 1 \/ ~Reading!IsLabel(first - 1)
      PROVE  LabelFollows'
  <2>1. labelAt \in 1 .. last
    BY <1>7 DEF NearestIs, Reading!LabelsAbove
  <2>2. \A k \in first .. labelAt : Reading!IsLabel(k)'
    BY <1>2, <1>7, <2>1
  <2>3. first = 1 \/ ~Reading!IsLabel(first - 1)'
    BY <1>2, <1>7, <2>1
  <2>4. NearestIs(labelAt, Len(readPage) + 1)'
    BY <1>5, <1>7 DEF NearestIs
  <2>5. labelAt' = labelAt /\ parts' = parts
    OBVIOUS
  <2> QED
    BY <1>7, <2>2, <2>3, <2>4, <2>5 DEF LabelFollows
<1> QED
  BY <1>1, <1>6, <1>7 DEF ReadingInv, LabelFollows

\* A line of a label begins one, or goes on with the last.
LEMMA LabelGrown ==
  ASSUME ReadingInv, readPage' = Append(readPage, "text"), readPending = None,
         NEW here, here = Len(readPage) + 1, labelAt' = here,
         parts' = Append(IF here - labelAt > 1 THEN <<>> ELSE parts, here)
  PROVE  LabelFollows' /\ parts' \in Seq(Nat) /\ labelAt' \in Int
<1>1. PICK last \in Nat : last = Len(readPage)
  BY PageLines DEF ReadingInv
<1>2. "text" \in Reading!Line /\ ReadingTyped
  BY DEF ReadingInv, Reading!Line
<1>3. Len(readPage') = last + 1 /\ \A k \in 1 .. last : Reading!IsLabel(k)' <=> Reading!IsLabel(k)
  BY <1>1, <1>2, LinesStay
<1>4. /\ Reading!IsLabel(last + 1)'
      /\ Reading!LabelsAbove(last + 2)' = Reading!LabelsAbove(last + 1) \union {last + 1}
  BY <1>1, <1>2, LabelsGrow DEF ReadingInv
<1>5. Len(readPage') + 1 = last + 2
  BY <1>3
<1>6. \A k \in Reading!LabelsAbove(last + 1) : k \in 1 .. last
  BY DEF Reading!LabelsAbove
<1>7. NearestIs(last + 1, last + 2)'
  BY <1>4, <1>6 DEF NearestIs
<1>8. NearestIs(labelAt, Len(readPage) + 1)'
  BY <1>1, <1>5, <1>7 DEF NearestIs
<1>9. CASE last + 1 - labelAt > 1
  <2>1. parts' = Append(<<>>, last + 1) /\ <<>> \in Seq(Nat) /\ Len(<<>>) = 0
    <3>1. here - labelAt > 1 /\ here = last + 1
      <4>1. labelAt \in Int /\ here = last + 1
        BY <1>1, <1>2 DEF ReadingTyped
      <4> QED
        BY <1>9, <4>1
    <3>2. parts' = Append(<<>>, here)
      BY <3>1, Zenon
    <3> QED
      BY <3>1, <3>2
  <2>2. Len(parts') = 1 /\ parts'[1] = last + 1 /\ parts' \in Seq(Nat)
    <3>1. ASSUME NEW none \in Seq(Nat), Len(none) = 0
          PROVE  Len(Append(none, last + 1)) = 1 /\ Append(none, last + 1)[1] = last + 1
                 /\ Append(none, last + 1) \in Seq(Nat)
      BY <3>1, AppendProperties
    <3> QED
      BY <2>1, <3>1
  <2>3. last \notin Reading!LabelsAbove(last + 1)
    <3>1. CASE Reading!LabelsAbove(last + 1) = {}
      BY <3>1
    <3>2. CASE NearestIs(labelAt, last + 1)
      <4>1. labelAt \in 1 .. last
        BY <3>2 DEF NearestIs, Reading!LabelsAbove
      <4> QED
        BY <1>9, <3>2, <4>1 DEF NearestIs
    <3> QED
      BY <1>1, <3>1, <3>2 DEF ReadingInv, LabelFollows
  <2>4. last + 1 = 1 \/ ~Reading!IsLabel(last)'
    BY <1>3, <2>3 DEF Reading!LabelsAbove
  <2>5. last + 1 - 1 = last /\ last + 1 \in 1 .. last + 1
    OBVIOUS
  <2>6. last + 1 = 1 \/ ~Reading!IsLabel(last + 1 - 1)'
    BY <2>4, <2>5
  <2>7. \A k \in last + 1 .. last + 1 : Reading!IsLabel(k)'
    BY <1>4
  <2>8. labelAt' = last + 1 /\ Len(parts') = labelAt' - (last + 1) + 1
        /\ \A i \in 1 .. Len(parts') : parts'[i] = (last + 1) + i - 1
    BY <1>1, <2>2
  <2> QED
    BY <1>8, <2>2, <2>5, <2>6, <2>7, <2>8 DEF LabelFollows
<1>10. CASE ~(last + 1 - labelAt > 1)
  <2>1. parts' = Append(parts, last + 1) /\ parts \in Seq(Nat) /\ Len(parts) \in Nat /\ labelAt \in Int
    BY <1>1, <1>2, <1>10, PageLines DEF ReadingTyped
  <2>2. /\ parts' \in Seq(Nat) /\ Len(parts') = Len(parts) + 1
        /\ \A i \in 1 .. Len(parts) : parts'[i] = parts[i]
        /\ parts'[Len(parts) + 1] = last + 1
    BY <2>1, AppendProperties
  <2>3. labelAt # Reading!NoLabel
    BY <1>10, <2>1, ReadingAssumption DEF Reading!NoLabel
  <2>4. PICK first \in 1 .. labelAt :
          /\ NearestIs(labelAt, last + 1) /\ Len(parts) = labelAt - first + 1
          /\ \A i \in 1 .. Len(parts) : parts[i] = first + i - 1
          /\ \A k \in first .. labelAt : Reading!IsLabel(k)
          /\ first = 1 \/ ~Reading!IsLabel(first - 1)
    BY <1>1, <2>3 DEF ReadingInv, LabelFollows
  <2>5. labelAt \in 1 .. last
    BY <2>4 DEF NearestIs, Reading!LabelsAbove
  <2>6. labelAt = last
    BY <1>10, <2>5
  <2>7. \A k \in first .. last + 1 : Reading!IsLabel(k)'
    BY <1>3, <1>4, <2>4, <2>6
  <2>8. first = 1 \/ ~Reading!IsLabel(first - 1)'
    BY <1>3, <2>4, <2>6
  <2>9. labelAt' = last + 1 /\ first \in 1 .. labelAt' /\ first \in Nat
    BY <1>1, <2>4, <2>6
  <2>10. Len(parts') = labelAt' - first + 1
    <3>1. Len(parts') = Len(parts) + 1 /\ Len(parts) = last - first + 1
      BY <2>2, <2>4, <2>6
    <3>2. labelAt' = last + 1 /\ first \in Nat
      BY <2>9
    <3> QED
      BY <3>1, <3>2
  <2>11. ASSUME NEW i \in 1 .. Len(parts') PROVE parts'[i] = first + i - 1
    <3>1. CASE i \in 1 .. Len(parts)
      BY <2>2, <2>4, <3>1
    <3>2. CASE i = Len(parts) + 1
      BY <2>2, <2>4, <2>6, <2>9, <3>2
    <3> QED
      BY <2>1, <2>2, <3>1, <3>2
  <2>12. \A k \in first .. labelAt' : Reading!IsLabel(k)'
    BY <2>7, <2>9
  <2>13. LabelFollows'
    BY <1>8, <2>8, <2>9, <2>10, <2>11, <2>12 DEF LabelFollows
  <2> QED
    BY <2>2, <2>9, <2>13
<1> QED
  BY <1>9, <1>10

\* The entries follow the lines when none is made, and the line is no date of a label.
LEMMA NoEntry ==
  ASSUME ReadingInv, NEW line \in Reading!Line, readPage' = Append(readPage, line), entries' = entries,
         line = "date" /\ parts # <<>> /\ Len(readPage) + 1 - labelAt <= Gap => Len(entries) >= MaxEntries
  PROVE  EntriesFollow'
<1>1. PICK last \in Nat : last = Len(readPage)
  BY PageLines DEF ReadingInv
<1>2. /\ Len(readPage') = last + 1 /\ ReadingTyped
      /\ readPage'[last + 1] = line
      /\ \A k \in 1 .. last : readPage'[k] = readPage[k]
      /\ \A k \in 1 .. last + 1 : \A near : NearestIs(near, k)' <=> NearestIs(near, k)
  BY <1>1, LinesStay DEF ReadingInv
<1>3. ASSUME NEW n \in 1 .. Len(entries'), NEW e, e = entries'[n] PROVE EntryIsWritten(e)'
  BY <1>3, EntriesStay DEF EntryIsWritten
<1>4. ASSUME Len(entries) < MaxEntries, NEW k \in 1 .. last + 1, NEW near \in Nat,
             readPage'[k] = "date", NearestIs(near, k)', k - near <= Gap
      PROVE  \E n \in 1 .. Len(entries) : entries[n].at = k
  <2>1. CASE k \in 1 .. last
    BY <1>1, <1>2, <1>4, <2>1 DEF ReadingInv, EntriesFollow
  <2>2. CASE k = last + 1
    <3>1. NearestIs(near, last + 1) /\ line = "date"
      BY <1>2, <1>4, <2>2
    <3>2. parts # <<>> /\ NearestIs(labelAt, last + 1)
      <4>1. Reading!LabelsAbove(last + 1) # {}
        BY <3>1 DEF NearestIs
      <4>2. PICK first \in 1 .. labelAt : NearestIs(labelAt, last + 1) /\ Len(parts) = labelAt - first + 1
        BY <1>1, <4>1 DEF ReadingInv, LabelFollows
      <4>3. labelAt \in Int /\ Len(parts) > 0
        BY <1>2, <4>2 DEF ReadingTyped
      <4> QED
        BY <4>2, <4>3
    <3>3. labelAt = near
      BY <1>2, <3>1, <3>2 DEF NearestIs, ReadingTyped, Reading!LabelsAbove
    <3>4. Len(entries) \in Nat /\ MaxEntries \in Nat
      BY <1>2, PageLines, ReadingAssumption
    <3>5. Len(readPage) + 1 - labelAt <= Gap
      BY <1>1, <1>4, <2>2, <3>3
    <3>6. ~(Len(entries) >= MaxEntries)
      BY <1>4, <3>4
    <3> QED
      BY <3>1, <3>2, <3>5, <3>6
  <2> QED
    BY <1>4, <2>1, <2>2
<1>5. \A m, n \in 1 .. Len(entries') : m < n => entries'[m].at < entries'[n].at
  BY DEF ReadingInv, EntriesFollow
<1> QED
  BY <1>2, <1>3, <1>4, <1>5 DEF EntriesFollow

LEMMA EntryMade ==
  ASSUME ReadingInv, readPage' = Append(readPage, "date"), parts # <<>>,
         NEW here, here = Len(readPage) + 1, here - labelAt <= Gap,
         entries' = Append(entries, [at |-> here, label |-> Reading!LabelOf(parts), session |-> readPending])
  PROVE  EntriesFollow' /\ entries' \in Seq(Entry)
<1>1. PICK last \in Nat : last = Len(readPage)
  BY PageLines DEF ReadingInv
<1>2. "date" \in Reading!Line /\ ReadingTyped
  BY DEF ReadingInv, Reading!Line
<1>3. /\ Len(readPage') = last + 1
      /\ \A k \in 1 .. last : readPage'[k] = readPage[k]
      /\ \A k \in 1 .. last + 1 : \A near : NearestIs(near, k)' <=> NearestIs(near, k)
  BY <1>1, <1>2, LinesStay
<1>4. PICK e : e = [at |-> here, label |-> Reading!LabelOf(parts), session |-> readPending]
  OBVIOUS
<1>5. e \in Entry /\ EntryIsWritten(e)' /\ e.at = last + 1
  <2>1. PICK near : near = labelAt
    OBVIOUS
  <2>2. e = [at |-> here, label |-> Reading!LabelOf(parts), session |-> readPending] /\ here - near <= Gap
    <3>1. labelAt \in Int /\ Gap \in Nat
      BY <1>2, ReadingAssumption DEF ReadingTyped
    <3>2. here - near <= Gap
      BY <1>1, <2>1, <3>1
    <3> QED
      BY <1>4, <3>2
  <2>3. e.at = last + 1
    BY <1>1, <2>1, <2>2
  <2> QED
    BY <2>1, <2>2, <2>3, NewEntryIsWritten DEF EntryIsWritten
<1>6. /\ entries' \in Seq(Entry) /\ Len(entries') = Len(entries) + 1 /\ Len(entries) \in Nat
      /\ \A n \in 1 .. Len(entries) : entries'[n] = entries[n]
      /\ entries'[Len(entries) + 1] = e
  BY <1>2, <1>4, <1>5, PageLines, AppendProperties DEF ReadingTyped
<1>7. ASSUME NEW n \in 1 .. Len(entries), NEW old, old = entries[n]
      PROVE  EntryIsWritten(old)' /\ old.at \in 1 .. last
  <2>1. EntryIsWritten(old)
    BY <1>7 DEF ReadingInv, EntriesFollow
  <2>2. old.at \in 1 .. last
    BY <1>1, <2>1 DEF EntryIsWritten
  <2>3. EntryIsWritten(old)'
    BY <1>2, <1>7, EntriesStay DEF EntryIsWritten
  <2> QED
    BY <2>2, <2>3
<1>8. ASSUME NEW n \in 1 .. Len(entries'), NEW some, some = entries'[n] PROVE EntryIsWritten(some)'
  <2>1. CASE n = Len(entries) + 1
    <3>1. some = e
      BY <1>6, <1>8, <2>1
    <3> QED
      BY <1>5, <3>1
  <2>2. CASE n # Len(entries) + 1
    <3>1. n \in 1 .. Len(entries) /\ some = entries[n]
      BY <1>6, <1>8, <2>2
    <3> QED
      BY <1>7, <3>1
  <2> QED
    BY <2>1, <2>2
<1>9. \A m, n \in 1 .. Len(entries') : m < n => entries'[m].at < entries'[n].at
  <2> SUFFICES ASSUME NEW m \in 1 .. Len(entries'), NEW n \in 1 .. Len(entries'), m < n
               PROVE  entries'[m].at < entries'[n].at
    OBVIOUS
  <2>1. m \in 1 .. Len(entries) /\ entries'[m] = entries[m] /\ entries[m].at \in 1 .. last
    BY <1>6, <1>7
  <2>2. CASE n = Len(entries) + 1
    BY <1>5, <1>6, <2>1, <2>2
  <2>3. CASE n # Len(entries) + 1
    <3>1. n \in 1 .. Len(entries) /\ entries'[n] = entries[n]
      BY <1>6, <2>3
    <3> QED
      BY <2>1, <3>1 DEF ReadingInv, EntriesFollow
  <2> QED
    BY <2>2, <2>3
<1>10. ASSUME Len(entries') < MaxEntries, NEW k \in 1 .. last + 1, NEW near \in Nat,
              readPage'[k] = "date", NearestIs(near, k)', k - near <= Gap
       PROVE  \E n \in 1 .. Len(entries') : entries'[n].at = k
  <2>1. CASE k \in 1 .. last
    <3>1. Len(entries) < MaxEntries
      BY <1>6, <1>10, ReadingAssumption
    <3>2. PICK n \in 1 .. Len(entries) : entries[n].at = k
      BY <1>1, <1>3, <1>10, <2>1, <3>1 DEF ReadingInv, EntriesFollow
    <3> QED
      BY <1>6, <3>2
  <2>2. CASE k = last + 1
    BY <1>5, <1>6, <2>2
  <2> QED
    BY <1>10, <2>1, <2>2
<1> QED
  BY <1>3, <1>6, <1>8, <1>9, <1>10 DEF EntriesFollow

\* Every line that is read keeps it.
LEMMA ReadingNext == ReadingInv /\ [Reading!Next]_(Reading!vars) => ReadingInv'
<1> SUFFICES ASSUME ReadingInv, [Reading!Next]_(Reading!vars) PROVE ReadingInv'
  OBVIOUS
<1>1. CASE UNCHANGED Reading!vars
  <2>1. UNCHANGED <<readPage, entries, parts, readPending, labelAt>>
    BY <1>1 DEF Reading!vars
  <2>2. ReadingTyped' /\ PendingFollows'
    BY <2>1 DEF ReadingInv, ReadingTyped, PendingFollows, Reading!Line, Entry
  <2>3. \A k : Reading!IsLabel(k)' <=> Reading!IsLabel(k)
    BY <2>1 DEF Reading!IsLabel
  <2>4. \A n : Reading!LabelsAbove(n)' = Reading!LabelsAbove(n)
    BY <2>3 DEF Reading!LabelsAbove
  <2>5. \A near, n : NearestIs(near, n)' <=> NearestIs(near, n)
    BY <2>4 DEF NearestIs
  <2>6. NearestIs(labelAt, Len(readPage) + 1)' <=> NearestIs(labelAt, Len(readPage) + 1)
    BY <2>1, <2>4 DEF NearestIs
  <2>7. Reading!LabelsAbove(Len(readPage) + 1)' = Reading!LabelsAbove(Len(readPage) + 1)
    BY <2>1, <2>3 DEF Reading!LabelsAbove
  <2>8. LabelFollows'
    BY <2>1, <2>3, <2>6, <2>7 DEF ReadingInv, LabelFollows, Reading!NoLabel
  <2>9. ASSUME NEW e, EntryIsWritten(e) PROVE EntryIsWritten(e)'
    BY <2>1, <2>3, <2>4, <2>5, <2>9 DEF EntryIsWritten
  <2>10. EntriesFollow'
    BY <2>1, <2>5, <2>9 DEF ReadingInv, EntriesFollow
  <2> QED
    BY <2>2, <2>8, <2>10 DEF ReadingInv
<1>2. ASSUME NEW line \in Reading!Line, Reading!Read(line) PROVE ReadingInv'
  <2>1. readPage' = Append(readPage, line)
    BY <1>2 DEF Reading!Read
  <2>2. PICK last \in Nat : last = Len(readPage)
    BY PageLines DEF ReadingInv
  <2>3. readPage' \in Seq(Reading!Line)' /\ Len(readPage') = last + 1 /\ readPage'[last + 1] = line /\ ReadingTyped
    BY <2>1, <2>2, LinesStay DEF ReadingInv, Reading!Line
  <2>4. PendingFollows' <=> readPending' = IF line \in SessionMark THEN line ELSE None
    BY <2>3 DEF PendingFollows
  <2>5. Reading!Here = last + 1
    BY <2>2 DEF Reading!Here
  <2>10. PICK here : here = Reading!Here
    OBVIOUS
  <2>11. here = Len(readPage) + 1
    BY <2>2, <2>5, <2>10
  <2>6. CASE Reading!ReadMarker(line)
    <3>1. line \in SessionMark /\ readPending' = line /\ UNCHANGED <<entries, parts, labelAt>>
      BY <2>6 DEF Reading!ReadMarker
    <3>2. line # "text" /\ line # "date"
      BY <3>1, ReadingAssumption
    <3>3. LabelFollows' /\ EntriesFollow'
      BY <2>1, <3>1, <3>2, LabelKept, NoEntry
    <3> QED
      BY <2>3, <2>4, <3>1, <3>3 DEF ReadingInv, ReadingTyped, Entry
  <2>7. CASE Reading!ReadText(line)
    <3>1. line = "text" /\ readPending' = None /\ UNCHANGED entries /\ line \notin SessionMark
      BY <2>7, ReadingAssumption DEF Reading!ReadText
    <3>2. EntriesFollow'
      BY <2>1, <3>1, NoEntry
    <3>3. CASE readPending # None
      <4>1. UNCHANGED <<parts, labelAt>>
        BY <2>7, <3>3 DEF Reading!ReadText
      <4>2. LabelFollows'
        BY <2>1, <3>3, <4>1, LabelKept
      <4> QED
        BY <2>3, <2>4, <3>1, <3>2, <4>1, <4>2 DEF ReadingInv, ReadingTyped, Entry
    <3>4. CASE readPending = None
      <4>1. parts' = Append(IF here - labelAt > 1 THEN <<>> ELSE parts, here) /\ labelAt' = here
        <5>1. /\ IF readPending # None THEN UNCHANGED <<parts, labelAt>>
                 ELSE /\ parts' = Append(IF Reading!Here - labelAt > 1 THEN <<>> ELSE parts, Reading!Here)
                      /\ labelAt' = Reading!Here
          BY <2>7 DEF Reading!ReadText
        <5>2. parts' = Append(IF Reading!Here - labelAt > 1 THEN <<>> ELSE parts, Reading!Here)
              /\ labelAt' = Reading!Here
          BY <3>4, <5>1
        <5> QED
          BY <2>10, <5>2, Zenon
      <4>2. LabelFollows' /\ parts' \in Seq(Nat) /\ labelAt' \in Int
        BY <2>1, <2>11, <3>1, <3>4, <4>1, LabelGrown
      <4> QED
        BY <2>3, <2>4, <3>1, <3>2, <4>2 DEF ReadingInv, ReadingTyped, Entry
    <3> QED
      BY <3>3, <3>4
  <2>8. CASE Reading!ReadDate(line)
    <3>1. line \in {"date", "nodate"} /\ readPending' = None /\ UNCHANGED <<parts, labelAt>> /\ line \notin SessionMark
      BY <2>8, ReadingAssumption DEF Reading!ReadDate
    <3>2. LabelFollows'
      BY <2>1, <3>1, LabelKept
    <3>0. entries' = IF parts = <<>> \/ here - labelAt > Gap \/ line = "nodate" \/ Len(entries) >= MaxEntries
                     THEN entries
                     ELSE Append(entries, [at |-> here, label |-> Reading!LabelOf(parts), session |-> readPending])
      BY <2>8, <2>10, Zenon DEF Reading!ReadDate
    <3>3. CASE parts = <<>> \/ here - labelAt > Gap \/ line = "nodate" \/ Len(entries) >= MaxEntries
      <4>1. entries' = entries
        BY <3>0, <3>3
      <4>2. labelAt \in Int /\ Gap \in Nat
        BY <2>3, ReadingAssumption DEF ReadingTyped
      <4>3. line = "date" /\ parts # <<>> /\ Len(readPage) + 1 - labelAt <= Gap => Len(entries) >= MaxEntries
        BY <2>2, <2>11, <3>3, <4>2
      <4>4. EntriesFollow'
        BY <2>1, <4>1, <4>3, NoEntry
      <4> QED
        BY <2>3, <2>4, <3>1, <3>2, <4>1, <4>4 DEF ReadingInv, ReadingTyped, Entry
    <3>4. CASE ~(parts = <<>> \/ here - labelAt > Gap \/ line = "nodate" \/ Len(entries) >= MaxEntries)
      <4>1. line = "date" /\ parts # <<>>
        BY <3>1, <3>4
      <4>2. here - labelAt <= Gap
        BY <2>2, <2>3, <2>11, <3>4, ReadingAssumption DEF ReadingTyped
      <4>3. entries' = Append(entries, [at |-> here, label |-> Reading!LabelOf(parts), session |-> readPending])
        BY <3>0, <3>4
      <4>4. EntriesFollow' /\ entries' \in Seq(Entry)
        BY <2>1, <2>11, <4>1, <4>2, <4>3, EntryMade
      <4> QED
        BY <2>3, <2>4, <3>1, <3>2, <4>4 DEF ReadingInv, ReadingTyped, Entry
    <3> QED
      BY <3>3, <3>4
  <2> QED
    BY <1>2, <2>6, <2>7, <2>8 DEF Reading!Read
<1> QED
  BY <1>1, <1>2 DEF Reading!Next

\* What is kept is what the page says.
LEMMA ReadingImplies == ReadingInv => Reading!TypeOK /\ Reading!EntriesAsWritten
<1> SUFFICES ASSUME ReadingInv PROVE Reading!TypeOK /\ Reading!EntriesAsWritten
  OBVIOUS
<1>1. /\ Len(readPage) \in Nat /\ DOMAIN readPage = 1 .. Len(readPage) /\ Len(entries) \in Nat
      /\ DOMAIN entries = 1 .. Len(entries) /\ DOMAIN parts = 1 .. Len(parts) /\ ReadingTyped
  BY PageLines DEF ReadingInv
<1>2. ASSUME NEW n \in DOMAIN entries
      PROVE  /\ entries[n].at \in DOMAIN readPage /\ Reading!HasEntry(entries[n].at)
             /\ Reading!ToSet(entries[n].label) =
                  {k \in Reading!LabelsAbove(entries[n].at) :
                     Reading!InLabel(k, entries[n].at) /\ k > Reading!Nearest(entries[n].at) - LabelLines}
             /\ entries[n].session = (IF entries[n].at > 1 /\ readPage[entries[n].at - 1] \in SessionMark
                                      THEN readPage[entries[n].at - 1] ELSE None)
  <2>1. PICK e : e = entries[n]
    OBVIOUS
  <2>2. EntryIsWritten(e)
    BY <1>1, <2>1 DEF ReadingInv, EntriesFollow
  <2>3. e.at \in 1 .. Len(readPage) /\ readPage[e.at] = "date"
    BY <2>2 DEF EntryIsWritten
  <2>4. PICK near \in Nat :
          /\ NearestIs(near, e.at) /\ e.at - near <= Gap
          /\ Reading!ToSet(e.label) =
               {k \in Reading!LabelsAbove(e.at) : (\A between \in k .. near : Reading!IsLabel(between)) /\ k > near - LabelLines}
    BY <2>2 DEF EntryIsWritten
  <2>5. Reading!LabelsAbove(e.at) # {} /\ Reading!Nearest(e.at) = near
    BY <2>3, <2>4, NearestIsOne
  <2>6. Reading!HasEntry(e.at)
    BY <2>3, <2>4, <2>5 DEF Reading!HasEntry
  <2>7. Reading!ToSet(e.label) =
          {k \in Reading!LabelsAbove(e.at) : Reading!InLabel(k, e.at) /\ k > Reading!Nearest(e.at) - LabelLines}
    BY <2>4, <2>5 DEF Reading!InLabel
  <2> QED
    BY <1>1, <2>1, <2>2, <2>3, <2>6, <2>7 DEF EntryIsWritten
<1>3. ASSUME Len(entries) < MaxEntries, NEW k \in DOMAIN readPage, Reading!HasEntry(k)
      PROVE  \E n \in DOMAIN entries : entries[n].at = k
  <2>1. k \in Nat /\ NearestIs(Reading!Nearest(k), k) /\ readPage[k] = "date" /\ k - Reading!Nearest(k) <= Gap
    BY <1>1, <1>3, NearestExists DEF Reading!HasEntry
  <2>2. Reading!Nearest(k) \in Nat
    BY <2>1 DEF NearestIs, Reading!LabelsAbove
  <2> QED
    BY <1>1, <1>3, <2>1, <2>2 DEF ReadingInv, EntriesFollow
<1>4. \A m, n \in DOMAIN entries : m < n => entries[m].at < entries[n].at
  BY <1>1 DEF ReadingInv, EntriesFollow
<1>5. Reading!EntriesAsWritten
  BY <1>2, <1>3, <1>4 DEF Reading!EntriesAsWritten
<1>6. \A n \in DOMAIN parts : parts[n] \in DOMAIN readPage
  <2> SUFFICES ASSUME NEW n \in DOMAIN parts PROVE parts[n] \in DOMAIN readPage
    OBVIOUS
  <2>1. PICK first \in 1 .. labelAt :
          NearestIs(labelAt, Len(readPage) + 1) /\ Len(parts) = labelAt - first + 1 /\ parts[n] = first + n - 1
    BY <1>1 DEF ReadingInv, LabelFollows
  <2>2. labelAt \in 1 .. Len(readPage)
    BY <1>1, <2>1 DEF NearestIs, Reading!LabelsAbove
  <2> QED
    BY <1>1, <2>1, <2>2
<1> QED
  BY <1>1, <1>2, <1>5, <1>6 DEF Reading!TypeOK, ReadingTyped

\* However long a page is, every date below a label is read as written there, once, and nothing else.
THEOREM PagesAreRead == Reading!Spec => []Reading!EntriesAsWritten
  BY ReadingInit, ReadingNext, ReadingImplies, PTL DEF Reading!Spec

-----------------------------------------------------------------------------
(* Numbers one after the other *)

\* What holds at the beginning and passes on to the next number holds up to the end.
LEMMA CountUp ==
  ASSUME NEW n \in Nat, NEW S, 0 \in S, \A i \in 1 .. n : i - 1 \in S => i \in S
  PROVE  0 .. n \subseteq S
<1> SUFFICES ASSUME NEW k \in 0 .. n, k \notin S PROVE FALSE
  OBVIOUS
<1> DEFINE T == {i \in 0 .. n : i \notin S}
<1>1. T # {} /\ T \subseteq Nat
  OBVIOUS
<1>2. PICK m \in T : \A i \in T : ~(<<i, m>> \in OpToRel(<, Nat))
  <2> HIDE DEF T
  <2> QED
    BY <1>1, NatLessThanWellFounded, WFMin
<1>3. m # 0 /\ m - 1 \in 0 .. n
  OBVIOUS
<1>4. m - 1 \notin T
  <2>1. m \in Nat /\ m - 1 \in Nat /\ m - 1 < m
    BY <1>3
  <2>2. <<m - 1, m>> \in OpToRel(<, Nat)
    BY <2>1 DEF OpToRel
  <2> HIDE DEF T
  <2> QED
    BY <1>2, <2>2
<1> QED
  BY <1>3, <1>4

\* A set of numbers that is not empty has a first one.
LEMMA FirstNumber ==
  ASSUME NEW S \in SUBSET Nat, S # {}
  PROVE  \E n \in S : \A other \in S : n <= other
<1>1. PICK m \in S : \A i \in S : ~(<<i, m>> \in OpToRel(<, Nat))
  BY NatLessThanWellFounded, WFMin
<1>2. ASSUME NEW i \in S PROVE m <= i
  <2>1. CASE i < m
    <3>1. <<i, m>> \in OpToRel(<, Nat)
      BY <2>1 DEF OpToRel
    <3> QED
      BY <1>1, <3>1
  <2> QED
    BY <2>1
<1> QED
  BY <1>2

-----------------------------------------------------------------------------
(* The school's calendar.  Changes and days off that were applied once leave *)
(* everything as it is, and so does a list of them.                          *)

SchoolNames == {Bundled[n].name : n \in DOMAIN Bundled} \union {None}

SchoolTerms == Seq([name : SchoolNames, starts : Nat, ends : Nat])

AnyEvent == [term : Nat \union {None}, title : School!Boundary \union {"noClass"}, starts : Nat, ends : Nat]

SchoolEvents == Seq(AnyEvent)

\* Terms and their events, as they are or while differences are applied to them.
SchoolState(st) ==
  /\ st \in [terms : SchoolTerms, events : SchoolEvents]
  /\ \A e \in DOMAIN st.events :
       /\ st.events[e].term \in DOMAIN st.terms \union {None}
       /\ st.events[e].starts <= st.events[e].ends

\* A difference from a bundled term, and a day off.
IsChange(c) == c.field \in School!Boundary /\ c.proposed \in Nat /\ c.proposed # c.current
IsHoliday(days) == days \in Nat \X (Nat \union {None})

\* Two differences of one date of a term are from the same date.
SameDate(c, d) == c.name = d.name /\ c.field = d.field => c.current = d.current

\* A change that was applied, or that does not apply.
Settled(st, c) ==
  LET n == School!Named(st.terms, c.name)
  IN  \/ n = None
      \/ /\ c.field = "startsOn" => st.terms[n].starts # c.current
         /\ c.field = "endsOn" => st.terms[n].ends # c.current
         /\ c.field \in {"classEndsOn", "examStartsOn"} =>
              \E e \in School!ToSet(st.events) : e.term = n /\ e.title = c.field /\ e.starts = c.proposed

\* A day off that was applied, or that does not apply.
SettledHoliday(st, days) ==
  LET n == School!Within(st.terms, days)
  IN  \/ n = None \/ School!LastDay(days) < days[1]
      \/ \E e \in School!ToSet(st.events) : e.term = n /\ e.starts = days[1] /\ e.ends = School!LastDay(days)

\* What a change leaves as it is.
ChangedBy(st, after, c) ==
  /\ DOMAIN after.terms = DOMAIN st.terms
  /\ \A n \in DOMAIN st.terms :
       /\ after.terms[n].name = st.terms[n].name
       /\ \/ after.terms[n].starts = st.terms[n].starts
          \/ c.field = "startsOn" /\ st.terms[n].name = c.name /\ st.terms[n].starts = c.current
       /\ \/ after.terms[n].ends = st.terms[n].ends
          \/ c.field = "endsOn" /\ st.terms[n].name = c.name /\ st.terms[n].ends = c.current
  /\ School!ToSet(st.events) \subseteq School!ToSet(after.events)

LEMMA NamedIs ==
  ASSUME NEW ts \in SchoolTerms, NEW name
  PROVE  \/ School!Named(ts, name) = None
         \/ School!Named(ts, name) \in DOMAIN ts /\ ts[School!Named(ts, name)].name = name
<1> DEFINE hits == {n \in DOMAIN ts : ts[n].name = name}
<1>1. hits \in SUBSET Nat
  BY LenProperties DEF SchoolTerms
<1>2. School!Named(ts, name) = IF hits = {} THEN None ELSE CHOOSE n \in hits : \A other \in hits : n <= other
  BY DEF School!Named, School!First
<1>3. hits # {} => \E n \in hits : \A other \in hits : n <= other
  BY <1>1, FirstNumber
<1> QED
  BY <1>2, <1>3

LEMMA NamedStays ==
  ASSUME NEW ts, NEW us, NEW name,
         DOMAIN us = DOMAIN ts, \A n \in DOMAIN ts : us[n].name = ts[n].name
  PROVE  School!Named(us, name) = School!Named(ts, name)
<1> DEFINE hits(list) == {n \in DOMAIN list : list[n].name = name}
<1>1. hits(us) = hits(ts)
  OBVIOUS
<1>2. \A list : School!Named(list, name) =
        IF hits(list) = {} THEN None ELSE CHOOSE n \in hits(list) : \A other \in hits(list) : n <= other
  BY DEF School!Named, School!First
<1> HIDE DEF hits
<1> QED
  BY <1>1, <1>2

LEMMA WithinIs ==
  ASSUME NEW ts \in SchoolTerms, NEW days
  PROVE  School!Within(ts, days) = None \/ School!Within(ts, days) \in DOMAIN ts
<1> DEFINE hits == {n \in DOMAIN ts : ts[n].name # None /\ days[1] \in ts[n].starts .. ts[n].ends}
<1>1. hits \in SUBSET Nat
  BY LenProperties DEF SchoolTerms
<1>2. School!Within(ts, days) = IF hits = {} THEN None ELSE CHOOSE n \in hits : \A other \in hits : n <= other
  BY DEF School!Within, School!First
<1>3. hits # {} => \E n \in hits : \A other \in hits : n <= other
  BY <1>1, FirstNumber
<1> QED
  BY <1>2, <1>3

\* An event of a term that is there.
EventOf(st, event) == event \in AnyEvent /\ event.term \in DOMAIN st.terms /\ event.starts <= event.ends

\* An event that is added is there, with all that were there before.
LEMMA EventAdded ==
  ASSUME NEW st, SchoolState(st), NEW event, EventOf(st, event),
         NEW after, after = [terms |-> st.terms, events |-> Append(st.events, event)]
  PROVE  /\ SchoolState(after)
         /\ after.terms = st.terms
         /\ School!ToSet(st.events) \subseteq School!ToSet(after.events)
         /\ event \in School!ToSet(after.events)
<1>1. st.events \in Seq(AnyEvent) /\ st.terms \in SchoolTerms
  BY DEF SchoolState, SchoolEvents
<1>2. event \in AnyEvent /\ event.term \in DOMAIN st.terms /\ event.starts <= event.ends
  BY DEF EventOf
<1>3. after.events = Append(st.events, event) /\ after.terms = st.terms
  OBVIOUS
<1>4. Append(st.events, event) \in Seq(AnyEvent)
  BY <1>1, <1>2, AppendProperties
<1>5. after \in [terms : SchoolTerms, events : SchoolEvents]
  BY <1>1, <1>4 DEF SchoolEvents
<1>6. /\ DOMAIN st.events = 1 .. Len(st.events) /\ Len(st.events) \in Nat
      /\ DOMAIN after.events = 1 .. Len(st.events) + 1
      /\ \A i \in 1 .. Len(st.events) : after.events[i] = st.events[i]
      /\ after.events[Len(st.events) + 1] = event
  BY <1>1, <1>2, <1>3, <1>4, LenProperties, AppendProperties
<1>7. \A i \in DOMAIN after.events :
        (i \in DOMAIN st.events /\ after.events[i] = st.events[i]) \/ after.events[i] = event
  BY <1>6
<1>8. SchoolState(after)
  BY <1>2, <1>3, <1>5, <1>7 DEF SchoolState
<1>9. School!ToSet(st.events) \subseteq School!ToSet(after.events) /\ event \in School!ToSet(after.events)
  BY <1>6, <1>7 DEF School!ToSet
<1> QED
  BY <1>3, <1>8, <1>9

\* A change that does not apply changes nothing.
LEMMA SettledStays ==
  ASSUME NEW st, NEW c, IsChange(c), Settled(st, c)
  PROVE  School!Change(st, c) = st
BY DEF Settled, School!Change

\* A change that was applied does not apply again, and leaves the rest as it was.
LEMMA ChangeSettles ==
  ASSUME NEW st, SchoolState(st), NEW c, IsChange(c), NEW after, after = School!Change(st, c)
  PROVE  SchoolState(after) /\ ChangedBy(st, after, c) /\ Settled(after, c)
<1> DEFINE n == School!Named(st.terms, c.name)
           T == [name : SchoolNames, starts : Nat, ends : Nat]
<1>0. ASSUME after = st, Settled(st, c)
      PROVE  SchoolState(after) /\ ChangedBy(st, after, c) /\ Settled(after, c)
  BY <1>0 DEF ChangedBy
<1>1. CASE Settled(st, c)
  BY <1>0, <1>1, SettledStays
<1>2. CASE ~Settled(st, c)
  <2>1. n # None
    BY <1>2 DEF Settled
  <2>2. n \in DOMAIN st.terms /\ st.terms[n].name = c.name /\ st.terms \in Seq(T)
    BY <2>1, NamedIs DEF SchoolState, SchoolTerms
  <2>3. n \in 1 .. Len(st.terms) /\ Len(st.terms) \in Nat /\ DOMAIN st.terms = 1 .. Len(st.terms)
          /\ \A i \in 1 .. Len(st.terms) : st.terms[i] \in T
    BY <2>2, LenProperties, ElementOfSeq
  <2>4. CASE c.field = "startsOn"
    <3>1. st.terms[n].starts = c.current
      BY <1>2, <2>4 DEF Settled
    <3>2. after = [st EXCEPT !.terms[n].starts = c.proposed]
      BY <2>1, <2>4, <3>1 DEF School!Change
    <3> DEFINE ts == [st.terms EXCEPT ![n].starts = c.proposed]
    <3>3. after = [terms |-> ts, events |-> st.events]
      BY <3>2 DEF SchoolState
    <3>4. ts \in Seq(T) /\ DOMAIN ts = DOMAIN st.terms
      <4>1. ts \in [1 .. Len(st.terms) -> T]
        BY <2>2, <2>3, LenProperties DEF IsChange
      <4> QED
        <5>1. DOMAIN ts = DOMAIN st.terms
          OBVIOUS
        <5> HIDE DEF ts, T
        <5> QED
          BY <2>3, <4>1, <5>1, SeqDef
    <3>5. \A i \in DOMAIN st.terms : /\ ts[i].name = st.terms[i].name
                                     /\ ts[i].ends = st.terms[i].ends
                                     /\ ts[i].starts = IF i = n THEN c.proposed ELSE st.terms[i].starts
      BY <2>3
    <3> HIDE DEF ts
    <3>6. School!Named(after.terms, c.name) = n
      BY <3>3, <3>4, <3>5, NamedStays
    <3>7. SchoolState(after)
      BY <3>3, <3>4 DEF SchoolState, SchoolTerms
    <3>8. ChangedBy(st, after, c)
      <4>1. after.terms = ts /\ after.events = st.events
        BY <3>3
      <4>2. ASSUME NEW i \in DOMAIN st.terms
            PROVE  /\ after.terms[i].name = st.terms[i].name
                   /\ after.terms[i].ends = st.terms[i].ends
                   /\ i # n => after.terms[i].starts = st.terms[i].starts
        BY <3>5, <4>1
      <4>3. \A i \in DOMAIN st.terms :
              after.terms[i].starts = st.terms[i].starts \/ (st.terms[i].name = c.name /\ st.terms[i].starts = c.current)
        BY <2>2, <3>1, <4>2
      <4> QED
        BY <2>4, <3>4, <4>1, <4>2, <4>3 DEF ChangedBy
    <3>9. after.terms[n].starts # c.current
      BY <2>2, <3>3, <3>5 DEF IsChange
    <3> QED
      BY <2>4, <3>6, <3>7, <3>8, <3>9 DEF Settled
  <2>5. CASE c.field = "endsOn"
    <3>1. st.terms[n].ends = c.current
      BY <1>2, <2>5 DEF Settled
    <3>2. after = [st EXCEPT !.terms[n].ends = c.proposed]
      BY <2>1, <2>5, <3>1 DEF School!Change
    <3> DEFINE ts == [st.terms EXCEPT ![n].ends = c.proposed]
    <3>3. after = [terms |-> ts, events |-> st.events]
      BY <3>2 DEF SchoolState
    <3>4. ts \in Seq(T) /\ DOMAIN ts = DOMAIN st.terms
      <4>1. ts \in [1 .. Len(st.terms) -> T]
        BY <2>2, <2>3, LenProperties DEF IsChange
      <4> QED
        <5>1. DOMAIN ts = DOMAIN st.terms
          OBVIOUS
        <5> HIDE DEF ts, T
        <5> QED
          BY <2>3, <4>1, <5>1, SeqDef
    <3>5. \A i \in DOMAIN st.terms : /\ ts[i].name = st.terms[i].name
                                     /\ ts[i].starts = st.terms[i].starts
                                     /\ ts[i].ends = IF i = n THEN c.proposed ELSE st.terms[i].ends
      BY <2>3
    <3> HIDE DEF ts
    <3>6. School!Named(after.terms, c.name) = n
      BY <3>3, <3>4, <3>5, NamedStays
    <3>7. SchoolState(after)
      BY <3>3, <3>4 DEF SchoolState, SchoolTerms
    <3>8. ChangedBy(st, after, c)
      BY <2>2, <2>5, <3>1, <3>3, <3>4, <3>5 DEF ChangedBy
    <3>9. after.terms[n].ends # c.current
      BY <2>2, <3>3, <3>5 DEF IsChange
    <3> QED
      BY <2>5, <3>6, <3>7, <3>8, <3>9 DEF Settled
  <2>6. CASE c.field \in {"classEndsOn", "examStartsOn"}
    <3>1. ~\E e \in School!ToSet(st.events) : e.term = n /\ e.title = c.field /\ e.starts = c.proposed
      BY <1>2, <2>6 DEF Settled
    <3>2. after = [st EXCEPT !.events = School!Append(@, School!Event(n, c.field, c.proposed, c.proposed))]
      BY <2>1, <2>6, <3>1 DEF School!Change
    <3>3. c.field \in School!Boundary \union {"noClass"} /\ c.proposed \in Nat /\ c.proposed <= c.proposed
      BY DEF IsChange
    <3> DEFINE event == School!Event(n, c.field, c.proposed, c.proposed)
    <3>4. after = [terms |-> st.terms, events |-> Append(st.events, event)]
      BY <3>2 DEF SchoolState
    <3>5. event.term = n /\ event.title = c.field /\ event.starts = c.proposed
      BY DEF School!Event
    <3>6. EventOf(st, event)
      BY <2>2, <2>3, <3>3 DEF School!Event, EventOf, AnyEvent
    <3> HIDE DEF n, event
    <3>7. /\ SchoolState(after) /\ after.terms = st.terms
          /\ School!ToSet(st.events) \subseteq School!ToSet(after.events)
          /\ event \in School!ToSet(after.events)
      BY <3>4, <3>6, EventAdded
    <3>8. Settled(after, c)
      BY <2>6, <3>5, <3>7 DEF Settled, n
    <3>9. ChangedBy(st, after, c)
      BY <3>7 DEF ChangedBy
    <3> QED
      BY <3>7, <3>8, <3>9
  <2> QED
    BY <2>4, <2>5, <2>6 DEF IsChange, School!Boundary
<1> QED
  BY <1>1, <1>2

\* What was applied stays applied when something else is.
LEMMA SettledKept ==
  ASSUME NEW st, SchoolState(st), NEW after, NEW c, NEW d, SameDate(c, d),
         ChangedBy(st, after, c), Settled(st, d)
  PROVE  Settled(after, d)
<1> DEFINE n == School!Named(st.terms, d.name)
<1>1. School!Named(after.terms, d.name) = n
  BY NamedStays DEF ChangedBy
<1>2. CASE n = None
  BY <1>1, <1>2 DEF Settled
<1>3. CASE n # None
  <2>1. n \in DOMAIN st.terms /\ st.terms[n].name = d.name
    BY <1>3, NamedIs DEF SchoolState
  <2>2. d.field = "startsOn" => after.terms[n].starts # d.current
    BY <1>3, <2>1 DEF Settled, ChangedBy, SameDate
  <2>3. d.field = "endsOn" => after.terms[n].ends # d.current
    BY <1>3, <2>1 DEF Settled, ChangedBy, SameDate
  <2>4. d.field \in {"classEndsOn", "examStartsOn"} =>
          \E e \in School!ToSet(after.events) : e.term = n /\ e.title = d.field /\ e.starts = d.proposed
    BY <1>3 DEF Settled, ChangedBy
  <2> QED
    BY <1>1, <2>2, <2>3, <2>4 DEF Settled
<1> QED
  BY <1>2, <1>3

LEMMA SettledHolidayStays ==
  ASSUME NEW st, NEW days, SettledHoliday(st, days)
  PROVE  School!Holiday(st, days) = st
BY DEF SettledHoliday, School!Holiday

\* A day off that was applied is there, and so is all that was.
LEMMA HolidaySettles ==
  ASSUME NEW st, SchoolState(st), NEW days, IsHoliday(days), NEW after, after = School!Holiday(st, days)
  PROVE  /\ SchoolState(after) /\ SettledHoliday(after, days)
         /\ after.terms = st.terms /\ School!ToSet(st.events) \subseteq School!ToSet(after.events)
<1> DEFINE n == School!Within(st.terms, days)
           ends == School!LastDay(days)
<1>1. CASE SettledHoliday(st, days)
  BY <1>1, SettledHolidayStays
<1>2. CASE ~SettledHoliday(st, days)
  <2>1. n # None /\ ~(ends < days[1])
          /\ ~\E e \in School!ToSet(st.events) : e.term = n /\ e.starts = days[1] /\ e.ends = ends
    BY <1>2 DEF SettledHoliday
  <2>2. after = [st EXCEPT !.events = School!Append(@, School!Event(n, "noClass", days[1], ends))]
    BY <2>1 DEF School!Holiday
  <2>3. days[1] \in Nat /\ ends \in Nat /\ days[1] <= ends
    BY <2>1 DEF IsHoliday, School!LastDay
  <2>4. n \in DOMAIN st.terms
    BY <2>1, WithinIs DEF SchoolState
  <2> DEFINE event == School!Event(n, "noClass", days[1], ends)
  <2>5. after = [terms |-> st.terms, events |-> Append(st.events, event)]
    BY <2>2 DEF SchoolState
  <2>6. event.term = n /\ event.starts = days[1] /\ event.ends = ends
    BY DEF School!Event
  <2>7. DOMAIN st.terms \subseteq Nat
    BY LenProperties DEF SchoolState, SchoolTerms
  <2>8. EventOf(st, event)
    BY <2>3, <2>4, <2>7 DEF School!Event, EventOf, AnyEvent
  <2> HIDE DEF n, ends, event
  <2>9. /\ SchoolState(after) /\ after.terms = st.terms
        /\ School!ToSet(st.events) \subseteq School!ToSet(after.events)
        /\ event \in School!ToSet(after.events)
    BY <2>5, <2>8, EventAdded
  <2>10. SettledHoliday(after, days)
    BY <2>6, <2>9 DEF SettledHoliday, n, ends
  <2> QED
    BY <2>9, <2>10
<1> QED
  BY <1>1, <1>2

LEMMA SettledHolidayKept ==
  ASSUME NEW st, NEW after, NEW days, SettledHoliday(st, days),
         after.terms = st.terms, School!ToSet(st.events) \subseteq School!ToSet(after.events)
  PROVE  SettledHoliday(after, days)
BY DEF SettledHoliday

LEMMA SettledByHolidays ==
  ASSUME NEW st, NEW after, NEW c, Settled(st, c),
         after.terms = st.terms, School!ToSet(st.events) \subseteq School!ToSet(after.events)
  PROVE  Settled(after, c)
BY DEF Settled

-----------------------------------------------------------------------------
(* Lists of differences are applied one after the other *)

AllChanged(state, list) == School!FoldLeft(School!Change, state, list)
AllAdded(state, list) == School!FoldLeft(School!Holiday, state, list)

\* What is there after each of the first n differences.
AllChangedBy(g, state, list, n) ==
  /\ g[0] = state
  /\ \A i \in 1 .. n : g[i] = School!Change(g[i - 1], list[i])
  /\ AllChanged(state, list) = g[n]
AllAddedBy(g, state, list, n) ==
  /\ g[0] = state
  /\ \A i \in 1 .. n : g[i] = School!Holiday(g[i - 1], list[i])
  /\ AllAdded(state, list) = g[n]

\* The greatest of some numbers is the greatest.
LEMMA MaxOfNumbers ==
  ASSUME NEW k \in Nat, NEW s \in SUBSET (1 .. k), k \in s
  PROVE  School!Max(s) = k
<1>1. \E m \in s : \A other \in s : m >= other
  OBVIOUS
<1>2. School!Max(s) \in s /\ \A other \in s : School!Max(s) >= other
  BY <1>1 DEF School!Max
<1>3. School!Max(s) \in 1 .. k
  BY <1>2
<1> QED
  BY <1>2, <1>3

\* The changes of a list are made one by one, in its order.
LEMMA ChangesFold ==
  ASSUME NEW state, NEW n \in Nat, NEW list, DOMAIN list = 1 .. n
  PROVE  \E g : AllChangedBy(g, state, list, n)
<1> DEFINE Next(f, s) == School!Change(f[s \ {School!Max(s)}], list[School!Max(s)])
           Iter(S, f) == f = [s \in SUBSET S |-> IF s = {} THEN state ELSE Next(f, s)]
           it == CHOOSE f : Iter(DOMAIN list, f)
           S == {k \in 0 .. n : \E f : Iter(1 .. k, f)}
<1>1. AllChanged(state, list) = it[DOMAIN list]
  BY DEF AllChanged, School!FoldLeft, School!MapThenFoldSet
<1>2. 0 \in S
  <2> DEFINE f == [s \in SUBSET (1 .. 0) |-> state]
  <2>1. \A s \in SUBSET (1 .. 0) : s = {}
    OBVIOUS
  <2>2. Iter(1 .. 0, f)
    BY <2>1
  <2> HIDE DEF Iter
  <2> QED
    BY <2>2
<1>3. ASSUME NEW k \in 1 .. n, k - 1 \in S PROVE k \in S
  <2>1. PICK f : Iter(1 .. k - 1, f)
    BY <1>3
  <2> DEFINE h == [s \in SUBSET (1 .. k) |-> IF k \in s THEN School!Change(f[s \ {k}], list[k]) ELSE f[s]]
  <2>2. \A s \in SUBSET (1 .. k) : k \notin s => s \in SUBSET (1 .. k - 1)
    OBVIOUS
  <2>3. ASSUME NEW s \in SUBSET (1 .. k)
        PROVE  h[s] = IF s = {} THEN state ELSE Next(h, s)
    <3>1. CASE s = {}
      BY <2>1, <2>2, <3>1
    <3>2. CASE s # {} /\ k \in s
      <4>1. School!Max(s) = k
        BY <3>2, MaxOfNumbers
      <4>2. h[s] = School!Change(f[s \ {k}], list[k])
        BY <3>2
      <4>3. h[s \ {k}] = f[s \ {k}]
        OBVIOUS
      <4> HIDE DEF h
      <4> QED
        BY <3>2, <4>1, <4>2, <4>3
    <3>3. CASE s # {} /\ k \notin s
      <4> DEFINE m == School!Max(s)
      <4>1. h[s] = f[s] /\ s \in SUBSET (1 .. k - 1)
        BY <2>2, <3>3
      <4>2. f[s] = School!Change(f[s \ {m}], list[m])
        BY <2>1, <3>3, <4>1
      <4>3. h[s \ {m}] = f[s \ {m}]
        BY <3>3
      <4> HIDE DEF h
      <4> QED
        BY <3>3, <4>1, <4>2, <4>3
    <3> QED
      BY <3>1, <3>2, <3>3
  <2>4. Iter(1 .. k, h)
    <3>1. h = [s \in SUBSET (1 .. k) |-> h[s]]
      OBVIOUS
    <3> HIDE DEF h, Next
    <3> QED
      BY <2>3, <3>1
  <2> HIDE DEF Iter, h
  <2> QED
    BY <2>4
<1>4. n \in S
  <2> HIDE DEF S
  <2> QED
    BY <1>2, <1>3, CountUp
<1>5. Iter(DOMAIN list, it)
  <2>1. \E f : Iter(DOMAIN list, f)
    <3> HIDE DEF Iter
    <3> QED
      BY <1>4
  <2> HIDE DEF Iter
  <2> QED
    BY <2>1
<1> HIDE DEF it
<1> DEFINE g == [i \in 0 .. n |-> it[1 .. i]]
<1>6. it[{}] = state
  BY <1>5
<1>7. ASSUME NEW i \in 1 .. n PROVE g[i] = School!Change(g[i - 1], list[i])
  <2>0. \A x \in Int : x \in (1 .. i) \ {i} <=> x \in 1 .. (i - 1)
    OBVIOUS
  <2>1. (1 .. i) \in SUBSET DOMAIN list /\ (1 .. i) # {} /\ i \in 1 .. i /\ i \in Nat
    OBVIOUS
  <2>2. (1 .. i) \ {i} = 1 .. (i - 1)
    <3>1. (1 .. i) \subseteq Int /\ 1 .. (i - 1) \subseteq Int
      BY <2>1
    <3> QED
      BY <2>0, <3>1
  <2>3. School!Max(1 .. i) = i
    BY <2>1, MaxOfNumbers
  <2>4. it[1 .. i] = Next(it, 1 .. i)
    BY <1>5, <2>1
  <2>5. g[i] = it[1 .. i] /\ g[i - 1] = it[1 .. (i - 1)]
    OBVIOUS
  <2> HIDE DEF g
  <2> QED
    BY <2>2, <2>3, <2>4, <2>5
<1>8. g[0] = state
  <2>1. 1 .. 0 = {} /\ 0 \in 0 .. n
    OBVIOUS
  <2> QED
    BY <1>6, <2>1
<1>9. g[n] = it[DOMAIN list]
  OBVIOUS
<1> HIDE DEF g
<1> QED
  BY <1>1, <1>7, <1>8, <1>9 DEF AllChangedBy

\* So are its days off added.
LEMMA HolidaysFold ==
  ASSUME NEW state, NEW n \in Nat, NEW list, DOMAIN list = 1 .. n
  PROVE  \E g : AllAddedBy(g, state, list, n)
<1> DEFINE Next(f, s) == School!Holiday(f[s \ {School!Max(s)}], list[School!Max(s)])
           Iter(S, f) == f = [s \in SUBSET S |-> IF s = {} THEN state ELSE Next(f, s)]
           it == CHOOSE f : Iter(DOMAIN list, f)
           S == {k \in 0 .. n : \E f : Iter(1 .. k, f)}
<1>1. AllAdded(state, list) = it[DOMAIN list]
  BY DEF AllAdded, School!FoldLeft, School!MapThenFoldSet
<1>2. 0 \in S
  <2> DEFINE f == [s \in SUBSET (1 .. 0) |-> state]
  <2>1. \A s \in SUBSET (1 .. 0) : s = {}
    OBVIOUS
  <2>2. Iter(1 .. 0, f)
    BY <2>1
  <2> HIDE DEF Iter
  <2> QED
    BY <2>2
<1>3. ASSUME NEW k \in 1 .. n, k - 1 \in S PROVE k \in S
  <2>1. PICK f : Iter(1 .. k - 1, f)
    BY <1>3
  <2> DEFINE h == [s \in SUBSET (1 .. k) |-> IF k \in s THEN School!Holiday(f[s \ {k}], list[k]) ELSE f[s]]
  <2>2. \A s \in SUBSET (1 .. k) : k \notin s => s \in SUBSET (1 .. k - 1)
    OBVIOUS
  <2>3. ASSUME NEW s \in SUBSET (1 .. k)
        PROVE  h[s] = IF s = {} THEN state ELSE Next(h, s)
    <3>1. CASE s = {}
      BY <2>1, <2>2, <3>1
    <3>2. CASE s # {} /\ k \in s
      <4>1. School!Max(s) = k
        BY <3>2, MaxOfNumbers
      <4>2. h[s] = School!Holiday(f[s \ {k}], list[k])
        BY <3>2
      <4>3. h[s \ {k}] = f[s \ {k}]
        OBVIOUS
      <4> HIDE DEF h
      <4> QED
        BY <3>2, <4>1, <4>2, <4>3
    <3>3. CASE s # {} /\ k \notin s
      <4> DEFINE m == School!Max(s)
      <4>1. h[s] = f[s] /\ s \in SUBSET (1 .. k - 1)
        BY <2>2, <3>3
      <4>2. f[s] = School!Holiday(f[s \ {m}], list[m])
        BY <2>1, <3>3, <4>1
      <4>3. h[s \ {m}] = f[s \ {m}]
        BY <3>3
      <4> HIDE DEF h
      <4> QED
        BY <3>3, <4>1, <4>2, <4>3
    <3> QED
      BY <3>1, <3>2, <3>3
  <2>4. Iter(1 .. k, h)
    <3>1. h = [s \in SUBSET (1 .. k) |-> h[s]]
      OBVIOUS
    <3> HIDE DEF h, Next
    <3> QED
      BY <2>3, <3>1
  <2> HIDE DEF Iter, h
  <2> QED
    BY <2>4
<1>4. n \in S
  <2> HIDE DEF S
  <2> QED
    BY <1>2, <1>3, CountUp
<1>5. Iter(DOMAIN list, it)
  <2>1. \E f : Iter(DOMAIN list, f)
    <3> HIDE DEF Iter
    <3> QED
      BY <1>4
  <2> HIDE DEF Iter
  <2> QED
    BY <2>1
<1> HIDE DEF it
<1> DEFINE g == [i \in 0 .. n |-> it[1 .. i]]
<1>6. it[{}] = state
  BY <1>5
<1>7. ASSUME NEW i \in 1 .. n PROVE g[i] = School!Holiday(g[i - 1], list[i])
  <2>0. \A x \in Int : x \in (1 .. i) \ {i} <=> x \in 1 .. (i - 1)
    OBVIOUS
  <2>1. (1 .. i) \in SUBSET DOMAIN list /\ (1 .. i) # {} /\ i \in 1 .. i /\ i \in Nat
    OBVIOUS
  <2>2. (1 .. i) \ {i} = 1 .. (i - 1)
    <3>1. (1 .. i) \subseteq Int /\ 1 .. (i - 1) \subseteq Int
      BY <2>1
    <3> QED
      BY <2>0, <3>1
  <2>3. School!Max(1 .. i) = i
    BY <2>1, MaxOfNumbers
  <2>4. it[1 .. i] = Next(it, 1 .. i)
    BY <1>5, <2>1
  <2>5. g[i] = it[1 .. i] /\ g[i - 1] = it[1 .. (i - 1)]
    OBVIOUS
  <2> HIDE DEF g
  <2> QED
    BY <2>2, <2>3, <2>4, <2>5
<1>8. g[0] = state
  <2>1. 1 .. 0 = {} /\ 0 \in 0 .. n
    OBVIOUS
  <2> QED
    BY <1>6, <2>1
<1>9. g[n] = it[DOMAIN list]
  OBVIOUS
<1> HIDE DEF g
<1> QED
  BY <1>1, <1>7, <1>8, <1>9 DEF AllAddedBy


LEMMA ChangesSettle ==
  ASSUME NEW state, SchoolState(state), NEW n \in Nat, NEW list, DOMAIN list = 1 .. n,
         \A i \in 1 .. n : IsChange(list[i]), \A i, j \in 1 .. n : SameDate(list[i], list[j]),
         NEW after, after = AllChanged(state, list)
  PROVE  /\ SchoolState(after) /\ DOMAIN after.terms = DOMAIN state.terms
         /\ \A i \in 1 .. n : Settled(after, list[i])
<1>0. PICK g : AllChangedBy(g, state, list, n)
  BY ChangesFold
<1>1. /\ g[0] = state
      /\ \A i \in 1 .. n : g[i] = School!Change(g[i - 1], list[i])
      /\ AllChanged(state, list) = g[n]
  BY <1>0 DEF AllChangedBy
<1> DEFINE Holds(k) == /\ SchoolState(g[k]) /\ DOMAIN g[k].terms = DOMAIN state.terms
                       /\ \A i \in 1 .. k : Settled(g[k], list[i])
           S == {k \in 0 .. n : Holds(k)}
<1>2. 0 \in S
  BY <1>1
<1>3. ASSUME NEW k \in 1 .. n, k - 1 \in S PROVE k \in S
  <2>1. Holds(k - 1) /\ k - 1 \in 0 .. n
    BY <1>3
  <2>2. PICK st : st = g[k - 1]
    OBVIOUS
  <2>3. PICK c : c = list[k]
    OBVIOUS
  <2>4. PICK next : next = g[k]
    OBVIOUS
  <2>5. next = School!Change(st, c) /\ SchoolState(st) /\ IsChange(c)
    BY <1>1, <2>1, <2>2, <2>3, <2>4
  <2>6. SchoolState(next) /\ ChangedBy(st, next, c) /\ Settled(next, c)
    BY ONLY <2>5, ChangeSettles
  <2>7. ASSUME NEW i \in 1 .. k PROVE Settled(next, list[i])
    <3>1. CASE i = k
      BY <2>3, <2>6, <3>1
    <3>2. CASE i # k
      <4>1. i \in 1 .. k - 1 /\ i \in 1 .. n
        BY <3>2
      <4>2. Settled(st, list[i]) /\ SameDate(c, list[i])
        BY <2>1, <2>2, <2>3, <4>1
      <4> QED
        BY <2>5, <2>6, <4>2, SettledKept
    <3> QED
      BY <3>1, <3>2
  <2>8. DOMAIN next.terms = DOMAIN state.terms
    BY <2>1, <2>2, <2>6 DEF ChangedBy
  <2> QED
    BY <2>4, <2>6, <2>7, <2>8
<1>4. n \in S
  <2> HIDE DEF S
  <2> QED
    BY <1>2, <1>3, CountUp
<1> QED
  BY <1>1, <1>4

LEMMA ChangesStay ==
  ASSUME NEW state, NEW n \in Nat, NEW list, DOMAIN list = 1 .. n,
         \A i \in 1 .. n : IsChange(list[i]) /\ Settled(state, list[i])
  PROVE  AllChanged(state, list) = state
<1>0. PICK g : AllChangedBy(g, state, list, n)
  BY ChangesFold
<1>1. /\ g[0] = state
      /\ \A i \in 1 .. n : g[i] = School!Change(g[i - 1], list[i])
      /\ AllChanged(state, list) = g[n]
  BY <1>0 DEF AllChangedBy
<1> DEFINE S == {k \in 0 .. n : g[k] = state}
<1>2. 0 \in S
  BY <1>1
<1>3. ASSUME NEW k \in 1 .. n, k - 1 \in S PROVE k \in S
  <2>1. g[k] = School!Change(state, list[k])
    BY <1>1, <1>3
  <2>2. School!Change(state, list[k]) = state
    BY SettledStays
  <2> QED
    BY <2>1, <2>2
<1>4. n \in S
  <2> HIDE DEF S
  <2> QED
    BY <1>2, <1>3, CountUp
<1> QED
  BY <1>1, <1>4

LEMMA HolidaysSettle ==
  ASSUME NEW state, SchoolState(state), NEW n \in Nat, NEW list, DOMAIN list = 1 .. n,
         \A i \in 1 .. n : IsHoliday(list[i]),
         NEW after, after = AllAdded(state, list)
  PROVE  /\ SchoolState(after) /\ after.terms = state.terms
         /\ School!ToSet(state.events) \subseteq School!ToSet(after.events)
         /\ \A i \in 1 .. n : SettledHoliday(after, list[i])
<1>0. PICK g : AllAddedBy(g, state, list, n)
  BY HolidaysFold
<1>1. /\ g[0] = state
      /\ \A i \in 1 .. n : g[i] = School!Holiday(g[i - 1], list[i])
      /\ AllAdded(state, list) = g[n]
  BY <1>0 DEF AllAddedBy
<1> DEFINE Holds(k) == /\ SchoolState(g[k]) /\ g[k].terms = state.terms
                       /\ School!ToSet(state.events) \subseteq School!ToSet(g[k].events)
                       /\ \A i \in 1 .. k : SettledHoliday(g[k], list[i])
           S == {k \in 0 .. n : Holds(k)}
<1>2. 0 \in S
  BY <1>1
<1>3. ASSUME NEW k \in 1 .. n, k - 1 \in S PROVE k \in S
  <2>1. Holds(k - 1) /\ k - 1 \in 0 .. n
    BY <1>3
  <2>2. PICK st : st = g[k - 1]
    OBVIOUS
  <2>3. PICK days : days = list[k]
    OBVIOUS
  <2>4. PICK next : next = g[k]
    OBVIOUS
  <2>5. next = School!Holiday(st, days) /\ SchoolState(st) /\ IsHoliday(days)
    BY <1>1, <2>1, <2>2, <2>3, <2>4
  <2>6. /\ SchoolState(next) /\ SettledHoliday(next, days)
        /\ next.terms = st.terms /\ School!ToSet(st.events) \subseteq School!ToSet(next.events)
    BY ONLY <2>5, HolidaySettles
  <2>7. ASSUME NEW i \in 1 .. k PROVE SettledHoliday(next, list[i])
    <3>1. CASE i = k
      BY <2>3, <2>6, <3>1
    <3>2. CASE i # k
      <4>1. i \in 1 .. k - 1
        BY <3>2
      <4>2. SettledHoliday(st, list[i])
        BY <2>1, <2>2, <4>1
      <4> QED
        BY <2>6, <4>2, SettledHolidayKept
    <3> QED
      BY <3>1, <3>2
  <2>8. next.terms = state.terms /\ School!ToSet(state.events) \subseteq School!ToSet(next.events)
    BY <2>1, <2>2, <2>6
  <2> QED
    BY <2>4, <2>6, <2>7, <2>8
<1>4. n \in S
  <2> HIDE DEF S
  <2> QED
    BY <1>2, <1>3, CountUp
<1> QED
  BY <1>1, <1>4

LEMMA HolidaysStay ==
  ASSUME NEW state, NEW n \in Nat, NEW list, DOMAIN list = 1 .. n,
         \A i \in 1 .. n : SettledHoliday(state, list[i])
  PROVE  AllAdded(state, list) = state
<1>0. PICK g : AllAddedBy(g, state, list, n)
  BY HolidaysFold
<1>1. /\ g[0] = state
      /\ \A i \in 1 .. n : g[i] = School!Holiday(g[i - 1], list[i])
      /\ AllAdded(state, list) = g[n]
  BY <1>0 DEF AllAddedBy
<1> DEFINE S == {k \in 0 .. n : g[k] = state}
<1>2. 0 \in S
  BY <1>1
<1>3. ASSUME NEW k \in 1 .. n, k - 1 \in S PROVE k \in S
  <2>1. g[k] = School!Holiday(state, list[k])
    BY <1>1, <1>3
  <2>2. School!Holiday(state, list[k]) = state
    BY SettledHolidayStays
  <2> QED
    BY <2>1, <2>2
<1>4. n \in S
  <2> HIDE DEF S
  <2> QED
    BY <1>2, <1>3, CountUp
<1> QED
  BY <1>1, <1>4

\* Differences in any order, applied twice, are applied once.
LEMMA AppliedIsSettled ==
  ASSUME NEW state, SchoolState(state), NEW n \in Nat, NEW list, DOMAIN list = 1 .. n,
         \A i \in 1 .. n : IsChange(list[i]), \A i, j \in 1 .. n : SameDate(list[i], list[j]),
         NEW m \in Nat, NEW days, DOMAIN days = 1 .. m, \A i \in 1 .. m : IsHoliday(days[i]),
         NEW once, once = School!Applied(state, list, days)
  PROVE  /\ SchoolState(once) /\ DOMAIN once.terms = DOMAIN state.terms
         /\ School!Applied(once, list, days) = once
<1>1. PICK changed : changed = AllChanged(state, list)
  OBVIOUS
<1>2. /\ SchoolState(changed) /\ DOMAIN changed.terms = DOMAIN state.terms
      /\ \A i \in 1 .. n : Settled(changed, list[i])
  BY <1>1, ChangesSettle
<1>3. once = AllAdded(changed, days)
  BY <1>1 DEF School!Applied, AllChanged, AllAdded
<1>4. /\ SchoolState(once) /\ once.terms = changed.terms
      /\ School!ToSet(changed.events) \subseteq School!ToSet(once.events)
      /\ \A i \in 1 .. m : SettledHoliday(once, days[i])
  BY <1>2, <1>3, HolidaysSettle
<1>5. \A i \in 1 .. n : IsChange(list[i]) /\ Settled(once, list[i])
  BY <1>2, <1>4, SettledByHolidays
<1>6. AllChanged(once, list) = once
  BY <1>5, ChangesStay
<1>7. AllAdded(once, days) = once
  BY <1>4, HolidaysStay
<1>8. School!Applied(once, list, days) = once
  BY <1>6, <1>7 DEF School!Applied, AllChanged, AllAdded
<1> QED
  BY <1>2, <1>4, <1>8

-----------------------------------------------------------------------------
(* The invariant of the school's calendar *)

\* Differences that may be shown: every one of them can be settled, whatever the others are.
Differences(diff) ==
  /\ IsFiniteSet(diff.changes) /\ IsFiniteSet(diff.holidays)
  /\ \A c \in diff.changes : IsChange(c)
  /\ \A c, d \in diff.changes : SameDate(c, d)
  /\ \A days \in diff.holidays : IsHoliday(days)

SchoolInv ==
  /\ calendarPage \in SchoolPage
  /\ Differences(calendarShown)
  /\ SchoolState([terms |-> terms, events |-> events])
  /\ calendarEdits \in 0 .. MaxSchoolEdits

LEMMA SchoolStateIs ==
  SchoolState([terms |-> terms, events |-> events]) <=>
    /\ terms \in SchoolTerms /\ events \in SchoolEvents
    /\ \A e \in DOMAIN events : /\ events[e].term \in DOMAIN terms \union {None}
                                /\ events[e].starts <= events[e].ends
BY DEF SchoolState

LEMMA SchoolInit == School!Init => SchoolInv
<1> SUFFICES ASSUME School!Init PROVE SchoolInv
  OBVIOUS
<1>1. Differences(calendarShown)
  BY FS_EmptySet DEF School!Init, School!Nothing, Differences
<1>2. <<>> \in SchoolTerms /\ <<>> \in SchoolEvents
  BY DEF SchoolTerms, SchoolEvents
<1>3. SchoolState([terms |-> terms, events |-> events])
  BY <1>2, SchoolStateIs DEF School!Init
<1> QED
  BY <1>1, <1>3, SchoolAssumption DEF School!Init, SchoolInv

\* What a row is about is a bundled term.
LEMMA MatchingIs ==
  ASSUME NEW row
  PROVE  School!MatchingTerm(row) = None \/ School!MatchingTerm(row) \in DOMAIN Bundled
<1> DEFINE hits == {n \in DOMAIN Bundled : /\ row.starts \in Bundled[n].starts - Slack .. Bundled[n].ends + Slack
                                           /\ row.session # None => Bundled[n].session = row.session}
<1>1. hits \in SUBSET Nat
  BY SchoolAssumption
<1>2. School!MatchingTerm(row) = IF hits = {} THEN None ELSE CHOOSE n \in hits : \A other \in hits : n <= other
  BY DEF School!MatchingTerm, School!First
<1>3. hits # {} => \E n \in hits : \A other \in hits : n <= other
  BY <1>1, FirstNumber
<1> QED
  BY <1>2, <1>3

\* The differences that a page shows.
LEMMA DiffShown ==
  ASSUME NEW rows \in SchoolPage
  PROVE  Differences(School!Diff(rows))
<1> DEFINE About(row) == Bundled[School!MatchingTerm(row)]
           matched == {row \in rows : School!MatchingTerm(row) # None}
           differ == {r \in matched : r.label \in School!Boundary /\ School!Of(About(r), r.label) # r.starts}
           off == {r \in matched : r.label = "noClass" /\ <<r.starts, r.ends>> \notin School!ToSet(About(r).holidays)}
           change(row) == [name |-> About(row).name, field |-> row.label,
                           current |-> School!Of(About(row), row.label), proposed |-> row.starts]
           dates == {change(row) : row \in differ}
           holidays == {<<row.starts, row.ends>> : row \in off}
<1>1. School!Diff(rows) = [changes |-> dates, holidays |-> holidays]
  BY DEF School!Diff
<1>2. IsFiniteSet(differ) /\ IsFiniteSet(off)
  BY SchoolAssumption, FS_Subset
<1>3. IsFiniteSet(dates)
  <2> DEFINE f == [row \in differ |-> change(row)]
  <2>1. f \in Surjection(differ, dates)
    BY DEF Surjection
  <2> HIDE DEF f, dates, differ
  <2> QED
    BY <1>2, <2>1, FS_Surjection
<1>4. IsFiniteSet(holidays)
  <2> DEFINE f == [row \in off |-> <<row.starts, row.ends>>]
  <2>1. f \in Surjection(off, holidays)
    BY DEF Surjection
  <2> HIDE DEF f, holidays, off
  <2> QED
    BY <1>2, <2>1, FS_Surjection
<1>5. \A row \in differ : /\ row.label \in School!Boundary /\ row.starts \in Nat
                          /\ School!Of(About(row), row.label) # row.starts
                          /\ School!MatchingTerm(row) \in DOMAIN Bundled
  BY SchoolAssumption, MatchingIs
<1>6. \A row \in differ : IsChange(change(row))
  BY <1>5 DEF IsChange
<1>7. \A row, other \in differ : SameDate(change(row), change(other))
  <2> SUFFICES ASSUME NEW row \in differ, NEW other \in differ,
                      About(row).name = About(other).name, row.label = other.label
               PROVE  School!Of(About(row), row.label) = School!Of(About(other), other.label)
    BY DEF SameDate
  <2>1. School!MatchingTerm(row) = School!MatchingTerm(other)
    BY <1>5, SchoolAssumption
  <2> QED
    BY <2>1
<1>8. \A row \in off : IsHoliday(<<row.starts, row.ends>>)
  BY SchoolAssumption DEF IsHoliday
<1> HIDE DEF change, differ, off
<1>9. /\ \A c \in dates : IsChange(c)
      /\ \A c, d \in dates : SameDate(c, d)
      /\ \A days \in holidays : IsHoliday(days)
  BY <1>6, <1>7, <1>8
<1> HIDE DEF dates, holidays
<1> QED
  BY <1>1, <1>3, <1>4, <1>9 DEF Differences

\* A list of some of the differences that are shown.
LEMMA OrderOfSome ==
  ASSUME NEW all, IsFiniteSet(all), NEW some \in SUBSET all, NEW list \in School!Orders(some)
  PROVE  \E n \in Nat : DOMAIN list = 1 .. n /\ \A i \in 1 .. n : list[i] \in all
<1>1. IsFiniteSet(some) /\ School!Cardinality(some) = Cardinality(some)
  BY FS_Subset DEF School!Cardinality, Cardinality
<1>2. School!Cardinality(some) \in Nat
  BY <1>1, FS_CardinalityType
<1>3. list \in [1 .. School!Cardinality(some) -> some]
  BY DEF School!Orders
<1> QED
  BY <1>2, <1>3

\* Whatever is approved, in whatever order, keeps the types and is approved only once.
LEMMA SomeApplied ==
  ASSUME NEW diff, Differences(diff), NEW state, SchoolState(state),
         NEW approved \in SUBSET diff.changes, NEW holidays \in SUBSET diff.holidays,
         NEW ordered \in School!Orders(approved), NEW days \in School!Orders(holidays),
         NEW once, once = School!Applied(state, ordered, days)
  PROVE  /\ SchoolState(once) /\ DOMAIN once.terms = DOMAIN state.terms
         /\ School!Applied(once, ordered, days) = once
<1>1. PICK n \in Nat : DOMAIN ordered = 1 .. n /\ \A i \in 1 .. n : ordered[i] \in diff.changes
  BY OrderOfSome DEF Differences
<1>2. PICK m \in Nat : DOMAIN days = 1 .. m /\ \A i \in 1 .. m : days[i] \in diff.holidays
  BY OrderOfSome DEF Differences
<1>3. /\ \A i \in 1 .. n : IsChange(ordered[i])
      /\ \A i, j \in 1 .. n : SameDate(ordered[i], ordered[j])
      /\ \A i \in 1 .. m : IsHoliday(days[i])
  BY <1>1, <1>2 DEF Differences
<1> QED
  BY ONLY SchoolState(state), once = School!Applied(state, ordered, days), <1>1, <1>2, <1>3, AppliedIsSettled

LEMMA ApplyKeepsSchool ==
  ASSUME SchoolInv, School!ApplyDiff
  PROVE  SchoolInv'
<1>1. PICK approved \in SUBSET calendarShown.changes, holidays \in SUBSET calendarShown.holidays :
        \E ordered \in School!Orders(approved), days \in School!Orders(holidays) :
          LET state == School!Applied([terms |-> terms, events |-> events], ordered, days)
          IN  terms' = state.terms /\ events' = state.events
  BY DEF School!ApplyDiff
<1>2. PICK ordered \in School!Orders(approved), days \in School!Orders(holidays) :
        LET state == School!Applied([terms |-> terms, events |-> events], ordered, days)
        IN  terms' = state.terms /\ events' = state.events
  BY <1>1
<1>3. PICK st : st = [terms |-> terms, events |-> events]
  OBVIOUS
<1>4. PICK once : once = School!Applied(st, ordered, days)
  OBVIOUS
<1>5. SchoolState(st) /\ Differences(calendarShown)
  BY <1>3 DEF SchoolInv
<1>6. SchoolState(once)
  BY <1>4, <1>5, SomeApplied
<1>7. terms' = once.terms /\ events' = once.events
  BY <1>2, <1>3, <1>4
<1>8. SchoolState([terms |-> terms', events |-> events'])
  BY <1>6, <1>7 DEF SchoolState
<1>9. UNCHANGED <<calendarPage, calendarShown, calendarEdits>>
  BY DEF School!ApplyDiff
<1> QED
  BY <1>8, <1>9 DEF SchoolInv

\* Every element of two lists one after the other is an element of one of them.
FromEither(u, s, t) == \A i \in DOMAIN u : (i \in DOMAIN s /\ u[i] = s[i]) \/ (\E j \in DOMAIN t : u[i] = t[j])

LEMMA ConcatElements ==
  ASSUME NEW S, NEW s \in Seq(S), NEW t \in Seq(S), NEW u, u = s \o t
  PROVE  u \in Seq(S) /\ FromEither(u, s, t)
<1>1. /\ Len(s) \in Nat /\ DOMAIN s = 1 .. Len(s) /\ Len(t) \in Nat /\ DOMAIN t = 1 .. Len(t)
  BY LenProperties
<1>2. /\ u \in Seq(S) /\ Len(u) = Len(s) + Len(t)
      /\ \A i \in 1 .. Len(s) + Len(t) : u[i] = IF i <= Len(s) THEN s[i] ELSE t[i - Len(s)]
  BY ConcatProperties
<1>3. DOMAIN u = 1 .. Len(s) + Len(t)
  BY <1>2, LenProperties
<1>4. ASSUME NEW i \in 1 .. Len(s) + Len(t), i > Len(s)
      PROVE  i - Len(s) \in DOMAIN t /\ u[i] = t[i - Len(s)]
  BY <1>1, <1>2, <1>4
<1>5. \A i \in 1 .. Len(s) + Len(t) : i <= Len(s) => i \in DOMAIN s /\ u[i] = s[i]
  BY <1>1, <1>2
<1>6. \A i \in 1 .. Len(s) + Len(t) : i <= Len(s) \/ i > Len(s)
  BY <1>1
<1> QED
  BY <1>2, <1>3, <1>4, <1>5, <1>6 DEF FromEither

LEMMA OnboardKeeps ==
  ASSUME SchoolInv, NEW n \in DOMAIN Bundled, School!Onboard(n)
  PROVE  SchoolInv'
<1> DEFINE b == Bundled[n]
           new == [name |-> b.name, starts |-> b.starts, ends |-> b.ends]
           T == [name : SchoolNames, starts : Nat, ends : Nat]
           added == [d \in DOMAIN b.holidays |->
                       School!Event(Len(terms) + 1, "noClass", b.holidays[d][1], School!LastDay(b.holidays[d]))]
           H == {days \in Nat \X (Nat \union {None}) : days[2] = None \/ days[1] <= days[2]}
<1>1. /\ terms \in Seq(T) /\ events \in SchoolEvents
      /\ \A e \in DOMAIN events : /\ events[e].term \in DOMAIN terms \union {None}
                                  /\ events[e].starts <= events[e].ends
  BY SchoolStateIs DEF SchoolInv, SchoolTerms
<1>2. new \in T
  BY SchoolAssumption DEF SchoolNames
<1>3. terms' = Append(terms, new)
  BY DEF School!Onboard
<1> HIDE DEF new, T
<1>4. /\ terms' \in Seq(T) /\ Len(terms) \in Nat /\ DOMAIN terms = 1 .. Len(terms)
      /\ DOMAIN terms' = 1 .. Len(terms) + 1
  BY <1>1, <1>2, <1>3, AppendProperties, LenProperties
<1>5. b.holidays \in Seq(H)
  BY SchoolAssumption
<1>6. /\ Len(b.holidays) \in Nat /\ DOMAIN b.holidays = 1 .. Len(b.holidays)
      /\ \A d \in DOMAIN b.holidays : b.holidays[d] \in H
  <2> HIDE DEF H, b
  <2> QED
    BY <1>5, LenProperties, ElementOfSeq
<1>7. ASSUME NEW d \in DOMAIN b.holidays
      PROVE  /\ added[d] \in AnyEvent /\ added[d].term = Len(terms) + 1
             /\ added[d].starts <= added[d].ends
  <2>1. b.holidays[d][1] \in Nat /\ School!LastDay(b.holidays[d]) \in Nat
          /\ b.holidays[d][1] <= School!LastDay(b.holidays[d])
    BY <1>6 DEF School!LastDay
  <2> QED
    BY <1>4, <2>1 DEF School!Event, AnyEvent
<1>8. added \in Seq(AnyEvent) /\ Len(added) = Len(b.holidays) /\ DOMAIN added = 1 .. Len(b.holidays)
  <2>1. added \in [1 .. Len(b.holidays) -> AnyEvent]
    BY <1>6, <1>7
  <2> HIDE DEF added
  <2>2. added \in Seq(AnyEvent)
    BY <1>6, <2>1, SeqDef
  <2> QED
    BY <1>6, <2>1, <2>2, LenProperties
<1>9. events' = events \o added
  BY DEF School!Onboard
<1>10. UNCHANGED <<calendarPage, calendarShown>> /\ calendarEdits' \in 0 .. MaxSchoolEdits
  BY SchoolAssumption DEF School!Onboard, SchoolInv
<1> HIDE DEF added, b
<1>11. PICK u : u = events'
  OBVIOUS
<1>12. u \in SchoolEvents /\ FromEither(u, events, added)
  <2>1. events \in Seq(AnyEvent) /\ added \in Seq(AnyEvent) /\ u = events \o added
    BY <1>1, <1>8, <1>9, <1>11 DEF SchoolEvents
  <2>2. u \in Seq(AnyEvent) /\ FromEither(u, events, added)
    BY ONLY <2>1, ConcatElements
  <2> QED
    BY <2>2 DEF SchoolEvents
<1>13. \A e \in DOMAIN u : u[e].term \in DOMAIN terms' \union {None} /\ u[e].starts <= u[e].ends
  BY <1>1, <1>4, <1>6, <1>7, <1>8, <1>12 DEF FromEither
<1>14. SchoolState([terms |-> terms', events |-> events'])
  BY <1>4, <1>11, <1>12, <1>13 DEF SchoolState, SchoolTerms, T
<1> QED
  BY <1>10, <1>14 DEF SchoolInv

LEMMA TermEditKeeps ==
  ASSUME SchoolInv, NEW n \in DOMAIN terms, NEW b \in DOMAIN Bundled,
         NEW starts \in SchoolDay, NEW ends \in SchoolDay, School!EditTerm(n, Bundled[b].name, starts, ends)
  PROVE  SchoolInv'
<1> DEFINE T == [name : SchoolNames, starts : Nat, ends : Nat]
           new == [name |-> Bundled[b].name, starts |-> starts, ends |-> ends]
<1>1. /\ terms \in Seq(T) /\ events \in SchoolEvents
      /\ \A e \in DOMAIN events : /\ events[e].term \in DOMAIN terms \union {None}
                                  /\ events[e].starts <= events[e].ends
  BY SchoolStateIs DEF SchoolInv, SchoolTerms
<1>2. new \in T
  BY SchoolAssumption DEF SchoolNames
<1>3. terms' = [terms EXCEPT ![n] = new]
  BY DEF School!EditTerm
<1>4. UNCHANGED <<calendarPage, calendarShown, events>> /\ calendarEdits' \in 0 .. MaxSchoolEdits
  BY SchoolAssumption DEF School!EditTerm, SchoolInv
<1> HIDE DEF new, T
<1>5. terms' \in Seq(T) /\ DOMAIN terms' = DOMAIN terms
  BY <1>1, <1>2, <1>3, ExceptSeq
<1>6. SchoolState([terms |-> terms', events |-> events'])
  BY <1>1, <1>4, <1>5 DEF SchoolState, SchoolTerms, T
<1> QED
  BY <1>4, <1>6 DEF SchoolInv

LEMMA TermDeleteKeeps ==
  ASSUME SchoolInv, NEW n \in DOMAIN terms, School!DeleteTerm(n)
  PROVE  SchoolInv'
<1> DEFINE T == [name : SchoolNames, starts : Nat, ends : Nat]
           new == [terms[n] EXCEPT !.name = None]
           loose(event) == IF event.term = n THEN [event EXCEPT !.term = None] ELSE event
           kept == [e \in DOMAIN events |-> loose(events[e])]
<1>1. /\ terms \in Seq(T) /\ events \in Seq(AnyEvent)
      /\ \A e \in DOMAIN events : /\ events[e].term \in DOMAIN terms \union {None}
                                  /\ events[e].starts <= events[e].ends
  BY SchoolStateIs DEF SchoolInv, SchoolTerms, SchoolEvents
<1>2. new \in T
  <2>1. terms[n] \in T
    BY <1>1, ElementOfSeq, LenProperties
  <2> QED
    BY <2>1 DEF SchoolNames
<1>3. terms' = [terms EXCEPT ![n] = new] /\ events' = kept
  BY DEF School!DeleteTerm
<1>4. UNCHANGED <<calendarPage, calendarShown>> /\ calendarEdits' \in 0 .. MaxSchoolEdits
  BY SchoolAssumption DEF School!DeleteTerm, SchoolInv
<1>5. Len(events) \in Nat /\ DOMAIN events = 1 .. Len(events)
  BY <1>1, LenProperties
<1>6. \A e \in DOMAIN events : events[e] \in AnyEvent
  BY <1>1, <1>5, ElementOfSeq
<1>7. ASSUME NEW e \in DOMAIN events
      PROVE  /\ loose(events[e]) \in AnyEvent
             /\ loose(events[e]).term \in DOMAIN terms \union {None}
             /\ loose(events[e]).starts <= loose(events[e]).ends
  BY <1>1, <1>6 DEF AnyEvent
<1> HIDE DEF new, T, loose
<1>8. terms' \in Seq(T) /\ DOMAIN terms' = DOMAIN terms
  BY <1>1, <1>2, <1>3, ExceptSeq
<1>9. kept \in [1 .. Len(events) -> AnyEvent]
  BY <1>5, <1>7
<1>10. kept \in Seq(AnyEvent)
  BY <1>5, <1>9, SeqDef
<1>11. SchoolState([terms |-> terms', events |-> events'])
  BY <1>1, <1>3, <1>7, <1>8, <1>10 DEF SchoolState, SchoolTerms, SchoolEvents, T
<1> QED
  BY <1>4, <1>11 DEF SchoolInv

LEMMA SchoolNext == SchoolInv /\ [School!Next]_(School!vars) => SchoolInv'
<1> SUFFICES ASSUME SchoolInv, [School!Next]_(School!vars) PROVE SchoolInv'
  OBVIOUS
<1>1. CASE School!Publish
  BY <1>1, SchoolAssumption DEF School!Publish, SchoolInv
<1>2. CASE School!Refresh
  <2>1. Differences(calendarShown')
    BY <1>2, DiffShown DEF School!Refresh, SchoolInv
  <2> QED
    BY <1>2, <2>1 DEF School!Refresh, SchoolInv
<1>3. CASE School!ApplyDiff
  BY <1>3, ApplyKeepsSchool
<1>4. ASSUME NEW n \in DOMAIN Bundled, School!Onboard(n) PROVE SchoolInv'
  BY <1>4, OnboardKeeps
<1>5. ASSUME NEW n \in DOMAIN terms, NEW starts \in SchoolDay, NEW ends \in SchoolDay, NEW b \in DOMAIN Bundled,
             School!EditTerm(n, Bundled[b].name, starts, ends)
      PROVE  SchoolInv'
  BY <1>5, TermEditKeeps
<1>6. ASSUME NEW n \in DOMAIN terms, School!DeleteTerm(n) PROVE SchoolInv'
  BY <1>6, TermDeleteKeeps
<1>7. CASE UNCHANGED School!vars
  BY <1>7 DEF School!vars, SchoolInv
<1> QED
  BY <1>1, <1>2, <1>3, <1>4, <1>5, <1>6, <1>7 DEF School!Next

LEMMA SchoolOnce == SchoolInv => School!ApplyingTwiceIsOnce
<1> SUFFICES ASSUME SchoolInv,
                    NEW approved \in SUBSET calendarShown.changes, NEW holidays \in SUBSET calendarShown.holidays,
                    NEW ordered \in School!Orders(approved), NEW days \in School!Orders(holidays)
             PROVE  LET once == School!Applied([terms |-> terms, events |-> events], ordered, days)
                    IN  School!Applied(once, ordered, days) = once
  BY DEF School!ApplyingTwiceIsOnce
<1>1. PICK st : st = [terms |-> terms, events |-> events]
  OBVIOUS
<1>2. PICK once : once = School!Applied(st, ordered, days)
  OBVIOUS
<1>3. SchoolState(st) /\ Differences(calendarShown)
  BY <1>1 DEF SchoolInv
<1>4. School!Applied(once, ordered, days) = once
  BY <1>2, <1>3, SomeApplied
<1> QED
  BY <1>1, <1>2, <1>4

LEMMA SchoolTyped == SchoolInv => School!TypeOK
<1> DEFINE T == [name : SchoolNames, starts : Nat, ends : Nat]
<1> SUFFICES ASSUME SchoolInv PROVE School!TypeOK
  OBVIOUS
<1>1. /\ terms \in Seq(T)
      /\ \A e \in DOMAIN events : /\ events[e].term \in DOMAIN terms \union {None}
                                  /\ events[e].starts <= events[e].ends
  BY SchoolStateIs DEF SchoolInv, SchoolTerms
<1>2. \A n \in DOMAIN terms : terms[n] \in T
  BY <1>1, ElementOfSeq, LenProperties
<1> QED
  BY <1>1, <1>2 DEF SchoolInv, School!TypeOK

\* Whatever the school publishes, the student edits and the list of approved differences is: approving it
\* again, as after an error in making the plan, changes nothing.
THEOREM DifferencesApplyOnce == School!Spec => []School!ApplyingTwiceIsOnce
<1>1. SchoolInv => School!ApplyingTwiceIsOnce
  BY SchoolOnce
<1> QED
  BY <1>1, SchoolInit, SchoolNext, PTL DEF School!Spec
=============================================================================
