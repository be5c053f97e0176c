--------------------------- MODULE SchoolCalendar ---------------------------
(***************************************************************************)
(* What a school's calendar says against the terms that came with the      *)
(* program, and the student's own terms and dated events.  A refresh       *)
(* writes nothing: it shows the differences from the bundled terms, and    *)
(* the student applies the ones that are ticked.  The plan is made anew    *)
(* after they are committed, so they may be applied again after an error.  *)
(* A page is the rows that CalendarPage reads off it.                      *)
(***************************************************************************)
EXTENDS Integers, Sequences, FiniteSets, SequencesExt

CONSTANTS Bundled,   \* the bundled terms, in their order: name, session, starts, ends, others, holidays
          Page,      \* the pages the school may publish: sets of rows, label, session, starts and ends
          Day, Slack, None, MaxEdits

VARIABLES page, shown, terms, events, edits

vars == <<page, shown, terms, events, edits>>

Boundary == {"startsOn", "endsOn", "classEndsOn", "examStartsOn"}

Nothing == [changes |-> {}, holidays |-> {}]

Init == /\ page \in Page
        /\ shown = Nothing
        /\ terms = <<>>    \* the student's, in the order of their rows: a deleted one has no name
        /\ events = <<>>   \* in the order of their rows
        /\ edits = 0

TypeOK == /\ page \in Page
          /\ \A n \in DOMAIN terms : terms[n].starts \in Nat /\ terms[n].ends \in Nat
          /\ \A n \in DOMAIN events : events[n].term \in DOMAIN terms \union {None} /\ events[n].starts <= events[n].ends
          /\ edits \in 0 .. MaxEdits

First(Matches(_), list) ==
  LET hits == {n \in DOMAIN list : Matches(list[n])}
  IN  IF hits = {} THEN None ELSE CHOOSE n \in hits : \A other \in hits : n <= other

\* The bundled term a row is about: of the session it names, or else the first one whose days it is near.
MatchingTerm(row) ==
  First(LAMBDA term : /\ row.starts \in term.starts - Slack .. term.ends + Slack
                      /\ row.session # None => term.session = row.session, Bundled)

Of(term, label) == CASE label = "startsOn" -> term.starts [] label = "endsOn" -> term.ends [] OTHER -> term.others[label]

\* Every row that gives a bundled term another date, and every day off that the term does not have.
Diff(rows) ==
  LET matched == {row \in rows : MatchingTerm(row) # None}
      About(row) == Bundled[MatchingTerm(row)]
  IN  [changes |-> {[name |-> About(row).name, field |-> row.label,
                     current |-> Of(About(row), row.label), proposed |-> row.starts] :
                       row \in {r \in matched : r.label \in Boundary /\ Of(About(r), r.label) # r.starts}},
       holidays |-> {<<row.starts, row.ends>> :
                       row \in {r \in matched : r.label = "noClass" /\ <<r.starts, r.ends>> \notin ToSet(About(r).holidays)}}]

Publish ==
  /\ edits < MaxEdits /\ edits' = edits + 1
  /\ page' \in Page \ {page}
  /\ UNCHANGED <<shown, terms, events>>

\* A page that cannot be fetched or read leaves what is shown.
Refresh ==
  /\ shown' = Diff(page)
  /\ UNCHANGED <<page, terms, events, edits>>

-----------------------------------------------------------------------------
(* Applying *)

Named(ts, name) == First(LAMBDA term : term.name = name, ts)

Event(term, title, starts, ends) == [term |-> term, title |-> title, starts |-> starts, ends |-> ends]

\* One change that was approved, on the terms and events as they are.
Change(state, change) ==
  LET n == Named(state.terms, change.name)
  IN  IF n = None THEN state
      ELSE CASE change.field = "startsOn" /\ state.terms[n].starts = change.current ->
                  [state EXCEPT !.terms[n].starts = change.proposed]
             [] change.field = "endsOn" /\ state.terms[n].ends = change.current ->
                  [state EXCEPT !.terms[n].ends = change.proposed]
             [] change.field \in {"classEndsOn", "examStartsOn"}
                  /\ ~\E e \in ToSet(state.events) : e.term = n /\ e.title = change.field /\ e.starts = change.proposed ->
                  [state EXCEPT !.events = Append(@, Event(n, change.field, change.proposed, change.proposed))]
             [] OTHER -> state

\* The first term a day off begins in.
Within(ts, days) == First(LAMBDA term : term.name # None /\ days[1] \in term.starts .. term.ends, ts)

LastDay(days) == IF days[2] = None THEN days[1] ELSE days[2]

\* Mutant of Holiday: a day off is added without looking whether it is there.
HolidayAgain(state, days) ==
  LET n == Within(state.terms, days)
      ends == LastDay(days)
  IN  IF n = None \/ ends < days[1] THEN state
      ELSE [state EXCEPT !.events = Append(@, Event(n, "noClass", days[1], ends))]

\* A day off belongs to the first term it is in, and is there once.
Holiday(state, days) ==
  LET n == Within(state.terms, days)
      ends == LastDay(days)
  IN  IF n = None \/ ends < days[1] \/ \E e \in ToSet(state.events) : e.term = n /\ e.starts = days[1] /\ e.ends = ends
      THEN state
      ELSE [state EXCEPT !.events = Append(@, Event(n, "noClass", days[1], ends))]

\* The changes in the order they are listed, then the days off.
Applied(state, changes, holidays) == FoldLeft(Holiday, FoldLeft(Change, state, changes), holidays)

Orders(set) == {list \in [1 .. Cardinality(set) -> set] : \A a, b \in DOMAIN list : a # b => list[a] # list[b]}

ApplyDiff ==
  \E changes \in SUBSET shown.changes, holidays \in SUBSET shown.holidays :
    \E ordered \in Orders(changes), days \in Orders(holidays) :
      /\ changes # {} \/ holidays # {}
      /\ LET state == Applied([terms |-> terms, events |-> events], ordered, days)
         IN  terms' = state.terms /\ events' = state.events
      /\ UNCHANGED <<page, shown, edits>>

-----------------------------------------------------------------------------
(* The student's own edits *)

\* A term from the bundle, with its days off; setup may be run again.
Onboard(n) ==
  /\ edits < MaxEdits /\ edits' = edits + 1
  /\ terms' = Append(terms, [name |-> Bundled[n].name, starts |-> Bundled[n].starts, ends |-> Bundled[n].ends])
  /\ events' = events \o [d \in DOMAIN Bundled[n].holidays |->
                           LET days == Bundled[n].holidays[d]
                           IN  Event(Len(terms) + 1, "noClass", days[1], LastDay(days))]
  /\ UNCHANGED <<page, shown>>

EditTerm(n, name, starts, ends) ==
  /\ edits < MaxEdits /\ edits' = edits + 1
  /\ terms[n].name # None /\ starts < ends
  /\ terms' = [terms EXCEPT ![n] = [name |-> name, starts |-> starts, ends |-> ends]]
  /\ UNCHANGED <<page, shown, events>>

\* The events of a term that is deleted stay, without a term.
DeleteTerm(n) ==
  /\ edits < MaxEdits /\ edits' = edits + 1
  /\ terms[n].name # None
  /\ terms' = [terms EXCEPT ![n].name = None]
  /\ events' = [e \in DOMAIN events |-> IF events[e].term = n THEN [events[e] EXCEPT !.term = None] ELSE events[e]]
  /\ UNCHANGED <<page, shown>>

Next == \/ Publish \/ Refresh \/ ApplyDiff
        \/ \E n \in DOMAIN Bundled : Onboard(n)
        \/ \E n \in DOMAIN terms :
             \/ \E starts, ends \in Day, b \in DOMAIN Bundled : EditTerm(n, Bundled[b].name, starts, ends)
             \/ DeleteTerm(n)

Spec == Init /\ [][Next]_vars

-----------------------------------------------------------------------------
(* Properties *)

\* Approving the same differences again changes nothing, whatever the student did before: a second
\* approval, as after an error in making the plan, neither moves a date further nor doubles an event.
ApplyingTwiceIsOnce ==
  \A changes \in SUBSET shown.changes, holidays \in SUBSET shown.holidays :
    \A ordered \in Orders(changes), days \in Orders(holidays) :
      LET once == Applied([terms |-> terms, events |-> events], ordered, days)
      IN  Applied(once, ordered, days) = once
=============================================================================
