--------------------------- MODULE MCDesktopParts ---------------------------
(***************************************************************************)
(* DesktopParts with finite sets of everything: days of twelve units, a    *)
(* granule of two, two tasks and one commitment to plan; two bundled terms *)
(* and two pages of a school's calendar.                                   *)
(***************************************************************************)
EXTENDS DesktopParts, TLC

MCRules == {[weekday |-> 0, starts |-> 2, ends |-> 10], [weekday |-> 1, starts |-> 3, ends |-> 8]}

MCTask(id, minutes, by, dependencies) ==
  [id |-> id, duration |-> minutes, due |-> by, earliest |-> None, priority |-> id, risk |-> 0,
   energy |-> 3 - id, location |-> id, course |-> id, splittable |-> TRUE, min |-> 2, max |-> 4,
   dependencies |-> dependencies, completed |-> FALSE]

MCShapes == <<{MCTask(1, 6, None, {}), MCTask(1, 5, 9, {2})},
              {MCTask(2, 4, 10, {}), [MCTask(2, 3, None, {1}) EXCEPT !.splittable = FALSE, !.earliest = 3]}>>

MCConstraint(number, s, e, pad) ==
  [number |-> number, starts |-> s, ends |-> e, before |-> pad, after |-> pad, location |-> 2]

MCCommitments == <<{MCConstraint(1, 4, 5, 1)}>>
MCClasses == {MCConstraint(2, 15, 16, 0)}

MCTerm(name, begin, marker, holidays) ==
  [name |-> name, session |-> marker, starts |-> begin, ends |-> begin + 2,
   others |-> [classEndsOn |-> begin + 1, examStartsOn |-> begin + 2], holidays |-> holidays]

MCRow(label, marker, s, e) == [label |-> label, session |-> marker, starts |-> s, ends |-> e]

MCPages == {{MCRow("startsOn", None, 4, None), MCRow("startsOn", "a", 2, None), MCRow("noClass", None, 5, 6)},
            {MCRow("endsOn", "b", 5, None), MCRow("classEndsOn", "b", 4, None), MCRow("noClass", None, 2, None),
             MCRow("noClass", None, 5, None), MCRow("other", None, 5, None)}}

MCBundled == <<MCTerm("A", 1, "a", <<>>), MCTerm("B", 4, "b", <<<<5, None>>>>)>>

\* Where a part may begin in several ways, it does so only when it moves.
MCInit ==
  /\ PartsInit
  /\ part # "review" => source = [t1 |-> 1, m1 |-> 1]
  /\ part # "ai" => order = <<"p", "q">>
  /\ part # "key" => windows /\ database = 0
  /\ part # "school" => \E line \in calendarPage : line.label = "other"
  /\ part # "upgrade" => version = 0

MCSpec == MCInit /\ [][PartsNext]_partsVars
=============================================================================
