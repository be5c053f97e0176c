----------------------------- MODULE RecordParts -----------------------------
(***************************************************************************)
(* The student's records and what is made of them, side by side: the plan, *)
(* the reminders, the review of what sources say, the records themselves,  *)
(* and the school's calendar, read and applied.  Variables and constants   *)
(* of one name in two parts get the part's name.                           *)
(***************************************************************************)
EXTENDS Integers, Sequences, FiniteSets, DesktopShared

CONSTANTS Granule, PlanDay, Noon, Evening, HorizonDays, Rules, SleepStart, SleepEnd, MaxSession, MinSession,
          Break, Transition, Skipped, TaskShapes, Commitments, Classes, Lengths, Instants, MaxPlanEdits, MaxMoves

VARIABLES planNow, tasks, commitments, planBlocks, undo, planEdits, moves
planVars == <<planNow, tasks, commitments, planBlocks, undo, planEdits, moves>>

Plan == INSTANCE DailyPlan WITH
  Shapes <- TaskShapes, Day <- PlanDay, MaxEdits <- MaxPlanEdits, now <- planNow, blocks <- planBlocks, edits <- planEdits

\* What a task that is saved is made of.
PlannedTask ==
  [id : Int, duration : Nat, due : Int \union {None}, earliest : Int \union {None}, priority : Int, risk : Int,
   energy : Int, location : Nat, course : Nat, splittable : BOOLEAN, min : Int, max : Int, dependencies : SUBSET Int,
   completed : BOOLEAN]

\* A commitment or a class ends after it begins, and takes time before and after.
IsConstraint(c) ==
  /\ c.starts \in Int /\ c.ends \in Int /\ c.starts < c.ends
  /\ c.before \in Nat /\ c.after \in Nat

\* What the planner is given.
ASSUME PlanAssumption ==
  /\ Granule \in Nat \ {0} /\ PlanDay \in Nat /\ Granule <= PlanDay /\ HorizonDays \in Nat
  /\ SleepStart \in 0 .. PlanDay - 1 /\ SleepEnd \in 0 .. PlanDay - 1
  /\ MaxSession \in Int /\ MinSession \in Int /\ Break \in Nat /\ Transition \in Nat
  /\ IsFiniteSet(Rules) /\ \A r \in Rules : r.starts \in Int /\ r.ends \in Int
  /\ \A t \in DOMAIN TaskShapes : \A shape \in TaskShapes[t] :
        shape \in PlannedTask /\ shape.id = t /\ IsFiniteSet(shape.dependencies)
  /\ \A c \in DOMAIN Commitments : \A constraint \in Commitments[c] : IsConstraint(constraint)
  /\ IsFiniteSet(Classes) /\ \A c \in Classes : IsConstraint(c)
  /\ Lengths \subseteq Nat \ {0} /\ Instants \subseteq Nat

-----------------------------------------------------------------------------
CONSTANTS Block, RemindDay, QuietStart, QuietEnd, Window, Leads, Snoozes, MaxRemindTime, MaxChanges

ASSUME RemindAssumption == MaxRemindTime \in Nat

VARIABLES remindNow, remindBlocks, deliveries, lead, changes, told
remindVars == <<remindNow, remindBlocks, deliveries, lead, changes, told>>

Remind == INSTANCE Reminders WITH
  Day <- RemindDay, MaxTime <- MaxRemindTime, now <- remindNow, blocks <- remindBlocks

-----------------------------------------------------------------------------
CONSTANTS Item, Meetings, Date, MaxCandidates, MaxReviewEdits

VARIABLES source, objects, candidates, conflicts, reviewRecords, courses, term, links, reviewEdits
reviewVars == <<source, objects, candidates, conflicts, reviewRecords, courses, term, links,
                reviewEdits>>

Review == INSTANCE ImportReview WITH
  MaxEdits <- MaxReviewEdits, records <- reviewRecords, edits <- reviewEdits

-----------------------------------------------------------------------------
CONSTANTS ProfileId, Term, Course, Task, Instructor, Meeting, EventId, MaxRecordEdits

VARIABLES recordRows, recordsUsed, form, recordEdits
recordsVars == <<recordRows, recordsUsed, form, recordEdits>>

Records == INSTANCE AcademicRecords WITH
  Profile <- ProfileId, Event <- EventId, MaxEdits <- MaxRecordEdits,
  rows <- recordRows, used <- recordsUsed, edits <- recordEdits

\* A record is of one kind, and a row is told from none.
ASSUME RecordsAssumption ==
  /\ Term \intersect (ProfileId \union Course \union Task \union Instructor \union Meeting \union EventId) = {}
  /\ Course \intersect (ProfileId \union Task \union Instructor \union Meeting \union EventId) = {}
  /\ Instructor \intersect (ProfileId \union Task \union Meeting \union EventId) = {}
  /\ Meeting \intersect (ProfileId \union Task \union EventId) = {}
  /\ ProfileId \intersect (Task \union EventId) = {} /\ Task \intersect EventId = {}
  /\ None \notin Records!Row
  /\ MaxRecordEdits \in Nat

-----------------------------------------------------------------------------
CONSTANTS SessionMark, Gap, LabelLines, MaxEntries, MaxLines

ASSUME ReadingAssumption ==
  /\ Gap \in Nat /\ LabelLines \in Nat /\ MaxEntries \in Nat
  /\ SessionMark \intersect {None, "text", "date", "nodate"} = {}

VARIABLES readPage, entries, parts, readPending, labelAt
readingVars == <<readPage, entries, parts, readPending, labelAt>>

Reading == INSTANCE CalendarPage WITH Session <- SessionMark, page <- readPage, pending <- readPending

-----------------------------------------------------------------------------
CONSTANTS Bundled, SchoolPage, SchoolDay, Slack, MaxSchoolEdits

VARIABLES calendarPage, calendarShown, terms, events, calendarEdits
schoolVars == <<calendarPage, calendarShown, terms, events, calendarEdits>>

School == INSTANCE SchoolCalendar WITH
  Page <- SchoolPage, Day <- SchoolDay, MaxEdits <- MaxSchoolEdits,
  page <- calendarPage, shown <- calendarShown, edits <- calendarEdits

\* The bundled terms have names and dates of their own; a page is finite.
ASSUME SchoolAssumption ==
  /\ \A n \in DOMAIN Bundled :
       /\ Bundled[n].starts \in Nat /\ Bundled[n].ends \in Nat
       /\ Bundled[n].holidays \in Seq({days \in Nat \X (Nat \union {None}) : days[2] = None \/ days[1] <= days[2]})
  /\ DOMAIN Bundled \subseteq Nat
  /\ \A n, m \in DOMAIN Bundled : Bundled[n].name = Bundled[m].name => n = m
  /\ \A rows \in SchoolPage :
       /\ IsFiniteSet(rows)
       /\ \A row \in rows : row.starts \in Nat /\ row.ends \in Nat \union {None}
  /\ SchoolDay \subseteq Nat /\ MaxSchoolEdits \in Nat
=============================================================================
