------------------------------- MODULE Planner -------------------------------
(***************************************************************************)
(* planner.rs: the offline planner, a function from what is known of the   *)
(* tasks, the commitments and the blocks of the last plan to a new plan.   *)
(* Times are in units of a fixed length and Granule of them are the five   *)
(* minutes the planner counts in.  Locations and courses are numbers, 0 an *)
(* unknown one; reason codes and titles are left out.                      *)
(***************************************************************************)
EXTENDS Integers, SequencesExt

CONSTANTS Granule, Day, Noon, Evening, HorizonDays, Rules, SleepStart, SleepEnd,
          MaxSession, MinSession, Break, Transition, Skipped, None

Sleep == -1

Later(a, b) == IF a > b THEN a ELSE b

Precedes(a, b) == \E i \in DOMAIN a : a[i] < b[i] /\ \A j \in 1 .. i - 1 : a[j] = b[j]

\* What f says, and of the rest what g says.
Over(f, g) == [x \in DOMAIN f \union DOMAIN g |-> IF x \in DOMAIN f THEN f[x] ELSE g[x]]

With(f, x, v) == Over([y \in {x} |-> v], f)

RoundUp(t) == Granule * ((t + Granule - 1) \div Granule)

HorizonEnd(floor) == floor + HorizonDays * Day

Occupied(s, e, location, course) == [start |-> s, end |-> e, location |-> location, course |-> course]

\* Mutant of Overlap: only an end inside what is occupied counts.
OverlapsStart(s, e, item) == s <= item.start /\ e > item.start

Overlap(s, e, item) == s < item.end /\ e > item.start

-----------------------------------------------------------------------------
(* The windows of the horizon *)

LocalTime(date, time) == date * Day + time

RulesOf(date) == {r \in Rules : r.weekday = date % 7}

\* A night's end is in the morning after, if it is not later the same day.
MorningAfter(date) == LocalTime(IF SleepEnd <= SleepStart THEN date + 1 ELSE date, SleepEnd)

\* The local times looked up for a plan: the availability of its dates, and its nights, of
\* which the first is the one before.
LocalTimes(floor) ==
  LET first == floor \div Day
  IN  UNION {UNION {{LocalTime(d, r.starts), LocalTime(d, r.ends)} : r \in RulesOf(d)} : d \in first .. first + HorizonDays}
      \union UNION {{LocalTime(d, SleepStart), MorningAfter(d)} : d \in first - 1 .. first + HorizonDays}

\* A local time that a clock change skips makes the whole plan fail.
SkipsAny(floor) == LocalTimes(floor) \cap Skipped # {}

AvailabilityIntervals(floor) ==
  {i \in {[start |-> Later(LocalTime(o[1], o[2].starts), floor),
           end |-> Min({LocalTime(o[1], o[2].ends), HorizonEnd(floor)})] :
            o \in {o \in (floor \div Day .. floor \div Day + HorizonDays) \X Rules : o[2].weekday = o[1] % 7}} :
     i.end > i.start}

ConstraintIntervals(constraints, floor) ==
  {i \in {Occupied(Later(c.starts - c.before, floor), Min({c.ends + c.after, HorizonEnd(floor)}), c.location, 0) :
            c \in constraints} : i.end > i.start}

SleepIntervals(floor) ==
  {i \in {Occupied(Later(LocalTime(d, SleepStart), floor),
                   Min({MorningAfter(d), HorizonEnd(floor)}),
                   Sleep, 0) :
            d \in floor \div Day - 1 .. floor \div Day + HorizonDays} : i.end > i.start}

-----------------------------------------------------------------------------
(* The blocks of the last plan *)

Preserved(b, floor) == b.completed \/ b.locked \/ b.starts < floor

PreservedIntervals(existing, floor) ==
  {Occupied(b.starts, b.ends + Transition, b.location, b.course) : b \in {b \in existing : Preserved(b, floor)}}

Minutes(bs) == MapThenSumSet(LAMBDA b : b.ends - b.starts, bs)

PreservedMinutes(existing, t, floor) ==
  Minutes({b \in existing : b.task = t /\ (b.completed \/ (b.locked /\ b.ends > floor))})

\* The blocks of a task in the order in which its sessions are compared with them.
Stable(existing, t) ==
  SetToSortSeq({b \in existing : b.task = t}, LAMBDA a, b : Precedes(<<a.starts>> \o a.id, <<b.starts>> \o b.id))

-----------------------------------------------------------------------------
(* The sessions of a task *)

TaskKey(t) ==
  <<IF t.due = None THEN 1 ELSE 0, IF t.due = None THEN 0 ELSE t.due, -t.priority, -t.risk, t.id>>

\* Of rest, split into granules and what is left of one, those with the given numbers.
Shares(rest, numbers) == MapThenSumSet(LAMBDA k : Min({Granule, rest - k * Granule}), numbers)

\* No session at all: the limits cannot be met.
SplitSessions(t, remaining) ==
  LET maximum == Later(Min({t.max, MaxSession}), Granule)
      minimum == Min({Max({t.min, MinSession, Granule}), maximum})
      most == (remaining + maximum - 1) \div maximum
      count == Max({c \in 1 .. most : c = 1 \/ remaining \div c >= minimum})
      base == ((remaining \div count) \div Granule) * Granule
      rest == remaining - base * count
      sessions == [i \in 1 .. count |->
        base + Shares(rest, {k \in 0 .. rest : k % count = i - 1 /\ k * Granule < rest})]
  IN  IF ~t.splittable THEN <<remaining>>
      ELSE IF \A i \in 1 .. count : sessions[i] \in minimum .. maximum THEN sessions ELSE <<>>

EnergyPenalty(demand, time) ==
  LET available == IF time % Day < Noon THEN 2 ELSE IF time % Day < Evening THEN 1 ELSE 0
  IN  (demand - available) * (IF demand > available THEN 1 ELSE -1)

\* Where a session may go: inside a window, before the deadline, on nothing occupied.
FeasibleStarts(t, minutes, from, floor, occupied) ==
  {s \in UNION {RoundUp(Later(a.start, from)) .. Min({a.end, HorizonEnd(floor)}) - minutes :
                  a \in AvailabilityIntervals(floor)} :
     /\ s % Granule = 0
     /\ t.due # None => s + minutes <= t.due
     /\ \A item \in occupied : ~Overlap(s, s + minutes, item)}

Score(t, s, minutes, occupied, stable, index, low) ==
  LET before == {item \in occupied : item.end <= s}
      previous == CHOOSE item \in before :
                    \A other \in before \ {item} :
                       ~Precedes(<<item.end, item.start, item.location>>, <<other.end, other.start, other.location>>)
      stays == index \in DOMAIN stable /\ stable[index].starts = s /\ stable[index].ends = s + minutes
  IN  <<IF stays THEN 0 ELSE 1,
        IF low THEN 2 * t.energy ELSE EnergyPenalty(t.energy, s),
        IF before = {} \/ t.location = 0 \/ previous.location \in {0, t.location} THEN 0 ELSE 1,
        IF before = {} \/ previous.course = t.course THEN 0 ELSE 1,
        IF t.due = None THEN 0 ELSE s + minutes - t.due,
        s>>

\* A block keeps the identifier of any block of its task in the same slot; another one
\* is named after its task, its index and its start.
SessionId(t, index, s, e, stable) ==
  LET same == {i \in DOMAIN stable : stable[i].starts = s /\ stable[i].ends = e}
  IN  IF same # {} THEN stable[Min(same)].id ELSE <<t.id, index, s>>

-----------------------------------------------------------------------------
(* The plan.  st is the plan so far: its blocks, the minutes that find no place, *)
(* what is occupied, the tasks left and when each of the others is done.         *)

Unscheduled(st, t, minutes, why) ==
  [st EXCEPT !.conflicts = @ \union {[task |-> t, minutes |-> minutes, why |-> why]}]

\* Session index of a task goes to begin.  at is the plan so far, where the next session may
\* start, the minutes left, and whether every session found a place.
PutSession(t, index, begin, minutes, stable, at) ==
  LET end == begin + minutes
      free == end + Later(Break, Transition)
      block == [id |-> SessionId(t, index, begin, end, stable), task |-> t.id, starts |-> begin, ends |-> end]
  IN  [plan |-> [at.plan EXCEPT !.blocks = @ \union {block},
                                !.occupied = @ \union {Occupied(begin, free, t.location, t.course)}],
       from |-> free, left |-> at.left - minutes, placed |-> TRUE]

\* The start of the best rank.
Best(t, starts, minutes, index, stable, low, occupied) ==
  LET rank(s) == Score(t, s, minutes, occupied, stable, index, low)
  IN  CHOOSE s \in starts : \A other \in starts \ {s} : Precedes(rank(s), rank(other))

\* One session of a task is placed, at the best of its feasible starts.
PlaceSession(t, minutes, starts, index, stable, low, at) ==
  IF ~at.placed \/ starts = {} THEN [at EXCEPT !.placed = FALSE]
  ELSE PutSession(t, index, Best(t, starts, minutes, index, stable, low, at.plan.occupied), minutes, stable, at)

\* Every session found a place, and the task is done when its last block ends; or one did not.
PlacedAll(t, at) ==
  IF at.placed
  THEN [at.plan EXCEPT !.done = With(@, t.id, Max({b.ends : b \in {b \in at.plan.blocks : b.task = t.id}}))]
  ELSE Unscheduled(at.plan, t.id, at.left, "capacity")

\* The sessions in their order, until one finds no place.
Place(t, sessions, from, floor, remaining, stable, low, st) ==
  LET after[n \in 0 .. Len(sessions)] ==
        IF n = 0 THEN [plan |-> st, from |-> from, left |-> remaining, placed |-> TRUE]
        ELSE LET at == after[n - 1]
             IN  PlaceSession(t, sessions[n], FeasibleStarts(t, sessions[n], at.from, floor, at.plan.occupied),
                              n, stable, low, at)
  IN  PlacedAll(t, after[Len(sessions)])

Schedule(t, existing, floor, low, st) ==
  LET remaining == Later(t.duration - PreservedMinutes(existing, t.id, floor), 0)
      sessions == SplitSessions(t, remaining)
      from == Max({floor, IF t.earliest = None THEN floor ELSE t.earliest} \union {st.done[d] : d \in t.dependencies})
      taken == [st EXCEPT !.pending = @ \ {t}]
  IN  CASE remaining = 0 -> [taken EXCEPT !.done = With(@, t.id, floor)]
        [] remaining > 0 /\ sessions = <<>> -> Unscheduled(taken, t.id, remaining, "limits")
        [] OTHER -> Place(t, sessions, from, floor, remaining, Stable(existing, t.id), low, taken)

Ready(st) == {t \in st.pending : t.dependencies \subseteq DOMAIN st.done}

\* The first of the tasks whose dependencies are done is scheduled.
ScheduleFirst(existing, floor, low, st) ==
  LET first == CHOOSE t \in Ready(st) : \A other \in Ready(st) \ {t} : Precedes(TaskKey(t), TaskKey(other))
  IN  IF Ready(st) = {} THEN st ELSE Schedule(first, existing, floor, low, st)

\* What is pending waits for what is never done.
Waiting(st) ==
  [st EXCEPT !.conflicts = @ \union {[task |-> t.id, minutes |-> t.duration, why |-> "dependency"] : t \in st.pending}]

Plan(existing, floor, low, st) ==
  LET after[n \in 0 .. Cardinality(st.pending)] ==
        IF n = 0 THEN st ELSE ScheduleFirst(existing, floor, low, after[n - 1])
  IN  Waiting(after[Cardinality(st.pending)])

\* The new plan: blocks and conflicts.
Generate(tasks, constraints, existing, effective, low) ==
  LET floor == RoundUp(effective)
  IN  Plan(existing, floor, low,
           [blocks |-> {}, conflicts |-> {},
            occupied |-> ConstraintIntervals(constraints, floor) \union SleepIntervals(floor)
                           \union PreservedIntervals(existing, floor),
            pending |-> {t \in tasks : ~t.completed},
            done |-> [d \in {t.id : t \in {t \in tasks : t.completed}} |-> floor]])
=============================================================================
