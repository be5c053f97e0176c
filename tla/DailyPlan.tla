------------------------------ MODULE DailyPlan ------------------------------
(***************************************************************************)
(* The plan kept in the profile: tasks, commitments and the blocks of the  *)
(* last plan, changed by the student's commands.  An edit is saved first   *)
(* and the plan is made anew from it; a plan that cannot be made leaves    *)
(* the edit saved and the old blocks in place.  A block that the student   *)
(* moves by hand keeps its identifier and is locked.                       *)
(***************************************************************************)
EXTENDS Planner

CONSTANTS Shapes,       \* what a task may be edited into: its number -> a set of task records
          Commitments,  \* what a commitment may be: its number -> a set of constraints
          Classes,      \* the class meetings of the term, constraints with a number
          Lengths,      \* the lengths a block is given by hand
          Instants,     \* the moments at which the student acts or plans from
          MaxEdits, MaxMoves

VARIABLES now, tasks, commitments, blocks, undo, edits, moves

vars == <<now, tasks, commitments, blocks, undo, edits, moves>>

Unplaced == [block |-> None]

Init == /\ now = 0
        /\ tasks = <<>>
        /\ commitments = <<>>
        /\ blocks = <<>>
        /\ undo = Unplaced
        /\ edits = 0
        /\ moves = 0

Without(f, S) == [x \in DOMAIN f \ S |-> f[x]]

-----------------------------------------------------------------------------
(* A snapshot for the planner, and the plan it makes *)

Study(bs) == {id \in DOMAIN bs : bs[id].task # None}

ClassesFrom(effective) == {c \in Classes : c.ends > effective /\ c.starts < HorizonEnd(effective)}

\* The dates whose class times are looked up.
ClassDates(effective) == effective \div Day .. HorizonEnd(effective) \div Day

\* A plan cannot be made when a clock change skips a time of a class or one the planner looks up.
CannotPlan(effective) ==
  \/ \E c \in Classes : c.starts \div Day \in ClassDates(effective) /\ {c.starts, c.ends} \cap Skipped # {}
  \/ SkipsAny(RoundUp(effective))

FixedConstraints(cs, effective) == {cs[c] : c \in DOMAIN cs} \union ClassesFrom(effective)

Existing(ts, bs) ==
  {[id |-> id, task |-> bs[id].task, starts |-> bs[id].starts, ends |-> bs[id].ends,
    completed |-> bs[id].completed, locked |-> bs[id].locked,
    location |-> ts[bs[id].task].location, course |-> ts[bs[id].task].course] : id \in Study(bs)}

Snapshot(ts, cs, bs, effective, low) ==
  Generate({ts[t] : t \in DOMAIN ts}, FixedConstraints(cs, effective), Existing(ts, bs), effective, low)

\* What is planned becomes blocks; an identifier that is kept keeps its marks.
Saved(planned, kept, bs) ==
  [id \in {b.id : b \in planned} |->
     LET b == CHOOSE b \in planned : b.id = id
     IN  [task |-> b.task, starts |-> b.starts, ends |-> b.ends,
          completed |-> id \in kept /\ bs[id].completed,
          locked |-> id \in kept /\ bs[id].locked]]

\* The blocks after a plan has been made: the open ones from the effective time on go,
\* and what is planned is written over whatever bears its identifier.
Replanned(ts, cs, bs, effective, low) ==
  LET kept == {id \in Study(bs) : bs[id].locked \/ bs[id].completed \/ bs[id].starts < effective}
      Fixed(c) == [task |-> None, starts |-> c.starts, ends |-> c.ends, completed |-> FALSE, locked |-> TRUE]
      fixed == [id \in {<<0, c.number, 0>> : c \in FixedConstraints(cs, effective)} |->
                  Fixed(CHOOSE c \in FixedConstraints(cs, effective) : c.number = id[2])]
  IN  Over(Saved(Snapshot(ts, cs, bs, effective, low).blocks, kept, bs), Over(fixed, [id \in kept |-> bs[id]]))

\* Every command that ends in regenerate_plan: what it saved, and the plan made from it.
Regenerate(ts, cs, bs, effective, low) ==
  /\ tasks' = ts
  /\ commitments' = cs
  /\ blocks' = IF CannotPlan(effective) THEN bs ELSE Replanned(ts, cs, bs, effective, low)

Edit == edits < MaxEdits /\ edits' = edits + 1 /\ UNCHANGED <<now, undo, moves>>

-----------------------------------------------------------------------------
(* The student's commands *)

SaveTask(t, shape) ==
  /\ Edit
  /\ Regenerate(With(tasks, t, [shape EXCEPT !.completed = t \in DOMAIN tasks /\ tasks[t].completed]),
                commitments, blocks, now, FALSE)

DeleteTask(t) ==
  /\ Edit
  /\ t \in DOMAIN tasks
  /\ LET ts == [u \in DOMAIN tasks \ {t} |-> [tasks[u] EXCEPT !.dependencies = @ \ {t}]]
     IN  Regenerate(ts, commitments, Without(blocks, {id \in Study(blocks) : blocks[id].task = t}), now, FALSE)

SaveCommitment(c, constraint) ==
  /\ Edit
  /\ Regenerate(tasks, With(commitments, c, constraint), blocks, now, FALSE)

DeleteCommitment(c) ==
  /\ Edit
  /\ c \in DOMAIN commitments
  /\ Regenerate(tasks, Without(commitments, {c}), Without(blocks, {<<0, c, 0>>}), now, FALSE)

\* The student says when the plan is to start from, which may be later than now.
Replan(effective, low) ==
  /\ Edit
  /\ Regenerate(tasks, commitments, blocks, effective, low)

Open(id) == id \in Study(blocks) /\ ~blocks[id].completed

SetLock(id, locked) ==
  /\ Edit
  /\ Open(id) /\ blocks[id].ends > now
  /\ Regenerate(tasks, commitments, [blocks EXCEPT ![id].locked = locked], now, FALSE)

MovePlanBlock(id, s, e) ==
  /\ moves < MaxMoves
  /\ moves' = moves + 1
  /\ Open(id) /\ s >= now
  /\ \A other \in DOMAIN blocks \ {id} :
        ~blocks[other].completed => ~(blocks[other].starts < e /\ blocks[other].ends > s)
  /\ undo' = [block |-> id, starts |-> blocks[id].starts, ends |-> blocks[id].ends, locked |-> blocks[id].locked]
  /\ blocks' = [blocks EXCEPT ![id].starts = s, ![id].ends = e, ![id].locked = TRUE]
  /\ UNCHANGED <<now, tasks, commitments, edits>>

UndoCalendarChange ==
  /\ undo.block # None
  /\ Open(undo.block)
  /\ blocks' = [blocks EXCEPT ![undo.block].starts = undo.starts, ![undo.block].ends = undo.ends,
                              ![undo.block].locked = undo.locked]
  /\ undo' = Unplaced
  /\ UNCHANGED <<now, tasks, commitments, edits, moves>>

ToggleTask(t) ==
  /\ Edit
  /\ t \in DOMAIN tasks
  /\ tasks' = [tasks EXCEPT ![t].completed = ~@]
  /\ blocks' = [id \in DOMAIN blocks |->
                  IF blocks[id].task = t THEN [blocks[id] EXCEPT !.completed = ~tasks[t].completed] ELSE blocks[id]]
  /\ UNCHANGED commitments

Wait == now' \in {i \in Instants : i > now} /\ UNCHANGED <<tasks, commitments, blocks, undo, edits, moves>>

Next == \/ \E t \in DOMAIN Shapes : \E shape \in Shapes[t] : SaveTask(t, shape)
        \/ \E c \in DOMAIN Commitments : \E constraint \in Commitments[c] : SaveCommitment(c, constraint)
        \/ \E t \in DOMAIN Shapes : DeleteTask(t) \/ ToggleTask(t)
        \/ \E c \in DOMAIN Commitments : DeleteCommitment(c)
        \/ \E effective \in Instants, low \in BOOLEAN : Replan(effective, low)
        \/ \E id \in Study(blocks) : \/ \E locked \in BOOLEAN : SetLock(id, locked)
                                     \/ \E s \in now .. HorizonEnd(now), length \in Lengths :
                                          s % Granule = 0 /\ MovePlanBlock(id, s, s + length)
        \/ UndoCalendarChange
        \/ Wait

Spec == Init /\ [][Next]_vars

-----------------------------------------------------------------------------
(* What a plan promises *)

Proposed == Snapshot(tasks, commitments, blocks, now, FALSE)

Unfinished == {t \in DOMAIN tasks : ~tasks[t].completed}

\* A session lies in an hour of availability and out of sleep, after its earliest start and
\* before its deadline, and it meets no commitment with its travel, no kept block and no other
\* session; two sessions of a task have a pause between them, and none comes before one of a
\* task it depends on.
CanBeFollowed(plan) ==
  \A b \in plan.blocks :
    /\ b.starts >= now
    /\ \E o \in (0 .. now + HorizonDays) \X Rules :
          /\ o[2].weekday = o[1] % 7
          /\ LocalTime(o[1], o[2].starts) <= b.starts
          /\ b.ends <= LocalTime(o[1], o[2].ends)
    /\ \A time \in b.starts .. b.ends - 1 :
          IF SleepStart < SleepEnd THEN time % Day \notin SleepStart .. SleepEnd - 1
                                   ELSE time % Day \in SleepEnd .. SleepStart - 1
    /\ tasks[b.task].due # None => b.ends <= tasks[b.task].due
    /\ tasks[b.task].earliest # None => b.starts >= tasks[b.task].earliest
    /\ \A c \in FixedConstraints(commitments, now) : b.ends <= c.starts - c.before \/ b.starts >= c.ends + c.after
    /\ \A id \in Study(blocks) :
          Preserved(blocks[id], RoundUp(now)) =>
            b.ends <= blocks[id].starts \/ b.starts >= blocks[id].ends + Transition
    /\ \A other \in plan.blocks \ {b} :
          LET pause == IF other.task = b.task THEN Later(Break, Transition) ELSE 0
          IN  b.ends + pause <= other.starts \/ other.ends + pause <= b.starts
    /\ \A other \in plan.blocks : other.task \in tasks[b.task].dependencies => other.ends <= b.starts

MissingMinutes(conflicts) == MapThenSumSet(LAMBDA c : c.minutes, conflicts)

\* Every minute of an unfinished task that no kept block stands for is either planned or
\* told as one that found no place; of a task that waits for another one all of them are.
AccountsForAll(plan) ==
  \A t \in Unfinished :
    LET planned == Minutes({b \in plan.blocks : b.task = t})
        told == {c \in plan.conflicts : c.task = t}
        missing == MissingMinutes(told)
        kept == PreservedMinutes(Existing(tasks, blocks), t, RoundUp(now))
    IN  IF \E c \in told : c.why = "dependency" THEN planned = 0 /\ missing = tasks[t].duration
        ELSE planned + missing = Later(tasks[t].duration - kept, 0)

\* A plan made at any moment is one the student can follow, and says what found no place.
PlanIsSound(plan) == (~CannotPlan(now) => CanBeFollowed(plan)) /\ AccountsForAll(plan)

PlanHolds == PlanIsSound(Proposed)
=============================================================================
