------------------------------ MODULE Reminders ------------------------------
(***************************************************************************)
(* The reminder thread: twice a minute it looks for study blocks about to  *)
(* start, writes down that it reminds of them and shows the notifications. *)
(* The plan underneath changes meanwhile: a plan made anew deletes the     *)
(* open blocks with what is written down of them, a block moved by hand    *)
(* keeps it.  told is what the student has heard, kept by no code.         *)
(***************************************************************************)
EXTENDS Integers, FiniteSets

CONSTANTS Block, None, Day, QuietStart, QuietEnd, Window, Leads, Snoozes, MaxTime, MaxChanges

VARIABLES now, blocks, deliveries, lead, changes, told

vars == <<now, blocks, deliveries, lead, changes, told>>

\* lead is 0 while notifications are off.
Init == /\ now = 0
        /\ blocks = <<>>
        /\ deliveries = <<>>
        /\ lead = 0
        /\ changes = 0
        /\ told = {}

TypeOK == /\ now \in 0 .. MaxTime
          /\ lead \in Leads \union {0}
          /\ DOMAIN deliveries \subseteq DOMAIN blocks /\ DOMAIN blocks \subseteq Block
          /\ \A b \in DOMAIN blocks : blocks[b] \in [starts : 0 .. MaxTime, completed : BOOLEAN, locked : BOOLEAN]
          /\ \A b \in DOMAIN deliveries : deliveries[b].dismissed \in BOOLEAN

Without(f, S) == [x \in DOMAIN f \ S |-> f[x]]

\* f, with Value(x) for every x of S, which may be new.
With(f, S, Value(_)) == [x \in DOMAIN f \union S |-> IF x \in S THEN Value(x) ELSE f[x]]

Row(starts, snoozed, dismissed) == [starts |-> starts, snoozed |-> snoozed, dismissed |-> dismissed]

InQuietHours(time) ==
  IF QuietStart <= QuietEnd THEN time \in QuietStart .. QuietEnd - 1
                            ELSE time >= QuietStart \/ time < QuietEnd

\* Mutant of Due: a row that was not snoozed does not stop the next look.
DueUnlessSnoozed(b) ==
  /\ ~blocks[b].completed
  /\ blocks[b].starts \in now - Window .. now + lead
  /\ b \in DOMAIN deliveries /\ deliveries[b].starts = blocks[b].starts =>
       ~deliveries[b].dismissed /\ (deliveries[b].snoozed = None \/ deliveries[b].snoozed <= now)

Due(b) ==
  /\ ~blocks[b].completed
  /\ blocks[b].starts \in now - Window .. now + lead
  /\ b \in DOMAIN deliveries /\ deliveries[b].starts = blocks[b].starts =>
       ~deliveries[b].dismissed /\ deliveries[b].snoozed # None /\ deliveries[b].snoozed <= now

TakeDueReminders == {b \in DOMAIN blocks : lead > 0 /\ ~InQuietHours(now % Day) /\ Due(b)}

\* What is due is written down as given before the first of it is shown.
Tick ==
  /\ TakeDueReminders # {}
  /\ deliveries' = With(deliveries, TakeDueReminders, LAMBDA b : Row(blocks[b].starts, None, FALSE))
  /\ told' = told \union TakeDueReminders
  /\ UNCHANGED <<now, blocks, lead, changes>>

Snooze(b, length) ==
  /\ ~blocks[b].completed
  /\ deliveries' = With(deliveries, {b}, LAMBDA x : Row(blocks[x].starts, now + length, FALSE))
  /\ told' = told \ {b}
  /\ UNCHANGED <<now, blocks, lead, changes>>

Dismiss(b) ==
  /\ deliveries' = With(deliveries, {b}, LAMBDA x : Row(blocks[x].starts, None, TRUE))
  /\ told' = told \union {b}
  /\ UNCHANGED <<now, blocks, lead, changes>>

UpdateSettings(length) ==
  /\ length # lead
  /\ lead' = length
  /\ UNCHANGED <<now, blocks, deliveries, changes, told>>

Change == changes < MaxChanges /\ changes' = changes + 1 /\ UNCHANGED <<now, lead>>

\* Mutant of Regenerate: the rows of deliveries stay when their blocks are deleted.
RegenerateKeepsRows(effective, plan) ==
  /\ Change
  /\ LET open == {b \in DOMAIN blocks : ~blocks[b].locked /\ ~blocks[b].completed /\ blocks[b].starts >= effective}
     IN  /\ DOMAIN plan \intersect DOMAIN blocks \subseteq open
         /\ \A b \in DOMAIN plan : plan[b] >= effective
         /\ blocks' = With(Without(blocks, open), DOMAIN plan,
                           LAMBDA b : [starts |-> plan[b], completed |-> FALSE, locked |-> FALSE])
         /\ told' = told \ open
  /\ UNCHANGED deliveries

\* The rows of deliveries go with their blocks.
Regenerate(effective, plan) ==
  /\ Change
  /\ LET open == {b \in DOMAIN blocks : ~blocks[b].locked /\ ~blocks[b].completed /\ blocks[b].starts >= effective}
     IN  /\ DOMAIN plan \intersect DOMAIN blocks \subseteq open
         /\ \A b \in DOMAIN plan : plan[b] >= effective
         /\ blocks' = With(Without(blocks, open), DOMAIN plan,
                           LAMBDA b : [starts |-> plan[b], completed |-> FALSE, locked |-> FALSE])
         /\ deliveries' = Without(deliveries, open)
         /\ told' = told \ open

MoveBlock(b, s) ==
  /\ Change
  /\ ~blocks[b].completed
  /\ s >= now
  /\ blocks' = [blocks EXCEPT ![b].starts = s, ![b].locked = TRUE]
  /\ told' = told \ {b}
  /\ UNCHANGED deliveries

ToggleTask(b) ==
  /\ Change
  /\ blocks' = [blocks EXCEPT ![b].completed = ~@]
  /\ UNCHANGED <<deliveries, told>>

Wait == now < MaxTime /\ now' = now + 1 /\ UNCHANGED <<blocks, deliveries, lead, changes, told>>

Next == \/ Tick
        \/ \E b \in DOMAIN blocks : \/ \E length \in Snoozes : Snooze(b, length)
                                    \/ Dismiss(b)
                                    \/ \E s \in now .. MaxTime : MoveBlock(b, s)
                                    \/ ToggleTask(b)
        \/ \E length \in Leads \union {0} : UpdateSettings(length)
        \/ \E effective \in {now} : \E S \in SUBSET Block : \E plan \in [S -> effective .. MaxTime] :
              Regenerate(effective, plan)
        \/ Wait

Spec == Init /\ [][Next]_vars

\* As long as the student neither moves nor replans a block, a reminder of it comes once,
\* however often the thread runs, the program starts anew, notifications are turned off and
\* on or the task is ticked off and back; never after it was dismissed; and again only when
\* the student asks for it later.
RemindedOnce == told \intersect TakeDueReminders = {}
=============================================================================
