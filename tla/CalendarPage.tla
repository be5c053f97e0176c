---------------------------- MODULE CalendarPage ----------------------------
(***************************************************************************)
(* Reading a school's calendar page.  Without its tags the page is lines:  *)
(* labels, session markers, dates and values that stand where a date would *)
(* be.  A date belongs to the nearest label above it, through the session  *)
(* marker directly above it when there is one.  The page is read line by   *)
(* line; each page a step longer is another behaviour.                     *)
(***************************************************************************)
EXTENDS Integers, Sequences, SequencesExt

CONSTANTS Session,     \* the sessions a marker can name
          None,
          Gap,         \* a label further above than this is not a date's
          LabelLines,  \* a label has at most so many lines
          MaxEntries, MaxLines

\* A text line, a date, a date that no calendar has, or a marker.
Line == {"text", "date", "nodate"} \union Session

VARIABLES page, entries, parts, pending, labelAt

vars == <<page, entries, parts, pending, labelAt>>

NoLabel == -Gap - 2

Init == /\ page = <<>>
        /\ entries = <<>>
        /\ parts = <<>>       \* the lines of the label that is being collected
        /\ pending = None     \* the session of the marker directly above
        /\ labelAt = NoLabel

TypeOK == /\ page \in Seq(Line)
          /\ \A n \in DOMAIN entries : entries[n].at \in DOMAIN page
          /\ \A n \in DOMAIN parts : parts[n] \in DOMAIN page
          /\ pending \in Session \union {None}

Here == Len(page) + 1

\* The last lines of the label.
LabelOf(lines) == SubSeq(lines, IF Len(lines) > LabelLines THEN Len(lines) - LabelLines + 1 ELSE 1, Len(lines))

ReadMarker(line) ==
  /\ line \in Session
  /\ pending' = line
  /\ UNCHANGED <<entries, parts, labelAt>>

\* Mutant of ReadText: a value below a marker is taken for a label.
ReadTextAsLabel(line) ==
  /\ line = "text"
  /\ pending' = None
  /\ parts' = Append(IF Here - labelAt > 1 THEN <<>> ELSE parts, Here)
  /\ labelAt' = Here
  /\ UNCHANGED entries

\* A text directly below a marker is that session's value; other texts that follow each other are one label.
ReadText(line) ==
  /\ line = "text"
  /\ pending' = None
  /\ IF pending # None THEN UNCHANGED <<parts, labelAt>>
     ELSE /\ parts' = Append(IF Here - labelAt > 1 THEN <<>> ELSE parts, Here)
          /\ labelAt' = Here
  /\ UNCHANGED entries

ReadDate(line) ==
  /\ line \in {"date", "nodate"}
  /\ pending' = None
  /\ entries' = IF parts = <<>> \/ Here - labelAt > Gap \/ line = "nodate" \/ Len(entries) >= MaxEntries THEN entries
                ELSE Append(entries, [at |-> Here, label |-> LabelOf(parts), session |-> pending])
  /\ UNCHANGED <<parts, labelAt>>

Read(line) == /\ Len(page) < MaxLines
              /\ page' = Append(page, line)
              /\ ReadMarker(line) \/ ReadText(line) \/ ReadDate(line)

Next == \E line \in Line : Read(line)

Spec == Init /\ [][Next]_vars

-----------------------------------------------------------------------------
(* Properties *)

\* A line of a label: a text that is not the value of the session above it.
IsLabel(n) == page[n] = "text" /\ ~(n > 1 /\ page[n - 1] \in Session)

LabelsAbove(n) == {k \in 1 .. n - 1 : IsLabel(k)}

Nearest(n) == CHOOSE k \in LabelsAbove(n) : \A other \in LabelsAbove(n) : other <= k

\* Whether line k is in the label that the nearest line above line n ends.
InLabel(k, n) == \A between \in k .. Nearest(n) : IsLabel(between)

HasEntry(n) == page[n] = "date" /\ LabelsAbove(n) # {} /\ n - Nearest(n) <= Gap

\* What a page says is read as it is written: every date below a label has that label, of its last
\* lines only, and the session of the marker above it; a value in a date's place becomes nothing, and
\* no date is taken by a label of another row.
EntriesAsWritten ==
  /\ \A n \in DOMAIN entries : HasEntry(entries[n].at)
  /\ \A m, n \in DOMAIN entries : m < n => entries[m].at < entries[n].at
  /\ Len(entries) < MaxEntries => \A k \in DOMAIN page : HasEntry(k) => \E n \in DOMAIN entries : entries[n].at = k
  /\ \A n \in DOMAIN entries :
       LET at == entries[n].at
       IN  /\ ToSet(entries[n].label) = {k \in LabelsAbove(at) : InLabel(k, at) /\ k > Nearest(at) - LabelLines}
           /\ entries[n].session = (IF at > 1 /\ page[at - 1] \in Session THEN page[at - 1] ELSE None)
=============================================================================
