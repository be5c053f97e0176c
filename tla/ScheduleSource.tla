--------------------------- MODULE ScheduleSource ---------------------------
(***************************************************************************)
(* A picture of a schedule: what this computer read of it is offered for   *)
(* review, a company may be asked to read it again, and in the end the     *)
(* student keeps the picture or has it deleted.  What the company returns  *)
(* is known by its place in the answer, and replaces what is pending of an *)
(* earlier answer; a record is found again by the same place.              *)
(***************************************************************************)
EXTENDS Integers, Sequences, FiniteSets, SequencesExt

CONSTANTS Class,  \* the classes a reading can find
          None

VARIABLES stored,   \* whether the vault has the picture
          kept,     \* what the student decided about it, None before
          local,    \* whether this computer's own reading is still to be reviewed
          reading,  \* whether the window waits for a company's reading
          pending,  \* a place in the last answer -> the class to be reviewed there
          records   \* a place -> the class that was approved there last

vars == <<stored, kept, local, reading, pending, records>>

Answers == {answer \in UNION {[1 .. n -> Class] : n \in 0 .. Cardinality(Class)} : IsInjective(answer)}

\* The picture has just been brought in and read here.
Init == /\ stored = TRUE
        /\ kept = None
        /\ local = TRUE
        /\ reading = FALSE
        /\ pending = <<>>
        /\ records = <<>>

TypeOK == /\ stored \in BOOLEAN /\ local \in BOOLEAN /\ reading \in BOOLEAN
          /\ kept \in {None, "keep_encrypted", "delete_now"}
          /\ DOMAIN pending \subseteq 1 .. Cardinality(Class)
          /\ DOMAIN records \subseteq 1 .. Cardinality(Class)

Without(f, place) == [other \in DOMAIN f \ {place} |-> f[other]]

-----------------------------------------------------------------------------
\* The window does one thing at a time; a reading needs the picture itself.
ReadScheduleWithAi ==
  /\ ~reading /\ reading' = TRUE
  /\ stored
  /\ UNCHANGED <<stored, kept, local, pending, records>>

\* The answer takes the place of what is pending of an earlier one, in one transaction.
ReadingArrives(answer) ==
  /\ reading /\ reading' = FALSE
  /\ pending' = answer
  /\ UNCHANGED <<stored, kept, local, records>>

ReadingFails ==
  /\ reading /\ reading' = FALSE
  /\ UNCHANGED <<stored, kept, local, pending, records>>

ReviewLocal ==
  /\ ~reading
  /\ local /\ local' = FALSE
  /\ UNCHANGED <<stored, kept, reading, pending, records>>

Approve(place) ==
  /\ ~reading
  /\ records' = [other \in DOMAIN records \union {place} |->
                   IF other = place THEN pending[place] ELSE records[other]]
  /\ pending' = Without(pending, place)
  /\ UNCHANGED <<stored, kept, local, reading>>

Reject(place) ==
  /\ ~reading
  /\ pending' = Without(pending, place)
  /\ UNCHANGED <<stored, kept, local, reading, records>>

\* Mutant of SettleScheduleSource: a picture is deleted with something of it left to review.
SettleUnreviewed(decision) ==
  /\ ~reading
  /\ stored' = (stored /\ decision # "delete_now")
  /\ kept' = decision
  /\ UNCHANGED <<local, reading, pending, records>>

\* A picture is deleted when nothing of it is left to review, and deleting it twice is once.
SettleScheduleSource(decision) ==
  /\ ~reading
  /\ decision = "delete_now" => ~local /\ pending = <<>>
  /\ stored' = (stored /\ decision # "delete_now")
  /\ kept' = decision
  /\ UNCHANGED <<local, reading, pending, records>>

Next == \/ ReadScheduleWithAi
        \/ \E answer \in Answers : ReadingArrives(answer)
        \/ ReadingFails
        \/ ReviewLocal
        \/ \E place \in DOMAIN pending : Approve(place) \/ Reject(place)
        \/ \E decision \in {"keep_encrypted", "delete_now"} : SettleScheduleSource(decision)

Spec == Init /\ [][Next]_vars

-----------------------------------------------------------------------------
\* As long as something of a picture is to be reviewed, the picture is there to review it
\* against: no reading that was asked for before it was deleted comes after.
ReviewedAgainstItsSource == (local \/ DOMAIN pending # {}) => stored
=============================================================================
