------------------------------- MODULE PinGate -------------------------------
(***************************************************************************)
(* The PIN of the program.  Its record is one file, replaced in steps that *)
(* may fail or be cut short by a stop; the next start tidies up before it  *)
(* looks whether there is a PIN.  Several unlock commands may be under way *)
(* at once, which the attempts lock lets look at their PIN one by one; a   *)
(* settings command runs alone.  A file is a set, empty when absent.       *)
(***************************************************************************)
EXTENDS Integers

CONSTANTS Pin, None, Caller, MaxDelay, MaxTime, MaxStops, MaxFailures

VARIABLES file, previous, temporary,
          locked, running,
          command,   \* the settings command under way: its next step, the record it leaves, and
                     \* whether the failed attempts are forgotten with it
          unrestored, \* the last command could neither move its record in nor the old one back
          callers,   \* per unlock command: the PIN entered, the record read, and how far it is
          failed, retryAt, holder,
          now,
          expected,  \* the PINs the student may find, kept by no code
          stops, failures

files == <<file, previous, temporary>>
throttle == <<failed, retryAt, holder>>
vars == <<files, locked, running, command, unrestored, callers, throttle, now, expected, stops, failures>>

NoCommand == [step |-> "none", result |-> {}, resets |-> FALSE]
Waiting == [phase |-> "idle", entered |-> None, read |-> None]

Init == /\ file = {} /\ previous = {} /\ temporary = {}
        /\ locked = FALSE /\ running = TRUE
        /\ command = NoCommand /\ unrestored = FALSE
        /\ callers = [c \in Caller |-> Waiting]
        /\ failed = 0 /\ retryAt = -1 /\ holder = None
        /\ now = 0
        /\ expected = {{}}
        /\ stops = 0 /\ failures = 0

Record == {{}} \union {{p} : p \in Pin}

TypeOK == /\ {file, previous, temporary} \subseteq Record
          /\ {locked, running, command.resets, unrestored} \subseteq BOOLEAN
          /\ command.step \in {"none", "clear", "aside", "place", "tidy", "drop", "dropOld"}
          /\ holder \in Caller \union {None}
          /\ expected \subseteq Record

-----------------------------------------------------------------------------
(* Settings: a new record is written beside, the old one moved aside, the new *)
(* one moved in and the old one deleted.                                      *)

Begin(step, result, resets, also) ==
  /\ running /\ ~locked /\ command = NoCommand
  /\ command' = [step |-> step, result |-> result, resets |-> resets]
  /\ expected' = {file, result} \union also
  /\ unrestored' = FALSE
  /\ UNCHANGED <<locked, running, callers, throttle, now, stops, failures>>

\* A record that an earlier command could not delete comes back when this one, or a disabling,
\* is cut short before it has.
EnablePin(p) == file = {} /\ temporary' = {p} /\ Begin("clear", {p}, FALSE, {previous}) /\ UNCHANGED <<file, previous>>

\* The present PIN has been entered correctly.
ChangePin(p) == file # {} /\ temporary' = {p} /\ Begin("clear", {p}, TRUE, {}) /\ UNCHANGED <<file, previous>>

DisablePin == file # {} /\ Begin("drop", {}, TRUE, {previous}) /\ UNCHANGED files

Goes(step) == command' = [command EXCEPT !.step = step]

\* Changed and disabled alike, the failed attempts are forgotten; without a PIN the program is unlocked.
Succeeds ==
  /\ command' = NoCommand
  /\ expected' = {command.result}
  /\ IF command.step = "tidy" THEN UNCHANGED locked ELSE locked' = FALSE

Step ==
  /\ \/ /\ command.step = "clear"
        /\ previous' = {} /\ Goes("aside") /\ UNCHANGED <<file, temporary, locked, expected>>
     \/ /\ command.step = "aside"
        /\ previous' = file /\ file' = {} /\ Goes("place") /\ UNCHANGED <<temporary, locked, expected>>
     \/ /\ command.step = "place"
        /\ file' = temporary /\ temporary' = {} /\ Goes("tidy") /\ UNCHANGED <<previous, locked, expected>>
     \/ /\ command.step = "drop"
        /\ file' = {} /\ Goes("dropOld") /\ UNCHANGED <<previous, temporary, locked, expected>>
     \/ /\ command.step \in {"tidy", "dropOld"}
        /\ previous' = {} /\ Succeeds /\ UNCHANGED <<file, temporary>>
  /\ IF command'.step = "none" /\ command.resets
     THEN holder = None /\ failed' = 0 /\ retryAt' = -1
     ELSE UNCHANGED <<failed, retryAt>>
  /\ UNCHANGED <<running, unrestored, callers, holder, now, stops, failures>>

\* The record could not be moved in: the old one is moved back, and the new one removed.  Both may
\* fail in their turn, which nobody is told.
TakesBack ==
  /\ \/ file' = previous /\ previous' = {} /\ UNCHANGED unrestored
     \/ previous # {} /\ unrestored' = TRUE /\ UNCHANGED <<file, previous>>
  /\ temporary' \in {{}, temporary}

StepFails ==
  /\ command # NoCommand
  /\ failures < MaxFailures /\ failures' = failures + 1
  /\ command' = NoCommand
  /\ IF command.step = "place" THEN TakesBack ELSE UNCHANGED <<files, unrestored>>
  /\ UNCHANGED <<locked, running, callers, throttle, now, expected, stops>>

LockApp ==
  /\ running /\ ~locked /\ file # {}
  /\ locked' = TRUE
  /\ UNCHANGED <<files, running, command, unrestored, callers, throttle, now, expected, stops, failures>>

-----------------------------------------------------------------------------
(* Unlocking *)

\* The record is read before the attempts lock is taken.
UnlockWithPin(c, p) ==
  /\ running /\ callers[c] = Waiting
  /\ \/ file = {} /\ locked' = FALSE /\ UNCHANGED callers
     \/ \E record \in file : callers' = [callers EXCEPT ![c] = [phase |-> "asked", entered |-> p, read |-> record]]
                              /\ UNCHANGED locked
  /\ UNCHANGED <<files, running, command, unrestored, throttle, now, expected, stops, failures>>

MayTry(c) == holder = None /\ callers[c].phase = "asked"

CheckDelay(c) ==
  /\ running /\ MayTry(c)
  /\ IF retryAt >= now
     THEN callers' = [callers EXCEPT ![c] = Waiting] /\ UNCHANGED holder
     ELSE callers' = [callers EXCEPT ![c].phase = "verifying"] /\ holder' = c
  /\ UNCHANGED <<files, locked, running, command, unrestored, failed, retryAt, now, expected, stops, failures>>

Delay(n) == 2 ^ (IF n < MaxDelay THEN n ELSE MaxDelay)

Verify(c) ==
  /\ running /\ callers[c].phase = "verifying"
  /\ IF callers[c].entered = callers[c].read
     THEN failed' = 0 /\ retryAt' = -1 /\ locked' = FALSE
     ELSE failed' = failed + 1 /\ retryAt' = now + Delay(failed) /\ UNCHANGED locked
  /\ holder' = None
  /\ callers' = [callers EXCEPT ![c] = Waiting]
  /\ UNCHANGED <<files, running, command, unrestored, now, expected, stops, failures>>

-----------------------------------------------------------------------------
Stop ==
  /\ running /\ stops < MaxStops /\ stops' = stops + 1
  /\ running' = FALSE
  /\ command' = NoCommand
  /\ callers' = [c \in Caller |-> Waiting]
  /\ failed' = 0 /\ retryAt' = -1 /\ holder' = None
  /\ UNCHANGED <<files, locked, unrestored, now, expected, failures>>

\* Mutant of Found: a start does not look for a record that was moved aside.
FoundInPlace == file

\* What a start takes for the record.
Found == IF file = {} THEN previous ELSE file

Start ==
  /\ ~running /\ running' = TRUE
  /\ file' = Found /\ previous' = {} /\ temporary' = {}
  /\ locked' = (file' # {})
  /\ unrestored' = FALSE
  /\ UNCHANGED <<command, callers, throttle, now, expected, stops, failures>>

\* A start that cannot tidy up ends: with nothing done, or with a record left beside.
StartFails ==
  /\ ~running
  /\ failures < MaxFailures /\ failures' = failures + 1
  /\ file' = Found /\ previous' = {}
  /\ UNCHANGED <<temporary, locked, running, command, unrestored, callers, throttle, now, expected, stops>>

Wait == now < MaxTime /\ now' = now + 1
        /\ UNCHANGED <<files, locked, running, command, unrestored, callers, throttle, expected, stops, failures>>

Next == \/ \E p \in Pin : EnablePin(p) \/ ChangePin(p) \/ \E c \in Caller : UnlockWithPin(c, p)
        \/ DisablePin \/ Step \/ StepFails \/ LockApp
        \/ \E c \in Caller : CheckDelay(c) \/ Verify(c)
        \/ Stop \/ Start \/ StartFails \/ Wait

Spec == Init /\ [][Next]_vars

-----------------------------------------------------------------------------
\* Whatever step fails and whenever the program stops, the PIN that is in force, and the one
\* that a start would find, is the one before the last settings command or the one it asked
\* for, or the last one an earlier command could not delete: never another one, and never none
\* instead of one.  Only when neither the new record could be moved in nor the old one back does
\* the program run on without a PIN; the next start finds it again.
PinIsKept ==
  /\ Found \in expected
  /\ running /\ command = NoCommand => file \in expected \/ (unrestored /\ file = {} /\ previous # {})

\* However many unlock commands are under way, n wrong PINs in a row take the sum of the
\* first n - 1 delays at least; they double up to the longest.
WrongPinsTakeTime == failed \in 1 .. MaxDelay + 2 => now >= 2 ^ (failed - 1) - 1
=============================================================================
