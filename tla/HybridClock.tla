----------------------------- MODULE HybridClock -----------------------------
(***************************************************************************)
(* The hybrid logical clock every canonical mutation is stamped with       *)
(* (main.rs, next_hybrid_logical_timestamp and                             *)
(* observe_hybrid_logical_timestamp).                                      *)
(*                                                                         *)
(* The code prints a timestamp as "{physical:013}-{counter:010}-{device}"  *)
(* and compares the strings.  With zero padded fields that order is the    *)
(* lexicographic order of physical time, counter and device, which is what *)
(* Before says; devices (UUID strings in the code) are numbers here so     *)
(* that they have the order the string comparison gives them.              *)
(***************************************************************************)
EXTENDS Naturals

CONSTANT MaxCounter    \* u32::MAX in the code

ASSUME MaxCounterAssumption == MaxCounter \in Nat

\* The two clock settings of a profile, hlc_physical_ms and hlc_counter.
Clock == [physical : Nat, counter : 0 .. MaxCounter]

InitialClock == [physical |-> 0, counter |-> 0]

\* The order of two readings of one clock.
ClockBefore(a, b) ==
  \/ a.physical < b.physical
  \/ a.physical = b.physical /\ a.counter < b.counter

ClockAtMost(a, b) == a = b \/ ClockBefore(a, b)

\* next_hybrid_logical_timestamp: the wall clock reads now.
Tick(clock, now) ==
  IF now > clock.physical
  THEN [physical |-> now, counter |-> 0]
  ELSE [physical |-> clock.physical,
        counter  |-> IF clock.counter < MaxCounter   \* saturating_add
                     THEN clock.counter + 1
                     ELSE MaxCounter]

\* Mutant of Observe: a downloaded timestamp does not move the local clock.
IgnoreRemote(clock, remote) == clock

\* observe_hybrid_logical_timestamp: a downloaded mutation carries remote.
Observe(clock, remote) ==
  IF ClockBefore(clock, remote)
  THEN [physical |-> remote.physical, counter |-> remote.counter]
  ELSE clock

-----------------------------------------------------------------------------
\* A mutation's key is its timestamp with the author's identity as a suffix.
Key(Device) == [physical : Nat, counter : 0 .. MaxCounter, device : Device]

KeyOf(clock, device) ==
  [physical |-> clock.physical, counter |-> clock.counter, device |-> device]

ReadingOf(key) == [physical |-> key.physical, counter |-> key.counter]

\* (hlc, device_id) < (hlc, device_id)
Before(a, b) ==
  \/ ClockBefore(a, b)
  \/ a.physical = b.physical /\ a.counter = b.counter /\ a.device < b.device

\* Mutant of AtMost: the device does not break ties.
AtMostByClock(a, b) == ~ClockBefore(b, a)

AtMost(a, b) == a = b \/ Before(a, b)
=============================================================================
