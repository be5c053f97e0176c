-------------------------- MODULE MCCanonicalMerge --------------------------
(***************************************************************************)
(* Finite instances of CanonicalMerge.  Functions are definitions because  *)
(* a cfg cannot write one.                                                 *)
(***************************************************************************)
EXTENDS CanonicalMerge

\* A record whose foreign key may not be null and the row it names, and one
\* whose foreign key may be null and the row it may name.
CONSTANTS child, parent, referrer, target

\* The wall clocks agree, or each computer's is ahead of the one before.
SameWall == [d \in Device |-> {1}]
SkewedWall == [d \in Device |-> {d}]

ParentOf == [e \in Entity |-> IF e = child THEN parent ELSE None]
NamedBy == [e \in Entity |-> IF e = referrer THEN target ELSE None]
=============================================================================
