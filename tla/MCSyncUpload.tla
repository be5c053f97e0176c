---------------------------- MODULE MCSyncUpload ----------------------------
(***************************************************************************)
(* Finite instances of SyncUpload.                                         *)
(***************************************************************************)
EXTENDS SyncUpload, TLC

\* Computers are interchangeable: only their identities are ordered.
ComputerSymmetry == Permutations(Computer)
=============================================================================
