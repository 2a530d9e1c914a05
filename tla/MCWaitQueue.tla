----------------------------- MODULE MCWaitQueue -----------------------------
(***************************************************************************)
(* WaitQueue for TLC.  Readers are interchangeable and so are writers,     *)
(* which the safety run with two of each uses.                             *)
(***************************************************************************)
EXTENDS WaitQueue, TLC

Symmetry == Permutations(Readers) \cup Permutations(Writers)
=============================================================================
