------------------------------ MODULE MCHandoff ------------------------------
(***************************************************************************)
(* Instances of Handoff for TLC.  Submissions are interchangeable.         *)
(***************************************************************************)
EXTENDS Handoff, TLC

Symmetry == Permutations(Submitters)
=============================================================================
