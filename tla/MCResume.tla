------------------------------- MODULE MCResume -------------------------------
(***************************************************************************)
(* Instances of Resume for TLC.  Operators are interchangeable.            *)
(***************************************************************************)
EXTENDS Resume, TLC

Symmetry == Permutations(Resumers)
=============================================================================
