------------------------------ MODULE MCRunLock ------------------------------
(* Finite instances of RunLock. *)
EXTENDS RunLock, TLC
=============================================================================
