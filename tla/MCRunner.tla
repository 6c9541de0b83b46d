------------------------------- MODULE MCRunner -------------------------------
(***************************************************************************)
(* Instances of Runners for TLC: two callers of one command each or one     *)
(* caller of two, and a sweep of two checks.                                *)
(***************************************************************************)
EXTENDS Runners

CONSTANTS a, b

StepsTwoOne == [c \in Callers |-> IF c = a THEN 2 ELSE 1]

Together == {<<a, 1>>, <<b, 1>>}
InTurn == {<<a, 1>>, <<a, 2>>}
TogetherOrInTurn == {Together, InTurn}
=============================================================================
