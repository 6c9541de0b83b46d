-------------------------------- MODULE MCMerge --------------------------------
(* Two repositories; the second may be a clone, where the second commit of the *)
(* run conflicts with the commit of others.                                   *)
EXTENDS Merge, TLC

CONSTANTS a, b

TwoRepositories == <<a, b>>
OneConflict == {<<b, 2, 1>>}
=============================================================================
