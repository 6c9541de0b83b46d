-------------------------------- MODULE MCStart --------------------------------
(* A root with its children, and two runtime processes. *)
EXTENDS Start, TLC

CONSTANTS api, web

TwoProcesses == <<api, web>>
=============================================================================
