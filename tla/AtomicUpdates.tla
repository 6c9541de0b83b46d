---------------------------- MODULE AtomicUpdates ----------------------------
(***************************************************************************)
(* What run-store.js promises its callers about run.json: an update is one *)
(* indivisible step.  It sees every update committed before it, and no     *)
(* committed update is ever lost.                                          *)
(***************************************************************************)
CONSTANT Updates    \* the updates that may be asked for, each at most once

VARIABLE record     \* run.json, as the set of updates it reflects

Init == record = {}

Commit(u) == u \notin record /\ record' = record \cup {u}

Next == \E u \in Updates : Commit(u)

Spec == Init /\ [][Next]_record
=============================================================================
