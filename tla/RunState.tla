------------------------------- MODULE RunState -------------------------------
(***************************************************************************)
(* The state machine of a run record (run-state.js).  A run goes back to   *)
(* "running" from every state after "planned": finishing is not final.     *)
(***************************************************************************)

Settling == {"idle-awaiting-handoff", "needs-input", "completed", "blocked", "failed",
             "interrupted", "manual-handoff-required", "result-stale"}

RunStates == {"planned", "launching", "running"} \cup Settling

\* canTransition over the table ALLOWED; states with equal rows are together.
CanTransition(from, to) ==
  \/ from = "planned" /\ to \in {"launching", "failed"}
  \/ from = "launching" /\ to \in {"running", "failed", "interrupted"}
  \/ from = "running" /\ to \in Settling
  \/ from = "idle-awaiting-handoff" /\ to \in {"running"} \cup (Settling \ {from})
  \/ from = "needs-input" /\ to \in {"running", "interrupted", "result-stale"}
  \/ from \in {"completed", "blocked", "failed"} /\ to \in {"running", "result-stale"}
  \/ from \in {"interrupted", "manual-handoff-required", "result-stale"} /\ to = "running"

\* An update that names the current state is a plain merge; another state must
\* be a legal transition, or the update throws and writes nothing.
CanBecome(from, to) == from = to \/ CanTransition(from, to)

\* The states in which a structured handoff is accepted.
AcceptsHandoff(state) == state \in {"running", "idle-awaiting-handoff"}

\* The states a launcher may overwrite with its own outcome.
LaunchersOwn(state) == state \in {"planned", "launching"}
=============================================================================
