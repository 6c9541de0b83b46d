------------------------------ MODULE ProcessGroup ------------------------------
(***************************************************************************)
(* The processes of one command (process-group.js): the child, which leads  *)
(* a process group, and what it left in the background.                     *)
(***************************************************************************)

\* What a background process is like: whether it has the child's pipes, heeds
\* a signal, and has left the group.
Backgrounds == {"none", "plain", "quiet", "deaf", "quiet deaf", "left"}

HasPipes == {"plain", "deaf", "left"}

Deaf == {"deaf", "quiet deaf", "left"}

Codes == {"ok", "fail", "signal"}

Group == [child : {"none", "runs", "exited"}, deaf : BOOLEAN, code : Codes,
          rest : Backgrounds, asked : BOOLEAN]

NoGroup == [child |-> "none", deaf |-> FALSE, code |-> "fail", rest |-> "none", asked |-> FALSE]

Spawned(deaf, rest) == [NoGroup EXCEPT !.child = "runs", !.deaf = deaf, !.rest = rest]

\* A signal that a process can heed, or not.
Asked(g) == [g EXCEPT !.asked = TRUE]

\* Mutation of Killed: the signal goes to the child alone.
KilledAlone(g) ==
  [g EXCEPT !.child = IF @ = "runs" THEN "exited" ELSE @,
            !.code = IF g.child = "runs" THEN "signal" ELSE @]

\* One that it cannot, unless it has left the group.
Killed(g) ==
  [g EXCEPT !.child = IF @ = "runs" THEN "exited" ELSE @,
            !.code = IF g.child = "runs" THEN "signal" ELSE @,
            !.rest = IF @ = "left" THEN @ ELSE "none"]

\* A process that gets a signal ends in its own time, and with its own code.
Exited(g, code) == [g EXCEPT !.child = "exited", !.code = code]

Ended(g) == [g EXCEPT !.rest = "none"]

\* Nobody can write to the pipes any more.
Closed(g) == g.child # "runs" /\ g.rest \notin HasPipes

Survives(g) == g.child = "runs" \/ g.rest \notin {"none", "left"}
=============================================================================
