------------------------------ MODULE VerifyRunner ------------------------------
(***************************************************************************)
(* The runner of a project's checks (verify-runner.js): one shell command   *)
(* after another, each the leader of a process group.  A check that is      *)
(* timed out is asked to end and then killed, an interrupt kills at once;   *)
(* whatever happens to a check is a result, and the next one runs.          *)
(***************************************************************************)
EXTENDS Naturals, Sequences, ProcessGroup

CONSTANTS
  Checks,    \* how many commands the sweep has
  Rests      \* what may be left in the background

VerifyRunnerConstants == Checks \in Nat /\ Rests \subseteq Backgrounds

VARIABLES
  results,   \* the results so far, each with what had happened to the command
  check,     \* the command that runs
  group,     \* its processes
  proc       \* this process and its trap

vars == <<results, check, group, proc>>

Statuses == {"passed", "failed", "timed-out", "error"}

Idle == [step |-> "idle", late |-> FALSE, timer |-> FALSE, kill |-> FALSE]

TypeOK ==
  /\ results \in Seq([status : Statuses, group : Group, late : BOOLEAN])
  /\ Len(results) <= Checks
  /\ check \in [step : {"idle", "live", "broken"}, late : BOOLEAN, timer : BOOLEAN, kill : BOOLEAN]
  /\ group \in Group
  /\ proc \in [alive : BOOLEAN, trap : BOOLEAN]
  /\ check.step = "idle" => check = Idle /\ group = NoGroup

Init ==
  /\ results = <<>>
  /\ check = Idle
  /\ group = NoGroup
  /\ proc = [alive |-> TRUE, trap |-> FALSE]

Result(status, g, late) == Append(results, [status |-> status, group |-> g, late |-> late])

\* Mutation of Settle: the trap stays.
SettleTrapped(status) ==
  /\ results' = Result(status, group, check.late)
  /\ check' = Idle /\ group' = NoGroup
  /\ UNCHANGED proc

\* A check has its result; its timers and its trap go.
Settle(status) ==
  /\ results' = Result(status, group, check.late)
  /\ check' = Idle /\ group' = NoGroup
  /\ proc' = [proc EXCEPT !.trap = FALSE]

MayStart == proc.alive /\ check.step = "idle" /\ Len(results) < Checks

\* A worktree that is not there, or a shell that throws, is a result as well.
CannotStart ==
  /\ MayStart
  /\ results' = Result("error", NoGroup, FALSE)
  /\ UNCHANGED <<check, group, proc>>

Starts ==
  /\ MayStart
  /\ \/ /\ check' = [Idle EXCEPT !.step = "live", !.timer = TRUE]
        /\ \E deaf \in BOOLEAN, rest \in Rests : group' = Spawned(deaf, rest)
     \/ check' = [Idle EXCEPT !.step = "broken", !.timer = TRUE] /\ UNCHANGED group
  /\ proc' = [proc EXCEPT !.trap = TRUE]
  /\ UNCHANGED results

OnError ==
  /\ proc.alive /\ check.step = "broken"
  /\ Settle("error")

StatusOf ==
  IF check.late THEN "timed-out"
  ELSE IF group.code = "signal" THEN "error" ELSE IF group.code = "ok" THEN "passed" ELSE "failed"

\* Mutation of OnClose: the result is taken when the command exits.
OnExit ==
  /\ proc.alive /\ check.step = "live" /\ group.child = "exited"
  /\ Settle(StatusOf)

\* A check is over when nobody can write to its pipes any more.
OnClose ==
  /\ proc.alive /\ check.step = "live" /\ Closed(group)
  /\ Settle(StatusOf)

\* Mutation of TimesOut: no escalation.
TimesOutOnce ==
  /\ proc.alive /\ check.timer
  /\ check' = [check EXCEPT !.late = TRUE, !.timer = FALSE]
  /\ group' = Asked(group)
  /\ UNCHANGED <<results, proc>>

TimesOut ==
  /\ proc.alive /\ check.timer
  /\ check' = [check EXCEPT !.late = TRUE, !.timer = FALSE, !.kill = TRUE]
  /\ group' = Asked(group)
  /\ UNCHANGED <<results, proc>>

KillTimer ==
  /\ proc.alive /\ check.kill
  /\ check' = [check EXCEPT !.kill = FALSE]
  /\ group' = Killed(group)
  /\ UNCHANGED <<results, proc>>

\* A signal ends the process; if it is trapped, the group is killed before.
Interrupt ==
  /\ proc.alive
  /\ proc' = [proc EXCEPT !.alive = FALSE]
  /\ group' = IF proc.trap THEN Killed(group) ELSE group
  /\ UNCHANGED <<results, check>>

ChildExits ==
  /\ group.child = "runs"
  /\ \E code \in Codes : group' = Exited(group, code)
  /\ UNCHANGED <<results, check, proc>>

RestEnds ==
  /\ group.child # "none" /\ group.rest # "none"
  /\ group' = Ended(group)
  /\ UNCHANGED <<results, check, proc>>

Handlers == OnError \/ OnClose \/ TimesOut \/ KillTimer

Next == CannotStart \/ Starts \/ Handlers \/ Interrupt \/ ChildExits \/ RestEnds

Spec == Init /\ [][Next]_vars

\* Node runs its handlers and timers, and the sweep goes on.
FairSpec == Spec /\ WF_vars(Handlers) /\ WF_vars(CannotStart \/ Starts)

-----------------------------------------------------------------------------
(* What the runner promises *)

\* The trap is set exactly as long as a check runs: never left behind for what
\* the command line does next.
TrapWhileChecking == proc.alive => (proc.trap <=> check.step # "idle")

\* A check passed only if it exited with 0, in time, and nobody could write any
\* more; one that failed has the same evidence.
ResultsAreComplete == \A i \in DOMAIN results :
  LET r == results[i]
  IN  r.status \in {"passed", "failed"} =>
        /\ ~r.late /\ Closed(r.group)
        /\ r.group.code = IF r.status = "passed" THEN "ok" ELSE "fail"

\* An interrupted sweep leaves nothing of the check at work (the repository's README.md:61: it
\* kills the command's whole process group before it exits).
NothingSurvivesInterrupt == ~proc.alive => ~Survives(group)

\* The sweep is finished, with a result for every check, or interrupted: no
\* result, a timeout or a missing worktree either, ends it.
SweepEnds == <>(Len(results) = Checks \/ ~proc.alive)
=============================================================================
