--------------------------------- MODULE Runner ---------------------------------
(***************************************************************************)
(* The runner of git and Herdr commands (process.js): every command leads a *)
(* process group of its own; a run that is timed out, and a command line    *)
(* that is interrupted, signal the whole group and kill it later.           *)
(*                                                                         *)
(* Callers make their runs one after another.  Node's events and timers are *)
(* actions: a child's exit and the end of its pipes are seen later than     *)
(* they happen, and timers fire in any order.                               *)
(***************************************************************************)
EXTENDS Naturals, FiniteSets, ProcessGroup

CONSTANTS
  Callers,      \* who make runs
  Steps,        \* how many runs a caller makes
  Timed,        \* the callers whose runs have a limit
  Rests,        \* what may be left in the background
  MayFail,      \* whether a command may fail to start
  MaxSignals,   \* bound: interrupts
  None

Calls == UNION {{c} \X (1..Steps[c]) : c \in Callers}

ASSUME RunnerConstants ==
  /\ Steps \in [Callers -> Nat]
  /\ Timed \subseteq Callers /\ Rests \subseteq Backgrounds
  /\ MayFail \in BOOLEAN /\ MaxSignals \in Nat

VARIABLES
  run,      \* the state of each run
  group,    \* its processes
  proc,     \* this process, its trap and its timer
  signals   \* interrupts so far

vars == <<run, group, proc, signals>>

Outcomes == Codes \cup {"timeout", "spawn"}

ASSUME NoneIsNoOutcome == None \notin Outcomes

NewRun == [step |-> "off", out |-> None, late |-> FALSE, exited |-> FALSE,
           timer |-> FALSE, kill |-> FALSE, drain |-> FALSE]

Run == [step : {"off", "live", "broken", "settled"}, out : Outcomes \cup {None},
        late : BOOLEAN, exited : BOOLEAN, timer : BOOLEAN, kill : BOOLEAN, drain : BOOLEAN]

TypeOK ==
  /\ run \in [Calls -> Run]
  /\ group \in [Calls -> Group]
  /\ proc \in [alive : BOOLEAN, trap : BOOLEAN, shutting : BOOLEAN]
  /\ signals \in 0..MaxSignals
  /\ \A r \in Calls : run[r].step \in {"off", "settled"} =>
       ~run[r].timer /\ ~run[r].kill /\ ~run[r].drain

Init ==
  /\ run = [r \in Calls |-> NewRun]
  /\ group = [r \in Calls |-> NoGroup]
  /\ proc = [alive |-> TRUE, trap |-> FALSE, shutting |-> FALSE]
  /\ signals = 0

IsLive(r) == run[r].step \in {"live", "broken"}

LiveChildren == {r \in Calls : IsLive(r)}

\* What the process does when the last child has answered: an interrupted one
\* ends, another gives its trap up.
Released(rest) ==
  IF rest # {} THEN proc
  ELSE IF proc.shutting THEN [proc EXCEPT !.alive = FALSE]
  ELSE [proc EXCEPT !.trap = FALSE]

\* Mutation of HandsBack: also while an interrupt drains.
HandsBackAlways == TRUE

HandsBack == ~proc.shutting

\* The end of a run.  While an interrupt drains, nothing is handed to the caller.
Settle(r, out) ==
  /\ run' = [run EXCEPT ![r] = [@ EXCEPT
       !.step = "settled", !.timer = FALSE, !.kill = FALSE, !.drain = FALSE,
       !.out = IF HandsBack THEN out ELSE None]]
  /\ proc' = Released(LiveChildren \ {r})

\* Mutation of OutcomeOf: the child's own exit decides.
OutcomeOfExit(r) ==
  IF run[r].exited THEN group[r].code ELSE IF run[r].late THEN "timeout" ELSE "fail"

\* A run past its limit has timed out, however its child has exited.
OutcomeOf(r) == IF run[r].late THEN "timeout" ELSE group[r].code

-----------------------------------------------------------------------------
(* Runs *)

MayCall(r) ==
  /\ proc.alive /\ run[r].step = "off"
  /\ r[2] > 1 => run[<<r[1], r[2] - 1>>].out # None

\* Mutation of Tracks: the trap is set by the first run only.
TracksFirst == [proc EXCEPT !.trap = @ \/ \A r \in Calls : run[r].step = "off"]

\* A live child keeps the trap set.
Tracks == [proc EXCEPT !.trap = TRUE]

Spawns(r) ==
  /\ MayCall(r)
  /\ \E deaf \in BOOLEAN, rest \in Rests : group' = [group EXCEPT ![r] = Spawned(deaf, rest)]
  /\ run' = [run EXCEPT ![r].step = "live", ![r].timer = r[1] \in Timed]
  /\ proc' = Tracks
  /\ UNCHANGED signals

\* The command cannot be started: an exception, or an event that comes later.
SpawnFails(r) ==
  /\ MayFail /\ MayCall(r)
  /\ \/ run' = [run EXCEPT ![r].step = "settled", ![r].out = "spawn"] /\ UNCHANGED proc
     \/ run' = [run EXCEPT ![r].step = "broken", ![r].timer = r[1] \in Timed] /\ proc' = Tracks
  /\ UNCHANGED <<group, signals>>

OnError(r) ==
  /\ proc.alive /\ run[r].step = "broken"
  /\ Settle(r, "spawn")
  /\ UNCHANGED <<group, signals>>

\* Once a run is late, the exit of the child starts the wait for what is still
\* in the pipes.
OnExit(r) ==
  /\ proc.alive /\ run[r].step = "live" /\ group[r].child = "exited" /\ ~run[r].exited
  /\ run' = [run EXCEPT ![r].exited = TRUE, ![r].drain = @ \/ run[r].late]
  /\ UNCHANGED <<group, proc, signals>>

OnClose(r) ==
  /\ proc.alive /\ run[r].step = "live" /\ run[r].exited /\ Closed(group[r])
  /\ Settle(r, OutcomeOf(r))
  /\ UNCHANGED <<group, signals>>

\* Mutation of TimesOut: always with a grace.
TimesOutGently(r) ==
  /\ proc.alive /\ run[r].timer
  /\ run' = [run EXCEPT ![r].late = TRUE, ![r].timer = FALSE, ![r].kill = ~run[r].exited]
  /\ group' = [group EXCEPT ![r] = Asked(@)]
  /\ UNCHANGED <<proc, signals>>

\* The group is asked to end; if the child has gone already, it is killed.
TimesOut(r) ==
  /\ proc.alive /\ run[r].timer
  /\ IF run[r].exited
     THEN /\ run' = [run EXCEPT ![r].late = TRUE, ![r].timer = FALSE, ![r].drain = TRUE]
          /\ group' = [group EXCEPT ![r] = Killed(@)]
     ELSE /\ run' = [run EXCEPT ![r].late = TRUE, ![r].timer = FALSE, ![r].kill = TRUE]
          /\ group' = [group EXCEPT ![r] = Asked(@)]
  /\ UNCHANGED <<proc, signals>>

KillTimer(r) ==
  /\ proc.alive /\ run[r].kill
  /\ run' = [run EXCEPT ![r].kill = FALSE, ![r].drain = TRUE]
  /\ group' = [group EXCEPT ![r] = Killed(@)]
  /\ UNCHANGED <<proc, signals>>

\* The run is over, whoever still has the pipes.
Drains(r) ==
  /\ proc.alive /\ run[r].drain
  /\ Settle(r, OutcomeOf(r))
  /\ UNCHANGED <<group, signals>>

-----------------------------------------------------------------------------
(* Interrupts *)

\* The end of an interrupted process.
Dies ==
  /\ group' = [r \in Calls |-> IF IsLive(r) THEN Killed(group[r]) ELSE group[r]]
  /\ proc' = [proc EXCEPT !.alive = FALSE]

\* Without a trap the signal ends the process; the first signal that is trapped
\* is passed on, the second kills.
Interrupt ==
  /\ proc.alive /\ signals < MaxSignals
  /\ signals' = signals + 1
  /\ \/ ~proc.trap /\ proc' = [proc EXCEPT !.alive = FALSE] /\ UNCHANGED group
     \/ proc.trap /\ proc.shutting /\ Dies
     \/ /\ proc.trap /\ ~proc.shutting
        /\ proc' = [proc EXCEPT !.shutting = TRUE]
        /\ group' = [r \in Calls |-> IF IsLive(r) THEN Asked(group[r]) ELSE group[r]]
  /\ UNCHANGED run

\* Mutation of Escalates: if everybody has answered.
EscalatesLater ==
  /\ proc.alive /\ proc.shutting
  /\ \A r \in LiveChildren : Closed(group[r])
  /\ Dies
  /\ UNCHANGED <<run, signals>>

\* The timer of an interrupt waits for nobody.
Escalates ==
  /\ proc.alive /\ proc.shutting
  /\ Dies
  /\ UNCHANGED <<run, signals>>

-----------------------------------------------------------------------------
(* The processes *)

ChildExits(r) ==
  /\ group[r].child = "runs"
  /\ \E code \in Codes : group' = [group EXCEPT ![r] = Exited(@, code)]
  /\ UNCHANGED <<run, proc, signals>>

RestEnds(r) ==
  /\ group[r].child # "none" /\ group[r].rest # "none"
  /\ group' = [group EXCEPT ![r] = Ended(@)]
  /\ UNCHANGED <<run, proc, signals>>

\* What a signal makes a process do that heeds it.
Heeds(r) ==
  /\ group[r].asked
  /\ \/ ~group[r].deaf /\ ChildExits(r)
     \/ group[r].rest \notin Deaf /\ RestEnds(r)

-----------------------------------------------------------------------------

Handlers(r) == OnError(r) \/ OnExit(r) \/ OnClose(r) \/ TimesOut(r) \/ KillTimer(r) \/ Drains(r)

Next ==
  \/ \E r \in Calls : Spawns(r) \/ SpawnFails(r) \/ Handlers(r) \/ ChildExits(r) \/ RestEnds(r)
  \/ Interrupt \/ Escalates

Spec == Init /\ [][Next]_vars

\* Node runs its handlers and timers; a process that heeds a signal ends.
FairSpec ==
  /\ Spec
  /\ \A r \in Calls : WF_vars(Handlers(r)) /\ WF_vars(Heeds(r))
  /\ WF_vars(Escalates)

-----------------------------------------------------------------------------
(* What the runner promises *)

\* The trap is set as long as a child is alive, and not longer; an interrupted
\* process keeps it (process.js: a trap that is left behind changes what Ctrl-C
\* does for the rest of the process).
TrapWhileLive == proc.alive => (proc.trap <=> (LiveChildren # {} \/ proc.shutting))

\* A run that succeeded was in time, its child exited with 0, and nobody could
\* write any more: what was captured is all there is.
OkIsComplete == \A r \in Calls :
  run[r].out = "ok" => ~run[r].late /\ group[r].code = "ok" /\ Closed(group[r])

\* A caller that waits when the process is interrupted is never handed anything,
\* and so makes no further step (process.js: no run may hand control back).
WaitersStay == [][
  \A r \in Calls : proc.shutting /\ IsLive(r) => run'[r].out = None]_vars

\* An interrupted process leaves no member of a live child's group behind.
NothingSurvivesInterrupt ==
  ~proc.alive => \A r \in LiveChildren : ~Survives(group[r])

\* A run with a limit settles, or the process ends.
SettlesInTime == \A r \in Calls :
  IsLive(r) /\ r[1] \in Timed ~> ~IsLive(r) \/ ~proc.alive

\* An interrupted process ends.
InterruptEnds == proc.shutting ~> ~proc.alive

\* What a timed-out command had started, and what heeds signals, ends with it;
\* the child itself ends whether it heeds them or not.
TimeoutEndsGroup == \A r \in Calls :
  run[r].out = "timeout" /\ group[r].rest \notin Deaf ~> ~Survives(group[r])

\* Nothing survives a run that was timed out (test/workflow-process.test.js:424).
NothingSurvivesTimeout == \A r \in Calls :
  run[r].out = "timeout" => ~Survives(group[r])

\* A command is killed by an interrupt only after the signal was passed on to it
\* (process.js: escalation comes only after forwarding).
ForwardedFirst == ~proc.alive => \A r \in LiveChildren :
  run[r].step = "live" => group[r].asked
=============================================================================
