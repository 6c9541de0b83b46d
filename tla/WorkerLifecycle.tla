--------------------------- MODULE WorkerLifecycle ---------------------------
(***************************************************************************)
(* The launcher of a run and the lifecycle hooks of its worker sessions,   *)
(* which advance the same run record from different processes.             *)
(*                                                                         *)
(* Every locked update of run.json is one action here: RunLock shows that  *)
(* updates are atomic.  What is not atomic is everything around them.  A   *)
(* hook is a subprocess per event: it reads the record without the lock,   *)
(* decides, and then performs one or two locked updates, any of which may  *)
(* be refused because the lock is contended.  Handoff and Resume add the   *)
(* other writers of the record.                                            *)
(***************************************************************************)
EXTENDS Naturals, FiniteSets, RunState

CONSTANTS
  Sessions,             \* worker sessions: the launched one and relaunched ones
  First,                \* the session the launcher starts
  None,
  ContinuationPrompts,  \* does a Stop-block continuation fire UserPromptSubmit?
  Contention,           \* may a locked update be refused, or a hook be killed?
  MaxGeneration         \* bound: follow-ups

VARIABLES
  run,     \* run.json, as far as the lifecycle is concerned
  writer,  \* a process inside an updater that writes another file first
  launch,  \* the launcher: its step, and whether it saw the agent running
  at,      \* per session: what it does, or the step of the hook it waits for
  seen,    \* per session: what its hook has read and decided
  asked    \* history: continuations asked for in the current generation

ASSUME LifecycleConstants ==
  /\ First \in Sessions
  /\ None \notin Sessions
  /\ ContinuationPrompts \in BOOLEAN
  /\ Contention \in BOOLEAN
  /\ MaxGeneration \in Nat \ {0}

MaxStopAttempts == 2

Generations == 1..MaxGeneration

Run == [state             : RunStates,
        generation        : Generations,
        stopAttempts      : 0..MaxStopAttempts,
        startedOnce       : BOOLEAN,
        pending           : BOOLEAN,
        transportIdentity : Sessions \cup {None}]

LaunchSteps == {"prepare", "starting", "identity", "outcome", "failing", "done"}

PromptSteps == {"promptRead", "promptStarted", "promptContinuation", "promptUpdate"}
StopSteps == {"stopRead", "stopCheck", "stopUpdate", "stopMark"}
SessionSteps == {"absent", "idle", "turn", "ending", "gone"} \cup PromptSteps \cup StopSteps

Seen == [prompter   : {"user", "continuation"},  \* who really prompted
         begun      : BOOLEAN,                   \* prompted before, since it started
         source     : {"user", "continuation"},  \* what the hook takes it for
         generation : Generations,
         valid      : BOOLEAN]

LifecycleTypeOK ==
  /\ run \in Run
  /\ launch \in [step : LaunchSteps, running : BOOLEAN]
  /\ at \in [Sessions -> SessionSteps]
  /\ seen \in [Sessions -> Seen]
  /\ asked \in Nat

\* A hook keeps nothing once it has answered.
NoHook == [prompter |-> "user", begun |-> FALSE, source |-> "user",
           generation |-> 1, valid |-> FALSE]

lifecycleVars == <<run, writer, launch, at, seen, asked>>

\* The record has just been created; the launcher has yet to write the
\* assignment and the settings next to it.
LifecycleInit ==
  /\ run = [state |-> "planned", generation |-> 1, stopAttempts |-> 0,
            startedOnce |-> FALSE, pending |-> FALSE, transportIdentity |-> None]
  /\ writer = None
  /\ launch = [step |-> "prepare", running |-> FALSE]
  /\ at = [s \in Sessions |-> "absent"]
  /\ seen = [s \in Sessions |-> NoHook]
  /\ asked = 0

\* A session that a transport would report as active or idle.
Alive(s) == at[s] \notin {"absent", "gone"}

Unlocked == writer = None

-----------------------------------------------------------------------------
(* executeLaunch, after store.create                                       *)

LaunchGoes(from, to) == launch.step = from /\ launch' = [launch EXCEPT !.step = to]

LaunchEnds(from) == launch.step = from /\ launch' = [step |-> "done", running |-> FALSE]

LaunchBegins ==
  /\ Unlocked
  /\ CanBecome(run.state, "launching")
  /\ LaunchGoes("prepare", "starting")
  /\ run' = [run EXCEPT !.state = "launching"]
  /\ UNCHANGED <<writer, at, seen, asked>>

\* executeStart starts the agent; from here on its hooks run.
AgentStarts ==
  /\ launch.step = "starting"
  /\ at[First] = "absent"
  /\ at' = [at EXCEPT ![First] = "idle"]
  /\ UNCHANGED <<run, writer, launch, seen, asked>>

\* executeStart returns: completed with the agent created, or partial with or
\* without one.  Only an agent that was created has an identity to record.
StartReturns ==
  /\ launch.step = "starting"
  /\ \E running \in BOOLEAN :
       /\ running => at[First] # "absent"
       /\ launch' = [step |-> IF at[First] = "absent" THEN "outcome" ELSE "identity",
                     running |-> running]
  /\ UNCHANGED <<run, writer, at, seen, asked>>

\* The state-less merge that records the session identity first.
IdentityWritten ==
  /\ Unlocked
  /\ LaunchGoes("identity", "outcome")
  /\ run' = [run EXCEPT !.transportIdentity = First]
  /\ UNCHANGED <<writer, at, seen, asked>>

\* Mutation of LaunchOutcome: the launcher writes its state regardless.
LaunchOutcomeUnguarded(succeeded) == IF succeeded THEN "running" ELSE "failed"

LaunchOutcome(succeeded) ==
  IF LaunchersOwn(run.state) THEN (IF succeeded THEN "running" ELSE "failed") ELSE run.state

\* The launch report, with a state only while the run is still the launcher's.
OutcomeWritten ==
  /\ Unlocked
  /\ LaunchEnds("outcome")
  /\ CanBecome(run.state, LaunchOutcome(launch.running))
  /\ run' = [run EXCEPT !.state = LaunchOutcome(launch.running)]
  /\ UNCHANGED <<writer, at, seen, asked>>

FailureWritten ==
  /\ Unlocked
  /\ LaunchEnds("failing")
  /\ CanBecome(run.state, LaunchOutcome(FALSE))
  /\ run' = [run EXCEPT !.state = LaunchOutcome(FALSE)]
  /\ UNCHANGED <<writer, at, seen, asked>>

\* executeStart or an update after it throws; the catch block takes over.
LaunchThrows ==
  /\ \/ LaunchGoes("starting", "failing")
     \/ Contention /\ (LaunchGoes("identity", "failing") \/ LaunchGoes("outcome", "failing"))
  /\ UNCHANGED <<run, writer, at, seen, asked>>

\* The launcher is killed, or throws where nothing catches: residue stays.
LauncherDies ==
  /\ launch.step # "done"
  /\ LaunchEnds(launch.step)
  /\ UNCHANGED <<run, writer, at, seen, asked>>

Launcher ==
  \/ LaunchBegins \/ AgentStarts \/ StartReturns \/ IdentityWritten
  \/ OutcomeWritten \/ FailureWritten \/ LaunchThrows \/ LauncherDies

-----------------------------------------------------------------------------
(* UserPromptSubmit: runLifecycleHook, then onPrompt.                      *)

SessionGoes(s, from, to) == at[s] = from /\ at' = [at EXCEPT ![s] = to]

Forget(s, begun) == seen' = [seen EXCEPT ![s] = [NoHook EXCEPT !.begun = begun]]

\* The assignment, or something the operator types.
UserPrompts(s) ==
  /\ SessionGoes(s, "idle", "promptRead")
  /\ seen' = [seen EXCEPT ![s] = [@ EXCEPT !.prompter = "user"]]
  /\ UNCHANGED <<run, writer, launch, asked>>

Decide(s, source, generation) ==
  seen' = [seen EXCEPT ![s] = [@ EXCEPT !.source = source, !.generation = generation]]

\* The unlocked read that classifies the prompt: the first one, else a
\* continuation if one is pending, else a follow-up.
PromptRead(s) ==
  /\ \/ /\ ~run.startedOnce
        /\ SessionGoes(s, "promptRead", "promptStarted")
        /\ Decide(s, "user", run.generation)
     \/ /\ run.startedOnce /\ run.pending
        /\ SessionGoes(s, "promptRead", "promptContinuation")
        /\ Decide(s, "continuation", run.generation)
     \/ /\ run.startedOnce /\ ~run.pending
        /\ run.generation < MaxGeneration
        /\ SessionGoes(s, "promptRead", "promptUpdate")
        /\ Decide(s, "user", run.generation + 1)
  /\ UNCHANGED <<run, writer, launch, asked>>

\* Mutation of PromptMarked: the pending continuation is never cleared.
PromptMarkedForever(s) ==
  /\ Unlocked
  /\ \/ /\ SessionGoes(s, "promptStarted", "promptUpdate")
        /\ run' = [run EXCEPT !.startedOnce = TRUE]
     \/ /\ SessionGoes(s, "promptContinuation", "promptUpdate")
        /\ UNCHANGED run
  /\ UNCHANGED <<writer, launch, seen, asked>>

\* persistMarker, before onPrompt.
PromptMarked(s) ==
  /\ Unlocked
  /\ \/ /\ SessionGoes(s, "promptStarted", "promptUpdate")
        /\ run' = [run EXCEPT !.startedOnce = TRUE]
     \/ /\ SessionGoes(s, "promptContinuation", "promptUpdate")
        /\ run' = [run EXCEPT !.pending = FALSE]
  /\ UNCHANGED <<writer, launch, seen, asked>>

\* persistMarker swallows a refused write and the hook goes on.
PromptMarkDropped(s) ==
  /\ Contention
  /\ SessionGoes(s, "promptStarted", "promptUpdate") \/ SessionGoes(s, "promptContinuation", "promptUpdate")
  /\ UNCHANGED <<run, writer, launch, seen, asked>>

IsFollowUp(s) ==
  /\ seen[s].source = "user"
  /\ run.state # "launching"
  /\ seen[s].generation > run.generation

\* Mutation of PromptUpdated: every prompt resets the stop budget.
PromptUpdatedResets(s) ==
  /\ Unlocked
  /\ SessionGoes(s, "promptUpdate", "turn")
  /\ CanBecome(run.state, "running")
  /\ run' = [run EXCEPT !.state = "running", !.stopAttempts = 0,
                        !.generation = IF IsFollowUp(s) THEN seen[s].generation ELSE @]
  /\ asked' = IF IsFollowUp(s) THEN 0 ELSE asked
  /\ Forget(s, TRUE)
  /\ UNCHANGED <<writer, launch>>

\* Mutation of PromptUpdated: a continuation counts as a follow-up too.
PromptUpdatedReopens(s) ==
  /\ Unlocked
  /\ SessionGoes(s, "promptUpdate", "turn")
  /\ CanBecome(run.state, "running")
  /\ run' = [run EXCEPT !.state = "running", !.generation = seen[s].generation, !.stopAttempts = 0]
  /\ asked' = 0
  /\ Forget(s, TRUE)
  /\ UNCHANGED <<writer, launch>>

\* onPrompt, decided inside the updater.
PromptUpdated(s) ==
  /\ Unlocked
  /\ SessionGoes(s, "promptUpdate", "turn")
  /\ CanBecome(run.state, "running")
  /\ IF IsFollowUp(s)
     THEN /\ run' = [run EXCEPT !.state = "running", !.generation = seen[s].generation, !.stopAttempts = 0]
          /\ asked' = 0
     ELSE /\ run' = [run EXCEPT !.state = "running"]
          /\ UNCHANGED asked
  /\ Forget(s, TRUE)
  /\ UNCHANGED <<writer, launch>>

-----------------------------------------------------------------------------
(* Stop: runLifecycleHook, then onStop.                                    *)

TurnEnds(s) ==
  /\ SessionGoes(s, "turn", "stopRead")
  /\ UNCHANGED <<run, writer, launch, seen, asked>>

StopRead(s) ==
  /\ SessionGoes(s, "stopRead", "stopCheck")
  /\ seen' = [seen EXCEPT ![s] = [@ EXCEPT !.generation = run.generation]]
  /\ UNCHANGED <<run, writer, launch, asked>>

\* handoffExists: another unlocked read.
HandoffExists(generation) == run.state = "completed" /\ run.generation = generation

StopCheck(s) ==
  /\ SessionGoes(s, "stopCheck", "stopUpdate")
  /\ seen' = [seen EXCEPT ![s] = [@ EXCEPT !.valid = HandoffExists(seen[s].generation)]]
  /\ UNCHANGED <<run, writer, launch, asked>>

StopDecides(s) ==
  IF seen[s].generation # run.generation \/ seen[s].valid THEN "none"
  ELSE IF run.stopAttempts + 1 > MaxStopAttempts THEN "manual" ELSE "continue"

IfLegal(state) == IF CanTransition(run.state, state) THEN state ELSE run.state

\* onStop inside the updater: nothing for a stale generation; completed with
\* a valid handoff; otherwise ask again, at most twice a generation.
StopUpdated(s) ==
  /\ Unlocked
  /\ \/ /\ StopDecides(s) = "none"
        /\ SessionGoes(s, "stopUpdate", "idle")
        /\ Forget(s, seen[s].begun)
        /\ run' = [run EXCEPT !.state = IF seen[s].generation = run.generation
                                        THEN IfLegal("completed") ELSE @]
     \/ /\ StopDecides(s) = "manual"
        /\ SessionGoes(s, "stopUpdate", "idle")
        /\ Forget(s, seen[s].begun)
        /\ run' = [run EXCEPT !.state = IfLegal("manual-handoff-required")]
     \/ /\ StopDecides(s) = "continue"
        /\ SessionGoes(s, "stopUpdate", "stopMark")
        /\ UNCHANGED seen
        /\ run' = [run EXCEPT !.state = IF @ = "running" THEN "idle-awaiting-handoff" ELSE @,
                              !.stopAttempts = @ + 1]
  /\ UNCHANGED <<writer, launch, asked>>

\* The Stop hook has answered with a continuation: the session goes on, and
\* only some harnesses fire UserPromptSubmit for it.
Continues(s) ==
  /\ SessionGoes(s, "stopMark", IF ContinuationPrompts THEN "promptRead" ELSE "turn")
  /\ seen' = [seen EXCEPT ![s] = [NoHook EXCEPT !.begun = seen[s].begun, !.prompter = "continuation"]]
  /\ asked' = asked + 1

StopMarked(s) ==
  /\ Unlocked
  /\ Continues(s)
  /\ run' = [run EXCEPT !.pending = TRUE]
  /\ UNCHANGED <<writer, launch>>

StopMarkDropped(s) ==
  /\ Contention
  /\ Continues(s)
  /\ UNCHANGED <<run, writer, launch>>

-----------------------------------------------------------------------------
(* SessionEnd, and what may go wrong.                                      *)

SessionEnds(s) ==
  /\ at[s] \in {"idle", "turn"}
  /\ at' = [at EXCEPT ![s] = "ending"]
  /\ UNCHANGED <<run, writer, launch, seen, asked>>

\* onSessionEnd
SessionEndUpdated(s) ==
  /\ Unlocked
  /\ SessionGoes(s, "ending", "gone")
  /\ run' = [run EXCEPT !.state = IfLegal("interrupted")]
  /\ UNCHANGED <<writer, launch, seen, asked>>

\* The hook throws, is refused the lock, or is killed by its harness: its
\* outcome is lost, and the session carries on as if the hook said nothing.
HookFails(s) ==
  /\ Contention
  /\ \/ at[s] \in PromptSteps /\ at' = [at EXCEPT ![s] = "turn"]
     \/ at[s] \in StopSteps /\ at' = [at EXCEPT ![s] = "idle"]
     \/ SessionGoes(s, "ending", "gone")
  /\ Forget(s, seen[s].begun \/ at[s] \in PromptSteps)
  /\ UNCHANGED <<run, writer, launch, asked>>

\* The pane is killed; no hook runs.
Crash(s) ==
  /\ Alive(s)
  /\ at' = [at EXCEPT ![s] = "gone"]
  /\ UNCHANGED <<run, writer, launch, seen, asked>>

HookSteps(s) ==
  \/ PromptRead(s) \/ PromptMarked(s) \/ PromptUpdated(s)
  \/ StopRead(s) \/ StopCheck(s) \/ StopUpdated(s) \/ StopMarked(s)
  \/ SessionEndUpdated(s)

Session(s) ==
  \/ UserPrompts(s) \/ TurnEnds(s) \/ SessionEnds(s) \/ HookSteps(s)
  \/ PromptMarkDropped(s) \/ StopMarkDropped(s) \/ HookFails(s) \/ Crash(s)

LifecycleNext == Launcher \/ \E s \in Sessions : Session(s)
=============================================================================
