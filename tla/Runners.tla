-------------------------------- MODULE Runners --------------------------------
(***************************************************************************)
(* The two runners of commands: process.js for git and Herdr, and          *)
(* verify-runner.js for a project's checks.  They have nothing in common,  *)
(* so they are put side by side: a behaviour is one of Runner, of the       *)
(* calls that its schedule names, or a sweep of VerifyRunner, and the       *)
(* other stays as it was.                                                   *)
(***************************************************************************)
EXTENDS Runner, Sequences

CONSTANTS
  Schedules,            \* the calls a behaviour of Runner may make: sets of Calls
  Checks, SweepRests    \* of VerifyRunner

VARIABLES
  schedule,                       \* the calls of this behaviour, {} for a sweep
  results, check, vgroup, vproc   \* of VerifyRunner

Verify == INSTANCE VerifyRunner WITH group <- vgroup, proc <- vproc, Rests <- SweepRests

ASSUME RunnersConstants == Verify!VerifyRunnerConstants /\ {} \notin Schedules

verifyVars == <<results, check, vgroup, vproc>>
sumVars == <<schedule, vars, verifyVars>>

SumInit == schedule \in Schedules \cup {{}} /\ Init /\ Verify!Init

Process ==
  /\ schedule # {}
  /\ \A r \in Calls \ schedule : run'[r] = run[r]
  /\ UNCHANGED <<schedule, verifyVars>>

Sweep == schedule = {} /\ UNCHANGED <<schedule, vars>>

SumNext == (Next /\ Process) \/ (Sweep /\ Verify!Next)

\* The fairness of either runner.
SumSpec ==
  /\ SumInit /\ [][SumNext]_sumVars
  /\ \A r \in Calls :
       WF_sumVars(Handlers(r) /\ Process) /\ WF_sumVars(Heeds(r) /\ Process)
  /\ WF_sumVars(Escalates /\ Process)
  /\ WF_sumVars(Sweep /\ Verify!Handlers)
  /\ WF_sumVars(Sweep /\ (Verify!CannotStart \/ Verify!Starts))

-----------------------------------------------------------------------------
(* What the two runners promise, of the sum                                *)

\* A run that succeeded was in time, its child exited with 0 and nobody could
\* write to its pipes any more; a check passed or failed on the same evidence.
ResultsAreComplete == TypeOK /\ OkIsComplete /\ Verify!TypeOK /\ Verify!ResultsAreComplete

\* An interrupted process leaves nothing of a live child's group or of a check
\* at work; and its trap is set exactly as long as there is something to pass
\* a signal to, which is what that rests on.
NothingLeftBehind ==
  /\ TrapWhileLive /\ NothingSurvivesInterrupt
  /\ Verify!TrapWhileChecking /\ Verify!NothingSurvivesInterrupt

\* A run with a limit settles, or the process ends; an interrupted process ends;
\* what a timed-out command had started ends with it, if it heeds signals; and a
\* sweep is finished, with a result for every check, or interrupted.
EverythingEnds ==
  /\ SettlesInTime /\ InterruptEnds /\ TimeoutEndsGroup
  /\ schedule = {} => Verify!SweepEnds
=============================================================================
