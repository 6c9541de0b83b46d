-------------------------------- MODULE Resume --------------------------------
(***************************************************************************)
(* `workflow resume` (resume.js and relaunchSession of commands.js): bring *)
(* back the dead worker session of a run, in the same worktree, in a new   *)
(* generation.                                                             *)
(*                                                                         *)
(* A resume observes the recorded session, claims the relaunch under the   *)
(* run lock, starts an agent in a new pane, and records the pane's         *)
(* identity.  Any number of operators may do this at once; between any two *)
(* steps the session, its hooks and the other resumes go on, and a resume  *)
(* can fail or be killed.                                                  *)
(***************************************************************************)
EXTENDS WorkerLifecycle

CONSTANTS
  Resumers,    \* runs of `workflow resume --yes`
  FocusFails,  \* may raising the new pane fail, after the agent has started?
  Killed,      \* may a resume be killed between starting an agent and recording it?
  Slow         \* may a relaunch outlast the window in which a claim is fresh?

VARIABLES
  claim,   \* run.json: resumeClaim, and whether it is still fresh
  resume   \* per resume: its step, what it observed, and what it replaced

ASSUME ResumeConstants == {FocusFails, Killed, Slow} \subseteq BOOLEAN

Claims == {"none", "fresh", "expired"}

ResumeSteps == {"idle", "claim", "relaunch", "focus", "persist", "restore", "done"}

\* priorLifecycleState
Prior == [generation : Generations, stopAttempts : 0..MaxStopAttempts,
          startedOnce : BOOLEAN, pending : BOOLEAN]

Resume == [step : ResumeSteps,
           identity : Sessions \cup {None},  \* the one planned for, then the new one
           prior : Prior \cup {None}]

resumeVars == <<lifecycleVars, claim, resume>>

ResumeTypeOK ==
  /\ LifecycleTypeOK
  /\ claim \in Claims
  /\ resume \in [Resumers -> Resume]

NotResuming == [step |-> "idle", identity |-> None, prior |-> None]

ResumeInit ==
  /\ LifecycleInit
  /\ claim = "none"
  /\ resume = [o \in Resumers |-> NotResuming]

ResumeGoes(o, from, to) ==
  /\ resume[o].step = from
  /\ resume' = [resume EXCEPT ![o] = [@ EXCEPT !.step = to]]

ResumeEnds(o, steps) ==
  /\ resume[o].step \in steps
  /\ resume' = [resume EXCEPT ![o] = [NotResuming EXCEPT !.step = "done"]]

\* planResume: the run has a recorded identity, and no agent is on its pane.
\* (A session that is there is focused instead, which changes nothing.)
PlanRelaunch(o) ==
  /\ resume[o].step = "idle"
  /\ run.transportIdentity # None
  /\ ~Alive(run.transportIdentity)
  /\ resume' = [resume EXCEPT ![o] =
       [step |-> "claim", identity |-> run.transportIdentity, prior |-> None]]
  /\ UNCHANGED <<lifecycleVars, claim>>

\* Mutations of Claimable: the identity, or the freshness, is not checked.
ClaimableElsewhere(o) == claim # "fresh"

ClaimableAnyway(o) == run.transportIdentity = resume[o].identity

\* The identity has not moved, and nobody else's claim is fresh.
Claimable(o) == run.transportIdentity = resume[o].identity /\ claim # "fresh"

\* Mutations of NewGeneration: a marker, or the stop attempts, survive.
NewGenerationMarked ==
  [run EXCEPT !.generation = @ + 1, !.stopAttempts = 0, !.pending = FALSE]

NewGenerationExhausted ==
  [run EXCEPT !.generation = @ + 1, !.startedOnce = FALSE, !.pending = FALSE]

\* A full stop budget and no markers.
NewGeneration ==
  [run EXCEPT !.generation = @ + 1, !.stopAttempts = 0, !.startedOnce = FALSE, !.pending = FALSE]

\* The claim, under the run lock, opens a generation.
Claim(o) ==
  /\ Unlocked
  /\ resume[o].step = "claim"
  /\ Claimable(o)
  /\ run.generation < MaxGeneration
  /\ claim' = "fresh"
  /\ resume' = [resume EXCEPT ![o] = [@ EXCEPT !.step = "relaunch",
       !.prior = [generation |-> run.generation, stopAttempts |-> run.stopAttempts,
                  startedOnce |-> run.startedOnce, pending |-> run.pending]]]
  /\ run' = NewGeneration
  /\ asked' = 0
  /\ UNCHANGED <<writer, launch, at, seen>>

\* The updater throws: somebody else claimed, or the identity moved.
ClaimRefused(o) ==
  /\ resume[o].step = "claim"
  /\ ~Claimable(o)
  /\ ResumeEnds(o, {"claim"})
  /\ UNCHANGED <<lifecycleVars, claim>>

\* relaunchSession: a new tab, the environment, the agent in its root pane.
Relaunch(o) ==
  /\ resume[o].step = "relaunch"
  /\ \E s \in Sessions :
       /\ SessionGoes(s, "absent", "idle")
       /\ resume' = [resume EXCEPT ![o] = [@ EXCEPT !.step = "focus", !.identity = s]]
  /\ UNCHANGED <<run, writer, launch, seen, asked, claim>>

\* Its last call raises the new pane.
Focus(o) ==
  /\ ResumeGoes(o, "focus", "persist")
  /\ UNCHANGED <<lifecycleVars, claim>>

\* It throws, before the agent has started or after.
RelaunchThrows(o) ==
  /\ \/ ResumeGoes(o, "relaunch", "restore")
     \/ FocusFails /\ ResumeGoes(o, "focus", "restore")
  /\ UNCHANGED <<lifecycleVars, claim>>

\* The catch block puts back what the claim replaced, whatever is there now.
Restore(o) ==
  /\ Unlocked
  /\ ResumeEnds(o, {"restore"})
  /\ run' = [run EXCEPT !.generation = resume[o].prior.generation,
                        !.stopAttempts = resume[o].prior.stopAttempts,
                        !.startedOnce = resume[o].prior.startedOnce,
                        !.pending = resume[o].prior.pending]
  /\ claim' = "none"
  /\ UNCHANGED <<writer, launch, at, seen, asked>>

Persist(o) ==
  /\ Unlocked
  /\ ResumeEnds(o, {"persist"})
  /\ run' = [run EXCEPT !.transportIdentity = resume[o].identity]
  /\ claim' = "none"
  /\ UNCHANGED <<writer, launch, at, seen, asked>>

\* Killed, or refused the lock for one of its updates.  Without Killed a
\* resume dies only before it has started an agent.
ResumeDies(o) ==
  /\ \/ ResumeEnds(o, {"claim", "relaunch", "restore"})
     \/ Killed /\ ResumeEnds(o, {"focus", "persist"})
  /\ UNCHANGED <<lifecycleVars, claim>>

\* Ten minutes pass (RESUME_CLAIM_FRESH_MS).  A relaunch takes less, unless
\* the machine is suspended under it.
ClaimExpires ==
  /\ claim = "fresh"
  /\ Slow \/ \A o \in Resumers : resume[o].step \notin {"relaunch", "focus", "persist", "restore"}
  /\ claim' = "expired"
  /\ UNCHANGED <<lifecycleVars, resume>>

Resuming(o) ==
  \/ PlanRelaunch(o) \/ Claim(o) \/ ClaimRefused(o) \/ Relaunch(o) \/ Focus(o)
  \/ RelaunchThrows(o) \/ Restore(o) \/ Persist(o) \/ ResumeDies(o)

ResumeNext ==
  \/ LifecycleNext /\ UNCHANGED <<claim, resume>>
  \/ \E o \in Resumers : Resuming(o)
  \/ ClaimExpires

ResumeSpec == ResumeInit /\ [][ResumeNext]_resumeVars

-----------------------------------------------------------------------------
(* Properties                                                              *)

\* Two resumes never leave two workers running in one worktree, however they
\* overlap with one another, fail, and retry after a claim has expired.
OneWorker == \A s, t \in Sessions : Alive(s) /\ Alive(t) => s = t

\* A relaunched worker's first prompt confirms the generation the resume
\* opened instead of bumping it again (comment in resume.js).
FirstPromptConfirms ==
  [][\A s \in Sessions :
       at[s] = "promptUpdate" /\ at'[s] = "turn" /\ ~seen[s].begun =>
         run'.generation = run.generation]_resumeVars

\* No worker is given up to manual handoff before it has been asked for its
\* handoff twice in the generation; a relaunched worker starts afresh.
ManualOnlyWhenAsked ==
  [][run'.state = "manual-handoff-required" /\ run.state # run'.state =>
       asked = MaxStopAttempts]_resumeVars

\* A relaunch that failed before it started an agent leaves the generation as
\* it was: nobody has prompted or claimed on the opened one meanwhile.
FailedRelaunchLosesNothing ==
  [][\A o \in Resumers : resume[o].step = "restore" /\ claim = "fresh" /\ claim' = "none" =>
       run.generation = run'.generation + 1 /\ run.stopAttempts = 0 /\ ~run.startedOnce]_resumeVars

\* No two workers at a time, and the state keeps its shape.
OneWorkerAtATime == ResumeTypeOK /\ OneWorker

\* A relaunch opens one generation: its worker's first prompt confirms that one,
\* and a relaunch that failed takes it back.
OneGenerationPerRelaunch == FirstPromptConfirms /\ FailedRelaunchLosesNothing
=============================================================================
