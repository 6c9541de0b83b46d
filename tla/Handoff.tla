------------------------------- MODULE Handoff -------------------------------
(***************************************************************************)
(* The structured handoff of a worker (handoff.js): `workflow handoff`     *)
(* writes result.json and registers it in run.json; a reader reports the   *)
(* current result, or finds it stale.  Both run beside the launcher and    *)
(* the lifecycle hooks of WorkerLifecycle.                                 *)
(*                                                                         *)
(* A submission reads the run and fingerprints the worktree without the    *)
(* lock, then checks the run again inside it.  There it writes two files,  *)
(* so it can die with a result.json that run.json does not know.  A reader *)
(* reads run.json, result.json and the worktree one after the other.       *)
(***************************************************************************)
EXTENDS WorkerLifecycle

CONSTANTS
  Submitters,  \* runs of `workflow handoff`
  Readers,     \* calls of readCurrentResult
  Statuses,    \* the handoff statuses in play
  MaxEdits     \* bound: versions of the worktree

VARIABLES
  tree,        \* the version of the worktree a fingerprint stands for
  artifact,    \* result.json
  registered,  \* run.json: resultGeneration, resultStatus, digest, fingerprints
  submission,  \* per submitter: its step and the result it is making
  reading,     \* per reader: its step and what it has observed
  reopened     \* history: has a prompt reopened the run since the last handoff

\* STATUS_TO_RUN_STATE gives each status the run state of the same name.
ASSUME HandoffConstants ==
  /\ Statuses \subseteq {"completed", "blocked", "needs-input", "failed"}
  /\ Submitters \cap Readers = {}
  /\ None \notin Submitters
  /\ MaxEdits \in Nat

\* Equal contents have equal digests, so a result stands for its own digest.
Result == [generation : Generations, status : Statuses, tree : 0..MaxEdits]

ASSUME NoResult == None \notin Result

Submission == [step : {"idle", "fingerprint", "commit", "register", "done"},
               result : Result \cup {None}]

Reading == [step : {"idle", "file", "tree", "stale", "reported", "done"},
            marked : BOOLEAN, generation : Generations,
            registered : Result \cup {None},
            file : Result \cup {None},
            fresh : BOOLEAN]      \* history: see ReportsAreCurrent

handoffVars == <<tree, artifact, registered, submission, reading, reopened>>
vars == <<lifecycleVars, handoffVars>>

TypeOK ==
  /\ LifecycleTypeOK
  /\ writer \in Submitters \cup {None}
  /\ tree \in 0..MaxEdits
  /\ artifact \in Result \cup {None}
  /\ registered \in Result \cup {None}
  /\ submission \in [Submitters -> Submission]
  /\ reading \in [Readers -> Reading]
  /\ reopened \in BOOLEAN

NotReading == [step |-> "idle", marked |-> FALSE, generation |-> 1,
               registered |-> None, file |-> None, fresh |-> FALSE]

Init ==
  /\ LifecycleInit
  /\ tree = 0
  /\ artifact = None
  /\ registered = None
  /\ submission = [c \in Submitters |-> [step |-> "idle", result |-> None]]
  /\ reading = [v \in Readers |-> NotReading]
  /\ reopened = TRUE

-----------------------------------------------------------------------------
(* submitHandoff                                                           *)

\* The worker, or something it left in the background, edits the worktree.
\* No edit is undone: every one makes a version there has not been before.
Edit ==
  /\ \E s \in Sessions : at[s] = "turn"
  /\ tree < MaxEdits
  /\ tree' = tree + 1
  /\ UNCHANGED <<lifecycleVars, artifact, registered, submission, reading, reopened>>

\* The unlocked read.  The worker runs the command in its turn, but nothing
\* keeps the command from outliving the turn.
SubmitRead(c) ==
  /\ \E s \in Sessions : at[s] = "turn"
  /\ submission[c].step = "idle"
  /\ AcceptsHandoff(run.state)
  /\ \E status \in Statuses :
       submission' = [submission EXCEPT ![c] =
         [step |-> "fingerprint",
          result |-> [generation |-> run.generation, status |-> status, tree |-> 0]]]
  /\ UNCHANGED <<lifecycleVars, tree, artifact, registered, reading, reopened>>

SubmitFingerprint(c) ==
  /\ submission[c].step = "fingerprint"
  /\ submission' = [submission EXCEPT ![c] =
       [step |-> "commit", result |-> [submission[c].result EXCEPT !.tree = tree]]]
  /\ UNCHANGED <<lifecycleVars, tree, artifact, registered, reading, reopened>>

\* Mutations of StillExpected: each of the two checks trusts the unlocked read.
ExpectedWhateverState(c) == run.generation = submission[c].result.generation

ExpectedWhateverGeneration(c) == AcceptsHandoff(run.state)

\* Inside the updater: the run still expects this generation and accepts a
\* handoff.
StillExpected(c) ==
  /\ run.generation = submission[c].result.generation
  /\ AcceptsHandoff(run.state)

\* result.json (and its archive copy) is written first ...
SubmitWrites(c) ==
  /\ Unlocked
  /\ submission[c].step = "commit"
  /\ StillExpected(c)
  /\ writer' = c
  /\ artifact' = submission[c].result
  /\ submission' = [submission EXCEPT ![c] = [@ EXCEPT !.step = "register"]]
  /\ UNCHANGED <<run, launch, at, seen, asked, tree, registered, reading, reopened>>

\* ... and the updated run.json replaces the old one.
SubmitRegisters(c) ==
  /\ submission[c].step = "register"
  /\ writer' = None
  /\ run' = [run EXCEPT !.state = artifact.status]
  /\ registered' = artifact
  /\ submission' = [submission EXCEPT ![c] = [step |-> "done", result |-> None]]
  /\ reopened' = FALSE
  /\ UNCHANGED <<launch, at, seen, asked, tree, artifact, reading>>

\* Refused, failed or killed at any step.  A lock it leaves is residue for
\* `workflow unlock` (RunLock); the run is writable again after that.
SubmitFails(c) ==
  /\ submission[c].step \in {"fingerprint", "commit", "register"}
  /\ writer' = IF writer = c THEN None ELSE writer
  /\ submission' = [submission EXCEPT ![c] = [step |-> "done", result |-> None]]
  /\ UNCHANGED <<run, launch, at, seen, asked, tree, artifact, registered, reading, reopened>>

Submit(c) ==
  SubmitRead(c) \/ SubmitFingerprint(c) \/ SubmitWrites(c) \/ SubmitRegisters(c) \/ SubmitFails(c)

-----------------------------------------------------------------------------
(* readCurrentResult                                                       *)

ReadGoes(v, from, to) ==
  /\ reading[v].step = from
  /\ reading' = [reading EXCEPT ![v] = [@ EXCEPT !.step = to]]

ReadReturns(v) ==
  /\ reading[v].step = "stale"
  /\ reading' = [reading EXCEPT ![v] = [NotReading EXCEPT !.step = "done"]]

Fresh ==
  /\ registered # None
  /\ run.state # "result-stale"
  /\ registered.generation = run.generation
  /\ registered.tree = tree

ReadRun(v) ==
  /\ reading[v].step = "idle"
  /\ reading' = [reading EXCEPT ![v] =
       [step |-> "file", marked |-> run.state = "result-stale", generation |-> run.generation,
        registered |-> registered, file |-> None, fresh |-> Fresh]]
  /\ UNCHANGED <<lifecycleVars, tree, artifact, registered, submission, reopened>>

\* Mutation of ShapeIsGood: the digest and registration are not compared.
ShapeIsGoodUnregistered(v) ==
  /\ artifact # None
  /\ artifact.generation = reading[v].generation
  /\ ~reading[v].marked

\* collectResultShapeErrors: of the current generation, registered, and with
\* the registered digest; and not already marked stale.
ShapeIsGood(v) ==
  /\ artifact # None
  /\ artifact.generation = reading[v].generation
  /\ artifact = reading[v].registered
  /\ ~reading[v].marked

ReadFile(v) ==
  /\ reading[v].step = "file"
  /\ reading' = [reading EXCEPT ![v] =
       [@ EXCEPT !.file = artifact, !.step = IF ShapeIsGood(v) THEN "tree" ELSE "stale"]]
  /\ UNCHANGED <<lifecycleVars, tree, artifact, registered, submission, reopened>>

\* The fingerprint of the worktree as it is now must be the result's.
ReadTree(v) ==
  /\ ReadGoes(v, "tree", IF reading[v].file.tree = tree THEN "reported" ELSE "stale")
  /\ UNCHANGED <<lifecycleVars, tree, artifact, registered, submission, reopened>>

\* Mutation of MetadataUnchanged: assertObservedResultMetadata is left out.
MetadataIgnored(v) == TRUE

\* assertObservedResultMetadata
MetadataUnchanged(v) ==
  run.generation = reading[v].generation /\ registered = reading[v].registered

\* markResultStale, unless the caller asked for none; it refuses when the
\* run's result metadata has changed since it was read.
MarkStale(v) ==
  /\ Unlocked
  /\ MetadataUnchanged(v)
  /\ CanBecome(run.state, "result-stale")
  /\ ReadReturns(v)
  /\ run' = [run EXCEPT !.state = "result-stale"]
  /\ UNCHANGED <<writer, launch, at, seen, asked, tree, artifact, registered, submission, reopened>>

\* Reported as stale without marking it: markStale is off or its write throws.
ReadEnds(v) ==
  /\ ReadReturns(v)
  /\ UNCHANGED <<lifecycleVars, tree, artifact, registered, submission, reopened>>

Read(v) == ReadRun(v) \/ ReadFile(v) \/ ReadTree(v) \/ MarkStale(v) \/ ReadEnds(v)

-----------------------------------------------------------------------------

\* A prompt that reaches the record reopens the run for a handoff.
Worker ==
  /\ LifecycleNext
  /\ reopened' = (reopened \/ \E s \in Sessions : at[s] = "promptUpdate" /\ PromptUpdated(s))
  /\ UNCHANGED <<tree, artifact, registered, submission, reading>>

Next ==
  \/ Worker
  \/ Edit
  \/ \E c \in Submitters : Submit(c)
  \/ \E v \in Readers : Read(v)

Spec == Init /\ [][Next]_vars

\* Harnesses run their hooks, a turn comes to an end, and a handoff command
\* that holds the lock finishes or dies.
Fairness ==
  /\ \A s \in Sessions :
       /\ WF_vars(HookSteps(s) /\ Worker)
       /\ WF_vars(TurnEnds(s) /\ Worker)
  /\ \A c \in Submitters : WF_vars(SubmitRegisters(c))

FairSpec == Spec /\ Fairness

-----------------------------------------------------------------------------
(* Properties                                                              *)

\* A run that says "completed" has a registered, completed result of its
\* current generation: not of an earlier one whose command outlived its turn,
\* and not none because a Stop hook trusted a handoff that was superseded.
CompletedHasResult ==
  run.state = "completed" =>
    registered # None /\ registered.status = "completed" /\ registered.generation = run.generation

\* A finished run leaves "completed" because somebody prompted the worker or
\* found the result stale: the launcher, still on its way to reporting a
\* launch that a fast worker has outrun, never takes it back.
FinishedRunReopensOnPrompt ==
  [][run.state = "completed" /\ run'.state # "completed" =>
       \/ run'.state = "result-stale"
       \/ \E s \in Sessions : at[s] = "promptUpdate" /\ at'[s] = "turn"]_vars

\* Between two handoffs of a run somebody prompted the worker: of two
\* commands that both read a running run, only one gets through.
OneHandoffPerPrompt ==
  [][registered' # registered => reopened]_vars

\* A result reported as current was, at one and the same moment of the read,
\* the registered result, of the run's generation, and made from the worktree
\* as it was; although run.json, result.json and the worktree are read one
\* after the other, while handoffs write and die in between.
ReportsAreCurrent ==
  \A v \in Readers : reading[v].step = "reported" => reading[v].fresh

\* A reader does not mark stale a result that is current, however much was
\* submitted, prompted and edited since it read the run.  The exceptions are
\* two, and in both a result of exactly the content it read as registered has
\* been handed in since: that was not what it then found on disk, or the run
\* that it read was marked stale already.
StaleMarksAreDue ==
  [][\A v \in Readers :
       /\ reading[v].step = "stale" /\ reading'[v].step = "done"
       /\ run.state # "result-stale" /\ run'.state = "result-stale"
       /\ Fresh /\ artifact = registered
       => /\ registered = reading[v].registered
          /\ registered # reading[v].file \/ reading[v].marked]_vars

\* The hooks ask a worker for its handoff at most twice in a generation.
StopBudget == asked <= MaxStopAttempts

\* Every prompt of an operator after the session's first opens a generation;
\* a continuation does not (comment in lifecycle-hook-core.mjs).
FollowUpOpensGeneration ==
  [][\A s \in Sessions :
       at[s] = "promptUpdate" /\ at'[s] = "turn" /\ seen[s].begun =>
         run'.generation = run.generation + (IF seen[s].prompter = "user" THEN 1 ELSE 0)]_vars

\* The Stop hook decides from the record it holds the lock on (comment in
\* lifecycle.js), so it never asks a completed run for a handoff.
StopDecidesUnderLock ==
  [][\A s \in Sessions :
       at[s] = "stopUpdate" /\ at'[s] = "stopMark" => ~HandoffExists(seen[s].generation)]_vars

\* A turn that the Stop hooks keep prolonging ends all the same: control goes
\* back to the operator, whatever the worker submits and whatever is refused.
TurnsEnd == \A s \in Sessions : at[s] = "turn" ~> at[s] \in {"idle", "gone"}
=============================================================================
