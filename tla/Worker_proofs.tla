----------------------------- MODULE Worker_proofs -----------------------------
(***************************************************************************)
(* Theorems about the worker of a run: what its launcher and hooks do to    *)
(* the record (WorkerLifecycle), the results it hands in (Handoff), for any *)
(* number of submitters, readers, generations and edits, and its relaunch   *)
(* (Resume), for any number of sessions, resumes and generations.           *)
(***************************************************************************)
EXTENDS Handoff, Resume, TLAPS

-----------------------------------------------------------------------------
(* The launcher and the hooks: the lemmas that the rest shares.              *)

\* The states an update may write are states.
LEMMA StatesWritten ==
  ASSUME NEW state \in RunStates
  PROVE  /\ \A b \in BOOLEAN : (IF LaunchersOwn(state) THEN (IF b THEN "running" ELSE "failed") ELSE state) \in RunStates
         /\ \A x \in RunStates : (IF CanTransition(state, x) THEN x ELSE state) \in RunStates
  <1>1. "running" \in RunStates /\ "failed" \in RunStates
    BY DEF RunStates, Settling
  <1>2. QED
    BY <1>1

\* An update of a run is a run.
LEMMA UpdatedRun ==
  ASSUME run \in Run, NEW state \in RunStates
  PROVE  /\ [run EXCEPT !.state = state] \in Run
         /\ \A n \in 0..MaxStopAttempts : [run EXCEPT !.state = state, !.stopAttempts = n] \in Run
         /\ \A g \in Generations, n \in 0..MaxStopAttempts :
              [run EXCEPT !.state = state, !.generation = g, !.stopAttempts = n] \in Run
         /\ [run EXCEPT !.startedOnce = TRUE] \in Run
         /\ \A b \in BOOLEAN : [run EXCEPT !.pending = b] \in Run
         /\ \A s \in Sessions : [run EXCEPT !.transportIdentity = s] \in Run
  BY DEF Run

\* What a hook has seen, updated, is what a hook may have seen.
LEMMA UpdatedSeen ==
  ASSUME NEW x \in Seen
  PROVE  /\ NoHook \in Seen
         /\ \A b \in BOOLEAN : [NoHook EXCEPT !.begun = b] \in Seen
         /\ \A b \in BOOLEAN : [NoHook EXCEPT !.begun = b, !.prompter = "continuation"] \in Seen
         /\ [x EXCEPT !.prompter = "user"] \in Seen
         /\ \A g \in Generations : [x EXCEPT !.generation = g] \in Seen
         /\ \A b \in BOOLEAN : [x EXCEPT !.valid = b] \in Seen
         /\ \A who \in {"user", "continuation"}, g \in Generations :
              [x EXCEPT !.source = who, !.generation = g] \in Seen
  <1>1. 1 \in Generations
    BY LifecycleConstants DEF Generations
  <1>2. NoHook \in Seen
    BY <1>1 DEF NoHook, Seen
  <1>3. QED
    BY <1>2 DEF Seen

\* The types of WorkerLifecycle's variables are preserved by its steps.
LEMMA LifecycleTypes == LifecycleTypeOK /\ LifecycleNext => LifecycleTypeOK'
  <1> SUFFICES ASSUME LifecycleTypeOK, LifecycleNext PROVE LifecycleTypeOK'
    OBVIOUS
  <1> USE DEF LifecycleTypeOK
  <1>1. CASE Launcher
    <2> USE DEF LaunchSteps
    <2>0. /\ run.state \in RunStates
          /\ \A x \in RunStates : [run EXCEPT !.state = x] \in Run
      BY UpdatedRun DEF Run
    <2>1. CASE LaunchBegins
      BY <2>0, <2>1 DEF LaunchBegins, LaunchGoes, RunStates
    <2>2. CASE AgentStarts
      BY <2>2 DEF AgentStarts, SessionSteps
    <2>3. CASE StartReturns
      BY <2>3 DEF StartReturns
    <2>4. CASE IdentityWritten
      BY <2>4, LifecycleConstants DEF IdentityWritten, LaunchGoes, Run
    <2>5. CASE OutcomeWritten
      <3>1. LaunchOutcome(launch.running) \in RunStates
        BY <2>0, StatesWritten DEF LaunchOutcome
      <3>2. QED
        BY <2>0, <2>5, <3>1 DEF OutcomeWritten, LaunchEnds
    <2>6. CASE FailureWritten
      <3>1. LaunchOutcome(FALSE) \in RunStates
        BY <2>0, StatesWritten DEF LaunchOutcome
      <3>2. QED
        BY <2>0, <2>6, <3>1 DEF FailureWritten, LaunchEnds
    <2>7. CASE LaunchThrows
      BY <2>7 DEF LaunchThrows, LaunchGoes
    <2>8. CASE LauncherDies
      BY <2>8 DEF LauncherDies, LaunchEnds
    <2>9. QED
      BY <1>1, <2>1, <2>2, <2>3, <2>4, <2>5, <2>6, <2>7, <2>8 DEF Launcher
  <1>2. ASSUME NEW s \in Sessions, Session(s) PROVE LifecycleTypeOK'
    <2>0. /\ seen[s] \in Seen
          /\ seen[s].begun \in BOOLEAN
          /\ run.state \in RunStates
          /\ run.generation \in Generations
          /\ run.stopAttempts \in 0..MaxStopAttempts
      BY DEF Seen, Run
    <2>1. CASE UserPrompts(s)
      BY <2>0, <2>1, UpdatedSeen DEF UserPrompts, SessionGoes, SessionSteps, PromptSteps
    <2>2. CASE PromptRead(s)
      <3>1. PICK who \in {"user", "continuation"}, g \in Generations : Decide(s, who, g)
        <4>1. run.generation < MaxGeneration => run.generation + 1 \in Generations
          BY <2>0, LifecycleConstants DEF Generations
        <4>2. QED
          BY <2>0, <2>2, <4>1 DEF PromptRead
      <3>2. seen' \in [Sessions -> Seen]
        BY <2>0, <3>1, UpdatedSeen DEF Decide
      <3>3. QED
        BY <2>2, <3>2 DEF PromptRead, SessionGoes, SessionSteps, PromptSteps
    <2>3. CASE PromptMarked(s)
      BY <2>3 DEF PromptMarked, SessionGoes, SessionSteps, PromptSteps, Run
    <2>4. CASE PromptMarkDropped(s)
      BY <2>4 DEF PromptMarkDropped, SessionGoes, SessionSteps, PromptSteps
    <2>5. CASE PromptUpdated(s)
      <3>1. "running" \in RunStates /\ 0 \in 0..MaxStopAttempts /\ seen[s].generation \in Generations
        BY <2>0 DEF RunStates, MaxStopAttempts, Seen
      <3>2. run' \in Run /\ asked' \in Nat
        <4>1. CASE IsFollowUp(s)
          <5>1. /\ run' = [run EXCEPT !.state = "running", !.generation = seen[s].generation, !.stopAttempts = 0]
                /\ asked' = 0
            BY <2>5, <4>1 DEF PromptUpdated
          <5>2. QED
            BY <3>1, <5>1, UpdatedRun
        <4>2. CASE ~IsFollowUp(s)
          <5>1. run' = [run EXCEPT !.state = "running"] /\ asked' = asked
            BY <2>5, <4>2 DEF PromptUpdated
          <5>2. QED
            BY <3>1, <5>1, UpdatedRun
        <4>3. QED
          BY <4>1, <4>2
      <3>3. seen' \in [Sessions -> Seen]
        BY <2>0, <2>5, UpdatedSeen DEF PromptUpdated, Forget
      <3>4. at' \in [Sessions -> SessionSteps] /\ launch' = launch
        BY <2>5 DEF PromptUpdated, SessionGoes, SessionSteps
      <3>5. QED
        BY <3>2, <3>3, <3>4
    <2>6. CASE TurnEnds(s)
      BY <2>6 DEF TurnEnds, SessionGoes, SessionSteps, StopSteps
    <2>7. CASE StopRead(s)
      BY <2>0, <2>7, UpdatedSeen DEF StopRead, SessionGoes, SessionSteps, StopSteps
    <2>8. CASE StopCheck(s)
      BY <2>0, <2>8, UpdatedSeen DEF StopCheck, SessionGoes, SessionSteps, StopSteps, HandoffExists
    <2>9. CASE StopUpdated(s)
      <3>1. at' \in [Sessions -> SessionSteps]
        BY <2>9 DEF StopUpdated, SessionGoes, SessionSteps, StopSteps
      <3>2. seen' \in [Sessions -> Seen]
        BY <2>0, <2>9, UpdatedSeen DEF StopUpdated, Forget
      <3>3. \A x \in {"completed", "manual-handoff-required"} : IfLegal(x) \in RunStates
        BY <2>0, StatesWritten DEF IfLegal, RunStates, Settling
      <3>4. CASE StopDecides(s) = "continue"
        <4>1. run.stopAttempts + 1 \in 0..MaxStopAttempts
          BY <2>0, <3>4 DEF StopDecides, MaxStopAttempts
        <4>2. (IF run.state = "running" THEN "idle-awaiting-handoff" ELSE run.state) \in RunStates
          BY <2>0 DEF RunStates, Settling
        <4>3. run' = [run EXCEPT !.state = IF run.state = "running" THEN "idle-awaiting-handoff" ELSE run.state,
                                 !.stopAttempts = run.stopAttempts + 1]
          BY <2>9, <3>4 DEF StopUpdated, Run
        <4>4. run' \in Run
          BY <4>1, <4>2, <4>3, UpdatedRun
        <4>5. QED
          BY <2>9, <3>1, <3>2, <4>4 DEF StopUpdated
      <3>5. CASE StopDecides(s) # "continue"
        <4>1. PICK x \in RunStates : run' = [run EXCEPT !.state = x]
          BY <2>0, <2>9, <3>3, <3>5 DEF StopUpdated
        <4>2. run' \in Run
          BY <4>1, UpdatedRun
        <4>3. QED
          BY <2>9, <3>1, <3>2, <4>2 DEF StopUpdated
      <3>6. QED
        BY <3>4, <3>5
    <2>10. ASSUME Continues(s) PROVE at' \in [Sessions -> SessionSteps] /\ seen' \in [Sessions -> Seen] /\ asked' \in Nat
      <3>1. seen' \in [Sessions -> Seen]
        BY <2>0, <2>10, UpdatedSeen DEF Continues
      <3>2. QED
        BY <2>10, <3>1 DEF Continues, SessionGoes, SessionSteps, PromptSteps
    <2>11. CASE StopMarked(s) \/ StopMarkDropped(s)
      <3>1. run' \in Run
        BY <2>11 DEF StopMarked, StopMarkDropped, Run
      <3>2. QED
        BY <2>10, <2>11, <3>1 DEF StopMarked, StopMarkDropped
    <2>12. CASE SessionEnds(s)
      BY <2>12 DEF SessionEnds, SessionSteps
    <2>13. CASE SessionEndUpdated(s)
      <3>1. IfLegal("interrupted") \in RunStates
        BY <2>0, StatesWritten DEF IfLegal, RunStates, Settling
      <3>2. run' \in Run
        BY <2>13, <3>1, UpdatedRun DEF SessionEndUpdated
      <3>3. QED
        BY <2>13, <3>2 DEF SessionEndUpdated, SessionGoes, SessionSteps
    <2>14. CASE HookFails(s)
      <3>1. seen' \in [Sessions -> Seen]
        BY <2>0, <2>14, UpdatedSeen DEF HookFails, Forget
      <3>2. QED
        BY <2>14, <3>1 DEF HookFails, SessionGoes, SessionSteps
    <2>15. CASE Crash(s)
      BY <2>15 DEF Crash, SessionSteps
    <2>16. QED
      BY <1>2, <2>1, <2>2, <2>3, <2>4, <2>5, <2>6, <2>7, <2>8, <2>9, <2>11, <2>12,
         <2>13, <2>14, <2>15 DEF Session, HookSteps
  <1>3. QED
    BY <1>1, <1>2 DEF LifecycleNext

\* What is gone or absent stays so unless it is started, a session that was
\* started is not absent again, and no hook touches the recorded identity.
LEMMA SessionsEnd ==
  ASSUME LifecycleTypeOK, NEW s \in Sessions, Session(s)
  PROVE  /\ UNCHANGED launch /\ run'.transportIdentity = run.transportIdentity
         /\ \A t \in Sessions :
              /\ ~Alive(t) => at'[t] = at[t]
              /\ at[t] # "absent" => at'[t] # "absent"
  <1> USE DEF LifecycleTypeOK, Run, SessionGoes, Alive
  <1>1. CASE UserPrompts(s) \/ TurnEnds(s) \/ SessionEnds(s) \/ PromptMarkDropped(s) \/ Crash(s)
    BY <1>1 DEF UserPrompts, TurnEnds, SessionEnds, PromptMarkDropped, Crash
  <1>2. CASE PromptRead(s) \/ StopRead(s) \/ StopCheck(s)
    BY <1>2 DEF PromptRead, StopRead, StopCheck
  <1>3. CASE PromptMarked(s)
    BY <1>3 DEF PromptMarked
  <1>4. CASE PromptUpdated(s)
    BY <1>4 DEF PromptUpdated
  <1>5. CASE StopUpdated(s)
    BY <1>5 DEF StopUpdated
  <1>6. CASE StopMarked(s) \/ StopMarkDropped(s)
    BY <1>6 DEF StopMarked, StopMarkDropped, Continues
  <1>7. CASE SessionEndUpdated(s)
    BY <1>7 DEF SessionEndUpdated
  <1>8. CASE HookFails(s)
    BY <1>8 DEF HookFails, PromptSteps, StopSteps
  <1>9. QED
    BY <1>1, <1>2, <1>3, <1>4, <1>5, <1>6, <1>7, <1>8 DEF Session, HookSteps

-----------------------------------------------------------------------------
(* Handoff                                                                  *)

(***************************************************************************)
(* The inductive invariant.                                                *)
(***************************************************************************)

\* Only the launched session takes part.
OneSession == \A s \in Sessions : s # First => at[s] = "absent"

\* A submission past its first read has a result to hand in.
ResultsMade ==
  \A c \in Submitters :
    submission[c].step \in {"fingerprint", "commit", "register"} => submission[c].result \in Result

\* Whoever is between its two writes is the one inside the updater, where
\* the run that it found expecting its result still does.
WriterHolds ==
  \A c \in Submitters :
    /\ submission[c].step = "register" <=> writer = c
    /\ writer = c => /\ AcceptsHandoff(run.state)
                     /\ artifact = submission[c].result
                     /\ artifact.generation = run.generation

\* A Stop hook that has found a handoff leaves a run nobody reopens under it.
StopTrusts ==
  \A s \in Sessions :
    at[s] = "stopUpdate" /\ seen[s].valid => run.state \in {"completed", "result-stale"}

\* What the hooks have asked and are about to ask is on the record.
AskedIsCounted ==
  asked + (IF at[First] = "stopMark" THEN 1 ELSE 0) <= run.stopAttempts

\* The states in which, or on the way to which, a run takes a handoff.
Open == {"planned", "launching", "running", "idle-awaiting-handoff"}

ClosedUntilPrompted == ~reopened => run.state \notin Open

\* No result is made of edits still to come.
Past(r) == r # None => r.tree <= tree

ResultsArePast ==
  /\ Past(artifact)
  /\ Past(registered)
  /\ \A c \in Submitters : Past(submission[c].result)
  /\ \A v \in Readers : Past(reading[v].registered) /\ Past(reading[v].file)

\* The result read is one the reader may report: unmarked and of the run's
\* generation.
Reportable(v, r) ==
  /\ r # None
  /\ ~reading[v].marked
  /\ r.generation = reading[v].generation

\* Such a result was fresh when run.json was read, or it is outdated for good.
Outdated(r) == r.tree < tree

ReadingIsSound ==
  \A v \in Readers :
    /\ reading[v].step \in {"file", "tree"} /\ Reportable(v, reading[v].registered) =>
         reading[v].fresh \/ Outdated(reading[v].registered)
    /\ reading[v].step = "tree" =>
         reading[v].file = reading[v].registered /\ Reportable(v, reading[v].file)
    /\ reading[v].step = "stale" /\ reading[v].file = reading[v].registered
         /\ Reportable(v, reading[v].file) => Outdated(reading[v].file)

IInv ==
  /\ TypeOK
  /\ OneSession
  /\ ResultsMade
  /\ WriterHolds
  /\ CompletedHasResult
  /\ StopTrusts
  /\ AskedIsCounted
  /\ ClosedUntilPrompted
  /\ ResultsArePast
  /\ ReadingIsSound
  /\ ReportsAreCurrent
-----------------------------------------------------------------------------
(* What the launcher and the sessions do to the record.                    *)

\* A prompt of some session gets through to the record.
Prompted == \E s \in Sessions : at[s] = "promptUpdate" /\ PromptUpdated(s)

\* How far the launcher and the sessions move the state of the record.
RecordMoves ==
  /\ writer' = writer
  /\ writer # None => run' = run
  /\ run'.generation = run.generation \/ run'.state = "running"
  /\ run'.state = "completed" => run.state = "completed"
  /\ run.state \in {"completed", "result-stale"} => run'.state = run.state \/ Prompted
  /\ run'.state \in Open => run.state \in Open \/ Prompted

\* The launcher reports its outcome on a run that is still its own only.
LEMMA LauncherMoves ==
  ASSUME LifecycleTypeOK, Launcher
  PROVE  RecordMoves /\ asked' = asked /\ seen' = seen
         /\ run'.stopAttempts = run.stopAttempts
         /\ \A s \in Sessions : at'[s] = at[s] \/ (s = First /\ at'[s] = "idle")
  <1> USE DEF LifecycleTypeOK, RecordMoves, Open, Unlocked
  <1>1. CASE LaunchBegins
    BY <1>1 DEF LaunchBegins, CanBecome, CanTransition, Run
  <1>2. CASE AgentStarts
    BY <1>2 DEF AgentStarts
  <1>3. CASE StartReturns
    BY <1>3 DEF StartReturns
  <1>4. CASE IdentityWritten
    BY <1>4 DEF IdentityWritten, Run
  <1>5. ASSUME NEW b \in BOOLEAN, Unlocked, UNCHANGED <<writer, at, seen, asked>>,
               run' = [run EXCEPT !.state = LaunchOutcome(b)]
        PROVE  RecordMoves /\ run'.stopAttempts = run.stopAttempts
    <2>1. run'.state = LaunchOutcome(b) /\ run'.generation = run.generation
          /\ run'.stopAttempts = run.stopAttempts
      BY <1>5 DEF Run
    <2>2. \/ run.state \in {"planned", "launching"} /\ LaunchOutcome(b) \in {"running", "failed"}
          \/ LaunchOutcome(b) = run.state
      BY DEF LaunchOutcome, LaunchersOwn
    <2>3. QED
      BY <1>5, <2>1, <2>2
  <1>6. CASE OutcomeWritten
    BY <1>5, <1>6 DEF OutcomeWritten
  <1>7. CASE FailureWritten
    BY <1>5, <1>7 DEF FailureWritten
  <1>8. CASE LaunchThrows \/ LauncherDies
    BY <1>8 DEF LaunchThrows, LauncherDies
  <1>9. QED
    BY <1>1, <1>2, <1>3, <1>4, <1>6, <1>7, <1>8 DEF Launcher, AgentStarts, LaunchBegins, StartReturns,
       IdentityWritten, OutcomeWritten, FailureWritten, LaunchThrows, LauncherDies

\* A session reopens a finished run, or moves its generation, by a prompt
\* only; and its Stop hook completes a run only that is complete.
LEMMA SessionMoves ==
  ASSUME LifecycleTypeOK, StopTrusts, NEW s \in Sessions, Session(s)
  PROVE  RecordMoves
  <1> USE DEF LifecycleTypeOK, RecordMoves, Open, Unlocked
  <1>1. CASE UserPrompts(s) \/ PromptRead(s) \/ PromptMarkDropped(s) \/ TurnEnds(s) \/ StopRead(s)
             \/ StopCheck(s) \/ StopMarkDropped(s) \/ SessionEnds(s) \/ HookFails(s) \/ Crash(s)
    BY <1>1 DEF UserPrompts, PromptRead, PromptMarkDropped, TurnEnds, StopRead, StopCheck,
       StopMarkDropped, SessionEnds, HookFails, Crash
  <1>2. CASE PromptMarked(s)
    BY <1>2 DEF PromptMarked, Run
  <1>3. CASE PromptUpdated(s)
    <2>1. Prompted
      BY <1>3 DEF Prompted, PromptUpdated, SessionGoes
    <2>2. run'.state = "running" /\ writer' = writer /\ writer = None
      <3>1. CASE IsFollowUp(s)
        BY <1>3, <3>1 DEF PromptUpdated, Run
      <3>2. CASE ~IsFollowUp(s)
        BY <1>3, <3>2 DEF PromptUpdated, Run
      <3>3. QED
        BY <3>1, <3>2
    <2>3. QED
      BY <2>1, <2>2
  <1>4. ASSUME Unlocked, UNCHANGED writer, NEW x \in RunStates, run' = [run EXCEPT !.state = x],
               \/ x = run.state
               \/ x \in {"interrupted", "manual-handoff-required"} /\ CanTransition(run.state, x)
        PROVE  RecordMoves
    <2>1. run'.state = x /\ run'.generation = run.generation
      BY <1>4 DEF Run
    <2>2. QED
      BY <1>4, <2>1 DEF CanTransition
  <1>5. CASE StopUpdated(s)
    <2>1. CASE StopDecides(s) = "none"
      <3>1. run' = [run EXCEPT !.state = IF seen[s].generation = run.generation THEN IfLegal("completed") ELSE run.state]
        BY <1>5, <2>1 DEF StopUpdated
      <3>2. CASE seen[s].generation # run.generation
        BY <1>4, <1>5, <3>1, <3>2 DEF StopUpdated, Run
      <3>3. CASE seen[s].generation = run.generation
        <4>1. run.state \in {"completed", "result-stale"}
          BY <1>5, <2>1, <3>3 DEF StopTrusts, StopUpdated, StopDecides, SessionGoes, Seen
        <4>2. IfLegal("completed") = run.state
          BY <4>1 DEF IfLegal, CanTransition
        <4>3. QED
          BY <1>4, <1>5, <3>1, <3>3, <4>2 DEF StopUpdated, Run
      <3>4. QED
        BY <3>2, <3>3
    <2>2. CASE StopDecides(s) = "manual"
      <3>1. run' = [run EXCEPT !.state = IfLegal("manual-handoff-required")] /\ Unlocked /\ UNCHANGED writer
        BY <1>5, <2>2 DEF StopUpdated
      <3>2. QED
        BY <1>4, <3>1 DEF IfLegal, Run, RunStates, Settling
    <2>3. CASE StopDecides(s) = "continue"
      <3>1. /\ run'.state = IF run.state = "running" THEN "idle-awaiting-handoff" ELSE run.state
            /\ run'.generation = run.generation
        BY <1>5, <2>3 DEF StopUpdated, Run
      <3>2. QED
        BY <1>5, <3>1 DEF StopUpdated
    <2>4. QED
      BY <1>5, <2>1, <2>2, <2>3 DEF StopUpdated
  <1>6. CASE StopMarked(s)
    BY <1>6 DEF StopMarked, Run
  <1>7. CASE SessionEndUpdated(s)
    <2>1. run' = [run EXCEPT !.state = IfLegal("interrupted")] /\ Unlocked /\ UNCHANGED writer
      BY <1>7 DEF SessionEndUpdated
    <2>2. QED
      BY <1>4, <2>1 DEF IfLegal, Run, RunStates, Settling
  <1>8. QED
    BY <1>1, <1>2, <1>3, <1>5, <1>6, <1>7 DEF Session, HookSteps
\* A session goes to the step where its Stop hook updates the record by
\* looking for a handoff, and counts the continuations it asks for.
LEMMA SessionKeeps ==
  ASSUME LifecycleTypeOK, OneSession, StopTrusts, AskedIsCounted, NEW s \in Sessions, Session(s)
  PROVE  OneSession' /\ StopTrusts' /\ AskedIsCounted'
  <1> USE DEF LifecycleTypeOK, SessionGoes
  <1>1. /\ s = First
        /\ at[s] # "absent"
        /\ \A t \in Sessions : t # s => at'[t] = at[t]
    <2>1. at[s] # "absent" /\ \A t \in Sessions : t # s => at'[t] = at[t]
      BY DEF Session, HookSteps, UserPrompts, PromptRead, PromptMarked, PromptMarkDropped, PromptUpdated,
         TurnEnds, StopRead, StopCheck, StopUpdated, StopMarked, StopMarkDropped, Continues, SessionEnds,
         SessionEndUpdated, HookFails, Crash, Alive, PromptSteps, StopSteps
    <2>2. QED
      BY <2>1 DEF OneSession
  <1>2. OneSession'
    BY <1>1 DEF OneSession
  <1>3. StopTrusts'
    <2>1. \A t \in Sessions : t # s => at'[t] # "stopUpdate"
      BY <1>1 DEF OneSession
    <2>2. CASE StopCheck(s)
      <3>1. seen'[s].valid = HandoffExists(seen[s].generation) /\ run' = run
        BY <2>2 DEF StopCheck, Seen
      <3>2. seen'[s].valid => run'.state = "completed"
        BY <3>1 DEF HandoffExists
      <3>3. QED
        BY <2>1, <3>2 DEF StopTrusts
    <2>3. CASE ~StopCheck(s)
      <3>1. at'[s] # "stopUpdate"
        BY <2>3 DEF Session, HookSteps, UserPrompts, PromptRead, PromptMarked, PromptMarkDropped, PromptUpdated,
           TurnEnds, StopRead, StopUpdated, StopMarked, StopMarkDropped, Continues, SessionEnds,
           SessionEndUpdated, HookFails, Crash
      <3>2. QED
        BY <2>1, <3>1 DEF StopTrusts
    <2>4. QED
      BY <2>2, <2>3
  <1>4. AskedIsCounted'
    <2>1. run.stopAttempts \in Nat /\ run.stopAttempts' \in Nat /\ asked \in Nat
      <3>1. LifecycleTypeOK'
        BY LifecycleTypes DEF LifecycleNext
      <3>2. QED
        BY <3>1 DEF Run, MaxStopAttempts
    <2>2. CASE PromptUpdated(s)
      <3>1. at'[s] = "turn" /\ at[s] = "promptUpdate"
        BY <2>2 DEF PromptUpdated
      <3>2. CASE IsFollowUp(s)
        <4>1. asked' = 0
          BY <2>2, <3>2 DEF PromptUpdated
        <4>2. QED
          BY <1>1, <2>1, <3>1, <4>1 DEF AskedIsCounted
      <3>3. CASE ~IsFollowUp(s)
        <4>1. asked' = asked /\ run'.stopAttempts = run.stopAttempts
          BY <2>2, <3>3 DEF PromptUpdated, Run
        <4>2. QED
          BY <1>1, <2>1, <3>1, <4>1 DEF AskedIsCounted
      <3>4. QED
        BY <3>2, <3>3
    <2>3. CASE StopUpdated(s)
      <3>1. CASE StopDecides(s) = "continue"
        <4>1. /\ at[s] = "stopUpdate" /\ at'[s] = "stopMark" /\ asked' = asked
              /\ run'.stopAttempts = run.stopAttempts + 1
          BY <2>3, <3>1 DEF StopUpdated, Run
        <4>2. QED
          BY <1>1, <2>1, <4>1 DEF AskedIsCounted
      <3>2. CASE StopDecides(s) # "continue"
        <4>1. at[s] = "stopUpdate" /\ at'[s] = "idle" /\ asked' = asked
          BY <2>3, <3>2 DEF StopUpdated
        <4>2. run'.stopAttempts = run.stopAttempts
          BY <2>3, <3>2 DEF StopUpdated, Run
        <4>3. QED
          BY <1>1, <2>1, <4>1, <4>2 DEF AskedIsCounted
      <3>3. QED
        BY <3>1, <3>2
    <2>4. CASE StopMarked(s) \/ StopMarkDropped(s)
      <3>1. at[s] = "stopMark" /\ at'[s] # "stopMark" /\ asked' = asked + 1
        BY <2>4 DEF StopMarked, StopMarkDropped, Continues
      <3>2. run'.stopAttempts = run.stopAttempts
        BY <2>4 DEF StopMarked, StopMarkDropped, Run
      <3>3. QED
        BY <1>1, <2>1, <3>1, <3>2 DEF AskedIsCounted
    <2>5. CASE ~(PromptUpdated(s) \/ StopUpdated(s) \/ StopMarked(s) \/ StopMarkDropped(s))
      <3>1. at'[s] # "stopMark" /\ asked' = asked
        BY <2>5 DEF Session, HookSteps, UserPrompts, PromptRead, PromptMarked, PromptMarkDropped,
           TurnEnds, StopRead, StopCheck, SessionEnds, SessionEndUpdated, HookFails, Crash
      <3>2. run'.stopAttempts = run.stopAttempts
        BY <2>5 DEF Session, HookSteps, UserPrompts, PromptRead, PromptMarked, PromptMarkDropped,
           TurnEnds, StopRead, StopCheck, SessionEnds, SessionEndUpdated, HookFails, Crash, Run
      <3>3. QED
        BY <1>1, <2>1, <3>1, <3>2 DEF AskedIsCounted
    <2>6. QED
      BY <2>2, <2>3, <2>4, <2>5
  <1>5. QED
    BY <1>2, <1>3, <1>4

\* The launcher starts the first session and disturbs no hook.
LEMMA LauncherKeeps ==
  ASSUME LifecycleTypeOK, OneSession, StopTrusts, AskedIsCounted, Launcher
  PROVE  OneSession' /\ StopTrusts' /\ AskedIsCounted'
  <1>1. /\ RecordMoves /\ asked' = asked /\ seen' = seen
        /\ run'.stopAttempts = run.stopAttempts
        /\ \A s \in Sessions : at'[s] = at[s] \/ (s = First /\ at'[s] = "idle")
    BY LauncherMoves
  <1>2. OneSession'
    BY <1>1 DEF OneSession
  <1>3. ~Prompted
    BY <1>1 DEF Prompted, PromptUpdated, SessionGoes, LifecycleTypeOK
  <1>4. StopTrusts'
    BY <1>1, <1>3 DEF StopTrusts, RecordMoves
  <1>5. AskedIsCounted'
    <2>1. run.stopAttempts \in Nat /\ asked \in Nat
      BY DEF LifecycleTypeOK, Run, MaxStopAttempts
    <2>2. at'[First] = "stopMark" => at[First] = "stopMark"
      BY <1>1, LifecycleConstants
    <2>3. QED
      BY <1>1, <2>1, <2>2 DEF AskedIsCounted
  <1>6. QED
    BY <1>2, <1>4, <1>5
-----------------------------------------------------------------------------
(* The inductive invariant holds.                                          *)

\* Init establishes it ...
LEMMA InvInit == Init => IInv
  <1> SUFFICES ASSUME Init PROVE IInv
    OBVIOUS
  <1> USE DEF Init, LifecycleInit
  <1>1. 1 \in Generations /\ First \in Sessions
    BY LifecycleConstants DEF Generations
  <1>2. NoHook \in Seen
    BY <1>1 DEF NoHook, Seen
  <1>3. LifecycleTypeOK
    BY <1>1, <1>2 DEF LifecycleTypeOK, Run, RunStates, LaunchSteps, SessionSteps, MaxStopAttempts
  <1>4. TypeOK
    <2>1. [step |-> "idle", result |-> None] \in Submission
      BY DEF Submission
    <2>2. NotReading \in Reading
      BY <1>1 DEF NotReading, Reading
    <2>3. 0 \in 0..MaxEdits
      BY HandoffConstants
    <2>4. QED
      BY <1>3, <2>1, <2>2, <2>3 DEF TypeOK
  <1>5. OneSession /\ StopTrusts /\ AskedIsCounted
    BY <1>1 DEF OneSession, StopTrusts, AskedIsCounted
  <1>6. ResultsMade /\ WriterHolds
    BY HandoffConstants DEF ResultsMade, WriterHolds
  <1>7. CompletedHasResult /\ ClosedUntilPrompted
    BY DEF CompletedHasResult, ClosedUntilPrompted
  <1>8. ResultsArePast /\ ReadingIsSound /\ ReportsAreCurrent
    BY DEF ResultsArePast, Past, ReadingIsSound, ReportsAreCurrent, NotReading
  <1>9. QED
    BY <1>4, <1>5, <1>6, <1>7, <1>8 DEF IInv

\* A worker's step moves the record within the invariant, and leaves what
\* belongs to the handoffs alone.
LEMMA WorkerKeeps == IInv /\ Worker => IInv'
  <1> SUFFICES ASSUME IInv, Worker PROVE IInv'
    OBVIOUS
  <1> USE DEF IInv
  <1>1. UNCHANGED <<tree, artifact, registered, submission, reading>> /\ LifecycleNext /\ LifecycleTypeOK
    BY DEF Worker, TypeOK
  <1>2. RecordMoves
    BY <1>1, LauncherMoves, SessionMoves DEF LifecycleNext
  <1>3. reopened' = (reopened \/ Prompted)
    BY DEF Worker, Prompted
  <1>4. TypeOK'
    BY <1>1, <1>2, <1>3, LifecycleTypes DEF TypeOK, RecordMoves
  <1>5. OneSession' /\ StopTrusts' /\ AskedIsCounted'
    BY <1>1, LauncherKeeps, SessionKeeps DEF LifecycleNext
  <1>6. ResultsMade'
    BY <1>1 DEF ResultsMade
  <1>7. WriterHolds'
    BY <1>1, <1>2, HandoffConstants DEF WriterHolds, RecordMoves
  <1>8. CompletedHasResult'
    BY <1>1, <1>2 DEF CompletedHasResult, RecordMoves
  <1>9. ClosedUntilPrompted'
    BY <1>2, <1>3 DEF ClosedUntilPrompted, RecordMoves
  <1>10. ResultsArePast' /\ ReadingIsSound' /\ ReportsAreCurrent'
    BY <1>1 DEF ResultsArePast, Past, ReadingIsSound, Reportable, Outdated, ReportsAreCurrent
  <1>11. QED
    BY <1>4, <1>5, <1>6, <1>7, <1>8, <1>9, <1>10

\* An edit outdates what was fresh, and brings nothing back.
LEMMA EditKeeps == IInv /\ Edit => IInv'
  <1> SUFFICES ASSUME IInv, Edit PROVE IInv'
    OBVIOUS
  <1> USE DEF IInv
  <1>1. /\ tree' = tree + 1 /\ tree < MaxEdits /\ tree \in Nat
        /\ UNCHANGED <<lifecycleVars, artifact, registered, submission, reading, reopened>>
    BY DEF Edit, TypeOK
  <1>2. TypeOK'
    BY <1>1, HandoffConstants DEF TypeOK, LifecycleTypeOK, lifecycleVars
  <1>3. /\ OneSession' /\ ResultsMade' /\ WriterHolds' /\ CompletedHasResult' /\ StopTrusts'
        /\ AskedIsCounted' /\ ClosedUntilPrompted' /\ ReportsAreCurrent'
    BY <1>1 DEF OneSession, ResultsMade, WriterHolds, CompletedHasResult, StopTrusts, AskedIsCounted,
       ClosedUntilPrompted, ReportsAreCurrent, lifecycleVars
  <1>4. \A r \in Result \cup {None} : (Past(r) /\ r # None) => r.tree <= tree + 1
    BY <1>1 DEF Past, Result
  <1>5. ResultsArePast'
    BY <1>1, <1>4 DEF ResultsArePast, Past, TypeOK, Submission, Reading
  <1>6. \A r \in Result : Outdated(r) => r.tree < tree + 1
    BY <1>1 DEF Outdated, Result
  <1>7. ReadingIsSound'
    <2>1. \A v \in Readers : /\ reading[v].registered \in Result \cup {None}
                             /\ reading[v].file \in Result \cup {None}
      BY DEF TypeOK, Reading
    <2>2. QED
      BY <1>1, <1>6, <2>1 DEF ReadingIsSound, Reportable, Outdated
  <1>8. QED
    BY <1>2, <1>3, <1>5, <1>7
\* A submission registers its result while the run still accepts it.
LEMMA SubmitKeeps == ASSUME IInv, NEW c \in Submitters, Submit(c) PROVE IInv'
  <1> USE DEF IInv
  <1>0. /\ UNCHANGED <<launch, at, seen, asked, tree, reading>>
        /\ \A d \in Submitters : d # c => submission'[d] = submission[d]
        /\ submission \in [Submitters -> Submission]
        /\ submission[c] \in Submission
    BY DEF Submit, SubmitRead, SubmitFingerprint, SubmitWrites, SubmitRegisters, SubmitFails,
       lifecycleVars, TypeOK
  <1>1. c # None
    BY HandoffConstants
  <1>2. ReadingIsSound' /\ ReportsAreCurrent'
    BY <1>0 DEF ReadingIsSound, Reportable, Outdated, ReportsAreCurrent
  <1>3. OneSession'
    BY <1>0 DEF OneSession
  <1>4. ASSUME UNCHANGED <<run, writer, artifact, registered, reopened>>,
               NEW x \in Submission, submission' = [submission EXCEPT ![c] = x],
               submission[c].step # "register", x.step # "register",
               x.step \in {"fingerprint", "commit"} => x.result \in Result,
               Past(x.result)
        PROVE  IInv'
    <2>1. TypeOK'
      BY <1>0, <1>4 DEF TypeOK, LifecycleTypeOK
    <2>2. CompletedHasResult' /\ StopTrusts' /\ AskedIsCounted' /\ ClosedUntilPrompted'
      BY <1>0, <1>4 DEF CompletedHasResult, StopTrusts, AskedIsCounted, ClosedUntilPrompted
    <2>3. ResultsMade' /\ WriterHolds'
      BY <1>0, <1>4 DEF ResultsMade, WriterHolds
    <2>4. ResultsArePast'
      BY <1>0, <1>4 DEF ResultsArePast, Past
    <2>5. QED
      BY <1>2, <1>3, <2>1, <2>2, <2>3, <2>4
  <1>5. CASE SubmitRead(c)
    <2>1. PICK status \in Statuses :
            submission' = [submission EXCEPT ![c] =
              [step |-> "fingerprint",
               result |-> [generation |-> run.generation, status |-> status, tree |-> 0]]]
      BY <1>5 DEF SubmitRead
    <2>2. [generation |-> run.generation, status |-> status, tree |-> 0] \in Result
      BY HandoffConstants DEF Result, TypeOK, LifecycleTypeOK, Run
    <2>3. [step |-> "fingerprint",
           result |-> [generation |-> run.generation, status |-> status, tree |-> 0]] \in Submission
      BY <2>2 DEF Submission
    <2>4. Past([generation |-> run.generation, status |-> status, tree |-> 0])
      BY HandoffConstants DEF Past, TypeOK
    <2>5. UNCHANGED <<run, writer, artifact, registered, reopened>> /\ submission[c].step = "idle"
      BY <1>5 DEF SubmitRead, lifecycleVars
    <2>6. QED
      BY <1>4, <2>1, <2>2, <2>3, <2>4, <2>5
  <1>6. CASE SubmitFingerprint(c)
    <2> DEFINE r == [submission[c].result EXCEPT !.tree = tree]
    <2>1. submission[c].result \in Result /\ tree \in 0..MaxEdits
      BY <1>6 DEF SubmitFingerprint, ResultsMade, TypeOK
    <2>2. r \in Result /\ r.tree = tree
      BY <2>1 DEF Result
    <2>3. Past(r)
      BY <2>1, <2>2, HandoffConstants DEF Past
    <2>4. [step |-> "commit", result |-> r] \in Submission
      BY <2>2 DEF Submission
    <2>5. /\ UNCHANGED <<run, writer, artifact, registered, reopened>>
          /\ submission[c].step = "fingerprint"
          /\ submission' = [submission EXCEPT ![c] = [step |-> "commit", result |-> r]]
      BY <1>6 DEF SubmitFingerprint, lifecycleVars
    <2> HIDE DEF r
    <2>6. QED
      BY <1>4, <2>2, <2>3, <2>4, <2>5
  <1>7. CASE SubmitWrites(c)
    <2>1. /\ writer = None /\ writer' = c /\ artifact' = submission[c].result
          /\ submission' = [submission EXCEPT ![c] = [submission[c] EXCEPT !.step = "register"]]
          /\ submission[c].step = "commit"
          /\ AcceptsHandoff(run.state)
          /\ run.generation = submission[c].result.generation
          /\ UNCHANGED <<run, registered, reopened>>
      BY <1>7 DEF SubmitWrites, Unlocked, StillExpected
    <2>2. submission[c].result \in Result
      BY <2>1 DEF ResultsMade
    <2>3. [submission[c] EXCEPT !.step = "register"] \in Submission
      BY <1>0 DEF Submission
    <2>4. TypeOK'
      BY <1>0, <2>1, <2>2, <2>3 DEF TypeOK, LifecycleTypeOK
    <2>5. CompletedHasResult' /\ StopTrusts' /\ AskedIsCounted' /\ ClosedUntilPrompted'
      BY <1>0, <2>1 DEF CompletedHasResult, StopTrusts, AskedIsCounted, ClosedUntilPrompted
    <2>6. submission'[c].step = "register" /\ submission'[c].result = submission[c].result
      BY <1>0, <2>1 DEF Submission
    <2>7. ResultsMade'
      BY <1>0, <2>2, <2>6 DEF ResultsMade
    <2>8. WriterHolds'
      BY <1>0, <1>1, <2>1, <2>6, HandoffConstants DEF WriterHolds
    <2>9. ResultsArePast'
      BY <1>0, <2>1, <2>6 DEF ResultsArePast, Past
    <2>10. QED
      BY <1>2, <1>3, <2>4, <2>5, <2>7, <2>8, <2>9
  <1>8. CASE SubmitRegisters(c)
    <2>1. /\ submission[c].step = "register"
          /\ writer' = None /\ registered' = artifact /\ reopened' = FALSE
          /\ run' = [run EXCEPT !.state = artifact.status]
          /\ submission' = [submission EXCEPT ![c] = [step |-> "done", result |-> None]]
          /\ UNCHANGED artifact
      BY <1>8 DEF SubmitRegisters
    <2>2. /\ writer = c /\ AcceptsHandoff(run.state) /\ artifact \in Result
          /\ artifact.generation = run.generation
      BY <2>1 DEF WriterHolds, ResultsMade
    <2>3. artifact.status \in {"completed", "blocked", "needs-input", "failed"} /\ artifact # None
      BY <2>2, HandoffConstants, NoResult DEF Result
    <2>4. /\ run' \in Run /\ run'.state = artifact.status /\ run'.generation = run.generation
          /\ run'.stopAttempts = run.stopAttempts
      BY <2>1, <2>3 DEF TypeOK, LifecycleTypeOK, Run, RunStates, Settling
    <2>5. [step |-> "done", result |-> None] \in Submission
      BY DEF Submission
    <2>6. TypeOK'
      BY <1>0, <2>1, <2>2, <2>4, <2>5 DEF TypeOK, LifecycleTypeOK
    <2>7. CompletedHasResult'
      BY <2>1, <2>2, <2>3, <2>4 DEF CompletedHasResult
    <2>8. StopTrusts'
      BY <1>0, <2>2 DEF StopTrusts, AcceptsHandoff
    <2>9. AskedIsCounted'
      BY <1>0, <2>4 DEF AskedIsCounted
    <2>10. ClosedUntilPrompted'
      BY <2>3, <2>4 DEF ClosedUntilPrompted, Open
    <2>11. submission'[c].step = "done" /\ submission'[c].result = None
      BY <1>0, <2>1
    <2>12. ResultsMade' /\ WriterHolds'
      BY <1>0, <1>1, <2>1, <2>2, <2>11, HandoffConstants DEF ResultsMade, WriterHolds
    <2>13. ResultsArePast'
      BY <1>0, <2>1, <2>11 DEF ResultsArePast, Past
    <2>14. QED
      BY <1>2, <1>3, <2>6, <2>7, <2>8, <2>9, <2>10, <2>12, <2>13
  <1>9. CASE SubmitFails(c)
    <2>1. /\ submission' = [submission EXCEPT ![c] = [step |-> "done", result |-> None]]
          /\ writer' = IF writer = c THEN None ELSE writer
          /\ UNCHANGED <<run, artifact, registered, reopened>>
      BY <1>9 DEF SubmitFails
    <2>2. [step |-> "done", result |-> None] \in Submission
      BY DEF Submission
    <2>3. TypeOK'
      BY <1>0, <2>1, <2>2 DEF TypeOK, LifecycleTypeOK
    <2>4. CompletedHasResult' /\ StopTrusts' /\ AskedIsCounted' /\ ClosedUntilPrompted'
      BY <1>0, <2>1 DEF CompletedHasResult, StopTrusts, AskedIsCounted, ClosedUntilPrompted
    <2>5. submission'[c].step = "done" /\ submission'[c].result = None
      BY <1>0, <2>1
    <2>6. ResultsMade' /\ WriterHolds'
      BY <1>0, <1>1, <2>1, <2>5, HandoffConstants DEF ResultsMade, WriterHolds
    <2>7. ResultsArePast'
      BY <1>0, <2>1, <2>5 DEF ResultsArePast, Past
    <2>8. QED
      BY <1>2, <1>3, <2>3, <2>4, <2>6, <2>7
  <1>10. QED
    BY <1>5, <1>6, <1>7, <1>8, <1>9 DEF Submit
\* A reading reports a result it may report and found fresh, and finds stale
\* what is.
LEMMA ReadKeeps == ASSUME IInv, NEW v \in Readers, Read(v) PROVE IInv'
  <1> USE DEF IInv
  <1>0. /\ UNCHANGED <<writer, launch, at, seen, asked, tree, artifact, registered, submission, reopened>>
        /\ \A w \in Readers : w # v => reading'[w] = reading[w]
        /\ reading \in [Readers -> Reading]
        /\ reading[v] \in Reading
    BY DEF Read, ReadRun, ReadFile, ReadTree, MarkStale, ReadEnds, ReadGoes, ReadReturns,
       lifecycleVars, TypeOK
  <1>1. /\ run' = run \/ (MarkStale(v) /\ writer = None /\ run' = [run EXCEPT !.state = "result-stale"])
        /\ run \in Run
    BY DEF Read, ReadRun, ReadFile, ReadTree, MarkStale, ReadEnds, lifecycleVars, Unlocked,
       TypeOK, LifecycleTypeOK
  <1>2. /\ run' \in Run
        /\ run'.stopAttempts = run.stopAttempts
        /\ run'.generation = run.generation
        /\ run'.state = run.state \/ (writer = None /\ run'.state = "result-stale")
    BY <1>1 DEF Run, RunStates, Settling
  <1>3. LifecycleTypeOK'
    BY <1>0, <1>2 DEF TypeOK, LifecycleTypeOK
  <1>4. OneSession' /\ ResultsMade'
    BY <1>0 DEF OneSession, ResultsMade
  <1>5. WriterHolds'
    BY <1>0, <1>2, HandoffConstants DEF WriterHolds
  <1>6. CompletedHasResult' /\ StopTrusts' /\ ClosedUntilPrompted'
    BY <1>0, <1>2 DEF CompletedHasResult, StopTrusts, ClosedUntilPrompted, Open
  <1>7. AskedIsCounted'
    BY <1>0, <1>2 DEF AskedIsCounted
  <1>8. ASSUME NEW x \in Reading, reading' = [reading EXCEPT ![v] = x],
               Past(x.registered), Past(x.file),
               (ReadingIsSound /\ ReportsAreCurrent)'
        PROVE  IInv'
    <2>1. TypeOK'
      BY <1>0, <1>3, <1>8 DEF TypeOK
    <2>2. ResultsArePast'
      BY <1>0, <1>8 DEF ResultsArePast, Past
    <2>3. QED
      BY <1>4, <1>5, <1>6, <1>7, <1>8, <2>1, <2>2
  <1>9. CASE ReadRun(v)
    <2> DEFINE x == [step |-> "file", marked |-> run.state = "result-stale", generation |-> run.generation,
                     registered |-> registered, file |-> None, fresh |-> Fresh]
    <2>1. Fresh \in BOOLEAN /\ run.generation \in Generations /\ registered \in Result \cup {None}
      BY DEF Fresh, TypeOK, LifecycleTypeOK, Run
    <2>2. x \in Reading
      BY <2>1 DEF Reading
    <2>3. reading' = [reading EXCEPT ![v] = x]
      BY <1>9 DEF ReadRun
    <2>4. Past(x.registered) /\ Past(x.file)
      BY DEF ResultsArePast, Past
    <2>5. reading'[v] = x
      BY <1>0, <2>3
    <2>6. registered # None /\ run.state # "result-stale" /\ registered.generation = run.generation =>
            Fresh \/ registered.tree < tree
      <3>1. SUFFICES ASSUME registered # None PROVE registered.tree = tree \/ registered.tree < tree
        BY DEF Fresh
      <3>2. registered.tree \in Nat /\ tree \in Nat /\ registered.tree <= tree
        BY <2>1, <3>1, HandoffConstants DEF Result, TypeOK, ResultsArePast, Past
      <3>3. QED
        BY <3>2
    <2>7. /\ x.step = "file" /\ x.registered = registered /\ x.generation = run.generation
          /\ x.marked = (run.state = "result-stale") /\ x.fresh = Fresh
      OBVIOUS
    <2> HIDE DEF x
    <2>8. ReadingIsSound'
      <3>1. x.registered # None /\ ~x.marked /\ x.registered.generation = x.generation
              => x.fresh \/ x.registered.tree < tree
        BY <2>6, <2>7
      <3>2. QED
        BY <1>0, <2>5, <2>7, <3>1 DEF ReadingIsSound, Reportable, Outdated
    <2>9. ReportsAreCurrent'
      BY <1>0, <2>5, <2>7 DEF ReportsAreCurrent
    <2>10. QED
      BY <1>8, <2>2, <2>3, <2>4, <2>8, <2>9
  <1>10. CASE ReadFile(v)
    <2> DEFINE x == [reading[v] EXCEPT !.file = artifact, !.step = IF ShapeIsGood(v) THEN "tree" ELSE "stale"]
    <2>1. reading' = [reading EXCEPT ![v] = x] /\ reading[v].step = "file"
      BY <1>10 DEF ReadFile
    <2>2. /\ x \in Reading
          /\ x.step = (IF ShapeIsGood(v) THEN "tree" ELSE "stale")
          /\ x.file = artifact
          /\ x.registered = reading[v].registered
          /\ x.marked = reading[v].marked
          /\ x.generation = reading[v].generation
          /\ x.fresh = reading[v].fresh
      <3>1. artifact \in Result \cup {None}
        BY DEF TypeOK
      <3>2. (IF ShapeIsGood(v) THEN "tree" ELSE "stale") \in {"tree", "stale"}
        OBVIOUS
      <3>3. QED
        BY <1>0, <3>1, <3>2 DEF Reading
    <2> HIDE DEF x
    <2>3. Past(x.registered) /\ Past(x.file)
      BY <2>2 DEF ResultsArePast, Past
    <2>4. reading'[v] = x
      BY <1>0, <2>1
    <2>5. ReadingIsSound'
      <3>1. CASE ShapeIsGood(v)
        <4>1. x.step = "tree" /\ artifact = reading[v].registered
              /\ Reportable(v, artifact)
          BY <2>2, <3>1 DEF ShapeIsGood, Reportable
        <4>2. QED
          BY <1>0, <2>1, <2>2, <2>4, <4>1 DEF ReadingIsSound, Reportable, Outdated
      <3>2. CASE ~ShapeIsGood(v)
        <4>1. x.step = "stale" /\ ~(artifact = reading[v].registered /\ Reportable(v, artifact))
          BY <2>2, <3>2 DEF ShapeIsGood, Reportable
        <4>2. QED
          BY <1>0, <2>1, <2>2, <2>4, <4>1 DEF ReadingIsSound, Reportable, Outdated
      <3>3. QED
        BY <3>1, <3>2
    <2>6. ReportsAreCurrent'
      BY <1>0, <2>2, <2>4 DEF ReportsAreCurrent
    <2>7. QED
      BY <1>8, <2>1, <2>2, <2>3, <2>5, <2>6
  <1>11. CASE ReadTree(v)
    <2> DEFINE step == IF reading[v].file.tree = tree THEN "reported" ELSE "stale"
    <2> DEFINE x == [reading[v] EXCEPT !.step = step]
    <2>1. reading' = [reading EXCEPT ![v] = x] /\ reading[v].step = "tree"
      BY <1>11 DEF ReadTree, ReadGoes
    <2>2. /\ x \in Reading /\ x.step = step
          /\ x.file = reading[v].file /\ x.registered = reading[v].registered
          /\ x.marked = reading[v].marked /\ x.generation = reading[v].generation
          /\ x.fresh = reading[v].fresh
      <3>1. step \in {"reported", "stale"}
        OBVIOUS
      <3> HIDE DEF step
      <3>2. QED
        BY <1>0, <3>1 DEF Reading
    <2> HIDE DEF x
    <2>3. Past(x.registered) /\ Past(x.file)
      BY <2>2 DEF ResultsArePast, Past
    <2>4. reading'[v] = x
      BY <1>0, <2>1
    <2>5. /\ reading[v].file = reading[v].registered /\ Reportable(v, reading[v].file)
          /\ reading[v].fresh \/ Outdated(reading[v].file)
      BY <2>1 DEF ReadingIsSound
    <2>6. reading[v].file.tree \in Nat /\ tree \in Nat /\ reading[v].file.tree <= tree
      BY <1>0, <2>5, HandoffConstants DEF Reading, Reportable, Result, TypeOK, ResultsArePast, Past
    <2>7. CASE reading[v].file.tree = tree
      <3>1. reading[v].fresh /\ x.step = "reported"
        BY <2>2, <2>5, <2>6, <2>7 DEF Outdated
      <3>2. QED
        BY <1>0, <1>8, <2>1, <2>2, <2>3, <2>4, <3>1
           DEF ReadingIsSound, ReportsAreCurrent, Reportable, Outdated
    <2>8. CASE reading[v].file.tree # tree
      <3>1. reading[v].file.tree < tree /\ x.step = "stale"
        BY <2>2, <2>6, <2>8
      <3>2. QED
        BY <1>0, <1>8, <2>1, <2>2, <2>3, <2>4, <3>1
           DEF ReadingIsSound, ReportsAreCurrent, Reportable, Outdated
    <2>9. QED
      BY <2>7, <2>8
  <1>12. CASE MarkStale(v) \/ ReadEnds(v)
    <2> DEFINE x == [NotReading EXCEPT !.step = "done"]
    <2>1. reading' = [reading EXCEPT ![v] = x]
      BY <1>12 DEF MarkStale, ReadEnds, ReadReturns
    <2>2. x \in Reading /\ x.step = "done" /\ x.registered = None /\ x.file = None
      <3>1. 1 \in Generations
        BY LifecycleConstants DEF Generations
      <3>2. QED
        BY <3>1 DEF NotReading, Reading
    <2> HIDE DEF x
    <2>3. reading'[v] = x
      BY <1>0, <2>1
    <2>4. Past(x.registered) /\ Past(x.file)
      BY <2>2 DEF Past
    <2>5. ReadingIsSound' /\ ReportsAreCurrent'
      BY <1>0, <2>2, <2>3 DEF ReadingIsSound, ReportsAreCurrent, Reportable, Outdated
    <2>6. QED
      BY <1>8, <2>1, <2>2, <2>4, <2>5
  <1>13. QED
    BY <1>9, <1>10, <1>11, <1>12 DEF Read

\* ... every step preserves it ...
LEMMA InvStep == IInv /\ [Next]_vars => IInv'
  <1>1. IInv /\ UNCHANGED vars => IInv'
    BY DEF IInv, TypeOK, LifecycleTypeOK, OneSession, ResultsMade, WriterHolds, CompletedHasResult, StopTrusts,
       AskedIsCounted, ClosedUntilPrompted, ResultsArePast, Past, ReadingIsSound, Reportable,
       Outdated, ReportsAreCurrent, vars, lifecycleVars, handoffVars
  <1>2. QED
    BY <1>1, WorkerKeeps, EditKeeps, SubmitKeeps, ReadKeeps DEF Next

\* ... and so it holds in every state.
LEMMA Invariance == Spec => []IInv
  BY InvInit, InvStep, PTL DEF Spec
-----------------------------------------------------------------------------
(* What follows from it.                                                   *)

\* Handoff's variables keep their types in every behaviour.
THEOREM TypeCorrect == Spec => []TypeOK
  BY Invariance, PTL DEF IInv

\* A completed run has a registered, completed result of its generation,
\* however many commands, hooks and readers write run.json beside it.
THEOREM CompletionIsHandedIn == Spec => []CompletedHasResult
  BY Invariance, PTL DEF IInv

\* Whatever is written between the three reads of readCurrentResult, what it
\* reports as current was current when it read run.json.
THEOREM CurrentWhenReported == Spec => []ReportsAreCurrent
  BY Invariance, PTL DEF IInv

\* The hooks ask for a handoff at most MaxStopAttempts times a generation,
\* whatever updates are refused and whichever hooks die.
THEOREM StopsAreBounded == Spec => []StopBudget
  <1>1. IInv => StopBudget
    BY DEF IInv, TypeOK, LifecycleTypeOK, Run, MaxStopAttempts, AskedIsCounted, StopBudget
  <1>2. QED
    BY <1>1, Invariance, PTL

\* Between two handoffs a prompt has got through to the record: the check in
\* the updater lets one of any number of concurrent commands through.
THEOREM HandoffsNeedPrompts == Spec => OneHandoffPerPrompt
  <1>1. IInv /\ [Next]_vars => [registered' # registered => reopened]_vars
    <2> SUFFICES ASSUME IInv, Next, registered' # registered PROVE reopened
      BY DEF vars
    <2>1. PICK c \in Submitters : SubmitRegisters(c)
      BY DEF Next, Worker, Edit, Submit, SubmitRead, SubmitFingerprint, SubmitWrites, SubmitFails,
         Read, ReadRun, ReadFile, ReadTree, MarkStale, ReadEnds
    <2>2. AcceptsHandoff(run.state)
      BY <2>1 DEF SubmitRegisters, IInv, WriterHolds
    <2>3. QED
      BY <2>2 DEF IInv, ClosedUntilPrompted, AcceptsHandoff, Open, TypeOK
  <1>2. QED
    BY <1>1, Invariance, PTL DEF Spec, OneHandoffPerPrompt

\* A finished run is taken back by a prompt or by a reader that finds its
\* result stale, and never by the launcher or by a hook that comes late.
THEOREM FinishingHolds == Spec => FinishedRunReopensOnPrompt
  <1> DEFINE Reopens == run'.state = "result-stale" \/ \E s \in Sessions : at[s] = "promptUpdate" /\ at'[s] = "turn"
  <1>1. ASSUME IInv, Next, run.state = "completed", run'.state # "completed" PROVE Reopens
    <2>1. CASE Worker
      <3>1. RecordMoves
        BY <1>1, <2>1, LauncherMoves, SessionMoves DEF Worker, LifecycleNext, IInv, TypeOK
      <3>2. Prompted
        BY <1>1, <3>1 DEF RecordMoves
      <3>3. QED
        BY <1>1, <3>2 DEF Prompted, PromptUpdated, SessionGoes, IInv, TypeOK, LifecycleTypeOK
    <2>2. CASE Edit
      BY <1>1, <2>2 DEF Edit, lifecycleVars
    <2>3. ASSUME NEW c \in Submitters, Submit(c) PROVE FALSE
      <3>1. SubmitRegisters(c)
        BY <1>1, <2>3 DEF Submit, SubmitRead, SubmitFingerprint, SubmitWrites, SubmitFails, lifecycleVars
      <3>2. QED
        BY <1>1, <3>1 DEF SubmitRegisters, IInv, WriterHolds, AcceptsHandoff
    <2>4. ASSUME NEW v \in Readers, Read(v) PROVE run'.state = "result-stale"
      <3>1. MarkStale(v)
        BY <1>1, <2>4 DEF Read, ReadRun, ReadFile, ReadTree, ReadEnds, lifecycleVars
      <3>2. QED
        BY <1>1, <3>1 DEF MarkStale, IInv, TypeOK, LifecycleTypeOK, Run
    <2>5. QED
      BY <1>1, <2>1, <2>2, <2>3, <2>4 DEF Next
  <1>2. IInv /\ [Next]_vars => [run.state = "completed" /\ run'.state # "completed" => Reopens]_vars
    BY <1>1
  <1>3. QED
    BY <1>2, Invariance, PTL DEF Spec, FinishedRunReopensOnPrompt

\* A reader marks stale what is stale: assertObservedResultMetadata refuses
\* every reader whose observation is out of date, but for the two exceptions
\* that StaleMarksAreDue names.
THEOREM MarksAreDue == Spec => StaleMarksAreDue
  <1> DEFINE Due(v) ==
        /\ reading[v].step = "stale" /\ reading'[v].step = "done"
        /\ run.state # "result-stale" /\ run'.state = "result-stale"
        /\ Fresh /\ artifact = registered
        => /\ registered = reading[v].registered
           /\ registered # reading[v].file \/ reading[v].marked
  <1>1. ASSUME IInv, Next, NEW v \in Readers,
               reading[v].step = "stale", reading'[v].step = "done",
               run.state # "result-stale", run'.state = "result-stale", Fresh
        PROVE  /\ registered = reading[v].registered
               /\ registered # reading[v].file \/ reading[v].marked
    <2>1. reading' # reading /\ reading \in [Readers -> Reading]
      BY <1>1 DEF IInv, TypeOK
    <2>2. PICK w \in Readers : Read(w)
      BY <1>1, <2>1 DEF Next, Worker, Edit, Submit, SubmitRead, SubmitFingerprint, SubmitWrites,
         SubmitRegisters, SubmitFails
    <2>3. w = v
      BY <1>1, <2>1, <2>2 DEF Read, ReadRun, ReadFile, ReadTree, MarkStale, ReadEnds, ReadGoes, ReadReturns
    <2>4. MarkStale(v)
      BY <1>1, <2>2, <2>3 DEF Read, ReadRun, ReadFile, ReadTree, ReadEnds, lifecycleVars
    <2>5. run.generation = reading[v].generation /\ registered = reading[v].registered
      BY <2>4 DEF MarkStale, MetadataUnchanged
    <2>6. SUFFICES ASSUME registered = reading[v].file, ~reading[v].marked PROVE FALSE
      BY <2>5
    <2>7. Reportable(v, reading[v].file)
      BY <1>1, <2>5, <2>6 DEF Reportable, Fresh
    <2>8. reading[v].file.tree < tree
      BY <1>1, <2>5, <2>6, <2>7 DEF IInv, ReadingIsSound, Outdated
    <2>9. reading[v].file.tree = tree /\ tree \in Nat
      BY <1>1, <2>6, HandoffConstants DEF Fresh, IInv, TypeOK
    <2>10. QED
      BY <2>8, <2>9
  <1>2. IInv /\ [Next]_vars => [\A v \in Readers : Due(v)]_vars
    BY <1>1
  <1>3. QED
    BY <1>2, Invariance, PTL DEF Spec, StaleMarksAreDue

(***************************************************************************)
(* A second inductive invariant, over the first: what a prompt is taken for *)
(* when no mark is refused and continuations fire UserPromptSubmit.        *)
(***************************************************************************)

MarksArrive == ~Contention /\ ContinuationPrompts

\* What the hook has read about a prompt is true of it until the record is updated:
\* a continuation is pending exactly from the Stop hook's answer to the hook of the
\* prompt that it fires, and a session that has prompted has left its start behind.
PromptInv ==
  /\ at[First] = "absent" => ~run.pending /\ seen[First] = NoHook
  /\ Alive(First) =>
       /\ seen[First].begun => run.startedOnce /\ ~LaunchersOwn(run.state)
       /\ run.pending <=> at[First] \in {"promptRead", "promptContinuation"} /\ seen[First].prompter = "continuation"
       /\ at[First] = "promptStarted" => ~seen[First].begun
       /\ at[First] = "promptContinuation" =>
            seen[First].prompter = "continuation" /\ seen[First].source = "continuation"
       /\ at[First] = "promptUpdate" =>
            /\ run.startedOnce
            /\ seen[First].begun =>
                 IF seen[First].prompter = "user"
                 THEN seen[First].source = "user" /\ seen[First].generation = run.generation + 1
                 ELSE seen[First].source = "continuation"
       /\ at[First] \in {"turn"} \cup StopSteps => seen[First].begun
       /\ seen[First].prompter = "continuation" => seen[First].begun

\* Nobody but the session's hooks moves what the invariant is about, except for the
\* state, which nobody puts back to the launcher's.
LEMMA PromptsUndisturbed ==
  ASSUME PromptInv, UNCHANGED <<at, seen>>,
         run'.generation = run.generation, run'.startedOnce = run.startedOnce, run'.pending = run.pending,
         ~LaunchersOwn(run.state) => ~LaunchersOwn(run'.state)
  PROVE  PromptInv'
BY DEF PromptInv, Alive

\* The launcher starts a session that has not prompted.
LEMMA LauncherKeepsPrompts ==
  ASSUME LifecycleTypeOK, PromptInv, Launcher
  PROVE  PromptInv'
<1>1. run \in Run
  BY DEF LifecycleTypeOK
<1>2. CASE AgentStarts
  <2>1. run' = run /\ seen' = seen /\ at[First] = "absent" /\ at'[First] = "idle"
    BY <1>2, LifecycleConstants DEF AgentStarts, LifecycleTypeOK
  <2>2. ~run.pending /\ ~seen[First].begun /\ seen[First].prompter # "continuation"
    BY <2>1 DEF PromptInv, NoHook
  <2>3. QED
    BY <2>1, <2>2 DEF PromptInv, StopSteps
<1>3. CASE ~AgentStarts
  <2>1. UNCHANGED <<at, seen>>
    BY <1>3 DEF Launcher, LaunchBegins, StartReturns, IdentityWritten, OutcomeWritten, FailureWritten,
       LaunchThrows, LauncherDies
  <2>2. run'.generation = run.generation /\ run'.startedOnce = run.startedOnce /\ run'.pending = run.pending
    BY <1>1, <1>3 DEF Launcher, LaunchBegins, StartReturns, IdentityWritten, OutcomeWritten, FailureWritten,
       LaunchThrows, LauncherDies, Run
  <2>3. ~LaunchersOwn(run.state) => run'.state = run.state
    BY <1>1, <1>3 DEF Launcher, LaunchBegins, StartReturns, IdentityWritten, OutcomeWritten, FailureWritten,
       LaunchThrows, LauncherDies, LaunchOutcome, LaunchersOwn, CanBecome, CanTransition, Run, RunStates, Settling
  <2>4. QED
    BY <2>1, <2>2, <2>3, PromptsUndisturbed
<1>4. QED
  BY <1>2, <1>3

\* What a session's hook remembers, after it has forgotten the rest.
LEMMA Forgotten ==
  ASSUME LifecycleTypeOK, NEW s \in Sessions, NEW b \in BOOLEAN, Forget(s, b)
  PROVE  seen'[s].begun = b
<1>1. [NoHook EXCEPT !.begun = b].begun = b
  BY DEF NoHook
<1>2. QED
  BY <1>1 DEF Forget, LifecycleTypeOK

\* A hook takes a prompt for what it is, and clears the mark of a continuation before
\* the session can be prompted again.
LEMMA SessionKeepsPrompts ==
  ASSUME MarksArrive, LifecycleTypeOK, PromptInv, Session(First)
  PROVE  PromptInv'
<1> DEFINE s == First
<1>1. /\ First \in Sessions /\ run \in Run /\ seen[s] \in Seen /\ at[s] \in SessionSteps
      /\ at \in [Sessions -> SessionSteps] /\ seen \in [Sessions -> Seen]
      /\ run.generation \in Nat /\ {run.pending, run.startedOnce, seen[s].begun} \subseteq BOOLEAN
  BY LifecycleConstants DEF LifecycleTypeOK, Run, Seen, Generations
<1>2. Alive(s)
  BY DEF Session, HookSteps, UserPrompts, TurnEnds, SessionEnds, PromptMarkDropped, StopMarkDropped, HookFails,
     Crash, PromptRead, PromptMarked, PromptUpdated, StopRead, StopCheck, StopUpdated, StopMarked, Continues,
     SessionEndUpdated, SessionGoes, Alive, PromptSteps, StopSteps
<1>3. /\ ~PromptMarkDropped(s) /\ ~StopMarkDropped(s) /\ ~HookFails(s)
  BY DEF MarksArrive, PromptMarkDropped, StopMarkDropped, HookFails
<1> USE <1>2 DEF PromptInv, SessionGoes
<1>4. CASE UserPrompts(s)
  <2>1. at'[s] = "promptRead" /\ at[s] = "idle" /\ run' = run
    BY <1>1, <1>4 DEF UserPrompts
  <2>2. seen'[s].begun = seen[s].begun /\ seen'[s].prompter = "user"
    BY <1>1, <1>4 DEF UserPrompts, Seen
  <2>3. QED
    BY <2>1, <2>2 DEF StopSteps
<1>5. CASE PromptRead(s)
  <2>1. run' = run /\ at[s] = "promptRead"
    BY <1>5 DEF PromptRead
  <2>2. ASSUME NEW source, NEW g, Decide(s, source, g)
        PROVE  /\ seen'[s].begun = seen[s].begun /\ seen'[s].prompter = seen[s].prompter
               /\ seen'[s].source = source /\ seen'[s].generation = g
    <3> DEFINE new == [seen[s] EXCEPT !.source = source, !.generation = g]
    <3>1. seen'[s] = new
      BY <1>1, <2>2 DEF Decide
    <3>2. /\ new.begun = seen[s].begun /\ new.prompter = seen[s].prompter
          /\ new.source = source /\ new.generation = g
      BY <1>1 DEF Seen
    <3>3. QED
      BY <3>1, <3>2
  <2>3. CASE ~run.startedOnce
    <3>1. at'[s] = "promptStarted" /\ Decide(s, "user", run.generation)
      BY <1>1, <1>5, <2>3 DEF PromptRead
    <3>2. ~seen[s].begun /\ seen[s].prompter # "continuation" /\ ~run.pending
      BY <2>1, <2>3
    <3>3. QED
      BY <2>1, <2>2, <3>1, <3>2 DEF StopSteps
  <2>4. CASE run.startedOnce /\ run.pending
    <3>1. at'[s] = "promptContinuation" /\ Decide(s, "continuation", run.generation)
      BY <1>1, <1>5, <2>4 DEF PromptRead
    <3>2. QED
      BY <2>1, <2>2, <2>4, <3>1 DEF StopSteps
  <2>5. CASE run.startedOnce /\ ~run.pending
    <3>1. at'[s] = "promptUpdate" /\ Decide(s, "user", run.generation + 1)
      BY <1>1, <1>5, <2>5 DEF PromptRead
    <3>2. seen[s].prompter = "user"
      BY <1>1, <2>1, <2>5 DEF Seen
    <3>3. QED
      BY <2>1, <2>2, <2>5, <3>1, <3>2 DEF StopSteps
  <2>6. QED
    BY <2>3, <2>4, <2>5
<1>6. CASE PromptMarked(s)
  <2>1. seen' = seen /\ at'[s] = "promptUpdate" /\ at[s] \in {"promptStarted", "promptContinuation"}
    BY <1>1, <1>6 DEF PromptMarked
  <2>2. /\ run'.generation = run.generation /\ run'.state = run.state
    BY <1>1, <1>6 DEF PromptMarked, Run
  <2>3. CASE at[s] = "promptStarted"
    <3>1. run' = [run EXCEPT !.startedOnce = TRUE]
      BY <1>6, <2>3 DEF PromptMarked
    <3>2. run'.startedOnce = TRUE /\ run'.pending = run.pending
      BY <1>1, <3>1 DEF Run
    <3>3. QED
      BY <2>1, <2>2, <2>3, <3>2 DEF StopSteps
  <2>4. CASE at[s] = "promptContinuation"
    <3>1. run' = [run EXCEPT !.pending = FALSE]
      BY <1>6, <2>4 DEF PromptMarked
    <3>2. run'.pending = FALSE /\ run'.startedOnce = run.startedOnce
      BY <1>1, <3>1 DEF Run
    <3>3. QED
      BY <2>1, <2>2, <2>4, <3>2 DEF StopSteps
  <2>5. QED
    BY <2>1, <2>3, <2>4
<1>7. CASE PromptUpdated(s)
  <2>1. at[s] = "promptUpdate" /\ at'[s] = "turn" /\ Forget(s, TRUE)
    BY <1>1, <1>7 DEF PromptUpdated
  <2>2. seen'[s].begun = TRUE /\ seen'[s].prompter = "user"
    <3>1. seen'[s] = [NoHook EXCEPT !.begun = TRUE]
      BY <1>1, <2>1 DEF Forget
    <3>2. QED
      BY <3>1 DEF NoHook
  <2>3. run'.state = "running" /\ run'.startedOnce = run.startedOnce /\ run'.pending = run.pending
    BY <1>1, <1>7 DEF PromptUpdated, Run
  <2>4. QED
    BY <2>1, <2>2, <2>3 DEF LaunchersOwn
<1>8. CASE TurnEnds(s) \/ SessionEnds(s)
  <2>1. UNCHANGED <<run, seen>> /\ at[s] \in {"idle", "turn"} /\ at'[s] \in {"stopRead", "ending"}
        /\ (at'[s] = "stopRead" => at[s] = "turn")
    BY <1>1, <1>8 DEF TurnEnds, SessionEnds
  <2>2. QED
    BY <2>1 DEF StopSteps
<1>9. CASE StopRead(s) \/ StopCheck(s)
  <2>1. run' = run /\ at[s] \in {"stopRead", "stopCheck"} /\ at'[s] \in {"stopCheck", "stopUpdate"}
    BY <1>1, <1>9 DEF StopRead, StopCheck
  <2>2. seen'[s].begun = seen[s].begun /\ seen'[s].prompter = seen[s].prompter
    BY <1>1, <1>9 DEF StopRead, StopCheck, Seen
  <2>3. QED
    BY <2>1, <2>2 DEF StopSteps
<1>10. CASE StopUpdated(s)
  <2>1. at[s] = "stopUpdate" /\ at'[s] \in {"idle", "stopMark"}
    BY <1>1, <1>10 DEF StopUpdated
  <2>2. seen[s].begun
    BY <2>1 DEF StopSteps
  <2>3. seen'[s].begun
    BY <1>1, <1>10, <2>2, Forgotten DEF StopUpdated
  <2>4. run'.startedOnce = run.startedOnce /\ run'.pending = run.pending
    BY <1>1, <1>10 DEF StopUpdated, Run
  <2>5. ~LaunchersOwn(run'.state)
    <3>1. ~LaunchersOwn(run.state)
      BY <2>2
    <3>2. QED
      BY <1>1, <1>10, <3>1 DEF StopUpdated, IfLegal, LaunchersOwn, Run
  <2>6. QED
    BY <2>1, <2>2, <2>3, <2>4, <2>5
<1>11. CASE StopMarked(s)
  <2>1. at[s] = "stopMark" /\ at'[s] = "promptRead"
    BY <1>1, <1>11 DEF StopMarked, Continues, MarksArrive
  <2>2. seen[s].begun
    BY <2>1 DEF StopSteps
  <2>3. seen'[s].begun /\ seen'[s].prompter = "continuation"
    <3>1. seen'[s] = [NoHook EXCEPT !.begun = seen[s].begun, !.prompter = "continuation"]
      BY <1>1, <1>11 DEF StopMarked, Continues
    <3>2. QED
      BY <2>2, <3>1 DEF NoHook
  <2>4. run' = [run EXCEPT !.pending = TRUE]
    BY <1>11 DEF StopMarked
  <2>5. run'.pending = TRUE /\ run'.startedOnce = run.startedOnce /\ run'.state = run.state
    BY <1>1, <2>4 DEF Run
  <2>6. QED
    BY <2>1, <2>2, <2>3, <2>5 DEF StopSteps
<1>12. CASE SessionEndUpdated(s) \/ Crash(s)
  <2>1. at'[s] = "gone"
    BY <1>1, <1>12 DEF SessionEndUpdated, Crash
  <2>2. QED
    BY <2>1 DEF Alive
<1>13. QED
  BY <1>3, <1>4, <1>5, <1>6, <1>7, <1>8, <1>9, <1>10, <1>11, <1>12 DEF Session, HookSteps

\* Handoffs and readers write a state of their own, and nothing else that counts here.
LEMMA PromptInvStep ==
  ASSUME MarksArrive, IInv, PromptInv, [Next]_vars
  PROVE  PromptInv'
<1>1. LifecycleTypeOK /\ run \in Run
  BY DEF IInv, TypeOK, LifecycleTypeOK
<1>2. CASE Worker
  <2>1. \A s \in Sessions : Session(s) => s = First
    BY <1>1 DEF Session, HookSteps, UserPrompts, TurnEnds, SessionEnds, PromptMarkDropped, StopMarkDropped,
       HookFails, Crash, PromptRead, PromptMarked, PromptUpdated, StopRead, StopCheck, StopUpdated, StopMarked,
       Continues, SessionEndUpdated, SessionGoes, Alive, PromptSteps, StopSteps, IInv, OneSession
  <2>2. QED
    BY <1>1, <1>2, <2>1, LauncherKeepsPrompts, SessionKeepsPrompts DEF Worker, LifecycleNext
<1>3. ASSUME NEW c \in Submitters, SubmitRegisters(c) PROVE PromptInv'
  <2>1. artifact.status \in {"completed", "blocked", "needs-input", "failed"}
    BY <1>3, HandoffConstants DEF SubmitRegisters, IInv, TypeOK, WriterHolds, ResultsMade, Result
  <2>2. /\ run'.state = artifact.status /\ run'.generation = run.generation
        /\ run'.startedOnce = run.startedOnce /\ run'.pending = run.pending
    BY <1>1, <1>3 DEF SubmitRegisters, Run
  <2>3. ~LaunchersOwn(run'.state) /\ UNCHANGED <<at, seen>>
    BY <1>3, <2>1, <2>2 DEF SubmitRegisters, LaunchersOwn
  <2>4. QED
    BY <2>2, <2>3, PromptsUndisturbed
<1>4. ASSUME NEW v \in Readers, MarkStale(v) PROVE PromptInv'
  <2>1. /\ run'.state = "result-stale" /\ run'.generation = run.generation
        /\ run'.startedOnce = run.startedOnce /\ run'.pending = run.pending
    BY <1>1, <1>4 DEF MarkStale, Run
  <2>2. ~LaunchersOwn(run'.state) /\ UNCHANGED <<at, seen>>
    BY <1>4, <2>1 DEF MarkStale, LaunchersOwn
  <2>3. QED
    BY <2>1, <2>2, PromptsUndisturbed
<1>5. CASE UNCHANGED <<run, at, seen>>
  BY <1>5, PromptsUndisturbed
<1>6. \/ Worker \/ (\E c \in Submitters : SubmitRegisters(c)) \/ (\E v \in Readers : MarkStale(v))
      \/ UNCHANGED <<run, at, seen>>
  BY DEF Next, Edit, Submit, SubmitRead, SubmitFingerprint, SubmitWrites, SubmitFails, Read, ReadRun, ReadFile,
     ReadTree, ReadEnds, vars, lifecycleVars
<1>7. QED
  BY <1>2, <1>3, <1>4, <1>5, <1>6

\* Every prompt of an operator after the session's first opens a generation, and a
\* continuation that the Stop hook asked for opens none, however handoffs, readers and
\* the launcher write the record in between.
THEOREM FollowUpsOpen ==
  ASSUME MarksArrive
  PROVE  Spec => FollowUpOpensGeneration
<1>1. Init => PromptInv
  BY LifecycleConstants DEF Init, LifecycleInit, PromptInv, Alive
<1>2. ASSUME IInv, PromptInv, [Next]_vars
      PROVE  [\A s \in Sessions :
                at[s] = "promptUpdate" /\ at'[s] = "turn" /\ seen[s].begun =>
                  run'.generation = run.generation + (IF seen[s].prompter = "user" THEN 1 ELSE 0)]_vars
  <2>1. SUFFICES ASSUME Next, NEW s \in Sessions, at[s] = "promptUpdate", at'[s] = "turn", seen[s].begun
                 PROVE  run'.generation = run.generation + (IF seen[s].prompter = "user" THEN 1 ELSE 0)
    BY <1>2
  <2>2. LifecycleTypeOK /\ run \in Run /\ run.generation \in Nat /\ seen[s] \in Seen /\ s = First
    BY <1>2, <2>1 DEF IInv, TypeOK, LifecycleTypeOK, Run, Generations, OneSession
  <2>3. PromptUpdated(s)
    <3>1. PICK t \in Sessions : Session(t)
      BY <2>1, <2>2, LifecycleConstants DEF Next, Worker, LifecycleNext, Edit, Submit, SubmitRead,
         SubmitFingerprint, SubmitWrites, SubmitRegisters, SubmitFails, Read, ReadRun, ReadFile, ReadTree, MarkStale,
         ReadEnds, lifecycleVars, Launcher, LaunchBegins, AgentStarts, StartReturns, IdentityWritten, OutcomeWritten,
         FailureWritten, LaunchThrows, LauncherDies, LifecycleTypeOK
    <3>2. t = s
      BY <1>2, <2>1, <2>2, <3>1 DEF Session, HookSteps, UserPrompts, TurnEnds, SessionEnds, PromptMarkDropped,
         StopMarkDropped, HookFails, Crash, PromptRead, PromptMarked, PromptUpdated, StopRead, StopCheck, StopUpdated,
         StopMarked, Continues, SessionEndUpdated, SessionGoes, LifecycleTypeOK
    <3>3. QED
      BY <2>1, <2>2, <3>1, <3>2 DEF MarksArrive, Session, HookSteps, UserPrompts, TurnEnds, SessionEnds,
         PromptMarkDropped, StopMarkDropped, HookFails, Crash, PromptRead, PromptMarked, StopRead, StopCheck,
         StopUpdated, StopMarked, Continues, SessionEndUpdated, SessionGoes, LifecycleTypeOK
  <2>4. run.state # "launching" /\ seen[s].prompter \in {"user", "continuation"}
    BY <1>2, <2>1, <2>2 DEF PromptInv, Alive, LaunchersOwn, Seen
  <2>5. CASE seen[s].prompter = "user"
    <3>1. seen[s].source = "user" /\ seen[s].generation = run.generation + 1
      BY <1>2, <2>1, <2>2, <2>5 DEF PromptInv, Alive
    <3>2. IsFollowUp(s)
      BY <2>2, <2>4, <3>1 DEF IsFollowUp
    <3>3. run'.generation = seen[s].generation
      BY <2>2, <2>3, <3>2 DEF PromptUpdated, Run
    <3>4. QED
      BY <2>5, <3>1, <3>3
  <2>6. CASE seen[s].prompter = "continuation"
    <3>1. ~IsFollowUp(s)
      BY <1>2, <2>1, <2>2, <2>6 DEF PromptInv, Alive, IsFollowUp
    <3>2. run'.generation = run.generation
      BY <2>2, <2>3, <3>1 DEF PromptUpdated, Run
    <3>3. QED
      BY <2>2, <2>6, <3>2
  <2>7. QED
    BY <2>4, <2>5, <2>6
<1>3. QED
  BY <1>1, <1>2, InvInit, InvStep, PromptInvStep, PTL DEF Spec, FollowUpOpensGeneration

-----------------------------------------------------------------------------
(* Resume                                                                   *)

\* A relaunch that has started its agent succeeds, and it takes less time than
\* a claim is fresh.
PromptRelaunches == ~FocusFails /\ ~Killed /\ ~Slow

(***************************************************************************)
(* The inductive invariant.                                                *)
(***************************************************************************)

\* Between its claim and its last update a resume is the one that has claimed.
Relaunching(o) == resume[o].step \in {"relaunch", "focus", "persist", "restore"}

ClaimInv ==
  \A o \in Resumers : Relaunching(o) =>
    /\ claim = "fresh"
    /\ resume[o].prior \in Prior
    /\ \A q \in Resumers : Relaunching(q) => q = o

\* Before the launcher has recorded the identity of its session there is no other
\* session, and nothing to be resumed.
LaunchInv ==
  /\ launch.step = "identity" => at[First] # "absent"
  /\ run.transportIdentity # None => launch.step \notin {"prepare", "starting", "identity"}
  /\ run.transportIdentity = None =>
       /\ \A s \in Sessions : s # First => ~Alive(s)
       /\ \A o \in Resumers : resume[o].step \in {"idle", "done"}

\* The recorded session was started.  It is over when a resume plans to replace
\* it, and as long as one does; then the one alive is the one that it started.
IdentityInv ==
  /\ run.transportIdentity # None => at[run.transportIdentity] # "absent"
  /\ \A o \in Resumers :
       /\ resume[o].step = "claim" =>
            resume[o].identity \in Sessions /\ at[resume[o].identity] = "gone"
       /\ Relaunching(o) =>
            run.transportIdentity # None /\ at[run.transportIdentity] = "gone"
       /\ resume[o].step \in {"focus", "persist"} =>
            resume[o].identity \in Sessions /\ at[resume[o].identity] # "absent"

\* Whoever is alive is known: recorded, or about to be.
AliveInv ==
  run.transportIdentity # None =>
    \A s \in Sessions : Alive(s) =>
      \/ s = run.transportIdentity
      \/ \E o \in Resumers : resume[o].step \in {"focus", "persist"} /\ resume[o].identity = s

ResumeInv == ResumeTypeOK /\ ClaimInv /\ LaunchInv /\ IdentityInv /\ AliveInv

-----------------------------------------------------------------------------

\* A run has just been created: there is no session, and nobody resumes.
LEMMA ResumeInvInit == ResumeInit => ResumeInv
<1> SUFFICES ASSUME ResumeInit PROVE ResumeInv
  OBVIOUS
<1> USE LifecycleConstants DEF ResumeInit, LifecycleInit, NotResuming
<1>1. 1 \in Generations
  BY DEF Generations
<1>2. ResumeTypeOK
  BY <1>1 DEF ResumeTypeOK, LifecycleTypeOK, Run, RunStates, LaunchSteps, SessionSteps, Seen, NoHook,
     MaxStopAttempts, Claims, Resume, ResumeSteps
<1>3. ClaimInv /\ LaunchInv /\ IdentityInv /\ AliveInv
  BY DEF ClaimInv, LaunchInv, IdentityInv, AliveInv, Relaunching, Alive
<1>4. QED
  BY <1>2, <1>3 DEF ResumeInv

\* What a resume writes to its own record.
LEMMA ResumeTypes ==
  ASSUME NEW x \in Resume, NEW step \in ResumeSteps
  PROVE  /\ NotResuming \in Resume
         /\ [x EXCEPT !.step = step] \in Resume
         /\ [NotResuming EXCEPT !.step = step] \in Resume
         /\ [NotResuming EXCEPT !.step = step].step = step
         /\ \A s \in Sessions : [x EXCEPT !.step = step, !.identity = s] \in Resume
         /\ \A y \in Prior : [x EXCEPT !.step = step, !.prior = y] \in Resume
<1>1. NotResuming \in Resume
  BY DEF NotResuming, Resume, ResumeSteps
<1>2. QED
  BY <1>1 DEF Resume

\* A new generation, and one that is put back, make a run of a run.
LEMMA RunTypes ==
  ASSUME run \in Run
  PROVE  /\ run.generation < MaxGeneration => NewGeneration \in Run
         /\ \A y \in Prior : [run EXCEPT !.generation = y.generation, !.stopAttempts = y.stopAttempts,
                                         !.startedOnce = y.startedOnce, !.pending = y.pending] \in Run
         /\ \A y \in Prior : [run EXCEPT !.generation = y.generation, !.stopAttempts = y.stopAttempts,
                                         !.startedOnce = y.startedOnce, !.pending = y.pending].transportIdentity
                            = run.transportIdentity
         /\ \A s \in Sessions : [run EXCEPT !.transportIdentity = s] \in Run
         /\ \A s \in Sessions : [run EXCEPT !.transportIdentity = s].transportIdentity = s
         /\ [generation |-> run.generation, stopAttempts |-> run.stopAttempts,
             startedOnce |-> run.startedOnce, pending |-> run.pending] \in Prior
<1>0. 0 \in 0..MaxStopAttempts
  BY DEF MaxStopAttempts
<1>1. ASSUME NEW g \in Generations, NEW n \in 0..MaxStopAttempts, NEW b \in BOOLEAN, NEW c \in BOOLEAN
      PROVE  [run EXCEPT !.generation = g, !.stopAttempts = n, !.startedOnce = b, !.pending = c] \in Run
  BY <1>1 DEF Run
<1>2. run.generation < MaxGeneration => run.generation + 1 \in Generations
  BY LifecycleConstants DEF Run, Generations
<1>3. run.generation < MaxGeneration => NewGeneration \in Run
  BY <1>0, <1>1, <1>2 DEF NewGeneration
<1>4. \A y \in Prior : y.generation \in Generations /\ y.stopAttempts \in 0..MaxStopAttempts
                       /\ y.startedOnce \in BOOLEAN /\ y.pending \in BOOLEAN
  BY DEF Prior
<1>5. [generation |-> run.generation, stopAttempts |-> run.stopAttempts,
       startedOnce |-> run.startedOnce, pending |-> run.pending] \in Prior
  BY DEF Run, Prior
<1>6. \A y \in Prior : [run EXCEPT !.generation = y.generation, !.stopAttempts = y.stopAttempts,
                                   !.startedOnce = y.startedOnce, !.pending = y.pending].transportIdentity
                      = run.transportIdentity
  BY DEF Run
<1>7. \A s \in Sessions : /\ [run EXCEPT !.transportIdentity = s] \in Run
                          /\ [run EXCEPT !.transportIdentity = s].transportIdentity = s
  BY DEF Run
<1>8. QED
  BY <1>1, <1>3, <1>4, <1>5, <1>6, <1>7

-----------------------------------------------------------------------------
(* The launcher and the sessions                                           *)

\* The launcher starts its session before it records the identity, and records
\* it once.
LEMMA LauncherSteps ==
  ASSUME ResumeInv, Launcher, UNCHANGED <<claim, resume>>
  PROVE  ResumeInv'
<1> USE LifecycleConstants DEF ResumeInv, ResumeTypeOK
<1>1. LifecycleTypeOK'
  BY LifecycleTypes DEF LifecycleNext
<1>2. ResumeTypeOK'
  BY <1>1
<1> USE DEF LifecycleTypeOK
<1>3. ASSUME UNCHANGED at, run'.transportIdentity = run.transportIdentity,
             launch'.step = "identity" => at[First] # "absent",
             launch'.step \in {"prepare", "starting", "identity"} =>
               launch.step \in {"prepare", "starting", "identity"}
      PROVE  ClaimInv' /\ LaunchInv' /\ IdentityInv' /\ AliveInv'
  BY <1>3 DEF ClaimInv, LaunchInv, IdentityInv, AliveInv, Relaunching, Alive
<1>4. CASE LaunchBegins
  <2>1. run'.transportIdentity = run.transportIdentity /\ launch'.step = "starting" /\ launch.step = "prepare"
    BY <1>4 DEF LaunchBegins, LaunchGoes, Run
  <2>2. QED
    BY <1>2, <1>3, <1>4, <2>1 DEF LaunchBegins
<1>5. CASE AgentStarts
  <2>1. /\ launch' = launch /\ run' = run /\ launch.step = "starting" /\ run.transportIdentity = None
        /\ at[First] = "absent" /\ at'[First] = "idle" /\ \A s \in Sessions : s # First => at'[s] = at[s]
    BY <1>5 DEF AgentStarts, LaunchInv
  <2>2. \A o \in Resumers : resume[o].step \in {"idle", "done"}
    BY <2>1 DEF LaunchInv
  <2>3. ClaimInv' /\ LaunchInv' /\ IdentityInv' /\ AliveInv'
    BY <2>1, <2>2 DEF ClaimInv, LaunchInv, IdentityInv, AliveInv, Relaunching, Alive
  <2>4. QED
    BY <1>2, <2>3
<1>6. CASE StartReturns
  <2>1. /\ launch.step = "starting"
        /\ launch'.step = IF at[First] = "absent" THEN "outcome" ELSE "identity"
    BY <1>6 DEF StartReturns
  <2>2. QED
    BY <1>2, <1>3, <1>6, <2>1 DEF StartReturns
<1>7. CASE IdentityWritten
  <2>1. /\ launch.step = "identity" /\ launch'.step = "outcome" /\ at' = at
        /\ run'.transportIdentity = First /\ run.transportIdentity = None
    BY <1>7 DEF IdentityWritten, LaunchGoes, LaunchInv, Run
  <2>2. /\ at[First] # "absent" /\ \A s \in Sessions : s # First => ~Alive(s)
        /\ \A o \in Resumers : resume[o].step \in {"idle", "done"}
    BY <2>1 DEF LaunchInv
  <2>3. ClaimInv' /\ LaunchInv' /\ IdentityInv' /\ AliveInv'
    BY <2>1, <2>2 DEF ClaimInv, LaunchInv, IdentityInv, AliveInv, Relaunching, Alive
  <2>4. QED
    BY <1>2, <2>3
<1>8. CASE OutcomeWritten \/ FailureWritten
  <2>1. run'.transportIdentity = run.transportIdentity
    BY <1>8 DEF OutcomeWritten, FailureWritten, Run
  <2>2. launch'.step = "done" /\ at' = at
    <3>1. launch' = [step |-> "done", running |-> FALSE] /\ at' = at
      BY ONLY <1>8 DEF OutcomeWritten, FailureWritten, LaunchEnds
    <3>2. QED
      BY <3>1
  <2>3. QED
    BY <1>2, <1>3, <2>1, <2>2
<1>9. CASE LaunchThrows \/ LauncherDies
  <2>1. run' = run /\ at' = at /\ launch'.step \in {"failing", "done"}
    BY <1>9 DEF LaunchThrows, LauncherDies, LaunchGoes, LaunchEnds
  <2>2. QED
    BY <1>2, <1>3, <2>1
<1>10. QED
  BY <1>4, <1>5, <1>6, <1>7, <1>8, <1>9 DEF Launcher

\* A session that is over does not come back by itself.
LEMMA SessionsKeep ==
  ASSUME ResumeInv, NEW s \in Sessions, Session(s), UNCHANGED <<claim, resume>>
  PROVE  ResumeInv'
<1> USE LifecycleConstants DEF ResumeInv, ResumeTypeOK
<1>0. LifecycleTypeOK
  OBVIOUS
<1>1. ResumeTypeOK'
  BY LifecycleTypes DEF LifecycleNext
<1>2. /\ UNCHANGED launch /\ run'.transportIdentity = run.transportIdentity
      /\ \A t \in Sessions :
           /\ ~Alive(t) => at'[t] = at[t]
           /\ at[t] # "absent" => at'[t] # "absent"
  BY <1>0, SessionsEnd
<1>3. \A t \in Sessions : (at[t] = "gone" => at'[t] = "gone") /\ (Alive(t)' => Alive(t))
  BY <1>2 DEF Alive
<1>4. run.transportIdentity \in Sessions \cup {None}
  BY DEF LifecycleTypeOK, Run
<1>5. ClaimInv'
  BY DEF ClaimInv, Relaunching
<1>6. LaunchInv'
  BY <1>2, <1>3 DEF LaunchInv
<1>7. IdentityInv'
  BY <1>2, <1>3, <1>4 DEF IdentityInv, Relaunching
<1>8. AliveInv'
  BY <1>2, <1>3 DEF AliveInv
<1>9. QED
  BY <1>1, <1>5, <1>6, <1>7, <1>8

-----------------------------------------------------------------------------
(* The resumes                                                             *)

\* A claim is made when nobody relaunches, and the claimant alone starts a session
\* and records it.
LEMMA ResumesKeep ==
  ASSUME PromptRelaunches, ResumeInv, NEW o \in Resumers, Resuming(o)
  PROVE  ResumeInv'
<1> USE LifecycleConstants DEF ResumeInv, ResumeTypeOK, LifecycleTypeOK
<1>0. /\ resume[o] \in Resume /\ run.transportIdentity \in Sessions \cup {None}
      /\ {"relaunch", "focus", "persist", "restore", "claim", "done"} \subseteq ResumeSteps
  BY DEF Run, ResumeSteps
<1>1. ASSUME UNCHANGED lifecycleVars, claim' = claim \/ ~\E q \in Resumers : Relaunching(q)',
             resume' \in [Resumers -> Resume], claim' \in Claims,
             \A q \in Resumers : q # o => resume'[q] = resume[q],
             Relaunching(o)' => Relaunching(o) /\ resume'[o].prior = resume[o].prior,
             resume'[o].step \in {"focus", "persist"} <=> resume[o].step \in {"focus", "persist"},
             resume'[o].step \in {"focus", "persist"} => resume'[o].identity = resume[o].identity,
             resume'[o].step = "claim" => /\ run.transportIdentity # None
                                          /\ resume'[o].identity \in Sessions
                                          /\ at[resume'[o].identity] = "gone",
             run.transportIdentity = None => resume'[o].step \in {"idle", "done"}
      PROVE  ResumeInv'
  <2>1. ResumeTypeOK'
    BY <1>1 DEF lifecycleVars
  <2>2. ClaimInv'
    BY <1>1 DEF ClaimInv, Relaunching
  <2>3. LaunchInv' /\ IdentityInv'
    BY <1>1 DEF lifecycleVars, LaunchInv, IdentityInv, Relaunching, Alive
  <2>4. AliveInv'
    BY <1>1 DEF lifecycleVars, AliveInv, Alive
  <2>5. QED
    BY <2>1, <2>2, <2>3, <2>4
<1>2. CASE PlanRelaunch(o)
  <2>1. /\ run.transportIdentity \in Sessions /\ at[run.transportIdentity] = "gone"
    BY <1>0, <1>2 DEF PlanRelaunch, IdentityInv, Alive
  <2> DEFINE new == [step |-> "claim", identity |-> run.transportIdentity, prior |-> None]
  <2>2. new \in Resume
    BY <1>0 DEF Resume
  <2>3. resume' = [resume EXCEPT ![o] = new] /\ resume[o].step = "idle"
    BY <1>2 DEF PlanRelaunch
  <2>4. QED
    BY <1>1, <1>2, <2>1, <2>2, <2>3 DEF PlanRelaunch, Relaunching
<1>3. CASE Claim(o)
  <2> DEFINE prior == [generation |-> run.generation, stopAttempts |-> run.stopAttempts,
                       startedOnce |-> run.startedOnce, pending |-> run.pending]
  <2> DEFINE new == [resume[o] EXCEPT !.step = "relaunch", !.prior = prior]
  <2>1. prior \in Prior /\ run' \in Run /\ run'.transportIdentity = run.transportIdentity
    <3>1. run' = NewGeneration /\ run.generation < MaxGeneration
      BY <1>3 DEF Claim
    <3>2. NewGeneration.transportIdentity = run.transportIdentity
      BY DEF NewGeneration, Run
    <3>3. QED
      BY <3>1, <3>2, RunTypes
  <2>2. new \in Resume /\ new.step = "relaunch" /\ new.prior = prior
    <3>1. new \in Resume
      BY <1>0, <2>1, ResumeTypes
    <3>2. QED
      BY <1>0, <3>1 DEF Resume
  <2>3. /\ resume' = [resume EXCEPT ![o] = new] /\ resume[o].step = "claim"
        /\ claim' = "fresh" /\ claim # "fresh" /\ run.transportIdentity = resume[o].identity
        /\ UNCHANGED <<writer, launch, at, seen>> /\ asked' = 0
    BY <1>3 DEF Claim, Claimable
  <2>4. \A q \in Resumers : ~Relaunching(q)
    BY <2>3 DEF ClaimInv
  <2>5. ResumeTypeOK'
    BY <2>1, <2>2, <2>3 DEF Claims
  <2>6. ClaimInv'
    BY <2>1, <2>2, <2>3, <2>4 DEF ClaimInv, Relaunching
  <2>7. at[run.transportIdentity] = "gone" /\ run.transportIdentity \in Sessions /\ run.transportIdentity # None
    BY <2>3 DEF IdentityInv
  <2>8. LaunchInv' /\ IdentityInv'
    BY <2>1, <2>2, <2>3, <2>4, <2>7 DEF LaunchInv, IdentityInv, Relaunching, Alive
  <2>9. AliveInv'
    BY <2>1, <2>2, <2>3, <2>4 DEF AliveInv, Relaunching, Alive
  <2>10. QED
    BY <2>5, <2>6, <2>8, <2>9
<1>4. CASE ClaimRefused(o) \/ ResumeDies(o)
  <2> DEFINE new == [NotResuming EXCEPT !.step = "done"]
  <2>1. new \in Resume /\ new.step = "done"
    BY <1>0, ResumeTypes
  <2>2. /\ resume' = [resume EXCEPT ![o] = new] /\ UNCHANGED <<lifecycleVars, claim>>
        /\ resume[o].step \in {"claim", "relaunch", "restore"}
    BY <1>4 DEF ClaimRefused, ResumeDies, ResumeEnds, PromptRelaunches
  <2>3. QED
    BY <1>1, <2>1, <2>2 DEF Relaunching
<1>5. CASE Relaunch(o)
  <2>1. PICK s \in Sessions :
          /\ at[s] = "absent" /\ at' = [at EXCEPT ![s] = "idle"]
          /\ resume' = [resume EXCEPT ![o] = [@ EXCEPT !.step = "focus", !.identity = s]]
    BY <1>5 DEF Relaunch, SessionGoes
  <2> DEFINE new == [resume[o] EXCEPT !.step = "focus", !.identity = s]
  <2>2. new \in Resume /\ new.step = "focus" /\ new.identity = s /\ new.prior = resume[o].prior
    <3>1. new \in Resume
      BY <1>0, ResumeTypes
    <3>2. QED
      BY <1>0, <3>1 DEF Resume
  <2>3. resume[o].step = "relaunch" /\ UNCHANGED <<run, writer, launch, seen, asked, claim>>
    BY <1>5 DEF Relaunch
  <2>4. ResumeTypeOK'
    BY <2>1, <2>2, <2>3 DEF SessionSteps
  <2>5. ClaimInv'
    BY <2>1, <2>2, <2>3 DEF ClaimInv, Relaunching
  <2>6. run.transportIdentity # None /\ s # run.transportIdentity
    BY <2>1, <2>3 DEF IdentityInv, Relaunching
  <2>7. \A q \in Resumers : Relaunching(q) => q = o
    BY <2>3 DEF ClaimInv, Relaunching
  <2>8. LaunchInv'
    BY <2>1, <2>3, <2>6 DEF LaunchInv
  <2>9. IdentityInv'
    BY <1>0, <2>1, <2>2, <2>3, <2>6, <2>7 DEF IdentityInv, Relaunching
  <2>10. AliveInv'
    BY <2>1, <2>2, <2>3, <2>7 DEF AliveInv, Relaunching, Alive
  <2>11. QED
    BY <2>4, <2>5, <2>8, <2>9, <2>10
<1>6. ASSUME NEW to \in {"persist", "restore"}, UNCHANGED <<lifecycleVars, claim>>,
             resume' = [resume EXCEPT ![o] = [@ EXCEPT !.step = to]],
             \/ resume[o].step = "focus" /\ to = "persist"
             \/ resume[o].step = "relaunch" /\ to = "restore"
      PROVE  ResumeInv'
  <2> DEFINE new == [resume[o] EXCEPT !.step = to]
  <2>1. new \in Resume /\ new.step = to /\ new.identity = resume[o].identity /\ new.prior = resume[o].prior
    <3>1. new \in Resume
      BY <1>0, ResumeTypes
    <3>2. QED
      BY <1>0, <3>1 DEF Resume
  <2>2. run.transportIdentity # None
    BY <1>6 DEF IdentityInv, Relaunching
  <2>3. QED
    BY <1>1, <1>6, <2>1, <2>2 DEF Relaunching
<1>7. CASE Focus(o) \/ RelaunchThrows(o)
  BY <1>6, <1>7 DEF Focus, RelaunchThrows, ResumeGoes, PromptRelaunches
<1>8. CASE Restore(o)
  <2> DEFINE new == [NotResuming EXCEPT !.step = "done"]
  <2>1. new \in Resume /\ new.step = "done"
    BY <1>0, ResumeTypes
  <2>2. /\ resume' = [resume EXCEPT ![o] = new] /\ UNCHANGED <<writer, launch, at, seen, asked>>
        /\ resume[o].step = "restore" /\ claim' = "none"
    BY <1>8 DEF Restore, ResumeEnds
  <2>3. /\ resume[o].prior \in Prior /\ run.transportIdentity # None
        /\ \A q \in Resumers : Relaunching(q) => q = o
    BY <2>2 DEF ClaimInv, IdentityInv, Relaunching
  <2>4. run' \in Run /\ run'.transportIdentity = run.transportIdentity
    BY <1>8, <2>3, RunTypes DEF Restore
  <2>5. ResumeTypeOK'
    BY <2>1, <2>2, <2>4 DEF Claims
  <2>6. ClaimInv'
    BY <2>1, <2>2, <2>3 DEF ClaimInv, Relaunching
  <2>7. LaunchInv' /\ IdentityInv'
    BY <2>1, <2>2, <2>3, <2>4 DEF LaunchInv, IdentityInv, Relaunching, Alive
  <2>8. AliveInv'
    BY <2>1, <2>2, <2>4 DEF AliveInv, Alive
  <2>9. QED
    BY <2>5, <2>6, <2>7, <2>8
<1>9. CASE Persist(o)
  <2> DEFINE new == [NotResuming EXCEPT !.step = "done"]
  <2>1. new \in Resume /\ new.step = "done"
    BY <1>0, ResumeTypes
  <2>2. /\ resume' = [resume EXCEPT ![o] = new] /\ UNCHANGED <<writer, launch, at, seen, asked>>
        /\ resume[o].step = "persist" /\ claim' = "none"
    BY <1>9 DEF Persist, ResumeEnds
  <2>3. /\ resume[o].identity \in Sessions /\ at[resume[o].identity] # "absent"
        /\ run.transportIdentity # None /\ at[run.transportIdentity] = "gone"
        /\ \A q \in Resumers : Relaunching(q) => q = o
    BY <2>2 DEF ClaimInv, IdentityInv, Relaunching
  <2>4. run' \in Run /\ run'.transportIdentity = resume[o].identity
    BY <1>9, <2>3, RunTypes DEF Persist
  <2>5. ResumeTypeOK'
    BY <2>1, <2>2, <2>4 DEF Claims
  <2>6. ClaimInv'
    BY <2>1, <2>2, <2>3 DEF ClaimInv, Relaunching
  <2>7. LaunchInv' /\ IdentityInv'
    BY <2>1, <2>2, <2>3, <2>4 DEF LaunchInv, IdentityInv, Relaunching, Alive
  <2>8. AliveInv'
    BY <2>1, <2>2, <2>3, <2>4 DEF AliveInv, Relaunching, Alive
  <2>9. QED
    BY <2>5, <2>6, <2>7, <2>8
<1>10. QED
  BY <1>2, <1>3, <1>4, <1>5, <1>7, <1>8, <1>9 DEF Resuming

\* The invariant is inductive.
LEMMA ResumeInvStep ==
  ASSUME PromptRelaunches, ResumeInv, [ResumeNext]_resumeVars
  PROVE  ResumeInv'
<1>1. CASE LifecycleNext /\ UNCHANGED <<claim, resume>>
  BY <1>1, LauncherSteps, SessionsKeep DEF LifecycleNext
<1>2. CASE \E o \in Resumers : Resuming(o)
  BY <1>2, ResumesKeep
<1>3. CASE ClaimExpires
  <2>1. UNCHANGED <<lifecycleVars, resume>> /\ claim' = "expired" /\ \A o \in Resumers : ~Relaunching(o)
    BY <1>3 DEF ClaimExpires, PromptRelaunches, Relaunching
  <2>2. QED
    BY <2>1 DEF ResumeInv, ResumeTypeOK, LifecycleTypeOK, Claims, lifecycleVars, ClaimInv, LaunchInv, IdentityInv,
       AliveInv, Relaunching, Alive
<1>4. CASE UNCHANGED resumeVars
  BY <1>4 DEF resumeVars, ResumeInv, ResumeTypeOK, LifecycleTypeOK, lifecycleVars, ClaimInv, LaunchInv, IdentityInv,
     AliveInv, Relaunching, Alive
<1>5. QED
  BY <1>1, <1>2, <1>3, <1>4 DEF ResumeNext

-----------------------------------------------------------------------------

\* The invariant holds in every behaviour in which relaunches are prompt.
THEOREM ResumeInvariance ==
  ASSUME PromptRelaunches
  PROVE  ResumeSpec => []ResumeInv
BY ResumeInvInit, ResumeInvStep, PTL DEF ResumeSpec

\* Of the sessions one is alive at most.
LEMMA OneAlive ==
  ASSUME ResumeInv
  PROVE  OneWorker
<1>1. SUFFICES ASSUME NEW s \in Sessions, NEW t \in Sessions, Alive(s), Alive(t) PROVE s = t
  BY DEF OneWorker
<1>2. CASE run.transportIdentity = None
  BY <1>1, <1>2 DEF ResumeInv, LaunchInv
<1>3. CASE run.transportIdentity # None
  BY <1>1, <1>3 DEF ResumeInv, AliveInv, ClaimInv, IdentityInv, Relaunching, Alive
<1>4. QED
  BY <1>2, <1>3

\* No two sessions of a run are ever alive together, however many resumes there
\* are, and however they overlap with each other, with the launcher and the hooks.
THEOREM OneWorkerOnly ==
  ASSUME PromptRelaunches
  PROVE  ResumeSpec => []OneWorkerAtATime
<1>1. ResumeInv => OneWorkerAtATime
  BY OneAlive DEF ResumeInv, OneWorkerAtATime
<1>2. QED
  BY <1>1, ResumeInvariance, PTL

(***************************************************************************)
(* A second inductive invariant, over the first: what a relaunched worker   *)
(* finds in the record.                                                    *)
(***************************************************************************)

\* Before the launched session there is none, and nothing was counted.
FreshInv ==
  /\ run.transportIdentity # None => at[First] # "absent"
  /\ at[First] = "absent" => ~run.startedOnce /\ run.stopAttempts = 0 /\ asked = 0

\* Until its agent is started, a relaunch finds the generation as it opened it.
OpenedInv ==
  \A o \in Resumers : resume[o].step \in {"relaunch", "restore"} =>
    /\ run.generation = resume[o].prior.generation + 1
    /\ run.stopAttempts = 0 /\ ~run.startedOnce /\ asked = 0

\* A worker that has not prompted yet is the first to prompt in its generation,
\* and its hook takes the prompt for one of that generation.
UnbegunInv(s) ==
  Alive(s) /\ ~seen[s].begun =>
    /\ at[s] \in {"idle", "promptRead", "promptStarted", "promptUpdate", "ending"}
    /\ at[s] \in {"idle", "promptRead", "promptStarted"} => ~run.startedOnce
    /\ at[s] \in {"promptStarted", "promptUpdate"} => seen[s].generation = run.generation

\* The record counts the continuations that were asked for, and the one that is
\* about to be.
CountedInv(s) ==
  Alive(s) /\ ~Contention => run.stopAttempts = asked + IF at[s] = "stopMark" THEN 1 ELSE 0

WorkerInv ==
  FreshInv /\ OpenedInv /\ \A s \in Sessions : UnbegunInv(s) /\ CountedInv(s)

\* Nobody is alive while a resume claims, or until its agent is started.
LEMMA NobodyAlive ==
  ASSUME ResumeInv, NEW o \in Resumers,
         resume[o].step \in {"relaunch", "restore"} \/ (resume[o].step = "claim" /\ Claimable(o))
  PROVE  \A s \in Sessions : ~Alive(s)
<1>1. \A q \in Resumers : resume[q].step \notin {"focus", "persist"}
  BY DEF ResumeInv, ClaimInv, Relaunching, Claimable
<1>2. run.transportIdentity # None /\ at[run.transportIdentity] = "gone"
  BY LifecycleConstants DEF ResumeInv, IdentityInv, Relaunching, Claimable
<1>3. QED
  BY <1>1, <1>2 DEF ResumeInv, AliveInv, Alive

\* The one session that is alive leaves its start behind by prompting, and counts the
\* continuations that it asks for.
LEMMA SessionKeepsWorker ==
  ASSUME ResumeInv, WorkerInv, NEW s \in Sessions, Session(s), UNCHANGED <<claim, resume>>
  PROVE  WorkerInv'
<1> DEFINE Facts == /\ LifecycleTypeOK /\ run \in Run /\ seen[s] \in Seen /\ seen[s].begun \in BOOLEAN
                    /\ run.stopAttempts \in Nat /\ asked \in Nat /\ at[s] \in SessionSteps
<1>1. Facts
  BY DEF ResumeInv, ResumeTypeOK, LifecycleTypeOK, Seen, Run, MaxStopAttempts
<1>2. Alive(s)
  BY DEF Session, HookSteps, UserPrompts, TurnEnds, SessionEnds, PromptMarkDropped, StopMarkDropped, HookFails,
     Crash, PromptRead, PromptMarked, PromptUpdated, StopRead, StopCheck, StopUpdated, StopMarked, Continues,
     SessionEndUpdated, SessionGoes, Alive, PromptSteps, StopSteps
<1>3. \A t \in Sessions : t # s => ~Alive(t) /\ ~Alive(t)'
  BY <1>1, <1>2, OneAlive, SessionsEnd DEF OneWorker, Alive
<1>4. at[First] # "absent" /\ at'[First] # "absent"
  BY <1>1, <1>2, SessionsEnd, LifecycleConstants DEF WorkerInv, FreshInv, ResumeInv, LaunchInv, Alive
<1>5. OpenedInv'
  <2>1. \A o \in Resumers : resume[o].step \notin {"relaunch", "restore"}
    BY <1>2, NobodyAlive
  <2>2. QED
    BY <2>1 DEF OpenedInv
<1>6. UnbegunInv(s) /\ CountedInv(s)
  BY DEF WorkerInv
<1>7. SUFFICES UnbegunInv(s)' /\ CountedInv(s)'
  BY <1>3, <1>4, <1>5 DEF WorkerInv, FreshInv, UnbegunInv, CountedInv
<1> HIDE DEF Facts
<1> USE <1>2, <1>6 DEF UnbegunInv, CountedInv, SessionGoes
<1>8. CASE UserPrompts(s)
  <2>1. at'[s] = "promptRead" /\ at[s] = "idle" /\ UNCHANGED <<run, asked>>
    BY <1>1, <1>8 DEF UserPrompts, Facts, LifecycleTypeOK
  <2>2. seen'[s].begun = seen[s].begun
    BY <1>1, <1>8 DEF UserPrompts, Facts, LifecycleTypeOK, Seen
  <2>3. QED
    BY <2>1, <2>2
<1>9. CASE PromptRead(s)
  <2>1. UNCHANGED <<run, asked>> /\ at[s] = "promptRead"
        /\ at'[s] \in {"promptStarted", "promptContinuation", "promptUpdate"}
        /\ (~run.startedOnce => at'[s] = "promptStarted" /\ Decide(s, "user", run.generation))
    BY <1>1, <1>9 DEF PromptRead, Facts, LifecycleTypeOK
  <2>2. ASSUME NEW source, NEW g, Decide(s, source, g)
        PROVE  seen'[s].begun = seen[s].begun /\ seen'[s].generation = g
    <3> DEFINE new == [seen[s] EXCEPT !.source = source, !.generation = g]
    <3>1. seen'[s] = new
      BY <1>1, <2>2 DEF Decide, Facts, LifecycleTypeOK
    <3>2. new.begun = seen[s].begun /\ new.generation = g
      BY <1>1 DEF Facts, Seen
    <3>3. QED
      BY <3>1, <3>2
  <2>3. \E source, g : Decide(s, source, g)
    BY <1>9 DEF PromptRead
  <2>4. seen'[s].begun = seen[s].begun
    BY <2>2, <2>3
  <2>5. QED
    BY <2>1, <2>2, <2>4
<1>10. CASE PromptMarked(s) \/ PromptMarkDropped(s)
  <2>1. /\ at[s] \in {"promptStarted", "promptContinuation"} /\ at'[s] = "promptUpdate" /\ UNCHANGED <<seen, asked>>
        /\ run'.generation = run.generation /\ run'.stopAttempts = run.stopAttempts
    BY <1>1, <1>10 DEF PromptMarked, PromptMarkDropped, Facts, LifecycleTypeOK, Run
  <2>2. QED
    BY <2>1
<1>11. CASE PromptUpdated(s)
  <2>1. seen'[s].begun = TRUE /\ at[s] = "promptUpdate" /\ at'[s] = "turn"
    BY <1>1, <1>11, Forgotten DEF PromptUpdated, Facts, LifecycleTypeOK
  <2>2. \/ run'.stopAttempts = 0 /\ asked' = 0
        \/ run'.stopAttempts = run.stopAttempts /\ asked' = asked
    BY <1>1, <1>11 DEF PromptUpdated, Facts, Run
  <2>3. QED
    BY <2>1, <2>2
<1>12. CASE TurnEnds(s) \/ SessionEnds(s)
  <2>1. UNCHANGED <<run, seen, asked>> /\ at[s] \in {"idle", "turn"} /\ at'[s] \in {"stopRead", "ending"}
        /\ (at'[s] = "stopRead" => at[s] = "turn")
    BY <1>1, <1>12 DEF TurnEnds, SessionEnds, Facts, LifecycleTypeOK
  <2>2. QED
    BY <2>1
<1>13. CASE StopRead(s) \/ StopCheck(s)
  <2>1. UNCHANGED <<run, asked>> /\ at[s] \in {"stopRead", "stopCheck"} /\ at'[s] \in {"stopCheck", "stopUpdate"}
    BY <1>1, <1>13 DEF StopRead, StopCheck, Facts, LifecycleTypeOK
  <2>2. seen'[s].begun = seen[s].begun
    BY <1>1, <1>13 DEF StopRead, StopCheck, Facts, LifecycleTypeOK, Seen
  <2>3. QED
    BY <2>1, <2>2
<1>14. CASE StopUpdated(s)
  <2>1. at[s] = "stopUpdate" /\ asked' = asked
    BY <1>14 DEF StopUpdated
  <2>2. seen[s].begun
    BY <2>1
  <2>3. seen'[s].begun
    BY <1>1, <1>14, <2>2, Forgotten DEF StopUpdated, Facts
  <2>4. \/ at'[s] = "idle" /\ run'.stopAttempts = run.stopAttempts
        \/ at'[s] = "stopMark" /\ run'.stopAttempts = run.stopAttempts + 1
    BY <1>1, <1>14 DEF StopUpdated, Facts, LifecycleTypeOK, Run
  <2>5. QED
    BY <1>1, <2>1, <2>3, <2>4 DEF Facts
<1>15. CASE StopMarked(s) \/ StopMarkDropped(s)
  <2>1. Continues(s) /\ run'.stopAttempts = run.stopAttempts
    BY <1>1, <1>15 DEF StopMarked, StopMarkDropped, Facts, Run
  <2>2. at[s] = "stopMark" /\ at'[s] \in {"promptRead", "turn"} /\ asked' = asked + 1
    BY <1>1, <2>1 DEF Continues, Facts, LifecycleTypeOK
  <2>3. seen[s].begun
    BY <2>2
  <2>4. seen'[s].begun
    <3>1. [NoHook EXCEPT !.begun = seen[s].begun, !.prompter = "continuation"].begun = seen[s].begun
      BY DEF NoHook
    <3>2. QED
      BY <1>1, <2>1, <2>3, <3>1 DEF Continues, Facts, LifecycleTypeOK
  <2>5. QED
    BY <1>1, <2>1, <2>2, <2>4 DEF Facts
<1>16. CASE SessionEndUpdated(s) \/ Crash(s)
  <2>1. at'[s] = "gone"
    BY <1>1, <1>16 DEF SessionEndUpdated, Crash, Facts, LifecycleTypeOK
  <2>2. QED
    BY <2>1 DEF Alive
<1>17. CASE HookFails(s)
  <2>1. at'[s] = "gone" \/ at[s] \in PromptSteps \/ at[s] \in StopSteps
    BY <1>1, <1>17 DEF HookFails, Facts, LifecycleTypeOK
  <2> DEFINE begun == seen[s].begun \/ at[s] \in PromptSteps
  <2>2. begun \in BOOLEAN /\ Forget(s, begun)
    BY <1>17 DEF HookFails
  <2>3. at'[s] # "gone" => begun
    BY <2>1 DEF StopSteps
  <2> HIDE DEF begun
  <2>4. seen'[s].begun = begun
    BY <1>1, <2>2, Forgotten DEF Facts
  <2>5. Contention
    BY <1>17 DEF HookFails
  <2>6. QED
    BY <2>3, <2>4, <2>5 DEF Alive
<1>18. QED
  BY <1>8, <1>9, <1>10, <1>11, <1>12, <1>13, <1>14, <1>15, <1>16, <1>17 DEF Session, HookSteps

-----------------------------------------------------------------------------

\* The launched session is the first: nothing was counted before it.
LEMMA LauncherKeepsWorker ==
  ASSUME ResumeInv, WorkerInv, Launcher, UNCHANGED <<claim, resume>>
  PROVE  WorkerInv'
<1>1. LifecycleTypeOK /\ run \in Run
  BY DEF ResumeInv, ResumeTypeOK, LifecycleTypeOK
<1>2. /\ run'.generation = run.generation /\ run'.stopAttempts = run.stopAttempts
      /\ run'.startedOnce = run.startedOnce
  BY <1>1 DEF Launcher, LaunchBegins, AgentStarts, StartReturns, IdentityWritten, OutcomeWritten, FailureWritten,
     LaunchThrows, LauncherDies, Run
<1>3. seen' = seen /\ asked' = asked
  BY DEF Launcher, LaunchBegins, AgentStarts, StartReturns, IdentityWritten, OutcomeWritten, FailureWritten,
     LaunchThrows, LauncherDies
<1>4. OpenedInv'
  BY <1>2, <1>3 DEF WorkerInv, OpenedInv
<1>5. CASE AgentStarts
  <2>1. /\ run' = run /\ launch.step = "starting" /\ at[First] = "absent"
        /\ at'[First] = "idle" /\ \A s \in Sessions : s # First => at'[s] = at[s]
    BY <1>1, <1>5, LifecycleConstants DEF AgentStarts, LifecycleTypeOK
  <2>2. \A s \in Sessions : s # First => ~Alive(s)
    BY <2>1 DEF ResumeInv, LaunchInv
  <2>3. ~run.startedOnce /\ run.stopAttempts = 0 /\ asked = 0
    BY <2>1 DEF WorkerInv, FreshInv
  <2>4. \A s \in Sessions : UnbegunInv(s)' /\ CountedInv(s)'
    BY <1>3, <2>1, <2>2, <2>3 DEF UnbegunInv, CountedInv, Alive
  <2>5. QED
    BY <1>4, <2>1, <2>4 DEF WorkerInv, FreshInv
<1>6. CASE ~AgentStarts
  <2>1. at' = at
    BY <1>6 DEF Launcher, LaunchBegins, StartReturns, IdentityWritten, OutcomeWritten, FailureWritten,
       LaunchThrows, LauncherDies
  <2>2. run'.transportIdentity = run.transportIdentity \/ at[First] # "absent"
    BY <1>1, <1>6 DEF Launcher, LaunchBegins, StartReturns, IdentityWritten, LaunchGoes, OutcomeWritten,
       FailureWritten, LaunchThrows, LauncherDies, Run, ResumeInv, LaunchInv
  <2>3. FreshInv'
    BY <1>2, <1>3, <2>1, <2>2 DEF WorkerInv, FreshInv
  <2>4. \A s \in Sessions : UnbegunInv(s)' /\ CountedInv(s)'
    BY <1>2, <1>3, <2>1 DEF WorkerInv, UnbegunInv, CountedInv, Alive
  <2>5. QED
    BY <1>4, <2>3, <2>4 DEF WorkerInv
<1>7. QED
  BY <1>5, <1>6

\* A claim opens a generation nobody has prompted in, and the session that its
\* relaunch starts finds it so.
LEMMA ResumeKeepsWorker ==
  ASSUME PromptRelaunches, ResumeInv, WorkerInv, NEW o \in Resumers, Resuming(o)
  PROVE  WorkerInv'
<1>1. /\ LifecycleTypeOK /\ run \in Run /\ resume \in [Resumers -> Resume] /\ resume[o] \in Resume
      /\ run.generation \in Nat
  BY DEF ResumeInv, ResumeTypeOK, LifecycleTypeOK, Run, Generations
<1> DEFINE done == [NotResuming EXCEPT !.step = "done"]
<1>2. done.step = "done"
  BY DEF NotResuming
<1> HIDE DEF done
<1>3. ASSUME NEW q \in Resumers, Relaunching(o), Relaunching(q) PROVE q = o
  BY <1>3 DEF ResumeInv, ClaimInv
<1>4. ASSUME UNCHANGED lifecycleVars, OpenedInv' PROVE WorkerInv'
  BY <1>4 DEF lifecycleVars, WorkerInv, FreshInv, UnbegunInv, CountedInv, Alive
<1>5. ASSUME \A s \in Sessions : ~Alive(s), at' = at, FreshInv', OpenedInv' PROVE WorkerInv'
  BY <1>5 DEF WorkerInv, UnbegunInv, CountedInv, Alive
<1>6. CASE PlanRelaunch(o)
  <2>1. \A q \in Resumers : resume'[q].step \in {"relaunch", "restore"} => resume'[q] = resume[q]
    BY <1>1, <1>6 DEF PlanRelaunch
  <2>2. OpenedInv'
    BY <1>6, <2>1 DEF PlanRelaunch, WorkerInv, OpenedInv, lifecycleVars
  <2>3. QED
    BY <1>4, <1>6, <2>2 DEF PlanRelaunch
<1>7. CASE ClaimRefused(o) \/ ResumeDies(o)
  <2>1. resume' = [resume EXCEPT ![o] = done] /\ UNCHANGED lifecycleVars
    BY <1>7 DEF ClaimRefused, ResumeDies, ResumeEnds, done
  <2>2. \A q \in Resumers : resume'[q].step \in {"relaunch", "restore"} => resume'[q] = resume[q]
    BY <1>1, <1>2, <2>1
  <2>3. OpenedInv'
    BY <2>1, <2>2 DEF WorkerInv, OpenedInv, lifecycleVars
  <2>4. QED
    BY <1>4, <2>1, <2>3
<1>8. CASE Focus(o) \/ RelaunchThrows(o)
  <2>1. PICK to \in {"persist", "restore"} :
          /\ resume' = [resume EXCEPT ![o] = [@ EXCEPT !.step = to]] /\ UNCHANGED lifecycleVars
          /\ to = "restore" => resume[o].step = "relaunch"
    BY <1>8 DEF Focus, RelaunchThrows, ResumeGoes, PromptRelaunches
  <2>2. [resume[o] EXCEPT !.step = to].step = to /\ [resume[o] EXCEPT !.step = to].prior = resume[o].prior
    BY <1>1 DEF Resume
  <2>3. \A q \in Resumers : resume'[q].step \in {"relaunch", "restore"} =>
          resume'[q].prior = resume[q].prior /\ resume[q].step \in {"relaunch", "restore"}
    BY <1>1, <2>1, <2>2
  <2>4. OpenedInv'
    BY <2>1, <2>3 DEF WorkerInv, OpenedInv, lifecycleVars
  <2>5. QED
    BY <1>4, <2>1, <2>4
<1>9. CASE Claim(o)
  <2>1. /\ resume[o].step = "claim" /\ Claimable(o) /\ run' = NewGeneration /\ asked' = 0 /\ at' = at
    BY <1>9 DEF Claim
  <2>2. \A s \in Sessions : ~Alive(s)
    BY <2>1, NobodyAlive
  <2>3. /\ run'.generation = run.generation + 1 /\ run'.stopAttempts = 0 /\ ~run'.startedOnce
        /\ run'.transportIdentity = run.transportIdentity
    BY <1>1, <2>1 DEF NewGeneration, Run
  <2>4. FreshInv'
    BY <2>1, <2>3 DEF WorkerInv, FreshInv
  <2> DEFINE new == [resume[o] EXCEPT !.step = "relaunch",
                       !.prior = [generation |-> run.generation, stopAttempts |-> run.stopAttempts,
                                  startedOnce |-> run.startedOnce, pending |-> run.pending]]
  <2>5. new.prior.generation = run.generation
    BY <1>1 DEF Resume
  <2>6. resume' = [resume EXCEPT ![o] = new]
    BY <1>9 DEF Claim
  <2> HIDE DEF new
  <2>7. \A q \in Resumers : resume[q].step \notin {"relaunch", "restore"}
    BY <2>1 DEF Claimable, ResumeInv, ClaimInv, Relaunching
  <2>8. OpenedInv'
    BY <1>1, <2>1, <2>3, <2>5, <2>6, <2>7 DEF OpenedInv
  <2>9. QED
    BY <1>5, <2>1, <2>2, <2>4, <2>8
<1>10. CASE Relaunch(o)
  <2>1. PICK s \in Sessions :
          /\ at[s] = "absent" /\ at' = [at EXCEPT ![s] = "idle"]
          /\ resume' = [resume EXCEPT ![o] = [@ EXCEPT !.step = "focus", !.identity = s]]
    BY <1>10 DEF Relaunch, SessionGoes
  <2>2. resume[o].step = "relaunch" /\ UNCHANGED <<run, seen, asked>>
    BY <1>10 DEF Relaunch
  <2>3. [resume[o] EXCEPT !.step = "focus", !.identity = s].step = "focus"
    BY <1>1 DEF Resume
  <2>4. \A q \in Resumers : resume'[q].step \in {"relaunch", "restore"} => resume'[q] = resume[q]
    BY <1>1, <2>1, <2>3
  <2>5. OpenedInv'
    BY <2>2, <2>4 DEF WorkerInv, OpenedInv
  <2>6. \A t \in Sessions : ~Alive(t)
    BY <2>2, NobodyAlive
  <2>7. run.stopAttempts = 0 /\ ~run.startedOnce /\ asked = 0
    BY <2>2 DEF WorkerInv, OpenedInv
  <2>8. at'[s] = "idle" /\ \A t \in Sessions : t # s => at'[t] = at[t]
    BY <1>1, <2>1 DEF LifecycleTypeOK
  <2>9. \A t \in Sessions : UnbegunInv(t)' /\ CountedInv(t)'
    BY <2>2, <2>6, <2>7, <2>8 DEF UnbegunInv, CountedInv, Alive
  <2>10. FreshInv'
    BY <2>2, <2>8, LifecycleConstants DEF WorkerInv, FreshInv
  <2>11. QED
    BY <2>5, <2>9, <2>10 DEF WorkerInv
<1>11. CASE Restore(o)
  <2>1. /\ resume[o].step = "restore" /\ resume' = [resume EXCEPT ![o] = done] /\ at' = at
    BY <1>11 DEF Restore, ResumeEnds, done
  <2>2. \A s \in Sessions : ~Alive(s)
    BY <2>1, NobodyAlive
  <2>3. \A q \in Resumers : resume'[q].step \notin {"relaunch", "restore"}
    BY <1>1, <1>2, <1>3, <2>1 DEF Relaunching
  <2>4. run.transportIdentity # None
    BY <2>1 DEF ResumeInv, IdentityInv, Relaunching
  <2>5. FreshInv'
    BY <2>1, <2>4 DEF WorkerInv, FreshInv
  <2>6. QED
    BY <1>5, <2>1, <2>2, <2>3, <2>5 DEF OpenedInv
<1>12. CASE Persist(o)
  <2>1. /\ resume[o].step = "persist" /\ resume' = [resume EXCEPT ![o] = done] /\ UNCHANGED <<at, seen, asked>>
    BY <1>12 DEF Persist, ResumeEnds, done
  <2>2. \A q \in Resumers : resume'[q].step \notin {"relaunch", "restore"}
    BY <1>1, <1>2, <1>3, <2>1 DEF Relaunching
  <2>3. /\ run'.generation = run.generation /\ run'.stopAttempts = run.stopAttempts
        /\ run'.startedOnce = run.startedOnce
    BY <1>1, <1>12 DEF Persist, Run
  <2>4. run.transportIdentity # None
    BY <2>1 DEF ResumeInv, IdentityInv, Relaunching
  <2>5. FreshInv'
    BY <2>1, <2>4 DEF WorkerInv, FreshInv
  <2>6. \A s \in Sessions : UnbegunInv(s)' /\ CountedInv(s)'
    BY <2>1, <2>3 DEF WorkerInv, UnbegunInv, CountedInv, Alive
  <2>7. QED
    BY <2>2, <2>5, <2>6 DEF WorkerInv, OpenedInv
<1>13. QED
  BY <1>6, <1>7, <1>8, <1>9, <1>10, <1>11, <1>12 DEF Resuming

\* Both invariants hold in every behaviour in which relaunches are prompt.
THEOREM WorkerInvariance ==
  ASSUME PromptRelaunches
  PROVE  ResumeSpec => [](ResumeInv /\ WorkerInv)
<1>1. ResumeInit => WorkerInv
  BY LifecycleConstants DEF ResumeInit, LifecycleInit, NotResuming, WorkerInv, FreshInv, OpenedInv, UnbegunInv,
     CountedInv, Alive
<1>2. ASSUME ResumeInv, WorkerInv, [ResumeNext]_resumeVars PROVE WorkerInv'
  <2>1. CASE LifecycleNext /\ UNCHANGED <<claim, resume>>
    BY <1>2, <2>1, LauncherKeepsWorker, SessionKeepsWorker DEF LifecycleNext
  <2>2. CASE \E o \in Resumers : Resuming(o)
    BY <1>2, <2>2, ResumeKeepsWorker
  <2>3. CASE ClaimExpires \/ UNCHANGED resumeVars
    BY <1>2, <2>3 DEF ClaimExpires, resumeVars, lifecycleVars, WorkerInv, FreshInv, OpenedInv, UnbegunInv,
       CountedInv, Alive
  <2>4. QED
    BY <1>2, <2>1, <2>2, <2>3 DEF ResumeNext
<1>3. QED
  BY <1>1, <1>2, ResumeInvInit, ResumeInvStep, PTL DEF ResumeSpec

-----------------------------------------------------------------------------

\* A step in which a prompt is confirmed is one of its session's.
LEMMA PromptConfirmed ==
  ASSUME ResumeInv, ResumeNext, NEW s \in Sessions, at[s] = "promptUpdate", at'[s] = "turn"
  PROVE  PromptUpdated(s) \/ run' = run
<1>1. LifecycleTypeOK
  BY DEF ResumeInv, ResumeTypeOK
<1>2. CASE Launcher
  BY <1>1, <1>2, LifecycleConstants DEF LifecycleTypeOK, Launcher, LaunchBegins, AgentStarts, StartReturns,
     IdentityWritten, OutcomeWritten, FailureWritten, LaunchThrows, LauncherDies
<1>3. ASSUME NEW t \in Sessions, Session(t) PROVE PromptUpdated(s) \/ run' = run
  <2>1. CASE t = s
    BY <1>1, <1>3, <2>1 DEF Session, HookSteps, UserPrompts, TurnEnds, SessionEnds, PromptMarkDropped,
       StopMarkDropped, HookFails, Crash, PromptRead, PromptMarked, StopRead, StopCheck, StopUpdated, StopMarked,
       Continues, SessionEndUpdated, SessionGoes, LifecycleTypeOK
  <2>2. CASE t # s
    BY <1>1, <1>3, <2>2 DEF Session, HookSteps, UserPrompts, TurnEnds, SessionEnds, PromptMarkDropped,
       StopMarkDropped, HookFails, Crash, PromptRead, PromptMarked, PromptUpdated, StopRead, StopCheck, StopUpdated,
       StopMarked, Continues, SessionEndUpdated, SessionGoes, LifecycleTypeOK
  <2>3. QED
    BY <2>1, <2>2
<1>4. ASSUME NEW o \in Resumers, Resuming(o) PROVE FALSE
  BY <1>1, <1>4 DEF LifecycleTypeOK, Resuming, PlanRelaunch, Claim, ClaimRefused, Relaunch, Focus, RelaunchThrows,
     Restore, Persist, ResumeDies, SessionGoes, lifecycleVars
<1>5. CASE ClaimExpires
  BY <1>5 DEF ClaimExpires, lifecycleVars
<1>6. QED
  BY <1>2, <1>3, <1>4, <1>5 DEF ResumeNext, LifecycleNext

\* A relaunch opens one generation (comment in resume.js): the first prompt of its
\* worker confirms that one instead of opening another, and a relaunch that failed
\* takes back exactly what its claim wrote, because nothing has been built on it.
THEOREM OneGeneration ==
  ASSUME PromptRelaunches
  PROVE  ResumeSpec => OneGenerationPerRelaunch
<1>1. ASSUME ResumeInv, WorkerInv, [ResumeNext]_resumeVars
      PROVE  [\A s \in Sessions :
                at[s] = "promptUpdate" /\ at'[s] = "turn" /\ ~seen[s].begun =>
                  run'.generation = run.generation]_resumeVars
  <2>1. SUFFICES ASSUME ResumeNext, NEW s \in Sessions,
                        at[s] = "promptUpdate", at'[s] = "turn", ~seen[s].begun, PromptUpdated(s)
                 PROVE  run'.generation = run.generation
    BY <1>1, PromptConfirmed
  <2>2. run \in Run /\ run.generation \in Nat
    BY <1>1 DEF ResumeInv, ResumeTypeOK, LifecycleTypeOK, Run, Generations
  <2>3. seen[s].generation = run.generation
    BY <1>1, <2>1 DEF WorkerInv, UnbegunInv, Alive
  <2>4. ~IsFollowUp(s)
    BY <2>2, <2>3 DEF IsFollowUp
  <2>5. QED
    BY <2>1, <2>2, <2>4 DEF PromptUpdated, Run
<1>2. ASSUME ResumeInv, WorkerInv, [ResumeNext]_resumeVars
      PROVE  [\A o \in Resumers : resume[o].step = "restore" /\ claim = "fresh" /\ claim' = "none" =>
                run.generation = run'.generation + 1 /\ run.stopAttempts = 0 /\ ~run.startedOnce]_resumeVars
  <2>1. SUFFICES ASSUME ResumeNext, NEW o \in Resumers,
                        resume[o].step = "restore", claim = "fresh", claim' = "none"
                 PROVE  run.generation = run'.generation + 1 /\ run.stopAttempts = 0 /\ ~run.startedOnce
    BY <1>2
  <2>2. PICK q \in Resumers : Restore(q) \/ Persist(q)
    <3>1. PICK q \in Resumers : Resuming(q)
      BY <2>1 DEF ResumeNext, ClaimExpires
    <3>2. Restore(q) \/ Persist(q)
      BY <2>1, <3>1 DEF Resuming, PlanRelaunch, Claim, ClaimRefused, Relaunch, Focus, RelaunchThrows, ResumeDies
    <3>3. QED
      BY <3>2
  <2>3. resume[q].step \in {"restore", "persist"}
    BY <2>2 DEF Restore, Persist, ResumeEnds
  <2>4. q = o
    BY <1>2, <2>1, <2>3 DEF ResumeInv, ClaimInv, Relaunching
  <2>5. Restore(o)
    BY <2>1, <2>2, <2>4 DEF Persist, ResumeEnds
  <2>6. run'.generation = resume[o].prior.generation
    BY <1>2, <2>5 DEF Restore, ResumeInv, ResumeTypeOK, LifecycleTypeOK, Run
  <2>7. QED
    BY <1>2, <2>1, <2>6 DEF WorkerInv, OpenedInv
<1>3. QED
  BY <1>1, <1>2, WorkerInvariance, PTL DEF ResumeSpec, OneGenerationPerRelaunch, FirstPromptConfirms,
     FailedRelaunchLosesNothing

\* A run is given up to manual handoff only after its worker has been asked for its
\* handoff twice in the generation, as long as no update is refused the lock: the
\* budget of a relaunched worker starts afresh, and what the record counts was asked.
THEOREM ManualWhenAsked ==
  ASSUME PromptRelaunches, ~Contention
  PROVE  ResumeSpec => ManualOnlyWhenAsked
<1>1. ASSUME ResumeInv, WorkerInv, [ResumeNext]_resumeVars
      PROVE  [run'.state = "manual-handoff-required" /\ run.state # run'.state =>
                asked = MaxStopAttempts]_resumeVars
  <2>1. SUFFICES ASSUME ResumeNext, run'.state = "manual-handoff-required", run.state # run'.state
                 PROVE  asked = MaxStopAttempts
    BY <1>1
  <2>2. LifecycleTypeOK /\ run \in Run /\ run.stopAttempts \in 0..MaxStopAttempts /\ asked \in Nat
    BY <1>1 DEF ResumeInv, ResumeTypeOK, LifecycleTypeOK, Run
  <2>3. ~Launcher
    BY <2>1, <2>2 DEF Launcher, LaunchBegins, AgentStarts, StartReturns, IdentityWritten, OutcomeWritten,
       FailureWritten, LaunchThrows, LauncherDies, LaunchOutcome, Run
  <2>4. \A o \in Resumers : ~Resuming(o)
    BY <2>1, <2>2 DEF Resuming, PlanRelaunch, Claim, ClaimRefused, Relaunch, Focus, RelaunchThrows, Restore,
       Persist, ResumeDies, NewGeneration, lifecycleVars, Run
  <2>5. ~ClaimExpires
    BY <2>1 DEF ClaimExpires, lifecycleVars
  <2>6. PICK s \in Sessions : Session(s)
    BY <2>1, <2>3, <2>4, <2>5 DEF ResumeNext, LifecycleNext
  <2>7. StopUpdated(s)
    BY <2>1, <2>2, <2>6 DEF Session, HookSteps, UserPrompts, TurnEnds, SessionEnds, PromptMarkDropped,
       StopMarkDropped, HookFails, Crash, PromptRead, PromptMarked, PromptUpdated, StopRead, StopCheck, StopMarked,
       Continues, SessionEndUpdated, IfLegal, Run
  <2>8. at[s] = "stopUpdate" /\ StopDecides(s) = "manual"
    BY <2>1, <2>2, <2>7 DEF StopUpdated, SessionGoes, IfLegal, Run
  <2>9. run.stopAttempts = MaxStopAttempts
    BY <2>2, <2>8 DEF StopDecides, MaxStopAttempts
  <2>10. run.stopAttempts = asked
    BY <1>1, <2>2, <2>8 DEF WorkerInv, CountedInv, Alive
  <2>11. QED
    BY <2>9, <2>10
<1>2. QED
  BY <1>1, WorkerInvariance, PTL DEF ResumeSpec, ManualOnlyWhenAsked
=============================================================================
