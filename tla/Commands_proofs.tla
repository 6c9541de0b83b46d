---------------------------- MODULE Commands_proofs ----------------------------
(***************************************************************************)
(* Theorems about the commands that work on a task's group and about the    *)
(* runners they call git, Herdr and a project's checks with.                *)
(*                                                                         *)
(* The runners: for any number of callers, runs, checks and interrupts, and *)
(* whatever commands leave behind.  A behaviour of the sum is one of each   *)
(* runner, so they are proved one by one.                                   *)
(*                                                                         *)
(* `workflow start` and `workflow runtime`: for any children, processes and *)
(* overlapping commands, and any bound of the tabs, the panes and the       *)
(* faults.  The invariant says what a command that was planned once may     *)
(* rely on while others go on; its parts hold in the cases that the faults  *)
(* of a behaviour leave.                                                    *)
(***************************************************************************)
EXTENDS Runners, Start, SequenceTheorems, FiniteSetTheorems, WellFoundedInduction, TLAPS

-----------------------------------------------------------------------------
(* The processes of a command                                               *)

\* Whatever happens to a group, it is one; what has ended stays so, and nobody can
\* write to pipes that were closed.
LEMMA GroupSteps ==
  ASSUME NEW g \in Group
  PROVE  /\ Asked(g) \in Group /\ Killed(g) \in Group /\ Ended(g) \in Group
         /\ \A code \in Codes : Exited(g, code) \in Group
         /\ NoGroup \in Group
         /\ \A deaf \in BOOLEAN, rest \in Backgrounds : Spawned(deaf, rest) \in Group
BY DEF Asked, Killed, Ended, Exited, NoGroup, Spawned, Group, Codes, Backgrounds

LEMMA EndedStays ==
  ASSUME NEW g \in Group
  PROVE  /\ ~Survives(Killed(g)) /\ ~Survives(NoGroup)
         /\ ~Survives(g) => ~Survives(Ended(g))
         /\ Closed(g) => /\ Closed(Asked(g)) /\ Closed(Killed(g)) /\ Closed(Ended(g))
                         /\ Asked(g).code = g.code /\ Killed(g).code = g.code /\ Ended(g).code = g.code
BY DEF Asked, Killed, Ended, NoGroup, Group, Codes, Backgrounds, Survives, Closed, HasPipes

-----------------------------------------------------------------------------
(* The runner of git and Herdr commands                                     *)

\* A run is killed or waited for after its limit only, and a run that has an
\* outcome is over.
RunsInv ==
  \A r \in Calls :
    /\ run[r].kill \/ run[r].drain => run[r].late
    /\ run[r].out # None => run[r].step = "settled"

RunnerInv == TypeOK /\ RunsInv /\ TrapWhileLive /\ OkIsComplete /\ NothingSurvivesInterrupt

\* Nothing has been run.
LEMMA RunnerInit == Init => RunnerInv
<1> SUFFICES ASSUME Init PROVE RunnerInv
  OBVIOUS
<1>1. /\ run = [r \in Calls |-> NewRun] /\ group = [r \in Calls |-> NoGroup]
      /\ proc = [alive |-> TRUE, trap |-> FALSE, shutting |-> FALSE] /\ signals = 0
  BY DEF Init
<1>2. TypeOK
  <2>1. NewRun \in Run /\ ~NewRun.timer /\ ~NewRun.kill /\ ~NewRun.drain
    BY DEF NewRun, Run
  <2>2. NoGroup \in Group
    BY DEF NoGroup, Group, Codes, Backgrounds
  <2>3. 0 \in 0..MaxSignals
    BY RunnerConstants
  <2>4. QED
    BY <1>1, <2>1, <2>2, <2>3 DEF TypeOK, Run
<1>3. RunsInv /\ TrapWhileLive /\ NothingSurvivesInterrupt
  BY <1>1 DEF RunsInv, NewRun, TrapWhileLive, LiveChildren, IsLive, NothingSurvivesInterrupt
<1>4. OkIsComplete
  BY <1>1, NoneIsNoOutcome DEF NewRun, OkIsComplete, Outcomes, Codes
<1>5. QED
  BY <1>2, <1>3, <1>4 DEF RunnerInv

\* The run n of a group g is in order.
RunOk(n, g) ==
  /\ n.kill \/ n.drain => n.late
  /\ n.out # None => n.step = "settled"
  /\ n.step \in {"off", "settled"} => ~n.timer /\ ~n.kill /\ ~n.drain
  /\ n.out = "ok" => ~n.late /\ g.code = "ok" /\ Closed(g)

LEMMA EachRun ==
  RunnerInv =>
    \A r \in Calls : RunOk(run[r], group[r]) /\ run[r] \in Run /\ group[r] \in Group
BY DEF RunnerInv, TypeOK, RunsInv, OkIsComplete, RunOk

\* A step that writes one run and its group.
LEMMA RunWritten ==
  ASSUME RunnerInv, NEW r \in Calls, NEW n \in Run, NEW g \in Group, RunOk(n, g),
         run' = [run EXCEPT ![r] = n], group' = [group EXCEPT ![r] = g],
         proc' \in [alive : BOOLEAN, trap : BOOLEAN, shutting : BOOLEAN], signals' = signals,
         TrapWhileLive', NothingSurvivesInterrupt'
  PROVE  RunnerInv'
<1>1. /\ run' \in [Calls -> Run] /\ group' \in [Calls -> Group]
      /\ \A q \in Calls : RunOk(run'[q], group'[q])
  BY EachRun DEF RunnerInv, TypeOK
<1>2. TypeOK'
  BY <1>1 DEF RunnerInv, TypeOK, RunOk
<1>3. RunsInv' /\ OkIsComplete'
  BY <1>1 DEF RunsInv, OkIsComplete, RunOk
<1>4. QED
  BY <1>2, <1>3 DEF RunnerInv

\* ... and leaves the run as alive as it was, ...
LEMMA RunMoves ==
  ASSUME RunnerInv, NEW r \in Calls, NEW n \in Run, NEW g \in Group, RunOk(n, g),
         run' = [run EXCEPT ![r] = n], group' = [group EXCEPT ![r] = g], UNCHANGED <<proc, signals>>,
         n.step \in {"live", "broken"} <=> IsLive(r),
         proc.alive \/ (~Survives(group[r]) => ~Survives(g))
  PROVE  RunnerInv'
<1>1. run'[r] = n /\ group'[r] = g /\ \A q \in Calls : q # r => run'[q] = run[q] /\ group'[q] = group[q]
  BY DEF RunnerInv, TypeOK
<1>2. \A q \in Calls : IsLive(q)' <=> IsLive(q)
  BY <1>1 DEF IsLive
<1>3. LiveChildren' = LiveChildren
  BY <1>2 DEF LiveChildren
<1>4. TrapWhileLive'
  BY <1>3 DEF RunnerInv, TrapWhileLive
<1>5. NothingSurvivesInterrupt'
  BY <1>1, <1>3 DEF RunnerInv, NothingSurvivesInterrupt
<1>6. proc' \in [alive : BOOLEAN, trap : BOOLEAN, shutting : BOOLEAN]
  BY DEF RunnerInv, TypeOK
<1>7. QED
  BY <1>4, <1>5, <1>6, RunWritten

\* ... or begins it, ...
LEMMA RunBegins ==
  ASSUME RunnerInv, NEW r \in Calls, NEW n \in Run, NEW g \in Group, RunOk(n, g),
         run' = [run EXCEPT ![r] = n], group' = [group EXCEPT ![r] = g], proc.alive, proc' = Tracks,
         signals' = signals, n.step \in {"live", "broken"}
  PROVE  RunnerInv'
<1>1. /\ proc' \in [alive : BOOLEAN, trap : BOOLEAN, shutting : BOOLEAN]
      /\ proc'.alive /\ proc'.trap
  BY DEF RunnerInv, TypeOK, Tracks
<1>2. r \in LiveChildren'
  BY DEF RunnerInv, TypeOK, LiveChildren, IsLive
<1>3. TrapWhileLive' /\ NothingSurvivesInterrupt'
  BY <1>1, <1>2 DEF TrapWhileLive, NothingSurvivesInterrupt
<1>4. QED
  BY <1>1, <1>3, RunWritten

\* ... or ends it.
LEMMA RunSettles ==
  ASSUME RunnerInv, NEW r \in Calls, NEW out \in Outcomes, IsLive(r), proc.alive, Settle(r, out),
         UNCHANGED <<group, signals>>,
         out = "ok" => ~run[r].late /\ group[r].code = "ok" /\ Closed(group[r])
  PROVE  RunnerInv'
<1> DEFINE n == [run[r] EXCEPT !.step = "settled", !.timer = FALSE, !.kill = FALSE, !.drain = FALSE,
                               !.out = IF HandsBack THEN out ELSE None]
<1>1. run[r] \in Run /\ group[r] \in Group
  BY EachRun
<1>2. /\ n \in Run /\ n.step = "settled" /\ ~n.timer /\ ~n.kill /\ ~n.drain /\ n.late = run[r].late
      /\ n.out \in {out, None}
  BY <1>1 DEF Run
<1>3. run' = [run EXCEPT ![r] = n] /\ proc' = Released(LiveChildren \ {r})
  BY DEF Settle
<1> HIDE DEF n
<1>4. RunOk(n, group[r])
  BY <1>2, NoneIsNoOutcome DEF RunOk, Outcomes, Codes
<1>5. group' = [group EXCEPT ![r] = group[r]]
  BY DEF RunnerInv, TypeOK
<1>6. \A q \in Calls : IsLive(q)' <=> IsLive(q) /\ q # r
  BY <1>2, <1>3 DEF IsLive, RunnerInv, TypeOK
<1>7. LiveChildren' = LiveChildren \ {r}
  BY <1>6 DEF LiveChildren
<1>8. /\ proc \in [alive : BOOLEAN, trap : BOOLEAN, shutting : BOOLEAN] /\ proc.trap
  BY DEF RunnerInv, TypeOK, TrapWhileLive, LiveChildren
<1>9. CASE LiveChildren' # {}
  <2>1. proc' = proc
    BY <1>3, <1>7, <1>9 DEF Released
  <2>2. TrapWhileLive' /\ NothingSurvivesInterrupt'
    BY <1>8, <1>9, <2>1 DEF TrapWhileLive, NothingSurvivesInterrupt
  <2>3. QED
    BY <1>1, <1>2, <1>3, <1>4, <1>5, <1>8, <2>1, <2>2, RunWritten
<1>10. CASE LiveChildren' = {}
  <2>1. /\ proc' \in [alive : BOOLEAN, trap : BOOLEAN, shutting : BOOLEAN]
        /\ proc'.alive => ~proc'.trap /\ ~proc'.shutting
    BY <1>3, <1>7, <1>8, <1>10 DEF Released
  <2>2. TrapWhileLive' /\ NothingSurvivesInterrupt'
    BY <1>10, <2>1 DEF TrapWhileLive, NothingSurvivesInterrupt
  <2>3. QED
    BY <1>1, <1>2, <1>3, <1>4, <1>5, <2>1, <2>2, RunWritten
<1>11. QED
  BY <1>9, <1>10

\* Starting a command, or failing to.
LEMMA RunStarts ==
  ASSUME RunnerInv, NEW r \in Calls, Spawns(r) \/ SpawnFails(r)
  PROVE  RunnerInv'
<1>1. /\ run[r] \in Run /\ group[r] \in Group /\ proc.alive /\ run[r].step = "off" /\ signals' = signals
      /\ group = [group EXCEPT ![r] = group[r]] /\ RunOk(run[r], group[r])
  BY EachRun DEF Spawns, SpawnFails, MayCall, RunnerInv, TypeOK
<1>2. CASE Spawns(r)
  <2> DEFINE timed == r[1] \in Timed
  <2> DEFINE n == [run[r] EXCEPT !.step = "live", !.timer = timed]
  <2>0. timed \in BOOLEAN
    OBVIOUS
  <2> HIDE DEF timed
  <2>1. PICK deaf \in BOOLEAN, rest \in Rests : group' = [group EXCEPT ![r] = Spawned(deaf, rest)]
    BY <1>2 DEF Spawns
  <2>2. Spawned(deaf, rest) \in Group
    BY <1>1, GroupSteps, RunnerConstants
  <2>3. /\ n \in Run /\ n.step = "live" /\ n.kill = run[r].kill /\ n.drain = run[r].drain
        /\ n.late = run[r].late /\ n.out = run[r].out
    BY <1>1, <2>0 DEF Run
  <2>4. run' = [run EXCEPT ![r] = n] /\ proc' = Tracks
    BY <1>2 DEF Spawns, timed
  <2> HIDE DEF n
  <2>5. RunOk(n, Spawned(deaf, rest))
    BY <1>1, <2>3, NoneIsNoOutcome DEF RunOk, Outcomes, Codes
  <2>6. QED
    BY <1>1, <2>1, <2>2, <2>3, <2>4, <2>5, RunBegins
<1>3. ASSUME run' = [run EXCEPT ![r].step = "settled", ![r].out = "spawn"], UNCHANGED <<proc, group, signals>>
      PROVE  RunnerInv'
  <2> DEFINE n == [run[r] EXCEPT !.step = "settled", !.out = "spawn"]
  <2>1. /\ n \in Run /\ n.step = "settled" /\ n.kill = run[r].kill /\ n.drain = run[r].drain
        /\ n.late = run[r].late /\ n.out = "spawn" /\ n.timer = run[r].timer
    BY <1>1 DEF Run, Outcomes
  <2>2. run' = [run EXCEPT ![r] = n]
    BY <1>3
  <2> HIDE DEF n
  <2>3. RunOk(n, group[r])
    BY <1>1, <2>1 DEF RunOk
  <2>4. QED
    BY <1>1, <1>3, <2>1, <2>2, <2>3, RunMoves DEF IsLive
<1>4. ASSUME run' = [run EXCEPT ![r].step = "broken", ![r].timer = r[1] \in Timed], proc' = Tracks,
             UNCHANGED <<group, signals>>
      PROVE  RunnerInv'
  <2> DEFINE timed == r[1] \in Timed
  <2> DEFINE n == [run[r] EXCEPT !.step = "broken", !.timer = timed]
  <2>0. timed \in BOOLEAN
    OBVIOUS
  <2> HIDE DEF timed
  <2>1. /\ n \in Run /\ n.step = "broken" /\ n.kill = run[r].kill /\ n.drain = run[r].drain
        /\ n.late = run[r].late /\ n.out = run[r].out
    BY <1>1, <2>0 DEF Run
  <2>2. run' = [run EXCEPT ![r] = n]
    BY <1>4 DEF timed
  <2> HIDE DEF n
  <2>3. RunOk(n, group[r])
    BY <1>1, <2>1, NoneIsNoOutcome DEF RunOk, Outcomes, Codes
  <2>4. QED
    BY <1>1, <1>4, <2>1, <2>2, <2>3, RunBegins
<1>5. QED
  BY <1>2, <1>3, <1>4 DEF SpawnFails

\* What Node is told of a child, and its timers.
LEMMA HandlerSteps ==
  ASSUME RunnerInv, NEW r \in Calls, Handlers(r)
  PROVE  RunnerInv'
<1>1. /\ run[r] \in Run /\ group[r] \in Group /\ proc.alive /\ signals' = signals
      /\ group = [group EXCEPT ![r] = group[r]] /\ RunOk(run[r], group[r])
  BY EachRun DEF Handlers, OnError, OnExit, OnClose, TimesOut, KillTimer, Drains, Settle, RunnerInv, TypeOK
<1>2. OutcomeOf(r) \in Outcomes /\ (OutcomeOf(r) = "ok" => ~run[r].late /\ group[r].code = "ok")
  BY <1>1 DEF OutcomeOf, Outcomes, Group
<1>3. CASE OnError(r)
  BY <1>3, RunSettles DEF OnError, IsLive, Outcomes
<1>4. CASE OnExit(r)
  <2> DEFINE n == [run[r] EXCEPT !.exited = TRUE, !.drain = @ \/ run[r].late]
  <2>1. /\ n \in Run /\ n.step = run[r].step /\ n.kill = run[r].kill /\ n.drain = (run[r].drain \/ run[r].late)
        /\ n.late = run[r].late /\ n.out = run[r].out /\ n.timer = run[r].timer
    BY <1>1 DEF Run
  <2>2. run' = [run EXCEPT ![r] = n] /\ run[r].step = "live" /\ UNCHANGED <<group, proc, signals>>
    BY <1>4 DEF OnExit
  <2> HIDE DEF n
  <2>3. RunOk(n, group[r])
    BY <1>1, <2>1, <2>2 DEF RunOk
  <2>4. QED
    BY <1>1, <2>1, <2>2, <2>3, RunMoves DEF IsLive
<1>5. CASE OnClose(r)
  BY <1>1, <1>2, <1>5, RunSettles DEF OnClose, IsLive
<1>6. CASE TimesOut(r)
  <2>1. IsLive(r) /\ run[r].out # "ok"
    BY <1>1, <1>6, NoneIsNoOutcome DEF TimesOut, RunOk, Run, IsLive, Outcomes, Codes
  <2>2. Killed(group[r]) \in Group /\ Asked(group[r]) \in Group
    BY <1>1, GroupSteps
  <2>3. CASE run[r].exited
    <3> DEFINE n == [run[r] EXCEPT !.late = TRUE, !.timer = FALSE, !.drain = TRUE]
    <3>1. n \in Run /\ n.step = run[r].step /\ n.late /\ n.out = run[r].out
      BY <1>1 DEF Run
    <3>2. /\ run' = [run EXCEPT ![r] = n] /\ group' = [group EXCEPT ![r] = Killed(group[r])]
          /\ UNCHANGED proc
      BY <1>1, <1>6, <2>3 DEF TimesOut
    <3> HIDE DEF n
    <3>3. RunOk(n, Killed(group[r]))
      BY <1>1, <2>1, <3>1 DEF RunOk, IsLive
    <3>4. QED
      BY <1>1, <2>1, <2>2, <3>1, <3>2, <3>3, RunMoves DEF IsLive
  <2>4. CASE ~run[r].exited
    <3> DEFINE n == [run[r] EXCEPT !.late = TRUE, !.timer = FALSE, !.kill = TRUE]
    <3>1. n \in Run /\ n.step = run[r].step /\ n.late /\ n.out = run[r].out
      BY <1>1 DEF Run
    <3>2. /\ run' = [run EXCEPT ![r] = n] /\ group' = [group EXCEPT ![r] = Asked(group[r])]
          /\ UNCHANGED proc
      BY <1>1, <1>6, <2>4 DEF TimesOut
    <3> HIDE DEF n
    <3>3. RunOk(n, Asked(group[r]))
      BY <1>1, <2>1, <3>1 DEF RunOk, IsLive
    <3>4. QED
      BY <1>1, <2>1, <2>2, <3>1, <3>2, <3>3, RunMoves DEF IsLive
  <2>5. QED
    BY <2>3, <2>4
<1>7. CASE KillTimer(r)
  <2> DEFINE n == [run[r] EXCEPT !.kill = FALSE, !.drain = TRUE]
  <2>1. IsLive(r) /\ run[r].out # "ok" /\ run[r].late
    BY <1>1, <1>7, NoneIsNoOutcome DEF KillTimer, RunOk, Run, IsLive, Outcomes, Codes
  <2>2. n \in Run /\ n.step = run[r].step /\ n.late = run[r].late /\ n.out = run[r].out
    BY <1>1 DEF Run
  <2>3. /\ run' = [run EXCEPT ![r] = n] /\ group' = [group EXCEPT ![r] = Killed(group[r])]
        /\ UNCHANGED proc /\ Killed(group[r]) \in Group
    BY <1>1, <1>7, GroupSteps DEF KillTimer
  <2> HIDE DEF n
  <2>4. RunOk(n, Killed(group[r]))
    BY <1>1, <2>1, <2>2 DEF RunOk, IsLive
  <2>5. QED
    BY <1>1, <2>1, <2>2, <2>3, <2>4, RunMoves DEF IsLive
<1>8. CASE Drains(r)
  <2>1. IsLive(r) /\ OutcomeOf(r) = "timeout"
    BY <1>1, <1>8 DEF Drains, RunOk, Run, IsLive, OutcomeOf
  <2>2. QED
    BY <1>1, <1>2, <1>8, <2>1, RunSettles DEF Drains
<1>9. QED
  BY <1>3, <1>4, <1>5, <1>6, <1>7, <1>8 DEF Handlers

\* The processes go on, also when the one that started them has ended.
LEMMA ProcessSteps ==
  ASSUME RunnerInv, NEW r \in Calls, ChildExits(r) \/ RestEnds(r)
  PROVE  RunnerInv'
<1>1. /\ run[r] \in Run /\ group[r] \in Group /\ UNCHANGED <<run, proc, signals>>
      /\ run = [run EXCEPT ![r] = run[r]] /\ RunOk(run[r], group[r])
  BY EachRun DEF ChildExits, RestEnds, RunnerInv, TypeOK
<1>2. CASE ChildExits(r)
  <2>1. PICK code \in Codes : group' = [group EXCEPT ![r] = Exited(group[r], code)]
    BY <1>1, <1>2 DEF ChildExits, RunnerInv, TypeOK
  <2>2. group[r].child = "runs" /\ Survives(group[r]) /\ ~Closed(group[r])
    BY <1>2 DEF ChildExits, Survives, Closed
  <2>3. RunOk(run[r], Exited(group[r], code)) /\ Exited(group[r], code) \in Group
    BY <1>1, <2>2, GroupSteps DEF RunOk
  <2>4. QED
    BY <1>1, <2>1, <2>2, <2>3, RunMoves DEF IsLive
<1>3. CASE RestEnds(r)
  <2>1. group' = [group EXCEPT ![r] = Ended(group[r])]
    BY <1>1, <1>3 DEF RestEnds, RunnerInv, TypeOK
  <2>2. RunOk(run[r], Ended(group[r])) /\ Ended(group[r]) \in Group
    BY <1>1, GroupSteps, EndedStays DEF RunOk
  <2>3. QED
    BY <1>1, <2>1, <2>2, EndedStays, RunMoves DEF IsLive
<1>4. QED
  BY <1>2, <1>3

\* Interrupts: the trap tells whether there is a group to pass the signal to.
LEMMA InterruptSteps ==
  ASSUME RunnerInv, Interrupt \/ Escalates
  PROVE  RunnerInv'
<1>1. /\ run' = run /\ group \in [Calls -> Group] /\ signals' \in 0..MaxSignals
      /\ proc \in [alive : BOOLEAN, trap : BOOLEAN, shutting : BOOLEAN]
      /\ \A r \in Calls : RunOk(run[r], group[r]) /\ group[r] \in Group
  <2>1. signals' \in 0..MaxSignals
    BY RunnerConstants DEF RunnerInv, TypeOK, Interrupt, Escalates
  <2>2. QED
    BY <2>1, EachRun DEF RunnerInv, TypeOK, Interrupt, Escalates
<1>2. LiveChildren' = LiveChildren
  BY <1>1 DEF LiveChildren, IsLive
<1>3. ASSUME group' \in [Calls -> Group],
             proc' \in [alive : BOOLEAN, trap : BOOLEAN, shutting : BOOLEAN],
             \A r \in Calls : RunOk(run[r], group'[r])
      PROVE  TypeOK' /\ RunsInv' /\ OkIsComplete'
  <2>1. TypeOK'
    BY <1>1, <1>3 DEF RunnerInv, TypeOK
  <2>2. RunsInv' /\ OkIsComplete'
    BY <1>1, <1>3 DEF RunsInv, OkIsComplete, RunOk
  <2>3. QED
    BY <2>1, <2>2
<1>4. CASE Dies
  <2>1. group' \in [Calls -> Group] /\ \A r \in Calls : RunOk(run[r], group'[r])
    BY <1>1, <1>4, GroupSteps, EndedStays DEF Dies, RunOk
  <2>2. proc' \in [alive : BOOLEAN, trap : BOOLEAN, shutting : BOOLEAN] /\ ~proc'.alive
    BY <1>1, <1>4 DEF Dies
  <2>3. \A r \in LiveChildren : ~Survives(group'[r])
    BY <1>1, <1>4, EndedStays DEF Dies, LiveChildren
  <2>4. QED
    BY <1>2, <1>3, <2>1, <2>2, <2>3 DEF RunnerInv, TrapWhileLive, NothingSurvivesInterrupt
<1>5. CASE proc.alive /\ ~proc.trap /\ proc' = [proc EXCEPT !.alive = FALSE] /\ UNCHANGED group
  <2>1. proc' \in [alive : BOOLEAN, trap : BOOLEAN, shutting : BOOLEAN] /\ ~proc'.alive
    BY <1>1, <1>5
  <2>2. LiveChildren = {}
    BY <1>5 DEF RunnerInv, TrapWhileLive
  <2>3. QED
    BY <1>1, <1>2, <1>3, <1>5, <2>1, <2>2 DEF RunnerInv, TrapWhileLive, NothingSurvivesInterrupt
<1>6. CASE /\ proc.alive /\ proc.trap /\ proc' = [proc EXCEPT !.shutting = TRUE]
           /\ group' = [r \in Calls |-> IF IsLive(r) THEN Asked(group[r]) ELSE group[r]]
  <2>1. /\ proc' \in [alive : BOOLEAN, trap : BOOLEAN, shutting : BOOLEAN]
        /\ proc'.alive /\ proc'.trap /\ proc'.shutting
    BY <1>1, <1>6
  <2>2. group' \in [Calls -> Group] /\ \A r \in Calls : RunOk(run[r], group'[r])
    BY <1>1, <1>6, GroupSteps, EndedStays DEF RunOk
  <2>3. QED
    BY <1>3, <2>1, <2>2 DEF RunnerInv, TrapWhileLive, NothingSurvivesInterrupt
<1>7. QED
  BY <1>4, <1>5, <1>6 DEF Interrupt, Escalates

\* Every step of the runner keeps its invariant.
LEMMA RunnerStep == RunnerInv /\ [Next]_vars => RunnerInv'
<1> SUFFICES ASSUME RunnerInv, [Next]_vars PROVE RunnerInv'
  OBVIOUS
<1>1. CASE UNCHANGED vars
  BY <1>1 DEF vars, RunnerInv, TypeOK, RunsInv, TrapWhileLive, LiveChildren, IsLive, OkIsComplete,
              NothingSurvivesInterrupt
<1>2. CASE Interrupt \/ Escalates
  BY <1>2, InterruptSteps
<1>3. ASSUME NEW r \in Calls, Spawns(r) \/ SpawnFails(r) \/ Handlers(r) \/ ChildExits(r) \/ RestEnds(r)
      PROVE  RunnerInv'
  BY <1>3, RunStarts, HandlerSteps, ProcessSteps
<1>4. QED
  BY <1>1, <1>2, <1>3 DEF Next

\* Nothing is handed to who waits when the process is interrupted: its run has no
\* outcome yet, and a run that is settled then gets none.
LEMMA Waiting ==
  ASSUME RunnerInv, [Next]_vars, NEW r \in Calls, proc.shutting, IsLive(r)
  PROVE  run'[r].out = None
<1>1. run \in [Calls -> Run] /\ run[r] \in Run /\ run[r].out = None /\ run[r].step # "off"
  BY DEF RunnerInv, TypeOK, RunsInv, IsLive
<1>2. ASSUME NEW q \in Calls, NEW out, Settle(q, out) PROVE run'[r].out = None
  <2>1. CASE q = r
    BY <1>1, <1>2, <2>1 DEF Settle, HandsBack, Run
  <2>2. CASE q # r
    BY <1>1, <1>2, <2>2 DEF Settle
  <2>3. QED
    BY <2>1, <2>2
<1>3. ASSUME NEW q \in Calls, Spawns(q) \/ SpawnFails(q) PROVE run'[r].out = None
  <2>1. q # r
    BY <1>1, <1>3 DEF Spawns, SpawnFails, MayCall
  <2>2. QED
    BY <1>1, <1>3, <2>1 DEF Spawns, SpawnFails
<1>4. ASSUME NEW q \in Calls, OnExit(q) \/ TimesOut(q) \/ KillTimer(q) PROVE run'[r].out = None
  BY <1>1, <1>4 DEF OnExit, TimesOut, KillTimer, Run
<1>5. ASSUME NEW q \in Calls, OnError(q) \/ OnClose(q) \/ Drains(q) PROVE run'[r].out = None
  BY <1>2, <1>5 DEF OnError, OnClose, Drains
<1>6. CASE Interrupt \/ Escalates \/ (\E q \in Calls : ChildExits(q) \/ RestEnds(q)) \/ UNCHANGED vars
  BY <1>1, <1>6 DEF Interrupt, Escalates, ChildExits, RestEnds, vars
<1>7. QED
  BY <1>3, <1>4, <1>5, <1>6 DEF Next, Handlers

-----------------------------------------------------------------------------
(* The runner of checks                                                     *)

\* The processes of a check, as those of a command.
LEMMA CheckGroups ==
  ASSUME NEW g \in Verify!Group
  PROVE  /\ Verify!Asked(g) \in Verify!Group /\ Verify!Killed(g) \in Verify!Group
         /\ Verify!Ended(g) \in Verify!Group
         /\ \A code \in Verify!Codes : Verify!Exited(g, code) \in Verify!Group
         /\ \A deaf \in BOOLEAN, rest \in Verify!Backgrounds : Verify!Spawned(deaf, rest) \in Verify!Group
         /\ ~Verify!Survives(Verify!Killed(g))
         /\ ~Verify!Survives(g) => ~Verify!Survives(Verify!Ended(g))
BY DEF Verify!Asked, Verify!Killed, Verify!Ended, Verify!Exited, Verify!NoGroup, Verify!Spawned, Verify!Group,
       Verify!Codes, Verify!Backgrounds, Verify!Survives

LEMMA NoProcesses == Verify!NoGroup \in Verify!Group /\ ~Verify!Survives(Verify!NoGroup)
BY DEF Verify!NoGroup, Verify!Group, Verify!Codes, Verify!Backgrounds, Verify!Survives

\* A result names what had happened to the command.
Evidence(entry) ==
  entry.status \in {"passed", "failed"} =>
    /\ ~entry.late /\ Verify!Closed(entry.group)
    /\ entry.group.code = IF entry.status = "passed" THEN "ok" ELSE "fail"

Entries == [status : Verify!Statuses, group : Verify!Group, late : BOOLEAN]

AtWork == [step : {"idle", "live", "broken"}, late : BOOLEAN, timer : BOOLEAN, kill : BOOLEAN]

\* A check at work is one that is still to have its result.
CheckInv == check.step # "idle" => Len(results) < Checks

VerifyInv ==
  /\ Verify!TypeOK /\ CheckInv
  /\ Verify!TrapWhileChecking /\ Verify!ResultsAreComplete /\ Verify!NothingSurvivesInterrupt

VerifyShape ==
  /\ results \in Seq(Entries) /\ Len(results) <= Checks
  /\ check \in AtWork /\ vgroup \in Verify!Group /\ vproc \in [alive : BOOLEAN, trap : BOOLEAN]
  /\ check.step = "idle" => check = Verify!Idle /\ vgroup = Verify!NoGroup
  /\ check.step # "idle" => Len(results) < Checks
  /\ vproc.alive => (vproc.trap <=> check.step # "idle")
  /\ \A i \in DOMAIN results : Evidence(results[i])
  /\ ~vproc.alive => ~Verify!Survives(vgroup)

LEMMA VerifyTypes == (VerifyInv <=> VerifyShape) /\ (VerifyInv' <=> VerifyShape')
BY DEF VerifyInv, Verify!TypeOK, CheckInv, Verify!TrapWhileChecking, Verify!ResultsAreComplete,
       Verify!NothingSurvivesInterrupt, Evidence, Entries, AtWork, VerifyShape

LEMMA VerifyInit == Verify!Init => VerifyInv
<1> SUFFICES ASSUME Verify!Init PROVE VerifyInv
  OBVIOUS
<1>1. /\ results = <<>> /\ check = Verify!Idle /\ vgroup = Verify!NoGroup
      /\ vproc = [alive |-> TRUE, trap |-> FALSE]
  BY DEF Verify!Init
<1>2. /\ results \in Seq(Entries) /\ Len(results) <= Checks
      /\ \A i \in DOMAIN results : Evidence(results[i])
  BY <1>1, RunnersConstants DEF Verify!VerifyRunnerConstants
<1>3. check \in AtWork /\ check.step = "idle"
  BY <1>1 DEF Verify!Idle, AtWork
<1>4. QED
  BY <1>1, <1>2, <1>3, NoProcesses, VerifyTypes DEF VerifyShape

\* A result is added, and no check is at work.
LEMMA ResultAdded ==
  ASSUME VerifyInv, NEW entry \in Entries, Evidence(entry), Len(results) < Checks, vproc.alive,
         results' = Append(results, entry), check' = Verify!Idle, vgroup' = Verify!NoGroup,
         vproc' = [vproc EXCEPT !.trap = FALSE] \/ (vproc' = vproc /\ ~vproc.trap)
  PROVE  VerifyInv'
<1>1. results \in Seq(Entries) /\ Checks \in Nat /\ vproc \in [alive : BOOLEAN, trap : BOOLEAN]
  BY VerifyTypes, RunnersConstants DEF VerifyShape, Verify!VerifyRunnerConstants
<1>2. /\ results' \in Seq(Entries) /\ Len(results') = Len(results) + 1
      /\ \A i \in 1..Len(results) : results'[i] = results[i] /\ results'[Len(results) + 1] = entry
  BY <1>1
<1>3. Len(results') <= Checks
  BY <1>1, <1>2
<1>4. \A i \in DOMAIN results' : Evidence(results'[i])
  <2> SUFFICES ASSUME NEW i \in 1..(Len(results) + 1) PROVE Evidence(results'[i])
    BY <1>1, <1>2
  <2>1. \A j \in 1..Len(results) : Evidence(results[j])
    BY <1>1, VerifyTypes DEF VerifyShape
  <2>2. CASE i \in 1..Len(results)
    BY <1>2, <2>1, <2>2
  <2>3. CASE i = Len(results) + 1
    BY <1>1, <2>3
  <2>4. QED
    BY <1>1, <2>2, <2>3
<1>5. check' \in AtWork /\ check'.step = "idle"
  BY DEF Verify!Idle, AtWork
<1>6. vproc' \in [alive : BOOLEAN, trap : BOOLEAN] /\ vproc'.alive /\ ~vproc'.trap
  BY <1>1
<1>7. QED
  BY <1>2, <1>3, <1>4, <1>5, <1>6, NoProcesses, VerifyTypes DEF VerifyShape

\* The results stay, and a check is at work or none is.
LEMMA ResultsStay ==
  ASSUME VerifyInv, UNCHANGED results, check' \in AtWork, vgroup' \in Verify!Group,
         vproc' \in [alive : BOOLEAN, trap : BOOLEAN],
         check'.step = "idle" => check' = Verify!Idle /\ vgroup' = Verify!NoGroup,
         check'.step # "idle" => Len(results) < Checks,
         vproc'.alive => (vproc'.trap <=> check'.step # "idle"),
         ~vproc'.alive => ~Verify!Survives(vgroup')
  PROVE  VerifyInv'
BY VerifyTypes DEF VerifyShape

LEMMA CheckSteps ==
  ASSUME VerifyInv, Verify!Next
  PROVE  VerifyInv'
<1>1. /\ results \in Seq(Entries) /\ Len(results) <= Checks /\ check \in AtWork /\ vgroup \in Verify!Group
      /\ vproc \in [alive : BOOLEAN, trap : BOOLEAN]
      /\ check.step = "idle" => check = Verify!Idle /\ vgroup = Verify!NoGroup
      /\ check.step # "idle" => Len(results) < Checks
      /\ vproc.alive => (vproc.trap <=> check.step # "idle")
      /\ ~vproc.alive => ~Verify!Survives(vgroup)
      /\ Checks \in Nat /\ SweepRests \subseteq Verify!Backgrounds
  BY VerifyTypes, RunnersConstants DEF VerifyShape, Verify!VerifyRunnerConstants
<1>2. CASE Verify!CannotStart
  <2> DEFINE entry == [status |-> "error", group |-> Verify!NoGroup, late |-> FALSE]
  <2>1. entry \in Entries /\ Evidence(entry)
    BY NoProcesses DEF Entries, Verify!Statuses, Evidence
  <2>2. /\ vproc.alive /\ check.step = "idle" /\ Len(results) < Checks
        /\ results' = Append(results, entry) /\ UNCHANGED <<check, vgroup, vproc>>
    BY <1>2 DEF Verify!CannotStart, Verify!MayStart, Verify!Result
  <2> HIDE DEF entry
  <2>3. QED
    BY <1>1, <2>1, <2>2, ResultAdded
<1>3. CASE Verify!Starts
  <2>1. /\ vproc.alive /\ check.step = "idle" /\ Len(results) < Checks /\ UNCHANGED results
        /\ vproc' = [vproc EXCEPT !.trap = TRUE]
    BY <1>3 DEF Verify!Starts, Verify!MayStart
  <2>2. check' \in AtWork /\ check'.step # "idle"
    BY <1>3 DEF Verify!Starts, Verify!Idle, AtWork
  <2>3. vgroup' \in Verify!Group
    <3>1. \A deaf \in BOOLEAN, rest \in SweepRests : Verify!Spawned(deaf, rest) \in Verify!Group
      BY <1>1, CheckGroups
    <3>2. QED
      BY <1>1, <1>3, <3>1 DEF Verify!Starts
  <2>4. vproc' \in [alive : BOOLEAN, trap : BOOLEAN] /\ vproc'.alive /\ vproc'.trap
    BY <1>1, <2>1
  <2>5. QED
    BY <2>1, <2>2, <2>3, <2>4, ResultsStay
<1>4. ASSUME NEW verdict \in Verify!Statuses, Verify!Settle(verdict), vproc.alive, check.step # "idle",
             verdict \in {"passed", "failed"} =>
               /\ ~check.late /\ Verify!Closed(vgroup)
               /\ vgroup.code = IF verdict = "passed" THEN "ok" ELSE "fail"
      PROVE  VerifyInv'
  <2>1. PICK entry : entry = [status |-> verdict, group |-> vgroup, late |-> check.late]
    OBVIOUS
  <2>2. entry \in Entries /\ Evidence(entry)
    BY <1>1, <1>4, <2>1 DEF Entries, AtWork, Evidence
  <2>3. results' = Append(results, entry) /\ check' = Verify!Idle /\ vgroup' = Verify!NoGroup
    BY <1>4, <2>1 DEF Verify!Settle, Verify!Result
  <2>4. vproc' = [vproc EXCEPT !.trap = FALSE] /\ vproc.alive
    BY <1>4 DEF Verify!Settle
  <2>5. Len(results) < Checks
    BY <1>1, <1>4
  <2>6. QED
    BY <2>2, <2>3, <2>4, <2>5, ResultAdded
<1>5. CASE Verify!OnError
  BY <1>4, <1>5 DEF Verify!OnError, Verify!Statuses
<1>6. CASE Verify!OnClose
  <2>1. /\ Verify!StatusOf \in Verify!Statuses
        /\ Verify!StatusOf \in {"passed", "failed"} =>
             ~check.late /\ vgroup.code = IF Verify!StatusOf = "passed" THEN "ok" ELSE "fail"
    BY <1>1 DEF Verify!StatusOf, Verify!Statuses, Verify!Group, Verify!Codes
  <2>2. vproc.alive /\ check.step # "idle" /\ Verify!Closed(vgroup) /\ Verify!Settle(Verify!StatusOf)
    BY <1>6 DEF Verify!OnClose
  <2>3. QED
    BY <1>4, <2>1, <2>2
<1>7. CASE Verify!TimesOut \/ Verify!KillTimer
  <2>1. check.step # "idle"
    BY <1>1, <1>7 DEF Verify!TimesOut, Verify!KillTimer, Verify!Idle
  <2>2. /\ vproc.alive /\ UNCHANGED <<results, vproc>>
        /\ vgroup' = Verify!Asked(vgroup) \/ vgroup' = Verify!Killed(vgroup)
        /\ \/ check' = [check EXCEPT !.late = TRUE, !.timer = FALSE, !.kill = TRUE]
           \/ check' = [check EXCEPT !.kill = FALSE]
    BY <1>7 DEF Verify!TimesOut, Verify!KillTimer
  <2>3. check' \in AtWork /\ check'.step = check.step
    BY <1>1, <2>2 DEF AtWork
  <2>4. vgroup' \in Verify!Group
    BY <1>1, <2>2, CheckGroups
  <2>5. QED
    BY <1>1, <2>1, <2>2, <2>3, <2>4, ResultsStay
<1>8. CASE Verify!Interrupt
  <2>1. /\ vproc.alive /\ UNCHANGED <<results, check>> /\ vproc' = [vproc EXCEPT !.alive = FALSE]
        /\ vgroup' = IF vproc.trap THEN Verify!Killed(vgroup) ELSE vgroup
    BY <1>8 DEF Verify!Interrupt
  <2>2. vproc' \in [alive : BOOLEAN, trap : BOOLEAN] /\ ~vproc'.alive
    BY <1>1, <2>1
  <2>3. vgroup' \in Verify!Group /\ ~Verify!Survives(vgroup')
    BY <1>1, <2>1, CheckGroups, NoProcesses
  <2>4. check.step = "idle" => vgroup' = Verify!NoGroup
    BY <1>1, <2>1
  <2>5. QED
    BY <1>1, <2>1, <2>2, <2>3, <2>4, ResultsStay
<1>9. CASE Verify!ChildExits \/ Verify!RestEnds
  <2>1. UNCHANGED <<results, check, vproc>> /\ check.step # "idle"
    BY <1>1, <1>9 DEF Verify!ChildExits, Verify!RestEnds, Verify!NoGroup
  <2>2. vgroup' \in Verify!Group
    BY <1>1, <1>9, CheckGroups DEF Verify!ChildExits, Verify!RestEnds
  <2>3. ~vproc.alive => ~Verify!Survives(vgroup')
    <3>1. CASE Verify!ChildExits
      BY <1>1, <3>1 DEF Verify!ChildExits, Verify!Survives
    <3>2. CASE Verify!RestEnds
      BY <1>1, <3>2, CheckGroups DEF Verify!RestEnds
    <3>3. QED
      BY <1>9, <3>1, <3>2
  <2>4. QED
    BY <1>1, <2>1, <2>2, <2>3, ResultsStay
<1>10. QED
  BY <1>2, <1>3, <1>5, <1>6, <1>7, <1>8, <1>9 DEF Verify!Next, Verify!Handlers

\* Every step of the runner of checks keeps its invariant.
LEMMA VerifyStep == VerifyInv /\ [Verify!Next]_(Verify!vars) => VerifyInv'
<1>1. VerifyInv /\ UNCHANGED Verify!vars => VerifyInv'
  BY DEF Verify!vars, VerifyInv, Verify!TypeOK, CheckInv, Verify!TrapWhileChecking, Verify!ResultsAreComplete,
         Verify!NothingSurvivesInterrupt
<1>2. QED
  BY <1>1, CheckSteps

-----------------------------------------------------------------------------
(* The two runners                                                          *)

SumInv == RunnerInv /\ VerifyInv

\* A step of the sum is a step of one runner, and the other stays as it was.
LEMMA StepOfEach ==
  ASSUME [SumNext]_sumVars
  PROVE  [Next]_vars /\ [Verify!Next]_(Verify!vars)
BY DEF SumNext, Process, Sweep, sumVars, verifyVars, Verify!vars

\* The invariant of each runner holds in every behaviour of the sum.
THEOREM Invariance == SumSpec => []SumInv
<1>1. SumInit => SumInv
  BY RunnerInit, VerifyInit DEF SumInit, SumInv
<1>2. SumInv /\ [SumNext]_sumVars => SumInv'
  BY StepOfEach, RunnerStep, VerifyStep DEF SumInv
<1>3. QED
  BY <1>1, <1>2, PTL DEF SumSpec

\* A run that succeeded and a check that passed or failed did so in time, and
\* nobody could write to its pipes any more.
THEOREM CompleteResults == SumSpec => []ResultsAreComplete
<1>1. SumInv => ResultsAreComplete
  BY DEF SumInv, RunnerInv, VerifyInv, ResultsAreComplete
<1>2. QED
  BY <1>1, Invariance, PTL

\* An interrupted process leaves nothing behind, and its trap is set as long as
\* there is something to pass a signal to.
THEOREM InterruptedCleanly == SumSpec => []NothingLeftBehind
<1>1. SumInv => NothingLeftBehind
  BY DEF SumInv, RunnerInv, VerifyInv, NothingLeftBehind
<1>2. QED
  BY <1>1, Invariance, PTL

\* Who waits for a run when the process is interrupted is handed nothing.
THEOREM NoneHandedBack == SumSpec => WaitersStay
<1> DEFINE Kept == \A r \in Calls : proc.shutting /\ IsLive(r) => run'[r].out = None
<1>1. SumInv /\ [SumNext]_sumVars => [Kept]_vars
  BY StepOfEach, Waiting DEF SumInv
<1>2. QED
  BY <1>1, Invariance, PTL DEF SumSpec, WaitersStay

-----------------------------------------------------------------------------
(* What starting rests on                                                   *)

Active(c) == caller[c].step # "idle"

Starting(c) == caller[c].step \in {"root", "trees", "tabs"}

\* The world is as its types say, and a tab is there as long as it has a pane.
WorldOK ==
  /\ tree \in [Trees -> {"missing", "present", "foreign"}]
  /\ tab \in [TabIds -> Labels \cup {"plain", Nothing}]
  /\ pane \in [PaneIds -> Pane \cup {Nothing}]
  /\ \A i \in Panes : pane[i].tab \in Tabs
  /\ \A t \in Tabs : PanesOf(t) # {}

\* A worktree that is there stays: that of the root before the workspace is opened,
\* and that of a child before it has a tab.
TreesInv ==
  /\ Open => tree[Root] = "present"
  /\ \A t \in Tabs : tab[t] \in Children => tree[tab[t]] = "present"

\* What a command has found and made.
KnownInv(c) ==
  /\ Active(c) => caller[c].plan \in Plan
  /\ caller[c].step = "root" /\ caller[c].plan.root # "missing" => tree[Root] = "present"
  /\ caller[c].step \in {"root", "trees"} =>
       \A a \in Children \ caller[c].todo : tree[a] = "present"
  /\ caller[c].step = "tabs" => \A a \in Children : tree[a] = "present"
  /\ caller[c].step = "run" =>
       caller[c].next \in DOMAIN Order /\ caller[c].plan.procs[Planned(c)] = Nothing

\* As long as nobody closes tabs, the first one is never a child's, every pane is at
\* the path of its tab, and the agent's tab comes before those of the children and
\* before the agent.
HomeInv ==
  /\ Open => 1 \in Tabs /\ tab[1] \notin Children
  /\ \A i \in Panes : pane[i].cwd = PathOf(tab[pane[i].tab])
  /\ (\E t \in Tabs : tab[t] \in Children) => LabelledTabs("agent") # {}
  /\ \A i \in Panes : pane[i].runs = "agent" => pane[i].cwd = Root /\ LabelledTabs("agent") # {}

\* Where a tab is to be found, and a pane.
AtHome(t) == t # Nothing => t \in Tabs /\ tab[t] \notin Children

PaneAtHome(i) == i # Nothing => i \in Panes /\ pane[i].cwd = Root

CallerAtHome(c) ==
  /\ Starting(c) =>
       /\ AtHome(caller[c].plan.first) /\ PaneAtHome(caller[c].plan.firstPane)
       /\ AtHome(caller[c].tab) /\ PaneAtHome(caller[c].pane)
       /\ caller[c].plan.tabs["agent"] # Nothing =>
            caller[c].plan.tabs["agent"] \in LabelledTabs("agent")
  /\ caller[c].step = "tabs" => LabelledTabs("agent") # {}

\* Without a runtime, every tab has one pane, and the root has one tab.
OnePane == \A i, j \in Panes : pane[i].tab = pane[j].tab => i = j

RootTab == \A t, u \in Tabs : tab[t] \notin Children /\ tab[u] \notin Children => t = u

\* The user does not close tabs of a group.
Kept == Children = {} \/ "closes" \notin faults

OneTab == OnePane /\ (Kept => RootTab)

OneTabInv == OneTab /\ \A c \in Operators : Active(c) => Starting(c)

\* One command at a time finds the labels, and the agent, as its plan says.
OneActive == \A c, d \in Operators : Active(c) /\ Active(d) => c = d

OneLabel == \A t, u \in Tabs : tab[t] \in Labels /\ tab[t] = tab[u] => t = u

PlannedInv(c) ==
  /\ caller[c].step \in {"root", "trees"} =>
       \A l \in {"agent"} \cup Children : caller[c].plan.tabs[l] = Nothing => LabelledTabs(l) = {}
  /\ caller[c].step = "tabs" => \A a \in caller[c].todo : LabelledTabs(a) = {}
  /\ caller[c].step = "runtime" /\ caller[c].plan.tabs["runtime"] = Nothing => LabelledTabs("runtime") = {}
  /\ Starting(c) /\ ~caller[c].plan.agent /\ Kept => \A i \in Panes : pane[i].runs # "agent"

\* In the tab of the processes each of them is once, in one pane its name, and none
\* in a pane without a name.
OneOfEach ==
  /\ \A i, j \in RuntimePanes : pane[i].runs \in Processes /\ pane[i].runs = pane[j].runs => i = j
  /\ \A i, j \in RuntimePanes : pane[i].label # Nothing /\ pane[i].label = pane[j].label => i = j
  /\ \A i \in RuntimePanes : pane[i].runs \in Processes => pane[i].label # Nothing

\* The processes that are yet to be started are not in their tab.
ToStart(c) ==
  {Order[j] : j \in {k \in DOMAIN Order : k >= caller[c].next /\ caller[c].plan.procs[Order[k]] = Nothing}}

ProcessInv(c) ==
  caller[c].step \in {"runtime", "place", "run"} =>
    \A p \in ToStart(c), i \in RuntimePanes : pane[i].runs # p /\ pane[i].label # p

\* The cases in which there is one agent.
Single == Kept /\ ~({"overlap", "runtime"} \subseteq faults)

OneAgentPane == \A i, j \in Panes : pane[i].runs = "agent" /\ pane[j].runs = "agent" => i = j

\* What holds of the world, and what a caller may rely on.
WorldInv ==
  /\ faults \in FaultCases /\ left \in 0..MaxFaults /\ WorldOK /\ TreesInv
  /\ "closes" \notin faults => HomeInv
  /\ "overlap" \notin faults => OneLabel /\ ("closes" \notin faults => OneOfEach)
  /\ Single => OneAgentPane

CallerInv(c) ==
  /\ KnownInv(c)
  /\ "closes" \notin faults => CallerAtHome(c)
  /\ "overlap" \notin faults => PlannedInv(c) /\ ("closes" \notin faults => ProcessInv(c))

GroupInv ==
  /\ WorldInv
  /\ caller \in [Operators -> Caller]
  /\ \A c \in Operators : CallerInv(c)
  /\ "runtime" \notin faults => OneTabInv
  /\ "overlap" \notin faults => OneActive

-----------------------------------------------------------------------------
(* What the calls do to the workspace                                       *)

\* There is a lowest one of the numbers up to a bound: of the sets of those below an
\* element one is minimal.
LEMMA LowestIn ==
  ASSUME NEW n \in Nat, NEW S \in SUBSET (1..n), S # {}
  PROVE  Lowest(S) \in S /\ \A y \in S : Lowest(S) <= y
<1> DEFINE Below(x) == {z \in S : z < x}
           Sets == {Below(x) : x \in S}
<1>1. IsWellFoundedOn(StrictSubsetOrdering(S), FiniteSubsetsOf(S))
  BY FS_StrictSubsetOrderingWellFounded
<1>2. IsFiniteSet(S)
  <2>1. IsFiniteSet(1..n)
    BY FS_Interval
  <2>2. QED
    BY <2>1, FS_Subset
<1>3. Sets \subseteq FiniteSubsetsOf(S)
  BY <1>2, FS_FiniteSubsetsOfFinite
<1>4. PICK B \in Sets : \A C \in Sets : ~(<<C, B>> \in StrictSubsetOrdering(S))
  <2>1. Sets # {}
    OBVIOUS
  <2> HIDE DEF Sets
  <2>2. QED
    BY <1>1, <1>3, <2>1, WFMin
<1>5. PICK x \in S : B = Below(x)
  BY <1>4
<1>6. ASSUME NEW y \in S, ~(x <= y) PROVE FALSE
  <2>0. y < x /\ \A z \in S : z \in Nat
    BY <1>6
  <2>1. Below(y) \subseteq Below(x) /\ y \in Below(x) /\ y \notin Below(y)
    <3>1. \A z \in S : z < y => z < x
      BY <2>0
    <3>2. ~(y < y)
      BY <2>0
    <3>3. y \in Below(x) /\ y \notin Below(y)
      BY <2>0, <3>2
    <3>4. QED
      BY <3>1, <3>3
  <2>2. Below(y) \in SUBSET S /\ Below(x) \in SUBSET S /\ Below(y) # Below(x)
    BY <2>1
  <2>3. <<Below(y), Below(x)>> \in StrictSubsetOrdering(S)
    <3> HIDE DEF Below
    <3>1. QED
    BY <2>1, <2>2 DEF StrictSubsetOrdering
  <2>4. QED
    BY <2>3, <1>4, <1>5
<1>7. QED
  BY <1>6 DEF Lowest

LEMMA LowestOfTabs == \A S \in SUBSET TabIds : S # {} => Lowest(S) \in S
BY LowestIn, StartConstants DEF TabIds

LEMMA LowestOfPanes == \A S \in SUBSET PaneIds : S # {} => Lowest(S) \in S
BY LowestIn, StartConstants DEF PaneIds

\* A tab or a pane that is made was not there, and the first tab is the first one.
LEMMA Fresh ==
  /\ PaneIds \ Panes # {} => FreshPane \in PaneIds /\ pane[FreshPane] = Nothing
  /\ Room => /\ FreshTab \in TabIds /\ tab[FreshTab] = Nothing
             /\ FreshPane \in PaneIds /\ pane[FreshPane] = Nothing
             /\ ~Open => FreshTab = 1
<1>1. PaneIds \ Panes # {} => FreshPane \in PaneIds \ Panes
  BY LowestOfPanes DEF FreshPane
<1>2. TabIds \ Tabs # {} => FreshTab \in TabIds \ Tabs
  BY LowestOfTabs DEF FreshTab
<1>3. ASSUME Room, ~Open PROVE FreshTab = 1
  <2>1. TabIds \ Tabs = 1..MaxTabs /\ 1..MaxTabs # {} /\ 1..MaxTabs \in SUBSET (1..MaxTabs)
    BY <1>3 DEF Room, Open, TabIds, Tabs
  <2>2. 1 \in 1..MaxTabs
    BY <2>1, StartConstants
  <2>3. FreshTab \in 1..MaxTabs /\ \A y \in 1..MaxTabs : FreshTab <= y
    BY <2>1, LowestIn, StartConstants DEF FreshTab
  <2>4. QED
    BY <2>2, <2>3, StartConstants
<1>4. QED
  BY <1>1, <1>2, <1>3 DEF Room, Tabs, Panes

Same == UNCHANGED <<tree, tab, pane>>

\* The tab t is new, with the pane i.
Makes(t, i, l, w) ==
  /\ t \in TabIds \ Tabs /\ i \in PaneIds \ Panes
  /\ ~Open => t = 1
  /\ \A u \in TabIds : tab'[u] = IF u = t THEN l ELSE tab[u]
  /\ \A j \in PaneIds \ {i} : pane'[j] = pane[j]
  /\ pane'[i] \in Pane
  /\ pane'[i].tab = t /\ pane'[i].cwd = w /\ pane'[i].label = Nothing /\ pane'[i].runs = "shell"

\* The pane i is named or runs something else.
Retouches(i) ==
  /\ i \in Panes
  /\ \A j \in PaneIds \ {i} : pane'[j] = pane[j]
  /\ pane'[i] \in Pane /\ pane'[i].tab = pane[i].tab /\ pane'[i].cwd = pane[i].cwd

\* The pane j is a new one beside the pane i.
Splits(i, j) ==
  /\ i \in Panes /\ j \in PaneIds \ Panes
  /\ \A k \in PaneIds \ {j} : pane'[k] = pane[k]
  /\ pane'[j] \in Pane
  /\ pane'[j].tab = pane[i].tab /\ pane'[j].cwd = pane[i].cwd
  /\ pane'[j].label = Nothing /\ pane'[j].runs = "shell"

LEMMA NewTabMakes ==
  ASSUME WorldOK, Room, NEW l \in Labels \cup {"plain"}, NEW w \in Trees, NewTab(l, w)
  PROVE  /\ Makes(FreshTab, FreshPane, l, w)
         /\ tab' \in [TabIds -> Labels \cup {"plain", Nothing}]
         /\ pane' \in [PaneIds -> Pane \cup {Nothing}]
<1> DEFINE new == [tab |-> FreshTab, cwd |-> w, label |-> Nothing, runs |-> "shell"]
<1>1. /\ FreshTab \in TabIds \ Tabs /\ FreshPane \in PaneIds \ Panes
      /\ ~Open => FreshTab = 1
  BY Fresh DEF Tabs, Panes
<1>2. new \in Pane
  BY <1>1 DEF Pane
<1>3. pane' = [pane EXCEPT ![FreshPane] = new] /\ tab' = [tab EXCEPT ![FreshTab] = l]
  BY DEF NewTab
<1>4. new.tab = FreshTab /\ new.cwd = w /\ new.label = Nothing /\ new.runs = "shell"
  OBVIOUS
<1> HIDE DEF new
<1>5. \A u \in TabIds : tab'[u] = IF u = FreshTab THEN l ELSE tab[u]
  BY <1>3 DEF WorldOK
<1>6. pane'[FreshPane] = new /\ \A j \in PaneIds \ {FreshPane} : pane'[j] = pane[j]
  BY <1>1, <1>3 DEF WorldOK
<1>7. tab' \in [TabIds -> Labels \cup {"plain", Nothing}] /\ pane' \in [PaneIds -> Pane \cup {Nothing}]
  BY <1>1, <1>2, <1>3 DEF WorldOK
<1>8. QED
  BY <1>1, <1>2, <1>4, <1>5, <1>6, <1>7 DEF Makes

LEMMA PaneChanges ==
  ASSUME WorldOK, NEW i \in PaneIds, NEW new \in Pane, pane' = [pane EXCEPT ![i] = new]
  PROVE  /\ pane' \in [PaneIds -> Pane \cup {Nothing}]
         /\ pane'[i] = new /\ \A j \in PaneIds \ {i} : pane'[j] = pane[j]
BY DEF WorldOK

\* What stays as it is where nobody closes a tab: tabs and panes, where they are, and
\* what they are called, but for the tab that becomes the agent's.
Grows ==
  /\ \A w \in Trees : tree[w] = "present" => tree'[w] = "present"
  /\ \A t \in Tabs : t \in Tabs' /\ (tab'[t] = tab[t] \/ (tab[t] \notin Children /\ tab'[t] = "agent"))
  /\ \A i \in Panes : i \in Panes' /\ pane'[i].tab = pane[i].tab /\ pane'[i].cwd = pane[i].cwd

-----------------------------------------------------------------------------
(* What the world keeps                                                     *)

\* A step that leaves the workspace alone.
LEMMA WorldStays ==
  ASSUME WorldInv, UNCHANGED <<faults, tab, pane>>, left' \in 0..MaxFaults,
         tree' \in [Trees -> {"missing", "present", "foreign"}],
         \A w \in Trees : tree[w] = "present" => tree'[w] = "present"
  PROVE  WorldInv' /\ Grows
<1>1. /\ Open' = Open /\ Tabs' = Tabs /\ Panes' = Panes /\ RuntimePanes' = RuntimePanes
      /\ \A t \in TabIds : PanesOf(t)' = PanesOf(t)
      /\ \A l \in Labels : LabelledTabs(l)' = LabelledTabs(l)
  BY DEF Open, Tabs, Panes, RuntimePanes, PanesOf, LabelledTabs
<1>2. WorldOK'
  BY <1>1 DEF WorldInv, WorldOK, Tabs
<1>3. TreesInv'
  <2>1. Root \in Trees /\ Children \subseteq Trees
    BY DEF Trees
  <2>2. QED
    BY <1>1, <2>1 DEF WorldInv, TreesInv
<1>4. "closes" \notin faults => HomeInv'
  BY <1>1 DEF WorldInv, HomeInv, PathOf, Labels
<1>5. ("overlap" \notin faults => OneLabel' /\ ("closes" \notin faults => OneOfEach')) /\ (Single => OneAgentPane')
  BY <1>1 DEF WorldInv, OneLabel, OneOfEach, OneAgentPane
<1>6. Single' = Single
  BY DEF Single, Kept
<1>7. Grows
  BY <1>1 DEF Grows
<1>8. QED
  BY <1>2, <1>3, <1>4, <1>5, <1>6, <1>7 DEF WorldInv

\* A new tab has a label that was free, and the worktree it is for is there.
LEMMA WorldWithTab ==
  ASSUME WorldInv, faults' = faults, left' \in 0..MaxFaults,
         tree' \in [Trees -> {"missing", "present", "foreign"}],
         \A w \in Trees : tree[w] = "present" => tree'[w] = "present",
         NEW t, NEW i, NEW l \in Labels \cup {"plain"}, Makes(t, i, l, PathOf(l)),
         tab' \in [TabIds -> Labels \cup {"plain", Nothing}], pane' \in [PaneIds -> Pane \cup {Nothing}],
         tree'[Root] = "present", l \in Children => Open /\ tree'[l] = "present",
         "closes" \notin faults /\ l \in Children => LabelledTabs("agent") # {},
         "overlap" \notin faults /\ l \in Labels => LabelledTabs(l) = {}
  PROVE  WorldInv' /\ Grows
<1>1. /\ Tabs' = Tabs \cup {t} /\ t \notin Tabs /\ tab'[t] = l
      /\ \A u \in Tabs : tab'[u] = tab[u]
  BY NamesApart DEF Makes, Tabs
<1>2. /\ Panes' = Panes \cup {i} /\ i \notin Panes
      /\ \A j \in Panes : pane'[j] = pane[j]
  BY NamesApart DEF Makes, Panes
<1>3. /\ pane'[i].tab = t /\ pane'[i].cwd = PathOf(l) /\ pane'[i].label = Nothing /\ pane'[i].runs = "shell"
  BY DEF Makes
<1>4. \A j \in Panes : pane[j].tab \in Tabs
  BY DEF WorldInv, WorldOK
<1>5. WorldOK'
  <2>1. \A j \in Panes' : pane'[j].tab \in Tabs'
    BY <1>1, <1>2, <1>3, <1>4
  <2>2. ASSUME NEW u \in Tabs' PROVE PanesOf(u)' # {}
    <3>1. CASE u = t
      BY <3>1, <1>2, <1>3 DEF PanesOf
    <3>2. CASE u # t
      <4>1. PICK j \in Panes : pane[j].tab = u
        BY <3>2, <1>1 DEF WorldInv, WorldOK, PanesOf
      <4>2. QED
        BY <4>1, <1>2 DEF PanesOf
    <3>3. QED
      BY <3>1, <3>2
  <2>3. QED
    BY <2>1, <2>2 DEF WorldOK
<1>6. TreesInv'
  <2>1. Root \in Trees /\ Children \subseteq Trees
    BY DEF Trees
  <2>2. QED
    BY <1>1, <2>1 DEF TreesInv, WorldInv
<1>7. ASSUME "closes" \notin faults PROVE HomeInv'
  <2>1. HomeInv
    BY <1>7 DEF WorldInv
  <2>2. 1 \in Tabs' /\ tab'[1] \notin Children
    BY <2>1, <1>1 DEF HomeInv, Makes
  <2>3. \A j \in Panes' : pane'[j].cwd = PathOf(tab'[pane'[j].tab])
    BY <2>1, <1>1, <1>2, <1>3, <1>4 DEF HomeInv, PathOf
  <2>4. (\E u \in Tabs' : tab'[u] \in Children) => LabelledTabs("agent")' # {}
    <3>1. ASSUME NEW u \in Tabs', tab'[u] \in Children PROVE LabelledTabs("agent") # {}
      BY <3>1, <1>1, <1>7, <2>1 DEF HomeInv
    <3>2. LabelledTabs("agent") \subseteq LabelledTabs("agent")'
      BY <1>1 DEF LabelledTabs
    <3>3. QED
      BY <3>1, <3>2
  <2>5. \A j \in Panes' : pane'[j].runs = "agent" => pane'[j].cwd = Root /\ LabelledTabs("agent")' # {}
    <3>1. LabelledTabs("agent") \subseteq LabelledTabs("agent")'
      BY <1>1 DEF LabelledTabs
    <3>2. QED
      BY <2>1, <3>1, <1>2, <1>3 DEF HomeInv
  <2>6. QED
    BY <2>2, <2>3, <2>4, <2>5 DEF HomeInv, PathOf
<1>8. ASSUME "overlap" \notin faults PROVE OneLabel'
  <2>1. OneLabel
    BY <1>8 DEF WorldInv
  <2>2. \A u \in Tabs : tab[u] = l => l \notin Labels
    BY <1>8 DEF LabelledTabs
  <2>3. QED
    BY <1>1, <2>1, <2>2 DEF OneLabel
<1>9. ASSUME "overlap" \notin faults, "closes" \notin faults PROVE OneOfEach'
  <2>1. OneOfEach
    BY <1>9 DEF WorldInv
  <2>2. \A j \in RuntimePanes' : j # i => j \in RuntimePanes /\ pane'[j] = pane[j]
    BY <1>1, <1>2, <1>4 DEF RuntimePanes
  <2>3. "shell" \notin Processes
    BY NamesApart
  <2>4. QED
    BY <2>1, <2>2, <2>3, <1>3 DEF OneOfEach
<1>10. Single => OneAgentPane'
  <2>1. Single => OneAgentPane
    BY DEF WorldInv
  <2>2. QED
    BY <2>1, <1>2, <1>3 DEF OneAgentPane
<1>11. Single' = Single
  BY DEF Single, Kept
<1>12. Grows
  <2>1. \A u \in Tabs : u \in Tabs' /\ tab'[u] = tab[u]
    BY <1>1
  <2>2. \A j \in Panes : j \in Panes' /\ pane'[j].tab = pane[j].tab /\ pane'[j].cwd = pane[j].cwd
    BY <1>2
  <2>3. QED
    BY <2>1, <2>2 DEF Grows
<1>13. QED
  BY <1>5, <1>6, <1>7, <1>8, <1>9, <1>10, <1>11, <1>12 DEF WorldInv

\* The tab that becomes the agent's was not a child's, and no other one is the agent's.
LEMMA WorldNamed ==
  ASSUME WorldInv, UNCHANGED <<faults, tree, pane>>, left' \in 0..MaxFaults,
         NEW t \in Tabs, tab' = [tab EXCEPT ![t] = "agent"],
         "closes" \notin faults => tab[t] \notin Children,
         "overlap" \notin faults => LabelledTabs("agent") = {}
  PROVE  WorldInv' /\ ("closes" \notin faults => Grows) /\ LabelledTabs("agent")' # {}
<1>1. /\ Tabs' = Tabs /\ tab'[t] = "agent" /\ \A u \in Tabs : u # t => tab'[u] = tab[u]
      /\ tab' \in [TabIds -> Labels \cup {"plain", Nothing}]
  BY NamesApart DEF Tabs, WorldInv, WorldOK, Labels
<1>2. Panes' = Panes /\ \A u \in TabIds : PanesOf(u)' = PanesOf(u)
  BY DEF Panes, PanesOf
<1>3. \A j \in Panes : pane[j].tab \in Tabs
  BY DEF WorldInv, WorldOK
<1>4. "agent" \notin Children /\ t \in TabIds
  BY NamesApart DEF Tabs
<1>5. WorldOK'
  BY <1>1, <1>2 DEF WorldInv, WorldOK, Tabs
<1>6. TreesInv'
  BY <1>1, <1>4 DEF WorldInv, TreesInv, Open
<1>7. LabelledTabs("agent")' # {}
  BY <1>1 DEF LabelledTabs
<1>8. ASSUME "closes" \notin faults PROVE HomeInv' /\ Grows
  <2>1. HomeInv /\ tab[t] \notin Children
    BY <1>8 DEF WorldInv
  <2>2. Open' => 1 \in Tabs' /\ tab'[1] \notin Children
    BY <2>1, <1>1, <1>4 DEF HomeInv, Open
  <2>3. \A j \in Panes' : pane'[j].cwd = PathOf(tab'[pane'[j].tab])
    BY <2>1, <1>1, <1>2, <1>3, <1>4 DEF HomeInv, PathOf
  <2>4. \A j \in Panes' : pane'[j].runs = "agent" => pane'[j].cwd = Root /\ LabelledTabs("agent")' # {}
    BY <2>1, <1>2, <1>7 DEF HomeInv
  <2>5. Grows
    <3>1. \A u \in Tabs : u \in Tabs' /\ (tab'[u] = tab[u] \/ (tab[u] \notin Children /\ tab'[u] = "agent"))
      BY <2>1, <1>1
    <3>2. \A j \in Panes : j \in Panes' /\ pane'[j].tab = pane[j].tab /\ pane'[j].cwd = pane[j].cwd
      BY <1>2
    <3>3. QED
      BY <3>1, <3>2 DEF Grows
  <2>6. QED
    BY <2>2, <2>3, <2>4, <2>5, <1>7 DEF HomeInv, PathOf
<1>9. ASSUME "overlap" \notin faults PROVE OneLabel'
  <2>1. OneLabel /\ \A u \in Tabs : tab[u] # "agent"
    BY <1>9 DEF WorldInv, LabelledTabs
  <2>2. QED
    BY <2>1, <1>1 DEF OneLabel
<1>10. ASSUME "overlap" \notin faults, "closes" \notin faults PROVE OneOfEach'
  <2>1. OneOfEach
    BY <1>10 DEF WorldInv
  <2>2. RuntimePanes' \subseteq RuntimePanes
    BY <1>1, <1>2, <1>3 DEF RuntimePanes
  <2>3. QED
    BY <2>1, <2>2 DEF OneOfEach
<1>11. Single => OneAgentPane'
  BY <1>2 DEF WorldInv, OneAgentPane
<1>12. Single' = Single
  BY DEF Single, Kept
<1>13. QED
  BY <1>5, <1>6, <1>7, <1>8, <1>9, <1>10, <1>11, <1>12 DEF WorldInv

\* A pane's command changes, or its name: it is the only agent then, in the root's
\* worktree, and a process that is not in its tab yet.
LEMMA WorldRetouched ==
  ASSUME WorldInv, UNCHANGED <<faults, tree, tab>>, left' \in 0..MaxFaults,
         NEW i, Retouches(i), pane' \in [PaneIds -> Pane \cup {Nothing}],
         \/ pane'[i].runs # "agent"
         \/ pane[i].runs = "agent"
         \/ /\ "closes" \notin faults => pane[i].cwd = Root /\ LabelledTabs("agent") # {}
            /\ Single => \A j \in Panes : pane[j].runs # "agent",
         "overlap" \notin faults /\ "closes" \notin faults =>
           /\ pane'[i].runs = pane[i].runs \/ pane'[i].runs \notin Processes
              \/ \A j \in RuntimePanes : pane[j].runs # pane'[i].runs
           /\ pane'[i].label = pane[i].label \/ \A j \in RuntimePanes : pane[j].label # pane'[i].label
           /\ pane'[i].runs \in Processes => pane'[i].label # Nothing
  PROVE  WorldInv' /\ Grows
<1>1. /\ Tabs' = Tabs /\ Open' = Open /\ \A l \in Labels : LabelledTabs(l)' = LabelledTabs(l)
  BY DEF Tabs, Open, LabelledTabs
<1>2. Panes' = Panes /\ i \in Panes /\ \A j \in Panes : j # i => pane'[j] = pane[j]
  BY NamesApart DEF Retouches, Panes
<1>3. \A j \in Panes : pane'[j].tab = pane[j].tab /\ pane'[j].cwd = pane[j].cwd
  BY <1>2 DEF Retouches
<1>4. RuntimePanes' = RuntimePanes
  BY <1>2, <1>3 DEF RuntimePanes
<1>5. WorldOK'
  <2>1. \A u \in Tabs : PanesOf(u)' = PanesOf(u)
    BY <1>2, <1>3 DEF PanesOf
  <2>2. QED
    BY <1>1, <1>2, <1>3, <2>1 DEF WorldInv, WorldOK
<1>6. TreesInv'
  BY <1>1 DEF WorldInv, TreesInv
<1>7. ASSUME "closes" \notin faults PROVE HomeInv'
  <2>1. HomeInv
    BY <1>7 DEF WorldInv
  <2>2. \A j \in Panes' : pane'[j].cwd = PathOf(tab'[pane'[j].tab])
    BY <2>1, <1>2, <1>3 DEF HomeInv, PathOf
  <2>3. \A j \in Panes' : pane'[j].runs = "agent" => pane'[j].cwd = Root /\ LabelledTabs("agent") # {}
    BY <2>1, <1>2, <1>3, <1>7 DEF HomeInv
  <2>4. LabelledTabs("agent")' = LabelledTabs("agent")
    BY <1>1 DEF Labels
  <2>5. QED
    BY <2>1, <2>2, <2>3, <2>4, <1>1 DEF HomeInv, PathOf
<1>8. "overlap" \notin faults => OneLabel'
  BY <1>1 DEF WorldInv, OneLabel
<1>9. ASSUME "overlap" \notin faults, "closes" \notin faults PROVE OneOfEach'
  <2>1. OneOfEach /\ \A j \in RuntimePanes : j \in Panes
    BY <1>9 DEF WorldInv, RuntimePanes
  <2>2. ASSUME NEW j \in RuntimePanes, NEW k \in RuntimePanes,
               pane'[j].runs \in Processes, pane'[j].runs = pane'[k].runs
        PROVE  j = k
    BY <1>2, <1>9, <2>1, <2>2 DEF OneOfEach
  <2>3. ASSUME NEW j \in RuntimePanes, NEW k \in RuntimePanes,
               pane'[j].label # Nothing, pane'[j].label = pane'[k].label
        PROVE  j = k
    BY <1>2, <1>9, <2>1, <2>3 DEF OneOfEach
  <2>4. \A j \in RuntimePanes : pane'[j].runs \in Processes => pane'[j].label # Nothing
    BY <1>2, <1>9, <2>1 DEF OneOfEach
  <2>5. QED
    BY <2>2, <2>3, <2>4, <1>4 DEF OneOfEach
<1>10. Single => OneAgentPane'
  <2>1. Single => OneAgentPane
    BY DEF WorldInv
  <2>2. QED
    BY <2>1, <1>2 DEF OneAgentPane
<1>11. Single' = Single
  BY DEF Single, Kept
<1>12. Grows
  BY <1>1, <1>2, <1>3 DEF Grows
<1>13. QED
  BY <1>5, <1>6, <1>7, <1>8, <1>9, <1>10, <1>11, <1>12 DEF WorldInv

\* A split makes a pane with a shell.
LEMMA WorldSplit ==
  ASSUME WorldInv, UNCHANGED <<faults, tree, tab>>, left' \in 0..MaxFaults,
         NEW i, NEW j, Splits(i, j), pane' \in [PaneIds -> Pane \cup {Nothing}]
  PROVE  WorldInv' /\ Grows
<1>1. /\ Tabs' = Tabs /\ Open' = Open /\ \A l \in Labels : LabelledTabs(l)' = LabelledTabs(l)
  BY DEF Tabs, Open, LabelledTabs
<1>2. /\ Panes' = Panes \cup {j} /\ j \notin Panes /\ i \in Panes /\ \A k \in Panes : pane'[k] = pane[k]
  BY NamesApart DEF Splits, Panes
<1>3. /\ pane'[j].tab = pane[i].tab /\ pane'[j].cwd = pane[i].cwd
      /\ pane'[j].label = Nothing /\ pane'[j].runs = "shell"
  BY DEF Splits
<1>4. WorldOK'
  <2>1. \A u \in Tabs : PanesOf(u) \subseteq PanesOf(u)'
    BY <1>2 DEF PanesOf
  <2>2. \A u \in Tabs : PanesOf(u)' # {}
    BY <2>1 DEF WorldInv, WorldOK
  <2>3. \A k \in Panes' : pane'[k].tab \in Tabs
    BY <1>2, <1>3 DEF WorldInv, WorldOK
  <2>4. QED
    BY <1>1, <2>2, <2>3 DEF WorldInv, WorldOK
<1>5. TreesInv'
  BY <1>1 DEF WorldInv, TreesInv
<1>6. ASSUME "closes" \notin faults PROVE HomeInv'
  <2>1. HomeInv
    BY <1>6 DEF WorldInv
  <2>2. \A k \in Panes' : pane'[k].cwd = PathOf(tab'[pane'[k].tab])
    BY <2>1, <1>2, <1>3 DEF HomeInv, PathOf
  <2>3. \A k \in Panes' : pane'[k].runs = "agent" => pane'[k].cwd = Root /\ LabelledTabs("agent") # {}
    BY <2>1, <1>2, <1>3 DEF HomeInv
  <2>4. LabelledTabs("agent")' = LabelledTabs("agent")
    BY <1>1 DEF Labels
  <2>5. QED
    BY <2>1, <2>2, <2>3, <2>4, <1>1 DEF HomeInv, PathOf
<1>7. "overlap" \notin faults => OneLabel'
  BY <1>1 DEF WorldInv, OneLabel
<1>8. ASSUME "overlap" \notin faults, "closes" \notin faults PROVE OneOfEach'
  <2>1. OneOfEach
    BY <1>8 DEF WorldInv
  <2>2. \A k \in RuntimePanes' : k # j => k \in RuntimePanes /\ pane'[k] = pane[k]
    BY <1>2 DEF RuntimePanes
  <2>3. "shell" \notin Processes
    BY NamesApart
  <2>4. QED
    BY <2>1, <2>2, <2>3, <1>3 DEF OneOfEach
<1>9. Single => OneAgentPane'
  <2>1. Single => OneAgentPane
    BY DEF WorldInv
  <2>2. QED
    BY <2>1, <1>2, <1>3 DEF OneAgentPane
<1>10. Single' = Single
  BY DEF Single, Kept
<1>11. Grows
  BY <1>1, <1>2 DEF Grows
<1>12. QED
  BY <1>4, <1>5, <1>6, <1>7, <1>8, <1>9, <1>10, <1>11 DEF WorldInv

\* A tab is closed with its panes.
LEMMA WorldClosed ==
  ASSUME WorldInv, UNCHANGED <<faults, tree>>, left' \in 0..MaxFaults, "closes" \in faults,
         NEW t \in Tabs, tab' = [tab EXCEPT ![t] = Nothing],
         pane' = [i \in PaneIds |-> IF i \in PanesOf(t) THEN Nothing ELSE pane[i]]
  PROVE  /\ WorldInv'
         /\ Tabs' \subseteq Tabs /\ Panes' \subseteq Panes
         /\ \A u \in Tabs' : tab'[u] = tab[u]
         /\ \A i \in Panes' : pane'[i] = pane[i]
<1>1. /\ Tabs' = Tabs \ {t} /\ \A u \in Tabs' : tab'[u] = tab[u]
      /\ tab' \in [TabIds -> Labels \cup {"plain", Nothing}]
  BY DEF Tabs, WorldInv, WorldOK
<1>2. /\ Panes' = Panes \ PanesOf(t) /\ \A i \in Panes' : pane'[i] = pane[i]
      /\ pane' \in [PaneIds -> Pane \cup {Nothing}]
  BY DEF Panes, WorldInv, WorldOK
<1>3. WorldOK'
  <2>1. \A i \in Panes' : pane'[i].tab \in Tabs'
    BY <1>1, <1>2 DEF WorldInv, WorldOK, PanesOf
  <2>2. ASSUME NEW u \in Tabs' PROVE PanesOf(u)' # {}
    <3>1. PICK i \in Panes : pane[i].tab = u
      BY <1>1 DEF WorldInv, WorldOK, PanesOf
    <3>2. i \in Panes'
      BY <3>1, <1>1, <1>2 DEF PanesOf
    <3>3. QED
      BY <3>1, <3>2, <1>2 DEF PanesOf
  <2>3. QED
    BY <1>1, <1>2, <2>1, <2>2 DEF WorldInv, WorldOK
<1>4. TreesInv'
  BY <1>1 DEF WorldInv, TreesInv, Open
<1>5. "overlap" \notin faults => OneLabel'
  BY <1>1 DEF WorldInv, OneLabel
<1>6. Single => OneAgentPane'
  BY <1>2 DEF WorldInv, OneAgentPane
<1>7. Single' = Single
  BY DEF Single, Kept
<1>8. QED
  BY <1>1, <1>2, <1>3, <1>4, <1>5, <1>6, <1>7 DEF WorldInv

\* Without a runtime, panes come and go with their tabs, and the root gets a tab
\* where it has none.
LEMMA TabsStay ==
  ASSUME OneTab, faults' = faults,
         Tabs' = Tabs, \A t \in Tabs : tab'[t] = tab[t],
         Panes' = Panes, \A i \in Panes : pane'[i].tab = pane[i].tab
  PROVE  OneTab'
BY DEF OneTab, OnePane, RootTab, Kept

LEMMA TabMade ==
  ASSUME WorldOK, OneTab, faults' = faults,
         NEW t, NEW i, NEW l, NEW w, l \in Labels \cup {"plain"}, Makes(t, i, l, w),
         l \in Children \/ ~Open
  PROVE  OneTab'
<1>1. /\ Tabs' = Tabs \cup {t} /\ t \notin Tabs /\ tab'[t] = l
      /\ \A u \in Tabs : tab'[u] = tab[u]
  BY NamesApart DEF Makes, Tabs
<1>2. /\ Panes' = Panes \cup {i} /\ \A j \in Panes : pane'[j] = pane[j]
      /\ pane'[i].tab = t
  BY NamesApart DEF Makes, Panes
<1>3. \A j \in Panes : pane[j].tab # t
  BY <1>1 DEF WorldOK
<1>4. OnePane'
  BY <1>2, <1>3 DEF OneTab, OnePane
<1>5. Kept => RootTab'
  BY <1>1 DEF OneTab, RootTab, Open
<1>6. QED
  BY <1>4, <1>5 DEF OneTab, Kept

LEMMA TabNamed ==
  ASSUME WorldOK, OneTab, UNCHANGED <<faults, pane>>,
         NEW t \in Tabs, tab' = [tab EXCEPT ![t] = "agent"],
         "closes" \notin faults => tab[t] \notin Children
  PROVE  OneTab'
<1>1. /\ Tabs' = Tabs /\ \A u \in Tabs : u # t => tab'[u] = tab[u]
  BY NamesApart DEF Tabs, WorldOK, Labels
<1>2. Panes' = Panes
  BY DEF Panes
<1>3. OnePane'
  BY <1>2 DEF OneTab, OnePane
<1>4. Kept => RootTab'
  BY <1>1 DEF OneTab, RootTab, Kept
<1>5. QED
  BY <1>3, <1>4 DEF OneTab, Kept

-----------------------------------------------------------------------------
(* What a caller may rely on                                                *)

\* The caller c goes on as x, or its command ends; the others stay.
Moves(c, x) ==
  /\ caller' \in [Operators -> Caller]
  /\ caller'[c] \in {x, Idle}
  /\ \A d \in Operators : d # c => caller'[d] = caller[d]
  /\ left' \in 0..MaxFaults

LEMMA IdleIsCaller == Idle \in Caller /\ Idle.step = "idle"
<1>1. 1 \in 1..Len(Order) + 1
  BY StartConstants
<1>2. QED
  BY <1>1 DEF Idle, Caller, CallerSteps

LEMMA Moving ==
  ASSUME GroupInv, NEW c \in Operators, NEW x \in Caller,
         \/ Goes(c, x)
         \/ Stops(c)
         \/ caller' = [caller EXCEPT ![c] = x] /\ UNCHANGED left
         \/ \E f \in AllFaults : Fault(f) /\ Ends(c)
  PROVE  Moves(c, x)
<1>1. caller \in [Operators -> Caller] /\ left \in 0..MaxFaults
  BY DEF GroupInv, WorldInv
<1>2. caller' = [caller EXCEPT ![c] = x] \/ caller' = [caller EXCEPT ![c] = Idle]
  BY DEF Goes, Stops, Ends
<1>3. left' \in 0..MaxFaults
  BY <1>1, StartConstants DEF Goes, Stops, Fault
<1>4. QED
  BY <1>1, <1>2, <1>3, IdleIsCaller DEF Moves

\* A caller without a command relies on nothing.
LEMMA IdleHolds ==
  ASSUME NEW c \in Operators, caller'[c] = Idle
  PROVE  CallerInv(c)'
<1>1. caller'[c].step = "idle"
  BY IdleIsCaller
<1>2. KnownInv(c)'
  BY <1>1 DEF KnownInv, Active
<1>3. CallerAtHome(c)' /\ PlannedInv(c)' /\ ProcessInv(c)'
  BY <1>1 DEF CallerAtHome, PlannedInv, ProcessInv, Starting
<1>4. QED
  BY <1>2, <1>3 DEF CallerInv

\* What a caller knows of its plan and of the worktrees stays true while it waits,
\* and where tabs are not closed what it knows of the workspace.
LEMMA KnownStays ==
  ASSUME NEW d \in Operators, KnownInv(d), caller'[d] = caller[d],
         \A w \in Trees : tree[w] = "present" => tree'[w] = "present"
  PROVE  KnownInv(d)'
<1>1. Root \in Trees /\ Children \subseteq Trees
  BY DEF Trees
<1>2. QED
  BY <1>1 DEF KnownInv, Active, Planned

LEMMA HomeStays ==
  ASSUME NEW d \in Operators, CallerAtHome(d), caller'[d] = caller[d], Grows
  PROVE  CallerAtHome(d)'
<1>1. "agent" \notin Children
  BY NamesApart
<1>2. \A t : AtHome(t) => AtHome(t)'
  BY <1>1 DEF AtHome, Grows
<1>3. \A i : PaneAtHome(i) => PaneAtHome(i)'
  BY DEF PaneAtHome, Grows
<1>4. LabelledTabs("agent") \subseteq LabelledTabs("agent")'
  BY DEF LabelledTabs, Grows
<1>5. QED
  BY <1>2, <1>3, <1>4 DEF CallerAtHome, Starting

LEMMA PlanStays ==
  ASSUME caller \in [Operators -> Caller], faults' = faults,
         NEW d \in Operators, PlannedInv(d), caller'[d] = caller[d],
         Tabs' \subseteq Tabs, \A t \in Tabs' : tab'[t] = tab[t],
         Panes' \subseteq Panes, \A i \in Panes' : pane'[i].runs = "agent" => pane[i].runs = "agent"
  PROVE  PlannedInv(d)'
<1>1. \A l \in Labels : LabelledTabs(l)' \subseteq LabelledTabs(l)
  BY DEF LabelledTabs
<1>2. \A l \in Labels : LabelledTabs(l) = {} => LabelledTabs(l)' = {}
  BY <1>1
<1>3. Kept' = Kept /\ {"agent", "runtime"} \cup Children = Labels
  BY DEF Kept, Labels
<1>4. caller[d].todo \subseteq Labels
  BY <1>3 DEF Caller
<1>5. QED
  BY <1>2, <1>3, <1>4 DEF PlannedInv, Starting

LEMMA ProcessesStay ==
  ASSUME NEW d \in Operators, ProcessInv(d), caller'[d] = caller[d],
         RuntimePanes' \subseteq RuntimePanes,
         \A i \in RuntimePanes' : /\ pane'[i].label = pane[i].label
                                  /\ pane'[i].runs = pane[i].runs \/ pane'[i].runs \notin Processes
  PROVE  ProcessInv(d)'
<1>1. ToStart(d)' = ToStart(d) /\ ToStart(d) \subseteq Processes
  BY DEF ToStart, Processes
<1>2. QED
  BY <1>1 DEF ProcessInv

\* A step of c: what is to be shown of it, that the others rely on the same.
LEMMA StepOfCaller ==
  ASSUME GroupInv, NEW c \in Operators, NEW x \in Caller, Moves(c, x), faults' = faults,
         WorldInv', "closes" \notin faults => Grows,
         \A w \in Trees : tree[w] = "present" => tree'[w] = "present",
         Active(c) \/ (UNCHANGED <<tab, pane>> /\ ("overlap" \notin faults => \A d \in Operators : ~Active(d))),
         caller'[c] = x => CallerInv(c)',
         "runtime" \notin faults => OneTab' /\ x.step \in {"idle", "root", "trees", "tabs"}
  PROVE  GroupInv'
<1>1. /\ caller' \in [Operators -> Caller] /\ caller'[c] \in {x, Idle}
      /\ \A d \in Operators : d # c => caller'[d] = caller[d]
  BY DEF Moves
<1>2. CallerInv(c)'
  BY <1>1, IdleHolds
<1>3. ASSUME NEW d \in Operators, d # c PROVE CallerInv(d)'
  <2>1. CallerInv(d) /\ caller'[d] = caller[d]
    BY <1>1, <1>3 DEF GroupInv
  <2>2. KnownInv(d)'
    BY <2>1, KnownStays DEF CallerInv
  <2>3. "closes" \notin faults => CallerAtHome(d)'
    BY <2>1, HomeStays DEF CallerInv
  <2>4. ASSUME "overlap" \notin faults PROVE PlannedInv(d)' /\ ("closes" \notin faults => ProcessInv(d)')
    <3>1. CASE Active(c)
      <4>1. ~Active(d)
        BY <3>1, <2>4, <1>3 DEF GroupInv, OneActive
      <4>2. QED
        BY <4>1, <2>1 DEF Active, PlannedInv, ProcessInv, Starting
    <3>2. CASE UNCHANGED <<tab, pane>>
      <4>1. Tabs' = Tabs /\ Panes' = Panes /\ RuntimePanes' = RuntimePanes
        BY <3>2 DEF Tabs, Panes, RuntimePanes
      <4>2. PlannedInv(d)'
        BY <4>1, <3>2, <2>1, <2>4, PlanStays DEF CallerInv, GroupInv
      <4>3. "closes" \notin faults => ProcessInv(d)'
        BY <4>1, <3>2, <2>1, <2>4, ProcessesStay DEF CallerInv
      <4>4. QED
        BY <4>2, <4>3
    <3>3. QED
      BY <3>1, <3>2
  <2>5. QED
    BY <2>2, <2>3, <2>4 DEF CallerInv
<1>4. "overlap" \notin faults => OneActive'
  <2>1. \A d \in Operators : d # c => Active(d)' = Active(d)
    BY <1>1 DEF Active
  <2>2. QED
    BY <2>1 DEF GroupInv, OneActive
<1>5. ASSUME "runtime" \notin faults PROVE OneTabInv'
  <2>1. OneTab' /\ x.step \in {"idle", "root", "trees", "tabs"} /\ OneTabInv
    BY <1>5 DEF GroupInv
  <2>2. ASSUME NEW d \in Operators, Active(d)' PROVE Starting(d)'
    <3>1. CASE d = c
      BY <3>1, <2>1, <2>2, <1>1, IdleIsCaller DEF Active, Starting
    <3>2. CASE d # c
      BY <3>2, <2>1, <2>2, <1>1 DEF Active, Starting, OneTabInv
    <3>3. QED
      BY <3>1, <3>2
  <2>3. QED
    BY <2>1, <2>2 DEF OneTabInv
<1>6. QED
  BY <1>1, <1>2, <1>3, <1>4, <1>5 DEF GroupInv

\* A step of a command that leaves the workspace alone.
LEMMA QuietStep ==
  ASSUME GroupInv, NEW c \in Operators, NEW x \in Caller, Moves(c, x), UNCHANGED <<faults, tab, pane>>,
         tree' \in [Trees -> {"missing", "present", "foreign"}],
         \A w \in Trees : tree[w] = "present" => tree'[w] = "present",
         Active(c) \/ ("overlap" \notin faults => \A d \in Operators : ~Active(d)),
         caller'[c] = x => CallerInv(c)',
         "runtime" \notin faults => x.step \in {"idle", "root", "trees", "tabs"}
  PROVE  GroupInv'
<1>1. WorldInv' /\ Grows
  BY WorldStays DEF Moves, GroupInv
<1>2. "runtime" \notin faults => OneTab'
  <2>1. Tabs' = Tabs /\ Panes' = Panes
    BY DEF Tabs, Panes
  <2>2. QED
    BY <2>1, TabsStay DEF GroupInv, OneTabInv
<1>3. QED
  BY <1>1, <1>2, StepOfCaller

LEMMA Ending ==
  ASSUME GroupInv, NEW c \in Operators, Stops(c) \/ (\E f \in AllFaults : Fault(f) /\ Ends(c)),
         UNCHANGED <<faults, tree, tab, pane>>, Active(c)
  PROVE  GroupInv'
<1>1. Moves(c, Idle)
  BY Moving, IdleIsCaller
<1>2. CallerInv(c)'
  BY <1>1, IdleHolds DEF Moves
<1>3. tree' \in [Trees -> {"missing", "present", "foreign"}]
  BY DEF GroupInv, WorldInv, WorldOK
<1>4. QED
  BY <1>1, <1>2, <1>3, IdleIsCaller, QuietStep

-----------------------------------------------------------------------------
(* What a plan says                                                         *)

LEMMA PlanFacts ==
  ASSUME WorldOK, NEW p \in Plans
  PROVE  /\ p \in Plan
         /\ p.root = IF tree[Root] = "missing" THEN "missing" ELSE IF Open THEN "open" ELSE "closed"
         /\ p.absent = {a \in Children : tree[a] = "missing"}
         /\ \A l \in Labels : IF TabReady(l) THEN p.tabs[l] \in LabelledTabs(l) ELSE p.tabs[l] = Nothing
         /\ p.first # Nothing => p.first \in FirstTab
         /\ p.firstPane # Nothing => p.first # Nothing /\ p.firstPane \in PanesOf(p.first)
         /\ p.agent <=> LiveAgents # {} /\ TabReady("agent")
         /\ \A q \in Processes : p.procs[q] = Nothing => Running(q) = {}
<1> DEFINE root == IF tree[Root] = "missing" THEN "missing" ELSE IF Open THEN "open" ELSE "closed"
           absent == {a \in Children : tree[a] = "missing"}
           tabs == [l \in Labels |-> IF TabReady(l) THEN Lowest(LabelledTabs(l)) ELSE Nothing]
           of(t) == IF t = Nothing THEN Nothing ELSE Lowest(PanesOf(t))
           agent == LiveAgents # {} /\ TabReady("agent")
           procs == [q \in Processes |-> IF Running(q) # {} THEN Lowest(Running(q)) ELSE Nothing]
<1>1. PICK t \in IF FirstTab = {} THEN {Nothing} ELSE FirstTab :
        p = [root |-> root, absent |-> absent, tabs |-> tabs, first |-> t, firstPane |-> of(t),
             agent |-> agent, procs |-> procs]
  BY DEF Plans
<1>2. /\ root \in {"missing", "closed", "open"} /\ absent \in SUBSET Children /\ agent \in BOOLEAN
  OBVIOUS
<1>3. \A l \in Labels : LabelledTabs(l) \in SUBSET TabIds
  BY DEF LabelledTabs, Tabs
<1>4. \A l \in Labels : IF TabReady(l) THEN tabs[l] \in LabelledTabs(l) ELSE tabs[l] = Nothing
  BY <1>3, LowestOfTabs DEF TabReady
<1>5. tabs \in [Labels -> TabIds \cup {Nothing}]
  <2>1. \A l \in Labels : tabs[l] \in TabIds \cup {Nothing}
    BY <1>3, <1>4
  <2> DEFINE tabOf(l) == IF TabReady(l) THEN Lowest(LabelledTabs(l)) ELSE Nothing
  <2>2. \A l \in Labels : tabOf(l) \in TabIds \cup {Nothing}
    BY <2>1
  <2> HIDE DEF tabOf
  <2>3. [l \in Labels |-> tabOf(l)] \in [Labels -> TabIds \cup {Nothing}]
    BY <2>2
  <2>4. QED
    BY <2>3 DEF tabOf
<1>6. FirstTab \subseteq Tabs
  <2>1. \A l : LabelledTabs(l) \subseteq Tabs
    BY DEF LabelledTabs
  <2>2. QED
    BY <2>1 DEF FirstTab
<1>7. t # Nothing => t \in FirstTab /\ t \in TabIds
  BY <1>6 DEF Tabs
<1>8. of(t) # Nothing => t # Nothing /\ of(t) \in PanesOf(t) /\ of(t) \in PaneIds
  <2>1. CASE t = Nothing
    BY <2>1
  <2>2. CASE t # Nothing
    <3>1. PanesOf(t) # {} /\ PanesOf(t) \in SUBSET PaneIds
      BY <2>2, <1>6, <1>7 DEF WorldOK, PanesOf, Panes
    <3>2. QED
      BY <3>1, <2>2, LowestOfPanes
  <2>3. QED
    BY <2>1, <2>2
<1>9. \A q \in Processes : procs[q] = Nothing => Running(q) = {}
  <2>1. \A q \in Processes : Running(q) \in SUBSET PaneIds
    BY DEF Running, RuntimePanes, Panes
  <2>2. QED
    BY <2>1, LowestOfPanes, NamesApart
<1>10. procs \in [Processes -> PaneIds \cup {Nothing}]
  <2> DEFINE paneOf(q) == IF Running(q) # {} THEN Lowest(Running(q)) ELSE Nothing
  <2>1. \A q \in Processes : Running(q) \in SUBSET PaneIds
    BY DEF Running, RuntimePanes, Panes
  <2>2. \A q \in Processes : paneOf(q) \in PaneIds \cup {Nothing}
    BY <2>1, LowestOfPanes
  <2> HIDE DEF paneOf
  <2>3. [q \in Processes |-> paneOf(q)] \in [Processes -> PaneIds \cup {Nothing}]
    BY <2>2
  <2>4. QED
    BY <2>3 DEF paneOf
<1> HIDE DEF root, absent, tabs, of, agent, procs
<1>11. /\ p.root = root /\ p.absent = absent /\ p.tabs = tabs /\ p.first = t /\ p.firstPane = of(t)
       /\ p.procs = procs
  BY <1>1
<1>12. p.agent = agent
  BY <1>1
<1>13. p \in Plan
  <2>1. t \in TabIds \cup {Nothing} /\ of(t) \in PaneIds \cup {Nothing}
    BY <1>7, <1>8
  <2>2. QED
    BY <1>1, <1>2, <1>5, <1>10, <2>1 DEF Plan
<1>14. \A l \in Labels : IF TabReady(l) THEN p.tabs[l] \in LabelledTabs(l) ELSE p.tabs[l] = Nothing
  BY <1>4, <1>11
<1>15. p.agent <=> LiveAgents # {} /\ TabReady("agent")
  BY <1>12 DEF agent
<1>16. p.root = IF tree[Root] = "missing" THEN "missing" ELSE IF Open THEN "open" ELSE "closed"
  BY <1>11 DEF root
<1>17. p.absent = {a \in Children : tree[a] = "missing"}
  BY <1>11 DEF absent
<1>18. /\ p.first # Nothing => p.first \in FirstTab
       /\ p.firstPane # Nothing => p.first # Nothing /\ p.firstPane \in PanesOf(p.first)
  BY <1>7, <1>8, <1>11
<1>19. \A q \in Processes : p.procs[q] = Nothing => Running(q) = {}
  BY <1>9, <1>11
<1>20. QED
  BY <1>13, <1>14, <1>15, <1>16, <1>17, <1>18, <1>19

\* Without a conflict a label that the plan has no tab for is free, and an agent that
\* it does not know of is not there.
LEMMA FreeLabels ==
  ASSUME WorldOK, TreesInv, ~Conflict, NEW l \in {"agent", "runtime"} \cup Children, ~TabReady(l)
  PROVE  LabelledTabs(l) = {}
<1>1. ~TabConflict(l) /\ l \in Labels
  BY DEF Conflict, Labels
<1>2. ASSUME LabelledTabs(l) # {} PROVE l \in Children => tree[l] = "present"
  BY <1>2 DEF LabelledTabs, TreesInv
<1>3. QED
  BY <1>1, <1>2 DEF TabConflict, TabReady

LEMMA Reconciled ==
  ASSUME GroupInv, NEW c \in Operators, NEW command \in Commands, Reconciles(c, command)
  PROVE  GroupInv'
<1>1. PICK p \in Plans :
        caller' = [caller EXCEPT ![c] =
          [Idle EXCEPT !.step = IF command = "start" THEN "root" ELSE "runtime",
                       !.plan = p, !.todo = p.absent]]
  BY DEF Reconciles
<1> DEFINE x == [Idle EXCEPT !.step = IF command = "start" THEN "root" ELSE "runtime",
                             !.plan = p, !.todo = p.absent]
<1>2. /\ x.step = (IF command = "start" THEN "root" ELSE "runtime") /\ x.plan = p /\ x.todo = p.absent
      /\ x.tab = Nothing /\ x.pane = Nothing /\ x.next = 1
  BY DEF Idle
<1>3. WorldInv /\ WorldOK /\ TreesInv
  BY DEF GroupInv, WorldInv
<1>4. /\ p \in Plan
      /\ p.root = (IF tree[Root] = "missing" THEN "missing" ELSE IF Open THEN "open" ELSE "closed")
      /\ p.absent = {a \in Children : tree[a] = "missing"}
      /\ \A l \in Labels : IF TabReady(l) THEN p.tabs[l] \in LabelledTabs(l) ELSE p.tabs[l] = Nothing
      /\ p.first # Nothing => p.first \in FirstTab
      /\ p.firstPane # Nothing => p.first # Nothing /\ p.firstPane \in PanesOf(p.first)
      /\ p.agent <=> LiveAgents # {} /\ TabReady("agent")
      /\ \A q \in Processes : p.procs[q] = Nothing => Running(q) = {}
  BY <1>3, PlanFacts
<1>5. x \in Caller
  <2> DEFINE s == IF command = "start" THEN "root" ELSE "runtime"
  <2>1. s \in CallerSteps /\ p.absent \in SUBSET Children
    BY <1>4 DEF CallerSteps
  <2> HIDE DEF s
  <2>2. [Idle EXCEPT !.step = s, !.plan = p, !.todo = p.absent] \in Caller
    BY <1>4, <2>1, IdleIsCaller DEF Caller
  <2>3. QED
    BY <2>2 DEF s
<1>6. caller' = [caller EXCEPT ![c] = x]
  BY <1>1
<1> HIDE DEF x
<1>7. /\ UNCHANGED <<faults, tree, tab, pane, left>> /\ ~Conflict
      /\ "overlap" \in faults \/ \A d \in Operators : caller[d].step = "idle"
      /\ command = "runtime" => "runtime" \in faults
  BY DEF Reconciles
<1>8. Moves(c, x)
  BY <1>5, <1>6, <1>7, Moving
<1>9. /\ Tabs' = Tabs /\ Panes' = Panes /\ \A l : LabelledTabs(l)' = LabelledTabs(l)
      /\ \A t : AtHome(t)' = AtHome(t) /\ \A i : PaneAtHome(i)' = PaneAtHome(i)
      /\ RuntimePanes' = RuntimePanes
  BY <1>7 DEF Tabs, Panes, LabelledTabs, AtHome, PaneAtHome, RuntimePanes
<1>10. caller'[c] = x
  BY <1>6 DEF GroupInv
<1>11. \A w \in Trees : tree[w] # "foreign"
  BY <1>7 DEF Conflict
<1>12. KnownInv(c)'
  <2>1. x.plan.root # "missing" => tree[Root] = "present"
    <3>1. Root \in Trees /\ tree \in [Trees -> {"missing", "present", "foreign"}]
      BY <1>3 DEF Trees, WorldOK
    <3>2. QED
      BY <1>2, <1>4, <1>11, <3>1
  <2>2. \A a \in Children \ x.todo : tree[a] = "present"
    <3>1. Children \subseteq Trees /\ tree \in [Trees -> {"missing", "present", "foreign"}]
      BY <1>3 DEF Trees, WorldOK
    <3>2. QED
      BY <1>2, <1>4, <1>11, <3>1
  <2>3. QED
    BY <1>2, <1>4, <1>7, <1>10, <2>1, <2>2 DEF KnownInv, Active
<1>13. ASSUME "closes" \notin faults PROVE CallerAtHome(c)'
  <2>1. HomeInv
    BY <1>3, <1>13 DEF WorldInv
  <2>2. ASSUME NEW t \in FirstTab PROVE t \in Tabs /\ tab[t] \notin Children
    <3>1. (\E a \in Children : LabelledTabs(a) # {}) => LabelledTabs("agent") # {}
      BY <2>1 DEF HomeInv, LabelledTabs
    <3>2. t \in LabelledTabs("agent") \/ t \in LabelledTabs("runtime")
      BY <2>2, <3>1 DEF FirstTab
    <3>3. QED
      BY <3>2, NamesApart DEF LabelledTabs
  <2>3. AtHome(p.first)
    BY <1>4, <2>2 DEF AtHome
  <2>4. PaneAtHome(p.firstPane)
    BY <1>4, <2>1, <2>2 DEF PaneAtHome, PanesOf, HomeInv, PathOf
  <2>5. p.tabs["agent"] # Nothing => p.tabs["agent"] \in LabelledTabs("agent")
    BY <1>4 DEF Labels
  <2>6. AtHome(Nothing) /\ PaneAtHome(Nothing)
    BY DEF AtHome, PaneAtHome
  <2>7. /\ AtHome(p.first)' /\ PaneAtHome(p.firstPane)' /\ AtHome(Nothing)' /\ PaneAtHome(Nothing)'
        /\ LabelledTabs("agent")' = LabelledTabs("agent")
    BY <1>9, <2>3, <2>4, <2>6
  <2>8. x.step # "tabs"
    BY <1>2
  <2>9. QED
    BY <1>2, <1>10, <2>5, <2>7, <2>8 DEF CallerAtHome
<1>14. ASSUME "overlap" \notin faults PROVE PlannedInv(c)'
  <2>1. \A l \in {"agent", "runtime"} \cup Children : p.tabs[l] = Nothing => LabelledTabs(l) = {}
    <3>1. ASSUME NEW l \in {"agent", "runtime"} \cup Children, p.tabs[l] = Nothing PROVE LabelledTabs(l) = {}
      <4>1. ~TabReady(l)
        BY <3>1, <1>4, NamesApart DEF Labels, LabelledTabs, Tabs
      <4>2. QED
        BY <4>1, <1>3, <1>7, FreeLabels
    <3>2. QED
      BY <3>1
  <2>2. ASSUME ~p.agent, Kept PROVE \A i \in Panes : pane[i].runs # "agent"
    <3>1. LiveAgents = {}
      BY <2>2, <1>4, <1>7 DEF Conflict, AgentConflict
    <3>2. \A i \in Panes : pane[i].runs = "agent" => pane[i].cwd = Root
      <4>1. CASE Children = {}
        <5>1. \A i \in Panes : pane[i] \in Pane
          BY <1>3, NamesApart DEF WorldOK, Panes
        <5>2. QED
          BY <4>1, <5>1 DEF Pane, Trees
      <4>2. CASE "closes" \notin faults
        BY <4>2, <1>3 DEF WorldInv, HomeInv
      <4>3. QED
        BY <4>1, <4>2, <2>2 DEF Kept
    <3>3. QED
      BY <3>1, <3>2 DEF LiveAgents
  <2>3. Kept' = Kept
    BY <1>7 DEF Kept
  <2>4. x.step # "tabs"
    BY <1>2
  <2>5. \A i \in Panes : pane'[i] = pane[i]
    BY <1>7
  <2>6. QED
    BY <1>2, <1>9, <1>10, <2>1, <2>2, <2>3, <2>4, <2>5 DEF PlannedInv
<1>15. ASSUME "overlap" \notin faults, "closes" \notin faults PROVE ProcessInv(c)'
  <2>1. ToStart(c)' \subseteq {q \in Processes : p.procs[q] = Nothing}
    BY <1>2, <1>10 DEF ToStart, Processes
  <2>2. ASSUME NEW q \in Processes, p.procs[q] = Nothing, NEW i \in RuntimePanes
        PROVE  pane[i].runs # q /\ pane[i].label # q
    <3>1. Running(q) = {} /\ ~ProcessConflict(q)
      BY <2>2, <1>4, <1>7 DEF Conflict
    <3>2. QED
      BY <3>1 DEF ProcessConflict, Running
  <2>3. \A i \in RuntimePanes : pane'[i] = pane[i]
    BY <1>7
  <2>4. QED
    BY <1>9, <2>1, <2>2, <2>3 DEF ProcessInv
<1>16. CallerInv(c)'
  BY <1>7, <1>12, <1>13, <1>14, <1>15 DEF CallerInv
<1>17. /\ tree' \in [Trees -> {"missing", "present", "foreign"}]
       /\ \A w \in Trees : tree[w] = "present" => tree'[w] = "present"
  BY <1>3, <1>7 DEF WorldOK
<1>18. "overlap" \notin faults => \A d \in Operators : ~Active(d)
  BY <1>7 DEF Active
<1>19. "runtime" \notin faults => x.step \in {"idle", "root", "trees", "tabs"}
  BY <1>2, <1>7 DEF Commands
<1>20. QED
  BY <1>5, <1>7, <1>8, <1>16, <1>17, <1>18, <1>19, QuietStep

-----------------------------------------------------------------------------
(* workflow start, step by step                                             *)

\* A caller's record, changed in place.
LEMMA Knowing ==
  ASSUME GroupInv, NEW c \in Operators
  PROVE  /\ caller[c] \in Caller /\ WorldInv /\ WorldOK /\ TreesInv /\ KnownInv(c)
         /\ Active(c) => caller[c].plan \in Plan
         /\ "closes" \notin faults => HomeInv /\ CallerAtHome(c)
         /\ "overlap" \notin faults => PlannedInv(c)
BY DEF GroupInv, WorldInv, CallerInv, KnownInv

LEMMA ActiveTab ==
  ASSUME WorldOK, "closes" \notin faults => HomeInv, NEW t \in ActiveTabs
  PROVE  /\ t \in Tabs /\ t \in TabIds
         /\ Lowest(PanesOf(t)) \in PanesOf(t) /\ Lowest(PanesOf(t)) \in PaneIds
         /\ "closes" \notin faults => AtHome(t) /\ PaneAtHome(Lowest(PanesOf(t)))
<1>1. Tabs \in SUBSET TabIds
  BY DEF Tabs
<1>2. ASSUME "closes" \notin faults PROVE t = 1 /\ 1 \in Tabs /\ tab[1] \notin Children
  <2>1. Tabs # {}
    BY DEF ActiveTabs, Open
  <2>2. t = Lowest(Tabs)
    BY <2>1, <1>2 DEF ActiveTabs, Open
  <2>3. 1 \in Tabs /\ tab[1] \notin Children
    BY <1>2, <2>1 DEF HomeInv, Open
  <2>4. t \in Tabs /\ \A u \in Tabs : t <= u
    BY <1>1, <2>1, <2>2, LowestIn, StartConstants DEF TabIds
  <2>5. t \in 1..MaxTabs /\ t <= 1
    BY <1>1, <2>3, <2>4 DEF TabIds
  <2>6. QED
    BY <2>3, <2>5, StartConstants
<1>3. t \in Tabs
  BY <1>2 DEF ActiveTabs, Open
<1>4. PanesOf(t) # {} /\ PanesOf(t) \in SUBSET PaneIds
  BY <1>3 DEF WorldOK, PanesOf, Panes
<1>5. Lowest(PanesOf(t)) \in PanesOf(t) /\ Lowest(PanesOf(t)) \in PaneIds
  BY <1>4, LowestOfPanes
<1>6. ASSUME "closes" \notin faults PROVE AtHome(t) /\ PaneAtHome(Lowest(PanesOf(t)))
  <2>1. tab[t] \notin Children
    BY <1>2, <1>6
  <2>2. Lowest(PanesOf(t)) \in Panes /\ pane[Lowest(PanesOf(t))].tab = t
    BY <1>5 DEF PanesOf
  <2>3. pane[Lowest(PanesOf(t))].cwd = Root
    BY <1>6, <2>1, <2>2 DEF HomeInv, PathOf
  <2>4. QED
    BY <1>3, <2>1, <2>2, <2>3 DEF AtHome, PaneAtHome
<1>7. QED
  BY <1>1, <1>3, <1>5, <1>6

\* Once the root's context is known, the plan holds as before.
LEMMA RootKnown ==
  ASSUME GroupInv, NEW c \in Operators, caller[c].step = "root", faults' = faults,
         NEW t \in TabIds \cup {Nothing}, NEW i \in PaneIds \cup {Nothing},
         \A w \in Trees : tree[w] = "present" => tree'[w] = "present",
         "closes" \notin faults => Grows /\ AtHome(t)' /\ PaneAtHome(i)',
         \A l \in {"agent"} \cup Children : LabelledTabs(l)' \subseteq LabelledTabs(l),
         \A j \in Panes' : pane'[j].runs = "agent" => j \in Panes /\ pane[j].runs = "agent"
  PROVE  /\ WithRoot(c, t, i) \in Caller /\ WithRoot(c, t, i).step = "trees"
         /\ caller'[c] = WithRoot(c, t, i) => CallerInv(c)'
<1> DEFINE x == WithRoot(c, t, i)
<1>1. caller[c] \in Caller /\ KnownInv(c) /\ caller[c].plan \in Plan
  BY Knowing DEF Active
<1>2. x \in Caller
  BY <1>1 DEF WithRoot, Caller, CallerSteps
<1>3. /\ x.step = "trees" /\ x.tab = t /\ x.pane = i
      /\ x.plan = caller[c].plan /\ x.todo = caller[c].todo
  BY <1>1 DEF WithRoot, Caller
<1> HIDE DEF x
<1>4. SUFFICES ASSUME caller'[c] = x PROVE CallerInv(c)'
  BY <1>2, <1>3 DEF x
<1>5. KnownInv(c)'
  <2>1. Children \subseteq Trees
    BY DEF Trees
  <2>2. QED
    BY <1>1, <1>3, <1>4, <2>1 DEF KnownInv, Active
<1>6. ASSUME "closes" \notin faults PROVE CallerAtHome(c)'
  <2>1. CallerAtHome(c) /\ Starting(c) /\ Grows /\ AtHome(t)' /\ PaneAtHome(i)'
    BY <1>6, Knowing DEF Starting
  <2>2. \A u : AtHome(u) => AtHome(u)'
    BY <2>1, NamesApart DEF AtHome, Grows
  <2>3. \A j : PaneAtHome(j) => PaneAtHome(j)'
    BY <2>1 DEF PaneAtHome, Grows
  <2>4. LabelledTabs("agent") \subseteq LabelledTabs("agent")'
    BY <2>1 DEF LabelledTabs, Grows
  <2>5. QED
    BY <1>3, <1>4, <2>1, <2>2, <2>3, <2>4 DEF CallerAtHome
<1>7. ASSUME "overlap" \notin faults PROVE PlannedInv(c)'
  <2>1. PlannedInv(c) /\ Starting(c)
    BY <1>7, Knowing DEF Starting
  <2>2. \A l \in {"agent"} \cup Children : x.plan.tabs[l] = Nothing => LabelledTabs(l)' = {}
    BY <1>3, <2>1 DEF PlannedInv
  <2>3. ~x.plan.agent /\ Kept => \A j \in Panes' : pane'[j].runs # "agent"
    BY <1>3, <2>1 DEF PlannedInv
  <2>4. Kept' = Kept
    BY DEF Kept
  <2>5. QED
    BY <1>3, <1>4, <2>2, <2>3, <2>4 DEF PlannedInv
<1>8. ProcessInv(c)'
  BY <1>3, <1>4 DEF ProcessInv
<1>9. QED
  BY <1>5, <1>6, <1>7, <1>8 DEF CallerInv

LEMMA KnowsRootHolds ==
  ASSUME GroupInv, NEW c \in Operators, KnowsRoot(c)
  PROVE  GroupInv'
<1>1. /\ caller[c].step = "root" /\ UNCHANGED <<faults, tree, tab, pane, left>>
      /\ caller' = [caller EXCEPT ![c] = WithRoot(c, caller[c].plan.first, caller[c].plan.firstPane)]
  BY DEF KnowsRoot
<1>2. PICK t \in TabIds \cup {Nothing}, i \in PaneIds \cup {Nothing} :
        t = caller[c].plan.first /\ i = caller[c].plan.firstPane
  BY <1>1, Knowing DEF Active, Plan
<1>3. "closes" \notin faults => AtHome(t) /\ PaneAtHome(i)
  BY <1>1, <1>2, Knowing DEF CallerAtHome, Starting
<1>4. /\ Tabs' = Tabs /\ Panes' = Panes /\ \A l : LabelledTabs(l)' = LabelledTabs(l)
      /\ AtHome(t)' = AtHome(t) /\ PaneAtHome(i)' = PaneAtHome(i)
  BY <1>1 DEF Tabs, Panes, LabelledTabs, AtHome, PaneAtHome
<1>5. Grows
  BY <1>1, <1>4 DEF Grows
<1>6. /\ WithRoot(c, t, i) \in Caller /\ WithRoot(c, t, i).step = "trees"
      /\ caller'[c] = WithRoot(c, t, i) => CallerInv(c)'
  BY <1>1, <1>3, <1>4, <1>5, RootKnown
<1>7. Moves(c, WithRoot(c, t, i))
  BY <1>1, <1>2, <1>6, Moving
<1>8. /\ tree' \in [Trees -> {"missing", "present", "foreign"}]
      /\ \A w \in Trees : tree[w] = "present" => tree'[w] = "present"
  BY <1>1, Knowing DEF WorldOK
<1>9. QED
  BY <1>1, <1>6, <1>7, <1>8, QuietStep DEF Active

\* The workspace is opened, with a tab for the root.
LEMMA RootOpened ==
  ASSUME GroupInv, NEW c \in Operators, caller[c].step = "root", faults' = faults,
         ~Open, Room, NewTab("plain", Root), Goes(c, WithRoot(c, FreshTab, FreshPane)),
         tree' \in [Trees -> {"missing", "present", "foreign"}], tree'[Root] = "present",
         \A w \in Trees : tree[w] = "present" => tree'[w] = "present"
  PROVE  GroupInv'
<1>1. /\ WorldInv /\ WorldOK /\ TreesInv
  BY Knowing
<1>2. /\ Makes(FreshTab, FreshPane, "plain", Root)
      /\ tab' \in [TabIds -> Labels \cup {"plain", Nothing}]
      /\ pane' \in [PaneIds -> Pane \cup {Nothing}]
  BY <1>1, NewTabMakes DEF Trees
<1>3. PathOf("plain") = Root /\ "plain" \notin Labels
  BY NamesApart DEF PathOf, Labels
<1>4. /\ Tabs' = Tabs \cup {FreshTab} /\ tab'[FreshTab] = "plain" /\ \A u \in Tabs : tab'[u] = tab[u]
  BY <1>2, NamesApart DEF Makes, Tabs
<1>5. /\ Panes' = Panes \cup {FreshPane} /\ \A j \in Panes : pane'[j] = pane[j]
      /\ pane'[FreshPane].cwd = Root /\ pane'[FreshPane].runs = "shell"
  BY <1>2, NamesApart DEF Makes, Panes
<1>6. FreshTab \in TabIds /\ FreshPane \in PaneIds
  BY <1>2 DEF Makes
<1>7. left' \in 0..MaxFaults
  BY <1>1, StartConstants DEF WorldInv, Goes, Fault
<1>8. WorldInv' /\ Grows
  <2>1. "plain" \in Labels \cup {"plain"} /\ "plain" \notin Children
    BY NamesApart
  <2>2. Makes(FreshTab, FreshPane, "plain", PathOf("plain"))
    BY <1>2, <1>3
  <2>3. QED
    BY <1>1, <1>2, <1>3, <1>7, <2>1, <2>2, WorldWithTab
<1> PICK t \in TabIds, i \in PaneIds : t = FreshTab /\ i = FreshPane
  BY <1>6
<1>9. AtHome(t)' /\ PaneAtHome(i)'
  BY <1>4, <1>5, NamesApart DEF AtHome, PaneAtHome
<1>10. \A l \in {"agent"} \cup Children : LabelledTabs(l)' \subseteq LabelledTabs(l)
  BY <1>3, <1>4 DEF LabelledTabs, Labels
<1>11. \A j \in Panes' : pane'[j].runs = "agent" => j \in Panes /\ pane[j].runs = "agent"
  BY <1>5
<1> DEFINE x == WithRoot(c, t, i)
<1>12. x \in Caller /\ x.step = "trees" /\ (caller'[c] = x => CallerInv(c)')
  BY <1>8, <1>9, <1>10, <1>11, RootKnown
<1>13. Moves(c, x)
  BY <1>12, Moving
<1>14. "runtime" \notin faults => OneTab'
  <2>1. "plain" \in Labels \cup {"plain"}
    OBVIOUS
  <2>2. QED
    BY <1>1, <1>2, <2>1, TabMade DEF GroupInv, OneTabInv
<1> HIDE DEF x
<1>15. QED
  BY <1>8, <1>12, <1>13, <1>14, StepOfCaller DEF Active

LEMMA CreatesRootHolds ==
  ASSUME GroupInv, NEW c \in Operators, CreatesRoot(c)
  PROVE  GroupInv'
<1>1. CASE tree[Root] = "missing"
  <2>1. WorldOK /\ TreesInv
    BY Knowing
  <2>2. ~Open
    BY <1>1, <2>1 DEF TreesInv
  <2>3. /\ caller[c].step = "root" /\ Room /\ NewTab("plain", Root) /\ faults' = faults
        /\ Goes(c, WithRoot(c, FreshTab, FreshPane))
        /\ tree' = [tree EXCEPT ![Root] = "present"]
    BY <1>1 DEF CreatesRoot
  <2>4. /\ tree' \in [Trees -> {"missing", "present", "foreign"}] /\ tree'[Root] = "present"
        /\ \A w \in Trees : tree[w] = "present" => tree'[w] = "present"
    BY <2>1, <2>3 DEF WorldOK, Trees
  <2>5. QED
    BY <2>2, <2>3, <2>4, RootOpened
<1>2. CASE tree[Root] # "missing"
  BY <1>2, Ending DEF CreatesRoot, Active
<1>3. QED
  BY <1>1, <1>2

LEMMA OpensRootHolds ==
  ASSUME GroupInv, NEW c \in Operators, OpensRoot(c)
  PROVE  GroupInv'
<1>1. WorldOK /\ TreesInv /\ KnownInv(c) /\ ("closes" \notin faults => HomeInv)
  BY Knowing
<1>2. caller[c].step = "root" /\ faults' = faults /\ tree' = tree /\ tree[Root] = "present"
  BY <1>1 DEF OpensRoot, KnownInv
<1>3. /\ tree' \in [Trees -> {"missing", "present", "foreign"}]
      /\ \A w \in Trees : tree[w] = "present" => tree'[w] = "present"
  BY <1>1, <1>2 DEF WorldOK
<1>4. CASE Open
  <2>1. PICK t \in ActiveTabs : Goes(c, WithRoot(c, t, Lowest(PanesOf(t)))) /\ UNCHANGED <<tab, pane>>
    BY <1>4 DEF OpensRoot
  <2>2. PICK i \in PaneIds :
          i = Lowest(PanesOf(t)) /\ t \in TabIds /\ ("closes" \notin faults => AtHome(t) /\ PaneAtHome(i))
    BY <1>1, ActiveTab
  <2>3. /\ Tabs' = Tabs /\ Panes' = Panes /\ \A l : LabelledTabs(l)' = LabelledTabs(l)
        /\ AtHome(t)' = AtHome(t) /\ PaneAtHome(i)' = PaneAtHome(i)
    BY <2>1 DEF Tabs, Panes, LabelledTabs, AtHome, PaneAtHome
  <2>4. Grows
    BY <1>3, <2>1, <2>3 DEF Grows
  <2>5. /\ WithRoot(c, t, i) \in Caller /\ WithRoot(c, t, i).step = "trees"
        /\ caller'[c] = WithRoot(c, t, i) => CallerInv(c)'
    BY <1>2, <1>3, <2>1, <2>2, <2>3, <2>4, RootKnown
  <2>6. Moves(c, WithRoot(c, t, i))
    BY <2>1, <2>2, <2>5, Moving
  <2>7. QED
    BY <1>2, <1>3, <2>1, <2>5, <2>6, QuietStep DEF Active
<1>5. CASE ~Open
  <2>1. Room /\ NewTab("plain", Root) /\ Goes(c, WithRoot(c, FreshTab, FreshPane))
    BY <1>5 DEF OpensRoot
  <2>2. QED
    BY <1>2, <1>3, <1>5, <2>1, RootOpened
<1>6. QED
  BY <1>4, <1>5

LEMMA CreatesChildHolds ==
  ASSUME GroupInv, NEW c \in Operators, NEW a \in Children, CreatesChild(c, a)
  PROVE  GroupInv'
<1>1. CASE tree[a] # "missing"
  BY <1>1, Ending DEF CreatesChild, Active
<1>2. CASE tree[a] = "missing"
  <2> DEFINE x == [caller[c] EXCEPT !.todo = @ \ {a}]
  <2>1. /\ caller[c].step = "trees" /\ UNCHANGED <<faults, tab, pane>> /\ Goes(c, x)
        /\ tree' = [tree EXCEPT ![a] = "present"]
    BY <1>2 DEF CreatesChild
  <2>2. /\ caller[c] \in Caller /\ WorldInv /\ WorldOK /\ KnownInv(c) /\ caller[c].plan \in Plan
        /\ "closes" \notin faults => CallerAtHome(c)
        /\ "overlap" \notin faults => PlannedInv(c)
    BY <2>1, Knowing DEF Active
  <2>3. /\ x \in Caller
        /\ x.step = "trees" /\ x.plan = caller[c].plan /\ x.todo = caller[c].todo \ {a}
        /\ x.tab = caller[c].tab /\ x.pane = caller[c].pane
    BY <2>1, <2>2 DEF Caller
  <2> HIDE DEF x
  <2>4. Children \subseteq Trees
    BY DEF Trees
  <2>5. /\ tree' \in [Trees -> {"missing", "present", "foreign"}] /\ tree'[a] = "present"
        /\ \A w \in Trees : tree[w] = "present" => tree'[w] = "present"
    BY <2>1, <2>2, <2>4 DEF WorldOK
  <2>6. Moves(c, x)
    BY <2>1, <2>3, Moving
  <2>7. ASSUME caller'[c] = x PROVE CallerInv(c)'
    <3>1. /\ Tabs' = Tabs /\ Panes' = Panes /\ \A l : LabelledTabs(l)' = LabelledTabs(l)
          /\ \A t : AtHome(t)' = AtHome(t) /\ \A i : PaneAtHome(i)' = PaneAtHome(i)
          /\ Kept' = Kept
      BY <2>1 DEF Tabs, Panes, LabelledTabs, AtHome, PaneAtHome, Kept
    <3>2. KnownInv(c)'
      <4>1. \A b \in Children \ x.todo : tree'[b] = "present"
        BY <2>1, <2>2, <2>3, <2>4, <2>5 DEF KnownInv
      <4>2. QED
        BY <2>2, <2>3, <2>7, <4>1 DEF KnownInv
    <3>3. "closes" \notin faults => CallerAtHome(c)'
      BY <2>1, <2>2, <2>3, <2>7, <3>1 DEF CallerAtHome, Starting
    <3>4. "overlap" \notin faults => PlannedInv(c)'
      <4>1. \A i \in Panes : pane'[i] = pane[i]
        BY <2>1
      <4>2. QED
        BY <2>1, <2>2, <2>3, <2>7, <3>1, <4>1 DEF PlannedInv, Starting
    <3>5. ProcessInv(c)'
      BY <2>3, <2>7 DEF ProcessInv
    <3>6. QED
      BY <2>1, <3>2, <3>3, <3>4, <3>5 DEF CallerInv
  <2>8. QED
    BY <2>1, <2>3, <2>5, <2>6, <2>7, QuietStep DEF Active
<1>3. QED
  BY <1>1, <1>2

\* Once the agent's tab is there, every child that the plan has no tab for gets one.
LEMMA TabsKnown ==
  ASSUME GroupInv, NEW c \in Operators, caller[c].step = "trees", caller[c].todo = {},
         UNCHANGED <<faults, tree, pane>>,
         NEW t \in TabIds, NEW i \in PaneIds \cup {Nothing},
         "closes" \notin faults =>
           Grows /\ AtHome(t)' /\ PaneAtHome(i)' /\ LabelledTabs("agent")' # {},
         \A a \in Children : LabelledTabs(a)' \subseteq LabelledTabs(a)
  PROVE  /\ ToTabs(c, t, i) \in Caller /\ ToTabs(c, t, i).step = "tabs"
         /\ caller'[c] = ToTabs(c, t, i) => CallerInv(c)'
<1> DEFINE x == ToTabs(c, t, i)
<1>1. /\ caller[c] \in Caller /\ KnownInv(c) /\ caller[c].plan \in Plan
      /\ "closes" \notin faults => CallerAtHome(c)
      /\ "overlap" \notin faults => PlannedInv(c)
  BY Knowing DEF Active
<1>2. {a \in Children : caller[c].plan.tabs[a] = Nothing} \in SUBSET Children
  OBVIOUS
<1>3. /\ x \in Caller
      /\ x.step = "tabs" /\ x.tab = t /\ x.pane = i /\ x.plan = caller[c].plan
      /\ x.todo = {a \in Children : caller[c].plan.tabs[a] = Nothing}
  <2> DEFINE todo == {a \in Children : caller[c].plan.tabs[a] = Nothing}
  <2> HIDE DEF todo
  <2>1. todo \in SUBSET Children
    BY <1>2 DEF todo
  <2> DEFINE y == [caller[c] EXCEPT !.step = "tabs", !.tab = t, !.pane = i, !.todo = todo]
  <2>2. /\ y \in Caller
        /\ y.step = "tabs" /\ y.tab = t /\ y.pane = i /\ y.plan = caller[c].plan /\ y.todo = todo
    BY <1>1, <2>1 DEF Caller, CallerSteps
  <2>3. x = y
    BY DEF ToTabs, todo
  <2> HIDE DEF x, y
  <2>4. QED
    BY <2>2, <2>3 DEF todo
<1> HIDE DEF x
<1>4. SUFFICES ASSUME caller'[c] = x PROVE CallerInv(c)'
  BY <1>3 DEF x
<1>5. KnownInv(c)'
  BY <1>1, <1>3, <1>4 DEF KnownInv, Active
<1>6. ASSUME "closes" \notin faults PROVE CallerAtHome(c)'
  <2>1. CallerAtHome(c) /\ Starting(c) /\ Grows /\ AtHome(t)' /\ PaneAtHome(i)'
    BY <1>1, <1>6 DEF Starting
  <2>2. \A u : AtHome(u) => AtHome(u)'
    BY <2>1, NamesApart DEF AtHome, Grows
  <2>3. \A j : PaneAtHome(j) => PaneAtHome(j)'
    BY <2>1 DEF PaneAtHome, Grows
  <2>4. LabelledTabs("agent") \subseteq LabelledTabs("agent")'
    BY <2>1 DEF LabelledTabs, Grows
  <2>5. QED
    BY <1>3, <1>4, <1>6, <2>1, <2>2, <2>3, <2>4 DEF CallerAtHome
<1>7. ASSUME "overlap" \notin faults PROVE PlannedInv(c)'
  <2>1. PlannedInv(c) /\ Starting(c) /\ Kept' = Kept /\ Panes' = Panes
    BY <1>1, <1>7 DEF Starting, Kept, Panes
  <2>2. \A a \in x.todo : LabelledTabs(a)' = {}
    BY <1>3, <2>1 DEF PlannedInv
  <2>3. ~x.plan.agent /\ Kept => \A j \in Panes : pane[j].runs # "agent"
    BY <1>3, <2>1 DEF PlannedInv
  <2>4. QED
    BY <1>3, <1>4, <2>1, <2>2, <2>3 DEF PlannedInv
<1>8. ProcessInv(c)'
  BY <1>3, <1>4 DEF ProcessInv
<1>9. QED
  BY <1>5, <1>6, <1>7, <1>8 DEF CallerInv

LEMMA KeepsAgentTabHolds ==
  ASSUME GroupInv, NEW c \in Operators, KeepsAgentTab(c)
  PROVE  GroupInv'
<1>1. /\ caller[c].step = "trees" /\ caller[c].todo = {} /\ caller[c].plan.tabs["agent"] # Nothing
      /\ caller' = [caller EXCEPT ![c] = ToTabs(c, caller[c].plan.tabs["agent"], caller[c].pane)]
      /\ UNCHANGED <<faults, tree, tab, pane, left>>
  BY DEF KeepsAgentTab
<1>2. /\ caller[c] \in Caller /\ caller[c].plan \in Plan /\ WorldOK
      /\ "closes" \notin faults => CallerAtHome(c)
  BY <1>1, Knowing DEF Active
<1>3. PICK t \in TabIds, i \in PaneIds \cup {Nothing} :
        t = caller[c].plan.tabs["agent"] /\ i = caller[c].pane
  BY <1>1, <1>2 DEF Plan, Caller, Labels
<1>4. ASSUME "closes" \notin faults
      PROVE  AtHome(t) /\ PaneAtHome(i) /\ LabelledTabs("agent") # {}
  <2>1. t \in LabelledTabs("agent") /\ PaneAtHome(i)
    BY <1>1, <1>2, <1>3, <1>4 DEF CallerAtHome, Starting
  <2>2. QED
    BY <2>1, NamesApart DEF LabelledTabs, AtHome
<1>5. /\ Tabs' = Tabs /\ Panes' = Panes /\ \A l : LabelledTabs(l)' = LabelledTabs(l)
      /\ AtHome(t)' = AtHome(t) /\ PaneAtHome(i)' = PaneAtHome(i)
  BY <1>1 DEF Tabs, Panes, LabelledTabs, AtHome, PaneAtHome
<1>6. Grows
  BY <1>1, <1>5 DEF Grows
<1>7. /\ ToTabs(c, t, i) \in Caller /\ ToTabs(c, t, i).step = "tabs"
      /\ caller'[c] = ToTabs(c, t, i) => CallerInv(c)'
  BY <1>1, <1>4, <1>5, <1>6, TabsKnown
<1>8. Moves(c, ToTabs(c, t, i))
  BY <1>1, <1>3, <1>7, Moving
<1>9. /\ tree' \in [Trees -> {"missing", "present", "foreign"}]
      /\ \A w \in Trees : tree[w] = "present" => tree'[w] = "present"
  BY <1>1, <1>2 DEF WorldOK
<1>10. QED
  BY <1>1, <1>7, <1>8, <1>9, QuietStep DEF Active

LEMMA NamesAgentTabHolds ==
  ASSUME GroupInv, NEW c \in Operators, NamesAgentTab(c)
  PROVE  GroupInv'
<1> DEFINE known == caller[c].tab # Nothing /\ caller[c].pane # Nothing
           found == IF known THEN Tabs \cap {caller[c].tab}
                    ELSE {u \in ActiveTabs : Cardinality(PanesOf(u)) = 1}
           in(u) == IF known THEN caller[c].pane ELSE Lowest(PanesOf(u))
<1>1. /\ caller[c].step = "trees" /\ caller[c].todo = {} /\ caller[c].plan.tabs["agent"] = Nothing
      /\ UNCHANGED <<faults, tree, pane>>
  BY DEF NamesAgentTab
<1>2. \/ \E u \in found : tab' = [tab EXCEPT ![u] = "agent"] /\ Goes(c, ToTabs(c, u, in(u)))
      \/ Stops(c) /\ UNCHANGED tab
  BY DEF NamesAgentTab
<1>3. /\ caller[c] \in Caller /\ caller[c].plan \in Plan /\ WorldInv /\ WorldOK
      /\ "closes" \notin faults => HomeInv /\ CallerAtHome(c)
      /\ "overlap" \notin faults => PlannedInv(c)
  BY <1>1, Knowing DEF Active
<1>4. CASE Stops(c) /\ UNCHANGED tab
  BY <1>1, <1>4, Ending DEF Active
<1>5. ASSUME NEW t \in found, tab' = [tab EXCEPT ![t] = "agent"], Goes(c, ToTabs(c, t, in(t)))
      PROVE  GroupInv'
  <2>1. PICK i \in PaneIds \cup {Nothing} :
          /\ i = in(t) /\ t \in Tabs /\ t \in TabIds
          /\ "closes" \notin faults => tab[t] \notin Children /\ PaneAtHome(i)
    <3>1. CASE known
      <4>1. t = caller[c].tab /\ t \in Tabs
        BY <1>5, <3>1
      <4>2. "closes" \notin faults => AtHome(caller[c].tab) /\ PaneAtHome(caller[c].pane)
        BY <1>1, <1>3 DEF CallerAtHome, Starting
      <4>3. caller[c].pane \in PaneIds \cup {Nothing} /\ in(t) = caller[c].pane
        BY <1>3, <3>1 DEF Caller
      <4>4. QED
        BY <3>1, <4>1, <4>2, <4>3 DEF AtHome, Tabs
    <3>2. CASE ~known
      <4>1. t \in ActiveTabs /\ in(t) = Lowest(PanesOf(t))
        BY <1>5, <3>2
      <4>2. /\ t \in Tabs /\ t \in TabIds /\ Lowest(PanesOf(t)) \in PaneIds
            /\ "closes" \notin faults => AtHome(t) /\ PaneAtHome(Lowest(PanesOf(t)))
        BY <1>3, <4>1, ActiveTab
      <4>3. t # Nothing
        BY <4>2, NamesApart
      <4>4. QED
        BY <4>1, <4>2, <4>3 DEF AtHome
    <3>3. QED
      BY <3>1, <3>2
  <2> HIDE DEF found, known, in
  <2>2. left' \in 0..MaxFaults
    BY <1>3, <1>5, StartConstants DEF WorldInv, Goes, Fault
  <2>3. WorldInv' /\ ("closes" \notin faults => Grows) /\ LabelledTabs("agent")' # {}
    <3>1. "overlap" \notin faults => LabelledTabs("agent") = {}
      BY <1>1, <1>3 DEF PlannedInv
    <3>2. QED
      BY <1>1, <1>3, <1>5, <2>1, <2>2, <3>1, WorldNamed
  <2>4. /\ Tabs' = Tabs /\ tab'[t] = "agent" /\ \A u \in Tabs : u # t => tab'[u] = tab[u]
    BY <1>3, <1>5, <2>1, NamesApart DEF Tabs, WorldOK, Labels
  <2>5. AtHome(t)'
    BY <2>1, <2>4, NamesApart DEF AtHome
  <2>6. "closes" \notin faults => PaneAtHome(i)'
    BY <1>1, <2>1 DEF PaneAtHome, Panes
  <2>7. \A a \in Children : LabelledTabs(a)' \subseteq LabelledTabs(a)
    BY <2>4, NamesApart DEF LabelledTabs
  <2>8. /\ ToTabs(c, t, i) \in Caller /\ ToTabs(c, t, i).step = "tabs"
        /\ caller'[c] = ToTabs(c, t, i) => CallerInv(c)'
    BY <1>1, <2>1, <2>3, <2>5, <2>6, <2>7, TabsKnown
  <2>9. Moves(c, ToTabs(c, t, i))
    BY <1>5, <2>1, <2>8, Moving
  <2>10. "runtime" \notin faults => OneTab'
    BY <1>1, <1>3, <1>5, <2>1, TabNamed DEF GroupInv, OneTabInv
  <2>11. QED
    BY <1>1, <2>3, <2>8, <2>9, <2>10, StepOfCaller DEF Active
<1>6. QED
  BY <1>2, <1>4, <1>5

LEMMA CreatesChildTabHolds ==
  ASSUME GroupInv, NEW c \in Operators, NEW a \in Children, CreatesChildTab(c, a)
  PROVE  GroupInv'
<1>1. CASE ~Open
  BY <1>1, Ending DEF CreatesChildTab, Active
<1>2. CASE Open
  <2> DEFINE x == [caller[c] EXCEPT !.todo = @ \ {a}]
  <2>1. /\ caller[c].step = "tabs" /\ a \in caller[c].todo /\ UNCHANGED <<faults, tree>>
        /\ Room /\ NewTab(a, a) /\ Goes(c, x)
    BY <1>2 DEF CreatesChildTab
  <2>2. /\ caller[c] \in Caller /\ caller[c].plan \in Plan
        /\ WorldInv /\ WorldOK /\ TreesInv /\ KnownInv(c)
        /\ "closes" \notin faults => CallerAtHome(c)
        /\ "overlap" \notin faults => PlannedInv(c)
    BY <2>1, Knowing DEF Active
  <2>3. /\ x \in Caller
        /\ x.step = "tabs" /\ x.plan = caller[c].plan /\ x.todo = caller[c].todo \ {a}
        /\ x.tab = caller[c].tab /\ x.pane = caller[c].pane
    BY <2>1, <2>2 DEF Caller
  <2> HIDE DEF x
  <2>4. /\ a \in Labels /\ a \in Labels \cup {"plain"} /\ a \in Trees /\ PathOf(a) = a /\ a # "agent"
    BY NamesApart DEF Labels, Trees, PathOf
  <2>5. /\ Makes(FreshTab, FreshPane, a, PathOf(a))
        /\ tab' \in [TabIds -> Labels \cup {"plain", Nothing}]
        /\ pane' \in [PaneIds -> Pane \cup {Nothing}]
    BY <2>1, <2>2, <2>4, NewTabMakes
  <2>6. /\ tree[Root] = "present" /\ tree[a] = "present"
        /\ "closes" \notin faults => LabelledTabs("agent") # {}
        /\ "overlap" \notin faults => LabelledTabs(a) = {}
    BY <1>2, <2>1, <2>2 DEF TreesInv, KnownInv, CallerAtHome, PlannedInv
  <2>7. /\ tree' \in [Trees -> {"missing", "present", "foreign"}]
        /\ \A w \in Trees : tree[w] = "present" => tree'[w] = "present"
    BY <2>1, <2>2 DEF WorldOK
  <2>8. Moves(c, x)
    BY <2>1, <2>3, Moving
  <2>9. WorldInv' /\ Grows
    <3>1. left' \in 0..MaxFaults /\ tree'[Root] = "present" /\ tree'[a] = "present"
      BY <2>1, <2>6, <2>8 DEF Moves
    <3>2. QED
      BY <1>2, <2>1, <2>2, <2>4, <2>5, <2>6, <2>7, <3>1, WorldWithTab
  <2>10. /\ Tabs' = Tabs \cup {FreshTab} /\ tab'[FreshTab] = a /\ \A u \in Tabs : tab'[u] = tab[u]
    BY <2>4, <2>5, NamesApart DEF Makes, Tabs
  <2>11. /\ Panes' = Panes \cup {FreshPane} /\ \A j \in Panes : pane'[j] = pane[j]
         /\ pane'[FreshPane].runs = "shell"
    BY <2>5, NamesApart DEF Makes, Panes
  <2>12. ASSUME caller'[c] = x PROVE CallerInv(c)'
    <3>1. KnownInv(c)'
      BY <2>1, <2>2, <2>3, <2>12 DEF KnownInv, Active
    <3>2. ASSUME "closes" \notin faults PROVE CallerAtHome(c)'
      <4>1. CallerAtHome(c) /\ Starting(c)
        BY <2>1, <2>2, <3>2 DEF Starting
      <4>2. \A u : AtHome(u) => AtHome(u)'
        BY <2>9, NamesApart DEF AtHome, Grows
      <4>3. \A j : PaneAtHome(j) => PaneAtHome(j)'
        BY <2>9 DEF PaneAtHome, Grows
      <4>4. LabelledTabs("agent") \subseteq LabelledTabs("agent")'
        BY <2>9 DEF LabelledTabs, Grows
      <4>5. QED
        BY <2>1, <2>3, <2>12, <4>1, <4>2, <4>3, <4>4 DEF CallerAtHome
    <3>3. ASSUME "overlap" \notin faults PROVE PlannedInv(c)'
      <4>1. PlannedInv(c) /\ Starting(c) /\ Kept' = Kept
        BY <2>1, <2>2, <3>3 DEF Starting, Kept
      <4>2. \A b \in x.todo : LabelledTabs(b)' = {}
        <5>1. \A b \in x.todo : LabelledTabs(b) = {} /\ b # a
          BY <2>1, <2>3, <4>1 DEF PlannedInv
        <5>2. QED
          BY <2>10, <5>1 DEF LabelledTabs
      <4>3. ~x.plan.agent /\ Kept => \A j \in Panes' : pane'[j].runs # "agent"
        BY <2>3, <2>11, <4>1 DEF PlannedInv
      <4>4. QED
        BY <2>3, <2>12, <4>1, <4>2, <4>3 DEF PlannedInv
    <3>4. ProcessInv(c)'
      BY <2>3, <2>12 DEF ProcessInv
    <3>5. QED
      BY <2>1, <3>1, <3>2, <3>3, <3>4 DEF CallerInv
  <2>13. "runtime" \notin faults => OneTab'
    BY <2>1, <2>2, <2>4, <2>5, TabMade DEF GroupInv, OneTabInv
  <2>14. QED
    BY <2>1, <2>3, <2>7, <2>8, <2>9, <2>12, <2>13, StepOfCaller DEF Active
<1>3. QED
  BY <1>1, <1>2

\* The agent is the only one: alone, the command has seen that there is none; and
\* without a runtime the root has one pane, which has a shell.
LEMMA StartsAgentHolds ==
  ASSUME GroupInv, NEW c \in Operators, StartsAgent(c)
  PROVE  GroupInv'
<1> DEFINE i == caller[c].pane
<1>1. /\ caller[c].step = "tabs" /\ ~caller[c].plan.agent /\ Stops(c) /\ UNCHANGED <<faults, tree, tab>>
  BY DEF StartsAgent
<1>2. CASE UNCHANGED pane
  BY <1>1, <1>2, Ending DEF Active
<1>3. CASE /\ i \in Panes /\ pane[i].runs = "shell"
           /\ pane' = [pane EXCEPT ![i].runs = "agent"]
  <2>1. /\ WorldInv /\ WorldOK /\ caller[c].plan \in Plan
        /\ "closes" \notin faults => HomeInv /\ CallerAtHome(c)
        /\ "overlap" \notin faults => PlannedInv(c)
    BY <1>1, Knowing DEF Active
  <2> DEFINE new == [pane[i] EXCEPT !.runs = "agent"]
  <2>2. i \in PaneIds /\ i # Nothing /\ pane[i] \in Pane
    BY <1>3, <2>1, NamesApart DEF Panes, WorldOK
  <2>3. /\ new \in Pane /\ new.tab = pane[i].tab /\ new.cwd = pane[i].cwd
        /\ new.label = pane[i].label /\ new.runs = "agent"
    BY <2>2 DEF Pane
  <2>4. pane' = [pane EXCEPT ![i] = new]
    BY <1>3
  <2> HIDE DEF new
  <2>5. /\ pane' \in [PaneIds -> Pane \cup {Nothing}]
        /\ pane'[i] = new /\ \A j \in PaneIds \ {i} : pane'[j] = pane[j]
    BY <2>1, <2>2, <2>3, <2>4, PaneChanges
  <2>6. Retouches(i)
    BY <1>3, <2>3, <2>5 DEF Retouches
  <2>7. "closes" \notin faults => pane[i].cwd = Root /\ LabelledTabs("agent") # {}
    BY <1>1, <2>1, <2>2 DEF CallerAtHome, Starting, PaneAtHome
  <2>8. ASSUME Single, NEW j \in Panes PROVE pane[j].runs # "agent"
    <3>1. CASE "overlap" \notin faults
      BY <1>1, <2>1, <2>8, <3>1 DEF PlannedInv, Starting, Single
    <3>2. CASE "runtime" \notin faults
      <4>1. OneTabInv /\ Kept
        BY <2>8, <3>2 DEF GroupInv, Single
      <4>2. pane[i].tab \in Tabs /\ pane[j].tab \in Tabs
        BY <1>3, <2>1, <2>8 DEF WorldOK
      <4>3. SUFFICES ASSUME pane[j].runs = "agent" PROVE FALSE
        OBVIOUS
      <4>4. tab[pane[i].tab] \notin Children /\ tab[pane[j].tab] \notin Children
        <5>1. CASE Children = {}
          BY <5>1
        <5>2. CASE "closes" \notin faults
          <6>1. pane[i].cwd = Root /\ pane[j].cwd = Root
            BY <2>1, <2>7, <2>8, <4>3, <5>2 DEF HomeInv
          <6>2. \A k \in Panes : tab[pane[k].tab] \in Children => pane[k].cwd \in Children
            BY <2>1, <5>2 DEF HomeInv, PathOf
          <6>3. QED
            BY <1>3, <2>8, <6>1, <6>2, StartConstants
        <5>3. QED
          BY <4>1, <5>1, <5>2 DEF Kept
      <4>5. pane[i].tab = pane[j].tab
        BY <4>1, <4>2, <4>4 DEF OneTabInv, OneTab, RootTab
      <4>6. i = j
        BY <1>3, <2>8, <4>1, <4>5 DEF OneTabInv, OneTab, OnePane
      <4>7. QED
        BY <1>3, <4>3, <4>6
    <3>3. QED
      BY <2>8, <3>1, <3>2 DEF Single
  <2>9. Moves(c, Idle)
    BY <1>1, Moving, IdleIsCaller
  <2>10. WorldInv' /\ Grows
    <3>1. "agent" \notin Processes /\ left' \in 0..MaxFaults
      BY <2>9, NamesApart DEF Moves
    <3>2. QED
      BY <1>1, <2>1, <2>3, <2>5, <2>6, <2>7, <2>8, <3>1, WorldRetouched
  <2>11. CallerInv(c)'
    BY <2>9, IdleHolds DEF Moves
  <2>12. "runtime" \notin faults => OneTab'
    <3>1. Tabs' = Tabs
      BY <1>1 DEF Tabs
    <3>2. Panes' = Panes /\ \A j \in Panes : pane'[j].tab = pane[j].tab
      BY <2>3, <2>5, <2>2, NamesApart DEF Panes
    <3>3. QED
      BY <1>1, <3>1, <3>2, TabsStay DEF GroupInv, OneTabInv
  <2>13. \A w \in Trees : tree[w] = "present" => tree'[w] = "present"
    BY <1>1
  <2>14. QED
    BY <1>1, <2>9, <2>10, <2>11, <2>12, <2>13, IdleIsCaller, StepOfCaller DEF Active
<1>4. QED
  BY <1>2, <1>3 DEF StartsAgent

-----------------------------------------------------------------------------
(* workflow runtime, step by step                                           *)

\* A process that is yet to be started is not in the tab of the processes.
Awaited(c, k) == k \in DOMAIN Order /\ k >= caller[c].next /\ caller[c].plan.procs[Order[k]] = Nothing

LEMMA NotYet ==
  ASSUME GroupInv, NEW c \in Operators, caller[c].step \in {"runtime", "place", "run"},
         "overlap" \notin faults, "closes" \notin faults,
         NEW k, Awaited(c, k), NEW i \in RuntimePanes
  PROVE  pane[i].runs # Order[k] /\ pane[i].label # Order[k]
<1>1. ProcessInv(c)
  BY DEF GroupInv, CallerInv
<1>2. Order[k] \in ToStart(c)
  BY DEF ToStart, Awaited
<1>3. QED
  BY <1>1, <1>2 DEF ProcessInv

\* What a runtime relies on as it goes on is that what is left to start is not there.
LEMMA RuntimeGoesOn ==
  ASSUME GroupInv, NEW c \in Operators, caller[c].step \in {"runtime", "place", "run"},
         NEW x \in Caller, Moves(c, x), UNCHANGED <<faults, tree>>, WorldInv', Grows,
         x.step \in {"place", "run"}, x.plan = caller[c].plan, x.next >= caller[c].next,
         x.step = "run" => x.next \in DOMAIN Order /\ x.plan.procs[Order[x.next]] = Nothing,
         \A k : "overlap" \notin faults /\ "closes" \notin faults /\ Awaited(c, k) /\ k >= x.next =>
           \A i \in RuntimePanes' : pane'[i].runs # Order[k] /\ pane'[i].label # Order[k]
  PROVE  GroupInv'
<1>1. caller[c].plan \in Plan /\ Active(c) /\ caller[c] \in Caller
  BY Knowing DEF Active
<1>2. "runtime" \in faults
  BY <1>1 DEF GroupInv, OneTabInv, Starting
<1>3. ASSUME caller'[c] = x PROVE CallerInv(c)'
  <2>1. KnownInv(c)'
    BY <1>1, <1>3 DEF KnownInv, Active, Planned
  <2>2. CallerAtHome(c)' /\ PlannedInv(c)'
    BY <1>3 DEF CallerAtHome, PlannedInv, Starting
  <2>3. ASSUME "overlap" \notin faults, "closes" \notin faults PROVE ProcessInv(c)'
    <3>1. ASSUME NEW p \in ToStart(c)', NEW i \in RuntimePanes'
          PROVE  pane'[i].runs # p /\ pane'[i].label # p
      <4>1. PICK k \in DOMAIN Order : p = Order[k] /\ k >= x.next /\ caller[c].plan.procs[Order[k]] = Nothing
        BY <1>3 DEF ToStart
      <4>2. k >= caller[c].next
        <5>1. k \in Nat /\ x.next \in Nat /\ caller[c].next \in Nat
          BY <1>1, StartConstants DEF Caller
        <5>2. QED
          BY <4>1, <5>1
      <4>3. QED
        BY <2>3, <4>1, <4>2 DEF Awaited
    <3>2. QED
      BY <3>1 DEF ProcessInv
  <2>4. QED
    BY <2>1, <2>2, <2>3 DEF CallerInv
<1>4. \A w \in Trees : tree[w] = "present" => tree'[w] = "present"
  OBVIOUS
<1>5. QED
  BY <1>1, <1>2, <1>3, <1>4, StepOfCaller

\* As long as the panes stay.
LEMMA RuntimeWaits ==
  ASSUME GroupInv, NEW c \in Operators, caller[c].step \in {"runtime", "place"},
         NEW x \in Caller, Moves(c, x), UNCHANGED <<faults, tree, tab, pane>>,
         x.step \in {"place", "run"}, x.plan = caller[c].plan, x.next >= caller[c].next,
         x.step = "run" => x.next \in DOMAIN Order /\ x.plan.procs[Order[x.next]] = Nothing
  PROVE  GroupInv'
<1>1. tree' \in [Trees -> {"missing", "present", "foreign"}]
      /\ \A w \in Trees : tree[w] = "present" => tree'[w] = "present"
  BY Knowing DEF WorldOK
<1>2. WorldInv' /\ Grows
  BY <1>1, Knowing, WorldStays DEF Moves
<1>3. RuntimePanes' = RuntimePanes
  BY DEF RuntimePanes, Panes
<1>4. ASSUME NEW k, "overlap" \notin faults, "closes" \notin faults, Awaited(c, k), NEW i \in RuntimePanes'
      PROVE  pane'[i].runs # Order[k] /\ pane'[i].label # Order[k]
  BY <1>3, <1>4, NotYet
<1>5. QED
  BY <1>2, <1>4, RuntimeGoesOn

LEMMA KeepsRuntimeTabHolds ==
  ASSUME GroupInv, NEW c \in Operators, KeepsRuntimeTab(c)
  PROVE  GroupInv'
<1> DEFINE x == [caller[c] EXCEPT !.step = "place", !.tab = Nothing]
<1>1. caller[c] \in Caller /\ caller \in [Operators -> Caller]
  BY Knowing DEF GroupInv
<1>2. x \in Caller /\ x.step = "place" /\ x.plan = caller[c].plan /\ x.next = caller[c].next
  BY <1>1 DEF Caller, CallerSteps
<1>3. caller' = [caller EXCEPT ![c] = x]
  BY <1>1 DEF KeepsRuntimeTab
<1> HIDE DEF x
<1>4. caller[c].step = "runtime" /\ UNCHANGED <<faults, tree, tab, pane, left>>
  BY DEF KeepsRuntimeTab
<1>5. x.next >= caller[c].next
  BY <1>1, <1>2, StartConstants DEF Caller
<1>6. Moves(c, x)
  BY <1>2, <1>3, <1>4, Moving
<1>7. QED
  BY <1>2, <1>4, <1>5, <1>6, RuntimeWaits

LEMMA CreatesRuntimeTabHolds ==
  ASSUME GroupInv, NEW c \in Operators, CreatesRuntimeTab(c)
  PROVE  GroupInv'
<1>1. CASE ~Open
  BY <1>1, Ending DEF CreatesRuntimeTab, Active
<1>2. CASE Open
  <2> DEFINE x == [caller[c] EXCEPT !.step = "place", !.tab = FreshTab, !.pane = FreshPane]
  <2>1. /\ caller[c].step = "runtime" /\ caller[c].plan.tabs["runtime"] = Nothing
        /\ Room /\ NewTab("runtime", Root) /\ Goes(c, x) /\ UNCHANGED <<faults, tree>>
    BY <1>2 DEF CreatesRuntimeTab
  <2>2. /\ caller[c] \in Caller /\ WorldInv /\ WorldOK /\ TreesInv
        /\ "overlap" \notin faults => PlannedInv(c)
    BY Knowing
  <2>3. /\ PathOf("runtime") = Root /\ "runtime" \in Labels /\ "runtime" \notin Children /\ Root \in Trees
        /\ "runtime" \in Labels \cup {"plain"}
    BY NamesApart DEF PathOf, Labels, Trees
  <2>4. /\ Makes(FreshTab, FreshPane, "runtime", PathOf("runtime"))
        /\ tab' \in [TabIds -> Labels \cup {"plain", Nothing}]
        /\ pane' \in [PaneIds -> Pane \cup {Nothing}]
    BY <2>1, <2>2, <2>3, NewTabMakes
  <2>5. FreshTab \in TabIds /\ FreshPane \in PaneIds
    BY <2>4 DEF Makes
  <2>6. x \in Caller /\ x.step = "place" /\ x.plan = caller[c].plan /\ x.next = caller[c].next
    BY <2>2, <2>5 DEF Caller, CallerSteps
  <2> HIDE DEF x
  <2>7. Moves(c, x)
    BY <2>1, <2>6, Moving
  <2>8. x.next >= caller[c].next
    BY <2>2, <2>6, StartConstants DEF Caller
  <2>9. WorldInv' /\ Grows
    <3>1. /\ tree' \in [Trees -> {"missing", "present", "foreign"}] /\ tree'[Root] = "present"
          /\ \A w \in Trees : tree[w] = "present" => tree'[w] = "present"
          /\ left' \in 0..MaxFaults
      BY <1>2, <2>1, <2>2, <2>7 DEF WorldOK, TreesInv, Moves
    <3>2. "overlap" \notin faults => LabelledTabs("runtime") = {}
      BY <2>1, <2>2 DEF PlannedInv
    <3>3. QED
      BY <2>1, <2>2, <2>3, <2>4, <3>1, <3>2, WorldWithTab
  <2>10. ASSUME NEW k, "overlap" \notin faults, "closes" \notin faults, Awaited(c, k), NEW i \in RuntimePanes'
         PROVE  pane'[i].runs # Order[k] /\ pane'[i].label # Order[k]
    <3>1. CASE i = FreshPane
      <4>1. Order[k] \in Processes
        BY <2>10 DEF Awaited, Processes
      <4>2. QED
        BY <2>4, <3>1, <4>1, NamesApart DEF Makes
    <3>2. CASE i # FreshPane
      <4>1. i \in PaneIds /\ pane'[i] = pane[i]
        BY <2>4, <2>10, <3>2 DEF Makes, RuntimePanes, Panes
      <4>2. i \in Panes /\ pane[i].tab \in TabIds /\ pane[i].tab # FreshTab
        BY <2>2, <2>4, <2>10, <4>1 DEF RuntimePanes, Panes, Makes, WorldOK, Tabs
      <4>3. tab'[pane[i].tab] = tab[pane[i].tab]
        BY <2>4, <4>2 DEF Makes
      <4>4. i \in RuntimePanes
        BY <2>10, <4>1, <4>2, <4>3 DEF RuntimePanes
      <4>5. QED
        BY <2>1, <2>10, <4>1, <4>4, NotYet
    <3>3. QED
      BY <3>1, <3>2
  <2>11. QED
    BY <2>1, <2>6, <2>7, <2>8, <2>9, <2>10, RuntimeGoesOn
<1>3. QED
  BY <1>1, <1>2

LEMMA KeepsProcessHolds ==
  ASSUME GroupInv, NEW c \in Operators, KeepsProcess(c)
  PROVE  GroupInv'
<1> DEFINE i == caller[c].plan.procs[Planned(c)]
           x == [caller[c] EXCEPT !.next = @ + 1, !.pane = i]
<1>1. /\ caller[c] \in Caller /\ caller \in [Operators -> Caller]
      /\ caller[c].step = "place" /\ caller[c].next \in DOMAIN Order /\ UNCHANGED <<faults, tree, tab, pane, left>>
      /\ caller[c].plan \in Plan
  BY Knowing DEF GroupInv, KeepsProcess, Active
<1>2. i \in PaneIds \cup {Nothing} /\ caller[c].next + 1 \in 1..Len(Order) + 1
  <2>1. Planned(c) \in Processes
    BY <1>1 DEF Planned, Processes
  <2>2. caller[c].next \in 1..Len(Order) /\ Len(Order) \in Nat
    BY <1>1, StartConstants
  <2>3. QED
    BY <1>1, <2>1, <2>2 DEF Plan
<1>3. caller' = [caller EXCEPT ![c] = x]
  BY <1>1 DEF KeepsProcess
<1> HIDE DEF i
<1>4. /\ x \in Caller /\ x.step = "place" /\ x.plan = caller[c].plan /\ x.next = caller[c].next + 1
  BY <1>1, <1>2 DEF Caller
<1> HIDE DEF x
<1>5. x.next >= caller[c].next
  BY <1>1, <1>4, StartConstants
<1>6. Moves(c, x)
  BY <1>1, <1>3, <1>4, Moving
<1>7. QED
  BY <1>1, <1>4, <1>5, <1>6, RuntimeWaits

LEMMA PlacesProcessHolds ==
  ASSUME GroupInv, NEW c \in Operators, PlacesProcess(c)
  PROVE  GroupInv'
<1>1. /\ caller[c] \in Caller /\ caller \in [Operators -> Caller] /\ WorldInv /\ WorldOK
      /\ caller[c].step = "place" /\ caller[c].next \in DOMAIN Order /\ UNCHANGED <<faults, tree, tab>>
      /\ caller[c].plan.procs[Order[caller[c].next]] = Nothing
      /\ caller[c].next >= caller[c].next
  BY Knowing, StartConstants DEF GroupInv, PlacesProcess, Planned
<1>2. CASE caller' = [caller EXCEPT ![c].step = "run", ![c].tab = Nothing] /\ UNCHANGED <<pane, left>>
  <2> DEFINE x == [caller[c] EXCEPT !.step = "run", !.tab = Nothing]
  <2>1. x \in Caller /\ x.step = "run" /\ x.plan = caller[c].plan /\ x.next = caller[c].next
    BY <1>1 DEF Caller, CallerSteps
  <2>2. caller' = [caller EXCEPT ![c] = x]
    BY <1>1, <1>2
  <2> HIDE DEF x
  <2>3. Moves(c, x)
    BY <1>2, <2>1, <2>2, Moving
  <2>4. QED
    BY <1>1, <1>2, <2>1, <2>3, RuntimeWaits
<1>3. CASE Stops(c) /\ UNCHANGED pane
  BY <1>1, <1>3, Ending DEF Active
<1>4. CASE /\ caller[c].pane \in Panes /\ PaneIds \ Panes # {}
           /\ pane' = [pane EXCEPT ![FreshPane] = [pane[caller[c].pane] EXCEPT !.label = Nothing, !.runs = "shell"]]
           /\ Goes(c, [caller[c] EXCEPT !.step = "run", !.pane = FreshPane])
  <2> DEFINE i == caller[c].pane
             new == [pane[i] EXCEPT !.label = Nothing, !.runs = "shell"]
             x == [caller[c] EXCEPT !.step = "run", !.pane = FreshPane]
  <2>1. FreshPane \in PaneIds \ Panes
    BY <1>4, Fresh DEF Panes
  <2>2. i \in PaneIds /\ pane[i] \in Pane
    BY <1>1, <1>4 DEF Panes, WorldOK
  <2>3. /\ new \in Pane /\ new.tab = pane[i].tab /\ new.cwd = pane[i].cwd
        /\ new.label = Nothing /\ new.runs = "shell"
    BY <2>2 DEF Pane
  <2>4. x \in Caller /\ x.step = "run" /\ x.plan = caller[c].plan /\ x.next = caller[c].next
    BY <1>1, <2>1 DEF Caller, CallerSteps
  <2>5. pane' = [pane EXCEPT ![FreshPane] = new] /\ Goes(c, x)
    BY <1>4
  <2> HIDE DEF new, x
  <2>6. /\ pane' \in [PaneIds -> Pane \cup {Nothing}]
        /\ pane'[FreshPane] = new /\ \A j \in PaneIds \ {FreshPane} : pane'[j] = pane[j]
    BY <1>1, <2>1, <2>3, <2>5, PaneChanges
  <2>7. Splits(i, FreshPane)
    BY <1>4, <2>1, <2>3, <2>6 DEF Splits
  <2>8. Moves(c, x)
    BY <2>4, <2>5, Moving
  <2>9. WorldInv' /\ Grows
    BY <1>1, <2>6, <2>7, <2>8, WorldSplit DEF Moves
  <2>10. ASSUME NEW k, "overlap" \notin faults, "closes" \notin faults, Awaited(c, k), NEW j \in RuntimePanes'
         PROVE  pane'[j].runs # Order[k] /\ pane'[j].label # Order[k]
    <3>1. CASE j = FreshPane
      <4>1. Order[k] \in Processes
        BY <2>10 DEF Awaited, Processes
      <4>2. QED
        BY <2>3, <2>6, <3>1, <4>1, NamesApart
    <3>2. CASE j # FreshPane
      <4>1. j \in RuntimePanes /\ pane'[j] = pane[j]
        BY <1>1, <2>6, <2>10, <3>2 DEF RuntimePanes, Panes
      <4>2. QED
        BY <1>1, <2>10, <4>1, NotYet
    <3>3. QED
      BY <3>1, <3>2
  <2>11. QED
    BY <1>1, <2>4, <2>8, <2>9, <2>10, RuntimeGoesOn
<1>5. QED
  BY <1>2, <1>3, <1>4 DEF PlacesProcess

\* The pane that is named has a process that no pane of the tab has.
LEMMA Naming ==
  ASSUME GroupInv, NEW c \in Operators, caller[c].step = "run", caller[c].pane \in Panes,
         NEW new \in Pane, pane' = [pane EXCEPT ![caller[c].pane] = new],
         UNCHANGED <<faults, tree, tab>>, left' \in 0..MaxFaults,
         new.tab = pane[caller[c].pane].tab, new.cwd = pane[caller[c].pane].cwd,
         new.label = Planned(c), new.runs \in {Planned(c), pane[caller[c].pane].runs}
  PROVE  /\ WorldInv' /\ Grows
         /\ \A j \in RuntimePanes' : j \in RuntimePanes /\ (pane'[j] = pane[j] \/ pane'[j] = new)
         /\ Planned(c) \in Processes /\ caller[c].next \in DOMAIN Order
<1> DEFINE i == caller[c].pane
<1>1. /\ caller[c] \in Caller /\ WorldInv /\ WorldOK
      /\ caller[c].next \in DOMAIN Order /\ caller[c].plan.procs[Planned(c)] = Nothing
  BY Knowing DEF KnownInv
<1>2. /\ Planned(c) \in Processes /\ i \in PaneIds /\ i \in Panes
  BY <1>1 DEF Planned, Processes, Panes
<1> HIDE DEF i
<1>3. pane' = [pane EXCEPT ![i] = new] /\ new.tab = pane[i].tab /\ new.cwd = pane[i].cwd
      /\ new.runs \in {Planned(c), pane[i].runs}
  BY DEF i
<1>4. /\ pane' \in [PaneIds -> Pane \cup {Nothing}]
      /\ pane'[i] = new /\ \A j \in PaneIds \ {i} : pane'[j] = pane[j]
  BY <1>1, <1>2, <1>3, PaneChanges
<1>5. Retouches(i)
  BY <1>2, <1>3, <1>4 DEF Retouches
<1>6. ASSUME "overlap" \notin faults, "closes" \notin faults, NEW j \in RuntimePanes
      PROVE  pane[j].runs # Planned(c) /\ pane[j].label # Planned(c)
  <2>1. Awaited(c, caller[c].next)
    BY <1>1, StartConstants DEF Awaited, Planned
  <2>2. QED
    BY <1>6, <2>1, NotYet DEF Planned
<1>7. \A j \in RuntimePanes' : j \in RuntimePanes /\ (pane'[j] = pane[j] \/ pane'[j] = new)
  <2>1. Panes' = Panes /\ \A j \in Panes : pane'[j].tab = pane[j].tab /\ pane'[j].cwd = pane[j].cwd
    BY <1>2, <1>3, <1>4, NamesApart DEF Panes
  <2>2. \A j \in RuntimePanes' : j \in PaneIds /\ j \in RuntimePanes
    BY <2>1 DEF RuntimePanes, Panes
  <2>3. QED
    BY <1>4, <2>2
<1>8. WorldInv' /\ Grows
  <2>1. /\ pane'[i].runs # "agent" \/ pane[i].runs = "agent"
        /\ pane'[i].runs = pane[i].runs \/ pane'[i].runs = Planned(c)
        /\ pane'[i].label = Planned(c) /\ Planned(c) # Nothing
    BY <1>2, <1>3, <1>4, NamesApart
  <2>2. QED
    BY <1>1, <1>4, <1>5, <1>6, <2>1, WorldRetouched
<1>9. QED
  BY <1>1, <1>2, <1>7, <1>8

LEMMA RunsProcessHolds ==
  ASSUME GroupInv, NEW c \in Operators, RunsProcess(c)
  PROVE  GroupInv'
<1>1. caller[c].step = "run" /\ UNCHANGED <<faults, tree, tab>> /\ caller[c] \in Caller
      /\ WorldInv /\ WorldOK
  BY Knowing DEF RunsProcess
<1>2. CASE caller[c].pane \notin Panes
  BY <1>1, <1>2, Ending DEF RunsProcess, Active
<1>3. CASE caller[c].pane \in Panes
  <2> DEFINE i == caller[c].pane
             q == Planned(c)
             new == [pane[i] EXCEPT !.label = q, !.runs = q]
             x == [caller[c] EXCEPT !.step = "place", !.next = @ + 1]
  <2>1. pane' = [pane EXCEPT ![i].label = q, ![i].runs = q] /\ Goes(c, x)
    BY <1>3 DEF RunsProcess
  <2>2. i \in PaneIds /\ pane[i] \in Pane
    BY <1>1, <1>3 DEF Panes, WorldOK
  <2>3. q \in Processes /\ caller[c].next \in DOMAIN Order
    BY <1>1, Knowing DEF KnownInv, Planned, Processes
  <2>4. /\ new \in Pane /\ new.tab = pane[i].tab /\ new.cwd = pane[i].cwd
        /\ new.label = q /\ new.runs = q
    BY <2>2, <2>3 DEF Pane
  <2>5. pane' = [pane EXCEPT ![i] = new]
    BY <1>1, <2>1, <2>2 DEF WorldOK
  <2>6. caller[c].next + 1 \in 1..Len(Order) + 1 /\ caller[c].next \in Nat
    <3>1. caller[c].next \in 1..Len(Order) /\ Len(Order) \in Nat
      BY <2>3, StartConstants
    <3>2. QED
      BY <3>1
  <2>7. x \in Caller /\ x.step = "place" /\ x.plan = caller[c].plan /\ x.next = caller[c].next + 1
    BY <1>1, <2>6 DEF Caller, CallerSteps
  <2> HIDE DEF new, x
  <2>8. Moves(c, x)
    BY <2>1, <2>7, Moving
  <2>9. /\ WorldInv' /\ Grows
        /\ \A j \in RuntimePanes' : j \in RuntimePanes /\ (pane'[j] = pane[j] \/ pane'[j] = new)
    BY <1>1, <1>3, <2>4, <2>5, <2>8, Naming DEF Moves
  <2>10. ASSUME NEW k, "overlap" \notin faults, "closes" \notin faults, Awaited(c, k), k >= x.next,
                NEW j \in RuntimePanes'
         PROVE  pane'[j].runs # Order[k] /\ pane'[j].label # Order[k]
    <3>1. CASE pane'[j] = pane[j]
      BY <1>1, <2>9, <2>10, <3>1, NotYet
    <3>2. CASE pane'[j] = new
      <4>1. k \in DOMAIN Order /\ k # caller[c].next
        <5>1. k \in DOMAIN Order /\ k >= caller[c].next + 1
          BY <2>7, <2>10 DEF Awaited
        <5>2. k \in Nat
          BY <5>1, StartConstants
        <5>3. QED
          BY <2>6, <5>1, <5>2
      <4>2. Order[k] # q
        BY <2>3, <4>1, ProcessesNamedOnce DEF Planned
      <4>3. QED
        BY <2>4, <3>2, <4>2
    <3>3. QED
      BY <2>9, <3>1, <3>2
  <2>11. x.next >= caller[c].next
    BY <2>6, <2>7
  <2>12. QED
    BY <1>1, <2>7, <2>8, <2>9, <2>10, <2>11, RuntimeGoesOn
<1>4. QED
  BY <1>2, <1>3

LEMMA ProcessFailsHolds ==
  ASSUME GroupInv, NEW c \in Operators, ProcessFails(c)
  PROVE  GroupInv'
<1> DEFINE i == caller[c].pane
           q == Planned(c)
           new == [pane[i] EXCEPT !.label = q]
<1>1. /\ caller[c].step = "run" /\ i \in Panes /\ UNCHANGED <<faults, tree, tab>>
      /\ caller[c] \in Caller /\ WorldInv /\ WorldOK
      /\ pane' = [pane EXCEPT ![i].label = q] /\ Fault("exits") /\ Ends(c)
  BY Knowing DEF ProcessFails
<1>2. i \in PaneIds /\ pane[i] \in Pane
  BY <1>1 DEF Panes, WorldOK
<1>3. q \in Processes
  BY <1>1, Knowing DEF KnownInv, Planned, Processes
<1>4. /\ new \in Pane /\ new.tab = pane[i].tab /\ new.cwd = pane[i].cwd
      /\ new.label = q /\ new.runs = pane[i].runs
  BY <1>2, <1>3 DEF Pane
<1>5. pane' = [pane EXCEPT ![i] = new]
  BY <1>1, <1>2 DEF WorldOK
<1> HIDE DEF new
<1>6. Moves(c, Idle)
  BY <1>1, Moving, IdleIsCaller DEF AllFaults
<1>7. WorldInv' /\ Grows
  BY <1>1, <1>4, <1>5, <1>6, Naming DEF Moves
<1>8. CallerInv(c)'
  BY <1>6, IdleHolds DEF Moves
<1>9. "runtime" \in faults
  BY <1>1 DEF GroupInv, OneTabInv, Starting, Active
<1>10. \A w \in Trees : tree[w] = "present" => tree'[w] = "present"
  BY <1>1
<1>11. QED
  BY <1>1, <1>6, <1>7, <1>8, <1>9, <1>10, IdleIsCaller, StepOfCaller DEF Active

-----------------------------------------------------------------------------
(* The user, the agent and the processes                                    *)

\* Whoever quits, writes or closes, no caller relies on what has gone.
LEMMA UserHolds ==
  ASSUME GroupInv, UNCHANGED <<faults, tree, caller>>, WorldInv', "closes" \notin faults => Grows,
         Tabs' \subseteq Tabs, \A t \in Tabs' : tab'[t] = tab[t],
         Panes' \subseteq Panes,
         \A i \in Panes' : /\ pane'[i].tab = pane[i].tab /\ pane'[i].cwd = pane[i].cwd
                           /\ pane'[i].label = pane[i].label
                           /\ pane'[i].runs = pane[i].runs \/ pane'[i].runs \in {"shell", "writer"}
  PROVE  GroupInv'
<1>1. caller \in [Operators -> Caller] /\ WorldOK'
  BY DEF GroupInv, WorldInv
<1>2. RuntimePanes' \subseteq RuntimePanes
  BY <1>1 DEF RuntimePanes, WorldOK
<1>3. ASSUME NEW d \in Operators PROVE CallerInv(d)'
  <2>1. CallerInv(d) /\ caller'[d] = caller[d]
    BY DEF GroupInv
  <2>2. KnownInv(d)'
    BY <2>1, KnownStays DEF CallerInv
  <2>3. "closes" \notin faults => CallerAtHome(d)'
    BY <2>1, HomeStays DEF CallerInv
  <2>4. "overlap" \notin faults => PlannedInv(d)'
    <3>1. \A i \in Panes' : pane'[i].runs = "agent" => pane[i].runs = "agent"
      OBVIOUS
    <3>2. QED
      BY <1>1, <2>1, <3>1, PlanStays DEF CallerInv
  <2>5. "overlap" \notin faults /\ "closes" \notin faults => ProcessInv(d)'
    <3>1. \A i \in RuntimePanes' : /\ pane'[i].label = pane[i].label
                                   /\ pane'[i].runs = pane[i].runs \/ pane'[i].runs \notin Processes
      BY NamesApart DEF RuntimePanes
    <3>2. QED
      BY <1>2, <2>1, <3>1, ProcessesStay DEF CallerInv
  <2>6. QED
    BY <2>2, <2>3, <2>4, <2>5 DEF CallerInv
<1>4. "runtime" \notin faults => OneTabInv'
  BY DEF GroupInv, OneTabInv, OneTab, OnePane, RootTab, Kept, Active, Starting
<1>5. "overlap" \notin faults => OneActive'
  BY DEF GroupInv, OneActive, Active
<1>6. QED
  BY <1>1, <1>3, <1>4, <1>5 DEF GroupInv

LEMMA CommandChanges ==
  ASSUME GroupInv, NEW i \in Panes, NEW runs \in {"shell", "writer"},
         pane' = [pane EXCEPT ![i].runs = runs], UNCHANGED <<faults, tree, tab, caller>>,
         NEW f \in AllFaults, Fault(f)
  PROVE  GroupInv'
<1> DEFINE new == [pane[i] EXCEPT !.runs = runs]
<1>1. WorldInv /\ WorldOK /\ left' \in 0..MaxFaults
  BY StartConstants DEF GroupInv, WorldInv, Fault
<1>2. i \in PaneIds /\ pane[i] \in Pane
  BY <1>1 DEF Panes, WorldOK
<1>3. /\ new \in Pane /\ new.tab = pane[i].tab /\ new.cwd = pane[i].cwd
      /\ new.label = pane[i].label /\ new.runs = runs
  BY <1>2 DEF Pane
<1>4. pane' = [pane EXCEPT ![i] = new]
  BY <1>1, <1>2 DEF WorldOK
<1> HIDE DEF new
<1>5. /\ pane' \in [PaneIds -> Pane \cup {Nothing}]
      /\ pane'[i] = new /\ \A j \in PaneIds \ {i} : pane'[j] = pane[j]
  BY <1>1, <1>2, <1>3, <1>4, PaneChanges
<1>6. Retouches(i)
  BY <1>3, <1>5 DEF Retouches
<1>7. WorldInv' /\ Grows
  <2>2. pane'[i].runs # "agent" /\ pane'[i].runs \notin Processes
    BY <1>3, <1>5, NamesApart
  <2>3. pane'[i].label = pane[i].label
    BY <1>3, <1>5
  <2>4. QED
    BY <1>1, <1>5, <1>6, <2>2, <2>3, WorldRetouched
<1>8. /\ Tabs' = Tabs /\ \A t \in Tabs' : tab'[t] = tab[t]
  BY DEF Tabs
<1>9. Panes' = Panes
  BY <1>3, <1>5, <1>2, NamesApart DEF Panes
<1>10. \A j \in Panes' : /\ pane'[j].tab = pane[j].tab /\ pane'[j].cwd = pane[j].cwd
                         /\ pane'[j].label = pane[j].label
                         /\ pane'[j].runs = pane[j].runs \/ pane'[j].runs \in {"shell", "writer"}
  BY <1>3, <1>5, <1>9 DEF Panes
<1>11. QED
  BY <1>7, <1>8, <1>9, <1>10, UserHolds

LEMMA ClosesHolds ==
  ASSUME GroupInv, NEW t \in TabIds, Closes(t)
  PROVE  GroupInv'
<1>1. /\ Fault("closes") /\ t \in Tabs /\ tab' = [tab EXCEPT ![t] = Nothing]
      /\ pane' = [i \in PaneIds |-> IF i \in PanesOf(t) THEN Nothing ELSE pane[i]]
      /\ UNCHANGED <<faults, tree, caller>>
  BY DEF Closes
<1>2. "closes" \in faults /\ left' \in 0..MaxFaults /\ WorldInv
  BY <1>1, StartConstants DEF GroupInv, WorldInv, Fault
<1>3. /\ WorldInv' /\ Tabs' \subseteq Tabs /\ Panes' \subseteq Panes
      /\ \A u \in Tabs' : tab'[u] = tab[u]
      /\ \A i \in Panes' : pane'[i] = pane[i]
  BY <1>1, <1>2, WorldClosed
<1>4. QED
  BY <1>1, <1>2, <1>3, UserHolds

-----------------------------------------------------------------------------
(* Every step                                                               *)

LEMMA EndingsHold ==
  ASSUME GroupInv, NEW c \in Operators, KeepsAgent(c) \/ RuntimeEnds(c) \/ CallFails(c)
  PROVE  GroupInv'
<1>1. /\ Active(c) /\ UNCHANGED <<faults, tree, tab, pane>>
      /\ Stops(c) \/ (Fault("calls") /\ Ends(c))
  BY DEF KeepsAgent, RuntimeEnds, CallFails, Active
<1>2. "calls" \in AllFaults
  BY DEF AllFaults
<1>3. QED
  BY <1>1, <1>2, Ending

LEMMA StartHolds ==
  ASSUME GroupInv, NEW c \in Operators, StartStep(c)
  PROVE  GroupInv'
<1>1. CASE KnowsRoot(c) \/ CreatesRoot(c) \/ OpensRoot(c)
  BY <1>1, KnowsRootHolds, CreatesRootHolds, OpensRootHolds
<1>2. CASE \E a \in Children : CreatesChild(c, a) \/ CreatesChildTab(c, a)
  BY <1>2, CreatesChildHolds, CreatesChildTabHolds
<1>3. CASE KeepsAgentTab(c) \/ NamesAgentTab(c)
  BY <1>3, KeepsAgentTabHolds, NamesAgentTabHolds
<1>4. CASE KeepsAgent(c) \/ StartsAgent(c)
  BY <1>4, EndingsHold, StartsAgentHolds
<1>5. QED
  BY <1>1, <1>2, <1>3, <1>4 DEF StartStep

LEMMA RuntimeHolds ==
  ASSUME GroupInv, NEW c \in Operators, RuntimeStep(c)
  PROVE  GroupInv'
<1>1. CASE KeepsRuntimeTab(c) \/ CreatesRuntimeTab(c)
  BY <1>1, KeepsRuntimeTabHolds, CreatesRuntimeTabHolds
<1>2. CASE KeepsProcess(c) \/ PlacesProcess(c) \/ RunsProcess(c)
  BY <1>2, KeepsProcessHolds, PlacesProcessHolds, RunsProcessHolds
<1>3. CASE ProcessFails(c) \/ RuntimeEnds(c)
  BY <1>3, ProcessFailsHolds, EndingsHold
<1>4. QED
  BY <1>1, <1>2, <1>3 DEF RuntimeStep

LEMMA UserStepHolds ==
  ASSUME GroupInv, UserStep
  PROVE  GroupInv'
<1>1. {"stops", "exits", "writers"} \subseteq AllFaults
  BY DEF AllFaults
<1>2. ASSUME NEW i \in PaneIds, Quits(i) PROVE GroupInv'
  <2>1. /\ i \in Panes /\ pane' = [pane EXCEPT ![i].runs = "shell"]
        /\ UNCHANGED <<faults, tree, tab, caller>>
        /\ Fault("stops") \/ Fault("exits") \/ Fault("writers")
    BY <1>2 DEF Quits
  <2>2. QED
    BY <1>1, <2>1, CommandChanges
<1>3. ASSUME NEW i \in PaneIds, Writes(i) PROVE GroupInv'
  BY <1>1, <1>3, CommandChanges DEF Writes
<1>4. QED
  BY <1>2, <1>3, ClosesHolds DEF UserStep

LEMMA GroupInit == StartInit => GroupInv
<1> SUFFICES ASSUME StartInit PROVE GroupInv
  OBVIOUS
<1>1. Tabs = {} /\ Panes = {} /\ ~Open /\ RuntimePanes = {}
  BY DEF StartInit, Tabs, Panes, Open, RuntimePanes
<1>2. \A c \in Operators : caller[c] = Idle /\ ~Active(c)
  BY IdleIsCaller DEF StartInit, Active
<1>3. caller \in [Operators -> Caller]
  BY IdleIsCaller DEF StartInit
<1>4. WorldOK /\ TreesInv /\ OneLabel /\ OneOfEach /\ OneAgentPane
  BY <1>1 DEF StartInit, WorldOK, TreesInv, OneLabel, OneOfEach, OneAgentPane
<1>5. HomeInv
  BY <1>1 DEF HomeInv
<1>6. faults \in FaultCases /\ left \in 0..MaxFaults
  BY StartConstants DEF StartInit
<1>7. ASSUME NEW c \in Operators PROVE CallerInv(c)
  <2>1. caller[c].step = "idle"
    BY <1>2, IdleIsCaller
  <2>2. QED
    BY <2>1 DEF CallerInv, KnownInv, CallerAtHome, PlannedInv, ProcessInv, Starting, Active
<1>8. OneTabInv /\ OneActive
  BY <1>1, <1>2 DEF OneTabInv, OneTab, OnePane, RootTab, OneActive
<1>9. QED
  BY <1>3, <1>4, <1>5, <1>6, <1>7, <1>8 DEF GroupInv, WorldInv

LEMMA AllStays ==
  ASSUME GroupInv, UNCHANGED startVars
  PROVE  GroupInv'
<1>1. UNCHANGED <<faults, tree, tab, pane, caller, left>>
  BY DEF startVars, parts
<1>2. /\ Tabs' = Tabs /\ Panes' = Panes /\ Open' = Open /\ RuntimePanes' = RuntimePanes
      /\ \A t \in Tabs : PanesOf(t)' = PanesOf(t)
      /\ \A l : LabelledTabs(l)' = LabelledTabs(l)
  BY <1>1 DEF Tabs, Panes, Open, RuntimePanes, PanesOf, LabelledTabs
<1>3. WorldInv'
  BY <1>1, <1>2 DEF GroupInv, WorldInv, WorldOK, TreesInv, HomeInv, PathOf, OneLabel, OneOfEach,
                    Single, Kept, OneAgentPane
<1>4. ASSUME NEW c \in Operators PROVE CallerInv(c)'
  <2>1. CallerInv(c)
    BY DEF GroupInv
  <2>2. KnownInv(c)'
    BY <1>1, <2>1 DEF CallerInv, KnownInv, Active, Planned
  <2>3. CallerAtHome(c)' <=> CallerAtHome(c)
    BY <1>1, <1>2 DEF CallerAtHome, Starting, AtHome, PaneAtHome
  <2>4. PlannedInv(c)' <=> PlannedInv(c)
    BY <1>1, <1>2 DEF PlannedInv, Starting, Kept
  <2>5. ProcessInv(c)' <=> ProcessInv(c)
    BY <1>1, <1>2 DEF ProcessInv, ToStart
  <2>6. QED
    BY <1>1, <2>1, <2>2, <2>3, <2>4, <2>5 DEF CallerInv
<1>5. (OneTabInv' <=> OneTabInv) /\ (OneActive' <=> OneActive)
  BY <1>1, <1>2 DEF OneTabInv, OneTab, OnePane, RootTab, Kept, Active, Starting, OneActive
<1>6. QED
  BY <1>1, <1>3, <1>4, <1>5 DEF GroupInv

\* What holds of a group, and what a command that reconciled its plan before the first
\* change (reconcile.js) may rely on until its last call (execute.js), in every behaviour.
THEOREM StartInvariance == StartSpec => []GroupInv
<1>1. StartInit => GroupInv
  BY GroupInit
<1>2. GroupInv /\ [StartNext]_startVars => GroupInv'
  <2> SUFFICES ASSUME GroupInv, [StartNext]_startVars PROVE GroupInv'
    OBVIOUS
  <2>1. CASE UserStep
    BY <2>1, UserStepHolds
  <2>2. ASSUME NEW c \in Operators, Works(c) PROVE GroupInv'
    BY <2>2, StartHolds, RuntimeHolds, Reconciled DEF Works
  <2>3. ASSUME NEW c \in Operators, CallFails(c) PROVE GroupInv'
    BY <2>3, EndingsHold
  <2>4. CASE UNCHANGED startVars
    BY <2>4, AllStays
  <2>5. QED
    BY <2>1, <2>2, <2>3, <2>4 DEF StartNext
<1>3. QED
  BY <1>1, <1>2, PTL DEF StartSpec

-----------------------------------------------------------------------------
(* What follows                                                             *)

LEMMA AtMostOne ==
  ASSUME NEW n \in Nat, NEW S \in SUBSET (1..n), \A x, y \in S : x = y
  PROVE  Cardinality(S) <= 1
<1>1. CASE S = {}
  BY <1>1, FS_EmptySet
<1>2. CASE S # {}
  <2>1. PICK x \in S : S = {x}
    BY <1>2
  <2>2. QED
    BY <2>1, FS_Singleton
<1>3. QED
  BY <1>1, <1>2

LEMMA OneTabOf == \A S \in SUBSET TabIds : (\A x, y \in S : x = y) => Cardinality(S) <= 1
BY AtMostOne, StartConstants DEF TabIds

LEMMA OnePaneOf == \A S \in SUBSET PaneIds : (\A x, y \in S : x = y) => Cardinality(S) <= 1
BY AtMostOne, StartConstants DEF PaneIds

LEMMA PanesFinite == \A S \in SUBSET PaneIds : IsFiniteSet(S) /\ Cardinality(S) \in Nat
<1>1. IsFiniteSet(PaneIds)
  BY FS_Interval, StartConstants DEF PaneIds
<1>2. QED
  BY <1>1, FS_Subset, FS_CardinalityType

\* Whatever overlaps, fails and is run again, there is at most one agent, and it is at
\* the task's own worktree: the commands neither start a second one nor lose sight of
\* the first (reconcile.js, execute.js).
THEOREM OneAgentStays == StartSpec => []OneAgentAtHome
<1>1. GroupInv => OneAgentAtHome
  <2> SUFFICES ASSUME GroupInv PROVE OneAgentAtHome
    OBVIOUS
  <2>1. WorldInv /\ WorldOK
    BY DEF GroupInv, WorldInv
  <2>2. StartTypeOK
    <3>1. \A i \in PaneIds : pane[i] # Nothing => pane[i] \in Pane /\ tab[pane[i].tab] # Nothing
      BY <2>1 DEF WorldOK, Panes, Tabs
    <3>2. \A t \in TabIds : tab[t] # Nothing => \E i \in PaneIds : pane[i] # Nothing /\ pane[i].tab = t
      BY <2>1 DEF WorldOK, Panes, Tabs, PanesOf
    <3>3. QED
      BY <2>1, <3>1, <3>2 DEF StartTypeOK, GroupInv, WorldInv, WorldOK
  <2>3. OneAgent
    <3> SUFFICES ASSUME Single PROVE Cardinality({i \in Panes : pane[i].runs = "agent"}) <= 1
      BY DEF OneAgent, Single, Kept
    <3>1. OneAgentPane
      BY <2>1 DEF WorldInv
    <3>2. {i \in Panes : pane[i].runs = "agent"} \in SUBSET PaneIds
      BY DEF Panes
    <3>3. \A x, y \in {i \in Panes : pane[i].runs = "agent"} : x = y
      BY <3>1 DEF OneAgentPane
    <3>4. QED
      BY <3>2, <3>3, OnePaneOf
  <2>4. AgentAtItsWorktree
    BY <2>1 DEF AgentAtItsWorktree, WorldInv, HomeInv
  <2>5. QED
    BY <2>2, <2>3, <2>4 DEF OneAgentAtHome
<1>2. QED
  BY <1>1, StartInvariance, PTL

\* Without overlap and closed tabs the only conflict is a process that does not run in the
\* pane of its name.
LEMMA Reconcilable ==
  ASSUME GroupInv, faults \cap {"overlap", "closes"} = {}, OnceInTab, LabelsUnique,
         Writers = {}, \A w \in Trees : tree[w] # "foreign", Conflict
  PROVE  \E p \in Processes : NamedIdle(p)
<1>1. WorldOK /\ TreesInv /\ HomeInv /\ OneOfEach /\ OneAgentPane
  BY DEF GroupInv, WorldInv, Single, Kept
<1>2. \A l \in Labels : Cardinality(LabelledTabs(l)) <= 1
  BY DEF LabelsUnique
<1>3. ASSUME NEW l \in Labels, LabelledTabs(l) # {} PROVE AtItsPath(l)
  <2>1. PICK t \in Tabs : tab[t] = l
    BY <1>3 DEF LabelledTabs
  <2>2. PICK i \in Panes : pane[i].tab = t
    BY <1>1 DEF WorldOK, PanesOf
  <2>3. QED
    BY <1>1, <2>1, <2>2 DEF HomeInv, AtItsPath
<1>4. ASSUME NEW l \in Labels PROVE ~TabConflict(l)
  <2>1. Cardinality(LabelledTabs(l)) \in Nat
    <3>1. LabelledTabs(l) \in SUBSET (1..MaxTabs) /\ IsFiniteSet(1..MaxTabs)
      BY FS_Interval, StartConstants DEF LabelledTabs, Tabs, TabIds
    <3>2. QED
      BY <3>1, FS_Subset, FS_CardinalityType
  <2>2. QED
    BY <1>2, <1>3, <1>4, <2>1 DEF TabConflict
<1>5. ~AgentConflict
  <2>1. LiveAgents # {} => TabReady("agent")
    <3>1. LiveAgents # {} => LabelledTabs("agent") # {}
      BY <1>1 DEF HomeInv, LiveAgents
    <3>2. QED
      BY <1>3, <3>1, NamesApart DEF TabReady, Labels
  <2>2. Cardinality(LiveAgents) <= 1 /\ Cardinality(LiveAgents) \in Nat
    <3>1. LiveAgents \in SUBSET PaneIds /\ \A x, y \in LiveAgents : x = y
      BY <1>1 DEF OneAgentPane, LiveAgents, Panes
    <3>2. QED
      BY <3>1, OnePaneOf, PanesFinite
  <2>3. QED
    BY <2>1, <2>2 DEF AgentConflict
<1>6. PICK p \in Processes : ProcessConflict(p)
  BY <1>1, <1>4, <1>5 DEF Conflict, TreesInv
<1>7. CASE Cardinality(Running(p)) > 1
  <2>1. Running(p) \in SUBSET PaneIds
    BY DEF Running, RuntimePanes, Panes
  <2>2. Cardinality(Running(p)) \in Nat /\ Cardinality(Running(p)) <= 1
    BY <2>1, PanesFinite DEF OnceInTab
  <2>3. QED
    BY <1>7, <2>2
<1>8. ASSUME NEW i \in Running(p), pane[i].label # p PROVE \E q \in Processes : NamedIdle(q)
  <2>1. i \in RuntimePanes /\ pane[i].runs = p /\ pane[i] \in Pane
    <3>1. \A j \in PaneIds : pane[j] # Nothing => pane[j] \in Pane
      BY <1>1 DEF WorldOK
    <3>2. QED
      BY <3>1 DEF Running, RuntimePanes, Panes
  <2>2. pane[i].label \in Processes
    BY <1>1, <2>1 DEF OneOfEach, Pane
  <2>3. QED
    BY <1>8, <2>1, <2>2 DEF NamedIdle
<1>9. CASE Running(p) = {} /\ \E i \in RuntimePanes : pane[i].label = p
  BY <1>9 DEF NamedIdle, Running
<1>10. QED
  BY <1>6, <1>7, <1>8, <1>9 DEF ProcessConflict

\* A command leaves a group that the next one can reconcile: no label is on two tabs, in
\* the tab of the processes none runs twice and none has two panes of its name, and there
\* is no conflict but that of a process that does not run in the pane of its name.
THEOREM GroupStays == StartSpec => []GroupIsReconcilable
<1>1. GroupInv => GroupIsReconcilable
  <2> SUFFICES ASSUME GroupInv PROVE GroupIsReconcilable
    OBVIOUS
  <2>1. WorldInv
    BY DEF GroupInv
  <2>2. LabelsUnique
    <3> SUFFICES ASSUME "overlap" \notin faults, NEW l \in Labels
                 PROVE  Cardinality(LabelledTabs(l)) <= 1
      BY DEF LabelsUnique
    <3>1. LabelledTabs(l) \in SUBSET TabIds
      BY DEF LabelledTabs, Tabs
    <3>2. \A x, y \in LabelledTabs(l) : x = y
      BY <2>1 DEF WorldInv, OneLabel, LabelledTabs
    <3>3. QED
      BY <3>1, <3>2, OneTabOf
  <2>3. OnceInTab
    <3> SUFFICES ASSUME "overlap" \notin faults, "closes" \notin faults, NEW p \in Processes
                 PROVE  /\ Cardinality(Running(p)) <= 1
                        /\ Cardinality({i \in RuntimePanes : pane[i].label = p}) <= 1
      BY DEF OnceInTab
    <3>1. OneOfEach /\ p # Nothing
      BY <2>1, NamesApart DEF WorldInv
    <3>2. Running(p) \in SUBSET PaneIds /\ {i \in RuntimePanes : pane[i].label = p} \in SUBSET PaneIds
      BY DEF Running, RuntimePanes, Panes
    <3>3. \A x, y \in Running(p) : x = y
      BY <3>1 DEF OneOfEach, Running
    <3>4. \A x, y \in {i \in RuntimePanes : pane[i].label = p} : x = y
      BY <3>1 DEF OneOfEach
    <3>5. QED
      BY <3>2, <3>3, <3>4, OnePaneOf
  <2>4. OnlyIdleConflicts
    BY <2>2, <2>3, Reconcilable DEF OnlyIdleConflicts
  <2>5. QED
    BY <2>2, <2>3, <2>4 DEF GroupIsReconcilable
<1>2. QED
  BY <1>1, StartInvariance, PTL

=============================================================================
