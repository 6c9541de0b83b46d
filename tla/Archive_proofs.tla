---------------------------- MODULE Archive_proofs ----------------------------
(***************************************************************************)
(* Theorems about Archive, for any runs, worktrees, records of worktrees,   *)
(* operators and faults.                                                   *)
(***************************************************************************)
EXTENDS Archive, TLAPS

(***************************************************************************)
(* The inductive invariant.                                                *)
(***************************************************************************)

\* Whoever archives does so to a run that was launched, and marks it when
\* nothing is left to be removed.
OperatorsInv ==
  \A p \in Operators :
    /\ op[p].step # "idle" => /\ op[p].run \in Runs
                              /\ run[op[p].run].state \in {"live", "finished"}
    /\ op[p].step = "marking" => op[p].todo = {}

\* Unless the world moves while operators remove worktrees, ...

\* ... a run is at rest while it is being archived, ...
StaysAtRest ==
  "window" \notin faults =>
    \A p \in Operators : Executing(p) => AtRest(op[p].run)

\* What an operator has yet to remove is as it was approved.
AsApproved(p, w) ==
  tree[w].present => ~tree[w].stray /\ op[p].approval.trees[w].ignored = tree[w].ignored

\* ... the checks made before still hold for what is yet to be removed, ...
ChecksHold ==
  "window" \notin faults =>
    \A p \in Operators : op[p].step = "removing" =>
      \A w \in op[p].todo : w \in Records[op[p].run] /\ AsApproved(p, w) /\ Unclaimed(w)

\* ... and what was removed stays away.
RemovedStays ==
  "window" \notin faults =>
    \A p \in Operators : op[p].step \in {"removing", "marking"} /\ ~op[p].kept =>
      \A w \in Records[op[p].run] \ op[p].todo : ~tree[w].present

\* A run that has not been created has no launcher and no agent, and one whose
\* launcher has yet to start its agent is in the launcher's hands.
LaunchersInv ==
  \A r \in Runs :
    /\ run[r].state = "unborn" => launch[r] = "none"
    /\ run[r].state = "unborn" \/ launch[r] = "starting" => ~worker[r] /\ run[r].pane = "none"
    /\ launch[r] = "starting" => run[r].state = "launching"

IInv ==
  /\ TypeOK /\ LaunchersInv /\ OperatorsInv /\ StaysAtRest /\ ChecksHold /\ RemovedStays
  /\ ArchivedIsGone

-----------------------------------------------------------------------------

USE ArchiveConstants

\* Every initial state satisfies the invariant: nobody archives yet, and no run
\* is archived.
LEMMA InitInv == Init => IInv
<1> SUFFICES ASSUME Init PROVE IInv
  OBVIOUS
<1> USE DEF Init
<1>1. TypeOK
  BY DEF TypeOK, RunRecord, Panes, Worktree, NewTree, Archiving, IdleOperator, RunStates
<1>2. OperatorsInv /\ StaysAtRest /\ ChecksHold /\ RemovedStays
  BY DEF OperatorsInv, StaysAtRest, ChecksHold, RemovedStays, Executing, IdleOperator
<1>3. LaunchersInv /\ ArchivedIsGone
  BY DEF LaunchersInv, ArchivedIsGone
<1>4. QED
  BY <1>1, <1>2, <1>3 DEF IInv

-----------------------------------------------------------------------------
(* Types of the records                                                    *)

\* What the moves of a run, and of those who archive it, write to its record.
LEMMA RunRecordType ==
  ASSUME NEW f \in [Runs -> RunRecord], NEW r \in Runs,
         NEW s \in RunStates, NEW n \in Panes, NEW b \in BOOLEAN
  PROVE  /\ [f EXCEPT ![r].state = s] \in [Runs -> RunRecord]
         /\ [f EXCEPT ![r].pane = n] \in [Runs -> RunRecord]
         /\ [f EXCEPT ![r].archived = b] \in [Runs -> RunRecord]
<1>1. [f[r] EXCEPT !.state = s] \in RunRecord
  BY DEF RunRecord
<1>2. [f[r] EXCEPT !.pane = n] \in RunRecord
  BY DEF RunRecord
<1>3. [f[r] EXCEPT !.archived = b] \in RunRecord
  BY DEF RunRecord
<1>4. QED
  BY <1>1, <1>2, <1>3

\* What operators write to their own record.
LEMMA ArchivingType ==
  ASSUME NEW a \in Archiving, NEW t \in SUBSET Trees
  PROVE  /\ [a EXCEPT !.step = "gated"] \in Archiving
         /\ [a EXCEPT !.step = "marking"] \in Archiving
         /\ [a EXCEPT !.step = "removing", !.todo = t] \in Archiving
         /\ [a EXCEPT !.todo = t] \in Archiving
         /\ [a EXCEPT !.todo = t, !.kept = TRUE] \in Archiving
<1>1. [a EXCEPT !.step = "gated"] \in Archiving /\ [a EXCEPT !.step = "marking"] \in Archiving
  BY DEF Archiving
<1>2. [a EXCEPT !.step = "removing", !.todo = t] \in Archiving
  BY DEF Archiving
<1>3. [a EXCEPT !.todo = t] \in Archiving
  BY DEF Archiving
<1>4. ASSUME NEW b \in BOOLEAN PROVE [a EXCEPT !.todo = t, !.kept = b] \in Archiving
  BY DEF Archiving
<1>5. QED
  BY <1>1, <1>2, <1>3, <1>4

\* A removed worktree is one that is not there.
LEMMA RemovedType ==
  ASSUME TypeOK, NEW w \in Trees, Removed(w)
  PROVE  /\ tree' \in [Trees -> Worktree]
         /\ \A v \in Trees : v # w => tree'[v] = tree[v]
         /\ ~tree'[w].present /\ ~tree'[w].stray
<1> DEFINE new == [NewTree(tree[w].commits) EXCEPT !.present = FALSE]
<1>1. tree[w].commits \in 0..MaxCommits
  BY DEF TypeOK, Worktree
<1>2. NewTree(tree[w].commits) \in Worktree
  BY <1>1 DEF NewTree, Worktree
<1>3. ASSUME NEW t \in Worktree PROVE [t EXCEPT !.present = FALSE] \in Worktree
  BY DEF Worktree
<1>4. new \in Worktree
  BY <1>2, <1>3
<1>5. ~new.present /\ ~new.stray
  BY DEF NewTree
<1>6. tree' = [tree EXCEPT ![w] = new]
  BY DEF Removed
<1>7. QED
  BY <1>4, <1>5, <1>6 DEF TypeOK

\* What a preview says of the worktrees of a run is a digest.
LEMMA DigestType ==
  ASSUME TypeOK, NEW r \in Runs
  PROVE  Digest(r) \in Digests
<1>1. ASSUME NEW w \in Trees PROVE Seen(w) \in TreeDigest
  BY DEF TypeOK, Seen, TreeDigest, Worktree
<1>2. Sharers(r) \subseteq Trees \X Runs \X RunStates
  BY DEF Sharers, TypeOK, RunRecord
<1>3. QED
  BY <1>1, <1>2 DEF Digest, Digests

-----------------------------------------------------------------------------
(* What the actions do, as far as the invariant is concerned                *)

\* What happens in a worktree happens while it is there, and it stays.
LEMMA Edits ==
  ASSUME TypeOK, NEW w \in Trees, Commits(w) \/ Changes(w) \/ ChecksOut(w) \/ Ignores(w)
  PROVE  /\ Moves /\ UNCHANGED <<faults, run, launch, worker, lock, op>>
         /\ tree' \in [Trees -> Worktree]
         /\ \A v \in Trees : tree'[v].present = tree[v].present
         /\ \A v \in Trees : tree'[v].stray => tree'[v].detached
<1> USE DEF TypeOK
<1>1. ASSUME NEW t \in Worktree, Edit(w, t), t.present = tree[w].present, t.stray => t.detached
      PROVE  /\ Moves /\ UNCHANGED <<faults, run, launch, worker, lock, op>>
             /\ tree' \in [Trees -> Worktree]
             /\ \A v \in Trees : tree'[v].present = tree[v].present
             /\ \A v \in Trees : tree'[v].stray => tree'[v].detached
  BY <1>1 DEF Edit
<1>2. tree[w] \in Worktree /\ (tree[w].stray => tree[w].detached)
  OBVIOUS
<1>3. CASE Commits(w)
  <2>1. CASE tree[w].detached /\ Edit(w, [tree[w] EXCEPT !.stray = TRUE, !.status = "clean"])
    <3> DEFINE t == [tree[w] EXCEPT !.stray = TRUE, !.status = "clean"]
    <3>1. ASSUME NEW b \in BOOLEAN PROVE [tree[w] EXCEPT !.stray = b, !.status = "clean"] \in Worktree
      BY <1>2 DEF Worktree
    <3>2. t \in Worktree
      BY <3>1
    <3>3. t.present = tree[w].present /\ t.detached = tree[w].detached
      BY <1>2 DEF Worktree
    <3>4. QED
      BY <1>1, <2>1, <3>2, <3>3
  <2>2. CASE ~tree[w].detached /\ tree[w].commits < MaxCommits
             /\ Edit(w, [tree[w] EXCEPT !.commits = @ + 1, !.status = "clean"])
    <3> DEFINE t == [tree[w] EXCEPT !.commits = @ + 1, !.status = "clean"]
    <3>1. tree[w].commits + 1 \in 0..MaxCommits
      BY <1>2, <2>2 DEF Worktree
    <3>2. t \in Worktree
      BY <1>2, <3>1 DEF Worktree
    <3>3. t.present = tree[w].present /\ t.stray = tree[w].stray /\ t.detached = tree[w].detached
      BY <1>2 DEF Worktree
    <3>4. QED
      BY <1>1, <1>2, <2>2, <3>2, <3>3
  <2>3. QED
    BY <1>3, <2>1, <2>2 DEF Commits
<1>4. CASE Changes(w)
  <2>1. PICK s \in {"clean", "dirty", "pending"} : Edit(w, [tree[w] EXCEPT !.status = s])
    BY <1>4 DEF Changes
  <2> DEFINE t == [tree[w] EXCEPT !.status = s]
  <2>2. t \in Worktree
    BY <1>2 DEF Worktree
  <2>3. t.present = tree[w].present /\ t.stray = tree[w].stray /\ t.detached = tree[w].detached
    BY <1>2 DEF Worktree
  <2>4. QED
    BY <1>1, <1>2, <2>1, <2>2, <2>3
<1>5. CASE ChecksOut(w)
  <2> DEFINE t == [tree[w] EXCEPT !.detached = ~@, !.stray = FALSE]
  <2>1. ASSUME NEW b \in BOOLEAN, NEW c \in BOOLEAN
        PROVE  [tree[w] EXCEPT !.detached = b, !.stray = c] \in Worktree
    BY <1>2 DEF Worktree
  <2>2. t \in Worktree
    BY <2>1
  <2>3. t.present = tree[w].present /\ ~t.stray
    BY <1>2 DEF Worktree
  <2>4. QED
    BY <1>1, <1>5, <2>2, <2>3 DEF ChecksOut
<1>6. CASE Ignores(w)
  <2>1. PICK i \in 0..MaxIgnored : Edit(w, [tree[w] EXCEPT !.ignored = i])
    BY <1>6 DEF Ignores
  <2> DEFINE t == [tree[w] EXCEPT !.ignored = i]
  <2>2. t \in Worktree
    BY <1>2 DEF Worktree
  <2>3. t.present = tree[w].present /\ t.stray = tree[w].stray /\ t.detached = tree[w].detached
    BY <1>2 DEF Worktree
  <2>4. QED
    BY <1>1, <1>2, <2>1, <2>2, <2>3
<1>7. QED
  BY <1>3, <1>4, <1>5, <1>6

\* What the moves of a run leave alone: the operators, and everything while
\* somebody executes an archive.  They are that run's only, and change either
\* its state or its pane.
LEMMA RunSteps ==
  ASSUME TypeOK, LaunchersInv, NEW r \in Runs, RunMoves(r)
  PROVE  /\ TypeOK' /\ LaunchersInv' /\ UNCHANGED <<faults, op>>
         /\ Moves \/ UNCHANGED <<run, launch, worker, tree>>
         /\ \A w \in Trees : tree[w].present => tree'[w] = tree[w]
         /\ \A w \in Trees : tree'[w].present /\ ~tree[w].present =>
              w \in Records[r] /\ ~run'[r].archived /\ run'[r].state = "launching"
         /\ \A q \in Runs :
              /\ run'[q].archived = run[q].archived
              /\ run[q].state # "unborn" => run'[q].state # "unborn"
              /\ run[q].state \in {"live", "finished"} => run'[q].state \in {"live", "finished"}
<1> USE DEF TypeOK
<1> DEFINE Kept == /\ UNCHANGED <<faults, op>>
                   /\ \A w \in Trees : tree[w].present => tree'[w] = tree[w]
                   /\ \A w \in Trees : tree'[w].present /\ ~tree[w].present =>
                        w \in Records[r] /\ ~run'[r].archived /\ run'[r].state = "launching"
                   /\ \A q \in Runs :
                        /\ run'[q].archived = run[q].archived
                        /\ run[q].state # "unborn" => run'[q].state # "unborn"
                        /\ run[q].state \in {"live", "finished"} => run'[q].state \in {"live", "finished"}
<1>0. run[r] \in RunRecord
  OBVIOUS
<1>a. ASSUME NEW s \in RunStates, run' = [run EXCEPT ![r].state = s]
      PROVE  /\ run' \in [Runs -> RunRecord]
             /\ run'[r].state = s /\ run'[r].archived = run[r].archived /\ run'[r].pane = run[r].pane
             /\ \A q \in Runs : q # r => run'[q] = run[q]
  BY <1>0, <1>a, RunRecordType DEF RunRecord, Panes
<1>b. ASSUME NEW n \in Panes, run' = [run EXCEPT ![r].pane = n]
      PROVE  /\ run' \in [Runs -> RunRecord]
             /\ run'[r].pane = n /\ run'[r].archived = run[r].archived /\ run'[r].state = run[r].state
             /\ \A q \in Runs : q # r => run'[q] = run[q]
  BY <1>0, <1>b, RunRecordType DEF RunRecord, RunStates
<1>1. CASE Creates(r)
  <2>1. /\ run' \in [Runs -> RunRecord] /\ run'[r].state = "launching"
        /\ run'[r].archived = run[r].archived /\ run'[r].pane = run[r].pane
        /\ \A q \in Runs : q # r => run'[q] = run[q]
    BY <1>1, <1>a DEF Creates, RunStates
  <2>2. QED
    BY <1>1, <2>1 DEF Creates, LaunchersInv
<1>2. ASSUME NEW w \in Trees, AddsTree(r, w)
      PROVE  TypeOK' /\ LaunchersInv' /\ Moves /\ Kept
  <2>1. /\ NewTree(tree[w].commits) \in Worktree /\ ~NewTree(tree[w].commits).stray
        /\ tree' = [tree EXCEPT ![w] = NewTree(tree[w].commits)]
    BY <1>2 DEF NewTree, Worktree, AddsTree
  <2>2. tree' \in [Trees -> Worktree] /\ \A v \in Trees : tree'[v].stray => tree'[v].detached
    BY <2>1
  <2>3. run[r].state = "launching" /\ ~run[r].archived
    BY <1>2 DEF AddsTree, LaunchersInv
  <2>4. QED
    BY <1>2, <2>1, <2>2, <2>3 DEF AddsTree, LaunchersInv
<1>3. CASE StartsAgent(r) \/ LauncherDies(r)
  BY <1>3 DEF StartsAgent, LauncherDies, LaunchersInv
<1>4. CASE RecordsIdentity(r)
  <2>1. /\ run' \in [Runs -> RunRecord] /\ run'[r].state = run[r].state
        /\ run'[r].archived = run[r].archived /\ run'[r].pane = "latest"
        /\ \A q \in Runs : q # r => run'[q] = run[q]
    BY <1>4, <1>b DEF RecordsIdentity, Panes
  <2>2. QED
    BY <1>4, <2>1 DEF RecordsIdentity, LaunchersInv
<1>5. ASSUME NEW s \in {"live", "finished"}, launch[r] # "none", Concludes(r, s)
      PROVE  TypeOK' /\ LaunchersInv' /\ Moves /\ Kept
  <2>1. run[r].state \in RunStates /\ run[r].state # "unborn"
    BY <1>0, <1>5 DEF RunRecord, LaunchersInv
  <2>2. PICK t \in RunStates : /\ run' = [run EXCEPT ![r].state = t] /\ t # "unborn"
                               /\ t = run[r].state \/ (run[r].state = "launching" /\ t = s)
    BY <1>5, <2>1 DEF Concludes, RunStates
  <2>3. /\ run' \in [Runs -> RunRecord] /\ run'[r].state = t
        /\ run'[r].archived = run[r].archived /\ run'[r].pane = run[r].pane
        /\ \A q \in Runs : q # r => run'[q] = run[q]
    BY <2>2, <1>a
  <2>4. QED
    BY <1>5, <2>1, <2>2, <2>3 DEF Concludes, LaunchersInv
<1>6. CASE Launches(r) \/ LaunchFails(r)
  BY <1>5, <1>6 DEF Launches, LaunchFails
<1>7. CASE Prompts(r) \/ Settles(r) \/ GoesStale(r)
  <2>1. PICK s \in {"live", "finished"} : run' = [run EXCEPT ![r].state = s]
    BY <1>7 DEF Prompts, Settles, GoesStale
  <2>2. /\ run' \in [Runs -> RunRecord] /\ run'[r].state = s
        /\ run'[r].archived = run[r].archived /\ run'[r].pane = run[r].pane
        /\ \A q \in Runs : q # r => run'[q] = run[q]
    BY <2>1, <1>a DEF RunStates
  <2>3. /\ worker[r] \/ run[r].state \in {"live", "finished"}
        /\ Moves /\ UNCHANGED <<faults, launch, worker, lock, tree, op>>
    BY <1>7 DEF Prompts, Settles, GoesStale
  <2>4. QED
    BY <2>2, <2>3 DEF LaunchersInv
<1>8. CASE WorkerEnds(r)
  <2>1. PICK s \in {run[r].state, "finished"} : run' = [run EXCEPT ![r].state = s]
    BY <1>8 DEF WorkerEnds
  <2>2. s \in RunStates
    BY <1>0, <2>1 DEF RunRecord, RunStates
  <2>3. /\ run' \in [Runs -> RunRecord] /\ run'[r].state = s
        /\ run'[r].archived = run[r].archived /\ run'[r].pane = run[r].pane
        /\ \A q \in Runs : q # r => run'[q] = run[q]
    BY <2>1, <2>2, <1>a
  <2>4. QED
    BY <1>8, <2>1, <2>3 DEF WorkerEnds, LaunchersInv
<1>9. CASE Resumes(r) \/ ResumeRecorded(r)
  <2>1. PICK n \in {"earlier", "latest"} : run' = [run EXCEPT ![r].pane = n]
    BY <1>9 DEF Resumes, ResumeRecorded
  <2>2. /\ run' \in [Runs -> RunRecord] /\ run'[r].pane = n
        /\ run'[r].archived = run[r].archived /\ run'[r].state = run[r].state
        /\ \A q \in Runs : q # r => run'[q] = run[q]
    BY <2>1, <1>b DEF Panes
  <2>3. /\ run[r].pane # "none" /\ Moves /\ UNCHANGED <<faults, launch, lock, tree, op>>
        /\ worker' \in [Runs -> BOOLEAN] /\ \A q \in Runs : q # r => worker'[q] = worker[q]
    BY <1>9 DEF Resumes, ResumeRecorded
  <2>4. QED
    BY <2>2, <2>3 DEF LaunchersInv
<1>10. CASE LockMoves(r)
  BY <1>10 DEF LockMoves, LaunchersInv
<1>11. QED
  BY <1>1, <1>2, <1>3, <1>4, <1>6, <1>7, <1>8, <1>9, <1>10 DEF RunMoves

\* What an operator leaves alone: the other operators, the states of the runs
\* and their workers.  It makes worktrees go away, and marks only the run whose
\* worktrees it has removed.
LEMMA OperatorSteps ==
  ASSUME TypeOK, OperatorsInv, NEW p \in Operators, Archives(p)
  PROVE  /\ TypeOK' /\ UNCHANGED <<faults, launch, worker, lock>>
         /\ \A q \in Operators : q # p => op'[q] = op[q]
         /\ \A w \in Trees : tree'[w] = tree[w] \/ (~tree'[w].present /\ ~tree'[w].stray)
         /\ \A r \in Runs :
              /\ run'[r].state = run[r].state /\ run'[r].pane = run[r].pane
              /\ run[r].archived => run'[r].archived
              /\ run'[r].archived /\ ~run[r].archived =>
                   op[p].step = "marking" /\ r = op[p].run /\ ~op[p].kept
<1> USE DEF TypeOK
<1>0. op[p] \in Archiving /\ IdleOperator \in Archiving
  BY DEF Archiving, IdleOperator
<1>1. ASSUME NEW r \in Runs, Previews(p, r) PROVE op' \in [Operators -> Archiving]
  <2>1. [IdleOperator EXCEPT !.step = "approved", !.run = r, !.approval = Digest(r)] \in Archiving
    BY <1>0, DigestType DEF Archiving
  <2>2. QED
    BY <1>1, <2>1 DEF Previews
<1>2. CASE Inspects(p)
  <2>1. Records[op[p].run] \in SUBSET Trees
    BY <1>2 DEF Inspects, OperatorsInv
  <2>2. op' = [op EXCEPT ![p] = [op[p] EXCEPT !.step = "removing", !.todo = Records[op[p].run]]]
    BY <1>2 DEF Inspects
  <2>3. op' \in [Operators -> Archiving]
    BY <1>0, <2>1, <2>2, ArchivingType
  <2>4. QED
    BY <1>2, <2>3 DEF Inspects
<1>3. CASE Gates(p) \/ Reports(p)
  <2>1. op' \in [Operators -> Archiving]
    BY <1>0, <1>3, ArchivingType DEF Gates, Reports
  <2>2. QED
    BY <1>3, <2>1 DEF Gates, Reports
<1>4. CASE Refuses(p) \/ OperatorDies(p)
  <2>1. op' \in [Operators -> Archiving]
    BY <1>0, <1>4 DEF Refuses, OperatorDies
  <2>2. QED
    BY <1>4, <2>1 DEF Refuses, OperatorDies
<1>5. ASSUME NEW w \in Trees, Removes(p, w) \/ RemovalFails(p, w)
      PROVE  /\ op' \in [Operators -> Archiving] /\ UNCHANGED <<faults, launch, worker, lock, run>>
             /\ Removed(w) \/ UNCHANGED tree
             /\ \A q \in Operators : q # p => op'[q] = op[q]
  <2>1. op[p].todo \ {w} \in SUBSET Trees
    BY <1>0 DEF Archiving
  <2>2. \/ op' = [op EXCEPT ![p] = [op[p] EXCEPT !.todo = op[p].todo \ {w}]]
        \/ op' = [op EXCEPT ![p] = [op[p] EXCEPT !.todo = op[p].todo \ {w}, !.kept = TRUE]]
    BY <1>5 DEF Removes, RemovalFails
  <2>3. op' \in [Operators -> Archiving]
    <3> DEFINE t == op[p].todo \ {w}
    <3>1. /\ [op[p] EXCEPT !.todo = t] \in Archiving
          /\ [op[p] EXCEPT !.todo = t, !.kept = TRUE] \in Archiving
      BY <1>0, <2>1, ArchivingType
    <3>2. QED
      BY <2>2, <3>1
  <2>4. QED
    BY <1>5, <2>2, <2>3 DEF Removes, RemovalFails
<1>6. CASE Marks(p)
  <2>1. op[p].run \in Runs /\ run[op[p].run].state \in {"live", "finished"}
    BY <1>6 DEF Marks, OperatorsInv
  <2>2. op' \in [Operators -> Archiving]
    BY <1>0, <1>6 DEF Marks
  <2>3. CASE UNCHANGED run
    BY <1>6, <2>2, <2>3 DEF Marks
  <2>4. CASE ~op[p].kept /\ run' = [run EXCEPT ![op[p].run].archived = TRUE]
    <3>1. run' \in [Runs -> RunRecord]
      <4>1. ASSUME NEW b \in BOOLEAN PROVE [run EXCEPT ![op[p].run].archived = b] \in [Runs -> RunRecord]
        BY <2>1, RunRecordType DEF RunStates, Panes
      <4>2. QED
        BY <2>4, <4>1
    <3>2. run[op[p].run] \in RunRecord
      BY <2>1
    <3>3. /\ run'[op[p].run].state = run[op[p].run].state /\ run'[op[p].run].pane = run[op[p].run].pane
          /\ run'[op[p].run].archived
          /\ \A q \in Runs : q # op[p].run => run'[q] = run[q]
      BY <2>1, <2>4, <3>2 DEF RunRecord
    <3>4. QED
      BY <1>6, <2>1, <2>2, <2>4, <3>1, <3>3 DEF Marks
  <2>5. QED
    BY <1>6, <2>3, <2>4 DEF Marks
<1>7. ASSUME NEW r \in Runs, Previews(p, r)
      PROVE  UNCHANGED <<faults, run, launch, worker, lock, tree>> /\ \A q \in Operators : q # p => op'[q] = op[q]
  BY <1>7 DEF Previews
<1>8. QED
  <2>1. CASE \E r \in Runs : Previews(p, r)
    BY <2>1, <1>1, <1>7
  <2>2. CASE \E w \in Trees : Removes(p, w) \/ RemovalFails(p, w)
    BY <2>2, <1>5, RemovedType
  <2>3. QED
    BY <2>1, <2>2, <1>2, <1>3, <1>4, <1>6 DEF Archives, Works

\* What each step of an operator does to its own record.
LEMMA OwnSteps ==
  ASSUME TypeOK, NEW p \in Operators
  PROVE  /\ \A r \in Runs : Previews(p, r) =>
              op'[p].step = "approved" /\ op'[p].run = r /\ run[r].state = "finished"
         /\ Gates(p) => op'[p].step = "gated" /\ op'[p].run = op[p].run
         /\ Inspects(p) =>
              /\ op'[p].step = "removing" /\ op'[p].run = op[p].run
              /\ op'[p].approval = op[p].approval /\ op'[p].todo = Records[op[p].run]
         /\ Reports(p) =>
              /\ op'[p].step = "marking" /\ op'[p].run = op[p].run
              /\ op[p].todo = {} /\ op'[p].todo = {} /\ op'[p].kept = op[p].kept
         /\ \A w \in Trees : Removes(p, w) \/ RemovalFails(p, w) =>
              /\ op[p].step = "removing" /\ op'[p].step = "removing" /\ op'[p].run = op[p].run
              /\ op'[p].approval = op[p].approval
              /\ w \in op[p].todo /\ op'[p].todo = op[p].todo \ {w}
              /\ ~op'[p].kept => ~op[p].kept /\ Removes(p, w)
         /\ Refuses(p) \/ Marks(p) \/ OperatorDies(p) => op'[p].step = "idle"
<1> USE DEF TypeOK
<1>0. op[p] \in Archiving
  OBVIOUS
<1>1. ASSUME NEW r \in Runs, Previews(p, r)
      PROVE  op'[p].step = "approved" /\ op'[p].run = r /\ run[r].state = "finished"
  BY <1>1 DEF Previews, IdleOperator, GatesPass, AtRest
<1>2. ASSUME Gates(p) PROVE op'[p].step = "gated" /\ op'[p].run = op[p].run
  BY <1>0, <1>2 DEF Gates, Archiving
<1>3. ASSUME Inspects(p)
      PROVE  /\ op'[p].step = "removing" /\ op'[p].run = op[p].run
             /\ op'[p].approval = op[p].approval /\ op'[p].todo = Records[op[p].run]
  BY <1>0, <1>3 DEF Inspects, Archiving
<1>4. ASSUME Reports(p)
      PROVE  /\ op'[p].step = "marking" /\ op'[p].run = op[p].run
             /\ op[p].todo = {} /\ op'[p].todo = {} /\ op'[p].kept = op[p].kept
  BY <1>0, <1>4 DEF Reports, Archiving
<1>5. ASSUME NEW w \in Trees, Removes(p, w)
      PROVE  /\ op[p].step = "removing" /\ op'[p].step = "removing" /\ op'[p].run = op[p].run
             /\ op'[p].approval = op[p].approval /\ w \in op[p].todo
             /\ op'[p].todo = op[p].todo \ {w} /\ (~op'[p].kept => ~op[p].kept)
  BY <1>0, <1>5 DEF Removes, Archiving
<1>6. ASSUME NEW w \in Trees, RemovalFails(p, w)
      PROVE  /\ op[p].step = "removing" /\ op'[p].step = "removing" /\ op'[p].run = op[p].run
             /\ op'[p].approval = op[p].approval /\ w \in op[p].todo
             /\ op'[p].todo = op[p].todo \ {w} /\ op'[p].kept
  <2>1. /\ op[p].step = "removing" /\ w \in op[p].todo
        /\ op'[p] = [op[p] EXCEPT !.todo = op[p].todo \ {w}, !.kept = TRUE]
    BY <1>6 DEF RemovalFails
  <2>2. QED
    BY <1>0, <2>1 DEF Archiving
<1>7. ASSUME Refuses(p) \/ Marks(p) \/ OperatorDies(p) PROVE op'[p].step = "idle"
  BY <1>7 DEF Refuses, Marks, OperatorDies, IdleOperator
<1>8. ASSUME NEW w \in Trees, Removes(p, w) \/ RemovalFails(p, w)
      PROVE  /\ op[p].step = "removing" /\ op'[p].step = "removing" /\ op'[p].run = op[p].run
             /\ op'[p].approval = op[p].approval
             /\ w \in op[p].todo /\ op'[p].todo = op[p].todo \ {w}
             /\ ~op'[p].kept => ~op[p].kept /\ Removes(p, w)
  BY <1>5, <1>6, <1>8
<1>9. QED
  BY <1>1, <1>2, <1>3, <1>4, <1>7, <1>8

-----------------------------------------------------------------------------
(* The invariant is inductive                                              *)

\* Whoever archives does so to a run that was launched.
LEMMA OperatorsStep ==
  ASSUME TypeOK, LaunchersInv, OperatorsInv, [Next]_vars
  PROVE  OperatorsInv'
<1> USE DEF TypeOK, OperatorsInv
<1>1. ASSUME NEW p \in Operators, Archives(p) PROVE OperatorsInv'
  <2>1. op[p] \in Archiving
    OBVIOUS
  <2>2. /\ \A q \in Operators : q # p => op'[q] = op[q]
        /\ \A r \in Runs : run'[r].state = run[r].state
    BY <1>1, OperatorSteps
  <2>3. ASSUME NEW r \in Runs, Previews(p, r) PROVE OperatorsInv'
    BY <2>2, <2>3, OwnSteps
  <2>4. CASE \/ Gates(p) \/ Inspects(p) \/ Reports(p)
             \/ \E w \in Trees : Removes(p, w) \/ RemovalFails(p, w)
    <3>1. op[p].step # "idle"
      BY <2>4 DEF Gates, Inspects, Reports, Removes, RemovalFails
    <3>2. op'[p].run = op[p].run /\ (op'[p].step = "marking" => op'[p].todo = {})
      BY <2>4, OwnSteps
    <3>3. QED
      BY <2>2, <3>1, <3>2
  <2>5. CASE Refuses(p) \/ Marks(p) \/ OperatorDies(p)
    BY <2>2, <2>5, OwnSteps
  <2>6. QED
    BY <1>1, <2>2, <2>3, <2>4, <2>5 DEF Archives, Works
<1>2. ASSUME NEW r \in Runs, RunMoves(r) PROVE OperatorsInv'
  BY <1>2, RunSteps
<1>3. ASSUME NEW w \in Trees, Commits(w) \/ Changes(w) \/ ChecksOut(w) \/ Ignores(w)
      PROVE  OperatorsInv'
  BY <1>3, Edits
<1>4. CASE UNCHANGED vars
  BY <1>4 DEF vars, parts
<1>5. QED
  BY <1>1, <1>2, <1>3, <1>4 DEF Next

\* The type invariant.
LEMMA TypeStep ==
  ASSUME TypeOK, LaunchersInv, OperatorsInv, [Next]_vars
  PROVE  TypeOK'
<1>1. ASSUME NEW w \in Trees, Commits(w) \/ Changes(w) \/ ChecksOut(w) \/ Ignores(w) PROVE TypeOK'
  BY <1>1, Edits DEF TypeOK
<1>2. CASE UNCHANGED vars
  BY <1>2 DEF vars, parts, TypeOK
<1>3. QED
  BY <1>1, <1>2, OperatorSteps, RunSteps DEF Next

\* Nothing changes what may go wrong.
LEMMA FaultsStay ==
  ASSUME TypeOK, LaunchersInv, OperatorsInv, [Next]_vars
  PROVE  faults' = faults
<1>1. ASSUME NEW w \in Trees, Commits(w) \/ Changes(w) \/ ChecksOut(w) \/ Ignores(w)
      PROVE  faults' = faults
  BY <1>1, Edits
<1>2. CASE UNCHANGED vars
  BY <1>2 DEF vars
<1>3. QED
  BY <1>1, <1>2, OperatorSteps, RunSteps DEF Next

\* Unless the world moves while somebody executes an archive, a step that is not
\* an operator's, with an execution under way, changes nothing.
LEMMA WorldWaits ==
  ASSUME TypeOK, LaunchersInv, [Next]_vars, "window" \notin faults, ~\E p \in Operators : Archives(p)
  PROVE  /\ UNCHANGED <<faults, op>>
         /\ (\E p \in Operators : Executing(p)) => UNCHANGED <<run, worker, tree>>
<1>1. ASSUME NEW r \in Runs, RunMoves(r)
      PROVE  UNCHANGED <<faults, op>> /\ (Moves \/ UNCHANGED <<run, worker, tree>>)
  BY <1>1, RunSteps
<1>2. ASSUME NEW w \in Trees, Commits(w) \/ Changes(w) \/ ChecksOut(w) \/ Ignores(w)
      PROVE  UNCHANGED <<faults, op>> /\ Moves
  BY <1>2, Edits
<1>3. CASE UNCHANGED vars
  BY <1>3 DEF vars, parts
<1>4. QED
  BY <1>1, <1>2, <1>3 DEF Next, Moves

\* A run is at rest while it is being archived: its gates found it so.
LEMMA StaysAtRestStep ==
  ASSUME TypeOK, LaunchersInv, OperatorsInv, StaysAtRest, [Next]_vars
  PROVE  StaysAtRest'
<1> SUFFICES ASSUME ("window" \notin faults)', NEW q \in Operators, Executing(q)'
             PROVE  AtRest(op[q].run)'
  BY DEF StaysAtRest
<1>1. faults' = faults
  BY FaultsStay
<1>2. ASSUME NEW p \in Operators, Archives(p) PROVE AtRest(op[q].run)'
  <2>1. /\ q # p => op'[q] = op[q]
        /\ \A r \in Runs : AtRest(r)' = AtRest(r)
    BY <1>2, OperatorSteps DEF AtRest
  <2>2. CASE q # p
    BY <1>1, <2>1, <2>2 DEF StaysAtRest, Executing, OperatorsInv
  <2>3. CASE q = p
    <3>2. CASE Gates(p)
      <4>1. op'[p].run = op[p].run /\ op[p].run \in Runs /\ AtRest(op[p].run)
        BY <3>2, OwnSteps DEF Gates, GatesPass, OperatorsInv
      <4>2. QED
        BY <2>1, <2>3, <4>1
    <3>3. CASE Inspects(p) \/ Reports(p) \/ \E w \in Trees : Removes(p, w) \/ RemovalFails(p, w)
      <4>1. Executing(p) /\ op[p].run \in Runs
        BY <3>3 DEF Inspects, Reports, Removes, RemovalFails, Executing, OperatorsInv
      <4>2. op'[p].run = op[p].run
        BY <3>3, OwnSteps
      <4>3. QED
        BY <1>1, <2>1, <2>3, <4>1, <4>2 DEF StaysAtRest
    <3>4. CASE Refuses(p) \/ Marks(p) \/ OperatorDies(p) \/ \E r \in Runs : Previews(p, r)
      <4>1. op'[p].step \in {"idle", "approved"}
        BY <3>4, OwnSteps
      <4>2. QED
        BY <2>3, <4>1 DEF Executing
    <3>5. QED
      BY <1>2, <3>2, <3>3, <3>4 DEF Archives, Works
  <2>4. QED
    BY <2>2, <2>3
<1>3. CASE ~\E p \in Operators : Archives(p)
  BY <1>1, <1>3, WorldWaits DEF StaysAtRest, Executing, AtRest
<1>4. QED
  BY <1>2, <1>3

\* The checks of an execution still hold for what it has yet to remove.
LEMMA ChecksHoldStep ==
  ASSUME TypeOK, LaunchersInv, OperatorsInv, StaysAtRest, ChecksHold, [Next]_vars
  PROVE  ChecksHold'
<1> SUFFICES ASSUME "window" \notin faults, faults' = faults,
                    NEW q \in Operators, op'[q].step = "removing", NEW w \in op'[q].todo
             PROVE  w \in Records[op'[q].run] /\ AsApproved(q, w)' /\ Unclaimed(w)'
  BY FaultsStay DEF ChecksHold
<1> USE DEF AsApproved, Unclaimed
<1>1. ASSUME NEW p \in Operators, Archives(p)
      PROVE  w \in Records[op'[q].run] /\ AsApproved(q, w)' /\ Unclaimed(w)'
  <2>1. /\ q # p => op'[q] = op[q]
        /\ \A v \in Trees : tree'[v] = tree[v] \/ ~tree'[v].present
        /\ \A r \in Runs : run'[r].state = run[r].state /\ (run[r].archived => run'[r].archived)
    BY <1>1, OperatorSteps
  <2>2. op'[q] \in Archiving
    BY <1>1, OperatorSteps DEF TypeOK
  <2>3. w \in Trees
    BY <2>2 DEF Archiving
  <2>4. CASE op[q].step = "removing" /\ w \in op[q].todo /\ op'[q].run = op[q].run
             /\ op'[q].approval = op[q].approval
    BY <2>1, <2>3, <2>4 DEF ChecksHold
  <2>5. CASE q = p /\ Inspects(p)
    <3>1. /\ op'[q].run = op[q].run /\ op'[q].approval = op[q].approval /\ w \in Records[op[q].run]
      BY <2>5, OwnSteps
    <3>2. op[q].run \in Runs /\ run[op[q].run].state = "finished"
      BY <2>5 DEF Inspects, OperatorsInv, StaysAtRest, AtRest, Executing
    <3>3. tree' = tree /\ run' = run /\ InspectionPasses(op[q].run) /\ Digest(op[q].run) = op[q].approval
      BY <2>5 DEF Inspects
    <3>4. tree[w].present => ~tree[w].stray /\ Digest(op[q].run).trees[w].ignored = tree[w].ignored
      BY <2>3, <3>1, <3>3 DEF InspectionPasses, Recoverable, Digest, Seen
    <3>5. ASSUME NEW r \in Runs, w \in Records[r], ~run[r].archived, r # op[q].run
          PROVE  run[r].state \notin LiveStates
      <4>1. CASE run[r].state = "unborn"
        BY <4>1 DEF LiveStates
      <4>2. CASE run[r].state # "unborn"
        <5>1. <<w, r, run[r].state>> \in Sharers(op[q].run)
          <6>1. /\ <<w, r>> \in Records[op[q].run] \X (Runs \ {op[q].run})
                /\ <<w, r>>[1] = w /\ <<w, r>>[2] = r
            BY <3>1, <3>5
          <6>2. QED
            BY <3>5, <4>2, <6>1 DEF Sharers
        <5>2. QED
          BY <3>3, <5>1 DEF InspectionPasses, Spared
      <4>3. QED
        BY <4>1, <4>2
    <3>6. QED
      BY <3>1, <3>2, <3>3, <3>4, <3>5 DEF LiveStates
  <2>6. CASE q = p /\ ~Inspects(p)
    <3>1. \E v \in Trees : Removes(p, v) \/ RemovalFails(p, v)
      BY <1>1, <2>6, OwnSteps DEF Archives, Works
    <3>2. QED
      BY <2>4, <2>6, <3>1, OwnSteps
  <2>7. QED
    BY <2>1, <2>4, <2>5, <2>6
<1>2. CASE ~\E p \in Operators : Archives(p)
  <2>1. op' = op /\ Executing(q)
    BY <1>2, WorldWaits DEF Executing
  <2>2. QED
    BY <1>2, <2>1, WorldWaits DEF ChecksHold
<1>3. QED
  BY <1>1, <1>2

\* What an execution has removed stays away.
LEMMA RemovedStaysStep ==
  ASSUME TypeOK, LaunchersInv, OperatorsInv, RemovedStays, [Next]_vars
  PROVE  RemovedStays'
<1> SUFFICES ASSUME "window" \notin faults, faults' = faults,
                    NEW q \in Operators, op'[q].step \in {"removing", "marking"}, ~op'[q].kept,
                    NEW w \in Records[op'[q].run] \ op'[q].todo
             PROVE  ~tree'[w].present
  BY FaultsStay DEF RemovedStays
<1>1. ASSUME NEW p \in Operators, Archives(p) PROVE ~tree'[w].present
  <2>1. /\ q # p => op'[q] = op[q]
        /\ \A v \in Trees : tree'[v] = tree[v] \/ ~tree'[v].present
        /\ OperatorsInv'
    BY <1>1, OperatorSteps, OperatorsStep
  <2>2. w \in Trees
    BY <2>1 DEF OperatorsInv
  <2>3. CASE /\ op[q].step \in {"removing", "marking"} /\ ~op[q].kept
             /\ op'[q].run = op[q].run /\ w \notin op[q].todo
    BY <2>1, <2>2, <2>3 DEF RemovedStays
  <2>4. CASE q = p /\ \E v \in Trees : Removes(p, v) \/ RemovalFails(p, v)
    <3>1. PICK v \in Trees : Removes(p, v) \/ RemovalFails(p, v)
      BY <2>4
    <3>2. /\ op[q].step = "removing" /\ ~op[q].kept /\ Removes(p, v)
          /\ op'[q].run = op[q].run /\ op'[q].todo = op[q].todo \ {v}
      BY <2>4, <3>1, OwnSteps
    <3>3. CASE w = v
      BY <3>2, <3>3, RemovedType DEF Removes
    <3>4. CASE w # v
      BY <2>3, <3>2, <3>4
    <3>5. QED
      BY <3>3, <3>4
  <2>5. CASE q = p /\ ~\E v \in Trees : Removes(p, v) \/ RemovalFails(p, v)
    <3>1. Inspects(p) \/ Reports(p)
      BY <1>1, <2>5, OwnSteps DEF Archives, Works
    <3>2. CASE Inspects(p)
      BY <2>5, <3>2, OwnSteps
    <3>3. CASE Reports(p)
      <4>1. op[p].step = "removing"
        BY <3>3 DEF Reports
      <4>2. QED
        BY <2>3, <2>5, <3>3, <4>1, OwnSteps
    <3>4. QED
      BY <3>1, <3>2, <3>3
  <2>6. QED
    BY <2>1, <2>3, <2>4, <2>5
<1>2. CASE ~\E p \in Operators : Archives(p)
  <2>1. op' = op /\ Executing(q)
    BY <1>2, WorldWaits DEF Executing
  <2>2. QED
    BY <1>2, <2>1, WorldWaits DEF RemovedStays
<1>3. QED
  BY <1>1, <1>2

\* The launchers of runs come before their agents.
LEMMA LaunchersStep ==
  ASSUME TypeOK, LaunchersInv, OperatorsInv, [Next]_vars
  PROVE  LaunchersInv'
<1>1. ASSUME NEW p \in Operators, Archives(p) PROVE LaunchersInv'
  BY <1>1, OperatorSteps DEF LaunchersInv
<1>2. ASSUME NEW w \in Trees, Commits(w) \/ Changes(w) \/ ChecksOut(w) \/ Ignores(w) PROVE LaunchersInv'
  BY <1>2, Edits DEF LaunchersInv
<1>3. CASE UNCHANGED vars
  BY <1>3 DEF vars, parts, LaunchersInv
<1>4. QED
  BY <1>1, <1>2, <1>3, RunSteps DEF Next

\* Nothing is left of an archived run but what another run records.
LEMMA ArchivedIsGoneStep ==
  ASSUME TypeOK, LaunchersInv, OperatorsInv, RemovedStays, ArchivedIsGone, [Next]_vars
  PROVE  ArchivedIsGone'
<1> SUFFICES ASSUME "window" \notin faults, faults' = faults,
                    NEW w \in Trees, NEW r \in Runs,
                    run'[r].archived, w \in Records[r], tree'[w].present
             PROVE  \E q \in Runs : w \in Records[q] /\ ~run'[q].archived /\ run'[q].state # "unborn"
  BY FaultsStay DEF ArchivedIsGone
<1>1. ASSUME NEW p \in Operators, Archives(p)
      PROVE  \E q \in Runs : w \in Records[q] /\ ~run'[q].archived /\ run'[q].state # "unborn"
  <2>1. /\ tree[w].present
        /\ \A q \in Runs :
             /\ run'[q].state = run[q].state
             /\ run'[q].archived /\ ~run[q].archived =>
                  op[p].step = "marking" /\ q = op[p].run /\ ~op[p].kept
    BY <1>1, OperatorSteps
  <2>2. ASSUME NEW q \in Runs, run'[q].archived, ~run[q].archived PROVE w \notin Records[q]
    BY <2>1, <2>2 DEF RemovedStays, OperatorsInv
  <2>3. run[r].archived
    BY <2>2
  <2>4. PICK q \in Runs : w \in Records[q] /\ ~run[q].archived /\ run[q].state # "unborn"
    BY <2>1, <2>3 DEF ArchivedIsGone
  <2>5. QED
    BY <2>1, <2>2, <2>4
<1>2. ASSUME NEW s \in Runs, RunMoves(s)
      PROVE  \E q \in Runs : w \in Records[q] /\ ~run'[q].archived /\ run'[q].state # "unborn"
  <2>1. /\ tree'[w].present /\ ~tree[w].present =>
             w \in Records[s] /\ ~run'[s].archived /\ run'[s].state = "launching"
        /\ \A q \in Runs : run'[q].archived = run[q].archived
                          /\ (run[q].state # "unborn" => run'[q].state # "unborn")
    BY <1>2, RunSteps
  <2>2. QED
    BY <2>1 DEF ArchivedIsGone
<1>3. ASSUME NEW v \in Trees, Commits(v) \/ Changes(v) \/ ChecksOut(v) \/ Ignores(v)
      PROVE  \E q \in Runs : w \in Records[q] /\ ~run'[q].archived /\ run'[q].state # "unborn"
  BY <1>3, Edits DEF ArchivedIsGone
<1>4. CASE UNCHANGED vars
  BY <1>4 DEF vars, parts, ArchivedIsGone
<1>5. QED
  BY <1>1, <1>2, <1>3, <1>4 DEF Next

\* The invariant is inductive.
LEMMA StepInv ==
  ASSUME IInv, [Next]_vars
  PROVE  IInv'
BY TypeStep, LaunchersStep, OperatorsStep, StaysAtRestStep, ChecksHoldStep, RemovedStaysStep,
   ArchivedIsGoneStep DEF IInv

-----------------------------------------------------------------------------
(* What archiving does, and what it never does                              *)

\* The invariant holds in every behaviour.
THEOREM Invariance == Spec => []IInv
<1>1. QED
  BY InitInv, StepInv, PTL DEF Spec

\* The records of archived runs have the right shape, and a worktree of an
\* archived run that is there again is recorded by a run that is not archived,
\* unless the world moves during removals.
THEOREM MarksHold == Spec => []MarksAreTrue
<1>1. IInv => MarksAreTrue
  BY DEF IInv, MarksAreTrue
<1>2. QED
  BY <1>1, Invariance, PTL

\* A worktree only goes away because an operator removes it, one that has no
\* changes: `git worktree remove` is not forced.
LEMMA GoneOnlyByRemoval ==
  ASSUME IInv, [Next]_vars, NEW w \in Trees, Gone(w)
  PROVE  /\ tree[w].status # "dirty"
         /\ \E p \in Operators : op[p].step = "removing" /\ w \in op[p].todo
<1> USE DEF Gone, IInv
<1>1. ASSUME NEW p \in Operators, Archives(p)
      PROVE  /\ tree[w].status # "dirty"
             /\ op[p].step = "removing" /\ w \in op[p].todo
  <2>1. ASSUME NEW v \in Trees, Removes(p, v) \/ RemovalFails(p, v)
        PROVE  /\ tree[w].status # "dirty"
               /\ op[p].step = "removing" /\ w \in op[p].todo
    <3>1. tree' # tree
      OBVIOUS
    <3>2. Removed(v) /\ (tree[v].present => tree[v].status # "dirty")
      BY <2>1, <3>1 DEF Removes, RemovalFails
    <3>3. w = v
      BY <3>2, RemovedType
    <3>4. QED
      BY <2>1, <3>2, <3>3, OwnSteps
  <2>2. CASE ~\E v \in Trees : Removes(p, v) \/ RemovalFails(p, v)
    <3>1. tree' = tree
      BY <1>1, <2>2 DEF Archives, Works, Previews, Gates, Inspects, Refuses, Reports, Marks, OperatorDies
    <3>2. QED
      BY <3>1
  <2>3. QED
    BY <2>1, <2>2
<1>2. ASSUME NEW r \in Runs, RunMoves(r) PROVE FALSE
  BY <1>2, RunSteps
<1>3. ASSUME NEW v \in Trees, Commits(v) \/ Changes(v) \/ ChecksOut(v) \/ Ignores(v) PROVE FALSE
  BY <1>3, Edits
<1>4. CASE UNCHANGED vars
  BY <1>4 DEF vars, parts
<1>5. QED
  BY <1>1, <1>2, <1>3, <1>4 DEF Next

\* Removing a worktree destroys no uncommitted work; and, unless the world moves
\* during removals, nothing but what was approved by name, and nothing of a run
\* in a live state or with an agent on a pane it names, whatever is launched and
\* resumed before and in between.
THEOREM RemovalsSafe == Spec => RemovalsAreSafe
<1>1. ASSUME IInv, [Next]_vars, NEW w \in Trees, Gone(w), "window" \notin faults
      PROVE  Approved(w) /\ Unclaimed(w) /\ ForRunsAtRest(w)
  <2>1. PICK p \in Operators : op[p].step = "removing" /\ w \in op[p].todo
    BY <1>1, GoneOnlyByRemoval
  <2>2. AsApproved(p, w) /\ Unclaimed(w)
    BY <1>1, <2>1 DEF IInv, ChecksHold
  <2>3. ForRunsAtRest(w)
    BY <1>1 DEF IInv, StaysAtRest, Executing, ForRunsAtRest
  <2>4. QED
    BY <1>1, <2>1, <2>2, <2>3 DEF AsApproved, Approved, Gone
<1>2. ASSUME IInv, [Next]_vars, NEW w \in Trees, Gone(w) PROVE tree[w].status # "dirty"
  BY <1>2, GoneOnlyByRemoval
<1>3. Spec => [][\A w \in Trees : Gone(w) /\ "window" \notin faults
                    => Approved(w) /\ Unclaimed(w) /\ ForRunsAtRest(w)]_vars
  <2>1. IInv /\ [Next]_vars =>
          [\A w \in Trees : Gone(w) /\ "window" \notin faults
              => Approved(w) /\ Unclaimed(w) /\ ForRunsAtRest(w)]_vars
    BY <1>1
  <2>2. QED
    BY <2>1, Invariance, PTL DEF Spec
<1>4. Spec => UncommittedSurvives
  <2>1. IInv /\ [Next]_vars => [\A w \in Trees : Gone(w) => tree[w].status # "dirty"]_vars
    BY <1>2
  <2>2. QED
    BY <2>1, Invariance, PTL DEF Spec, UncommittedSurvives
<1>5. QED
  BY <1>3, <1>4 DEF RemovalsAreSafe

=============================================================================
