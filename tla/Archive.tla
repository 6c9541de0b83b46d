-------------------------------- MODULE Archive --------------------------------
(***************************************************************************)
(* `workflow archive` (commands.js): removing the worktrees of a finished   *)
(* run, which is the one command that can destroy something irreplaceable. *)
(*                                                                         *)
(* A preview reads the run, its lock, its agent, its worktrees and the      *)
(* other runs that record them; what it saw is digested and approved.  The  *)
(* execution does all of that again, compares the digests, and then removes *)
(* one worktree after another.  The world does not stand still: workers and *)
(* users change worktrees, runs are resumed and launched.                   *)
(***************************************************************************)
EXTENDS Naturals, FiniteSets

CONSTANTS
  Runs,
  Trees,       \* paths of worktrees
  Records,     \* the worktrees that each run records
  Later,       \* the runs that are launched later on
  Operators,   \* processes that archive
  MaxCommits,  \* bound: commits on the branch of a worktree
  MaxIgnored,  \* bound: what the ignored files of a worktree may be; 0 for none
  FaultCases,  \* what may happen in one behaviour: sets of AllFaults
  None

AllFaults == {
  "overlap",   \* archives overlap; without it there is one at a time
  "resumes",   \* runs are resumed
  "edits",     \* workers and users change the worktrees
  "commits",   \* branches get commits
  "window",    \* the world moves between the checks of an execution and its removals
  "locks",     \* a run lock is held, or left behind
  "failures"}  \* git fails to remove, or its answer is lost; operators are killed

ASSUME ArchiveConstants ==
  /\ Records \in [Runs -> SUBSET Trees]
  /\ Later \subseteq Runs
  /\ MaxCommits \in Nat /\ MaxIgnored \in Nat
  /\ FaultCases \subseteq SUBSET AllFaults
  /\ None \notin Runs

VARIABLES
  faults,  \* what may go wrong in this behaviour
  run,     \* run.json: its state, archivedAt, and the pane it names
  launch,  \* how far the launcher of a run has come
  worker,  \* whether the run has an agent
  lock,    \* the lock of the run
  tree,    \* the worktrees
  op       \* the operators

parts == <<run, launch, worker, lock, tree, op>>

vars == <<faults, parts>>

\* "finished" stands for completed, failed and interrupted.
RunStates == {"unborn", "launching", "live", "finished"}

\* The panes that a run names are none, or have its latest agent, or an earlier
\* one only.
Panes == {"none", "latest", "earlier"}

RunRecord == [state : RunStates, archived : BOOLEAN, pane : Panes]

\* "pending": an unfinished git operation in a tree without changes.  "stray":
\* the detached HEAD is a commit that no ref contains.
Worktree == [present : BOOLEAN, status : {"clean", "dirty", "pending"}, detached : BOOLEAN,
             stray : BOOLEAN, commits : 0..MaxCommits, ignored : 0..MaxIgnored]

\* What archiveDigestPayload binds of a worktree.
TreeDigest == [present : BOOLEAN, detached : BOOLEAN, commits : 0..MaxCommits, ignored : 0..MaxIgnored]

Digests == [trees : [Trees -> TreeDigest \cup {None}], shared : SUBSET (Trees \X Runs \X RunStates)]

\* One `workflow archive`: its next step, the approved digest, the worktrees
\* that it still has to remove, and whether it had to keep one.
Archiving == [step : {"idle", "approved", "gated", "removing", "marking"},
              run : Runs \cup {None}, approval : Digests \cup {None},
              todo : SUBSET Trees, kept : BOOLEAN]

TypeOK ==
  /\ faults \in FaultCases
  /\ run \in [Runs -> RunRecord]
  /\ \A r \in Runs : run[r].archived => run[r].state \in {"live", "finished"}
  /\ launch \in [Runs -> {"none", "starting", "started", "recorded"}]
  /\ worker \in [Runs -> BOOLEAN]
  /\ lock \in [Runs -> {"free", "held", "dead"}]
  /\ tree \in [Trees -> Worktree]
  /\ \A w \in Trees : tree[w].stray => tree[w].detached
  /\ op \in [Operators -> Archiving]

NewTree(commits) == [present |-> TRUE, status |-> "clean", detached |-> FALSE, stray |-> FALSE,
                     commits |-> commits, ignored |-> 0]

IdleOperator == [step |-> "idle", run |-> None, approval |-> None, todo |-> {}, kept |-> FALSE]

Init ==
  /\ faults \in FaultCases
  /\ run = [r \in Runs |-> [state |-> IF r \in Later THEN "unborn" ELSE "finished",
                            archived |-> FALSE,
                            pane |-> IF r \in Later THEN "none" ELSE "latest"]]
  /\ launch = [r \in Runs |-> "none"]
  /\ worker = [r \in Runs |-> FALSE]
  /\ lock = [r \in Runs |-> "free"]
  /\ tree = [w \in Trees |-> NewTree(0)]
  /\ op = [p \in Operators |-> IdleOperator]

-----------------------------------------------------------------------------
(* The runs: what the launcher, resume and the hooks do, as far as it       *)
(* matters here                                                             *)

Executing(p) == op[p].step \in {"gated", "removing", "marking"}

Moves == "window" \in faults \/ \A p \in Operators : ~Executing(p)

\* executeLaunch: store.create comes before any worktree.
Creates(r) ==
  /\ Moves
  /\ run[r].state = "unborn"
  /\ run' = [run EXCEPT ![r].state = "launching"]
  /\ launch' = [launch EXCEPT ![r] = "starting"]
  /\ UNCHANGED <<faults, worker, lock, tree, op>>

\* executeStart: a worktree that is there is reused, one that is not is added
\* from its branch, or from the base; then the agent is started.
AddsTree(r, w) ==
  /\ Moves
  /\ launch[r] = "starting" /\ w \in Records[r] /\ ~tree[w].present
  /\ tree' = [tree EXCEPT ![w] = NewTree(tree[w].commits)]
  /\ UNCHANGED <<faults, run, launch, worker, lock, op>>

StartsAgent(r) ==
  /\ Moves
  /\ launch[r] = "starting" /\ \A w \in Records[r] : tree[w].present
  /\ worker' = [worker EXCEPT ![r] = TRUE]
  /\ launch' = [launch EXCEPT ![r] = "started"]
  /\ UNCHANGED <<faults, run, lock, tree, op>>

\* The identity of the agent is recorded first, with no state.
RecordsIdentity(r) ==
  /\ Moves
  /\ launch[r] = "started"
  /\ run' = [run EXCEPT ![r].pane = "latest"]
  /\ launch' = [launch EXCEPT ![r] = "recorded"]
  /\ UNCHANGED <<faults, worker, lock, tree, op>>

\* The outcome, which leaves a state alone that the hooks have moved.  A start
\* that fails, or whose answer is lost, has failed whatever it has done by then.
Concludes(r, state) ==
  /\ Moves
  /\ run' = [run EXCEPT ![r].state = IF @ = "launching" THEN state ELSE @]
  /\ launch' = [launch EXCEPT ![r] = "none"]
  /\ UNCHANGED <<faults, worker, lock, tree, op>>

Launches(r) == launch[r] = "recorded" /\ Concludes(r, "live")

LaunchFails(r) == launch[r] # "none" /\ Concludes(r, "finished")

LauncherDies(r) ==
  /\ Moves
  /\ launch[r] # "none"
  /\ launch' = [launch EXCEPT ![r] = "none"]
  /\ UNCHANGED <<faults, run, worker, lock, tree, op>>

\* A prompt makes the run of a worker run; a handoff, which may come late, settles
\* one that runs; and a reader of the result may mark one stale, which is live again.
Prompts(r) ==
  /\ Moves
  /\ worker[r]
  /\ run' = [run EXCEPT ![r].state = "live"]
  /\ UNCHANGED <<faults, launch, worker, lock, tree, op>>

Settles(r) ==
  /\ Moves
  /\ run[r].state = "live"
  /\ run' = [run EXCEPT ![r].state = "finished"]
  /\ UNCHANGED <<faults, launch, worker, lock, tree, op>>

GoesStale(r) ==
  /\ Moves
  /\ run[r].state = "finished"
  /\ run' = [run EXCEPT ![r].state = "live"]
  /\ UNCHANGED <<faults, launch, worker, lock, tree, op>>

\* onSessionEnd interrupts a run, not one that is blocked or given up; an agent
\* that is killed does not call it.
WorkerEnds(r) ==
  /\ Moves
  /\ worker[r]
  /\ worker' = [worker EXCEPT ![r] = FALSE]
  /\ \E s \in {run[r].state, "finished"} : run' = [run EXCEPT ![r].state = s]
  /\ UNCHANGED <<faults, launch, lock, tree, op>>

\* executeResume asks neither for the state nor for archivedAt.  It needs the
\* recorded session and its directory; the new pane is recorded when the agent
\* is up.
Resumes(r) ==
  /\ Moves
  /\ "resumes" \in faults
  /\ ~worker[r] /\ run[r].pane # "none"
  /\ \A w \in Records[r] : tree[w].present
  /\ worker' = [worker EXCEPT ![r] = TRUE]
  /\ run' = [run EXCEPT ![r].pane = "earlier"]
  /\ UNCHANGED <<faults, launch, lock, tree, op>>

ResumeRecorded(r) ==
  /\ Moves
  /\ worker[r] /\ run[r].pane = "earlier"
  /\ run' = [run EXCEPT ![r].pane = "latest"]
  /\ UNCHANGED <<faults, launch, worker, lock, tree, op>>

\* Somebody updates the run; may be killed doing so; the lock is removed by
\* `workflow unlock`.
LockMoves(r) ==
  /\ "locks" \in faults
  /\ \/ lock[r] = "free" /\ lock' = [lock EXCEPT ![r] = "held"]
     \/ lock[r] = "held" /\ \E s \in {"free", "dead"} : lock' = [lock EXCEPT ![r] = s]
     \/ lock[r] = "dead" /\ lock' = [lock EXCEPT ![r] = "free"]
  /\ UNCHANGED <<faults, run, launch, worker, tree, op>>

-----------------------------------------------------------------------------
(* The worktrees: a worker's changes, or a user's                           *)

Edit(w, t) ==
  /\ Moves
  /\ "edits" \in faults /\ tree[w].present
  /\ tree' = [tree EXCEPT ![w] = t]
  /\ UNCHANGED <<faults, run, launch, worker, lock, op>>

Commits(w) ==
  \/ tree[w].detached /\ Edit(w, [tree[w] EXCEPT !.stray = TRUE, !.status = "clean"])
  \/ /\ "commits" \in faults /\ ~tree[w].detached /\ tree[w].commits < MaxCommits
     /\ Edit(w, [tree[w] EXCEPT !.commits = @ + 1, !.status = "clean"])

Changes(w) == \E status \in {"clean", "dirty", "pending"} : Edit(w, [tree[w] EXCEPT !.status = status])

\* A checkout of a commit, or of a branch, new or old.
ChecksOut(w) == Edit(w, [tree[w] EXCEPT !.detached = ~@, !.stray = FALSE])

Ignores(w) == \E i \in 0..MaxIgnored : Edit(w, [tree[w] EXCEPT !.ignored = i])

-----------------------------------------------------------------------------
(* The checks                                                               *)

LiveStates == {"launching", "live"}

\* A run that is over, as far as its record tells: it is finished, and no agent
\* is on a pane that it names.
AtRest(r) == run[r].state = "finished" /\ ~(worker[r] /\ run[r].pane = "latest")

\* Gates 1 to 3: a run at rest, and no lock that may be in use.
GatesPass(r) == AtRest(r) /\ lock[r] # "held"

\* inspectRepositoryForArchive and irrecoverableRefusal: a worktree that is
\* there has no changes, no unfinished operation and no stray commit.
Recoverable(w) == tree[w].present => (tree[w].status = "clean" /\ ~tree[w].stray)

\* inspectSharedWorktrees: the other runs that record a worktree of this one,
\* except archived ones.
Sharers(r) ==
  {<<s[1], s[2], run[s[2]].state>> : s \in
     {t \in Records[r] \X (Runs \ {r}) :
        t[1] \in Records[t[2]] /\ run[t[2]].state # "unborn" /\ ~run[t[2]].archived}}

\* Mutation of Spared: only runs that are running count as live.
SparedUnlessLaunching(r) == \A s \in Sharers(r) : s[3] # "live"

Spared(r) == \A s \in Sharers(r) : s[3] \notin LiveStates

Seen(w) ==
  IF tree[w].present
  THEN [present |-> TRUE, detached |-> tree[w].detached, commits |-> tree[w].commits,
        ignored |-> tree[w].ignored]
  ELSE [present |-> FALSE, detached |-> FALSE, commits |-> 0, ignored |-> 0]

Digest(r) == [trees |-> [w \in Trees |-> IF w \in Records[r] THEN Seen(w) ELSE None],
              shared |-> Sharers(r)]

InspectionPasses(r) == (\A w \in Records[r] : Recoverable(w)) /\ Spared(r)

-----------------------------------------------------------------------------
(* archiveCommand                                                           *)

\* The dry run, whose digest the operator approves.
Previews(p, r) ==
  /\ op[p].step = "idle"
  /\ "overlap" \in faults \/ \A q \in Operators : op[q].step = "idle"
  /\ GatesPass(r) /\ InspectionPasses(r)
  /\ op' = [op EXCEPT ![p] = [IdleOperator EXCEPT !.step = "approved", !.run = r, !.approval = Digest(r)]]
  /\ UNCHANGED <<faults, run, launch, worker, lock, tree>>

\* executeArchive: the run, its lock and its agent again.
Gates(p) ==
  /\ op[p].step = "approved"
  /\ GatesPass(op[p].run)
  /\ op' = [op EXCEPT ![p].step = "gated"]
  /\ UNCHANGED <<faults, run, launch, worker, lock, tree>>

\* Mutation of Inspects: the approval is not compared with what is there now.
InspectsOnly(p) ==
  /\ op[p].step = "gated"
  /\ InspectionPasses(op[p].run)
  /\ op' = [op EXCEPT ![p].step = "removing", ![p].todo = Records[op[p].run]]
  /\ UNCHANGED <<faults, run, launch, worker, lock, tree>>

\* The worktrees and the other runs again: the digest is the approved one.
Inspects(p) ==
  /\ op[p].step = "gated"
  /\ InspectionPasses(op[p].run)
  /\ Digest(op[p].run) = op[p].approval
  /\ op' = [op EXCEPT ![p].step = "removing", ![p].todo = Records[op[p].run]]
  /\ UNCHANGED <<faults, run, launch, worker, lock, tree>>

\* Refused, or stale; or the operator thinks better of it.
Refuses(p) ==
  /\ \/ op[p].step = "approved"
     \/ /\ op[p].step = "gated"
        /\ \/ ~InspectionPasses(op[p].run)
           \/ Digest(op[p].run) # op[p].approval
  /\ op' = [op EXCEPT ![p] = IdleOperator]
  /\ UNCHANGED <<faults, run, launch, worker, lock, tree>>

Removed(w) == tree' = [tree EXCEPT ![w] = [NewTree(tree[w].commits) EXCEPT !.present = FALSE]]

\* Mutation of Removes: with --force.
RemovesForcing(p, w) ==
  /\ op[p].step = "removing" /\ w \in op[p].todo
  /\ Removed(w)
  /\ op' = [op EXCEPT ![p].todo = @ \ {w}]
  /\ UNCHANGED <<faults, run, launch, worker, lock>>

\* Mutation of Removes: a worktree that is gone cannot be removed.
RemovesPresent(p, w) ==
  /\ op[p].step = "removing" /\ w \in op[p].todo
  /\ tree[w].present /\ tree[w].status # "dirty"
  /\ Removed(w)
  /\ op' = [op EXCEPT ![p].todo = @ \ {w}]
  /\ UNCHANGED <<faults, run, launch, worker, lock>>

\* git worktree remove: deregisters one that is gone, refuses changes, and deletes what is ignored.
Removes(p, w) ==
  /\ op[p].step = "removing" /\ w \in op[p].todo
  /\ tree[w].present => tree[w].status # "dirty"
  /\ Removed(w)
  /\ op' = [op EXCEPT ![p].todo = @ \ {w}]
  /\ UNCHANGED <<faults, run, launch, worker, lock>>

\* Mutation of RemovalFails: not told from a removal.
RemovalFailsUnseen(p, w) ==
  /\ op[p].step = "removing" /\ w \in op[p].todo
  /\ "failures" \in faults \/ (tree[w].present /\ tree[w].status = "dirty")
  /\ op' = [op EXCEPT ![p].todo = @ \ {w}]
  /\ UNCHANGED <<faults, run, launch, worker, lock, tree>>

\* One that is kept does not stop the others.  After a timeout the worktree
\* may be gone all the same.
RemovalFails(p, w) ==
  /\ op[p].step = "removing" /\ w \in op[p].todo
  /\ "failures" \in faults \/ (tree[w].present /\ tree[w].status = "dirty")
  /\ \/ UNCHANGED tree
     \/ "failures" \in faults /\ tree[w].status # "dirty" /\ Removed(w)
  /\ op' = [op EXCEPT ![p].todo = @ \ {w}, ![p].kept = TRUE]
  /\ UNCHANGED <<faults, run, launch, worker, lock>>

Reports(p) ==
  /\ op[p].step = "removing" /\ op[p].todo = {}
  /\ op' = [op EXCEPT ![p].step = "marking"]
  /\ UNCHANGED <<faults, run, launch, worker, lock, tree>>

\* Only a complete archive marks the run, and only if it gets the lock.
Marks(p) ==
  /\ op[p].step = "marking"
  /\ run' = IF ~op[p].kept /\ lock[op[p].run] = "free"
            THEN [run EXCEPT ![op[p].run].archived = TRUE] ELSE run
  /\ op' = [op EXCEPT ![p] = IdleOperator]
  /\ UNCHANGED <<faults, launch, worker, lock, tree>>

\* The operator's process is killed.
OperatorDies(p) ==
  /\ "failures" \in faults
  /\ Executing(p)
  /\ op' = [op EXCEPT ![p] = IdleOperator]
  /\ UNCHANGED <<faults, run, launch, worker, lock, tree>>

-----------------------------------------------------------------------------

Works(p) ==
  \/ Gates(p) \/ Inspects(p) \/ Refuses(p) \/ Reports(p) \/ Marks(p)
  \/ \E r \in Runs : Previews(p, r)
  \/ \E w \in Trees : Removes(p, w)

Archives(p) == Works(p) \/ OperatorDies(p) \/ \E w \in Trees : RemovalFails(p, w)

RunMoves(r) ==
  \/ Creates(r) \/ (\E w \in Trees : AddsTree(r, w)) \/ StartsAgent(r) \/ RecordsIdentity(r)
  \/ Launches(r) \/ LaunchFails(r) \/ LauncherDies(r)
  \/ Prompts(r) \/ Settles(r) \/ GoesStale(r) \/ WorkerEnds(r)
  \/ Resumes(r) \/ ResumeRecorded(r) \/ LockMoves(r)

Next ==
  \/ \E p \in Operators : Archives(p)
  \/ \E r \in Runs : RunMoves(r)
  \/ \E w \in Trees : Commits(w) \/ Changes(w) \/ ChecksOut(w) \/ Ignores(w)

Spec == Init /\ [][Next]_vars

\* As long as anybody is archiving, somebody goes on; every run that can be is
\* previewed again and again, and somebody does not think better of it for ever.
FairSpec ==
  /\ Spec
  /\ WF_parts(\E p \in Operators : Works(p))
  /\ \A r \in Runs :
       /\ SF_parts(\E p \in Operators : Previews(p, r))
       /\ SF_parts(\E p \in Operators : Gates(p) /\ op[p].run = r)

-----------------------------------------------------------------------------
(* What archiving must never do                                             *)

Gone(w) == tree[w].present /\ ~tree'[w].present

\* Uncommitted work is never deleted, whatever moves while worktrees are being
\* removed: git is not forced.
UncommittedSurvives == [][\A w \in Trees : Gone(w) => tree[w].status # "dirty"]_vars

\* "nothing that exists only inside a worktree is ever destroyed without an
\* explicit, digest-bound approval that named it" (commands.js:3095), and
\* "archiving a run never destroys a commit" (commands.js:3120): no stray commit
\* goes away, and of what git ignores only what was approved.
Approved(w) ==
  /\ ~tree[w].stray
  /\ \E p \in Operators :
       /\ op[p].step = "removing" /\ w \in op[p].todo
       /\ op[p].approval.trees[w].ignored = tree[w].ignored

DestroysOnlyWhatWasApproved == [][\A w \in Trees : Gone(w) => Approved(w)]_vars

\* "a run still being worked on cannot be archived by any combination of flags",
\* through another run neither (commands.js:3352): no worktree is taken from
\* an agent that is at work in it.  It is of one whose pane is not recorded.
SparesWorkers ==
  [][\A w \in Trees, r \in Runs : (Gone(w) /\ w \in Records[r]) => ~worker[r]]_vars

\* A run is only marked when nothing is left of it: a worktree that is there
\* is one that a run records which is not archived.
ArchivedIsGone ==
  \A w \in Trees, r \in Runs :
    ("window" \notin faults /\ run[r].archived /\ w \in Records[r] /\ tree[w].present)
      => \E q \in Runs : w \in Records[q] /\ ~run[q].archived /\ run[q].state # "unborn"

\* From some time on only operators move, who are neither killed nor refused by git.
Quiet == <>[][\E p \in Operators : Works(p)]_vars

Archivable(r) ==
  /\ run[r].state = "finished" /\ ~worker[r] /\ lock[r] = "free"
  /\ \A w \in Records[r] : tree[w].present => (tree[w].status = "clean" /\ ~tree[w].stray)
  /\ \A q \in Runs : Records[q] \cap Records[r] # {} => run[q].state \notin LiveStates

\* "Re-running after a partial archive [...] a way to finish" (commands.js:3812):
\* whatever removals failed and whoever was killed half-way, a run that can be
\* archived is archived in the end.
ArchiveFinishes == Quiet => \A r \in Runs : <>[]Archivable(r) => <>(run[r].archived)

-----------------------------------------------------------------------------
(* The properties that a run checks, grouped by what they are about        *)

\* The claims of runs on a worktree: of those that record it and are not
\* archived, whichever are launched, resumed and archived, none is in a live state.
Unclaimed(w) ==
  \A r \in Runs : w \in Records[r] /\ ~run[r].archived => run[r].state \notin LiveStates

\* Nor is the run at work, as far as its record tells, for which it is removed.
ForRunsAtRest(w) ==
  \A p \in Operators : op[p].step = "removing" /\ w \in op[p].todo => AtRest(op[p].run)

\* Removing a worktree destroys no uncommitted work, whatever else goes on; and,
\* unless the world moves between the checks of an execution and its removals,
\* nothing but what was approved by name, and nothing of a run in a live state or
\* with an agent on a pane that it names.
RemovalsAreSafe ==
  /\ UncommittedSurvives
  /\ [][\A w \in Trees : Gone(w) /\ "window" \notin faults
            => Approved(w) /\ Unclaimed(w) /\ ForRunsAtRest(w)]_vars

\* The records of archived runs: of the right shape, and true.
MarksAreTrue == TypeOK /\ ArchivedIsGone
=============================================================================
