# Workflow control plane: TLA+ models and proofs

This directory verifies the core of the workflow control plane: a command line
and a set of hooks that launch AI workers into git worktrees and keep one
record, `run.json`, per launched worker. There is no server. Every command,
every lifecycle hook and every watcher is a short-lived process of its own, and
they meet only in the file system. The models are about that meeting.

Paths below are relative to the repository; `src/workflow/` is abbreviated to
`w/`.

## 1. The system

| Part | State it keeps | Operations | Hard part |
| --- | --- | --- | --- |
| Run store (`w/run-store.js`) | `run.json`, `events.jsonl`, private files, `run.lock/active` | create, read, update, appendEvent, writePrivateFile, inspectLock, removeLock | separate processes; crash with the lock held; late release |
| Mutex recovery (`w/mutex-removal.js`, `w/ownership.js`, `unlock`, `delegation gate-clear`) | none | inspect, prove the owner dead, recheck, delete | checks and deletions are separate calls; several operators |
| Run states (`w/run-state.js`) | `state` of a run | transition | no state is final: everything may go back to running |
| Launcher (`w/launch.js`) | launch fields of the run | create, LAUNCHING, start, identity, outcome | the worker it starts races it |
| Lifecycle hooks (`hooks/`, `w/lifecycle.js`, `.pi/extensions/workflow-worker-lifecycle.ts`) | generation, stop attempts, two markers | UserPromptSubmit, Stop, SessionEnd | unlocked reads; swallowed failures; harnesses differ |
| Handoff and result (`w/handoff.js`) | `result.json`, its registration in the run | submit, read, mark stale | two files, three reads, no common lock |
| Resume and close (`w/resume.js`, `w/close.js`, `relaunchSession`) | resume claim, transport identity | plan, claim, relaunch, restore, persist | two operators; failure after the effect |
| Reservation store (`w/delegation-reservations.js`) | lease files, project gate | reserve, release, releaseForDelegation, clearGate | count-then-write; fixed marker name |
| Delegation lifecycle (`w/delegation-store.js`, `w/delegation-services.js`, `w/delegation-handoff.js`) | delegation records in the run | start, result, remediation, follow-up, release | records and leases change in two steps |
| Delegation transport (`w/pi-delegation-transport.js`, child extension) | child processes | start, observe, deliver, close | spawned but unverified children |
| Watchers (`w/worker-watcher.js`, `w/delegation-watcher.js`, `w/events-bus.js`, coordinator extension) | cursors, pending notices | poll, deliver, consume | at-least-once, deduplication per generation |
| Start (`w/planner.js`, `w/reconcile.js`, `w/execute.js`) | worktrees, tabs, panes | plan, reconcile, execute | partial start and retry |
| Merge and archive (`w/commands.js`, `w/git.js`) | branches, worktrees, archivedAt | preview, digest, execute | preview is stale when executed |
| Verify and critic (`w/verify-runner.js`, `w/post-verify-critic.js`) | evidence events | run, time out, kill | process groups, stale evidence |
| Supervisor, telemetry | telemetry snapshots | phases, compare and replace | late writes |
| Herdr adapter, registry, harness specs, formatting, Asana client | none between calls | | external calls and pure functions |

Interactions: the launcher creates the run, starts an agent through Herdr, and
from then on the agent's hooks, its `workflow handoff` commands, operators'
`result`, `resume` and `unlock` commands and the watchers all update the same
run through the run store. Delegations use the run store for their records and
the reservation store for their capacity.

Launches and delegations can be asked for by the Pi coordinator, whose tools
preview them and have the user approve a digest. The commands that change
repositories (`start`, `runtime`, `verify`, `merge`, `archive`) run git and Herdr
through the process runners, preview what they will do, and compare the digest
of the preview with the approved one before they do it.

What makes each part correct:

* run store: one writer at a time; no committed update lost; a crash leaves
  residue that an operator can remove, and nobody can remove anything else;
* reservation store: capacity never exceeded; a live gate owner undisturbed;
* launcher and hooks: a generation per operator prompt; at most two requests
  for a handoff in a generation; a finished run stays finished until prompted;
  turns end;
* handoff: a completed run has a completed result of its own generation; what a
  reader reports was current; what it marks stale was stale;
* resume: one worker per worktree; a failed relaunch costs nothing;
* delegations: one live child each; a lease over every child at work; a result
  is that of the child of its generation; leftover leases can be freed;
* watchers: what happens is told, once, and is not taken before it was shown;
* approvals: what was approved once is started once, in its own session;
* start: one agent, at its own worktree; a rerun completes what failed;
* archive: nothing is destroyed but what was approved by name;
* merge: the report says what happened, the evidence is of the commits it is
  shown for, and a rerun completes what stopped;
* runners: a result is complete; an interrupt leaves nothing behind; everything
  ends.

## 2. Modules

| Module | What it models |
| --- | --- |
| `OwnedMutex` | The `active` directory, and `removeOwnedMutex`: one action per file-system step, for any number of operators. |
| `AtomicUpdates` | Abstract: what the run store promises. An update is one step. |
| `RunLock` | `acquireLock`, the callback of `withLock`, `releaseLock`, the cleanup, crashes and failing calls; instantiates `OwnedMutex`. |
| `RunLock_proofs` | The theorems about `RunLock`. |
| `LeaseTable` | Abstract: what the reservation store promises. A grant checks and takes capacity in one step. |
| `ReservationGate` | The project gate and the three operations under it; instantiates `OwnedMutex` with the one marker name the gate has. |
| `ReservationGate_proofs` | The theorems about `ReservationGate`, under one gate-clear at a time. |
| `RunState` | The transition table and the guards derived from it. |
| `WorkerLifecycle` | The launcher and the hooks. Extends `RunState`. |
| `Handoff` | `submitHandoff` and `readCurrentResult` beside the launcher and the hooks. Extends `WorkerLifecycle`. |
| `Resume` | `executeResume` and `relaunchSession` beside the launcher and the hooks. Extends `WorkerLifecycle`. |
| `Worker_proofs` | The theorems about `Handoff` and `Resume`, and the lemmas on the launcher and the hooks that both rest on. |
| `Delegation` | Starts, remediations, handoffs and releases of the delegations of one checkout, with their children, over an instance of `LeaseTable`. |
| `Delegation_proofs` | The theorems about `Delegation`. |
| `WorkerWatcher` | The notifier, the event bus and the watcher of workers. Extends `RunState`. |
| `DelegationWatcher` | The watcher of delegations against adoption and remediation. |
| `Approval` | The preview, approval and execution tools of the Pi coordinator. |
| `Coordinator` | The sum of the three: what the Pi coordinator runs in its process. |
| `Coordinator_proofs` | The theorems about `Coordinator`. |
| `Start` | `workflow start` and `workflow runtime`: reconcile, then call by call. |
| `Merge` | `workflow verify`, its evidence and critic, and `workflow merge`. |
| `Merge_proofs` | The theorems about `Merge`. |
| `Archive` | `workflow archive` beside launchers, workers, resumes and other archives. |
| `Archive_proofs` | The theorems about `Archive`. |
| `ProcessGroup` | A command's process group: the child and what it leaves in the background. |
| `Runner` | The runner of git and Herdr commands (`w/process.js`). Extends `ProcessGroup`. |
| `VerifyRunner` | The runner of a project's checks (`w/verify-runner.js`). Extends `ProcessGroup`. |
| `Runners` | The sum of the two runners. |
| `Commands_proofs` | The theorems about `Runners` and `Start`. |
| `MC*` | Instances for TLC. |

The modules are in two layers. `RunLock` models an update of the run as the
dozen file-system calls it is, over an opaque record, and shows that it
implements `AtomicUpdates`. `WorkerLifecycle` and the modules above it take
that result as given: each locked update of `run.json` is one action, whose
guard and effect are those of the code's updater. Reads are never locked in the
code (`store.read`), so each is an action of its own, and what a process does
with what it read comes later.

`Delegation` is in the upper layer, too, and takes both stores as given: the
record of a delegation is updated in one step, and so are the leases, as
`LeaseTable` says and `ReservationGate` implements. The models of commands
(`Start`, `Merge`, `Archive`) are beside these layers: their state is that of git
and Herdr, and each call of a program is one action.

There is one exception to the atomic update of a run: `submitHandoff` writes
`result.json` inside its updater, before the store renames `run.json`. Readers can see the state between, and a
crash can leave it. So a submission holds `writer` across two actions, and
every other locked update requires `Unlocked`.

### How state and actions correspond to the code

* `OwnedMutex`: `dir` is the directory `run.lock/active` or `gate/active` with
  its inode and its entries; inodes are reused, because the code's identity
  checks (`sameOwnerDirectory`) must not depend on fresh ones. `dead` holds the
  processes that have exited. `Provable` holds the processes whose start time
  could be read (`readOwnOwnership`); the markers of the others carry no proof.
  `removal` is the local state of one `unlock` or `gate-clear`. `RemovalRefuse`
  stands for all ways a removal ends early: a check that refuses, a failing
  call, a killed process.
* `RunLock`: `pc` names the next file-system call. `record` stands for
  `run.json` by the set of updates it reflects; `snap` is what a callback has
  read. `appendEvent`, `writeAssignment` and `writePrivateFile` run under the
  same lock with a callback of the same shape. Whether a contender retries or
  gives up (stale lock, spent budget) is `GiveUp` or another attempt; the clock
  is not modelled. `Abandon` is a call failing where the code cleans nothing up.
* `ReservationGate`: differs from the run lock as the code does. The marker is
  written to a temporary file inside the gate directory and renamed (so the
  directory holds a foreign entry for a moment), its name is fixed, a failed
  acquisition is not cleaned up, and the release compares the marker's token,
  not the directory. `release` and `releaseForDelegation` rewrite one lease file
  at a time.
* `WorkerLifecycle`: `run` carries the fields the lifecycle decides on
  (`state`, `generation`, `stopAttempts`, the started marker, the pending
  marker, `transportIdentity`). `at[s]` is what session `s` is doing: nothing,
  idle at its prompt, in a turn, or waiting for a hook, in which case it is the
  hook's next step. `seen[s]` is what the hook has read. A hook fails silently
  (`PromptMarkDropped`, `StopMarkDropped`, `HookFails`) where `Contention` is
  TRUE. `asked` is a history variable: how often the hooks have asked for a
  handoff in the current generation. `LauncherDies` can strike at any step.
* `Handoff`: a worktree is its version, so a fingerprint is a version and an
  edit a new one; equal contents have equal digests, so a result is its own
  digest. `reopened` and the field `fresh` of a reading are history variables.
* `Resume`: `claim` is `resumeClaim` and whether it is still within its ten
  minutes. `resume[o]` is one run of `workflow resume --yes`. A session's
  identity is the session; `First` is the launched one.

* `Delegation`: a launch (the start of a delegation, or one remediation) has at
  most one lease, one claim token and one child, so the launch stands for all
  three. `launch[l].step` is the next thing its command does; `child[l]` is
  the process it spawned. `Prepare`, `ClaimStart`, `Reserve`, `Spawn`,
  `RecordIdentity` are the start; `Begin` ... `Complete` a remediation, with
  `Rollback`, `MarkManual` and `ReleaseAfterFailure` for its failures; `HandIn`
  ... `ReleaseAfterResult` a handoff command. Texts, roles and budgets are left out.
* `WorkerWatcher`: `notes` are the notifications that hooks and handoff commands
  have yet to append, `bus` the lines of `events.jsonl`, `tail` a line that is
  there in part, `watch` the cursor, the queue of the poll and the pending
  events. Fields `of` and `settled` of an event are history: the generation it
  was posted for, which its line may not say.
* `DelegationWatcher`: `watch.list` is the unlocked listing, `cache` what the
  process remembers to have shown, `shown` a history of it.
* `Approval`: `approved`, `mutations` and `consumed` are the three tables of the
  extension and of the service; `world` stands for all that a preview shows.
* `Start`: `tab` and `pane` are Herdr's; `caller[c].plan` is the plan as it was
  reconciled before the first change, `step` the next call.
* `Merge`: commits of a branch are numbered, and merging one brings in those
  before it. `wip` is uncommitted work in a worktree: the checks run on it
  (`seen` is commit and work), git does not merge it. An event keeps `seen`, the
  last commits when it was written (`at`), and the last ones whose date is not
  after its own (`dated`), because git dates commits in whole seconds and the
  event is dated in milliseconds. `got` in an entry of a report is the commit
  that git did bring in, which nobody is told. Between the approval and the first
  read of the second preview the world moves in every case, and under a preview,
  a merge or a check in the cases `"moves"`, `"amid"` and `"verifying"`.
* `Archive`: a worktree is what the checks look at (present, clean or not,
  detached, with stray commits or not) and what only the digest binds (commits,
  ignored files). `op[p]` is one `workflow archive`, from the approved digest on.
  `launch[r]` is how far the launcher of a run has come: it creates the run, adds
  its worktrees, starts the agent, records who that is, and only then the
  outcome; it can fail or die in between. A pane of a run is its latest agent's,
  an earlier one's or none. So a run can be finished with an agent at work that
  its record does not name, and the agent's prompt makes it live again.
* `Runner`, `VerifyRunner`: Node's events and timers are actions; a child's exit
  is seen later than it happens. `rest` is the one kind of background process a
  command has left: with the pipes or without, deaf to signals, out of the group.

`FaultCases` occurs in most of the later modules. Each behaviour draws one of its
members, a set of things that may go wrong (`AllFaults` lists them with their
meaning), and keeps it. So one run checks several combinations of faults, and a
property can name those it does not survive: `faults \cap {...} = {}` in a
property is a statement about the code, and section 5 says what happens in the
excluded case.

## 3. Runs

Every bound is a CONSTANT named in the module; see the `.cfg` files. A run checks
named groups of properties (`LeasesCoverWork == LeaseCoversLiveChild /\
WritersWithinPolicy`); their parts are defined, and explained, above them.

| Run | Instance | What it shows |
| --- | --- | --- |
| `runlock` | 2 processes (one unprovable), 2 unlocks, 2 inodes, 1 acquisition each, fairness | mutual exclusion, no disturbed holder, no unproven removal, atomic updates; provable residue goes away, unless an unlock is cut short between its two deletions |
| `gate_oneclear` | 2 processes, 2 acquisitions each, 1 gate-clear, 1 inode, 2 delegations, capacities 2 and 1 | no over-commitment, refinement of `LeaseTable` |
| `gate_twoclears` | the same with 2 gate-clears | **violation**, see 5 |
| `handoff_results` | 1 session, 1 handoff command, 1 reader, 2 generations, 1 edit, fairness | what is registered, reported and marked stale; follow-ups open generations; turns end |
| `handoff_hooks` | 2 handoff commands, all 4 statuses, every hook update refusable | stop budget; one handoff per prompt; who reopens a finished run |
| `resume_safe` | 3 sessions, 3 resumes, 3 generations | one worker; generations, budget and rollback of a relaunch |
| `delegation` | 2 delegations, 2 remediations, 2 handoffs, 1 releasing operator, capacity 1, 1 turn, 3 fault cases, fairness | children, results and leases; leftover leases |
| `coordinator` | a sum: 1 run with 2 generations and 2 notifications; 2 delegations with an adopter; 3 tool calls over 2 worlds and 2 sessions; 7 fault cases, fairness | nothing told twice, nothing lost, everything told, one start per approval |
| `archive` | 2 runs of one worktree, one of them launched later, 2 operators, 5 fault cases, fairness | what removals may destroy, which runs they spare, and that they finish |
| `start` | a root and 2 children, 2 processes, 2 callers, 5 tabs, 10 panes, 3 faults, 4 fault cases, fairness | one agent at its worktree, a group that can be reconciled, reruns that converge or are at a dead end that has a name |
| `merge` | 2 repositories (one a clone, with a conflict), 2 operators, 2 commits, 2 verifications, 1 fault, 8 fault cases, fairness | true reports, evidence that is current, reruns that finish |
| `runner` | a sum: 2 callers of one run or 1 of two; a sweep of 2 checks; every kind of background process, 2 interrupts, fairness | complete results, nothing left behind, everything ends |

Sums. `Coordinator` puts three modules side by side, and `Runners` two. The
parts share no variable and no code path, so a behaviour of the sum is one of a
single part (variables `part` and `schedule`), and the others stay in their
initial states; each property of a part holds in the sum if and only if it holds
in the part.

Why the bounds suffice. The races of a mutex with removal need a dead owner, a
live successor and a remover with stale knowledge; with two removers and two
inodes every identity check can pass and fail. (The proofs about the run lock in
section 4 are for any number of them.) Two acquisitions per process at the gate let a process
meet its own earlier lease. Two generations give every hook, command and reader a
stale one. Three resumes are a winner, a loser and one after the claim has
expired, with the sessions they may start. Two delegations compete for the one
lease of the checkout, while two remediations and two handoffs compete for one
delegation. Two repositories are one that is merged when the other fails;
a third fault in `start` can hit the rerun of a rerun, and 10 panes are room for
every pane that a lost call leaves behind. In `archive` two
operators archive the two runs that record the same worktree; that one worktree
of a run is removed and another is kept is covered by `MarksHold` (section 4)
only. In `merge` a branch has one commit when it is approved and another that
may come at any time, and a second verification follows the first. `MaxGeneration` stops prompts and
claims, not hooks, so nothing is cut off in the middle.

`CHECK_DEADLOCK FALSE` is stated where a system may properly stop: `Handoff` and
`Resume` when every session is gone, every command done and the launcher
finished; `Delegation` when the last command is done; the coordinator when nobody
has anything more to say; `Archive` when everything is archived; `Start` when the group is up and the faults are spent;
the runners when the process has ended. The other runs check deadlock.

Fairness is weak for what a process does by itself, and strong only where others
may interrupt it again and again but the code, or an operator, keeps trying:

* `runlock`: running processes take their steps, and one operator (`Diligent`)
  who finds a run wedged runs `unlock` again; no one call fails for him for ever.
  The other operator owes nothing. If an unlock is killed, or its rmdir fails,
  after the unlink, an empty directory is left, which no unlock accepts
  (`CutShort`, section 6); the property ends there.
* `handoff_results`: harnesses run their hooks to the end, a turn of the model
  ends by itself, and a handoff command which holds the lock registers its result
  or dies. Nobody needs to prompt, submit or edit. Updates are not refused here:
  with a dropped marker each time, a continuation is taken for a follow-up and
  the budget starts again, so a worker whose every marker write is refused is
  asked for ever; the code accepts that (it logs the dropped marker).
* `delegation`: an operator frees a lease that `delegation release` may free,
  and the release does not fail for ever. No launch, child or handoff is fair.
* `coordinator`: the timers poll; neither the session nor the store refuses for
  ever. What hooks post and tool calls do is not fair.
* `archive`, `start`, `merge`: a command that was begun goes on, and commands are
  run again; in `merge` somebody, no one in particular, goes on, approves again,
  clears away what is in the way and fetches. In `archive`
  nothing is asked of any one operator, only that somebody goes on. The
  properties are claimed for behaviours in which the world comes to rest
  (`Quiet`) or is of a case in which it does not interfere.
* `runner`: Node runs its handlers and timers, and a process that heeds a signal
  ends.

## 4. Proofs

TLC's runs are of small instances; the theorems are of every value of the
constants that satisfies the assumptions named below. The argument of each is an
inductive invariant, which TLC checked on small instances first. Every safety
property of a passing run has its theorem (`theorems` in `PROJECT.json` says
which); what a theorem assumes beyond the module's constants is part of its
statement.

`RunLock_proofs` proves for all values of the constants, from `ConstantsOK`
(the markers and identities are distinct from `None`/`NoDir`, and `Provable` is
a set of processes):

| Theorem | Statement |
| --- | --- |
| `TypeCorrect` | `Spec => []TypeOK` |
| `Invariance` | `Spec => []IInv` |
| `MutualExclusion` | `Spec => []OneCallback` |
| `LiveHolder` | `Spec => HolderUndisturbed` |
| `ProvenRemoval` | `Spec => RemovalNeedsProof` |
| `Refinement` | `Spec => UpdatesAreAtomic` |

`OneCallback` is not inductive. What keeps two processes apart is the directory,
and what keeps the directory is that nobody deletes it under a holder. So the
invariant says (`HoldersInv`) that a process between its mkdir and its rmdir is
alive, the only one, that the directory is the one it made, and which entries
are in it; (`EntriesInv`) that there is at most one marker, named by its token;
(`RemovalsInv`) that a removal past its authorisation holds the token of a dead
process, so that the marker it goes on to delete cannot be a live holder's,
names being unique, and that past its unlink the directory is empty, without a
holder, and its alone; (`RecordInv`) that the callback's snapshot is current.
The lemma `QuietRemoval` says once what the checking steps of a removal leave
alone. `LiveHolder` and `ProvenRemoval` are action properties that follow from
the invariant step by step; `Refinement` maps every step to a commit or to a
stutter: `WriteCommits` shows that the write under the lock is the commit, its
snapshot being current, and `OthersWriteNothing` that no other step touches the
record.

`ReservationGate_proofs` proves for any processes, delegations, policies and
inodes, from `ConstantsOK` and the assumption `OneRemover` (one gate-clear runs
at a time):

| Theorem | Statement |
| --- | --- |
| `Invariance` | `OneRemover => (Spec => []IInv)` |
| `LeasesSound` | `OneRemover => (Spec => []LeasesAreSound)` |
| `Refinement` | `OneRemover => (Spec => GateImplementsTable)` |

The mutex part is that of the run lock, but for `RemovalsInv`. The name of the
marker is fixed, so the text that a removal has read does not say which file its
unlink will hit; that the entry is still the dead owner's holds only because
nobody else removes it in the meantime. With two removers this part is false and
so are the theorems (section 5). Above it is `LeasesInv`: a process that has
listed the leases and holds the gate has counted all of them (`seen[p] =
leases`), and the identity that it would grant is new. So a grant adds one lease
to a count that was below the capacity, which keeps `NeverOverCommitted`, and is
a grant of `LeaseTable`; all other steps are releases or stutters of it.

`Worker_proofs` proves about `Handoff`, for any number of submitters, readers,
generations and edits, from `LifecycleConstants`, `HandoffConstants` and `NoResult`
(`None` is no session, submitter or result; the bounds are positive naturals):

| Theorem | Statement |
| --- | --- |
| `TypeCorrect` | `Spec => []TypeOK` |
| `CompletionIsHandedIn` | `Spec => []CompletedHasResult` |
| `CurrentWhenReported` | `Spec => []ReportsAreCurrent` |
| `StopsAreBounded` | `Spec => []StopBudget` |
| `HandoffsNeedPrompts` | `Spec => OneHandoffPerPrompt` |
| `FinishingHolds` | `Spec => FinishedRunReopensOnPrompt` |
| `MarksAreDue` | `Spec => StaleMarksAreDue` |
| `FollowUpsOpen` | `MarksArrive => (Spec => FollowUpOpensGeneration)` |

The properties are about what several processes read at different times, so
the invariant `IInv` says what each of them may still rely on. `WriterHolds`: a
submission between its two writes is the one inside the updater, and the run
still accepts its generation; hence a registration never hits a finished run.
`StopTrusts`: a Stop hook that has found a handoff is about to update a run that
is completed or stale, because only a prompt of the same session could reopen
it (`OneSession`); hence `onStop` completes no run that is not complete.
`AskedIsCounted`: every continuation asked for is on the record before it is
asked. `ClosedUntilPrompted`: after a handoff the run stays closed.
`ResultsArePast` and `ReadingIsSound`: a result that could be reported either
was fresh when `run.json` was read or is of an earlier worktree, and worktrees do
not come back (each edit makes a new version). `LauncherMoves` and `SessionMoves`
bound what the launcher and the hooks can do to the record, so that the other
lemmas need not look into them. `IInv` was first checked by TLC on the instance
of `handoff_results`, on one with contention and on one with two readers. The
second of the two exceptions in `StaleMarksAreDue` takes two readers, and was
found by the proof, not by the one-reader run.

`FollowUpsOpen` has an invariant of its own, `PromptInv`, and the hypothesis
`MarksArrive == ~Contention /\ ContinuationPrompts`: where a mark may be refused, or
a continuation fires no UserPromptSubmit, the property is false (section 5). The
pending marker is set exactly from the Stop hook's answer to the hook of the
prompt that this answer fires, so an operator's prompt never finds it; and who has
prompted once has left the started marker behind. Both are kept although a handoff
may register, or a reader mark a result stale, between the hook's reads and its
update.

About `Resume` it proves, for any number of sessions, resumes and generations, from
`LifecycleConstants`, `ResumeConstants` and the hypothesis `PromptRelaunches`
(`~FocusFails /\ ~Killed /\ ~Slow`, see sections 5 and 6 for what happens without it):

| Theorem | Statement |
| --- | --- |
| `ResumeInvariance` | `PromptRelaunches => (ResumeSpec => []ResumeInv)` |
| `OneWorkerOnly` | `PromptRelaunches => (ResumeSpec => []OneWorkerAtATime)` |
| `WorkerInvariance` | `PromptRelaunches => (ResumeSpec => [](ResumeInv /\ WorkerInv))` |
| `OneGeneration` | `PromptRelaunches => (ResumeSpec => OneGenerationPerRelaunch)` |
| `ManualWhenAsked` | `PromptRelaunches /\ ~Contention => (ResumeSpec => ManualOnlyWhenAsked)` |

Two sessions could be alive if two resumes relaunched together, or if one
replaced a session that is not over. `ClaimInv`: whoever is between its claim and
its last update is the only one, and the claim is fresh. `IdentityInv`: a resume
that has planned observed the end of the session it read, sessions do not
come back (`SessionsEnd`), and the claim compares the recorded identity with that
one; so while a resume relaunches, the recorded session is over. `LaunchInv`:
there is nothing to resume before the launcher has recorded its session.
`AliveInv` then says that whoever is alive is recorded, or is the one session
that the one relaunching resume is about to record. The hooks and the launcher
enter by lemmas that the proofs about `Handoff` use as well.

That a relaunch opens one generation is about a record which the claim, the hooks
of the new worker and the rollback of a failed relaunch write. The second invariant,
`WorkerInv`, builds on the first. `OpenedInv`: until its agent is started the
relaunching resume finds the record as its claim left it, so that what it restores
is what it has changed. `UnbegunInv`: a worker that has not prompted is the first to
do so in the generation that was opened for it. `CountedInv`: without contention,
the attempts on the record are the continuations that were asked for, across
relaunches, so a run is given up only when the budget was really spent.

`Archive_proofs` proves for any runs, worktrees, records of worktrees, operators
and fault cases, from `ArchiveConstants`:

| Theorem | Statement |
| --- | --- |
| `Invariance` | `Spec => []IInv` |
| `MarksHold` | `Spec => []MarksAreTrue` |
| `RemovalsSafe` | `Spec => RemovalsAreSafe` |

`executeArchive` checks everything once and then removes worktree after worktree.
So the invariant carries the checks along: `ChecksHold` says of every worktree
still to be removed that it is as approved and that no run which records it, and is
not archived, is in a live state; `StaysAtRest` that the archived run is still finished,
with no agent on a pane that it names; `RemovedStays` that what was removed, by this
operator or by another one, has not come back. All three are about behaviours without
`"window"`, in which the world stands still during removals while operators still
overlap. They rest on nothing that the launchers do in one step:
`LaunchersInv` says only that a run which is not created has no launcher and no
agent, and that one whose launcher has yet to start its agent is launching and has
neither agent nor pane. A launcher whose state is still to be written, an agent
that is not recorded, and a late prompt or handoff are all covered by `RunSteps`.
Accordingly the theorem claims nothing of agents whose pane no record names
(section 5, `SparesWorkers`).

`Delegation_proofs` proves for any number of delegations, remediations, handoff
commands and operators, any policy, any number of turns and any faults, from
`DelegationConstants` and `NoneIsNoRecord`:

| Theorem | Statement |
| --- | --- |
| `Invariance` | `Spec => []IInv` |
| `ChildrenCounted` | `Spec => []ChildrenAreCounted` |
| `ResultsStandAlways` | `Spec => ResultsStand` |
| `CalmInvariance` | `Spec => [](Calm => CalmInv)` |
| `LeasesCover` | `Spec => []LeasesCoverWork` |

A second child could live if a remediation went by an observation that is out of
date: it observes the recorded child without the lock, and others may claim,
spawn and record in between. The observation cannot be undone, because a process
that is gone stays gone; and the claim compares the generation under the lock.
`RemediationInv` says so: from its observation on, the child of the generation it
read is gone, and from its claim to its end the claim is its own. `ChildInv`
places every child that was ever spawned: it is the recorded one, or gone and of
an earlier generation, or about to be recorded by the start or by the holder of
the claim. While a claim is open the recorded child is gone (`RecordInv`), so no
two of the live ones exist (`OneLives`). `GenerationsInv`, which needs `ChildInv`
for a spawn, numbers the children of a delegation without repetition; the
follow-ups have numbers from 2 to `Turns + 1` (`FollowUpsCounted`), although
the turn is counted only after the spawn and a launch may die between the two.
For results, `ResultRecorded` shows that the guards of `recordResult` leave only
the recorded child: an earlier one has a lower generation, and a child that is
not yet recorded meets a delegation without identity or one that does not run.

`CalmInvariance` and `LeasesCover` are about the leases, which four commands free.
`CalmInv` holds, over `IInv`, where launches follow one another, no handoff command
outlives its child and no operator interferes (`Calm`, the cases the property
names). `LeaseInv` lists the steps at which a launch has its lease, from the
reservation to its last update; a launch in the hands of its command is of the
child that is recorded (`CurrentInv`), and a handoff command that is about to free
leases has recorded the result of its own child (`HandsInInv`). So each release is
of a delegation whose child has nothing left to do. That no more children work than
the policy admits (`WritersWithinPolicy`) is then counting: each has a lease of its
own, and the table never holds more than its capacity, which is proved of every
behaviour (`LeasesCounted`).

`Coordinator_proofs` proves for any runs, delegations, adopters, tool calls, previews,
sessions and fault cases, from `WatcherConstants`, `NoneIsNoLine` and
`CoordinatorConstants`:

| Theorem | Statement |
| --- | --- |
| `Invariance` | `SumSpec => []SumInv` |
| `ToldOnlyOnce` | `SumSpec => []NothingTwice` |
| `NoneForgotten` | `SumSpec => []NothingLost` |
| `TakenByOne` | `SumSpec => TakenOnce` |
| `ApprovedOnce` | `SumSpec => []ApprovalsAreSpent` |

Each part has its invariant. The watcher of workers (`WorkersInv`) remembers the keys
of exactly what it has told (`WatchInv`), and its cursor is behind whatever it has
neither told nor in hand, whether a delivery fails, a line is there in part or the
process starts again. The watcher of delegations (`ResultsInv`) goes by a listing that
may be out of date: what it delivered it remembers (`CacheInv`), a delegation in hand
is on the list and has not been seen (`HandInv`), and as long as there is no
remediation the list names the generation that is still the recorded one, so what
is consumed was shown (`RecordsInv`). An approval of a launch is taken from the table
before it is used, so `LaunchesInv` counts: starts, calls that have taken the approval,
and the offer in the table are together at most the approvals that were given. A
delegation's approval stays in the table until it has been executed; that it is not
used twice rests on the consumed digests and on executions which do not overlap
(`DelegationsInv`), the case the property names.

`Merge_proofs` proves for any repositories in any order, operators, pieces of evidence
and faults, from `MergeConstants`, `OrderNamesOnce` (a run names each repository
once, `w/planner.js:217`) and `NoneIsNothingElse`:

| Theorem | Statement |
| --- | --- |
| `Invariance` | `Spec => []IInv` |
| `TrueReports` | `Spec => []ReportsAreTrue` |
| `CurrentEvidence` | `Spec => []EvidenceIsCurrent` |

The properties say what holds in every behaviour, and what only where branches stand
still under a command (`Still`), no checkout is switched under it (`Settled`), or nobody
else is at a base (`Alone`); the invariant has the same cases. `Previewed` says
that the branch still has the commit that was previewed, and ends in it if `Still`,
`Approved` that what is merged is what was approved, `OnBase` that it is merged into
the base branch, `Brought` that what an entry reports is in there for good, or
something later; `Undisturbed` that an execution which is alone
finds every head as it was previewed, but for the one that it has just merged into;
from that it follows that what it judges by the moved head (`Confirmed`) is what git
did. Where merges do not overlap there is one execution (`OneByOne`), and
only the user leaves the base branch (`HomeBases`). For the evidence, worktrees may change
at any time: `EvidenceInv` says how what the checks ran on, what was there when the event
was written, and what its date covers are related, and by which faults they
come apart; `VerifierInv` says the same of checks under way, `CriticInv` of what the critic was
given; and `Dated` that an approval under evidence which is not stale is of no commit
later than the event.

`Commands_proofs` proves about the two runners, for any callers, runs, checks, limits,
interrupts and background processes, from `RunnerConstants`, `NoneIsNoOutcome` and
`RunnersConstants`:

| Theorem | Statement |
| --- | --- |
| `Invariance` | `SumSpec => []SumInv` |
| `CompleteResults` | `SumSpec => []ResultsAreComplete` |
| `InterruptedCleanly` | `SumSpec => []NothingLeftBehind` |
| `NoneHandedBack` | `SumSpec => WaitersStay` |

That an interrupt leaves nothing behind rests on the trap: it is set exactly as long
as there is a live child to pass the signal to (`TrapWhileLive`, `TrapWhileChecking`),
although runs settle, start and escalate in any order. A run that is killed or drained
is late (`RunsInv`), so none that ends that way is taken for a success.

About `workflow start` and `workflow runtime` it proves, for any children, processes,
operators and faults, and any bound of tabs, panes and faults, from `StartConstants`,
`ProcessesNamedOnce` (a profile names each process once, `w/registry.js:219`) and
`NamesApart`:

| Theorem | Statement |
| --- | --- |
| `StartInvariance` | `StartSpec => []GroupInv` |
| `OneAgentStays` | `StartSpec => []OneAgentAtHome` |
| `GroupStays` | `StartSpec => []GroupIsReconcilable` |

A command reconciles its plan once and then makes call after call, while other
commands, the user and failures go on. So `GroupInv` has a part about the world
(`WorldInv`) and one about what each command may still rely on (`CallerInv`), by the
cases that the faults of a behaviour leave. As long as nobody closes tabs, the first tab
is never a child's and the agent's tab comes before those of the children and before
the agent (`HomeInv`), so whatever tab a start takes for the agent's is at the root (`CallerAtHome`). As long
as commands do not overlap, a label that the plan did not find is still on no tab, and
an agent that it did not see is not there (`PlannedInv`). Where starts do overlap,
there is one agent nevertheless, because without a runtime the root has one tab and
this tab one pane (`OneTabInv`), and the second agent is refused a pane that is busy.
In the tab of the processes, each is once and under a name (`OneOfEach`), and those that
are yet to be started are on none of its panes (`ProcessInv`). So the only conflict that a
command can leave for the next one is a process that does not run in the pane of its
name (`Reconcilable`). `NamesApart` says that no child's tab is labelled as the
coordinator's or the processes'. The code does not exclude it: for a child repository
with such an alias the plan asks for two tabs of one label; the model leaves that
configuration out.

Only model-checked. Liveness is out of the prover's reach: `ResidueIsRecoverable`,
`TurnsEnd`, `LeftoverIsFreed`, `EverythingIsTold`, `ArchiveFinishes`,
`RerunsConverge`, `MergeFinishes` and `EverythingEnds`. The theorems with a
hypothesis (one gate-clear, marks that arrive, prompt relaunches) claim nothing
beyond it, and the instances of their runs satisfy it, too.

## 5. Where code and documentation disagree

`gate_twoclears` is a run. `README.md` of the repository says a mutex recovery
command "never removes a mutex whose current owner is not proven dead". With two
concurrent `gate-clear`s it can: the first has passed its recheck of the dead
owner's `owner.json`; the second removes the gate; a live process acquires it;
the first unlinks `owner.json`, now the live owner's. The run lock is safe from
this, as proved, because its marker names are unique.

The others were found in the same way. Each is a property of a module that TLC
violates under the stated constants and fault cases (any, where none is stated); a
property that a run checks holds but for the cases it names. "Unguarded" means the property
without its condition on `faults`.

| Code | Property, and where it fails | What happens |
| --- | --- | --- |
| `hooks/lib/lifecycle-hook-core.mjs:146` | `FollowUpOpensGeneration`, with `ContinuationPrompts = FALSE` | The comment at 137 says any prompt but the first and a continuation opens a generation. The Stop hook sets the pending marker for every harness, but Claude fires no UserPromptSubmit for a continuation, so the operator's next prompt is taken for it. |
| `hooks/lib/lifecycle-hook-core.mjs:164` | `StopDecidesUnderLock` | `w/lifecycle.js:51` says `onStop` decides from the locked record. Whether a handoff is valid was read before, without the lock; a handoff that registers in between is not seen, and a completed run is asked again and charged. |
| `w/commands.js:4027` | `OneWorker`, with `FocusFails = TRUE` | `w/resume.js:161` takes a relaunch that throws for a worker that never started. `relaunchSession` raises the pane after it started the agent; when that fails, the next resume starts a second worker. |
| `w/delegation-services.js:602` | `LeaseCoversLiveChild` unguarded, `{"overlap"}`, `Capacity = 2` | "A reservation lease covers a LIVE child" (565). A remediation that loses the claim releases all leases of the delegation, the winner's too. |
| `w/delegation-services.js:421` | `WritersWithinPolicy` unguarded, `{"unverified", "operator"}` | A child that was spawned and could not be verified is recorded as a failed start; `delegation release` frees its lease while it works. |
| `w/commands.js:1534` | `ReleaseSparesRunning`, `{"operator"}` | "The command refuses while the delegation is still running" (`README.md:281`). The check is not repeated, and a remediation may begin after it. |
| `w/delegation-handoff.js:142` | `SurvivorIsReleasable`, `{"release"}`, `Capacity = 2` | A lease that outlives its delegation is to be cleared by `delegation release` (136). With a remediation beside it the release is refused, and so is the child's handoff, which demands one lease. |
| `w/delegation-services.js:489` | `OneStartPerApproval` unguarded, delegations, `{"overlap"}` | "The digest is consumed the moment a delegation exists for it" (497). Two executions that overlap both pass the look-up before. |
| `w/notifier.js:129` | `LaterGenerationNotifies`, `MaxPosts = 3` | `w/worker-watcher.js:50` says a later generation notifies again. A late event is stamped with the generation that it finds, and its key silences the end of that one. |
| `w/worker-watcher.js:55` | `HandoffIsTold`, with `Statuses = {"completed", "blocked"}` | `README.md:342` says each terminal handoff is told. A completed handoff after a blocked one has the same key. |
| `w/delegation-watcher.js:164` | `ConsumedWasShown` unguarded, `{"remediation"}` | `consumeResult` names no generation: the result of a remediation that came in between is consumed, and was never shown. |
| `w/commands.js:2892` | `SparesWorkers` | "A run still being worked on cannot be archived by any combination of flags" (3352). Only the panes that the run has recorded are asked about, and the launcher (`w/launch.js:743`) and `resume` (`w/resume.js:155`) record a pane after its agent is up. A launcher that dies in between, or a run finished by an early handoff, leaves a finished run with an agent that nobody sees. |
| `w/commands.js:3429` | `SparesWorkers`, `{"resumes"}` | "Archived runs are skipped: their record of the path is stale" (3408). `resume` does not look at `archivedAt`, so an archived run can be live; and of another run that shares the worktree only the state is asked, not its agent. |
| `w/commands.js:3700` | `DestroysOnlyWhatWasApproved`, `{"window", "edits"}` | "Nothing that exists only inside a worktree is ever destroyed without an explicit, digest-bound approval that named it" (3095). Between the comparison of the digests and `git worktree remove` nothing is checked again: ignored files and stray commits that came in between are deleted. |
| `w/reconcile.js:929` | `AgentAtItsWorktree` unguarded, `{"closes"}` | An open workspace is known by the first planned tab that is there; it may be a child's, whose tab is renamed and whose shell gets the agent. |
| `w/reconcile.js:929` | `ProcessesOnce`, `{"runtime", "calls"}` | The same for the tab of the processes, which are then started a second time. |
| `w/reconcile.js:929` | `OneAgent` unguarded, `{"overlap", "runtime"}`, `Children = {}`, three operators | A start that overlaps with a runtime takes the tab of the processes for its own while another start names the first one: two agents. |
| `w/execute.js:1100` | `RuntimeConverges` without its second dead end, `{"runtime", "calls"}` | "Rerun the same runtime flow after fixing the issue" (50). A runtime that failed between its tab and its first process cannot be rerun: the tab is reused, and there is no pane to go by ("Cannot deterministically place runtime process"). |
| `w/reconcile.js:850` | `RuntimeConverges` without its first dead end, `{"runtime", "exits"}` | A process that has exited leaves its name on a pane with a shell, which is a conflict; every later command is refused, `start` as well. |
| `w/commands.js:2544` | `ReportsWhatWasMerged`, `{"moves"}` | 2167 refuses a preview that says "merging X" while git merges Y. git is then given the branch by its name: a later commit is merged, and the report records the approved one. |
| `w/commands.js:2578` | `IntegratedIsReal`, `{"overlap"}` or `{"others", "amid"}` | An audit record "that asserts one where none exists" (2562). Whether something was integrated is judged by the base having moved since the preview, whoever moved it. |
| `w/commands.js:1882` | `EvidenceCovers`, `{"verifying"}` | The dates are read so that one can say whether evidence "predates the work it claims to cover" (`w/git.js:535`). The time of the evidence is that of its event, at the end: a commit made while the checks ran is older, and is shown as verified. |
| `w/commands.js:1754` | `EvidenceCovers`, `{"edits"}` | "Approving a merge therefore means approving the merge of THESE commits WITH THIS verification status" (2332). The checks run in the worktree as it is, uncommitted changes included, nobody asks for its status, and git merges the commit without them. |
| `w/commands.js:2326` | `EvidenceCovers`, `{"second"}` | `staleRelativeToSource` is "true when any source commit is newer than the evidence" (2311). A commit's date is in whole seconds (`w/git.js:542`), the event's in milliseconds: a commit made after the event, within its second, is not newer. |
| `w/process.js:356` | `NothingSurvivesTimeout` | A child that heeds SIGTERM settles the run 100 ms later and clears the timer of SIGKILL: a background process that ignores SIGTERM survives. |
| `w/process.js:147` | `ForwardedFirst` | "Escalation comes only after forwarding" (73). A command that is started after the interrupt gets no signal but the SIGKILL. |
| `w/verify-runner.js:255` | `SweepEnds`, with `"left"` in `Rests` | A result is taken at `close` only: a process that left the group with the pipes holds the sweep as long as it likes. |

## 6. What is not modelled

`PROJECT.json` has every component with its status. Not modelled at all:

* *Harness supervisor*: a fixture worker's stream of phases; used by tests and a
  demo harness, not by the harnesses of a normal launch.
* *Telemetry*: snapshots that are compared and replaced; nothing else decides on
  them.
* *Harness specifications and registry, command line and formatting*: pure
  functions of their input. `w/format.js` and `bin/workflow.js` are a large share
  of the lines and have no state.
* *Asana client*: a separate command line over a service; one request per write.

In the modelled parts: the clock (ages and retries are nondeterministic
outcomes, so whether a contender of the run lock retries depends on no age); file
permissions; legacy lock files; validation, limits and texts; archive copies of
results; tickets and names of branches, paths and labels; the layout of groups
and the reports of what an archive would lose; the worktree returning to an
earlier content, which the readers cannot tell from never having changed.

Known, and without a property: a crash between the mkdir of a run lock and its
marker leaves a directory without a provable owner, which `unlock` refuses by
design; an `unlock` that is killed, or whose rmdir fails, between its two deletions
(`w/mutex-removal.js:90-117`) leaves an empty directory, refused as well, so that the
run stays wedged until somebody removes it by hand; the runner of commands keeps the
first 12000 characters of an output and says nothing of the rest
(`w/process.js:25-30`), so a complete result is all there is up to that length; a
process that left its group with the pipes is checked for single commands, not for
the sweep (section 5); verifications that overlap each other, and branches that are
reset to an earlier commit, are not in `Merge`; a resume raises the generation of a completed run without changing its
state, so `handoffExists` answers for the old one; Pi dispatches events without
waiting for the handlers, so two hooks of one session can overlap (the model has
one at a time); a child that dies without a handoff keeps its delegation running
until somebody looks. In `Resume`, a relaunch that outlasts the ten-minute claim
(`Slow`), and a resume that is killed between starting an agent and recording it
(`Killed`), are parameters that the checked instance leaves off: both break
`OneWorker`, and the code has no recovery for either.

## 7. Plan

1. *Proofs*: what `Archive` and `Merge` promise as abstract specifications, so that the
   exceptions of their properties are stated once.
2. *Resume with handoffs*: the generation a resume opens against
   `handoffExists`; overlapping Pi handlers.
3. *Delegations with their watcher*: one record instead of two views of it.
4. *Supervisor and telemetry*.
