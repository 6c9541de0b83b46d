--------------------------------- MODULE Merge ---------------------------------
(***************************************************************************)
(* `workflow verify` and `workflow merge` (commands.js, verify-runner.js,   *)
(* git.js): the project's checks are run in the worktrees of a run, and the *)
(* branches of the run are merged into the base checkouts, repository after *)
(* repository, if a second preview has the digest of the approved one.      *)
(*                                                                         *)
(* A branch grows; its commits are numbered, and merging one brings in      *)
(* those before it.  A worktree may hold uncommitted changes besides, which  *)
(* the checks run on and git does not merge.  A base checkout is where       *)
(* others commit as well, and where a stopped merge stays until somebody     *)
(* ends it.                                                                 *)
(***************************************************************************)
EXTENDS Naturals, FiniteSets, Sequences

CONSTANTS
  Order,       \* the repositories of the run, in their order
  Clones,      \* those whose base checkout is a clone of its own
  Clash,       \* <<repository, commit, others' commits>> that conflict
  Operators,   \* processes that merge
  MaxWork,     \* bound: commits of a branch
  MaxOthers,   \* bound: commits of others
  MaxEvidence, \* bound: verifications that are recorded
  MaxFaults,   \* bound: how often one of the faults happens
  FaultCases,      \* what may happen in one behaviour: sets of AllFaults
  None

AllFaults == {
  "again",     \* what was verified is verified again
  "moves",     \* worker and user do not wait for an execution
  "verifying", \* worktrees change while the checks run in them
  "edits",     \* worktrees hold uncommitted changes
  "second",    \* a commit has the second of the event that it comes after
  "overlap",   \* two operators merge at the same time
  "others",    \* others commit to a base checkout
  "amid",      \* nor do those others
  "dirties",   \* a base checkout gets uncommitted changes or another branch
  "timeouts",  \* a git merge is killed
  "readback",  \* the base cannot be read after the merge
  "lock",      \* an event cannot be written
  "killed"}    \* an operator is killed

Repos == {Order[i] : i \in DOMAIN Order}

ASSUME MergeConstants ==
  /\ Order \in Seq(Repos)
  /\ Clones \subseteq Repos /\ FaultCases \subseteq SUBSET AllFaults
  /\ {MaxOthers, MaxFaults} \subseteq Nat /\ {MaxWork, MaxEvidence} \subseteq Nat \ {0}

\* A run names each repository once (planner.js:217).
ASSUME OrderNamesOnce == \A i, j \in DOMAIN Order : Order[i] = Order[j] => i = j

VARIABLES
  faults,  \* what may go wrong in this behaviour
  source,    \* the last commit of each branch
  wip,       \* the worktrees with uncommitted changes
  fetched,   \* the commit that a clone has for the branch
  base,      \* the base checkouts
  verifier,  \* the verification at work
  evidence,  \* the last verification in the event log
  critic,    \* the review that was started after it
  op,        \* the operators
  left       \* how many faults may still happen

parts == <<source, wip, fetched, base, verifier, evidence, critic, op, left>>

vars == <<faults, parts>>

Commits == 0..MaxWork

Base == [on : {"base", "other"}, merged : Commits, own : 0..MaxOthers, astray : BOOLEAN,
         tree : {"clean", "dirty", "merging"}]

\* What is in a worktree.
Worktree == [commit : Commits, wip : BOOLEAN]

\* What the checks ran on; the last commits when the event was written (at) and
\* the last with a date that is not after the event's (dated).
Evidence == [no : 1..MaxEvidence, seen : [Repos -> Worktree], at : [Repos -> Commits],
             dated : [Repos -> Commits], passed : BOOLEAN]

ASSUME NoneIsNothingElse == None \notin BOOLEAN /\ None \notin Evidence

\* What a preview says of a repository, and of the evidence.
Record == [source : Commits, sha : {"base", "other"} \X Commits \X (0..MaxOthers),
           tree : {"clean", "dirty", "merging"}, clash : BOOLEAN]

\* What an execution says of a merge: integrated is None where the read-back
\* failed.  got is the commit that was brought in, which nobody is told.
Entry == [ok : BOOLEAN, integrated : BOOLEAN \cup {None}, got : Commits]

Digest(recs, view) == <<recs, view>>

Views == [no : 1..MaxEvidence, passed : BOOLEAN, stale : BOOLEAN] \cup {None}

Operation ==
  [step : {"idle", "approved", "merges", "reads", "reported"},
   digest : (Seq(Record) \X Views) \cup {None}, recs : Seq(Record), entries : Seq(Entry)]

IdleOp == [step |-> "idle", digest |-> None, recs |-> <<>>, entries |-> <<>>]

TypeOK ==
  /\ faults \in FaultCases
  /\ source \in [Repos -> 1..MaxWork]
  /\ wip \in [Repos -> BOOLEAN]
  /\ fetched \in [Repos -> Commits]
  /\ base \in [Repos -> Base]
  /\ verifier \in [step : {"idle", "runs", "critic"}, next : 1..Len(Order) + 1,
                   seen : [Repos -> Worktree], ok : BOOLEAN]
  /\ evidence \in Evidence \cup {None}
  /\ critic \in [no : 1..MaxEvidence, seen : [Repos -> Worktree]] \cup {None}
  /\ \A r \in Clones : fetched[r] <= source[r]
  /\ \A r \in Repos : base[r].merged <= source[r]
  /\ op \in [Operators -> Operation]
  /\ \A o \in Operators :
       /\ Len(op[o].recs) <= Len(Order) /\ Len(op[o].entries) <= Len(op[o].recs)
       /\ op[o].step \in {"idle", "approved"} => op[o].entries = <<>>
  /\ left \in 0..MaxFaults

Unseen == [r \in Repos |-> [commit |-> 0, wip |-> FALSE]]

Init ==
  /\ faults \in FaultCases
  /\ source = [r \in Repos |-> 1]
  /\ wip = [r \in Repos |-> FALSE]
  /\ fetched = [r \in Repos |-> 0]
  /\ base = [r \in Repos |-> [on |-> "base", merged |-> 0, own |-> 0, astray |-> FALSE, tree |-> "clean"]]
  /\ verifier = [step |-> "idle", next |-> 1, seen |-> Unseen, ok |-> TRUE]
  /\ evidence = None
  /\ critic = None
  /\ op = [o \in Operators |-> IdleOp]
  /\ left = MaxFaults

Fault(f) == f \in faults /\ left > 0 /\ left' = left - 1

-----------------------------------------------------------------------------
(* workflow verify *)

VerifyStarts ==
  /\ verifier.step = "idle"
  /\ evidence # None => "again" \in faults /\ evidence.no < MaxEvidence
  /\ verifier' = [step |-> "runs", next |-> 1, seen |-> Unseen, ok |-> TRUE]
  /\ UNCHANGED <<faults, source, wip, fetched, base, evidence, critic, op, left>>

WorktreeOf(r) == [commit |-> source[r], wip |-> wip[r]]

\* The checks of the next repository run in its worktree as it is, and pass or
\* not: no result, of whatever kind, ends the sweep.
VerifyRuns ==
  /\ verifier.step = "runs" /\ verifier.next \in DOMAIN Order
  /\ LET r == Order[verifier.next]
     IN  \E ok \in BOOLEAN :
           verifier' = [verifier EXCEPT !.next = @ + 1, !.seen[r] = WorktreeOf(r), !.ok = @ /\ ok]
  /\ UNCHANGED <<faults, source, wip, fetched, base, evidence, critic, op, left>>

\* Mutation of AfterEvent: the critic starts whatever the result.
CriticAlways == "critic"

\* The critic is started for evidence that was written and that passed.
AfterEvent == IF verifier.ok THEN "critic" ELSE "idle"

\* The event has the time of its writing, when the checks are over.
VerifyRecords ==
  /\ verifier.step = "runs" /\ verifier.next \notin DOMAIN Order
  /\ \/ /\ evidence' = [no |-> IF evidence = None THEN 1 ELSE evidence.no + 1,
                         seen |-> verifier.seen, at |-> source, dated |-> source,
                         passed |-> verifier.ok]
        /\ verifier' = [verifier EXCEPT !.step = AfterEvent]
        /\ UNCHANGED left
     \/ /\ Fault("lock")
        /\ verifier' = [verifier EXCEPT !.step = "idle"]
        /\ UNCHANGED evidence
  /\ UNCHANGED <<faults, source, wip, fetched, base, critic, op>>

\* What the critic is told to review: the worktrees as they are now.
ReviewOf == [no |-> evidence.no, seen |-> [r \in Repos |-> WorktreeOf(r)]]

\* A review counts as long as no other verification is recorded.
CriticFresh == critic # None /\ evidence # None /\ critic.no = evidence.no

CriticStarts ==
  /\ verifier.step = "critic"
  /\ verifier' = [verifier EXCEPT !.step = "idle"]
  /\ critic' = ReviewOf
  /\ UNCHANGED <<faults, source, wip, fetched, base, evidence, op, left>>

-----------------------------------------------------------------------------
(* The preview of a merge *)

\* What the name of the branch stands for in the base checkout.
RefIn(r) == IF r \in Clones THEN fetched[r] ELSE source[r]

Contained(r, commit) == commit <= base[r].merged

Clashes(r, commit) == ~Contained(r, commit) /\ <<r, commit, base[r].own>> \in Clash

ShaOf(r) == <<base[r].on, base[r].merged, base[r].own>>

\* Mutation of Refused: that the checkout has a commit of that name is enough.
RefusedIfUnknown(r) == RefIn(r) = 0

\* Nothing is previewed if git would merge another commit.
Refused(r) == RefIn(r) # source[r]

RecordOf(r) ==
  [source |-> source[r], sha |-> ShaOf(r), tree |-> base[r].tree,
   clash |-> Clashes(r, source[r])]

\* Mutation of Blocks: on whatever branch.
BlocksIfDirty(rec) == rec.tree # "clean" \/ rec.clash

Blocks(rec) == rec.tree # "clean" \/ rec.sha[1] # "base" \/ rec.clash

\* Mutation of Stale: if every one is newer.
StaleIfAll(recs) == \A i \in DOMAIN recs : recs[i].source > evidence.dated[Order[i]]

\* A commit that was previewed has a date after the event's.
Stale(recs) == \E i \in DOMAIN recs : recs[i].source > evidence.dated[Order[i]]

\* The evidence is shown and digested, it is no gate.
ViewOf(recs) ==
  IF evidence = None THEN None
  ELSE [no |-> evidence.no, passed |-> evidence.passed, stale |-> Stale(recs)]

Recs == [i \in DOMAIN Order |-> RecordOf(Order[i])]

\* An execution: from the first read of its preview to its report.
Executes(o) ==
  \/ op[o].step = "approved" /\ op[o].recs # <<>>
  \/ op[o].step \in {"merges", "reads"}

-----------------------------------------------------------------------------
(* workflow merge *)

\* A dry run and the approval of its digest.
Approves(o) ==
  /\ op[o].step \in {"idle", "reported"}
  /\ "overlap" \in faults \/ \A p \in Operators \ {o} : op[p] = IdleOp
  /\ \A r \in Repos : ~Refused(r)
  /\ op' = [op EXCEPT ![o] = [IdleOp EXCEPT !.step = "approved", !.digest = Digest(Recs, ViewOf(Recs))]]
  /\ UNCHANGED <<faults, source, wip, fetched, base, verifier, evidence, critic, left>>

\* The preview is built again, one repository after the other.
Inspects(o) ==
  /\ op[o].step = "approved" /\ Len(op[o].recs) < Len(Order)
  /\ LET r == Order[Len(op[o].recs) + 1]
     IN  IF Refused(r) THEN op' = [op EXCEPT ![o] = IdleOp]
         ELSE op' = [op EXCEPT ![o].recs = Append(@, RecordOf(r))]
  /\ UNCHANGED <<faults, source, wip, fetched, base, verifier, evidence, critic, left>>

Compares(o) ==
  /\ op[o].step = "approved" /\ Len(op[o].recs) = Len(Order)
  /\ IF /\ op[o].digest = Digest(op[o].recs, ViewOf(op[o].recs))
        /\ \A i \in DOMAIN Order : ~Blocks(op[o].recs[i])
     THEN op' = [op EXCEPT ![o].step = "merges"]
     ELSE op' = [op EXCEPT ![o] = IdleOp]
  /\ UNCHANGED <<faults, source, wip, fetched, base, verifier, evidence, critic, left>>

Failed(o) == \E i \in DOMAIN op[o].entries : ~op[o].entries[i].ok

Attempt(o) == Len(op[o].entries) + 1

Attempts(o) == op[o].step = "merges" /\ ~Failed(o) /\ Attempt(o) \in DOMAIN Order

\* What git does in the base checkout: it merges the branch by its name.
Integrate(r) ==
  base' = [base EXCEPT ![r].merged = IF @ < RefIn(r) /\ base[r].on = "base" THEN RefIn(r) ELSE @,
                       ![r].astray = @ \/ base[r].on = "other"]

Enter(o, entry, step) ==
  op' = [op EXCEPT ![o].entries = Append(@, entry), ![o].step = step]

FailedEntry == [ok |-> FALSE, integrated |-> None, got |-> 0]

\* Mutation of Merges: nothing to do is a failure.
MergesIfNew(o) ==
  /\ Attempts(o)
  /\ LET r == Order[Attempt(o)]
     IN  /\ base[r].tree # "merging" /\ ~Clashes(r, RefIn(r))
         /\ IF Contained(r, RefIn(r))
            THEN Enter(o, FailedEntry, "merges") /\ UNCHANGED base
            ELSE Integrate(r) /\ Enter(o, [ok |-> TRUE, integrated |-> None, got |-> RefIn(r)], "reads")
  /\ UNCHANGED <<faults, source, wip, fetched, verifier, evidence, critic, left>>

\* git merge exits with 0; if the branch is contained, it does nothing.
Merges(o) ==
  /\ Attempts(o)
  /\ LET r == Order[Attempt(o)]
         got == IF base[r].on = "base" /\ Contained(r, RefIn(r)) THEN 0 ELSE RefIn(r)
     IN  /\ base[r].tree # "merging" /\ ~Clashes(r, RefIn(r))
         /\ IF got = 0 THEN UNCHANGED base ELSE Integrate(r)
         /\ Enter(o, [ok |-> TRUE, integrated |-> None, got |-> got], "reads")
  /\ UNCHANGED <<faults, source, wip, fetched, verifier, evidence, critic, left>>

\* git refuses, because of what lies in the checkout, or stops at a conflict.
MergeStops(o) ==
  /\ Attempts(o)
  /\ LET r == Order[Attempt(o)]
     IN  \/ base[r].tree # "clean" /\ UNCHANGED base
         \/ /\ base[r].tree # "merging" /\ Clashes(r, RefIn(r))
            /\ base' = [base EXCEPT ![r].tree = "merging"]
  /\ Enter(o, FailedEntry, "merges")
  /\ UNCHANGED <<faults, source, wip, fetched, verifier, evidence, critic, left>>

\* git is killed before its merge, in it, or when it is done.
MergeTimesOut(o) ==
  /\ Attempts(o)
  /\ Fault("timeouts")
  /\ LET r == Order[Attempt(o)]
     IN  /\ base[r].tree # "merging" /\ ~Contained(r, RefIn(r)) /\ ~Clashes(r, RefIn(r))
         /\ \/ UNCHANGED base /\ Enter(o, FailedEntry, "merges")
            \/ /\ base' = [base EXCEPT ![r].tree = "merging"]
               /\ Enter(o, FailedEntry, "merges")
            \/ /\ Integrate(r)
               /\ Enter(o, [FailedEntry EXCEPT !.got = RefIn(r)], "merges")
  /\ UNCHANGED <<faults, source, wip, fetched, verifier, evidence, critic>>

ReadBack(o, integrated) ==
  op' = [op EXCEPT ![o].step = "merges", ![o].entries[Len(op[o].entries)].integrated = integrated]

\* Mutation of ReadsBack: exit 0 is taken for an integration.
ReadsBackNothing(o) ==
  /\ op[o].step = "reads"
  /\ ReadBack(o, TRUE)
  /\ UNCHANGED <<faults, source, wip, fetched, base, verifier, evidence, critic, left>>

\* Exit 0 does not prove an integration: the base is read again.
ReadsBack(o) ==
  /\ op[o].step = "reads"
  /\ LET i == Len(op[o].entries)
     IN  \/ ReadBack(o, ShaOf(Order[i]) # op[o].recs[i].sha) /\ UNCHANGED left
         \/ Fault("readback") /\ ReadBack(o, None)
  /\ UNCHANGED <<faults, source, wip, fetched, base, verifier, evidence, critic>>

\* The report, whether or not its event can be written.
Reports(o) ==
  /\ op[o].step = "merges" /\ (Failed(o) \/ Attempt(o) \notin DOMAIN Order)
  /\ op' = [op EXCEPT ![o].step = "reported"]
  /\ UNCHANGED <<faults, source, wip, fetched, base, verifier, evidence, critic, left>>

IsKilled(o) ==
  /\ Fault("killed")
  /\ op[o].step \in {"approved", "merges", "reads"}
  /\ op' = [op EXCEPT ![o] = IdleOp]
  /\ UNCHANGED <<faults, source, wip, fetched, base, verifier, evidence, critic>>

-----------------------------------------------------------------------------
(* What a report says *)

\* Mutation of Passed: something was merged.
PassedIfAny(o) == \E i \in DOMAIN op[o].entries : op[o].entries[i].ok

Passed(o) == ~Failed(o)

StatusOf(o) ==
  LET e == op[o].entries
      Has(i) == {j \in DOMAIN e : e[j].ok /\ e[j].integrated = i}
  IN  IF Passed(o)
      THEN IF Has(TRUE) # {} THEN "merged" ELSE IF Has(None) # {} THEN "unconfirmed" ELSE "already-up-to-date"
      ELSE IF \E j \in DOMAIN e : e[j].ok THEN "partial" ELSE "failed"

-----------------------------------------------------------------------------
(* The worker, the others and the user *)

Quiet == \A o \in Operators : ~Executes(o)

MayMove == "moves" \in faults \/ Quiet

MayWork(r) == MayMove /\ ("verifying" \in faults \/ verifier.step = "idle")

\* Dates of commits are whole seconds (git.js:542), that of the event is not.
WorkerCommits(r) ==
  /\ MayWork(r)
  /\ source[r] < MaxWork
  /\ source' = [source EXCEPT ![r] = @ + 1] /\ wip' = [wip EXCEPT ![r] = FALSE]
  /\ \/ UNCHANGED <<evidence, left>>
     \/ /\ Fault("second")
        /\ evidence # None /\ evidence.dated[r] = source[r]
        /\ evidence' = [evidence EXCEPT !.dated[r] = @ + 1]
  /\ UNCHANGED <<faults, fetched, base, verifier, critic, op>>

\* Something is changed and not committed, or the changes are dropped.
Edits(r) ==
  /\ "edits" \in faults /\ MayWork(r)
  /\ wip' = [wip EXCEPT ![r] = ~@]
  /\ UNCHANGED <<faults, source, fetched, base, verifier, evidence, critic, op, left>>

Fetches(r) ==
  /\ r \in Clones /\ MayMove
  /\ fetched[r] < source[r]
  /\ fetched' = [fetched EXCEPT ![r] = source[r]]
  /\ UNCHANGED <<faults, source, wip, base, verifier, evidence, critic, op, left>>

OthersCommit(r) ==
  /\ "others" \in faults /\ (Quiet \/ "amid" \in faults)
  /\ base[r].tree = "clean" /\ base[r].on = "base" /\ base[r].own < MaxOthers
  /\ base' = [base EXCEPT ![r].own = @ + 1]
  /\ UNCHANGED <<faults, source, wip, fetched, verifier, evidence, critic, op, left>>

Disturbs(r) ==
  /\ MayMove
  /\ Fault("dirties")
  /\ base[r].tree = "clean" /\ base[r].on = "base"
  /\ \/ base' = [base EXCEPT ![r].tree = "dirty"]
     \/ base' = [base EXCEPT ![r].on = "other"]
  /\ UNCHANGED <<faults, source, wip, fetched, verifier, evidence, critic, op>>

\* Uncommitted changes, a stopped merge or another branch are cleared away.
Clears(r) ==
  /\ MayMove
  /\ base[r].tree # "clean" \/ base[r].on = "other"
  /\ base' = [base EXCEPT ![r].tree = "clean", ![r].on = "base"]
  /\ UNCHANGED <<faults, source, wip, fetched, verifier, evidence, critic, op, left>>

-----------------------------------------------------------------------------

VerifyStep == VerifyStarts \/ VerifyRuns \/ VerifyRecords \/ CriticStarts

MergeStep(o) ==
  \/ Inspects(o) \/ Compares(o) \/ Merges(o) \/ MergeStops(o) \/ MergeTimesOut(o)
  \/ ReadsBack(o) \/ Reports(o)

World(r) == WorkerCommits(r) \/ Edits(r) \/ Fetches(r) \/ OthersCommit(r) \/ Disturbs(r) \/ Clears(r)

Next ==
  \/ VerifyStep
  \/ \E o \in Operators : Approves(o) \/ MergeStep(o) \/ IsKilled(o)
  \/ \E r \in Repos : World(r)

Spec == Init /\ [][Next]_vars

\* A merge that was begun goes on; somebody tries again, and clears what is in
\* the way; clones are brought up to date; a verification comes to its end.
FairSpec ==
  /\ Spec
  /\ WF_parts(\E o \in Operators : MergeStep(o)) /\ SF_parts(\E o \in Operators : Approves(o))
  /\ SF_parts(\E r \in Repos : Clears(r)) /\ SF_parts(\E r \in Repos : Fetches(r))
  /\ WF_parts(VerifyRuns \/ VerifyRecords \/ CriticStarts)

-----------------------------------------------------------------------------
(* What merging must never do, and what it must do in the end *)

Entries(o) == DOMAIN op[o].entries

\* Nothing moves under an execution.
Still == "moves" \notin faults

\* No checkout is switched under one.
Settled == Still \/ "dirties" \notin faults

\* Nobody else touches a base while a merge executes: its reports compare the
\* head of the base with the one that was previewed (commands.js:2578).
Alone == faults \cap {"overlap", "amid"} = {} /\ Settled

\* What git merges is the commit that was approved, and that is reported
\* (commands.js:2167: not "clean, merging X" while git merges Y and the report
\* records X).
ReportsWhatWasMerged == \A o \in Operators : \A i \in Entries(o) :
  op[o].entries[i].got \in {0, op[o].digest[1][i].source}

\* Nor is it ever an older one, such as a clone has that was not brought up to
\* date: what was approved is in it.
ApprovedIsIn == \A o \in Operators : \A i \in Entries(o) :
  op[o].entries[i].got # 0 => op[o].entries[i].got >= op[o].digest[1][i].source

\* The report claims an integration where there was one, and none where there
\* was none (commands.js:2560-2563).
IntegratedIsReal == \A o \in Operators : \A i \in Entries(o) :
  LET e == op[o].entries[i]
  IN  e.ok /\ e.integrated # None => (e.integrated <=> e.got # 0)

\* Only the base branch is advanced.
NeverAstray == \A r \in Repos : ~base[r].astray

\* A report that all went well is of a run whose approved commits are in every
\* base.
PassedIsMerged == \A o \in Operators :
  op[o].step = "reported" /\ Passed(o)
    => \A i \in DOMAIN Order : base[Order[i]].merged >= op[o].digest[1][i].source

\* A run in which nothing was brought in is not called merged, nor is one in
\* which something was called up to date.
StatusIsTrue == \A o \in Operators :
  op[o].step = "reported" =>
    /\ StatusOf(o) \in {"merged"} => \E i \in Entries(o) : op[o].entries[i].got # 0
    /\ StatusOf(o) = "already-up-to-date" => \A i \in Entries(o) : op[o].entries[i].got = 0

\* Evidence that is shown as not stale is of what is there (git.js:535: whether
\* it "predates the work it claims to cover").
EvidenceCovers ==
  evidence # None /\ ~Stale(Recs)
    => \A r \in Repos : evidence.seen[r] = [commit |-> source[r], wip |-> FALSE]

\* The operator approved a merge of verified commits, and no other verification
\* was recorded since.
Verified(o) ==
  /\ op[o].step # "idle" /\ op[o].digest[2] # None /\ evidence # None
  /\ op[o].digest[2].no = evidence.no /\ ~op[o].digest[2].stale

\* What was then brought in is a commit that was there when the event was
\* written; the one that the checks ran on, if nobody commits while they run;
\* and all that they ran on, if nothing was left uncommitted.
MergesWhatWasVerified == \A o \in Operators : Verified(o) => \A i \in Entries(o) :
  LET got  == op[o].entries[i].got
      seen == evidence.seen[Order[i]]
  IN  got # 0 =>
        /\ got <= evidence.at[Order[i]]
        /\ "verifying" \notin faults => got = seen.commit
        /\ faults \cap {"verifying", "edits"} = {} => ~seen.wip
        /\ op[o].digest[2].passed = evidence.passed

\* A review that counts as one of the last verification is of one that passed,
\* and of the worktrees that passed, unless they changed in between.
CriticReviewsVerified ==
  CriticFresh => evidence.passed /\ ("verifying" \notin faults => critic.seen = evidence.seen)

\* Whatever stopped an execution, the next ones bring the rest in; unless others
\* commit what conflicts with it, a branch moves under the command, or another
\* merge does.
MergeFinishes == faults \cap {"others", "moves", "overlap"} = {} => <>[](\A r \in Repos : Contained(r, source[r]))

-----------------------------------------------------------------------------
(* The properties that a run checks, grouped by what they are about        *)

\* What a merge reports is what happened, in every repository: the approved
\* commit was merged, or one that came after it if the branch moved under the
\* command, into the base branch and nowhere else, where it is called
\* integrated, and the status of the whole follows.
ReportsAreTrue ==
  /\ TypeOK
  /\ Still => ReportsWhatWasMerged
  /\ ApprovedIsIn
  /\ Alone => IntegratedIsReal /\ StatusIsTrue
  /\ Settled => NeverAstray /\ PassedIsMerged

\* Evidence is shown as not stale only for what it is about, and what an approved
\* merge brings in is what it is about: unless somebody commits, or leaves changes
\* uncommitted, in a worktree while the checks run in it, or commits within the
\* second of the event.  The critic's review counts only for evidence that passed.
EvidenceIsCurrent ==
  /\ faults \cap {"verifying", "edits", "second"} = {} => EvidenceCovers
  /\ faults \cap {"moves", "second"} = {} => MergesWhatWasVerified
  /\ CriticReviewsVerified
=============================================================================
