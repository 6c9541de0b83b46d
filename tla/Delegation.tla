------------------------------ MODULE Delegation ------------------------------
(***************************************************************************)
(* Delegations of one checkout (delegation-store.js, delegation-services.js, *)
(* delegation-handoff.js, pi-delegation-transport.js and the commands over *)
(* them): starting a child agent, its handoff, and remediations, each a    *)
(* follow-up child in a new generation.                                    *)
(*                                                                         *)
(* A delegation's record is in run.json and its leases are in the          *)
(* reservation store; a locked update of either is one action, and between *)
(* any two of them other commands run, children die and calls fail.        *)
(* A launch (the start of a delegation, or a remediation) mints at most    *)
(* one lease, one claim token and one child, so the launch stands for them. *)
(***************************************************************************)
EXTENDS Naturals, FiniteSets

CONSTANTS
  Delegations,   \* each names its own start
  Remediations,  \* runs of `workflow delegation remediate`
  Handoffs,      \* runs of `workflow delegation handoff`
  Releases,      \* operators of `workflow delegation release`
  Capacity,      \* the policy: active leases of the checkout
  Turns,         \* remediationTurns
  FaultCases,    \* what may go wrong in one behaviour: sets of AllFaults
  None

AllFaults == {
  "crash",       \* a launching command is killed
  "refused",     \* an update of run.json is refused
  "gate",        \* reserve throws although the lease was written
  "unverified",  \* a child is spawned, its identity cannot be read
  "release",     \* the release of a lease fails
  "orphan",      \* a handoff command outlives the child that called it
  "overlap",     \* remediations run at the same time
  "operator"}    \* `workflow delegation release` is run

ASSUME DelegationConstants ==
  /\ Delegations \cap Remediations = {}
  /\ None \notin Delegations \cup Remediations
  /\ Capacity \in Nat \ {0} /\ Turns \in Nat
  /\ FaultCases \subseteq SUBSET AllFaults

Launches == Delegations \cup Remediations

VARIABLES
  faults,  \* what may go wrong in this behaviour
  rec,      \* run.json: the record of each delegation
  leases,   \* the active leases, each the launch that reserved it
  launch,   \* per launch: its step, its delegation, the generation and child it read
  child,    \* per launch: the child process it spawned
  handoff,  \* per handoff command: its step, the child, whether it saw an active remediation
  release   \* per release operator: the delegation it is about to release, or None

parts == <<rec, leases, launch, child, handoff, release>>

vars == <<faults, parts>>

UsesCheckout(l) == {"checkout"}

Reservations == INSTANCE LeaseTable WITH
  Leases <- Launches, Resources <- {"checkout"}, Uses <- UsesCheckout,
  Capacity <- [res \in {"checkout"} |-> Capacity]

Generations == 1..(Turns + 1)

\* What one handoff command brought from one child, and a claimed remediation.
Result == [by : Launches, generation : Generations, via : Handoffs]

ClaimedRemediation == [state : {"launching", "active", "manual-recovery"}, token : Remediations]

ASSUME NoneIsNoRecord == None \notin Result \cup ClaimedRemediation

\* "terminal" stands for completed, blocked and failed.
Record == [state : {"absent", "prepared", "running", "terminal"},
           generation : Generations,
           identity : Launches \cup {None},   \* transportIdentity
           result : Result \cup {None},
           remediation : ClaimedRemediation \cup {None},
           turnsUsed : 0..Turns]

LaunchSteps == {"idle", "claim", "reserve", "spawn", "identity", "fail",
                "observe", "deliver", "complete", "rollback", "manual", "release", "done"}

HandoffSteps == {"idle", "lease", "record", "release"}

TypeOK ==
  /\ faults \in FaultCases
  /\ rec \in [Delegations -> Record]
  /\ leases \subseteq Launches
  /\ launch \in [Launches -> [step : LaunchSteps, of : Delegations \cup {None},
                              generation : Generations, worker : Launches \cup {None}]]
  /\ child \in [Launches -> {"absent", "live", "gone"}]
  /\ handoff \in [Handoffs -> [step : HandoffSteps, by : Launches \cup {None}, active : BOOLEAN]]
  /\ release \in [Releases -> Delegations \cup {None}]

NoRecord == [state |-> "absent", generation |-> 1, identity |-> None, result |-> None,
             remediation |-> None, turnsUsed |-> 0]

NoHandoff == [step |-> "idle", by |-> None, active |-> FALSE]

Init ==
  /\ faults \in FaultCases
  /\ rec = [d \in Delegations |-> NoRecord]
  /\ leases = {}
  /\ launch = [l \in Launches |-> [step |-> "idle", of |-> None, generation |-> 1,
                                    worker |-> None]]
  /\ child = [l \in Launches |-> "absent"]
  /\ handoff = [h \in Handoffs |-> NoHandoff]
  /\ release = [x \in Releases |-> None]

LeasesOf(d) == {l \in leases : launch[l].of = d}

Goes(l, from, to) ==
  /\ launch[l].step = from
  /\ launch' = [launch EXCEPT ![l].step = to]

\* A locked update of the record of d.
Update(d, r) == rec' = [rec EXCEPT ![d] = r]

-----------------------------------------------------------------------------
(* Starting a delegation: startValidatedDelegation                          *)

Prepare(d) ==
  /\ launch[d].step = "idle"
  /\ launch' = [launch EXCEPT ![d] = [@ EXCEPT !.step = "claim", !.of = d]]
  /\ Update(d, [NoRecord EXCEPT !.state = "prepared"])
  /\ UNCHANGED <<faults, leases, child, handoff, release>>

ClaimStart(d) ==
  /\ d \in Delegations
  /\ Goes(d, "claim", "reserve")
  /\ rec[d].state = "prepared"
  /\ Update(d, [rec[d] EXCEPT !.state = "running"])
  /\ UNCHANGED <<faults, leases, child, handoff, release>>

\* The lease is granted: to a start before its child, to a remediation before
\* its claim.
Reserve(l) ==
  /\ Goes(l, "reserve", IF l \in Delegations THEN "spawn" ELSE "claim")
  /\ Reservations!Grant(l)
  /\ UNCHANGED <<faults, rec, child, handoff, release>>

\* No room; or the lease is written and leaving the gate throws.
ReserveFails(l) ==
  /\ Goes(l, "reserve", IF l \in Delegations THEN "fail" ELSE "done")
  /\ \/ UNCHANGED leases
     \/ "gate" \in faults /\ Reservations!Grant(l)
  /\ UNCHANGED <<faults, rec, child, handoff, release>>

Spawn(d) ==
  /\ d \in Delegations
  /\ Goes(d, "spawn", "identity")
  /\ child' = [child EXCEPT ![d] = "live"]
  /\ UNCHANGED <<faults, rec, leases, handoff, release>>

\* The transport throws: nothing was spawned, or a child that cannot be verified.
SpawnFails(d) ==
  /\ d \in Delegations
  /\ Goes(d, "spawn", "fail")
  /\ \/ UNCHANGED child
     \/ "unverified" \in faults /\ child' = [child EXCEPT ![d] = "live"]
  /\ UNCHANGED <<faults, rec, leases, handoff, release>>

RecordIdentity(d) ==
  /\ d \in Delegations
  /\ Goes(d, "identity", "done")
  /\ rec[d].state = "running" /\ rec[d].identity = None
  /\ Update(d, [rec[d] EXCEPT !.identity = d])
  /\ UNCHANGED <<faults, leases, child, handoff, release>>

IdentityRefused(d) ==
  /\ d \in Delegations
  /\ Goes(d, "identity", "fail")
  /\ "refused" \in faults
  /\ UNCHANGED <<faults, rec, leases, child, handoff, release>>

\* Mutation of RecordStartFailure: it frees the capacity it had taken.
RecordStartFailureReleases(d) ==
  /\ d \in Delegations
  /\ Goes(d, "fail", "done")
  /\ rec[d].state = "running"
  /\ Update(d, [rec[d] EXCEPT !.state = "terminal"])
  /\ leases' = leases \ LeasesOf(d)
  /\ UNCHANGED <<faults, child, handoff, release>>

\* The lease stays: the report says manual-release-reservation.
RecordStartFailure(d) ==
  /\ d \in Delegations
  /\ Goes(d, "fail", "done")
  /\ rec[d].state = "running"
  /\ Update(d, [rec[d] EXCEPT !.state = "terminal"])
  /\ UNCHANGED <<faults, leases, child, handoff, release>>

-----------------------------------------------------------------------------
(* Remediation: beginRemediation                                            *)

HasCurrentResult(r) == r.result # None /\ r.result.generation = r.generation

\* The unlocked read and its checks; the CLI's preview checks the turns.
Begin(r, d) ==
  /\ launch[r].step = "idle"
  /\ "overlap" \in faults \/ \A q \in Remediations : launch[q].step \in {"idle", "done"}
  /\ HasCurrentResult(rec[d]) /\ rec[d].identity # None
  /\ rec[d].remediation = None /\ rec[d].turnsUsed < Turns
  /\ launch' = [launch EXCEPT ![r] = [step |-> "observe", of |-> d,
                   generation |-> rec[d].generation, worker |-> rec[d].identity]]
  /\ UNCHANGED <<faults, rec, leases, child, handoff, release>>

\* observeExact of the identity it read: the process must be gone.
Observe(r) ==
  /\ Goes(r, "observe", "reserve")
  /\ child[launch[r].worker] = "gone"
  /\ UNCHANGED <<faults, rec, leases, child, handoff, release>>

\* Active, or it could not be observed.
ObserveRefuses(r) ==
  /\ Goes(r, "observe", "done")
  /\ UNCHANGED <<faults, rec, leases, child, handoff, release>>

\* The guards of claimRemediationLaunch, under the lock.
Remediable(r) ==
  LET q == rec[launch[r].of] IN
    /\ q.state = "terminal" /\ HasCurrentResult(q) /\ q.generation = launch[r].generation
    /\ q.identity # None /\ q.remediation = None /\ q.turnsUsed < Turns

ClaimRemediation(r) ==
  /\ r \in Remediations
  /\ Goes(r, "claim", "deliver")
  /\ Remediable(r)
  /\ LET d == launch[r].of IN
       Update(d, [rec[d] EXCEPT !.remediation = [state |-> "launching", token |-> r]])
  /\ UNCHANGED <<faults, leases, child, handoff, release>>

ClaimRefused(r) ==
  /\ r \in Remediations
  /\ Goes(r, "claim", "release")
  /\ ~Remediable(r) \/ "refused" \in faults
  /\ UNCHANGED <<faults, rec, leases, child, handoff, release>>

\* deliverFollowUp observes again, and spawns.
Deliver(r) ==
  /\ Goes(r, "deliver", "complete")
  /\ child[launch[r].worker] = "gone"
  /\ child' = [child EXCEPT ![r] = "live"]
  /\ UNCHANGED <<faults, rec, leases, handoff, release>>

DeliverFails(r) ==
  /\ \/ Goes(r, "deliver", "rollback") /\ UNCHANGED child
     \/ /\ "unverified" \in faults
        /\ Goes(r, "deliver", "manual")
        /\ child' = [child EXCEPT ![r] = "live"]
  /\ UNCHANGED <<faults, rec, leases, handoff, release>>

\* The shared gate of the transitions that follow: the claim is still pending.
Pending(r) ==
  LET q == rec[launch[r].of] IN
    /\ q.state = "terminal" /\ q.generation = launch[r].generation
    /\ q.remediation = [state |-> "launching", token |-> r]

\* Mutation of Complete: the turn is not counted.
CompleteUncounted(r) ==
  /\ Goes(r, "complete", "done")
  /\ Pending(r)
  /\ LET d == launch[r].of IN
       Update(d, [rec[d] EXCEPT !.state = "running", !.generation = @ + 1, !.identity = r,
                    !.result = None, !.remediation.state = "active"])
  /\ UNCHANGED <<faults, leases, child, handoff, release>>

Complete(r) ==
  /\ Goes(r, "complete", "done")
  /\ Pending(r)
  /\ LET d == launch[r].of IN
       Update(d, [rec[d] EXCEPT !.state = "running", !.generation = @ + 1, !.identity = r,
                    !.result = None, !.turnsUsed = @ + 1, !.remediation.state = "active"])
  /\ UNCHANGED <<faults, leases, child, handoff, release>>

\* Mutation of CompleteRefused: undone like a delivery that failed.
CompleteRefusedRollsBack(r) ==
  /\ Goes(r, "complete", "rollback")
  /\ ~Pending(r) \/ "refused" \in faults
  /\ UNCHANGED <<faults, rec, leases, child, handoff, release>>

CompleteRefused(r) ==
  /\ Goes(r, "complete", "manual")
  /\ ~Pending(r) \/ "refused" \in faults
  /\ UNCHANGED <<faults, rec, leases, child, handoff, release>>

\* Mutation of MarkManual: given up like a delivery that never reached a child.
MarkManualRollsBack(r) ==
  /\ Goes(r, "manual", "done")
  /\ Pending(r)
  /\ LET d == launch[r].of IN Update(d, [rec[d] EXCEPT !.remediation = None])
  /\ UNCHANGED <<faults, leases, child, handoff, release>>

\* A child may be out there: nothing is undone, and nothing may follow.
MarkManual(r) ==
  /\ Goes(r, "manual", "done")
  /\ Pending(r)
  /\ LET d == launch[r].of IN
       Update(d, [rec[d] EXCEPT !.remediation.state = "manual-recovery"])
  /\ UNCHANGED <<faults, leases, child, handoff, release>>

Rollback(r) ==
  /\ Goes(r, "rollback", "release")
  /\ Pending(r)
  /\ LET d == launch[r].of IN Update(d, [rec[d] EXCEPT !.remediation = None])
  /\ UNCHANGED <<faults, leases, child, handoff, release>>

\* releaseForDelegation frees every lease of the delegation; a failure may
\* leave any of them, and is not an error for its callers.
ReleaseFor(d) ==
  \/ leases' = leases \ LeasesOf(d)
  \/ "release" \in faults /\ \E kept \in SUBSET LeasesOf(d) :
       leases' = (leases \ LeasesOf(d)) \cup kept

ReleaseAfterFailure(r) ==
  /\ Goes(r, "release", "done")
  /\ ReleaseFor(launch[r].of)
  /\ UNCHANGED <<faults, rec, child, handoff, release>>

\* Killed, or an update it makes no provision for is refused.
LaunchDies(l) ==
  /\ "crash" \in faults
  /\ launch[l].step \notin {"idle", "done"}
  /\ launch' = [launch EXCEPT ![l].step = "done"]
  /\ UNCHANGED <<faults, rec, leases, child, handoff, release>>

-----------------------------------------------------------------------------
(* The child, its handoff, and the release command                          *)

ChildDies(l) ==
  /\ child[l] = "live"
  /\ "orphan" \in faults \/ \A h \in Handoffs : handoff[h].by # l
  /\ child' = [child EXCEPT ![l] = "gone"]
  /\ UNCHANGED <<faults, rec, leases, launch, handoff, release>>

\* The generation in the environment of the child of launch l.
OwnGeneration(l) == IF l \in Delegations THEN 1 ELSE launch[l].generation + 1

\* The handoff command of a child: the unlocked read of its record, which must
\* carry an identity and the generation of the child.
HandIn(h, l) ==
  /\ handoff[h].step = "idle"
  /\ child[l] = "live"
  /\ LET r == rec[launch[l].of] IN
       /\ r.identity # None
       /\ r.generation = OwnGeneration(l)
       /\ handoff' = [handoff EXCEPT ![h] = [step |-> "lease", by |-> l,
            active |-> r.remediation # None /\ r.remediation.state = "active"]]
  /\ UNCHANGED <<faults, rec, leases, launch, child, release>>

\* reservations.list, and the claim token of the initial child.
CheckLease(h) ==
  LET l == handoff[h].by IN
    /\ handoff[h].step = "lease"
    /\ Cardinality(LeasesOf(launch[l].of)) = 1
    /\ handoff[h].active \/ l \in Delegations
    /\ handoff' = [handoff EXCEPT ![h].step = "record"]
    /\ UNCHANGED <<faults, rec, leases, launch, child, release>>

\* Mutations of Recordable: the state, or the generation and claim, is not checked.
RecordableWhateverState(h) ==
  LET l == handoff[h].by  r == rec[launch[l].of] IN
    /\ r.state # "absent" /\ r.generation = OwnGeneration(l)
    /\ handoff[h].active => r.remediation # None /\ r.remediation.token = l

RecordableWhateverGeneration(h) ==
  LET l == handoff[h].by  r == rec[launch[l].of] IN r.state = "running"

\* The guards of recordResult, under the lock.
Recordable(h) ==
  LET l == handoff[h].by  r == rec[launch[l].of] IN
    /\ r.state = "running"
    /\ r.generation = OwnGeneration(l)
    /\ handoff[h].active <=> r.remediation # None /\ r.remediation.state = "active"
    /\ handoff[h].active => r.remediation.token = l

RecordResult(h) ==
  LET l == handoff[h].by  d == launch[l].of IN
    /\ handoff[h].step = "record"
    /\ Recordable(h)
    /\ Update(d, [rec[d] EXCEPT !.state = "terminal", !.remediation = None,
                    !.result = [by |-> l, generation |-> OwnGeneration(l), via |-> h]])
    /\ handoff' = [handoff EXCEPT ![h].step = "release"]
    /\ UNCHANGED <<faults, leases, launch, child, release>>

\* Best-effort, after the update.
ReleaseAfterResult(h) ==
  /\ handoff[h].step = "release"
  /\ ReleaseFor(launch[handoff[h].by].of)
  /\ handoff' = [handoff EXCEPT ![h] = NoHandoff]
  /\ UNCHANGED <<faults, rec, launch, child, release>>

\* Refused by one of the checks, or killed.
HandoffFails(h) ==
  /\ \/ handoff[h].step \in {"lease", "record"}
     \/ handoff[h].step = "release" /\ "crash" \in faults
  /\ handoff' = [handoff EXCEPT ![h] = NoHandoff]
  /\ UNCHANGED <<faults, rec, leases, launch, child, release>>

\* Mutation of Releasable: a failed start is not.
ReleasableWithResult(d) ==
  rec[d].state \notin {"absent", "running"} /\ rec[d].remediation = None /\ rec[d].result # None

\* delegationReleaseCommand reads the record without the lock.
Releasable(d) == rec[d].state \notin {"absent", "running"} /\ rec[d].remediation = None

ReleaseCheck(x, d) ==
  /\ "operator" \in faults
  /\ release[x] = None
  /\ Releasable(d) /\ LeasesOf(d) # {}
  /\ release' = [release EXCEPT ![x] = d]
  /\ UNCHANGED <<faults, rec, leases, launch, child, handoff>>

ReleaseLeases(x) ==
  /\ release[x] # None
  /\ ReleaseFor(release[x])
  /\ release' = [release EXCEPT ![x] = None]
  /\ UNCHANGED <<faults, rec, launch, child, handoff>>

-----------------------------------------------------------------------------
StartNext(d) ==
  \/ Prepare(d) \/ ClaimStart(d) \/ Spawn(d) \/ SpawnFails(d)
  \/ RecordIdentity(d) \/ IdentityRefused(d) \/ RecordStartFailure(d)

RemediationNext(r) ==
  \/ \E d \in Delegations : Begin(r, d)
  \/ Observe(r) \/ ObserveRefuses(r) \/ ClaimRemediation(r) \/ ClaimRefused(r)
  \/ Deliver(r) \/ DeliverFails(r) \/ Complete(r) \/ CompleteRefused(r)
  \/ MarkManual(r) \/ Rollback(r) \/ ReleaseAfterFailure(r)

HandoffNext(h) ==
  \/ \E l \in Launches : HandIn(h, l)
  \/ CheckLease(h) \/ RecordResult(h) \/ ReleaseAfterResult(h) \/ HandoffFails(h)

ReleaseNext(x) == ReleaseLeases(x) \/ \E d \in Delegations : ReleaseCheck(x, d)

Next ==
  \/ \E d \in Delegations : StartNext(d)
  \/ \E r \in Remediations : RemediationNext(r)
  \/ \E l \in Launches : Reserve(l) \/ ReserveFails(l) \/ ChildDies(l) \/ LaunchDies(l)
  \/ \E h \in Handoffs : HandoffNext(h)
  \/ \E x \in Releases : ReleaseNext(x)

Spec == Init /\ [][Next]_vars

\* An operator who sees a lease that `delegation release` may free, frees it in
\* the end; a failing release does not fail for ever.
FairSpec ==
  /\ Spec
  /\ \A x \in Releases :
       /\ SF_parts(ReleaseLeases(x) /\ leases' = leases \ LeasesOf(release[x]))
       /\ \A d \in Delegations : SF_parts(ReleaseCheck(x, d))

-----------------------------------------------------------------------------
(* Properties                                                              *)

\* A child at work: it lives and has not handed in.
Working(l) ==
  child[l] = "live" /\ ~\E d \in Delegations : rec[d].result # None /\ rec[d].result.by = l

\* However launches overlap, fail and die, a delegation never has two live
\* children: beginRemediation proves the recorded one gone before it starts
\* the next, and an unrecorded one stops every further launch.
OneChild ==
  \A k, l \in Launches :
    child[k] = "live" /\ child[l] = "live" /\ launch[k].of = launch[l].of => k = l

\* Children are started at most once per remediation turn, though the turn is
\* counted only when the launch is completed.
FollowUpsAreCounted ==
  \A d \in Delegations :
    Cardinality({r \in Remediations : launch[r].of = d /\ child[r] # "absent"}) <= Turns

\* A result stands for the child that was started for its generation, however
\* late an earlier child's handoff arrives.
ResultIsOfItsChild ==
  \A d \in Delegations :
    rec[d].result # None =>
      /\ rec[d].result.generation = rec[d].generation
      /\ rec[d].result.by = rec[d].identity
      /\ OwnGeneration(rec[d].result.by) = rec[d].generation

\* Within a generation a result is never replaced or lost: two handoffs of one
\* child register one result.
OneResultPerGeneration ==
  [][\A d \in Delegations :
       rec[d].result # None /\ rec'[d].generation = rec[d].generation =>
         rec'[d].result = rec[d].result]_vars

\* "A reservation lease covers a LIVE child" (delegation-services.js:565).
LeaseCoversLiveChild ==
  faults \cap {"overlap", "operator", "orphan"} = {} =>
    \A l \in Launches : Working(l) => LeasesOf(launch[l].of) # {}

\* The one-writer-per-checkout rule, in numbers: no more children at work in
\* the checkout than the policy admits.
WritersWithinPolicy ==
  faults \cap {"overlap", "operator", "orphan"} = {} =>
    Cardinality({l \in Launches : Working(l)}) <= Capacity

\* "The command refuses while the delegation is still running" (README.md:281).
ReleaseSparesRunning ==
  [][\A x \in Releases :
       release[x] # None /\ release'[x] = None /\ leases' # leases =>
         rec[release[x]].state # "running"]_vars

Launching(d) == \E l \in Launches : launch[l].of = d /\ launch[l].step # "done"

\* "a lease that survives stays visible ... where `workflow delegation release`
\* clears it" (delegation-handoff.js:137).  Of two leases one has survived.
SurvivorIsReleasable ==
  \A d \in Delegations :
    Cardinality(LeasesOf(d)) > 1 /\ ~Launching(d) => Releasable(d)

Leftover(d) ==
  LeasesOf(d) # {} /\ ~Launching(d) /\ rec[d].state = "terminal" /\ rec[d].remediation = None

\* A lease that outlived its delegation (a failed start, a failed release, a
\* grant its caller never learned of) is freed by operators in the end.
LeftoverIsFreed ==
  \A d \in Delegations : Leftover(d) /\ "operator" \in faults ~> ~Leftover(d)

-----------------------------------------------------------------------------
(* The properties that a run checks, grouped by what they are about        *)


\* However launches overlap, fail and die: a delegation has one live child, and
\* no more follow-ups than the policy has turns.
ChildrenAreCounted == TypeOK /\ OneChild /\ FollowUpsAreCounted

\* A delegation's result is that of the child of its generation, and stays.
ResultsStand == []ResultIsOfItsChild /\ OneResultPerGeneration

\* A lease covers every child at work, so no more of them are at work in the
\* checkout than the policy admits.
LeasesCoverWork == LeaseCoversLiveChild /\ WritersWithinPolicy
=============================================================================
