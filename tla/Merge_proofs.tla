------------------------------ MODULE Merge_proofs ------------------------------
(***************************************************************************)
(* What `workflow merge` reports and what a verification covers, proved of  *)
(* Merge for any repositories, operators, conflicts and bounds.             *)
(***************************************************************************)
EXTENDS Merge, TLAPS

\* What was previewed is what git would merge, or what it would merge contains
\* it, as long as an execution goes on.
Previewed(o) ==
  Executes(o) => \A i \in DOMAIN op[o].recs :
    /\ op[o].recs[i].source <= RefIn(Order[i])
    /\ Still => op[o].recs[i].source = RefIn(Order[i])
    /\ Settled => op[o].recs[i].sha[1] = base[Order[i]].on

\* What was approved is what was previewed again, of all repositories.
Approved(o) ==
  /\ op[o].step # "idle" => op[o].digest \in Seq(Record) \X Views
  /\ op[o].step \in {"merges", "reads", "reported"} =>
       Len(op[o].recs) = Len(Order) /\ op[o].digest[1] = op[o].recs

OnBase(o) == op[o].step \in {"merges", "reads"} /\ Settled => \A r \in Repos : base[r].on = "base"

Reading(o) == op[o].step = "reads" => op[o].entries # <<>>

\* A commit that was brought in stays in.
Brought(o) == \A i \in Entries(o) :
  LET e == op[o].entries[i]
  IN  /\ e.got = 0 \/ e.got >= op[o].recs[i].source
      /\ Still => e.got \in {0, op[o].recs[i].source}
      /\ Settled /\ e.ok => base[Order[i]].merged >= op[o].recs[i].source

AllMerged(o) == op[o].step = "reported" /\ Passed(o) => Len(op[o].entries) = Len(Order)

\* An execution that is alone finds the heads as they were previewed, but for the
\* one it has just merged into.
Undisturbed(o) ==
  Executes(o) => \A i \in DOMAIN op[o].recs :
    /\ i > Len(op[o].entries) => ShaOf(Order[i]) = op[o].recs[i].sha
    /\ op[o].step = "reads" /\ i = Len(op[o].entries)
         => (op[o].entries[i].got = 0 <=> ShaOf(Order[i]) = op[o].recs[i].sha)

Confirmed(o) == \A i \in Entries(o) :
  LET e == op[o].entries[i] IN e.ok /\ e.integrated # None => (e.integrated <=> e.got # 0)

OneByOne ==
  "overlap" \notin faults => \A o, p \in Operators : op[o] # IdleOp /\ op[p] # IdleOp => o = p

OpInv(o) ==
  /\ Previewed(o) /\ Approved(o) /\ OnBase(o) /\ Reading(o) /\ Brought(o) /\ AllMerged(o)
  /\ Alone => Undisturbed(o) /\ Confirmed(o)

\* Only the user switches a base checkout.
HomeBases == "dirties" \notin faults => \A r \in Repos : base[r].on = "base"

NoEdits == "edits" \notin faults => \A r \in Repos : ~wip[r]

\* Worktrees that nobody touches are still as the checks saw them.
VerifierInv ==
  /\ verifier.step = "runs" =>
       /\ evidence # None => evidence.no < MaxEvidence
       /\ "verifying" \notin faults =>
            \A i \in DOMAIN Order : i < verifier.next => verifier.seen[Order[i]] = WorktreeOf(Order[i])
  /\ verifier.step = "critic" =>
       /\ evidence # None /\ evidence.passed
       /\ "verifying" \notin faults => \A r \in Repos : evidence.seen[r] = WorktreeOf(r)

EvidenceInv ==
  evidence # None => \A r \in Repos :
    /\ evidence.at[r] <= source[r]
    /\ "second" \notin faults => evidence.dated[r] = evidence.at[r]
    /\ "verifying" \notin faults => evidence.seen[r].commit = evidence.at[r]
    /\ faults \cap {"verifying", "edits"} = {} => ~evidence.seen[r].wip

CriticInv ==
  critic # None =>
    /\ evidence # None /\ critic.no <= evidence.no
    /\ critic.no = evidence.no =>
         evidence.passed /\ ("verifying" \notin faults => critic.seen = evidence.seen)

\* What was approved contains what was there when the last event was written,
\* and nothing newer where it was shown as not stale.
Dated(o) ==
  op[o].step # "idle" /\ op[o].digest[2] # None =>
    /\ evidence # None /\ op[o].digest[2].no <= evidence.no
    /\ op[o].digest[2].no = evidence.no =>
         /\ op[o].digest[2].passed = evidence.passed
         /\ \A i \in DOMAIN Order :
              /\ op[o].digest[1][i].source >= evidence.at[Order[i]]
              /\ "second" \notin faults /\ ~op[o].digest[2].stale
                   => op[o].digest[1][i].source <= evidence.at[Order[i]]

EvidenceIInv ==
  NoEdits /\ VerifierInv /\ EvidenceInv /\ CriticInv /\ \A o \in Operators : Dated(o)

IInv ==
  /\ TypeOK
  /\ \A o \in Operators : OpInv(o)
  /\ OneByOne /\ HomeBases /\ (Settled => NeverAstray)
  /\ EvidenceIInv

-----------------------------------------------------------------------------
(* Types *)

LEMMA OrderFacts ==
  /\ Order \in Seq(Repos) /\ DOMAIN Order = 1..Len(Order) /\ Len(Order) \in Nat
  /\ \A i \in DOMAIN Order : Order[i] \in Repos
BY MergeConstants DEF MergeConstants, Repos

\* The state, repository by repository and operator by operator.
LEMMA Typed ==
  ASSUME TypeOK
  PROVE  /\ \A r \in Repos :
              /\ source[r] \in Nat /\ source[r] \in Commits /\ fetched[r] \in Commits /\ RefIn(r) \in Commits
              /\ base[r] \in Base /\ base[r].merged \in Nat /\ base[r].own \in Nat
              /\ RefIn(r) \in Nat /\ RefIn(r) <= source[r] /\ base[r].merged <= source[r]
         /\ \A o \in Operators :
              /\ op[o] \in Operation /\ op[o].recs \in Seq(Record) /\ op[o].entries \in Seq(Entry)
              /\ Len(op[o].recs) \in Nat /\ Len(op[o].entries) \in Nat
              /\ Len(op[o].recs) <= Len(Order) /\ Len(op[o].entries) <= Len(op[o].recs)
              /\ Entries(o) = 1..Len(op[o].entries)
<1>1. ASSUME NEW r \in Repos
      PROVE  /\ source[r] \in Nat /\ source[r] \in Commits /\ fetched[r] \in Commits /\ RefIn(r) \in Commits
             /\ RefIn(r) \in Nat /\ RefIn(r) <= source[r] /\ base[r].merged <= source[r]
  BY <1>1, MergeConstants DEF MergeConstants, TypeOK, RefIn, Commits
<1>2. ASSUME NEW r \in Repos PROVE base[r] \in Base /\ base[r].merged \in Nat /\ base[r].own \in Nat
  BY <1>2, MergeConstants DEF MergeConstants, TypeOK, Base, Commits
<1>3. ASSUME NEW o \in Operators
      PROVE  /\ op[o] \in Operation /\ op[o].recs \in Seq(Record) /\ op[o].entries \in Seq(Entry)
             /\ Len(op[o].recs) \in Nat /\ Len(op[o].entries) \in Nat
             /\ Len(op[o].recs) <= Len(Order) /\ Len(op[o].entries) <= Len(op[o].recs)
             /\ Entries(o) = 1..Len(op[o].entries)
  <2>1. op[o] \in Operation /\ Len(op[o].recs) <= Len(Order) /\ Len(op[o].entries) <= Len(op[o].recs)
    BY <1>3 DEF TypeOK
  <2>2. op[o].recs \in Seq(Record) /\ op[o].entries \in Seq(Entry)
    BY <2>1 DEF Operation
  <2> QED BY <2>1, <2>2 DEF Entries
<1> QED BY <1>1, <1>2, <1>3

LEMMA TypedNext ==
  ASSUME TypeOK'
  PROVE  /\ \A r \in Repos : base'[r].merged \in Nat /\ source'[r] \in Nat /\ RefIn(r)' \in Nat
         /\ \A o \in Operators :
              /\ op'[o] \in Operation /\ op'[o].recs \in Seq(Record) /\ op'[o].entries \in Seq(Entry)
              /\ Len(op'[o].recs) \in Nat /\ Len(op'[o].entries) \in Nat
              /\ Len(op'[o].recs) <= Len(Order) /\ Len(op'[o].entries) <= Len(op'[o].recs)
              /\ Entries(o)' = 1..Len(op'[o].entries)
<1>1. ASSUME NEW r \in Repos PROVE base'[r].merged \in Nat /\ source'[r] \in Nat /\ RefIn(r)' \in Nat
  BY <1>1, MergeConstants DEF MergeConstants, TypeOK, Base, Commits, RefIn
<1>2. ASSUME NEW o \in Operators
      PROVE  /\ op'[o] \in Operation /\ op'[o].recs \in Seq(Record) /\ op'[o].entries \in Seq(Entry)
             /\ Len(op'[o].recs) \in Nat /\ Len(op'[o].entries) \in Nat
             /\ Len(op'[o].recs) <= Len(Order) /\ Len(op'[o].entries) <= Len(op'[o].recs)
             /\ Entries(o)' = 1..Len(op'[o].entries)
  <2>1. op'[o] \in Operation /\ Len(op'[o].recs) <= Len(Order) /\ Len(op'[o].entries) <= Len(op'[o].recs)
    BY <1>2 DEF TypeOK
  <2>2. op'[o].recs \in Seq(Record) /\ op'[o].entries \in Seq(Entry)
    BY <2>1 DEF Operation
  <2> QED BY <2>1, <2>2 DEF Entries
<1> QED BY <1>1, <1>2

LEMMA IdleTyped == IdleOp \in Operation
BY DEF IdleOp, Operation

LEMMA RecordTyped ==
  ASSUME TypeOK, NEW r \in Repos
  PROVE  RecordOf(r) \in Record /\ RecordOf(r).source = source[r] /\ RecordOf(r).sha = ShaOf(r)
<1>1. base[r] \in Base /\ source[r] \in Commits
  BY Typed
<1>2. ShaOf(r) \in {"base", "other"} \X Commits \X (0..MaxOthers)
  BY <1>1 DEF ShaOf, Base
<1>3. Clashes(r, source[r]) \in BOOLEAN
  BY DEF Clashes
<1> QED BY <1>1, <1>2, <1>3 DEF RecordOf, Record, Base

\* What a merge changes in a base branch.
LEMMA Integrated ==
  ASSUME TypeOK, NEW r \in Repos, Integrate(r)
  PROVE  /\ base' \in [Repos -> Base]
         /\ \A q \in Repos \ {r} : base'[q] = base[q]
         /\ base'[r].on = base[r].on /\ base'[r].own = base[r].own
         /\ base[r].on = "base" => base'[r].astray = base[r].astray
         /\ base'[r].merged = IF base[r].merged < RefIn(r) /\ base[r].on = "base" THEN RefIn(r) ELSE base[r].merged
<1> DEFINE merged == IF base[r].merged < RefIn(r) /\ base[r].on = "base" THEN RefIn(r) ELSE base[r].merged
           astray == base[r].astray \/ base[r].on = "other"
<1>1. base \in [Repos -> Base] /\ base[r] \in Base
  BY DEF TypeOK
<1>2. merged \in Commits
  BY <1>1, Typed DEF Base
<1>3. base[r].on = "base" => astray = base[r].astray
  BY <1>1 DEF Base
<1>4. astray \in BOOLEAN
  OBVIOUS
<1>5. base' = [base EXCEPT ![r] = [base[r] EXCEPT !.merged = merged, !.astray = astray]]
  BY <1>1 DEF Integrate, Base
<1>6. merged = IF base[r].merged < RefIn(r) /\ base[r].on = "base" THEN RefIn(r) ELSE base[r].merged
  OBVIOUS
<1> HIDE DEF merged, astray
<1>7. base'[r] = [base[r] EXCEPT !.merged = merged, !.astray = astray]
      /\ \A q \in Repos \ {r} : base'[q] = base[q]
  BY <1>1, <1>5
<1>8. base'[r] \in Base
  BY <1>1, <1>2, <1>4, <1>7 DEF Base
<1>9. base'[r].on = base[r].on /\ base'[r].own = base[r].own /\ base'[r].astray = astray /\ base'[r].merged = merged
  BY <1>1, <1>7 DEF Base
<1>10. base' \in [Repos -> Base]
  BY <1>1, <1>5, <1>8
<1> QED BY <1>3, <1>6, <1>7, <1>9, <1>10

\* The operation of one operator, and what the merges of it leave typed.
OpTyped(x) ==
  x \in Operation /\ Len(x.recs) <= Len(Order) /\ Len(x.entries) <= Len(x.recs)
  /\ (x.step \in {"idle", "approved"} => x.entries = <<>>)

LEMMA OperatorTypes ==
  ASSUME TypeOK, NEW o \in Operators, NEW x, op' = [op EXCEPT ![o] = x], OpTyped(x),
         base' \in [Repos -> Base], \A r \in Repos : base'[r].merged <= source[r],
         left' \in 0..MaxFaults,
         UNCHANGED <<faults, source, wip, fetched, verifier, evidence, critic>>
  PROVE  TypeOK'
<1>1. op \in [Operators -> Operation] /\ \A p \in Operators : OpTyped(op[p])
  BY DEF TypeOK, OpTyped
<1>2. op' \in [Operators -> Operation]
  BY <1>1 DEF OpTyped
<1>3. \A p \in Operators : OpTyped(op'[p])
  BY <1>1
<1> QED BY <1>2, <1>3 DEF TypeOK, OpTyped

\* What the checks of a repository run in.
LEMMA WorktreeTypes ==
  ASSUME TypeOK
  PROVE  /\ source \in [Repos -> Commits]
         /\ \A r \in Repos : WorktreeOf(r) \in Worktree
         /\ Unseen \in [Repos -> Worktree]
<1>1. source \in [Repos -> Commits] /\ wip \in [Repos -> BOOLEAN] /\ 0 \in Commits
  BY MergeConstants DEF MergeConstants, TypeOK, Commits
<1> QED BY <1>1 DEF WorktreeOf, Worktree, Unseen

LEMMA VerifyTypes ==
  ASSUME TypeOK, VerifierInv, VerifyStep
  PROVE  TypeOK'
<1>1. source \in [Repos -> Commits] /\ (\A r \in Repos : WorktreeOf(r) \in Worktree)
      /\ Unseen \in [Repos -> Worktree]
  BY WorktreeTypes
<1>2. MaxEvidence \in Nat /\ MaxEvidence >= 1 /\ MaxFaults \in Nat
  BY MergeConstants DEF MergeConstants
<1> DEFINE Verifier == [step : {"idle", "runs", "critic"}, next : 1..Len(Order) + 1,
                        seen : [Repos -> Worktree], ok : BOOLEAN]
<1>3. verifier \in Verifier
  BY DEF TypeOK
<1>4. CASE VerifyStarts
  <2>1. verifier' \in Verifier
    BY <1>1, <1>4, OrderFacts DEF VerifyStarts
  <2> QED BY <1>4, <2>1 DEF VerifyStarts, TypeOK
<1>5. CASE VerifyRuns
  <2> DEFINE r == Order[verifier.next]
  <2>1. verifier.next \in 1..Len(Order) /\ r \in Repos
    BY <1>5, OrderFacts DEF VerifyRuns
  <2>2. PICK ok \in BOOLEAN :
          verifier' = [verifier EXCEPT !.next = @ + 1, !.seen[r] = WorktreeOf(r), !.ok = @ /\ ok]
    BY <1>5 DEF VerifyRuns
  <2> DEFINE both == verifier.ok /\ ok
             seen == [verifier.seen EXCEPT ![r] = WorktreeOf(r)]
  <2>3. both \in BOOLEAN
    OBVIOUS
  <2>4. seen \in [Repos -> Worktree]
    BY <1>1, <1>3, <2>1
  <2>5. verifier.next + 1 \in 1..Len(Order) + 1
    BY <2>1, OrderFacts
  <2>6. verifier' = [verifier EXCEPT !.next = @ + 1, !.seen = seen, !.ok = both]
    BY <1>3, <2>2
  <2> HIDE DEF both, seen, r
  <2>7. verifier' \in Verifier
    BY <1>3, <2>3, <2>4, <2>5, <2>6
  <2> QED BY <1>5, <2>7 DEF VerifyRuns, TypeOK
<1>6. CASE VerifyRecords
  <2>1. verifier' \in Verifier
    BY <1>3, <1>6 DEF VerifyRecords, AfterEvent
  <2>2. left' \in 0..MaxFaults
    BY <1>2, <1>6 DEF VerifyRecords, Fault, TypeOK
  <2>3. evidence' \in Evidence \cup {None}
    <3> DEFINE no == IF evidence = None THEN 1 ELSE evidence.no + 1
    <3>1. evidence # None => evidence.no \in 1..MaxEvidence /\ evidence.no < MaxEvidence
      BY <1>6 DEF VerifyRecords, VerifierInv, TypeOK, Evidence
    <3>2. no \in 1..MaxEvidence
      BY <1>2, <3>1
    <3> HIDE DEF no
    <3>3. [no |-> no, seen |-> verifier.seen, at |-> source, dated |-> source,
           passed |-> verifier.ok] \in Evidence
      BY <1>1, <1>3, <3>2 DEF Evidence
    <3> QED BY <1>6, <3>3 DEF VerifyRecords, TypeOK, no
  <2> QED BY <1>6, <2>1, <2>2, <2>3 DEF VerifyRecords, TypeOK
<1>7. CASE CriticStarts
  <2>1. verifier' \in Verifier
    BY <1>3, <1>7 DEF CriticStarts
  <2>2. critic' \in [no : 1..MaxEvidence, seen : [Repos -> Worktree]]
    BY <1>1, <1>7 DEF CriticStarts, ReviewOf, VerifierInv, TypeOK, Evidence
  <2> QED BY <1>7, <2>1, <2>2 DEF CriticStarts, TypeOK
<1> QED BY <1>4, <1>5, <1>6, <1>7 DEF VerifyStep

\* A commit in the second of the event.
LEMMA SecondTypes ==
  ASSUME TypeOK, NEW r \in Repos, evidence # None, evidence.dated[r] = source[r], source[r] < MaxWork,
         evidence' = [evidence EXCEPT !.dated[r] = @ + 1]
  PROVE  /\ evidence' \in Evidence
         /\ evidence'.no = evidence.no /\ evidence'.seen = evidence.seen
         /\ evidence'.at = evidence.at /\ evidence'.passed = evidence.passed
<1>1. evidence \in Evidence /\ source[r] \in 1..MaxWork /\ MaxWork \in Nat
  BY MergeConstants DEF MergeConstants, TypeOK
<1> DEFINE dated == [evidence.dated EXCEPT ![r] = @ + 1]
<1>2. dated \in [Repos -> Commits]
  BY <1>1 DEF Evidence, Commits
<1>3. evidence' = [evidence EXCEPT !.dated = dated]
  BY <1>1 DEF Evidence
<1> HIDE DEF dated
<1> QED BY <1>1, <1>2, <1>3 DEF Evidence

LEMMA WorldTypes ==
  ASSUME TypeOK, NEW r \in Repos, World(r)
  PROVE  TypeOK'
<1>1. base[r] \in Base /\ source[r] \in 1..MaxWork /\ base \in [Repos -> Base]
      /\ source \in [Repos -> 1..MaxWork] /\ fetched \in [Repos -> Commits]
      /\ (r \in Clones => fetched[r] <= source[r]) /\ base[r].merged <= source[r]
  BY DEF TypeOK
<1>2. MaxWork \in Nat /\ MaxOthers \in Nat /\ MaxFaults \in Nat /\ Clones \subseteq Repos
  BY MergeConstants DEF MergeConstants
<1>3. CASE WorkerCommits(r)
  <2>1. source' \in [Repos -> 1..MaxWork] /\ \A q \in Repos : source'[q] >= source[q]
    BY <1>1, <1>2, <1>3 DEF WorkerCommits
  <2>2. \A q \in Repos : base[q].merged <= source'[q]
    BY <1>2, <2>1, Typed DEF TypeOK
  <2>3. \A q \in Clones : fetched[q] <= source'[q]
    BY <1>2, <2>1, Typed DEF TypeOK, Commits
  <2>4. wip' \in [Repos -> BOOLEAN]
    BY <1>3 DEF WorkerCommits, TypeOK
  <2>5. evidence' \in Evidence \cup {None} /\ left' \in 0..MaxFaults
    <3>1. CASE UNCHANGED <<evidence, left>>
      BY <3>1 DEF TypeOK
    <3>2. CASE ~UNCHANGED <<evidence, left>>
      <4>1. Fault("second") /\ evidence # None /\ evidence.dated[r] = source[r] /\ source[r] < MaxWork
            /\ evidence' = [evidence EXCEPT !.dated[r] = @ + 1]
        BY <1>3, <3>2 DEF WorkerCommits
      <4>2. evidence' \in Evidence
        BY <4>1, SecondTypes
      <4>3. left' \in 0..MaxFaults
        BY <1>2, <4>1 DEF Fault, TypeOK
      <4> QED BY <4>2, <4>3
    <3> QED BY <3>1, <3>2
  <2> QED BY <1>3, <2>1, <2>2, <2>3, <2>4, <2>5 DEF WorkerCommits, TypeOK
<1>9. CASE Edits(r)
  <2>1. wip' \in [Repos -> BOOLEAN]
    BY <1>9 DEF Edits, TypeOK
  <2> QED BY <1>9, <2>1 DEF Edits, TypeOK
<1>4. CASE Fetches(r)
  <2>1. fetched' \in [Repos -> Commits] /\ \A q \in Clones : fetched'[q] <= source[q]
    BY <1>1, <1>2, <1>4, Typed DEF Fetches, TypeOK
  <2> QED BY <1>4, <2>1 DEF Fetches, TypeOK
<1>5. ASSUME NEW x \in Base, x.merged = base[r].merged, base' = [base EXCEPT ![r] = x],
             left' \in 0..MaxFaults, UNCHANGED <<faults, source, wip, fetched, verifier, evidence, critic, op>>
      PROVE  TypeOK'
  <2>1. base' \in [Repos -> Base] /\ \A q \in Repos : base'[q].merged = base[q].merged
    BY <1>1, <1>5
  <2> QED BY <1>5, <2>1 DEF TypeOK
<1>6. CASE OthersCommit(r)
  <2>1. [base[r] EXCEPT !.own = @ + 1] \in Base
    BY <1>1, <1>2, <1>6 DEF OthersCommit, Base
  <2> QED BY <1>1, <1>5, <1>6, <2>1 DEF OthersCommit, Base, TypeOK
<1>7. CASE Disturbs(r)
  <2>1. [base[r] EXCEPT !.tree = "dirty"] \in Base /\ [base[r] EXCEPT !.on = "other"] \in Base
    BY <1>1 DEF Base
  <2>2. left' \in 0..MaxFaults
    BY <1>2, <1>7 DEF Disturbs, Fault, TypeOK
  <2> QED BY <1>1, <1>5, <1>7, <2>1, <2>2 DEF Disturbs, Base
<1>8. CASE Clears(r)
  <2>1. [base[r] EXCEPT !.tree = "clean", !.on = "base"] \in Base
    BY <1>1 DEF Base
  <2>2. base' = [base EXCEPT ![r] = [base[r] EXCEPT !.tree = "clean", !.on = "base"]]
    BY <1>1, <1>8 DEF Clears
  <2> QED BY <1>1, <1>5, <1>8, <2>1, <2>2 DEF Clears, Base, TypeOK
<1> QED BY <1>3, <1>4, <1>6, <1>7, <1>8, <1>9 DEF World
\* What an execution enters in its report.
LEMMA Entered ==
  ASSUME TypeOK, NEW o \in Operators, NEW e \in Entry, NEW step \in {"merges", "reads"},
         Len(op[o].entries) < Len(op[o].recs), Enter(o, e, step)
  PROVE  /\ \E x : op' = [op EXCEPT ![o] = x] /\ OpTyped(x)
         /\ op'[o].recs = op[o].recs /\ op'[o].step = step /\ op'[o].digest = op[o].digest
         /\ op'[o].entries \in Seq(Entry) /\ Len(op'[o].entries) = Len(op[o].entries) + 1
         /\ \A i \in 1..Len(op[o].entries) : op'[o].entries[i] = op[o].entries[i]
         /\ op'[o].entries[Len(op[o].entries) + 1] = e
<1> DEFINE entries == Append(op[o].entries, e)
           x == [op[o] EXCEPT !.entries = entries, !.step = step]
<1>1. op \in [Operators -> Operation] /\ op[o] \in Operation
  BY DEF TypeOK
<1>2. op[o].entries \in Seq(Entry) /\ Len(op[o].recs) \in Nat /\ Len(op[o].entries) \in Nat
      /\ Len(op[o].recs) <= Len(Order)
  BY Typed
<1>3. entries \in Seq(Entry) /\ Len(entries) = Len(op[o].entries) + 1
      /\ (\A i \in 1..Len(op[o].entries) : entries[i] = op[o].entries[i])
      /\ entries[Len(op[o].entries) + 1] = e
  BY <1>2
<1>4. op' = [op EXCEPT ![o] = x]
  BY <1>1 DEF Enter
<1> HIDE DEF entries
<1>5. x \in Operation /\ x.recs = op[o].recs /\ x.entries = entries /\ x.step = step /\ x.digest = op[o].digest
  BY <1>1, <1>3 DEF Operation
<1>6. OpTyped(x)
  BY <1>2, <1>3, <1>5 DEF OpTyped
<1>7. op'[o] = x
  BY <1>1, <1>4
<1> QED BY <1>3, <1>4, <1>5, <1>6, <1>7

\* What the next merge of an execution is about.
LEMMA Attempted ==
  ASSUME TypeOK, NEW o \in Operators, OpInv(o), Attempts(o)
  PROVE  /\ Attempt(o) \in 1..Len(Order) /\ Attempt(o) = Len(op[o].entries) + 1
         /\ Len(op[o].recs) = Len(Order) /\ Len(op[o].entries) < Len(op[o].recs)
         /\ Order[Attempt(o)] \in Repos /\ (Settled => base[Order[Attempt(o)]].on = "base")
         /\ op[o].recs[Attempt(o)].source <= RefIn(Order[Attempt(o)])
         /\ Still => op[o].recs[Attempt(o)].source = RefIn(Order[Attempt(o)])
         /\ op[o].step = "merges" /\ Executes(o) /\ op[o].recs[Attempt(o)].source \in Commits
         /\ op[o] # IdleOp /\ \A i \in Entries(o) : op[o].entries[i].ok
<1>1. op[o].step = "merges" /\ Attempt(o) \in 1..Len(Order) /\ \A i \in Entries(o) : op[o].entries[i].ok
  BY OrderFacts DEF Attempts, Failed, Entries
<1>2. Len(op[o].recs) = Len(Order) /\ Order[Attempt(o)] \in Repos
      /\ (Settled => \A r \in Repos : base[r].on = "base") /\ Executes(o) /\ op[o] # IdleOp
  BY <1>1, OrderFacts DEF OpInv, Approved, OnBase, Executes, IdleOp
<1>3. op[o].recs \in Seq(Record) /\ Len(op[o].entries) \in Nat /\ Len(Order) \in Nat
  BY Typed, OrderFacts
<1>4. Attempt(o) \in DOMAIN op[o].recs /\ op[o].recs[Attempt(o)] \in Record
  BY <1>1, <1>2, <1>3
<1>5. op[o].recs[Attempt(o)].source <= RefIn(Order[Attempt(o)])
      /\ (Still => op[o].recs[Attempt(o)].source = RefIn(Order[Attempt(o)]))
  BY <1>2, <1>4 DEF OpInv, Previewed
<1> QED BY <1>1, <1>2, <1>3, <1>4, <1>5 DEF Attempt, Record

LEMMA EntryTypes ==
  /\ FailedEntry \in Entry /\ ~FailedEntry.ok /\ FailedEntry.got = 0
  /\ \A got \in Commits :
       /\ [ok |-> TRUE, integrated |-> None, got |-> got] \in Entry
       /\ LET killed == [FailedEntry EXCEPT !.got = got]
          IN  killed \in Entry /\ ~killed.ok /\ killed.got = got
<1>1. 0 \in Commits
  BY MergeConstants DEF MergeConstants, Commits
<1>2. \A got \in Commits : [ok |-> TRUE, integrated |-> None, got |-> got] \in Entry
  BY DEF Entry
<1>3. FailedEntry \in Entry /\ ~FailedEntry.ok /\ FailedEntry.got = 0
  BY <1>1 DEF FailedEntry, Entry
<1>4. ASSUME NEW got \in Commits
      PROVE  LET killed == [FailedEntry EXCEPT !.got = got]
             IN  killed \in Entry /\ ~killed.ok /\ killed.got = got
  BY <1>3, <1>4 DEF Entry
<1> QED BY <1>2, <1>3, <1>4

\* A base branch only grows, and no checkout is switched.
Grows ==
  /\ base' \in [Repos -> Base]
  /\ \A r \in Repos :
       /\ base'[r].on = base[r].on /\ (Settled => base'[r].astray = base[r].astray)
       /\ base'[r].merged \in Nat /\ base'[r].merged >= base[r].merged /\ base'[r].merged <= source[r]

\* It grows by what operators merge.
Advances == Grows /\ \A r \in Repos : base'[r].own = base[r].own

LEMMA Merged ==
  ASSUME TypeOK, NEW r \in Repos, Settled => base[r].on = "base", Integrate(r)
  PROVE  Advances
<1>1. \A q \in Repos : base[q] \in Base /\ base[q].merged \in Nat /\ RefIn(q) \in Nat
                       /\ RefIn(q) <= source[q] /\ base[q].merged <= source[q]
  BY Typed
<1> QED BY <1>1, Integrated DEF Advances, Grows

LEMMA Unmerged ==
  ASSUME TypeOK, base' = base
  PROVE  Advances
BY Typed DEF Advances, Grows, TypeOK

LEMMA Stopped ==
  ASSUME TypeOK, NEW r \in Repos, base' = [base EXCEPT ![r].tree = "merging"]
  PROVE  Advances
<1>1. base \in [Repos -> Base] /\ \A q \in Repos : base[q].merged \in Nat /\ base[q].merged <= source[q]
  BY Typed DEF TypeOK
<1>2. base' = [base EXCEPT ![r] = [base[r] EXCEPT !.tree = "merging"]]
  BY <1>1
<1>3. [base[r] EXCEPT !.tree = "merging"] \in Base
  BY <1>1 DEF Base
<1> QED BY <1>1, <1>2, <1>3 DEF Advances, Grows, Base

\* What is entered for an attempt, and what the attempt does to the bases: e is
\* the entry, r the repository.
AttemptSays(o, e, step, r) ==
  /\ Enter(o, e, step) /\ Advances
  /\ e.got = 0 \/ e.got >= op[o].recs[Attempt(o)].source
  /\ Still => e.got \in {0, op[o].recs[Attempt(o)].source}
  /\ e.ok => e.integrated = None /\ (Settled => base'[r].merged >= op[o].recs[Attempt(o)].source)
  /\ step = "reads" /\ Settled => (e.got = 0 <=> base'[r].merged = base[r].merged)
  /\ \A q \in Repos \ {r} : base'[q].merged = base[q].merged
  /\ left' \in 0..MaxFaults /\ UNCHANGED <<faults, source, wip, fetched, verifier, evidence, critic>>

LEMMA Attempting ==
  ASSUME TypeOK, NEW o \in Operators, OpInv(o), Merges(o) \/ MergeStops(o) \/ MergeTimesOut(o)
  PROVE  /\ Attempts(o)
         /\ \E e \in Entry, step \in {"merges", "reads"} : AttemptSays(o, e, step, Order[Attempt(o)])
<1> DEFINE r == Order[Attempt(o)]
           approved == op[o].recs[Attempt(o)].source
           commit == RefIn(r)
<1>1. Attempts(o)
  BY DEF Merges, MergeStops, MergeTimesOut
<1>2. r \in Repos /\ (Settled => base[r].on = "base") /\ approved <= commit /\ (Still => approved = commit)
      /\ approved \in Commits
  BY <1>1, Attempted
<1>3. base[r].merged \in Nat /\ commit \in Nat /\ commit \in Commits /\ approved \in Nat
      /\ base[r].on \in {"base", "other"}
  BY <1>2, Typed, MergeConstants DEF MergeConstants, Commits, Base
<1>4. left \in 0..MaxFaults /\ MaxFaults \in Nat
  BY MergeConstants DEF MergeConstants, TypeOK
<1>5. ASSUME base' = base PROVE Advances /\ \A q \in Repos : base'[q].merged = base[q].merged
  BY <1>5, Unmerged
<1>6. ASSUME Integrate(r)
      PROVE  /\ Advances /\ \A q \in Repos \ {r} : base'[q].merged = base[q].merged
             /\ base[r].on = "base" => base'[r].merged = IF base[r].merged < commit THEN commit ELSE base[r].merged
  BY <1>2, <1>6, Integrated, Merged
<1>7. ASSUME base' = [base EXCEPT ![r].tree = "merging"]
      PROVE  Advances /\ \A q \in Repos \ {r} : base'[q].merged = base[q].merged
  BY <1>2, <1>7, Stopped DEF TypeOK
<1>8. CASE Merges(o)
  <2> DEFINE got == IF base[r].on = "base" /\ Contained(r, RefIn(r)) THEN 0 ELSE RefIn(r)
             e == [ok |-> TRUE, integrated |-> None, got |-> got]
  <2>1. /\ (IF got = 0 THEN UNCHANGED base ELSE Integrate(r)) /\ Enter(o, e, "reads")
        /\ UNCHANGED <<faults, source, wip, fetched, verifier, evidence, critic, left>>
    BY <1>8 DEF Merges
  <2>2. got = (IF base[r].on = "base" /\ commit <= base[r].merged THEN 0 ELSE commit) /\ got \in Commits
    BY <1>3, MergeConstants DEF MergeConstants, Contained, Commits
  <2>3. e.ok /\ e.integrated = None /\ e.got = got
    OBVIOUS
  <2>4. e \in Entry
    BY <2>2, EntryTypes
  <2> HIDE DEF got, e, commit, approved, r
  <2>5. /\ Advances /\ \A q \in Repos \ {r} : base'[q].merged = base[q].merged
        /\ Settled => base'[r].merged >= approved /\ (got = 0 <=> base'[r].merged = base[r].merged)
    <3>1. CASE got = 0
      BY <1>2, <1>3, <1>5, <2>1, <2>2, <3>1
    <3>2. CASE got # 0
      BY <1>2, <1>3, <1>6, <2>1, <2>2, <3>2
    <3> QED BY <3>1, <3>2
  <2>6. (got = 0 \/ got >= approved) /\ (Still => got \in {0, approved})
    BY <1>2, <1>3, <2>2
  <2>7. AttemptSays(o, e, "reads", r)
    BY <1>4, <2>1, <2>3, <2>5, <2>6 DEF AttemptSays, approved, r
  <2> QED BY <1>1, <2>4, <2>7 DEF r
<1>9. CASE MergeStops(o)
  <2>1. /\ base' = base \/ base' = [base EXCEPT ![r].tree = "merging"]
        /\ Enter(o, FailedEntry, "merges")
        /\ UNCHANGED <<faults, source, wip, fetched, verifier, evidence, critic, left>>
    BY <1>9 DEF MergeStops
  <2>2. AttemptSays(o, FailedEntry, "merges", r)
    BY <1>4, <1>5, <1>7, <2>1, EntryTypes DEF AttemptSays
  <2> QED BY <1>1, <2>2, EntryTypes
<1>10. CASE MergeTimesOut(o)
  <2>1. left' \in 0..MaxFaults /\ UNCHANGED <<faults, source, wip, fetched, verifier, evidence, critic>>
    BY <1>4, <1>10 DEF MergeTimesOut, Fault
  <2>2. \/ Enter(o, FailedEntry, "merges") /\ (base' = base \/ base' = [base EXCEPT ![r].tree = "merging"])
        \/ Enter(o, [FailedEntry EXCEPT !.got = RefIn(r)], "merges") /\ Integrate(r)
    BY <1>10 DEF MergeTimesOut
  <2>3. CASE Enter(o, FailedEntry, "merges") /\ (base' = base \/ base' = [base EXCEPT ![r].tree = "merging"])
    <3>1. AttemptSays(o, FailedEntry, "merges", r)
      BY <1>5, <1>7, <2>1, <2>3, EntryTypes DEF AttemptSays
    <3> QED BY <1>1, <3>1, EntryTypes
  <2>4. CASE Enter(o, [FailedEntry EXCEPT !.got = RefIn(r)], "merges") /\ Integrate(r)
    <3> DEFINE e == [FailedEntry EXCEPT !.got = RefIn(r)]
    <3>1. e \in Entry /\ ~e.ok /\ e.got = commit
      BY <1>3, EntryTypes
    <3> HIDE DEF e
    <3>2. AttemptSays(o, e, "merges", r)
      BY <1>2, <1>6, <2>1, <2>4, <3>1 DEF AttemptSays, e
    <3> QED BY <1>1, <3>1, <3>2
  <2> QED BY <2>2, <2>3, <2>4
<1> QED BY <1>8, <1>9, <1>10

\* The steps of an operator that leave the bases as they are.
LookingOn(o) == Approves(o) \/ Inspects(o) \/ Compares(o) \/ ReadsBack(o) \/ Reports(o) \/ IsKilled(o)

LEMMA LookingOnSays ==
  ASSUME TypeOK, NEW o \in Operators, LookingOn(o)
  PROVE  /\ left' \in 0..MaxFaults
         /\ UNCHANGED <<faults, source, wip, fetched, base, verifier, evidence, critic>>
BY MergeConstants DEF MergeConstants, LookingOn, Approves, Inspects, Compares, ReadsBack, Reports,
  IsKilled, Fault, TypeOK
LEMMA IdleFacts ==
  /\ OpTyped(IdleOp) /\ IdleOp.step = "idle" /\ IdleOp.recs = <<>> /\ IdleOp.entries = <<>>
  /\ \A d \in (Seq(Record) \X Views) \cup {None} :
       LET x == [IdleOp EXCEPT !.step = "approved", !.digest = d]
       IN  OpTyped(x) /\ x.step = "approved" /\ x.digest = d /\ x.recs = <<>> /\ x.entries = <<>>
<1>1. <<>> \in Seq(Record) /\ <<>> \in Seq(Entry) /\ Len(<<>>) = 0
  OBVIOUS
<1>2. \A x : x \in Operation /\ x.recs = <<>> /\ x.entries = <<>> => OpTyped(x)
  BY <1>1, OrderFacts DEF OpTyped
<1>3. IdleOp \in Operation
  BY IdleTyped
<1>4. IdleOp.step = "idle" /\ IdleOp.recs = <<>> /\ IdleOp.entries = <<>>
  BY DEF IdleOp
<1>5. ASSUME NEW d \in (Seq(Record) \X Views) \cup {None}
      PROVE  LET x == [IdleOp EXCEPT !.step = "approved", !.digest = d]
             IN  /\ x \in Operation /\ x.step = "approved" /\ x.digest = d
                 /\ x.recs = <<>> /\ x.entries = <<>>
  BY <1>3, <1>4, <1>5 DEF Operation
<1> QED BY <1>2, <1>3, <1>4, <1>5

LEMMA DigestTyped ==
  ASSUME TypeOK
  PROVE  Digest(Recs, ViewOf(Recs)) \in Seq(Record) \X Views
<1>1. Recs \in Seq(Record)
  BY OrderFacts, RecordTyped DEF Recs
<1>2. Stale(Recs) \in BOOLEAN
  BY DEF Stale
<1>3. ViewOf(Recs) \in Views
  BY <1>2 DEF ViewOf, Views, TypeOK, Evidence
<1> QED BY <1>1, <1>3 DEF Digest

\* What a looking-on operator has afterwards.
LEMMA LookedOn ==
  ASSUME TypeOK, NEW o \in Operators, OpInv(o), LookingOn(o)
  PROVE  \E x : op' = [op EXCEPT ![o] = x] /\ OpTyped(x)
<1>1. op \in [Operators -> Operation] /\ op[o] \in Operation /\ OpTyped(op[o])
  BY DEF TypeOK, OpTyped
<1>2. op[o].recs \in Seq(Record) /\ op[o].entries \in Seq(Entry) /\ Len(Order) \in Nat
      /\ Len(op[o].recs) \in Nat /\ Len(op[o].entries) \in Nat
  BY Typed, OrderFacts
<1>3. CASE Approves(o)
  BY <1>1, <1>3, DigestTyped, IdleFacts DEF Approves
<1>4. CASE Inspects(o)
  <2> DEFINE r == Order[Len(op[o].recs) + 1]
             recs == Append(op[o].recs, RecordOf(r))
             x == [op[o] EXCEPT !.recs = recs]
  <2>1. CASE Refused(r)
    BY <1>4, <2>1, IdleFacts DEF Inspects
  <2>2. CASE ~Refused(r)
    <3>1. op' = [op EXCEPT ![o] = x]
      BY <1>1, <1>4, <2>2 DEF Inspects
    <3>2. op[o].step = "approved" /\ Len(op[o].recs) < Len(Order) /\ op[o].entries = <<>>
      BY <1>1, <1>4 DEF Inspects, OpTyped
    <3>3. r \in Repos
      BY <1>2, <3>2, OrderFacts
    <3>4. recs \in Seq(Record) /\ Len(recs) = Len(op[o].recs) + 1
      BY <1>2, <3>3, RecordTyped
    <3> HIDE DEF recs, r
    <3>5. x \in Operation /\ x.step = "approved" /\ x.recs = recs /\ x.entries = <<>>
      BY <1>1, <3>2, <3>4 DEF Operation
    <3>6. OpTyped(x)
      BY <1>2, <3>2, <3>4, <3>5 DEF OpTyped
    <3> QED BY <3>1, <3>6
  <2> QED BY <2>1, <2>2
<1>5. ASSUME NEW step \in {"merges", "reported"}, op' = [op EXCEPT ![o].step = step]
      PROVE  \E x : op' = [op EXCEPT ![o] = x] /\ OpTyped(x)
  <2> DEFINE x == [op[o] EXCEPT !.step = step]
  <2>1. x \in Operation /\ x.recs = op[o].recs /\ x.entries = op[o].entries /\ x.step = step
    BY <1>1 DEF Operation
  <2>2. OpTyped(x)
    BY <1>1, <2>1 DEF OpTyped
  <2>3. op' = [op EXCEPT ![o] = x]
    BY <1>1, <1>5
  <2> QED BY <2>2, <2>3
<1>6. CASE Compares(o)
  BY <1>5, <1>6, IdleFacts DEF Compares
<1>7. CASE ReadsBack(o)
  <2>1. op[o].step = "reads" /\ op[o].entries # <<>>
    BY <1>7 DEF ReadsBack, OpInv, Reading
  <2>2. PICK integrated \in BOOLEAN \cup {None} : ReadBack(o, integrated)
    <3> DEFINE differs == ShaOf(Order[Len(op[o].entries)]) # op[o].recs[Len(op[o].entries)].sha
    <3>1. differs \in BOOLEAN
      OBVIOUS
    <3>2. ReadBack(o, differs) \/ ReadBack(o, None)
      BY <1>7 DEF ReadsBack
    <3> HIDE DEF differs
    <3> QED BY <3>1, <3>2
  <2> DEFINE last == Len(op[o].entries)
             entry == [op[o].entries[last] EXCEPT !.integrated = integrated]
             entries == [op[o].entries EXCEPT ![last] = entry]
             x == [op[o] EXCEPT !.step = "merges", !.entries = entries]
  <2>3. last \in 1..Len(op[o].entries) /\ op[o].entries[last] \in Entry
    BY <1>2, <2>1
  <2>4. entry \in Entry
    BY <2>2, <2>3 DEF Entry
  <2> HIDE DEF entry, last
  <2>5. entries \in Seq(Entry) /\ Len(entries) = Len(op[o].entries)
    BY <1>2, <2>3, <2>4
  <2>6. op' = [op EXCEPT ![o] = x]
    BY <1>1, <1>2, <2>2 DEF ReadBack, entry, last
  <2> HIDE DEF entries
  <2>7. x \in Operation /\ x.recs = op[o].recs /\ x.entries = entries /\ x.step = "merges"
    BY <1>1, <2>5 DEF Operation
  <2>8. OpTyped(x)
    BY <1>1, <2>5, <2>7 DEF OpTyped
  <2> QED BY <2>6, <2>8
<1>8. CASE Reports(o)
  BY <1>5, <1>8 DEF Reports
<1>9. CASE IsKilled(o)
  BY <1>9, IdleFacts DEF IsKilled
<1> QED BY <1>3, <1>4, <1>6, <1>7, <1>8, <1>9 DEF LookingOn

OperatorStep(o) == Approves(o) \/ MergeStep(o) \/ IsKilled(o)

LEMMA OperatorStepIs ==
  ASSUME NEW o \in Operators, OperatorStep(o)
  PROVE  LookingOn(o) \/ Merges(o) \/ MergeStops(o) \/ MergeTimesOut(o)
BY DEF OperatorStep, MergeStep, LookingOn

\* The types, across every step.
LEMMA TypeStep ==
  ASSUME IInv, Next
  PROVE  TypeOK'
<1>1. TypeOK /\ VerifierInv /\ \A o \in Operators : OpInv(o)
  BY DEF IInv, EvidenceIInv
<1>2. CASE VerifyStep
  BY <1>1, <1>2, VerifyTypes
<1>3. ASSUME NEW o \in Operators, LookingOn(o) PROVE TypeOK'
  <2>1. base' \in [Repos -> Base] /\ \A r \in Repos : base'[r].merged <= source[r]
    BY <1>1, <1>3, LookingOnSays DEF TypeOK
  <2> QED BY <1>1, <1>3, <2>1, LookedOn, LookingOnSays, OperatorTypes
<1>4. ASSUME NEW o \in Operators, Merges(o) \/ MergeStops(o) \/ MergeTimesOut(o) PROVE TypeOK'
  <2>1. Attempts(o)
    BY <1>1, <1>4, Attempting
  <2>2. PICK e \in Entry, step \in {"merges", "reads"} : AttemptSays(o, e, step, Order[Attempt(o)])
    BY <1>1, <1>4, Attempting
  <2>3. Len(op[o].entries) < Len(op[o].recs)
    BY <1>1, <2>1, Attempted
  <2>4. PICK x : op' = [op EXCEPT ![o] = x] /\ OpTyped(x)
    BY <1>1, <2>2, <2>3, Entered DEF AttemptSays
  <2> QED BY <1>1, <2>2, <2>4, OperatorTypes DEF AttemptSays, Advances, Grows
<1>5. ASSUME NEW r \in Repos, World(r) PROVE TypeOK'
  BY <1>1, <1>5, WorldTypes
<1> QED BY <1>2, <1>3, <1>4, <1>5, OperatorStepIs DEF Next, OperatorStep
-----------------------------------------------------------------------------
(* What an execution knows *)

\* The digest that was approved stays with the operator.
LEMMA DigestKept ==
  ASSUME TypeOK, NEW o \in Operators, OpInv(o), MergeStep(o) \/ IsKilled(o)
  PROVE  op'[o] = IdleOp \/ (op[o].step # "idle" /\ op'[o].digest = op[o].digest)
<1>1. op \in [Operators -> Operation] /\ op[o] \in Operation
  BY DEF TypeOK
<1>2. CASE Inspects(o)
  BY <1>1, <1>2 DEF Inspects, Operation
<1>3. CASE Compares(o)
  BY <1>1, <1>3 DEF Compares, Operation
<1>4. CASE ReadsBack(o)
  BY <1>1, <1>4 DEF ReadsBack, ReadBack, Operation
<1>5. CASE Reports(o)
  BY <1>1, <1>5 DEF Reports, Operation
<1>6. CASE IsKilled(o)
  BY <1>1, <1>6 DEF IsKilled
<1>7. CASE Merges(o) \/ MergeStops(o) \/ MergeTimesOut(o)
  <2>1. Attempts(o) /\ \E e \in Entry, step \in {"merges", "reads"} : AttemptSays(o, e, step, Order[Attempt(o)])
    BY <1>7, Attempting
  <2>2. op[o].step = "merges" /\ Len(op[o].entries) < Len(op[o].recs)
    BY <2>1, Attempted
  <2> QED BY <2>1, <2>2, Entered DEF AttemptSays
<1> QED BY <1>2, <1>3, <1>4, <1>5, <1>6, <1>7 DEF MergeStep

\* Of an operator who takes no step: what the others and the world may do.
LEMMA Kept ==
  ASSUME TypeOK, TypeOK', NEW p \in Operators, OpInv(p), op'[p] = op[p], faults' = faults,
         \A r \in Repos : RefIn(r)' >= RefIn(r) /\ base'[r].merged >= base[r].merged,
         Executes(p) /\ Still => \A r \in Repos : RefIn(r)' = RefIn(r),
         Executes(p) /\ Settled => \A r \in Repos : base'[r].on = base[r].on,
         Executes(p) /\ Alone => \A r \in Repos : ShaOf(r)' = ShaOf(r)
  PROVE  OpInv(p)'
<1>1. \A i \in DOMAIN op[p].recs : i \in DOMAIN Order /\ Order[i] \in Repos /\ op[p].recs[i] \in Record
  BY Typed, OrderFacts
<1>2. \A i \in Entries(p) : i \in DOMAIN Order /\ Order[i] \in Repos /\ op[p].recs[i] \in Record
  BY Typed, OrderFacts
<1>3. (Executes(p)' <=> Executes(p)) /\ Entries(p)' = Entries(p) /\ (Passed(p)' <=> Passed(p))
      /\ (Alone' <=> Alone) /\ (Settled' <=> Settled) /\ (Still' <=> Still)
  BY DEF Executes, Entries, Passed, Failed, Alone, Settled, Still
<1>4. Previewed(p)'
  <2> SUFFICES ASSUME Executes(p), NEW i \in DOMAIN op[p].recs
               PROVE  /\ op[p].recs[i].source <= RefIn(Order[i])'
                      /\ Still => op[p].recs[i].source = RefIn(Order[i])'
                      /\ Settled => op[p].recs[i].sha[1] = base'[Order[i]].on
    BY <1>3 DEF Previewed
  <2>1. op[p].recs[i].source \in Nat
    BY <1>1, MergeConstants DEF MergeConstants, Record, Commits
  <2>2. /\ RefIn(Order[i]) \in Nat /\ RefIn(Order[i])' \in Nat /\ RefIn(Order[i])' >= RefIn(Order[i])
        /\ Still => RefIn(Order[i])' = RefIn(Order[i])
    BY <1>1, Typed, TypedNext
  <2>3. Settled => base'[Order[i]].on = base[Order[i]].on
    BY <1>1
  <2>4. /\ op[p].recs[i].source <= RefIn(Order[i])
        /\ Still => op[p].recs[i].source = RefIn(Order[i])
        /\ Settled => op[p].recs[i].sha[1] = base[Order[i]].on
    BY DEF OpInv, Previewed
  <2> QED BY <2>1, <2>2, <2>3, <2>4
<1>5. Approved(p)' /\ Reading(p)' /\ AllMerged(p)'
  BY <1>3 DEF OpInv, Approved, Reading, AllMerged
<1>6. OnBase(p)'
  BY <1>3 DEF OpInv, OnBase, Executes
<1>7. Brought(p)'
  <2> SUFFICES ASSUME NEW i \in Entries(p), Settled, op[p].entries[i].ok
               PROVE  base'[Order[i]].merged >= op[p].recs[i].source
    BY <1>3 DEF OpInv, Brought
  <2>1. op[p].recs[i].source \in Nat
    BY <1>2, MergeConstants DEF MergeConstants, Record, Commits
  <2>2. base[Order[i]].merged \in Nat
    BY <1>2, Typed
  <2>3. base'[Order[i]].merged \in Nat /\ base'[Order[i]].merged >= base[Order[i]].merged
    BY <1>2, TypedNext
  <2> QED BY <2>1, <2>2, <2>3 DEF OpInv, Brought
<1>8. Alone => Undisturbed(p)'
  BY <1>1, <1>3 DEF OpInv, Undisturbed
<1>9. Alone => Confirmed(p)'
  BY <1>3 DEF OpInv, Confirmed
<1> QED BY <1>3, <1>4, <1>5, <1>6, <1>7, <1>8, <1>9 DEF OpInv

\* Of an operator who has nothing of an execution yet, or nothing any more.
LEMMA Nothing ==
  ASSUME NEW p \in Operators, op'[p].step \in {"idle", "approved"},
         op'[p].step = "approved" => op'[p].digest \in Seq(Record) \X Views,
         op'[p].recs = <<>>, op'[p].entries = <<>>
  PROVE  OpInv(p)'
<1>1. DOMAIN op'[p].recs = {} /\ Entries(p)' = {}
  BY DEF Entries
<1> QED BY <1>1 DEF OpInv, Previewed, Approved, OnBase, Reading, Brought, AllMerged, Undisturbed,
  Confirmed
LEMMA InspectsKeeps ==
  ASSUME TypeOK, NEW o \in Operators, OpInv(o), Inspects(o)
  PROVE  OpInv(o)'
<1> DEFINE next == Len(op[o].recs) + 1
           r == Order[next]
<1>1. op \in [Operators -> Operation] /\ op[o].step = "approved" /\ Len(op[o].recs) < Len(Order)
      /\ op[o].entries = <<>>
  BY DEF TypeOK, Inspects
<1>2. op[o].recs \in Seq(Record) /\ Len(op[o].recs) \in Nat /\ r \in Repos
  BY <1>1, Typed, OrderFacts
<1>3. CASE Refused(r)
  <2>1. op'[o] = IdleOp
    BY <1>1, <1>3 DEF Inspects
  <2> QED BY <2>1, IdleFacts, Nothing
<1>4. CASE ~Refused(r)
  <2> DEFINE recs == Append(op[o].recs, RecordOf(r))
  <2>1. op'[o] = [op[o] EXCEPT !.recs = recs] /\ UNCHANGED <<faults, source, fetched, base>>
    BY <1>1, <1>4 DEF Inspects
  <2>2. op[o] \in Operation
    BY <1>1
  <2>3. op'[o].step = "approved" /\ op'[o].entries = <<>> /\ op'[o].recs = recs
        /\ op'[o].digest = op[o].digest
    BY <1>1, <2>1, <2>2 DEF Operation
  <2>4. DOMAIN recs = 1..next /\ recs[next] = RecordOf(r)
        /\ \A i \in 1..next : i # next => i \in DOMAIN op[o].recs /\ recs[i] = op[o].recs[i]
    BY <1>2, RecordTyped
  <2>5. RecordOf(r).source = source[r] /\ RecordOf(r).sha = ShaOf(r) /\ RefIn(r) = source[r]
    BY <1>2, <1>4, RecordTyped DEF Refused
  <2>6. ShaOf(r)[1] = base[r].on
    BY DEF ShaOf
  <2> HIDE DEF next, r, recs
  <2>7. DOMAIN op'[o].recs = 1..next /\ (op[o].recs # <<>> => Executes(o))
        /\ (Alone' <=> Alone) /\ (Still' <=> Still) /\ (Settled' <=> Settled)
    BY <1>1, <2>1, <2>3, <2>4 DEF Executes, Alone, Still, Settled
  <2>8. Order[next] = r
    BY DEF r
  <2>9. Previewed(o)'
    <3> SUFFICES ASSUME NEW i \in 1..next
                 PROVE  /\ recs[i].source <= RefIn(Order[i])
                        /\ Still => recs[i].source = RefIn(Order[i])
                        /\ Settled => recs[i].sha[1] = base[Order[i]].on
      BY <2>1, <2>3, <2>7 DEF Previewed, RefIn
    <3>1. CASE i = next
      BY <1>2, <2>4, <2>5, <2>6, <2>8, <3>1, Typed DEF r
    <3>2. CASE i # next
      <4>1. i \in DOMAIN op[o].recs /\ recs[i] = op[o].recs[i] /\ Executes(o)
        BY <1>2, <2>4, <2>7, <3>2
      <4> QED BY <4>1 DEF OpInv, Previewed
    <3> QED BY <3>1, <3>2
  <2>10. Alone => Undisturbed(o)'
    <3> SUFFICES ASSUME Alone, NEW i \in 1..next PROVE ShaOf(Order[i]) = recs[i].sha
      BY <2>1, <2>3, <2>7 DEF Undisturbed, ShaOf
    <3>1. CASE i = next
      BY <2>4, <2>5, <2>8, <3>1
    <3>2. CASE i # next
      <4>1. i \in DOMAIN op[o].recs /\ i > Len(op[o].entries) /\ Executes(o)
        BY <1>1, <1>2, <2>4, <2>7, <3>2
      <4> QED BY <2>4, <3>2, <4>1 DEF OpInv, Undisturbed
    <3> QED BY <3>1, <3>2
  <2>11. Entries(o)' = {} /\ op'[o].digest \in Seq(Record) \X Views
    BY <1>1, <2>1, <2>3 DEF Entries, OpInv, Approved
  <2> QED BY <2>3, <2>7, <2>9, <2>10, <2>11 DEF OpInv, Approved, OnBase, Reading, Brought, AllMerged, Confirmed
<1> QED BY <1>3, <1>4

LEMMA ComparesKeeps ==
  ASSUME TypeOK, NEW o \in Operators, OpInv(o), Compares(o)
  PROVE  OpInv(o)'
<1>1. op \in [Operators -> Operation] /\ op[o] \in Operation /\ op[o].step = "approved" /\ op[o].entries = <<>>
      /\ Len(op[o].recs) = Len(Order)
  BY DEF TypeOK, Compares
<1>2. CASE op' = [op EXCEPT ![o] = IdleOp]
  <2>1. op'[o] = IdleOp
    BY <1>1, <1>2
  <2> QED BY <2>1, IdleFacts, Nothing
<1>3. CASE /\ op' = [op EXCEPT ![o].step = "merges"] /\ \A i \in DOMAIN Order : ~Blocks(op[o].recs[i])
           /\ op[o].digest = Digest(op[o].recs, ViewOf(op[o].recs))
  <2>1. op'[o].step = "merges" /\ op'[o].entries = <<>> /\ op'[o].recs = op[o].recs
        /\ op'[o].digest = op[o].digest
        /\ UNCHANGED <<faults, source, fetched, base>>
    BY <1>1, <1>3 DEF Compares, Operation
  <2>2. DOMAIN op[o].recs = DOMAIN Order
    BY <1>1, Typed, OrderFacts
  <2>3. Settled => \A i \in DOMAIN Order : base[Order[i]].on = "base"
    <3> SUFFICES ASSUME Settled, NEW i \in DOMAIN Order PROVE base[Order[i]].on = "base"
      OBVIOUS
    <3>1. op[o].recs # <<>>
      BY <2>2
    <3> QED BY <1>1, <1>3, <2>2, <3>1 DEF Blocks, OpInv, Previewed, Executes
  <2>4. OnBase(o)' /\ Approved(o)'
    <3>1. op[o].digest[1] = op[o].recs
      BY <1>3 DEF Digest
    <3>2. Settled' <=> Settled
      BY <2>1 DEF Settled, Still
    <3> QED BY <1>1, <2>1, <2>3, <3>1, <3>2 DEF OnBase, OpInv, Approved, Repos
  <2>5. /\ op[o].recs # <<>> => Executes(o)
        /\ Executes(o)' /\ Entries(o)' = {}
        /\ (Alone' <=> Alone) /\ (Still' <=> Still) /\ (Settled' <=> Settled)
    BY <1>1, <2>1 DEF Executes, Entries, Alone, Still, Settled
  <2>6. Previewed(o)' /\ (Alone => Undisturbed(o)')
    <3>1. CASE op[o].recs = <<>>
      <4>1. DOMAIN op'[o].recs = {}
        BY <2>1, <3>1
      <4> QED BY <4>1 DEF Previewed, Undisturbed
    <3>2. CASE op[o].recs # <<>>
      BY <1>1, <2>1, <2>5, <3>2 DEF OpInv, Previewed, Undisturbed, RefIn, ShaOf
    <3> QED BY <3>1, <3>2
  <2> QED BY <2>1, <2>4, <2>5, <2>6 DEF OpInv, Reading, Brought, AllMerged, Confirmed
<1> QED BY <1>2, <1>3 DEF Compares

LEMMA ReportsKeeps ==
  ASSUME TypeOK, NEW o \in Operators, OpInv(o), Reports(o)
  PROVE  OpInv(o)'
<1>1. op \in [Operators -> Operation] /\ op[o] \in Operation /\ op[o].step = "merges"
      /\ op' = [op EXCEPT ![o].step = "reported"] /\ UNCHANGED <<faults, source, fetched, base>>
      /\ (Failed(o) \/ Attempt(o) \notin DOMAIN Order)
  BY DEF TypeOK, Reports
<1>2. op'[o].step = "reported" /\ op'[o].entries = op[o].entries /\ op'[o].recs = op[o].recs
      /\ op'[o].digest = op[o].digest
  BY <1>1 DEF Operation
<1>3. ~Executes(o)' /\ Entries(o)' = Entries(o) /\ (Passed(o)' <=> Passed(o)) /\ (Alone' <=> Alone)
      /\ (Still' <=> Still) /\ (Settled' <=> Settled)
  BY <1>1, <1>2 DEF Executes, Entries, Passed, Failed, Alone, Still, Settled
<1>4. Len(op[o].recs) = Len(Order)
  BY <1>1 DEF OpInv, Approved
<1>5. AllMerged(o)'
  <2>1. Passed(o) => Len(op[o].entries) = Len(Order)
    BY <1>1, <1>4, Typed, OrderFacts DEF Passed, Attempt
  <2> QED BY <1>2, <1>3, <2>1 DEF AllMerged
<1>6. Previewed(o)' /\ Approved(o)' /\ OnBase(o)' /\ Reading(o)' /\ Undisturbed(o)'
  BY <1>1, <1>2, <1>3, <1>4 DEF OpInv, Previewed, Approved, OnBase, Reading, Undisturbed
<1>7. Brought(o)' /\ (Alone => Confirmed(o)')
  BY <1>1, <1>2, <1>3 DEF OpInv, Brought, Confirmed
<1> QED BY <1>3, <1>5, <1>6, <1>7 DEF OpInv

LEMMA ReadsBackKeeps ==
  ASSUME TypeOK, NEW o \in Operators, OpInv(o), ReadsBack(o)
  PROVE  OpInv(o)'
<1> DEFINE last == Len(op[o].entries)
           differs == ShaOf(Order[last]) # op[o].recs[last].sha
<1>1. op \in [Operators -> Operation] /\ op[o] \in Operation /\ op[o].step = "reads" /\ op[o].entries # <<>>
      /\ UNCHANGED <<faults, source, fetched, base>>
  BY DEF TypeOK, ReadsBack, OpInv, Reading
<1>2. op[o].entries \in Seq(Entry) /\ last \in 1..Len(op[o].entries) /\ last \in DOMAIN op[o].recs
      /\ Entries(o) = 1..Len(op[o].entries)
  BY <1>1, Typed
<1>3. PICK integrated : ReadBack(o, integrated) /\ integrated \in {differs, None}
  BY DEF ReadsBack
<1> DEFINE entry == [op[o].entries[last] EXCEPT !.integrated = integrated]
           entries == [op[o].entries EXCEPT ![last] = entry]
<1>4. op'[o] = [op[o] EXCEPT !.step = "merges", !.entries = entries]
  BY <1>1, <1>2, <1>3 DEF ReadBack
<1>5. op[o].entries[last] \in Entry
  BY <1>2
<1>6. entry.integrated = integrated /\ entry.got = op[o].entries[last].got /\ entry.ok = op[o].entries[last].ok
  BY <1>5 DEF Entry
<1> HIDE DEF entry
<1>7. /\ Len(entries) = Len(op[o].entries) /\ DOMAIN entries = Entries(o)
      /\ \A i \in Entries(o) : entries[i] = IF i = last THEN entry ELSE op[o].entries[i]
  BY <1>2
<1> HIDE DEF entries, last, differs
<1>8. op'[o].step = "merges" /\ op'[o].recs = op[o].recs /\ op'[o].entries = entries
      /\ op'[o].digest = op[o].digest
  BY <1>1, <1>4 DEF Operation
<1>9. Executes(o) /\ Executes(o)' /\ Entries(o)' = Entries(o) /\ (Alone' <=> Alone)
      /\ (Still' <=> Still) /\ (Settled' <=> Settled)
  BY <1>1, <1>7, <1>8 DEF Executes, Entries, Alone, Still, Settled
<1>10. Previewed(o)' /\ Approved(o)' /\ OnBase(o)' /\ Reading(o)' /\ AllMerged(o)'
  BY <1>1, <1>8, <1>9 DEF OpInv, Previewed, Approved, OnBase, Reading, AllMerged, RefIn
<1>11. Brought(o)'
  BY <1>1, <1>6, <1>7, <1>8, <1>9 DEF OpInv, Brought
<1>12. Alone => Undisturbed(o)'
  BY <1>1, <1>7, <1>8, <1>9 DEF OpInv, Undisturbed, ShaOf
<1>13. Alone => Confirmed(o)'
  <2> SUFFICES ASSUME Alone, NEW i \in Entries(o), entries[i].ok, entries[i].integrated # None
               PROVE  entries[i].integrated <=> entries[i].got # 0
    BY <1>8, <1>9 DEF Confirmed
  <2>1. CASE i # last
    BY <1>7, <2>1 DEF OpInv, Confirmed
  <2>2. CASE i = last
    <3>1. integrated = differs
      BY <1>3, <1>6, <1>7, <2>2
    <3>2. op[o].entries[last].got = 0 <=> ShaOf(Order[last]) = op[o].recs[last].sha
      BY <1>1, <1>2, <1>9 DEF OpInv, Undisturbed, last
    <3>3. differs <=> op[o].entries[last].got # 0
      BY <3>2 DEF differs
    <3> QED BY <1>6, <1>7, <2>2, <3>1, <3>3
  <2> QED BY <2>1, <2>2
<1> QED BY <1>9, <1>10, <1>11, <1>12, <1>13 DEF OpInv

LEMMA AttemptKeeps ==
  ASSUME TypeOK, TypeOK', NEW o \in Operators, OpInv(o), Merges(o) \/ MergeStops(o) \/ MergeTimesOut(o)
  PROVE  OpInv(o)'
<1> DEFINE last == Attempt(o)
           r == Order[last]
<1>1. Attempts(o)
  BY Attempting
<1>2. PICK e \in Entry, step \in {"merges", "reads"} : AttemptSays(o, e, step, r)
  BY Attempting
<1>3. /\ last \in 1..Len(Order) /\ last = Len(op[o].entries) + 1 /\ Len(op[o].recs) = Len(Order)
      /\ r \in Repos /\ op[o].step = "merges" /\ Executes(o)
      /\ op[o].recs[last].source \in Commits /\ Len(op[o].entries) < Len(op[o].recs)
  BY <1>1, Attempted
<1>4. Enter(o, e, step) /\ Advances /\ UNCHANGED <<faults, source, fetched>>
  BY <1>2 DEF AttemptSays
<1>5. /\ op'[o].recs = op[o].recs /\ op'[o].digest = op[o].digest /\ op'[o].step = step /\ Len(op'[o].entries) = last
      /\ (\A i \in 1..Len(op[o].entries) : op'[o].entries[i] = op[o].entries[i])
      /\ op'[o].entries[last] = e
  BY <1>3, <1>4, Entered
<1>6. /\ Entries(o) = 1..Len(op[o].entries) /\ Entries(o)' = 1..last /\ Len(op[o].entries) \in Nat
      /\ DOMAIN op[o].recs = 1..Len(Order) /\ DOMAIN Order = 1..Len(Order)
  BY <1>3, <1>5, Typed, TypedNext, OrderFacts
<1> HIDE DEF last, r
<1>7. Executes(o)' /\ (Alone' <=> Alone) /\ (Still' <=> Still) /\ (Settled' <=> Settled) /\ r = Order[last]
  BY <1>4, <1>5 DEF Executes, Alone, Still, Settled, r
<1>8. \A i \in 1..last : i # last => i \in Entries(o)
  BY <1>3, <1>6
<1>9. \A i \in 1..Len(Order) : Order[i] \in Repos /\ (i # last => Order[i] # r)
  BY <1>3, <1>6, <1>7, OrderFacts, OrderNamesOnce
<1>10. Previewed(o)' /\ Approved(o)' /\ OnBase(o)'
  BY <1>3, <1>4, <1>5, <1>6, <1>7, <1>9 DEF OpInv, Previewed, Approved, OnBase, Advances, Grows, RefIn
<1>11. Reading(o)' /\ AllMerged(o)'
  <2>1. op'[o].entries # <<>>
    BY <1>3, <1>5
  <2> QED BY <1>5, <2>1 DEF Reading, AllMerged
<1>12. Brought(o)'
  <2> SUFFICES ASSUME NEW i \in 1..last
               PROVE  LET now == op'[o].entries[i]
                      IN  /\ now.got = 0 \/ now.got >= op[o].recs[i].source
                          /\ Still => now.got \in {0, op[o].recs[i].source}
                          /\ Settled /\ now.ok => base'[Order[i]].merged >= op[o].recs[i].source
    BY <1>5, <1>6, <1>7 DEF Brought
  <2>1. CASE i = last
    BY <1>2, <1>5, <1>7, <2>1 DEF AttemptSays, last
  <2>2. CASE i # last
    <3>1. i \in Entries(o) /\ op'[o].entries[i] = op[o].entries[i] /\ i \in DOMAIN Order /\ Order[i] \in Repos
          /\ op[o].recs[i] \in Record
      BY <1>3, <1>5, <1>6, <1>8, <1>9, <2>2, Typed
    <3>2. op[o].recs[i].source \in Nat
      BY <3>1, MergeConstants DEF MergeConstants, Record, Commits
    <3>3. base[Order[i]].merged \in Nat
      BY <3>1, Typed
    <3>4. base'[Order[i]].merged \in Nat /\ base'[Order[i]].merged >= base[Order[i]].merged
      BY <1>4, <3>1 DEF Advances, Grows
    <3> QED BY <3>1, <3>2, <3>3, <3>4 DEF OpInv, Brought
  <2> QED BY <2>1, <2>2
<1>13. Alone => Undisturbed(o)'
  <2> SUFFICES ASSUME Alone, NEW i \in 1..Len(Order)
               PROVE  /\ i > last => ShaOf(Order[i])' = op[o].recs[i].sha
                      /\ step = "reads" /\ i = last
                           => (op'[o].entries[i].got = 0 <=> ShaOf(Order[i])' = op[o].recs[i].sha)
    BY <1>5, <1>6 DEF Undisturbed
  <2>1. \A q \in Repos : base'[q].merged = base[q].merged <=> ShaOf(q)' = ShaOf(q)
    BY <1>4 DEF ShaOf, Advances, Grows
  <2>2. i >= last => ShaOf(Order[i]) = op[o].recs[i].sha
    BY <1>3, <1>6 DEF OpInv, Undisturbed
  <2>3. CASE i > last
    <3>1. i # last /\ Order[i] \in Repos \ {r}
      BY <1>3, <1>9, <2>3
    <3>2. base'[Order[i]].merged = base[Order[i]].merged
      BY <1>2, <3>1 DEF AttemptSays
    <3> QED BY <1>3, <2>1, <2>2, <2>3, <3>1, <3>2
  <2>4. CASE i = last
    BY <1>2, <1>3, <1>5, <1>7, <2>1, <2>2, <2>4 DEF AttemptSays, Alone
  <2>5. CASE i < last
    BY <1>3, <2>5
  <2> QED BY <1>3, <2>3, <2>4, <2>5
<1>14. Alone => Confirmed(o)'
  <2> SUFFICES ASSUME Alone, NEW i \in 1..last, op'[o].entries[i].ok, op'[o].entries[i].integrated # None
               PROVE  op'[o].entries[i].integrated <=> op'[o].entries[i].got # 0
    BY <1>6 DEF Confirmed
  <2>1. CASE i = last
    BY <1>2, <1>5, <2>1 DEF AttemptSays
  <2>2. CASE i # last
    BY <1>5, <1>6, <1>8, <2>2 DEF OpInv, Confirmed
  <2> QED BY <2>1, <2>2
<1> QED BY <1>7, <1>10, <1>11, <1>12, <1>13, <1>14 DEF OpInv

LEMMA Acted ==
  ASSUME TypeOK, TypeOK', NEW o \in Operators, OpInv(o), OperatorStep(o)
  PROVE  OpInv(o)'
<1>1. CASE Approves(o)
  <2> DEFINE x == [IdleOp EXCEPT !.step = "approved", !.digest = Digest(Recs, ViewOf(Recs))]
  <2>1. op'[o] = x
    BY <1>1 DEF Approves, TypeOK
  <2>2. x.step = "approved" /\ x.recs = <<>> /\ x.entries = <<>> /\ x.digest \in Seq(Record) \X Views
    BY DigestTyped, IdleFacts
  <2> QED BY <2>1, <2>2, Nothing
<1>2. CASE IsKilled(o)
  <2>1. op'[o] = IdleOp
    BY <1>2 DEF IsKilled, TypeOK
  <2> QED BY <2>1, IdleFacts, Nothing
<1>3. CASE MergeStep(o)
  BY <1>3, InspectsKeeps, ComparesKeeps, AttemptKeeps, ReadsBackKeeps, ReportsKeeps DEF MergeStep
<1> QED BY <1>1, <1>2, <1>3 DEF OperatorStep

\* What an operator does to the others, and to the bases.
LEMMA OperatorFrame ==
  ASSUME TypeOK, NEW o \in Operators, OpInv(o), OperatorStep(o)
  PROVE  /\ \A p \in Operators \ {o} : op'[p] = op[p]
         /\ Advances /\ UNCHANGED <<faults, source, wip, fetched, verifier, evidence, critic>>
         /\ op[o] = IdleOp => Approves(o)
         /\ Approves(o) => base' = base /\ ("overlap" \in faults \/ \A p \in Operators \ {o} : op[p] = IdleOp)
<1>1. CASE LookingOn(o)
  <2>1. \A p \in Operators \ {o} : op'[p] = op[p]
    BY <1>1, LookedOn DEF TypeOK
  <2>2. op[o] = IdleOp => Approves(o)
    BY <1>1, IdleFacts DEF LookingOn, Inspects, Compares, ReadsBack, Reports, IsKilled
  <2> QED BY <1>1, <2>1, <2>2, LookingOnSays, Unmerged DEF Approves
<1>2. CASE Merges(o) \/ MergeStops(o) \/ MergeTimesOut(o)
  <2>1. Attempts(o) /\ \E e \in Entry, step \in {"merges", "reads"} : AttemptSays(o, e, step, Order[Attempt(o)])
    BY <1>2, Attempting
  <2>2. op[o] # IdleOp /\ op[o].step = "merges"
    BY <2>1, Attempted
  <2>3. Advances /\ UNCHANGED <<faults, source, wip, fetched, verifier, evidence, critic>>
        /\ \A p \in Operators \ {o} : op'[p] = op[p]
    BY <2>1 DEF AttemptSays, Enter, TypeOK
  <2> QED BY <2>2, <2>3 DEF Approves
<1> QED BY <1>1, <1>2, OperatorStepIs

LEMMA OperatorKeeps ==
  ASSUME IInv, TypeOK', NEW o \in Operators, OperatorStep(o)
  PROVE  (\A p \in Operators : OpInv(p)') /\ OneByOne' /\ HomeBases' /\ (Settled => NeverAstray)'
<1>1. TypeOK /\ OpInv(o) /\ OneByOne /\ HomeBases /\ (Settled => NeverAstray)
  BY DEF IInv
<1>2. /\ \A p \in Operators \ {o} : op'[p] = op[p]
      /\ Advances /\ UNCHANGED <<faults, source, fetched>>
      /\ op[o] = IdleOp => Approves(o)
      /\ Approves(o) => base' = base /\ ("overlap" \in faults \/ \A p \in Operators \ {o} : op[p] = IdleOp)
  BY <1>1, OperatorFrame
<1>3. ASSUME NEW p \in Operators \ {o} PROVE OpInv(p)'
  <2>1. Alone /\ Executes(p) => base' = base
    <3> SUFFICES ASSUME Alone, Executes(p) PROVE base' = base
      OBVIOUS
    <3>1. op[p] # IdleOp /\ "overlap" \notin faults
      BY IdleFacts DEF Executes, Alone
    <3>2. op[o] = IdleOp
      BY <1>1, <1>3, <3>1 DEF OneByOne
    <3> QED BY <1>2, <3>2
  <2>2. OpInv(p) /\ op'[p] = op[p]
    BY <1>2 DEF IInv
  <2>3. \A r \in Repos : RefIn(r)' = RefIn(r) /\ RefIn(r) \in Nat
    BY <1>1, <1>2, Typed DEF RefIn
  <2>4. \A r \in Repos : base'[r].on = base[r].on /\ base'[r].merged >= base[r].merged
    BY <1>2 DEF Advances, Grows
  <2>5. Executes(p) /\ Alone => \A r \in Repos : ShaOf(r)' = ShaOf(r)
    BY <2>1 DEF ShaOf
  <2> QED BY <1>1, <1>2, <1>3, <2>2, <2>3, <2>4, <2>5, Kept
<1>4. OpInv(o)'
  BY <1>1, Acted
<1>5. OneByOne'
  <2> SUFFICES ASSUME "overlap" \notin faults, NEW p \in Operators, NEW q \in Operators,
                      op'[p] # IdleOp, op'[q] # IdleOp
               PROVE  p = q
    BY <1>2 DEF OneByOne
  <2>1. CASE op[o] = IdleOp
    BY <1>2, <2>1
  <2>2. CASE op[o] # IdleOp
    BY <1>1, <1>2, <2>2 DEF OneByOne
  <2> QED BY <2>1, <2>2
<1>6. HomeBases' /\ (Settled => NeverAstray)'
  BY <1>1, <1>2 DEF HomeBases, Settled, Still, NeverAstray, Advances, Grows
<1> QED BY <1>3, <1>4, <1>5, <1>6

LEMMA WorldKeeps ==
  ASSUME IInv, TypeOK', NEW r \in Repos, World(r)
  PROVE  (\A p \in Operators : OpInv(p)') /\ OneByOne' /\ HomeBases' /\ (Settled => NeverAstray)'
<1>1. TypeOK /\ OneByOne /\ HomeBases /\ (Settled => NeverAstray) /\ \A p \in Operators : OpInv(p)
  BY DEF IInv
<1>2. op' = op /\ faults' = faults
  BY DEF World, WorkerCommits, Edits, Fetches, OthersCommit, Disturbs, Clears
<1>3. base \in [Repos -> Base] /\ base[r] \in Base /\ source[r] \in Nat /\ source'[r] \in Nat
  BY <1>1, Typed DEF TypeOK
<1>4. /\ \A q \in Repos : base'[q].merged = base[q].merged /\ base'[q].astray = base[q].astray
      /\ \A q \in Repos \ {r} : base'[q] = base[q]
  BY <1>3 DEF World, WorkerCommits, Edits, Fetches, OthersCommit, Disturbs, Clears, Base
<1>5. \A q \in Repos : RefIn(q)' >= RefIn(q)
  <2> SUFFICES ASSUME NEW q \in Repos PROVE RefIn(q)' >= RefIn(q)
    OBVIOUS
  <2>1. RefIn(q) \in Nat /\ RefIn(q) <= source[q] /\ source[q] \in Nat
    BY <1>1, Typed
  <2>2. CASE WorkerCommits(r)
    BY <1>1, <2>1, <2>2 DEF WorkerCommits, RefIn, TypeOK
  <2>3. CASE Fetches(r)
    BY <1>1, <2>1, <2>3 DEF Fetches, RefIn, TypeOK
  <2>4. CASE UNCHANGED <<source, fetched>>
    BY <2>1, <2>4 DEF RefIn
  <2> QED BY <2>2, <2>3, <2>4 DEF World, Edits, OthersCommit, Disturbs, Clears
<1>6. "dirties" \notin faults => \A q \in Repos : base'[q].on = base[q].on
  <2> SUFFICES ASSUME "dirties" \notin faults PROVE base'[r].on = base[r].on
    BY <1>4
  <2>1. CASE UNCHANGED base
    BY <2>1
  <2>2. CASE OthersCommit(r)
    BY <1>3, <2>2 DEF OthersCommit, Base
  <2>3. CASE Clears(r)
    BY <1>1, <1>3, <2>3 DEF Clears, HomeBases, Base
  <2> QED BY <2>1, <2>2, <2>3 DEF World, WorkerCommits, Edits, Fetches, Disturbs, Fault
<1>7. ASSUME NEW p \in Operators PROVE OpInv(p)'
  <2>1. ASSUME Executes(p), Still
        PROVE  /\ OthersCommit(r) /\ "amid" \in faults
               /\ \A q \in Repos : RefIn(q)' = RefIn(q) /\ base'[q].on = base[q].on
    <3>1. ~MayMove
      BY <1>7, <2>1 DEF MayMove, Quiet, Still
    <3>2. OthersCommit(r) /\ "amid" \in faults
      BY <1>7, <2>1, <3>1 DEF World, WorkerCommits, Edits, MayWork, Fetches, OthersCommit, Disturbs, Clears, Quiet
    <3>3. base'[r].on = base[r].on
      BY <1>3, <3>2 DEF OthersCommit, Base
    <3> QED BY <1>4, <3>2, <3>3 DEF OthersCommit, RefIn
  <2>2. Executes(p) /\ Settled => \A q \in Repos : base'[q].on = base[q].on
    BY <1>6, <2>1 DEF Settled
  <2>3. Executes(p) /\ Alone => \A q \in Repos : ShaOf(q)' = ShaOf(q)
    <3> SUFFICES ASSUME Executes(p), Alone PROVE ShaOf(r)' = ShaOf(r)
      BY <1>4 DEF ShaOf
    <3>1. base'[r].on = base[r].on
      BY <2>2 DEF Alone
    <3>2. ~OthersCommit(r)
      BY <1>7 DEF Alone, OthersCommit, Quiet
    <3>3. base'[r].own = base[r].own
      BY <1>3, <3>2 DEF World, WorkerCommits, Edits, Fetches, Disturbs, Clears, Base
    <3> QED BY <1>4, <3>1, <3>3 DEF ShaOf
  <2>4. \A q \in Repos : base'[q].merged >= base[q].merged
    BY <1>1, <1>4, Typed
  <2> QED BY <1>1, <1>2, <1>5, <1>7, <2>1, <2>2, <2>3, <2>4, Kept
<1>8. OneByOne' /\ HomeBases' /\ (Settled => NeverAstray)'
  BY <1>1, <1>2, <1>4, <1>6 DEF OneByOne, HomeBases, NeverAstray, Settled, Still
<1> QED BY <1>7, <1>8
-----------------------------------------------------------------------------
(* What a verification covers *)

\* The event of a verification is the only one of its number.
LEMMA DatedKept ==
  ASSUME TypeOK, TypeOK', NEW p \in Operators, OpInv(p), Dated(p), faults' = faults,
         op'[p].step # "idle" => op[p].step # "idle" /\ op'[p].digest = op[p].digest,
         evidence # None =>
           /\ evidence' # None
           /\ \/ evidence'.no > evidence.no
              \/ evidence'.no = evidence.no /\ evidence'.at = evidence.at /\ evidence'.passed = evidence.passed
  PROVE  Dated(p)'
<1> SUFFICES ASSUME op'[p].step # "idle", op'[p].digest[2] # None
             PROVE  /\ evidence' # None /\ op'[p].digest[2].no <= evidence'.no
                    /\ op'[p].digest[2].no = evidence'.no =>
                         /\ op'[p].digest[2].passed = evidence'.passed
                         /\ \A i \in DOMAIN Order :
                              /\ op'[p].digest[1][i].source >= evidence'.at[Order[i]]
                              /\ "second" \notin faults /\ ~op'[p].digest[2].stale
                                   => op'[p].digest[1][i].source <= evidence'.at[Order[i]]
  BY DEF Dated
<1>1. op[p].step # "idle" /\ op'[p].digest = op[p].digest /\ op[p].digest[2] # None /\ evidence # None
      /\ op[p].digest[2].no <= evidence.no
  BY DEF Dated
<1>2. op[p].digest[2] \in Views
  BY <1>1 DEF OpInv, Approved
<1>3. op[p].digest[2].no \in Nat /\ evidence.no \in Nat /\ evidence'.no \in Nat
  BY <1>1, <1>2, MergeConstants DEF Views, TypeOK, Evidence, MergeConstants
<1> QED BY <1>1, <1>3 DEF Dated

\* The commits that the evidence names are numbers.
LEMMA EvidenceTyped ==
  ASSUME TypeOK, evidence # None, NEW r \in Repos
  PROVE  evidence.at[r] \in Nat /\ evidence.dated[r] \in Nat /\ evidence.seen[r] \in Worktree
<1>1. evidence \in Evidence
  BY DEF TypeOK
<1>2. /\ evidence.at \in [Repos -> Commits] /\ evidence.dated \in [Repos -> Commits]
      /\ evidence.seen \in [Repos -> Worktree]
  BY <1>1 DEF Evidence
<1>3. Commits \subseteq Nat
  BY MergeConstants DEF MergeConstants, Commits
<1> QED BY <1>2, <1>3

\* What an approval says of the evidence there is.
LEMMA DatedApproval ==
  ASSUME TypeOK, NEW o \in Operators, EvidenceInv, Approves(o)
  PROVE  Dated(o)'
<1>1. op'[o].digest = <<Recs, ViewOf(Recs)>> /\ UNCHANGED <<faults, source, evidence>>
  BY DEF Approves, TypeOK, IdleOp, Digest
<1>2. \A i \in DOMAIN Order : Recs[i].source = source[Order[i]] /\ Order[i] \in Repos
  BY OrderFacts DEF Recs, RecordOf
<1>3. DOMAIN Recs = DOMAIN Order
  BY DEF Recs
<1>4. ASSUME ViewOf(Recs) # None
      PROVE  /\ evidence # None
             /\ ViewOf(Recs) = [no |-> evidence.no, passed |-> evidence.passed, stale |-> Stale(Recs)]
  BY <1>4 DEF ViewOf
<1>5. ASSUME evidence # None, NEW i \in DOMAIN Order
      PROVE  /\ source[Order[i]] >= evidence.at[Order[i]]
             /\ "second" \notin faults /\ ~Stale(Recs) => source[Order[i]] <= evidence.at[Order[i]]
  <2>1. source[Order[i]] \in Nat /\ evidence.dated[Order[i]] \in Nat /\ evidence.at[Order[i]] \in Nat
    BY <1>2, <1>5, Typed, EvidenceTyped
  <2>2. ~Stale(Recs) => ~(source[Order[i]] > evidence.dated[Order[i]])
    BY <1>2, <1>3 DEF Stale
  <2>3. evidence.at[Order[i]] <= source[Order[i]]
        /\ ("second" \notin faults => evidence.dated[Order[i]] = evidence.at[Order[i]])
    BY <1>2, <1>5 DEF EvidenceInv
  <2> QED BY <2>1, <2>2, <2>3
<1> HIDE DEF Recs
<1>6. ASSUME evidence # None PROVE evidence.no <= evidence.no
  BY <1>6, MergeConstants DEF TypeOK, Evidence, MergeConstants
<1>7. op'[o].digest[1] = Recs /\ op'[o].digest[2] = ViewOf(Recs)
  BY <1>1
<1>8. ASSUME ViewOf(Recs) # None
      PROVE  ViewOf(Recs).no = evidence.no /\ ViewOf(Recs).passed = evidence.passed
             /\ (ViewOf(Recs).stale <=> Stale(Recs))
  BY <1>4, <1>8
<1> QED BY <1>1, <1>2, <1>4, <1>5, <1>6, <1>7, <1>8 DEF Dated

LEMMA VerifyKeeps ==
  ASSUME IInv, TypeOK', VerifyStep
  PROVE  EvidenceIInv'
<1>1. TypeOK /\ NoEdits /\ VerifierInv /\ EvidenceInv /\ CriticInv /\ UNCHANGED <<faults, source, wip, op>>
      /\ \A o \in Operators : OpInv(o) /\ Dated(o)
  BY DEF IInv, EvidenceIInv, VerifyStep, VerifyStarts, VerifyRuns, VerifyRecords, CriticStarts
<1>2. source \in [Repos -> 1..MaxWork] /\ verifier.seen \in [Repos -> Worktree] /\ MaxWork \in Nat
      /\ verifier.next \in 1..Len(Order) + 1
  BY <1>1, MergeConstants DEF TypeOK, MergeConstants
<1>3. NoEdits' /\ \A r \in Repos : WorktreeOf(r)' = WorktreeOf(r)
  BY <1>1 DEF NoEdits, WorktreeOf
<1>4. ASSUME evidence' = evidence PROVE \A o \in Operators : Dated(o)'
  <2>1. evidence # None => evidence' # None /\ evidence'.no = evidence.no /\ evidence'.at = evidence.at
                           /\ evidence'.passed = evidence.passed
    BY <1>4
  <2> QED BY <1>1, <2>1, DatedKept
<1>5. CASE VerifyStarts
  BY <1>1, <1>3, <1>4, <1>5, OrderFacts DEF VerifyStarts, VerifierInv, EvidenceInv, CriticInv, EvidenceIInv
<1>6. CASE VerifyRuns
  <2> DEFINE r == Order[verifier.next]
  <2>1. verifier.step = "runs" /\ verifier.next \in 1..Len(Order) /\ r \in Repos
        /\ UNCHANGED <<evidence, critic>>
    BY <1>6, OrderFacts DEF VerifyRuns
  <2>2. verifier'.step = "runs" /\ verifier'.next = verifier.next + 1
        /\ verifier'.seen = [verifier.seen EXCEPT ![r] = WorktreeOf(r)]
    BY <1>1, <1>6, <2>1 DEF VerifyRuns, TypeOK
  <2>3. ASSUME "verifying" \notin faults, NEW i \in DOMAIN Order, i < verifier'.next
        PROVE  verifier'.seen[Order[i]] = WorktreeOf(Order[i])
    <3>1. Order[i] \in Repos /\ (i = verifier.next \/ i < verifier.next)
      BY <2>1, <2>2, <2>3, OrderFacts
    <3> QED BY <1>1, <1>2, <2>1, <2>2, <2>3, <3>1 DEF VerifierInv
  <2>4. VerifierInv'
    BY <1>1, <1>3, <2>1, <2>2, <2>3, OrderFacts DEF VerifierInv
  <2> QED BY <1>1, <1>3, <1>4, <2>1, <2>4 DEF EvidenceInv, CriticInv, EvidenceIInv
<1>7. CASE VerifyRecords
  <2>1. verifier.step = "runs" /\ verifier.next = Len(Order) + 1 /\ critic' = critic
    BY <1>2, <1>7, OrderFacts DEF VerifyRecords
  <2>2. "verifying" \notin faults => \A r \in Repos : verifier.seen[r] = WorktreeOf(r)
    <3> SUFFICES ASSUME "verifying" \notin faults PROVE \A r \in Repos : verifier.seen[r] = WorktreeOf(r)
      OBVIOUS
    <3>1. \A i \in DOMAIN Order : i < verifier.next
      BY <2>1, OrderFacts
    <3>2. \A i \in DOMAIN Order : verifier.seen[Order[i]] = WorktreeOf(Order[i])
      BY <1>1, <2>1, <3>1 DEF VerifierInv
    <3> QED BY <3>2 DEF Repos
  <2> DEFINE new == [no |-> IF evidence = None THEN 1 ELSE evidence.no + 1,
                     seen |-> verifier.seen, at |-> source, dated |-> source, passed |-> verifier.ok]
  <2>3. CASE evidence' = evidence /\ verifier'.step = "idle"
    BY <1>1, <1>3, <1>4, <2>1, <2>3 DEF VerifierInv, EvidenceInv, CriticInv, EvidenceIInv
  <2>4. CASE evidence' = new /\ verifier'.step = AfterEvent
    <3>1. evidence'.seen = verifier.seen /\ evidence'.at = source /\ evidence'.dated = source
          /\ evidence'.passed = verifier.ok
          /\ evidence'.no = (IF evidence = None THEN 1 ELSE evidence.no + 1)
      BY <2>4
    <3>2. evidence' # None
      <4>1. evidence # None => evidence.no < MaxEvidence /\ evidence.no \in 1..MaxEvidence
        BY <1>1, <2>1 DEF VerifierInv, TypeOK, Evidence
      <4>2. (IF evidence = None THEN 1 ELSE evidence.no + 1) \in 1..MaxEvidence
        BY <4>1, MergeConstants DEF MergeConstants
      <4>3. verifier.ok \in BOOLEAN /\ source \in [Repos -> Commits]
        BY <1>1, <1>2 DEF TypeOK, Commits
      <4>4. new \in Evidence
        BY <1>2, <4>2, <4>3 DEF Evidence
      <4> QED BY <2>4, <4>4, NoneIsNothingElse
    <3>3. verifier'.step = "critic" => evidence'.passed
      BY <2>4, <3>1 DEF AfterEvent
    <3>4. verifier'.step # "runs"
      BY <2>4 DEF AfterEvent
    <3>5. evidence # None => evidence.no \in Nat /\ evidence'.no > evidence.no
      <4>1. evidence # None => evidence.no \in Nat
        BY <1>1, MergeConstants DEF TypeOK, Evidence, MergeConstants
      <4> QED BY <3>1, <4>1
    <3>6. VerifierInv'
      BY <1>1, <1>3, <2>2, <3>1, <3>2, <3>3, <3>4 DEF VerifierInv
    <3>7. EvidenceInv'
      <4> SUFFICES ASSUME NEW r \in Repos
                   PROVE  /\ source[r] <= source[r]
                          /\ "verifying" \notin faults => verifier.seen[r].commit = source[r]
                          /\ faults \cap {"verifying", "edits"} = {} => ~verifier.seen[r].wip
        BY <1>1, <3>1 DEF EvidenceInv
      <4>1. WorktreeOf(r).commit = source[r] /\ WorktreeOf(r).wip = wip[r]
        BY DEF WorktreeOf
      <4>2. source[r] \in Nat
        BY <1>2
      <4> QED BY <1>1, <2>2, <4>1, <4>2 DEF NoEdits
    <3>8. CriticInv'
      <4>1. critic # None => evidence # None /\ critic.no <= evidence.no /\ critic.no \in Nat /\ evidence'.no \in Nat
        BY <1>1, <3>2, MergeConstants DEF CriticInv, TypeOK, Evidence, MergeConstants
      <4> QED BY <2>1, <3>2, <3>5, <4>1 DEF CriticInv
    <3>9. \A o \in Operators : Dated(o)'
      BY <1>1, <3>2, <3>5, DatedKept
    <3> QED BY <1>3, <3>6, <3>7, <3>8, <3>9 DEF EvidenceIInv
  <2> QED BY <1>1, <1>7, <2>3, <2>4 DEF VerifyRecords, TypeOK
<1>8. CASE CriticStarts
  <2>1. verifier.step = "critic" /\ verifier'.step = "idle" /\ critic' = ReviewOf /\ evidence' = evidence
    BY <1>1, <1>8 DEF CriticStarts, TypeOK
  <2>2. evidence # None /\ evidence.passed /\ evidence.no \in Nat /\ evidence.seen \in [Repos -> Worktree]
        /\ ("verifying" \notin faults => \A r \in Repos : evidence.seen[r] = WorktreeOf(r))
    BY <1>1, <2>1, MergeConstants DEF VerifierInv, TypeOK, Evidence, MergeConstants
  <2>3. critic'.no = evidence.no /\ critic'.seen = [r \in Repos |-> WorktreeOf(r)]
    BY <2>1 DEF ReviewOf
  <2>4. "verifying" \notin faults => critic'.seen = evidence.seen
    BY <2>2, <2>3
  <2>5. CriticInv'
    BY <1>1, <2>1, <2>2, <2>3, <2>4 DEF CriticInv
  <2> QED BY <1>1, <1>3, <1>4, <2>1, <2>5 DEF VerifierInv, EvidenceInv, EvidenceIInv
<1> QED BY <1>5, <1>6, <1>7, <1>8 DEF VerifyStep

\* New commits make evidence older than the work, or leave it as it is.
LEMMA CommitsKeepEvidence ==
  ASSUME IInv, TypeOK', NEW r \in Repos, World(r)
  PROVE  EvidenceIInv'
<1>1. TypeOK /\ NoEdits /\ VerifierInv /\ EvidenceInv /\ CriticInv
      /\ UNCHANGED <<faults, verifier, critic, op>> /\ \A o \in Operators : OpInv(o) /\ Dated(o)
  BY DEF IInv, EvidenceIInv, World, WorkerCommits, Edits, Fetches, OthersCommit, Disturbs, Clears
<1>2. \A q \in Repos : source[q] \in Nat /\ source'[q] \in Nat /\ source'[q] >= source[q]
  <2>1. CASE WorkerCommits(r)
    BY <1>1, <2>1, Typed, TypedNext DEF WorkerCommits, TypeOK
  <2>2. CASE source' = source
    BY <1>1, <2>2, Typed
  <2> QED BY <2>1, <2>2 DEF World, Edits, Fetches, OthersCommit, Disturbs, Clears
<1>3. \/ evidence' = evidence
      \/ /\ "second" \in faults /\ evidence # None /\ evidence' \in Evidence
         /\ evidence'.no = evidence.no /\ evidence'.seen = evidence.seen
         /\ evidence'.at = evidence.at /\ evidence'.passed = evidence.passed
  <2>1. CASE WorkerCommits(r) /\ evidence' # evidence
    <3>1. Fault("second") /\ evidence # None /\ evidence.dated[r] = source[r] /\ source[r] < MaxWork
          /\ evidence' = [evidence EXCEPT !.dated[r] = @ + 1]
      BY <2>1 DEF WorkerCommits
    <3> QED BY <1>1, <3>1, SecondTypes DEF Fault
  <2> QED BY <2>1 DEF World, Edits, Fetches, OthersCommit, Disturbs, Clears
<1>4. (evidence' = None <=> evidence = None)
      /\ (evidence # None => evidence'.no = evidence.no /\ evidence'.seen = evidence.seen
                             /\ evidence'.at = evidence.at /\ evidence'.passed = evidence.passed)
  BY <1>3, NoneIsNothingElse
<1>5. NoEdits'
  BY <1>1 DEF NoEdits, World, WorkerCommits, Edits, Fetches, OthersCommit, Disturbs, Clears, TypeOK
<1>6. verifier.step # "idle" /\ "verifying" \notin faults => \A q \in Repos : WorktreeOf(q)' = WorktreeOf(q)
  BY DEF World, WorkerCommits, Edits, MayWork, Fetches, OthersCommit, Disturbs, Clears, WorktreeOf
<1>7. VerifierInv'
  BY <1>1, <1>4, <1>6, OrderFacts DEF VerifierInv
<1>8. EvidenceInv'
  <2> SUFFICES ASSUME evidence # None, NEW q \in Repos
               PROVE  /\ evidence.at[q] <= source'[q]
                      /\ "second" \notin faults => evidence'.dated[q] = evidence.at[q]
                      /\ "verifying" \notin faults => evidence.seen[q].commit = evidence.at[q]
                      /\ faults \cap {"verifying", "edits"} = {} => ~evidence.seen[q].wip
    BY <1>1, <1>4 DEF EvidenceInv
  <2>1. evidence.at[q] \in Nat
    BY <1>1, MergeConstants DEF TypeOK, Evidence, Commits, MergeConstants
  <2> QED BY <1>1, <1>2, <1>3, <2>1 DEF EvidenceInv
<1>9. CriticInv'
  BY <1>1, <1>4 DEF CriticInv
<1>10. \A o \in Operators : Dated(o)'
  BY <1>1, <1>4, DatedKept
<1> QED BY <1>5, <1>7, <1>8, <1>9, <1>10 DEF EvidenceIInv

LEMMA OperatorsKeepEvidence ==
  ASSUME IInv, TypeOK', NEW o \in Operators, OperatorStep(o)
  PROVE  EvidenceIInv'
<1>1. TypeOK /\ EvidenceIInv /\ \A p \in Operators : OpInv(p) /\ Dated(p)
  BY DEF IInv, EvidenceIInv
<1>2. (\A p \in Operators \ {o} : op'[p] = op[p]) /\ UNCHANGED <<faults, source, wip, verifier, evidence, critic>>
  BY <1>1, OperatorFrame
<1>3. NoEdits' /\ VerifierInv' /\ EvidenceInv' /\ CriticInv'
  BY <1>1, <1>2 DEF EvidenceIInv, NoEdits, VerifierInv, EvidenceInv, CriticInv, WorktreeOf
<1>4. evidence # None => evidence' # None /\ evidence'.no = evidence.no /\ evidence'.at = evidence.at
                         /\ evidence'.passed = evidence.passed
  BY <1>2
<1>5. ASSUME NEW p \in Operators PROVE Dated(p)'
  <2>1. CASE p # o
    BY <1>1, <1>2, <1>4, <2>1, DatedKept
  <2>2. CASE p = o /\ Approves(o)
    BY <1>1, <2>2, DatedApproval DEF EvidenceIInv
  <2>3. CASE p = o /\ (MergeStep(o) \/ IsKilled(o))
    <3>1. op'[o].step # "idle" => op[o].step # "idle" /\ op'[o].digest = op[o].digest
      BY <1>1, <2>3, DigestKept, IdleFacts
    <3> QED BY <1>1, <1>2, <1>4, <2>3, <3>1, DatedKept
  <2> QED BY <2>1, <2>2, <2>3 DEF OperatorStep
<1> QED BY <1>3, <1>5 DEF EvidenceIInv
-----------------------------------------------------------------------------
(* The theorems *)

LEMMA InitInv ==
  ASSUME Init
  PROVE  IInv
<1>1. /\ 1 \in 1..MaxWork /\ 0 \in Commits /\ 1 \in Commits /\ 0 \in 0..MaxOthers
      /\ MaxFaults \in 0..MaxFaults /\ 1 \in 1..Len(Order) + 1
  BY MergeConstants, OrderFacts DEF MergeConstants, Commits
<1>2. TypeOK
  <2>1. faults \in FaultCases /\ source \in [Repos -> 1..MaxWork] /\ fetched \in [Repos -> Commits]
        /\ wip \in [Repos -> BOOLEAN] /\ left \in 0..MaxFaults /\ evidence = None /\ critic = None
    BY <1>1 DEF Init
  <2>2. base \in [Repos -> Base] /\ \A r \in Repos : base[r].merged = 0
    BY <1>1 DEF Init, Base
  <2>3. verifier \in [step : {"idle", "runs", "critic"}, next : 1..Len(Order) + 1,
                      seen : [Repos -> Worktree], ok : BOOLEAN]
    BY <1>1 DEF Init, Unseen, Worktree
  <2>4. op \in [Operators -> Operation] /\ \A o \in Operators : OpTyped(op[o])
    BY IdleFacts DEF Init, OpTyped
  <2>5. \A r \in Repos : fetched[r] = 0 /\ source[r] = 1
    BY DEF Init
  <2> QED BY <2>1, <2>2, <2>3, <2>4, <2>5, MergeConstants DEF MergeConstants, TypeOK, OpTyped
<1>3. \A o \in Operators : op[o] = IdleOp
  BY DEF Init
<1>4. ASSUME NEW o \in Operators PROVE OpInv(o) /\ Dated(o)
  <2>1. op[o].step = "idle" /\ op[o].recs = <<>> /\ op[o].entries = <<>>
    BY <1>3, IdleFacts
  <2>2. Entries(o) = {}
    BY <2>1 DEF Entries
  <2> QED BY <2>1, <2>2 DEF OpInv, Previewed, Approved, OnBase, Reading, Brought, AllMerged,
        Undisturbed, Confirmed, Executes, Dated
<1>5. OneByOne /\ NeverAstray /\ HomeBases
  BY <1>3 DEF OneByOne, NeverAstray, HomeBases, Init
<1>6. NoEdits /\ VerifierInv /\ EvidenceInv /\ CriticInv
  BY DEF NoEdits, VerifierInv, EvidenceInv, CriticInv, Init
<1> QED BY <1>2, <1>4, <1>5, <1>6 DEF IInv, EvidenceIInv

LEMMA StepInv ==
  ASSUME IInv, [Next]_vars
  PROVE  IInv'
<1>1. CASE UNCHANGED vars
  <2>1. UNCHANGED <<faults, source, wip, fetched, base, verifier, evidence, critic, op, left>>
    BY <1>1 DEF vars, parts
  <2>2. TypeOK'
    BY <2>1 DEF IInv, TypeOK
  <2>3. ASSUME NEW o \in Operators PROVE OpInv(o)'
    <3>1. OpInv(o)
      BY DEF IInv
    <3> QED BY <2>1, <3>1 DEF OpInv, Previewed, Approved, OnBase, Reading, Brought, AllMerged, Undisturbed,
      Confirmed, Still, Settled, Alone, Executes, Entries, Passed, Failed, RefIn, ShaOf
  <2>4. (OneByOne /\ HomeBases /\ (Settled => NeverAstray))'
    BY <2>1 DEF IInv, OneByOne, HomeBases, NeverAstray, Settled, Still
  <2>5. EvidenceIInv'
    BY <2>1 DEF IInv, EvidenceIInv, NoEdits, VerifierInv, EvidenceInv, CriticInv, Dated, WorktreeOf
  <2> QED BY <2>2, <2>3, <2>4, <2>5 DEF IInv
<1>2. CASE Next
  <2>1. TypeOK /\ TypeOK'
    BY <1>2, TypeStep DEF IInv
  <2>2. ASSUME VerifyStep PROVE IInv'
    <3>1. UNCHANGED <<faults, source, fetched, base, op>>
      BY <2>2 DEF VerifyStep, VerifyStarts, VerifyRuns, VerifyRecords, CriticStarts
    <3>2. \A r \in Repos : RefIn(r)' = RefIn(r) /\ RefIn(r) \in Nat /\ ShaOf(r)' = ShaOf(r)
                           /\ base[r].merged \in Nat
      BY <2>1, <3>1, Typed DEF RefIn, ShaOf
    <3>3. \A p \in Operators : OpInv(p)'
      BY <2>1, <3>1, <3>2, Kept DEF IInv
    <3>4. OneByOne' /\ HomeBases' /\ (Settled => NeverAstray)'
      BY <3>1 DEF IInv, OneByOne, HomeBases, NeverAstray, Settled, Still
    <3> QED BY <2>1, <2>2, <3>3, <3>4, VerifyKeeps DEF IInv
  <2>3. ASSUME NEW o \in Operators, OperatorStep(o) PROVE IInv'
    BY <2>1, <2>3, OperatorKeeps, OperatorsKeepEvidence DEF IInv
  <2>4. ASSUME NEW r \in Repos, World(r) PROVE IInv'
    BY <2>1, <2>4, WorldKeeps, CommitsKeepEvidence DEF IInv
  <2> QED BY <1>2, <2>2, <2>3, <2>4 DEF Next, OperatorStep
<1> QED BY <1>1, <1>2

\* The inductive invariant: what an execution knows of the world, and what the
\* last event knows of the branches, whatever may go wrong.
THEOREM Invariance == Spec => []IInv
<1>1. Init => IInv
  BY InitInv
<1>2. IInv /\ [Next]_vars => IInv'
  BY StepInv
<1> QED BY <1>1, <1>2, PTL DEF Spec

\* Every report of a merge is true: the approved commits were merged, or ones
\* that contain them, into base branches only, where it says so, and its status
\* follows; each part unless the fault that it names may happen
\* (commands.js:2164, 2560).
THEOREM TrueReports == Spec => []ReportsAreTrue
<1>1. ASSUME IInv PROVE ReportsAreTrue
  <2>1. TypeOK /\ (Settled => NeverAstray) /\ \A o \in Operators : OpInv(o)
    BY <1>1 DEF IInv
  <2>2. ASSUME NEW o \in Operators, NEW i \in Entries(o)
        PROVE  i \in DOMAIN Order /\ op[o].digest[1] = op[o].recs
    <3>1. op[o].step \notin {"idle", "approved"}
      BY <2>1, <2>2 DEF TypeOK, Entries
    <3>2. op[o].step \in {"merges", "reads", "reported"}
      BY <2>1, <3>1 DEF TypeOK, Operation
    <3> QED BY <2>1, <2>2, <3>2, Typed, OrderFacts DEF OpInv, Approved
  <2>3. (Still => ReportsWhatWasMerged) /\ ApprovedIsIn
    BY <2>1, <2>2 DEF ReportsWhatWasMerged, ApprovedIsIn, OpInv, Brought
  <2>4. Alone => IntegratedIsReal
    BY <2>1 DEF IntegratedIsReal, OpInv, Confirmed
  <2>5. Settled => PassedIsMerged
    <3> SUFFICES ASSUME Settled, NEW o \in Operators, op[o].step = "reported", Passed(o), NEW i \in DOMAIN Order
                 PROVE  base[Order[i]].merged >= op[o].digest[1][i].source
      BY DEF PassedIsMerged
    <3>1. Len(op[o].entries) = Len(Order)
      BY <2>1 DEF OpInv, AllMerged
    <3>2. i \in Entries(o)
      BY <2>1, <3>1, Typed, OrderFacts
    <3> QED BY <2>1, <2>2, <3>2 DEF OpInv, Brought, Passed, Failed, Entries
  <2>6. Alone => StatusIsTrue
    <3> SUFFICES ASSUME Alone, NEW o \in Operators
                 PROVE  /\ StatusOf(o) = "merged" => \E i \in Entries(o) : op[o].entries[i].got # 0
                        /\ StatusOf(o) = "already-up-to-date"
                             => \A i \in Entries(o) : op[o].entries[i].got = 0
      BY DEF StatusIsTrue
    <3>1. \A i \in Entries(o) : op[o].entries[i].ok /\ op[o].entries[i].integrated # None
             => (op[o].entries[i].integrated <=> op[o].entries[i].got # 0)
      BY <2>1 DEF OpInv, Confirmed
    <3> DEFINE Has(i) == {j \in DOMAIN op[o].entries : op[o].entries[j].ok /\ op[o].entries[j].integrated = i}
    <3>2. CASE StatusOf(o) = "merged"
      <4>1. Has(TRUE) # {}
        BY <3>2 DEF StatusOf
      <4>2. PICK i \in Entries(o) : op[o].entries[i].ok /\ op[o].entries[i].integrated = TRUE
        BY <4>1 DEF Entries
      <4> QED BY <3>1, <3>2, <4>2, NoneIsNothingElse
    <3>3. CASE StatusOf(o) = "already-up-to-date"
      <4>1. \A i \in Entries(o) : op[o].entries[i].integrated \in BOOLEAN \cup {None}
        <5> SUFFICES ASSUME NEW i \in Entries(o) PROVE op[o].entries[i].integrated \in BOOLEAN \cup {None}
          OBVIOUS
        <5>1. op[o].entries[i] \in Entry
          BY <2>1, Typed
        <5> QED BY <5>1 DEF Entry
      <4>2. Passed(o) /\ Has(TRUE) = {} /\ Has(None) = {}
        BY <3>3 DEF StatusOf
      <4>3. \A i \in Entries(o) : op[o].entries[i].ok
        BY <4>2 DEF Passed, Failed, Entries
      <4>4. \A i \in Entries(o) : op[o].entries[i].integrated # TRUE /\ op[o].entries[i].integrated # None
        BY <4>2, <4>3 DEF Entries
      <4> QED BY <3>1, <3>3, <4>1, <4>3, <4>4
    <3> QED BY <3>2, <3>3
  <2> QED BY <2>1, <2>3, <2>4, <2>5, <2>6 DEF ReportsAreTrue
<1> QED BY <1>1, Invariance, PTL

\* Where a merge of verified commits was approved, what is brought in was there
\* when the event was written; it is what the checks ran on, if nobody changed
\* the worktrees while they ran; and the critic reviews what passed (git.js:540).
THEOREM CurrentEvidence == Spec => []EvidenceIsCurrent
<1>1. ASSUME IInv PROVE EvidenceIsCurrent
  <2>1. TypeOK /\ EvidenceInv /\ CriticInv /\ \A o \in Operators : OpInv(o) /\ Dated(o)
    BY <1>1 DEF IInv, EvidenceIInv
  <2>2. faults \cap {"moves", "second"} = {} => MergesWhatWasVerified
    <3> SUFFICES ASSUME "moves" \notin faults, "second" \notin faults, NEW o \in Operators, Verified(o),
                        NEW i \in Entries(o), op[o].entries[i].got # 0
                 PROVE  /\ op[o].entries[i].got <= evidence.at[Order[i]]
                        /\ "verifying" \notin faults => op[o].entries[i].got = evidence.seen[Order[i]].commit
                        /\ faults \cap {"verifying", "edits"} = {} => ~evidence.seen[Order[i]].wip
                        /\ op[o].digest[2].passed = evidence.passed
      BY DEF MergesWhatWasVerified
    <3>1. op[o].step \notin {"idle", "approved"}
      BY <2>1 DEF TypeOK, Entries
    <3>2. op[o].step \in {"merges", "reads", "reported"}
      BY <2>1, <3>1 DEF TypeOK, Operation
    <3>3. i \in DOMAIN Order /\ Order[i] \in Repos /\ op[o].digest[1] = op[o].recs /\ op[o].recs[i] \in Record
      BY <2>1, <3>2, Typed, OrderFacts DEF OpInv, Approved
    <3>4. op[o].entries[i].got = op[o].recs[i].source
      BY <2>1 DEF OpInv, Brought, Still
    <3>5. /\ op[o].digest[2].passed = evidence.passed
          /\ op[o].recs[i].source >= evidence.at[Order[i]]
          /\ op[o].recs[i].source <= evidence.at[Order[i]]
      BY <2>1, <3>3 DEF Dated, Verified
    <3>6. op[o].recs[i].source \in Nat /\ evidence.at[Order[i]] \in Nat
      <4>1. op[o].recs[i].source \in Nat
        BY <3>3, MergeConstants DEF MergeConstants, Record, Commits
      <4> QED BY <2>1, <3>3, <4>1, EvidenceTyped DEF Verified
    <3>7. /\ "verifying" \notin faults => evidence.seen[Order[i]].commit = evidence.at[Order[i]]
          /\ faults \cap {"verifying", "edits"} = {} => ~evidence.seen[Order[i]].wip
      BY <2>1, <3>3 DEF EvidenceInv, Verified
    <3> QED BY <3>4, <3>5, <3>6, <3>7
  <2>3. CriticReviewsVerified
    BY <2>1 DEF CriticReviewsVerified, CriticFresh, CriticInv
  <2>4. faults \cap {"verifying", "edits", "second"} = {} => EvidenceCovers
    <3> SUFFICES ASSUME faults \cap {"verifying", "edits", "second"} = {},
                        evidence # None, ~Stale(Recs), NEW r \in Repos
                 PROVE  evidence.seen[r] = [commit |-> source[r], wip |-> FALSE]
      BY DEF EvidenceCovers
    <3>1. PICK i \in DOMAIN Order : Order[i] = r
      BY DEF Repos
    <3>2. i \in DOMAIN Recs /\ Recs[i].source = source[r]
      BY <3>1 DEF Recs, RecordOf
    <3>3. ~(source[r] > evidence.dated[r])
      BY <3>1, <3>2 DEF Stale
    <3>4. /\ evidence.at[r] <= source[r] /\ evidence.dated[r] = evidence.at[r]
          /\ evidence.seen[r].commit = evidence.at[r] /\ ~evidence.seen[r].wip
      BY <2>1 DEF EvidenceInv
    <3>5. source[r] \in Nat /\ evidence.at[r] \in Nat /\ evidence.seen[r] \in Worktree
      BY <2>1, Typed, EvidenceTyped
    <3>6. evidence.seen[r].commit = source[r]
      BY <3>3, <3>4, <3>5
    <3>7. QED
      BY <3>4, <3>5, <3>6 DEF Worktree
  <2> QED BY <2>2, <2>3, <2>4 DEF EvidenceIsCurrent
<1> QED BY <1>1, Invariance, PTL
=============================================================================
