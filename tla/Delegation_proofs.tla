--------------------------- MODULE Delegation_proofs ---------------------------
(***************************************************************************)
(* Theorems about Delegation, for any number of delegations, remediations, *)
(* handoff commands and operators, any policy and any faults.              *)
(***************************************************************************)
EXTENDS Delegation, FiniteSetTheorems, FunctionTheorems, TLAPS

(***************************************************************************)
(* The inductive invariant.                                                *)
(***************************************************************************)

Spawned(l) == child[l] # "absent"

\* A remediation has been claimed and is not complete.
ClaimOpen(d) == rec[d].remediation # None /\ rec[d].remediation.state # "active"

\* A start belongs to its delegation, and records the identity last.
StartInv(d) ==
  /\ launch[d].step # "idle" => launch[d].of = d
  /\ launch[d].step \notin {"identity", "fail", "done"} => ~Spawned(d)
  /\ launch[d].step = "identity" => Spawned(d)
  /\ launch[d].step # "done" => rec[d].identity = None

\* A remediation knows the child of the generation it read.  It goes on when that
\* one is gone, spawns when it has claimed, and holds the claim until it is done.
RemediationInv(r) ==
  /\ launch[r].step # "idle" =>
       /\ launch[r].of \in Delegations /\ launch[r].worker \in Launches
       /\ Spawned(launch[r].worker)
       /\ launch[launch[r].worker].of = launch[r].of
       /\ OwnGeneration(launch[r].worker) = launch[r].generation
  /\ launch[r].step \notin {"complete", "manual", "done"} => ~Spawned(r)
  /\ launch[r].step = "complete" => Spawned(r)
  /\ launch[r].step \in {"reserve", "claim", "deliver", "complete", "rollback", "manual"} =>
       child[launch[r].worker] = "gone"
  /\ launch[r].step \in {"deliver", "complete", "rollback", "manual"} => Pending(r)

\* The recorded identity and the result are of the child of the generation, and
\* an open claim is of a terminal delegation with turns left, whose child is gone.
RecordInv(d) ==
  /\ rec[d].generation = rec[d].turnsUsed + 1
  /\ rec[d].identity = None =>
       rec[d].result = None /\ rec[d].remediation = None /\ rec[d].turnsUsed = 0
  /\ rec[d].identity # None =>
       /\ Spawned(rec[d].identity)
       /\ launch[rec[d].identity].of = d
       /\ OwnGeneration(rec[d].identity) = rec[d].generation
  /\ rec[d].result # None =>
       /\ rec[d].state = "terminal"
       /\ rec[d].result.generation = rec[d].generation
       /\ rec[d].result.by = rec[d].identity
  /\ ClaimOpen(d) =>
       /\ rec[d].state = "terminal" /\ rec[d].turnsUsed < Turns
       /\ child[rec[d].identity] = "gone"
       /\ launch[rec[d].remediation.token].step # "idle"
       /\ launch[rec[d].remediation.token].of = d
       /\ launch[rec[d].remediation.token].generation = rec[d].generation

\* Every child that was spawned is the recorded one, or an earlier one which is
\* gone, or not recorded yet: of the start, or of the remediation with the claim.
ChildInv(l) ==
  Spawned(l) =>
    /\ launch[l].of \in Delegations
    /\ \/ l = rec[launch[l].of].identity
       \/ child[l] = "gone" /\ OwnGeneration(l) < rec[launch[l].of].generation
       \/ l = launch[l].of /\ rec[launch[l].of].identity = None
       \/ ClaimOpen(launch[l].of) /\ l = rec[launch[l].of].remediation.token

\* One child is spawned for a generation.
Twins(k, l) ==
  Spawned(k) /\ Spawned(l) /\ launch[k].of = launch[l].of /\ OwnGeneration(k) = OwnGeneration(l)

\* A handoff command is of a child, of a delegation that has an identity.
HandoffInv(h) ==
  handoff[h].step # "idle" =>
    /\ handoff[h].by \in Launches /\ Spawned(handoff[h].by)
    /\ rec[launch[handoff[h].by].of].identity # None

StartsInv == \A d \in Delegations : StartInv(d)
RemediationsInv == \A r \in Remediations : RemediationInv(r)
RecordsInv == \A d \in Delegations : RecordInv(d)
ChildrenInv == \A l \in Launches : ChildInv(l)
GenerationsInv == \A k, l \in Launches : Twins(k, l) => k = l
HandoffsInv == \A h \in Handoffs : HandoffInv(h)

IInv ==
  /\ TypeOK /\ StartsInv /\ RemediationsInv /\ RecordsInv /\ ChildrenInv
  /\ GenerationsInv /\ HandoffsInv

-----------------------------------------------------------------------------

USE DelegationConstants, NoneIsNoRecord DEF Launches

\* A start has the generation that a delegation begins with.
LEMMA FirstGeneration == 1 \in Generations /\ Generations \subseteq Nat /\ \A g \in Generations : g <= Turns + 1
BY DEF Generations

LEMMA GenerationNumber == ASSUME TypeOK PROVE \A k \in Launches : OwnGeneration(k) \in Nat \ {0}
<1> SUFFICES ASSUME NEW k \in Launches PROVE OwnGeneration(k) \in Nat \ {0}
  OBVIOUS
<1>1. launch[k].generation \in Nat
  BY FirstGeneration DEF TypeOK
<1>2. QED
  BY <1>1 DEF OwnGeneration

\* Nothing has been launched.
LEMMA InitInv == Init => IInv
<1> SUFFICES ASSUME Init PROVE IInv
  OBVIOUS
<1>1. TypeOK
  BY FirstGeneration DEF Init, TypeOK, NoRecord, NoHandoff, Record, LaunchSteps, HandoffSteps
<1>2. QED
  BY <1>1 DEF Init, NoRecord, NoHandoff, IInv, StartsInv, StartInv, RemediationsInv, RemediationInv,
     RecordsInv, RecordInv, ChildrenInv, ChildInv, GenerationsInv, Twins, HandoffsInv, HandoffInv, Spawned, ClaimOpen, OwnGeneration

\* What a launch read stays when it goes on.
LEMMA LaunchGoesOn ==
  ASSUME TypeOK, NEW l \in Launches, NEW step \in LaunchSteps, launch' = [launch EXCEPT ![l].step = step]
  PROVE  /\ launch' \in [Launches -> [step : LaunchSteps, of : Delegations \cup {None},
                                      generation : Generations, worker : Launches \cup {None}]]
         /\ launch'[l].step = step
         /\ \A k \in Launches :
              /\ launch'[k].of = launch[k].of /\ launch'[k].generation = launch[k].generation
              /\ launch'[k].worker = launch[k].worker
              /\ k # l => launch'[k] = launch[k]
<1>1. launch \in [Launches -> [step : LaunchSteps, of : Delegations \cup {None},
                               generation : Generations, worker : Launches \cup {None}]]
  BY DEF TypeOK
<1>2. [launch[l] EXCEPT !.step = step] \in [step : LaunchSteps, of : Delegations \cup {None},
                                            generation : Generations, worker : Launches \cup {None}]
  BY <1>1
<1>3. QED
  BY <1>1, <1>2

\* A step of a launch that neither writes the record nor spawns a child.
LEMMA LaunchMoves ==
  ASSUME IInv, NEW l \in Launches, NEW step \in LaunchSteps,
         launch' = [launch EXCEPT ![l].step = step], launch[l].step # "idle", step # "idle",
         UNCHANGED <<faults, rec, child, handoff, release>>, leases' \subseteq Launches,
         l \in Delegations =>
           /\ step # "identity" /\ (step \notin {"fail", "done"} => ~Spawned(l))
           /\ step # "done" => rec[l].identity = None,
         l \in Remediations =>
           /\ step \notin {"complete", "manual", "done"} => ~Spawned(l)
           /\ step = "complete" => Spawned(l)
           /\ step \in {"reserve", "claim", "deliver", "complete", "rollback", "manual"} =>
                child[launch[l].worker] = "gone"
           /\ step \in {"deliver", "complete", "rollback", "manual"} => Pending(l)
  PROVE  IInv'
<1>1. /\ launch'[l].step = step
      /\ \A k \in Launches :
           /\ launch'[k].of = launch[k].of /\ launch'[k].generation = launch[k].generation
           /\ launch'[k].worker = launch[k].worker
           /\ k # l => launch'[k] = launch[k]
  BY LaunchGoesOn DEF IInv
<1>2. TypeOK'
  BY LaunchGoesOn DEF IInv, TypeOK
<1>3. \A k \in Launches : OwnGeneration(k)' = OwnGeneration(k)
  BY <1>1 DEF OwnGeneration
<1> USE DEF IInv, TypeOK, Spawned, ClaimOpen
<1>4. StartsInv'
  BY <1>1 DEF StartsInv, StartInv
<1>5. ASSUME NEW r \in Remediations PROVE RemediationInv(r)'
  <2>1. Pending(r)' <=> Pending(r)
    BY <1>1 DEF Pending
  <2>2. RemediationInv(r) /\ (launch'[r].step # "idle" => launch[r].step # "idle")
    BY <1>1 DEF RemediationsInv
  <2>3. CASE r = l
    BY <1>1, <1>3, <2>1, <2>2, <2>3 DEF RemediationInv, OwnGeneration
  <2>4. CASE r # l
    BY <1>1, <1>3, <2>1, <2>2, <2>4 DEF RemediationInv, OwnGeneration
  <2>5. QED
    BY <2>3, <2>4
<1>6. RecordsInv'
  <2>1. \A d \in Delegations : ClaimOpen(d) => rec[d].remediation.token \in Launches
    BY DEF Record, ClaimedRemediation
  <2>2. \A d \in Delegations : rec[d].identity \in Launches \cup {None}
    BY DEF Record
  <2>3. \A k \in Launches : launch[k].step # "idle" => launch'[k].step # "idle"
    BY <1>1
  <2>4. QED
    BY <1>1, <1>3, <2>1, <2>2, <2>3 DEF RecordsInv, RecordInv, OwnGeneration
<1>7. ChildrenInv'
  BY <1>1, <1>3 DEF ChildrenInv, ChildInv, OwnGeneration
<1>8. GenerationsInv'
  BY <1>1, <1>3 DEF GenerationsInv, Twins, OwnGeneration
<1>9. HandoffsInv'
  BY <1>1 DEF HandoffsInv, HandoffInv
<1>10. QED
  BY <1>2, <1>4, <1>5, <1>6, <1>7, <1>8, <1>9 DEF RemediationsInv

\* A step of a handoff command, or of an operator, that does not write the record.
LEMMA HandoffMoves ==
  ASSUME IInv, UNCHANGED <<faults, rec, launch, child>>, leases' \subseteq Launches,
         handoff' \in [Handoffs -> [step : HandoffSteps, by : Launches \cup {None}, active : BOOLEAN]],
         release' \in [Releases -> Delegations \cup {None}],
         \A h \in Handoffs : handoff'[h].step # "idle" =>
           \/ handoff[h].step # "idle" /\ handoff'[h].by = handoff[h].by
           \/ /\ handoff'[h].by \in Launches /\ Spawned(handoff'[h].by)
              /\ rec[launch[handoff'[h].by].of].identity # None
  PROVE  IInv'
<1> USE DEF IInv, TypeOK, Spawned, ClaimOpen, OwnGeneration
<1>1. TypeOK'
  OBVIOUS
<1>2. StartsInv' /\ RecordsInv' /\ ChildrenInv' /\ GenerationsInv'
  BY DEF StartsInv, StartInv, RecordsInv, RecordInv, ChildrenInv, ChildInv, GenerationsInv, Twins
<1>3. RemediationsInv'
  BY DEF RemediationsInv, RemediationInv, Pending
<1>4. HandoffsInv'
  BY DEF HandoffsInv, HandoffInv
<1>5. QED
  BY <1>1, <1>2, <1>3, <1>4

\* A step of a launch that spawns its child.
LEMMA LaunchSpawns ==
  ASSUME IInv, NEW l \in Launches, NEW step \in LaunchSteps,
         launch' = [launch EXCEPT ![l].step = step], launch[l].step # "idle",
         child' = [child EXCEPT ![l] = "live"], ~Spawned(l),
         UNCHANGED <<faults, rec, leases, handoff, release>>,
         l \in Delegations => step \in {"identity", "fail"} /\ rec[l].identity = None,
         l \in Remediations => step \in {"complete", "manual"} /\ Pending(l) /\ child[launch[l].worker] = "gone"
  PROVE  IInv'
<1>1. /\ launch'[l].step = step /\ step # "idle"
      /\ \A k \in Launches :
           /\ launch'[k].of = launch[k].of /\ launch'[k].generation = launch[k].generation
           /\ launch'[k].worker = launch[k].worker
           /\ k # l => launch'[k] = launch[k]
  BY LaunchGoesOn DEF IInv
<1>2. TypeOK'
  BY LaunchGoesOn DEF IInv, TypeOK
<1>3. \A k \in Launches : OwnGeneration(k)' = OwnGeneration(k)
  BY <1>1 DEF OwnGeneration
<1>4. child'[l] = "live" /\ \A k \in Launches : k # l => child'[k] = child[k]
  BY DEF IInv, TypeOK
<1>5. \A k \in Launches : /\ Spawned(k) => k # l /\ Spawned(k)'
                          /\ Spawned(k)' => k = l \/ Spawned(k)
                          /\ child[k] = "gone" => child'[k] = "gone"
  BY <1>4 DEF Spawned
<1>6. l \in Remediations => ClaimOpen(launch[l].of) /\ rec[launch[l].of].remediation.token = l
  BY DEF Pending, ClaimOpen, ClaimedRemediation
<1> USE DEF IInv, TypeOK
<1>7. StartsInv'
  BY <1>1, <1>4, <1>5 DEF StartsInv, StartInv, Spawned
<1>8. ASSUME NEW r \in Remediations PROVE RemediationInv(r)'
  <2>1. Pending(r)' <=> Pending(r)
    BY <1>1 DEF Pending
  <2>2. RemediationInv(r)
    BY DEF RemediationsInv
  <2>3. Spawned(l)' /\ r \in Launches
    BY <1>4 DEF Spawned
  <2>4. CASE r = l
    BY <1>1, <1>3, <1>5, <2>1, <2>2, <2>3, <2>4 DEF RemediationInv, Spawned, OwnGeneration
  <2>5. CASE r # l
    BY <1>1, <1>3, <1>4, <1>5, <2>1, <2>2, <2>5 DEF RemediationInv, Spawned, OwnGeneration
  <2>6. QED
    BY <2>4, <2>5
<1>9. RecordsInv'
  <2>1. \A d \in Delegations : ClaimOpen(d) => rec[d].remediation.token \in Launches
    BY DEF Record, ClaimedRemediation, ClaimOpen
  <2>2. \A d \in Delegations : rec[d].identity \in Launches \cup {None}
    BY DEF Record
  <2>3. \A k \in Launches : launch[k].step # "idle" => launch'[k].step # "idle"
    BY <1>1
  <2>4. ASSUME NEW d \in Delegations, ClaimOpen(d) PROVE rec[d].identity \in Launches
    BY <2>2, <2>4 DEF RecordsInv, RecordInv, ClaimOpen
  <2>5. QED
    BY <1>1, <1>3, <1>5, <2>1, <2>2, <2>3, <2>4 DEF RecordsInv, RecordInv, OwnGeneration, ClaimOpen, Spawned
<1>10. ASSUME NEW k \in Launches PROVE ChildInv(k)'
  <2>1. ChildInv(k)
    BY DEF ChildrenInv
  <2>2. CASE k = l /\ l \in Delegations
    BY <1>1, <2>2 DEF StartsInv, StartInv, ChildInv
  <2>3. CASE k = l /\ l \in Remediations
    <3>1. launch[l].of \in Delegations
      BY <2>3 DEF RemediationsInv, RemediationInv
    <3>2. QED
      BY <1>1, <1>6, <2>3, <3>1 DEF ChildInv, ClaimOpen
  <2>4. CASE k # l
    BY <1>1, <1>3, <1>5, <2>1, <2>4 DEF ChildInv, OwnGeneration, ClaimOpen
  <2>5. QED
    BY <2>2, <2>3, <2>4
<1>11. ASSUME NEW k \in Launches, Spawned(k), launch[k].of = launch[l].of, OwnGeneration(k) = OwnGeneration(l)
       PROVE  FALSE
  <2>1. ChildInv(k) /\ k # l
    BY <1>5, <1>11 DEF ChildrenInv
  <2>2. launch[k].of \in Delegations /\ RecordInv(launch[k].of)
    BY <1>11, <2>1 DEF ChildInv, RecordsInv
  <2> DEFINE q == rec[launch[l].of]
  <2>3. q.generation \in Nat /\ q.generation >= 1 /\ q.turnsUsed \in Nat
    BY <1>11, <2>2, FirstGeneration DEF Record, Generations
  <2>4. CASE l \in Delegations
    <3>1. launch[l].of = l /\ q.identity = None /\ OwnGeneration(l) = 1
      BY <2>4 DEF StartsInv, StartInv, OwnGeneration
    <3>2. q.remediation = None /\ q.generation = 1
      BY <1>11, <2>2, <3>1 DEF RecordInv
    <3>3. k = q.identity \/ OwnGeneration(k) < 1
      BY <1>11, <2>1, <3>1, <3>2 DEF ChildInv, ClaimOpen
    <3>4. k # None
      OBVIOUS
    <3>5. QED
      BY <1>11, <3>1, <3>3, <3>4
  <2>5. CASE l \in Remediations
    <3>1. ClaimOpen(launch[l].of) /\ q.remediation.token = l /\ q.generation = launch[l].generation
      BY <1>6, <2>5 DEF Pending
    <3>2. OwnGeneration(l) = q.generation + 1
      BY <2>5, <3>1 DEF OwnGeneration
    <3>3. q.identity # None
      BY <1>11, <2>2, <3>1 DEF RecordInv, ClaimOpen
    <3>4. k = q.identity \/ OwnGeneration(k) < q.generation
      BY <1>11, <2>1, <3>1, <3>3 DEF ChildInv
    <3>5. k = q.identity => OwnGeneration(k) = q.generation
      BY <1>11, <2>2, <3>3 DEF RecordInv
    <3>6. QED
      BY <1>11, <2>3, <3>2, <3>4, <3>5
  <2>6. QED
    BY <2>4, <2>5
<1>12. GenerationsInv'
  <2>1. ASSUME NEW k \in Launches, NEW m \in Launches, Twins(k, m)' PROVE k = m
    <3>1. launch[k].of = launch[m].of /\ OwnGeneration(k) = OwnGeneration(m)
      BY <1>1, <1>3, <2>1 DEF Twins, OwnGeneration
    <3>2. (k = l \/ Spawned(k)) /\ (m = l \/ Spawned(m))
      BY <1>5, <2>1 DEF Twins
    <3>3. QED
      BY <1>11, <3>1, <3>2 DEF GenerationsInv, Twins
  <2>2. QED
    BY <2>1 DEF GenerationsInv
<1>13. HandoffsInv'
  BY <1>1, <1>5 DEF HandoffsInv, HandoffInv, Spawned
<1>14. QED
  BY <1>2, <1>7, <1>8, <1>9, <1>10, <1>12, <1>13 DEF RemediationsInv, ChildrenInv

\* A step of launch l, or of a handoff command of its child, that writes the record
\* of delegation d and establishes the invariant for the two of them.
RecordMove(l, d, new) ==
  /\ rec' = [rec EXCEPT ![d] = new]
  /\ UNCHANGED <<faults, leases, child, release>>
  /\ launch' \in [Launches -> [step : LaunchSteps, of : Delegations \cup {None},
                               generation : Generations, worker : Launches \cup {None}]]
  /\ \A k \in Launches :
       /\ launch'[k].of = launch[k].of /\ launch'[k].generation = launch[k].generation
       /\ launch'[k].worker = launch[k].worker
       /\ k # l => launch'[k] = launch[k]
       /\ launch[k].step # "idle" => launch'[k].step # "idle"
  /\ handoff' \in [Handoffs -> [step : HandoffSteps, by : Launches \cup {None}, active : BOOLEAN]]
  /\ \A h \in Handoffs : handoff'[h].step # "idle" =>
       handoff[h].step # "idle" /\ handoff'[h].by = handoff[h].by
  /\ rec[d].identity # None => new.identity # None
  /\ l \in Delegations => l = d
  /\ StartInv(d)' /\ RecordInv(d)'
  /\ l \in Remediations => RemediationInv(l)'
  /\ \A r \in Remediations :
       r # l /\ launch[r].step \in {"deliver", "complete", "rollback", "manual"} => launch[r].of # d
  /\ \A k \in Launches : Spawned(k) /\ launch[k].of = d => ChildInv(k)'

\* Such a step leaves the other launches and delegations alone.
LEMMA RecordMoves ==
  ASSUME IInv, NEW l \in Launches, NEW d \in Delegations, NEW new \in Record, RecordMove(l, d, new)
  PROVE  IInv'
<1>0. RecordMove(l, d, new)
  OBVIOUS
<1> USE <1>0 DEF IInv, TypeOK, RecordMove
<1>1. rec'[d] = new /\ \A e \in Delegations : e # d => rec'[e] = rec[e]
  OBVIOUS
<1>2. TypeOK'
  OBVIOUS
<1>3. \A k \in Launches : OwnGeneration(k)' = OwnGeneration(k) /\ (Spawned(k)' <=> Spawned(k))
  BY DEF OwnGeneration, Spawned
<1>4. ASSUME NEW e \in Delegations, e # d PROVE StartInv(e)'
  BY <1>1, <1>4 DEF StartsInv, StartInv, Spawned
<1>5. ASSUME NEW r \in Remediations, r # l PROVE RemediationInv(r)'
  <2>1. RemediationInv(r) /\ launch'[r] = launch[r] /\ r \in Launches
    BY <1>5 DEF RemediationsInv
  <2>2. launch[r].step \in {"deliver", "complete", "rollback", "manual"} => (Pending(r)' <=> Pending(r))
    BY <1>1, <1>5, <2>1 DEF Pending, RemediationInv
  <2>3. QED
    BY <1>3, <2>1, <2>2 DEF RemediationInv, Spawned, OwnGeneration
<1>6. ASSUME NEW e \in Delegations, e # d PROVE RecordInv(e)'
  <2>1. RecordInv(e) /\ rec'[e] = rec[e] /\ rec[e] \in Record
    BY <1>1, <1>6 DEF RecordsInv
  <2>2. rec[e].identity \in Launches \cup {None}
    BY <2>1 DEF Record
  <2>3. ClaimOpen(e) => rec[e].remediation.token \in Launches
    BY <2>1 DEF ClaimOpen, Record, ClaimedRemediation
  <2>4. QED
    BY <1>3, <2>1, <2>2, <2>3 DEF RecordInv, OwnGeneration, Spawned, ClaimOpen
<1>7. ASSUME NEW k \in Launches, launch[k].of # d PROVE ChildInv(k)'
  <2>1. ChildInv(k) /\ launch'[k].of = launch[k].of
    BY DEF ChildrenInv
  <2>2. QED
    BY <1>1, <1>3, <1>7, <2>1 DEF ChildInv, OwnGeneration, Spawned, ClaimOpen
<1>8. ASSUME NEW k \in Launches, ~Spawned(k) PROVE ChildInv(k)'
  BY <1>8 DEF ChildInv, Spawned
<1>9. GenerationsInv'
  BY <1>3 DEF GenerationsInv, Twins, OwnGeneration, Spawned
<1>10. HandoffsInv'
  <2>1. ASSUME NEW h \in Handoffs, handoff[h].step # "idle"
        PROVE  /\ handoff[h].by \in Launches /\ Spawned(handoff[h].by)
               /\ launch[handoff[h].by].of \in Delegations
               /\ rec[launch[handoff[h].by].of].identity # None
    BY <2>1 DEF HandoffsInv, HandoffInv, ChildrenInv, ChildInv
  <2>2. QED
    BY <1>1, <2>1 DEF HandoffsInv, HandoffInv, Spawned
<1>11. QED
  BY <1>2, <1>4, <1>5, <1>6, <1>7, <1>8, <1>9, <1>10
     DEF StartsInv, RemediationsInv, RecordsInv, ChildrenInv

\* Who holds the claim holds it alone.
LEMMA ClaimHeld ==
  ASSUME IInv, NEW r \in Remediations, launch[r].step \in {"deliver", "complete", "rollback", "manual"}
  PROVE  /\ launch[r].of \in Delegations /\ Pending(r)
         /\ ClaimOpen(launch[r].of) /\ rec[launch[r].of].remediation.token = r
         /\ rec[launch[r].of].remediation.state = "launching"
         /\ rec[launch[r].of].identity \in Launches
         /\ \A q \in Remediations :
              q # r /\ launch[q].step \in {"deliver", "complete", "rollback", "manual"} => launch[q].of # launch[r].of
<1>1. launch[r].of \in Delegations /\ Pending(r)
  BY DEF IInv, RemediationsInv, RemediationInv
<1>2. /\ ClaimOpen(launch[r].of) /\ rec[launch[r].of].remediation.token = r
      /\ rec[launch[r].of].remediation.state = "launching"
  BY <1>1 DEF Pending, ClaimOpen, ClaimedRemediation
<1>3. rec[launch[r].of].identity \in Launches
  BY <1>1, <1>2 DEF IInv, TypeOK, Record, RecordsInv, RecordInv, ClaimOpen
<1>4. ASSUME NEW q \in Remediations, launch[q].step \in {"deliver", "complete", "rollback", "manual"},
             launch[q].of = launch[r].of
      PROVE  q = r
  <2>1. Pending(q)
    BY <1>4 DEF IInv, RemediationsInv, RemediationInv
  <2>2. rec[launch[r].of].remediation.token = q
    BY <1>4, <2>1 DEF Pending
  <2>3. QED
    BY <1>2, <2>2
<1>5. QED
  BY <1>1, <1>2, <1>3, <1>4

-----------------------------------------------------------------------------
(* Starts                                                                  *)

\* The record of a delegation that is not prepared has nothing in it yet.
LEMMA Prepared ==
  ASSUME IInv, NEW d \in Delegations, Prepare(d)
  PROVE  IInv'
<1> USE DEF IInv, TypeOK
<1> DEFINE new == [NoRecord EXCEPT !.state = "prepared"]
<1>1. /\ new \in Record /\ new.identity = None /\ new.result = None /\ new.remediation = None
      /\ new.turnsUsed = 0 /\ new.generation = 1
  BY FirstGeneration DEF NoRecord, Record
<1>2. /\ rec' = [rec EXCEPT ![d] = new] /\ launch[d].step = "idle"
      /\ launch' = [launch EXCEPT ![d] = [@ EXCEPT !.step = "claim", !.of = d]]
      /\ UNCHANGED <<faults, leases, child, handoff, release>>
  BY DEF Prepare, Update
<1>3. rec'[d] = new /\ \A e \in Delegations : e # d => rec'[e] = rec[e]
  BY <1>2
<1>4. /\ launch'[d].step = "claim" /\ launch'[d].of = d
      /\ \A k \in Launches : k # d => launch'[k] = launch[k]
  BY <1>2
<1>5. /\ ~Spawned(d) /\ rec[d].identity = None /\ rec[d].result = None /\ rec[d].remediation = None
      /\ rec[d].turnsUsed = 0 /\ rec[d].generation = 1
  BY <1>2 DEF StartsInv, StartInv, RecordsInv, RecordInv, Record
<1>6. \A k \in Launches : (OwnGeneration(k)' = OwnGeneration(k) \/ k = d) /\ (Spawned(k)' <=> Spawned(k))
  BY <1>2, <1>4 DEF OwnGeneration, Spawned
<1>7. TypeOK'
  <2>1. launch' \in [Launches -> [step : LaunchSteps, of : Delegations \cup {None},
                                  generation : Generations, worker : Launches \cup {None}]]
    <3>1. "claim" \in LaunchSteps /\ d \in Delegations \cup {None}
      BY DEF LaunchSteps
    <3>2. launch[d] \in [step : LaunchSteps, of : Delegations \cup {None},
                         generation : Generations, worker : Launches \cup {None}]
      OBVIOUS
    <3>3. [launch[d] EXCEPT !.step = "claim", !.of = d] \in
            [step : LaunchSteps, of : Delegations \cup {None},
             generation : Generations, worker : Launches \cup {None}]
      BY <3>1, <3>2
    <3>4. QED
      BY <1>2, <3>3
  <2>2. QED
    BY <1>1, <1>2, <2>1
<1>8. ASSUME NEW e \in Delegations PROVE StartInv(e)'
  <2>1. CASE e = d
    BY <1>1, <1>2, <1>3, <1>4, <1>5, <2>1 DEF StartInv, Spawned
  <2>2. CASE e # d
    <3>1. StartInv(e)
      BY DEF StartsInv
    <3>2. QED
      BY <1>2, <1>3, <1>4, <2>2, <3>1 DEF StartInv, Spawned
  <2>3. QED
    BY <2>1, <2>2
<1>9. ASSUME NEW r \in Remediations PROVE RemediationInv(r)'
  <2>1. RemediationInv(r) /\ r # d /\ launch'[r] = launch[r]
    BY <1>4 DEF RemediationsInv
  <2>2. launch[r].step \in {"deliver", "complete", "rollback", "manual"} => launch[r].of # d
    BY <1>5, ClaimHeld DEF ClaimOpen
  <2>3. launch[r].step \in {"deliver", "complete", "rollback", "manual"} => Pending(r)'
    BY <1>3, <2>1, <2>2 DEF RemediationInv, Pending
  <2>4. launch[r].step # "idle" => launch[r].worker # d
    BY <1>5, <2>1 DEF RemediationInv
  <2>5. QED
    BY <1>2, <1>4, <1>6, <2>1, <2>3, <2>4 DEF RemediationInv, OwnGeneration, Spawned
<1>10. ASSUME NEW e \in Delegations PROVE RecordInv(e)'
  <2>1. CASE e = d
    <3>1. /\ rec'[e].identity = None /\ rec'[e].result = None /\ rec'[e].remediation = None
          /\ rec'[e].turnsUsed = 0 /\ rec'[e].generation = 1
      BY <1>1, <1>3, <2>1
    <3>2. QED
      BY <3>1 DEF RecordInv, ClaimOpen
  <2>2. CASE e # d
    <3>1. RecordInv(e) /\ rec'[e] = rec[e] /\ rec[e] \in Record
      BY <1>3, <2>2 DEF RecordsInv
    <3>2. ClaimOpen(e) => rec[e].remediation.token \in Remediations
      BY <3>1 DEF ClaimOpen, Record, ClaimedRemediation
    <3>3. rec[e].identity # None => rec[e].identity \in Launches /\ rec[e].identity # d
      BY <1>5, <3>1 DEF RecordInv, Record
    <3>4. QED
      BY <1>2, <1>4, <1>6, <3>1, <3>2, <3>3 DEF RecordInv, ClaimOpen, OwnGeneration, Spawned
  <2>3. QED
    BY <2>1, <2>2
<1>11. ASSUME NEW k \in Launches PROVE ChildInv(k)'
  <2>1. CASE ~Spawned(k)
    BY <1>6, <2>1 DEF ChildInv, Spawned
  <2>2. CASE Spawned(k)
    <3>1. k # d /\ ChildInv(k) /\ launch'[k] = launch[k]
      BY <1>4, <1>5, <2>2 DEF ChildrenInv
    <3>2. CASE launch[k].of # d
      BY <1>2, <1>3, <1>6, <2>2, <3>1, <3>2 DEF ChildInv, ClaimOpen, OwnGeneration, Spawned
    <3>3. CASE launch[k].of = d
      BY <1>1, <1>2, <1>3, <1>5, <1>6, <2>2, <3>1, <3>3 DEF ChildInv, ClaimOpen, OwnGeneration, Spawned
    <3>4. QED
      BY <3>2, <3>3
  <2>3. QED
    BY <2>1, <2>2
<1>12. GenerationsInv'
  BY <1>4, <1>5, <1>6 DEF GenerationsInv, Twins, OwnGeneration, Spawned
<1>13. ASSUME NEW h \in Handoffs PROVE HandoffInv(h)'
  <2>1. handoff[h].step # "idle" => /\ handoff[h].by \in Launches /\ Spawned(handoff[h].by)
                                    /\ launch[handoff[h].by].of \in Delegations
                                    /\ rec[launch[handoff[h].by].of].identity # None
    BY DEF HandoffsInv, HandoffInv, ChildrenInv, ChildInv
  <2>2. QED
    BY <1>2, <1>3, <1>4, <1>5, <1>6, <2>1 DEF HandoffInv, Spawned
<1>14. QED
  BY <1>7, <1>8, <1>9, <1>10, <1>11, <1>12, <1>13 DEF StartsInv, RemediationsInv, RecordsInv, ChildrenInv, HandoffsInv

\* Claiming, spawning and recording the identity, or the failure.
LEMMA StartSteps ==
  ASSUME IInv, NEW d \in Delegations, StartNext(d)
  PROVE  IInv'
<1> USE DEF Goes, Update
<1>0. /\ TypeOK /\ StartInv(d) /\ RecordInv(d) /\ rec[d] \in Record /\ d \in Launches /\ d \notin Remediations
      /\ \A k \in Launches : Spawned(k) => ChildInv(k)
      /\ {"reserve", "identity", "fail", "done"} \subseteq LaunchSteps
  BY DEF IInv, TypeOK, StartsInv, RecordsInv, ChildrenInv, LaunchSteps
<1>1. CASE Prepare(d)
  BY <1>1, Prepared
<1>2. CASE Spawn(d) \/ (SpawnFails(d) /\ child' # child)
  <2>1. PICK step \in {"identity", "fail"} :
          /\ launch' = [launch EXCEPT ![d].step = step] /\ launch[d].step = "spawn"
          /\ child' = [child EXCEPT ![d] = "live"]
          /\ UNCHANGED <<faults, rec, leases, handoff, release>>
    BY <1>2 DEF Spawn, SpawnFails
  <2>2. ~Spawned(d) /\ rec[d].identity = None
    BY <1>0, <2>1 DEF StartInv
  <2>3. QED
    BY <1>0, <2>1, <2>2, LaunchSpawns
<1>3. CASE IdentityRefused(d) \/ (SpawnFails(d) /\ child' = child)
  <2>1. /\ launch' = [launch EXCEPT ![d].step = "fail"] /\ launch[d].step \in {"spawn", "identity"}
        /\ UNCHANGED <<faults, rec, leases, child, handoff, release>>
    BY <1>3 DEF IdentityRefused, SpawnFails
  <2>2. rec[d].identity = None /\ leases \subseteq Launches
    BY <1>0, <2>1 DEF StartInv, TypeOK
  <2>3. QED
    BY <1>0, <2>1, <2>2, LaunchMoves
<1>4. CASE ClaimStart(d) \/ RecordStartFailure(d)
  <2>1. PICK step \in {"reserve", "done"}, state \in {"running", "terminal"} :
          /\ launch' = [launch EXCEPT ![d].step = step] /\ launch[d].step \in {"claim", "fail"}
          /\ step = "reserve" => launch[d].step = "claim"
          /\ rec' = [rec EXCEPT ![d] = [rec[d] EXCEPT !.state = state]]
          /\ UNCHANGED <<faults, leases, child, handoff, release>>
    BY <1>4 DEF ClaimStart, RecordStartFailure
  <2> DEFINE new == [rec[d] EXCEPT !.state = state]
  <2>2. /\ new \in Record /\ new.identity = rec[d].identity /\ new.result = rec[d].result
        /\ new.remediation = rec[d].remediation /\ new.turnsUsed = rec[d].turnsUsed
        /\ new.generation = rec[d].generation
    BY <1>0, <2>1 DEF Record
  <2>3. rec[d].identity = None /\ rec[d].remediation = None /\ rec[d].result = None
    BY <1>0, <2>1 DEF StartInv, RecordInv
  <2>4. rec'[d] = new
    BY <1>0, <2>1 DEF TypeOK
  <2>5. /\ launch' \in [Launches -> [step : LaunchSteps, of : Delegations \cup {None},
                                     generation : Generations, worker : Launches \cup {None}]]
        /\ launch'[d].step = step
        /\ \A k \in Launches :
             /\ launch'[k].of = launch[k].of /\ launch'[k].generation = launch[k].generation
             /\ launch'[k].worker = launch[k].worker
             /\ k # d => launch'[k] = launch[k]
    BY <1>0, <2>1, LaunchGoesOn
  <2>6. StartInv(d)' /\ RecordInv(d)'
    BY <1>0, <2>1, <2>2, <2>3, <2>4, <2>5 DEF StartInv, RecordInv, ClaimOpen, Spawned
  <2>7. \A r \in Remediations :
          launch[r].step \in {"deliver", "complete", "rollback", "manual"} => launch[r].of # d
    BY <2>3, ClaimHeld DEF ClaimOpen
  <2>8. \A k \in Launches : Spawned(k) /\ launch[k].of = d => ChildInv(k)'
    BY <1>0, <2>1, <2>2, <2>3, <2>4, <2>5 DEF ChildInv, ClaimOpen, OwnGeneration, Spawned
  <2>9. /\ handoff' \in [Handoffs -> [step : HandoffSteps, by : Launches \cup {None}, active : BOOLEAN]]
        /\ \A k \in Launches : launch[k].step # "idle" => launch'[k].step # "idle"
    BY <1>0, <2>1, <2>5 DEF TypeOK
  <2>10. rec' = [rec EXCEPT ![d] = new] /\ UNCHANGED <<faults, leases, child, handoff, release>>
    BY <2>1
  <2> HIDE DEF new
  <2>11. RecordMove(d, d, new)
    BY <1>0, <2>2, <2>3, <2>5, <2>6, <2>7, <2>8, <2>9, <2>10 DEF RecordMove
  <2>12. QED
    BY <1>0, <2>2, <2>11, RecordMoves
<1>5. CASE RecordIdentity(d)
  <2>1. /\ launch' = [launch EXCEPT ![d].step = "done"] /\ launch[d].step = "identity"
        /\ rec' = [rec EXCEPT ![d] = [rec[d] EXCEPT !.identity = d]] /\ rec[d].identity = None
        /\ UNCHANGED <<faults, leases, child, handoff, release>>
    BY <1>5 DEF RecordIdentity
  <2> DEFINE new == [rec[d] EXCEPT !.identity = d]
  <2>2. /\ new \in Record /\ new.identity = d /\ new.result = rec[d].result
        /\ new.remediation = rec[d].remediation /\ new.turnsUsed = rec[d].turnsUsed
        /\ new.generation = rec[d].generation
    BY <1>0 DEF Record
  <2>3. rec[d].remediation = None /\ rec[d].result = None /\ rec[d].generation = 1 /\ d # None
    BY <1>0, <2>1 DEF RecordInv
  <2>4. rec'[d] = new
    BY <1>0, <2>1 DEF TypeOK
  <2>5. /\ launch' \in [Launches -> [step : LaunchSteps, of : Delegations \cup {None},
                                     generation : Generations, worker : Launches \cup {None}]]
        /\ launch'[d].step = "done"
        /\ \A k \in Launches :
             /\ launch'[k].of = launch[k].of /\ launch'[k].generation = launch[k].generation
             /\ launch'[k].worker = launch[k].worker
             /\ k # d => launch'[k] = launch[k]
    BY <1>0, <2>1, LaunchGoesOn
  <2>6. Spawned(d) /\ launch[d].of = d /\ OwnGeneration(d) = 1
    BY <1>0, <2>1 DEF StartInv, OwnGeneration
  <2>7. StartInv(d)'
    BY <1>0, <2>1, <2>5, <2>6 DEF StartInv, Spawned
  <2>8. RecordInv(d)'
    BY <1>0, <2>1, <2>2, <2>3, <2>4, <2>5, <2>6 DEF RecordInv, ClaimOpen, Spawned, OwnGeneration
  <2>9. \A r \in Remediations :
          launch[r].step \in {"deliver", "complete", "rollback", "manual"} => launch[r].of # d
    BY <2>3, ClaimHeld DEF ClaimOpen
  <2>10. \A k \in Launches : Spawned(k) /\ launch[k].of = d => ChildInv(k)'
    BY <1>0, <2>1, <2>2, <2>3, <2>4, <2>5 DEF ChildInv, ClaimOpen, OwnGeneration, Spawned
  <2>11. /\ handoff' \in [Handoffs -> [step : HandoffSteps, by : Launches \cup {None}, active : BOOLEAN]]
         /\ \A k \in Launches : launch[k].step # "idle" => launch'[k].step # "idle"
    BY <1>0, <2>1, <2>5 DEF TypeOK
  <2>12. rec' = [rec EXCEPT ![d] = new] /\ UNCHANGED <<faults, leases, child, handoff, release>>
    BY <2>1
  <2> HIDE DEF new
  <2>13. RecordMove(d, d, new)
    BY <1>0, <2>2, <2>3, <2>5, <2>7, <2>8, <2>9, <2>10, <2>11, <2>12 DEF RecordMove
  <2>14. QED
    BY <1>0, <2>2, <2>13, RecordMoves
<1>6. QED
  BY <1>1, <1>2, <1>3, <1>4, <1>5 DEF StartNext

-----------------------------------------------------------------------------
(* Remediations                                                            *)

\* What a remediation reads, when it begins, is the child of the generation.
LEMMA Begun ==
  ASSUME IInv, NEW r \in Remediations, NEW d \in Delegations, Begin(r, d)
  PROVE  IInv'
<1> USE DEF IInv, TypeOK
<1> DEFINE new == [step |-> "observe", of |-> d, generation |-> rec[d].generation, worker |-> rec[d].identity]
<1>1. /\ launch' = [launch EXCEPT ![r] = new] /\ launch[r].step = "idle" /\ r \in Launches
      /\ UNCHANGED <<faults, rec, leases, child, handoff, release>> /\ rec[d].identity # None
  BY DEF Begin
<1>2. launch'[r] = new /\ \A k \in Launches : k # r => launch'[k] = launch[k]
  BY <1>1
<1>3. RecordInv(d) /\ rec[d] \in Record /\ rec[d].identity \in Launches
  BY <1>1 DEF RecordsInv, Record
<1>4. ~Spawned(r) /\ r \notin Delegations
  BY <1>1 DEF RemediationsInv, RemediationInv
<1>5. \A k \in Launches : (k # r => OwnGeneration(k)' = OwnGeneration(k)) /\ (Spawned(k)' <=> Spawned(k))
  BY <1>1, <1>2 DEF OwnGeneration, Spawned
<1>6. TypeOK'
  <2>1. new \in [step : LaunchSteps, of : Delegations \cup {None},
                 generation : Generations, worker : Launches \cup {None}]
    BY <1>3 DEF LaunchSteps, Record
  <2>2. QED
    BY <1>1, <2>1
<1>7. ASSUME NEW e \in Delegations PROVE StartInv(e)' /\ RecordInv(e)'
  <2>1. e # r /\ StartInv(e) /\ RecordInv(e) /\ rec[e] \in Record
    BY <1>4 DEF StartsInv, RecordsInv
  <2>2. StartInv(e)'
    BY <1>1, <1>2, <2>1 DEF StartInv, Spawned
  <2>3. rec[e].identity # None => rec[e].identity \in Launches /\ rec[e].identity # r
    BY <1>4, <2>1 DEF RecordInv, Record
  <2>4. ClaimOpen(e) => rec[e].remediation.token \in Launches /\ rec[e].remediation.token # r
    BY <1>1, <2>1 DEF RecordInv, Record, ClaimedRemediation, ClaimOpen
  <2>5. RecordInv(e)'
    BY <1>1, <1>2, <1>5, <2>1, <2>3, <2>4 DEF RecordInv, ClaimOpen, Spawned, OwnGeneration
  <2>6. QED
    BY <2>2, <2>5
<1>8. ASSUME NEW q \in Remediations PROVE RemediationInv(q)'
  <2>1. RemediationInv(q)
    BY DEF RemediationsInv
  <2>2. CASE q = r
    <3>1. Spawned(rec[d].identity) /\ launch[rec[d].identity].of = d
          /\ OwnGeneration(rec[d].identity) = rec[d].generation /\ rec[d].identity # r
      BY <1>1, <1>3, <1>4 DEF RecordInv
    <3>2. QED
      BY <1>1, <1>2, <1>3, <1>4, <1>5, <2>2, <3>1 DEF RemediationInv, Spawned, OwnGeneration
  <2>3. CASE q # r
    <3>1. launch[q].step # "idle" => launch[q].worker # r
      BY <1>4, <2>1 DEF RemediationInv
    <3>2. Pending(q)' <=> Pending(q)
      BY <1>1, <1>2, <2>3 DEF Pending
    <3>3. QED
      BY <1>1, <1>2, <1>5, <2>1, <2>3, <3>1, <3>2 DEF RemediationInv, Spawned, OwnGeneration
  <2>4. QED
    BY <2>2, <2>3
<1>9. ASSUME NEW k \in Launches PROVE ChildInv(k)'
  <2>1. ChildInv(k)
    BY DEF ChildrenInv
  <2>2. QED
    BY <1>1, <1>2, <1>4, <1>5, <2>1 DEF ChildInv, ClaimOpen, Spawned, OwnGeneration
<1>10. GenerationsInv'
  BY <1>2, <1>4, <1>5 DEF GenerationsInv, Twins, Spawned, OwnGeneration
<1>11. HandoffsInv'
  BY <1>1, <1>2, <1>4 DEF HandoffsInv, HandoffInv, Spawned
<1>12. QED
  BY <1>6, <1>7, <1>8, <1>9, <1>10, <1>11 DEF StartsInv, RecordsInv, RemediationsInv, ChildrenInv

\* The steps that write no record: it observes, it fails, or it spawns.
LEMMA RemediationGoesOn ==
  ASSUME IInv, NEW r \in Remediations,
         \/ Observe(r) \/ ObserveRefuses(r) \/ ClaimRefused(r) \/ Deliver(r) \/ DeliverFails(r)
         \/ CompleteRefused(r) \/ ReleaseAfterFailure(r)
  PROVE  IInv'
<1> USE DEF Goes
<1>0. /\ TypeOK /\ RemediationInv(r) /\ r \in Launches /\ r \notin Delegations /\ leases \subseteq Launches
      /\ {"reserve", "release", "rollback", "manual", "complete", "done"} \subseteq LaunchSteps
  BY DEF IInv, TypeOK, RemediationsInv, LaunchSteps
<1>1. CASE Observe(r)
  <2>1. /\ launch' = [launch EXCEPT ![r].step = "reserve"] /\ launch[r].step = "observe"
        /\ UNCHANGED <<faults, rec, leases, child, handoff, release>> /\ child[launch[r].worker] = "gone"
    BY <1>1 DEF Observe
  <2>2. QED
    BY <1>0, <2>1, LaunchMoves DEF RemediationInv
<1>2. CASE ObserveRefuses(r)
  <2>1. /\ launch' = [launch EXCEPT ![r].step = "done"] /\ launch[r].step = "observe"
        /\ UNCHANGED <<faults, rec, leases, child, handoff, release>>
    BY <1>2 DEF ObserveRefuses
  <2>2. QED
    BY <1>0, <2>1, LaunchMoves
<1>3. CASE ClaimRefused(r)
  <2>1. /\ launch' = [launch EXCEPT ![r].step = "release"] /\ launch[r].step = "claim"
        /\ UNCHANGED <<faults, rec, leases, child, handoff, release>>
    BY <1>3 DEF ClaimRefused
  <2>2. QED
    BY <1>0, <2>1, LaunchMoves DEF RemediationInv
<1>4. CASE Deliver(r) \/ (DeliverFails(r) /\ child' # child)
  <2>1. PICK step \in {"complete", "manual"} :
          /\ launch' = [launch EXCEPT ![r].step = step] /\ launch[r].step = "deliver"
          /\ child' = [child EXCEPT ![r] = "live"]
          /\ UNCHANGED <<faults, rec, leases, handoff, release>>
    BY <1>4 DEF Deliver, DeliverFails
  <2>2. ~Spawned(r) /\ Pending(r) /\ child[launch[r].worker] = "gone"
    BY <1>0, <2>1 DEF RemediationInv
  <2>3. QED
    BY <1>0, <2>1, <2>2, LaunchSpawns
<1>5. CASE (DeliverFails(r) /\ child' = child) \/ CompleteRefused(r)
  <2>1. PICK step \in {"rollback", "manual"} :
          /\ launch' = [launch EXCEPT ![r].step = step]
          /\ launch[r].step = IF step = "rollback" THEN "deliver" ELSE launch[r].step
          /\ launch[r].step \in {"deliver", "complete"}
          /\ UNCHANGED <<faults, rec, leases, child, handoff, release>>
    BY <1>5 DEF DeliverFails, CompleteRefused
  <2>2. Pending(r) /\ child[launch[r].worker] = "gone" /\ (step = "rollback" => ~Spawned(r))
    BY <1>0, <2>1 DEF RemediationInv
  <2>3. QED
    BY <1>0, <2>1, <2>2, LaunchMoves
<1>6. CASE ReleaseAfterFailure(r)
  <2>1. /\ launch' = [launch EXCEPT ![r].step = "done"] /\ launch[r].step = "release"
        /\ UNCHANGED <<faults, rec, child, handoff, release>> /\ leases' \subseteq Launches
    BY <1>0, <1>6 DEF ReleaseAfterFailure, ReleaseFor, LeasesOf
  <2>2. QED
    BY <1>0, <2>1, LaunchMoves
<1>7. QED
  BY <1>1, <1>2, <1>3, <1>4, <1>5, <1>6

\* The claim is made when the child of the generation is gone.
LEMMA Claimed ==
  ASSUME IInv, NEW r \in Remediations, ClaimRemediation(r)
  PROVE  IInv'
<1> DEFINE d == launch[r].of
<1> DEFINE claim == [state |-> "launching", token |-> r]
<1> DEFINE new == [rec[d] EXCEPT !.remediation = claim]
<1>1. /\ launch' = [launch EXCEPT ![r].step = "deliver"] /\ launch[r].step = "claim" /\ Remediable(r)
      /\ rec' = [rec EXCEPT ![d] = new] /\ UNCHANGED <<faults, leases, child, handoff, release>>
  BY DEF ClaimRemediation, Goes, Update
<1>2. /\ TypeOK /\ RemediationInv(r) /\ r \in Launches /\ r \notin Delegations /\ "deliver" \in LaunchSteps
  BY DEF IInv, TypeOK, RemediationsInv, LaunchSteps
<1>3. d \in Delegations /\ ~Spawned(r) /\ child[launch[r].worker] = "gone"
  BY <1>1, <1>2 DEF RemediationInv
<1>4. rec[d] \in Record /\ RecordInv(d) /\ StartInv(d)
  BY <1>3 DEF IInv, TypeOK, RecordsInv, StartsInv
<1>5. claim \in ClaimedRemediation /\ claim # None /\ claim.state = "launching" /\ claim.token = r
  BY DEF ClaimedRemediation
<1>6. /\ new \in Record /\ new.remediation = claim /\ new.identity = rec[d].identity
      /\ new.generation = rec[d].generation /\ new.turnsUsed = rec[d].turnsUsed
      /\ new.result = rec[d].result /\ new.state = rec[d].state
  BY <1>4, <1>5 DEF Record
<1>7. /\ rec[d].state = "terminal" /\ rec[d].generation = launch[r].generation /\ rec[d].identity # None
      /\ rec[d].remediation = None /\ rec[d].turnsUsed < Turns
  BY <1>1 DEF Remediable
<1>8. rec[d].identity \in Launches /\ rec[d].identity = launch[r].worker
  <2>1. rec[d].identity \in Launches
    BY <1>4, <1>7 DEF Record
  <2>2. /\ Spawned(rec[d].identity) /\ launch[rec[d].identity].of = d
        /\ OwnGeneration(rec[d].identity) = rec[d].generation
    BY <1>4, <1>7 DEF RecordInv
  <2>3. /\ launch[r].worker \in Launches /\ Spawned(launch[r].worker)
        /\ launch[launch[r].worker].of = d /\ OwnGeneration(launch[r].worker) = rec[d].generation
    BY <1>1, <1>2, <1>7 DEF RemediationInv
  <2>4. QED
    BY <2>1, <2>2, <2>3 DEF IInv, GenerationsInv, Twins
<1>9. /\ launch' \in [Launches -> [step : LaunchSteps, of : Delegations \cup {None},
                                   generation : Generations, worker : Launches \cup {None}]]
      /\ launch'[r].step = "deliver"
      /\ \A k \in Launches :
           /\ launch'[k].of = launch[k].of /\ launch'[k].generation = launch[k].generation
           /\ launch'[k].worker = launch[k].worker
           /\ k # r => launch'[k] = launch[k]
           /\ launch[k].step # "idle" => launch'[k].step # "idle"
  BY <1>1, <1>2, LaunchGoesOn
<1>10. rec'[d] = new
  BY <1>1, <1>3 DEF IInv, TypeOK
<1> HIDE DEF new, claim
<1>11. StartInv(d)'
  BY <1>1, <1>2, <1>3, <1>4, <1>6, <1>9, <1>10 DEF StartInv, Spawned
<1>12. RecordInv(d)'
  BY <1>1, <1>3, <1>4, <1>5, <1>6, <1>7, <1>8, <1>9, <1>10 DEF RecordInv, ClaimOpen, Spawned, OwnGeneration
<1>13. Pending(r)'
  BY <1>6, <1>7, <1>9, <1>10 DEF Pending, claim
<1>14. RemediationInv(r)'
  BY <1>1, <1>2, <1>3, <1>9, <1>13 DEF RemediationInv, Spawned, OwnGeneration
<1>15. \A q \in Remediations :
         launch[q].step \in {"deliver", "complete", "rollback", "manual"} => launch[q].of # d
  BY <1>7, ClaimHeld DEF ClaimOpen
<1>16. ASSUME NEW k \in Launches, Spawned(k), launch[k].of = d PROVE ChildInv(k)'
  <2>1. ChildInv(k)
    BY DEF IInv, ChildrenInv
  <2>2. QED
    BY <1>1, <1>3, <1>6, <1>7, <1>9, <1>10, <1>16, <2>1 DEF ChildInv, ClaimOpen, Spawned, OwnGeneration
<1>17. RecordMove(r, d, new)
  BY <1>1, <1>2, <1>3, <1>6, <1>9, <1>11, <1>12, <1>14, <1>15, <1>16 DEF RecordMove, TypeOK
<1>18. QED
  BY <1>2, <1>3, <1>6, <1>17, RecordMoves

\* Whoever holds the claim gives it up, or for lost.
LEMMA ClaimEnds ==
  ASSUME IInv, NEW r \in Remediations, MarkManual(r) \/ Rollback(r)
  PROVE  IInv'
<1> DEFINE d == launch[r].of
<1>1. PICK remediation \in {None, [rec[d].remediation EXCEPT !.state = "manual-recovery"]},
           step \in {"release", "done"} :
        /\ launch' = [launch EXCEPT ![r].step = step]
        /\ rec' = [rec EXCEPT ![d] = [rec[d] EXCEPT !.remediation = remediation]]
        /\ launch[r].step \in {"rollback", "manual"}
        /\ launch[r].step = "rollback" => step = "release" /\ remediation = None
        /\ launch[r].step = "manual" =>
             step = "done" /\ remediation = [rec[d].remediation EXCEPT !.state = "manual-recovery"]
        /\ UNCHANGED <<faults, leases, child, handoff, release>>
  BY DEF MarkManual, Rollback, Goes, Update
<1> DEFINE new == [rec[d] EXCEPT !.remediation = remediation]
<1>2. /\ TypeOK /\ RemediationInv(r) /\ r \in Launches /\ r \notin Delegations
      /\ {"release", "done"} \subseteq LaunchSteps
  BY DEF IInv, TypeOK, RemediationsInv, LaunchSteps
<1>3. /\ d \in Delegations /\ Pending(r) /\ ClaimOpen(d) /\ rec[d].remediation.token = r
      /\ rec[d].identity \in Launches
      /\ \A q \in Remediations :
           q # r /\ launch[q].step \in {"deliver", "complete", "rollback", "manual"} => launch[q].of # d
  BY <1>1, ClaimHeld
<1>4. rec[d] \in Record /\ RecordInv(d) /\ StartInv(d)
  BY <1>3 DEF IInv, TypeOK, RecordsInv, StartsInv
<1>5. /\ remediation \in ClaimedRemediation \cup {None}
      /\ remediation # None => remediation.token = r /\ remediation.state = "manual-recovery"
      /\ launch[r].step = "manual" => remediation # None
  <2>1. rec[d].remediation \in ClaimedRemediation
    BY <1>3, <1>4 DEF ClaimOpen, Record
  <2>2. [rec[d].remediation EXCEPT !.state = "manual-recovery"] \in ClaimedRemediation
    BY <2>1 DEF ClaimedRemediation
  <2>3. /\ [rec[d].remediation EXCEPT !.state = "manual-recovery"].token = r
        /\ [rec[d].remediation EXCEPT !.state = "manual-recovery"].state = "manual-recovery"
    BY <1>3, <2>1 DEF ClaimedRemediation
  <2>4. QED
    BY <1>1, <2>2, <2>3
<1>6. /\ new \in Record /\ new.remediation = remediation /\ new.identity = rec[d].identity
      /\ new.generation = rec[d].generation /\ new.turnsUsed = rec[d].turnsUsed
      /\ new.result = rec[d].result /\ new.state = rec[d].state
  BY <1>4, <1>5 DEF Record
<1>9. /\ launch' \in [Launches -> [step : LaunchSteps, of : Delegations \cup {None},
                                   generation : Generations, worker : Launches \cup {None}]]
      /\ launch'[r].step = step
      /\ \A k \in Launches :
           /\ launch'[k].of = launch[k].of /\ launch'[k].generation = launch[k].generation
           /\ launch'[k].worker = launch[k].worker
           /\ k # r => launch'[k] = launch[k]
           /\ launch[k].step # "idle" => launch'[k].step # "idle"
  BY <1>1, <1>2, LaunchGoesOn
<1>10. rec'[d] = new /\ rec' = [rec EXCEPT ![d] = new]
  BY <1>1, <1>3 DEF IInv, TypeOK
<1> HIDE DEF new
<1>11. StartInv(d)'
  BY <1>1, <1>2, <1>3, <1>4, <1>6, <1>9, <1>10 DEF StartInv, Spawned
<1>12. RecordInv(d)'
  BY <1>1, <1>2, <1>3, <1>4, <1>5, <1>6, <1>9, <1>10 DEF RecordInv, ClaimOpen, Spawned, OwnGeneration
<1>14. RemediationInv(r)'
  BY <1>1, <1>2, <1>3, <1>9 DEF RemediationInv, Spawned, OwnGeneration
<1>16. ASSUME NEW k \in Launches, Spawned(k), launch[k].of = d PROVE ChildInv(k)'
  <2>1. ChildInv(k)
    BY DEF IInv, ChildrenInv
  <2>2. launch[r].step = "rollback" => k # r
    BY <1>2, <1>16 DEF RemediationInv
  <2>3. QED
    BY <1>1, <1>3, <1>5, <1>6, <1>9, <1>10, <1>16, <2>1, <2>2 DEF ChildInv, ClaimOpen, Spawned, OwnGeneration
<1>17. RecordMove(r, d, new)
  BY <1>1, <1>2, <1>3, <1>6, <1>9, <1>10, <1>11, <1>12, <1>14, <1>16 DEF RecordMove, TypeOK
<1>18. QED
  BY <1>2, <1>3, <1>6, <1>17, RecordMoves

\* The claim is completed: the new child is recorded in place of the one that is
\* gone, in a new generation.
LEMMA Completed ==
  ASSUME IInv, NEW r \in Remediations, Complete(r)
  PROVE  IInv'
<1> DEFINE d == launch[r].of
<1> DEFINE active == [rec[d].remediation EXCEPT !.state = "active"]
<1> DEFINE new == [rec[d] EXCEPT !.state = "running", !.generation = rec[d].generation + 1, !.identity = r,
                     !.result = None, !.turnsUsed = rec[d].turnsUsed + 1, !.remediation = active]
<1>1. /\ launch' = [launch EXCEPT ![r].step = "done"] /\ launch[r].step = "complete"
      /\ UNCHANGED <<faults, leases, child, handoff, release>>
  BY DEF Complete, Goes
<1>2. /\ TypeOK /\ RemediationInv(r) /\ r \in Launches /\ r \notin Delegations /\ "done" \in LaunchSteps
      /\ r # None
  BY DEF IInv, TypeOK, RemediationsInv, LaunchSteps
<1>3. /\ d \in Delegations /\ Pending(r) /\ ClaimOpen(d) /\ rec[d].remediation.token = r
      /\ rec[d].identity \in Launches
      /\ \A q \in Remediations :
           q # r /\ launch[q].step \in {"deliver", "complete", "rollback", "manual"} => launch[q].of # d
  BY <1>1, ClaimHeld
<1>4. rec[d] \in Record /\ RecordInv(d) /\ StartInv(d)
  BY <1>3 DEF IInv, TypeOK, RecordsInv, StartsInv
<1>5. active \in ClaimedRemediation /\ active.state = "active"
  BY <1>3, <1>4 DEF ClaimOpen, Record, ClaimedRemediation
<1>6. /\ rec[d].generation \in Nat /\ rec[d].turnsUsed \in Nat /\ rec[d].turnsUsed < Turns
      /\ rec[d].generation = rec[d].turnsUsed + 1
  BY <1>3, <1>4, FirstGeneration DEF Record, RecordInv
<1>7. rec[d].generation + 1 \in Generations /\ rec[d].turnsUsed + 1 \in 0..Turns
  BY <1>6 DEF Generations
<1>8. /\ new \in Record /\ new.remediation = active /\ new.identity = r
      /\ new.generation = rec[d].generation + 1 /\ new.turnsUsed = rec[d].turnsUsed + 1
      /\ new.result = None /\ new.state = "running"
  BY <1>2, <1>4, <1>5, <1>7 DEF Record
<1>9. rec' = [rec EXCEPT ![d] = new]
  BY <1>4 DEF Complete, Update, Record
<1>10. rec'[d] = new
  BY <1>3, <1>9 DEF IInv, TypeOK
<1>11. /\ launch' \in [Launches -> [step : LaunchSteps, of : Delegations \cup {None},
                                    generation : Generations, worker : Launches \cup {None}]]
       /\ launch'[r].step = "done"
       /\ \A k \in Launches :
            /\ launch'[k].of = launch[k].of /\ launch'[k].generation = launch[k].generation
            /\ launch'[k].worker = launch[k].worker
            /\ k # r => launch'[k] = launch[k]
            /\ launch[k].step # "idle" => launch'[k].step # "idle"
  BY <1>1, <1>2, LaunchGoesOn
<1>12. Spawned(r) /\ OwnGeneration(r) = rec[d].generation + 1
  BY <1>1, <1>2, <1>3 DEF RemediationInv, OwnGeneration, Pending
<1>13. child[rec[d].identity] = "gone" /\ OwnGeneration(rec[d].identity) = rec[d].generation
  BY <1>2, <1>3, <1>4 DEF RecordInv
<1> HIDE DEF new, active
<1>14. StartInv(d)'
  <2>1. launch[d].step = "done"
    BY <1>3, <1>4 DEF StartInv
  <2>2. QED
    BY <1>1, <1>2, <1>3, <1>4, <1>11, <2>1 DEF StartInv, Spawned
<1>15. RecordInv(d)'
  BY <1>1, <1>2, <1>3, <1>5, <1>6, <1>8, <1>10, <1>11, <1>12 DEF RecordInv, ClaimOpen, Spawned, OwnGeneration
<1>16. RemediationInv(r)'
  BY <1>1, <1>2, <1>3, <1>11 DEF RemediationInv, Spawned, OwnGeneration
<1>17. ASSUME NEW k \in Launches, Spawned(k), launch[k].of = d PROVE ChildInv(k)'
  <2>1. ChildInv(k) /\ k # None
    BY DEF IInv, ChildrenInv
  <2>2. k = r \/ (child[k] = "gone" /\ OwnGeneration(k) < rec[d].generation + 1)
    <3>1. \/ k = rec[d].identity
          \/ child[k] = "gone" /\ OwnGeneration(k) < rec[d].generation
          \/ k = r
      BY <1>3, <1>17, <2>1 DEF ChildInv
    <3>2. OwnGeneration(k) \in Nat
      BY <1>2, GenerationNumber
    <3>3. CASE k = rec[d].identity
      BY <1>6, <1>13, <3>3
    <3>4. CASE child[k] = "gone" /\ OwnGeneration(k) < rec[d].generation
      BY <1>6, <3>2, <3>4
    <3>5. QED
      BY <3>1, <3>3, <3>4
  <2>3. QED
    BY <1>1, <1>3, <1>8, <1>10, <1>11, <1>17, <2>2 DEF ChildInv, OwnGeneration
<1>18. RecordMove(r, d, new)
  BY <1>1, <1>2, <1>3, <1>8, <1>9, <1>11, <1>14, <1>15, <1>16, <1>17 DEF RecordMove, TypeOK
<1>19. QED
  BY <1>2, <1>3, <1>8, <1>18, RecordMoves

-----------------------------------------------------------------------------
(* Handoffs                                                                *)

\* The result that is recorded is that of the recorded child.
LEMMA ResultRecorded ==
  ASSUME IInv, NEW h \in Handoffs, RecordResult(h)
  PROVE  IInv'
<1>0. PICK l \in Launches, d \in Delegations : l = handoff[h].by /\ d = launch[l].of
  <2>1. handoff[h].by \in Launches /\ launch[handoff[h].by].of \in Delegations
    BY DEF RecordResult, IInv, HandoffsInv, HandoffInv, ChildrenInv, ChildInv
  <2>2. QED
    BY <2>1
<1> DEFINE result == [by |-> l, generation |-> OwnGeneration(l), via |-> h]
<1> DEFINE new == [rec[d] EXCEPT !.state = "terminal", !.remediation = None, !.result = result]
<1>1. /\ rec' = [rec EXCEPT ![d] = new]
      /\ handoff[h].step = "record" /\ handoff' = [handoff EXCEPT ![h].step = "release"]
      /\ rec[d].state = "running" /\ rec[d].generation = OwnGeneration(l)
      /\ UNCHANGED <<faults, leases, launch, child, release>>
  BY <1>0 DEF RecordResult, Recordable, Update
<1>2. TypeOK /\ l \in Launches /\ Spawned(l) /\ rec[d].identity # None /\ l # None
  BY <1>0, <1>1 DEF IInv, HandoffsInv, HandoffInv
<1>3. ChildInv(l) /\ launch[l].of = d
  BY <1>0 DEF IInv, ChildrenInv
<1>4. rec[d] \in Record /\ RecordInv(d) /\ StartInv(d)
  BY <1>3 DEF IInv, TypeOK, RecordsInv, StartsInv
<1>5. ~ClaimOpen(d)
  BY <1>1, <1>4 DEF RecordInv
<1>6. l = rec[d].identity
  <2>1. OwnGeneration(l) \in Nat
    BY <1>2, GenerationNumber
  <2>2. ~(OwnGeneration(l) < rec[d].generation)
    BY <1>1, <2>1
  <2>3. QED
    BY <1>2, <1>3, <1>5, <2>2 DEF ChildInv
<1>7. l \in Delegations => l = d
  BY <1>2, <1>3 DEF IInv, StartsInv, StartInv
<1>8. result \in Result /\ result.by = l /\ result.generation = rec[d].generation
  BY <1>1, <1>2, <1>4 DEF Result, Record
<1>9. /\ new \in Record /\ new.state = "terminal" /\ new.remediation = None
      /\ new.result = result /\ new.identity = rec[d].identity
      /\ new.generation = rec[d].generation /\ new.turnsUsed = rec[d].turnsUsed
  BY <1>4, <1>8 DEF Record
<1>10. rec'[d] = new
  BY <1>1, <1>3 DEF IInv, TypeOK
<1>11. /\ handoff' \in [Handoffs -> [step : HandoffSteps, by : Launches \cup {None}, active : BOOLEAN]]
       /\ \A g \in Handoffs : handoff'[g].step # "idle" =>
            handoff[g].step # "idle" /\ handoff'[g].by = handoff[g].by
  <2>1. handoff[h] \in [step : HandoffSteps, by : Launches \cup {None}, active : BOOLEAN]
    BY <1>2 DEF TypeOK
  <2>2. [handoff[h] EXCEPT !.step = "release"] \in [step : HandoffSteps, by : Launches \cup {None}, active : BOOLEAN]
    BY <2>1 DEF HandoffSteps
  <2>3. QED
    BY <1>1, <1>2, <2>1, <2>2 DEF TypeOK
<1> HIDE DEF new, result
<1>12. \A r \in Remediations :
         launch[r].step \in {"deliver", "complete", "rollback", "manual"} => launch[r].of # d
  BY <1>5, ClaimHeld
<1>13. StartInv(d)'
  BY <1>1, <1>4, <1>9, <1>10 DEF StartInv, Spawned
<1>14. RecordInv(d)'
  <2>1. rec[d].turnsUsed + 1 = rec[d].generation /\ OwnGeneration(l) = rec[d].generation
    BY <1>1, <1>4 DEF RecordInv
  <2>2. OwnGeneration(l)' = OwnGeneration(l) /\ (Spawned(l)' <=> Spawned(l)) /\ launch'[l].of = d
    BY <1>1, <1>3 DEF OwnGeneration, Spawned
  <2>3. ~ClaimOpen(d)'
    BY <1>9, <1>10 DEF ClaimOpen
  <2>4. QED
    BY <1>2, <1>6, <1>8, <1>9, <1>10, <2>1, <2>2, <2>3 DEF RecordInv
<1>15. l \in Remediations => RemediationInv(l)'
  BY <1>1, <1>3, <1>12 DEF IInv, RemediationsInv, RemediationInv, Spawned, OwnGeneration
<1>16. ASSUME NEW k \in Launches, Spawned(k), launch[k].of = d PROVE ChildInv(k)'
  <2>1. ChildInv(k)
    BY DEF IInv, ChildrenInv
  <2>2. QED
    BY <1>1, <1>3, <1>5, <1>9, <1>10, <1>16, <2>1 DEF ChildInv, OwnGeneration
<1>17. RecordMove(l, d, new)
  BY <1>0, <1>1, <1>2, <1>7, <1>9, <1>10, <1>11, <1>12, <1>13, <1>14, <1>15, <1>16 DEF RecordMove, TypeOK
<1>18. QED
  BY <1>2, <1>3, <1>9, <1>17, RecordMoves

\* The other steps of handoff commands, and those of the operators.
LEMMA HandoffCommands ==
  ASSUME IInv, NEW h \in Handoffs, HandoffNext(h)
  PROVE  IInv'
<1> DEFINE Commands == [step : HandoffSteps, by : Launches \cup {None}, active : BOOLEAN]
<1>1. /\ TypeOK /\ leases \subseteq Launches /\ handoff \in [Handoffs -> Commands]
      /\ release \in [Releases -> Delegations \cup {None}]
      /\ NoHandoff \in Commands /\ NoHandoff.step = "idle" /\ {"lease", "record"} \subseteq HandoffSteps
  BY DEF IInv, TypeOK, NoHandoff, HandoffSteps
<1> HIDE DEF Commands
<1>2. CASE RecordResult(h)
  BY <1>2, ResultRecorded
<1>3. ASSUME NEW l \in Launches, HandIn(h, l) PROVE IInv'
  <2>1. PICK active \in BOOLEAN :
          /\ handoff' = [handoff EXCEPT ![h] = [step |-> "lease", by |-> l, active |-> active]]
          /\ child[l] = "live" /\ rec[launch[l].of].identity # None
          /\ UNCHANGED <<faults, rec, leases, launch, child, release>>
    BY <1>3 DEF HandIn
  <2>2. [step |-> "lease", by |-> l, active |-> active] \in Commands
    BY <1>1 DEF Commands
  <2>3. /\ handoff' \in [Handoffs -> Commands] /\ handoff'[h].by = l
        /\ \A g \in Handoffs : g # h => handoff'[g] = handoff[g]
    BY <1>1, <2>1, <2>2
  <2>4. Spawned(l)
    BY <2>1 DEF Spawned
  <2>5. QED
    BY <1>1, <2>1, <2>3, <2>4, HandoffMoves DEF Commands
<1>4. CASE CheckLease(h)
  <2>1. /\ handoff' = [handoff EXCEPT ![h].step = "record"] /\ handoff[h].step = "lease"
        /\ UNCHANGED <<faults, rec, leases, launch, child, release>>
    BY <1>4 DEF CheckLease
  <2>2. [handoff[h] EXCEPT !.step = "record"] \in Commands /\ [handoff[h] EXCEPT !.step = "record"].by = handoff[h].by
    BY <1>1 DEF Commands
  <2>3. /\ handoff' \in [Handoffs -> Commands] /\ handoff'[h].by = handoff[h].by
        /\ \A g \in Handoffs : g # h => handoff'[g] = handoff[g]
    BY <1>1, <2>1, <2>2
  <2>4. QED
    BY <1>1, <2>1, <2>3, HandoffMoves DEF Commands
<1>5. CASE ReleaseAfterResult(h) \/ HandoffFails(h)
  <2>1. /\ handoff' = [handoff EXCEPT ![h] = NoHandoff]
        /\ UNCHANGED <<faults, rec, launch, child, release>>
    BY <1>5 DEF ReleaseAfterResult, HandoffFails
  <2>2. leases' \subseteq Launches
    BY <1>1, <1>5 DEF ReleaseAfterResult, HandoffFails, ReleaseFor, LeasesOf
  <2>3. /\ handoff' \in [Handoffs -> Commands] /\ handoff'[h].step = "idle"
        /\ \A g \in Handoffs : g # h => handoff'[g] = handoff[g]
    BY <1>1, <2>1
  <2>4. QED
    BY <1>1, <2>1, <2>2, <2>3, HandoffMoves DEF Commands
<1>6. QED
  BY <1>2, <1>3, <1>4, <1>5 DEF HandoffNext

LEMMA ReleaseSteps ==
  ASSUME IInv, NEW x \in Releases, ReleaseNext(x)
  PROVE  IInv'
<1>1. /\ TypeOK /\ leases \subseteq Launches /\ release \in [Releases -> Delegations \cup {None}]
      /\ handoff \in [Handoffs -> [step : HandoffSteps, by : Launches \cup {None}, active : BOOLEAN]]
  BY DEF IInv, TypeOK
<1>2. UNCHANGED <<faults, rec, launch, child, handoff>>
  BY DEF ReleaseNext, ReleaseLeases, ReleaseCheck
<1>3. leases' \subseteq Launches
  BY <1>1 DEF ReleaseNext, ReleaseLeases, ReleaseCheck, ReleaseFor, LeasesOf
<1>4. release' \in [Releases -> Delegations \cup {None}]
  BY <1>1 DEF ReleaseNext, ReleaseLeases, ReleaseCheck
<1>5. QED
  BY <1>1, <1>2, <1>3, <1>4, HandoffMoves

-----------------------------------------------------------------------------
(* Leases, crashes, and children that die                                  *)

\* A launch takes its lease, or does not get it, or is killed.
LEMMA LeaseSteps ==
  ASSUME IInv, NEW l \in Launches, Reserve(l) \/ ReserveFails(l) \/ LaunchDies(l)
  PROVE  IInv'
<1>1. PICK step \in {"spawn", "fail", "claim", "done"} :
        /\ launch' = [launch EXCEPT ![l].step = step] /\ launch[l].step # "idle"
        /\ UNCHANGED <<faults, rec, child, handoff, release>>
        /\ step # "done" => launch[l].step = "reserve"
        /\ l \in Delegations => step # "claim"
        /\ l \notin Delegations => step \in {"claim", "done"}
  BY DEF Reserve, ReserveFails, LaunchDies, Goes
<1>2. leases' \subseteq Launches
  BY DEF IInv, TypeOK, Reserve, ReserveFails, LaunchDies, Reservations!Grant
<1>3. step \in LaunchSteps /\ step # "idle"
  BY <1>1 DEF LaunchSteps
<1>4. l \in Delegations => /\ step # "identity" /\ (step \notin {"fail", "done"} => ~Spawned(l))
                           /\ step # "done" => rec[l].identity = None
  BY <1>1 DEF IInv, StartsInv, StartInv
<1>5. l \in Remediations => /\ step \notin {"complete", "manual", "done"} => ~Spawned(l)
                            /\ step = "claim" => child[launch[l].worker] = "gone"
                            /\ step \notin {"complete", "reserve", "deliver", "rollback", "manual"}
  BY <1>1 DEF IInv, RemediationsInv, RemediationInv
<1>6. QED
  BY <1>1, <1>2, <1>3, <1>4, <1>5, LaunchMoves

\* A child that is gone was spawned all the same.
LEMMA ChildGone ==
  ASSUME IInv, NEW l \in Launches, ChildDies(l)
  PROVE  IInv'
<1>1. child[l] = "live" /\ child' = [child EXCEPT ![l] = "gone"] /\ UNCHANGED <<faults, rec, leases, launch, handoff, release>>
  BY DEF ChildDies
<1> USE DEF IInv, TypeOK
<1>2. TypeOK'
  BY <1>1
<1>3. child'[l] = "gone" /\ \A k \in Launches : k # l => child'[k] = child[k]
  BY <1>1
<1>4. \A k \in Launches : /\ Spawned(k)' <=> Spawned(k)
                          /\ child[k] = "gone" => child'[k] = "gone"
                          /\ OwnGeneration(k)' = OwnGeneration(k)
  BY <1>1, <1>3 DEF Spawned, OwnGeneration
<1>5. StartsInv'
  BY <1>1, <1>4 DEF StartsInv, StartInv
<1>6. ASSUME NEW r \in Remediations PROVE RemediationInv(r)'
  <2>1. RemediationInv(r) /\ (Pending(r)' <=> Pending(r)) /\ r \in Launches
    BY <1>1 DEF RemediationsInv, Pending
  <2>2. launch[r].step # "idle" => launch[r].worker \in Launches
    BY <2>1 DEF RemediationInv
  <2>3. QED
    BY <1>1, <1>4, <2>1, <2>2 DEF RemediationInv
<1>7. ASSUME NEW d \in Delegations PROVE RecordInv(d)'
  <2>1. RecordInv(d) /\ rec[d] \in Record /\ (ClaimOpen(d)' <=> ClaimOpen(d))
    BY <1>1 DEF RecordsInv, ClaimOpen
  <2>2. rec[d].identity \in Launches \cup {None} /\ (ClaimOpen(d) => rec[d].identity # None)
    BY <2>1 DEF Record, RecordInv, ClaimOpen
  <2>3. QED
    BY <1>1, <1>4, <2>1, <2>2 DEF RecordInv
<1>8. ChildrenInv'
  BY <1>1, <1>4 DEF ChildrenInv, ChildInv, ClaimOpen
<1>9. GenerationsInv'
  BY <1>1, <1>4 DEF GenerationsInv, Twins
<1>10. HandoffsInv'
  BY <1>1, <1>4 DEF HandoffsInv, HandoffInv
<1>11. QED
  BY <1>2, <1>5, <1>6, <1>7, <1>8, <1>9, <1>10 DEF RemediationsInv, RecordsInv

-----------------------------------------------------------------------------
(* The invariant                                                           *)

LEMMA RemediationSteps ==
  ASSUME IInv, NEW r \in Remediations, RemediationNext(r)
  PROVE  IInv'
BY Begun, RemediationGoesOn, Claimed, ClaimEnds, Completed DEF RemediationNext

LEMMA StepInv == IInv /\ [Next]_vars => IInv'
<1> SUFFICES ASSUME IInv, [Next]_vars PROVE IInv'
  OBVIOUS
<1>1. CASE UNCHANGED vars
  <2>1. /\ leases' \subseteq Launches /\ release' \in [Releases -> Delegations \cup {None}]
        /\ handoff' \in [Handoffs -> [step : HandoffSteps, by : Launches \cup {None}, active : BOOLEAN]]
    BY <1>1 DEF vars, parts, IInv, TypeOK
  <2>2. QED
    BY <1>1, <2>1, HandoffMoves DEF vars, parts
<1>2. CASE \E d \in Delegations : StartNext(d)
  BY <1>2, StartSteps
<1>3. CASE \E r \in Remediations : RemediationNext(r)
  BY <1>3, RemediationSteps
<1>4. CASE \E l \in Launches : Reserve(l) \/ ReserveFails(l) \/ ChildDies(l) \/ LaunchDies(l)
  BY <1>4, LeaseSteps, ChildGone
<1>5. CASE \E h \in Handoffs : HandoffNext(h)
  BY <1>5, HandoffCommands
<1>6. CASE \E x \in Releases : ReleaseNext(x)
  BY <1>6, ReleaseSteps
<1>7. QED
  BY <1>1, <1>2, <1>3, <1>4, <1>5, <1>6 DEF Next

\* The inductive invariant holds of every behaviour, whatever faults it has.
THEOREM Invariance == Spec => []IInv
BY InitInv, StepInv, PTL DEF Spec

-----------------------------------------------------------------------------
(* Children                                                                *)

\* A live child is the recorded one, or one that is about to be recorded, which
\* excludes the other.
LEMMA OneLives == IInv => OneChild
<1> SUFFICES ASSUME IInv, NEW k \in Launches, NEW l \in Launches,
                    child[k] = "live", child[l] = "live", launch[k].of = launch[l].of
             PROVE  k = l
  BY DEF OneChild
<1> DEFINE d == launch[l].of
<1>1. ChildInv(k) /\ ChildInv(l) /\ Spawned(k) /\ Spawned(l) /\ k # None /\ l # None
  BY DEF IInv, ChildrenInv, Spawned
<1>2. d \in Delegations /\ RecordInv(d)
  BY <1>1 DEF ChildInv, IInv, RecordsInv
<1>3. /\ k = rec[d].identity \/ (k = d /\ rec[d].identity = None) \/ (ClaimOpen(d) /\ k = rec[d].remediation.token)
      /\ l = rec[d].identity \/ (l = d /\ rec[d].identity = None) \/ (ClaimOpen(d) /\ l = rec[d].remediation.token)
  BY <1>1 DEF ChildInv
<1>4. ClaimOpen(d) => rec[d].identity # None /\ child[rec[d].identity] = "gone"
  BY <1>2 DEF RecordInv, ClaimOpen
<1>5. QED
  BY <1>1, <1>3, <1>4

\* A follow-up is spawned for a generation of its own, after the first, and there
\* is one more generation than turns.
LEMMA FollowUpsCounted == IInv => FollowUpsAreCounted
<1> SUFFICES ASSUME IInv, NEW d \in Delegations
             PROVE  Cardinality({r \in Remediations : launch[r].of = d /\ child[r] # "absent"}) <= Turns
  BY DEF FollowUpsAreCounted
<1> DEFINE S == {r \in Remediations : launch[r].of = d /\ child[r] # "absent"}
<1> DEFINE T == 2..(Turns + 1)
<1> DEFINE f == [r \in S |-> OwnGeneration(r)]
<1>1. TypeOK /\ rec[d] \in Record /\ RecordInv(d)
  BY DEF IInv, TypeOK, RecordsInv
<1>2. rec[d].generation \in Nat /\ rec[d].turnsUsed \in Nat /\ rec[d].generation <= Turns + 1
  BY <1>1, FirstGeneration DEF Record
<1>3. ASSUME NEW r \in S PROVE OwnGeneration(r) \in T
  <2>1. OwnGeneration(r) \in Nat /\ OwnGeneration(r) >= 2
    <3>1. launch[r].generation \in Generations
      BY <1>1 DEF TypeOK
    <3>2. QED
      BY <3>1 DEF OwnGeneration, Generations
  <2>2. ChildInv(r) /\ Spawned(r) /\ r # None
    BY DEF IInv, ChildrenInv, Spawned
  <2>3. CASE r = rec[d].identity
    BY <1>1, <1>2, <2>1, <2>2, <2>3 DEF RecordInv
  <2>4. CASE OwnGeneration(r) < rec[d].generation
    BY <1>2, <2>1, <2>4
  <2>5. CASE ClaimOpen(d) /\ r = rec[d].remediation.token
    <3>1. launch[r].generation = rec[d].generation /\ rec[d].turnsUsed < Turns /\ rec[d].generation = rec[d].turnsUsed + 1
      BY <1>1, <2>5 DEF RecordInv
    <3>2. OwnGeneration(r) = rec[d].generation + 1
      BY <3>1 DEF OwnGeneration
    <3>3. QED
      BY <1>2, <2>1, <3>1, <3>2
  <2>6. QED
    BY <2>2, <2>3, <2>4, <2>5 DEF ChildInv
<1>4. ASSUME NEW q \in S, NEW r \in S, OwnGeneration(q) = OwnGeneration(r) PROVE q = r
  BY <1>4 DEF IInv, GenerationsInv, Twins, Spawned
<1>5. f \in [S -> T] /\ \A q, r \in S : f[q] = f[r] => q = r
  BY <1>3, <1>4
<1>6. f \in Injection(S, T)
  <2> HIDE DEF f, S, T
  <2>1. DOMAIN f = S
    BY <1>5
  <2>2. QED
    BY <1>5, <2>1 DEF Injection, IsInjective
<1>7. IsFiniteSet(T) /\ Cardinality(T) = Turns
  <2>1. 2 \in Int /\ Turns + 1 \in Int
    OBVIOUS
  <2>2. IsFiniteSet(T) /\ Cardinality(T) = IF 2 > Turns + 1 THEN 0 ELSE (Turns + 1) - 2 + 1
    BY <2>1, FS_Interval
  <2>3. QED
    BY <2>2
<1>8. Cardinality(S) <= Cardinality(T)
  <2> HIDE DEF f, S, T
  <2>1. QED
    BY <1>6, <1>7, FS_Injection
<1>9. QED
  BY <1>7, <1>8

\* However launches overlap, fail and die, a delegation never has two live children,
\* and no more follow-ups are spawned than the policy has turns.
THEOREM ChildrenCounted == Spec => []ChildrenAreCounted
<1>1. IInv => ChildrenAreCounted
  BY OneLives, FollowUpsCounted DEF IInv, ChildrenAreCounted
<1>2. QED
  BY <1>1, Invariance, PTL

-----------------------------------------------------------------------------
(* Results                                                                 *)

\* A step that is not the recording of a result, or the next generation, keeps it.
LEMMA ResultStays ==
  ASSUME IInv, [Next]_vars, NEW d \in Delegations,
         rec[d].result # None, rec'[d].generation = rec[d].generation
  PROVE  rec'[d].result = rec[d].result
<1>1. /\ rec[d] \in Record /\ rec[d].state = "terminal" /\ rec[d].identity # None
      /\ launch[d].step = "done" /\ rec[d].generation \in Nat
      /\ rec \in [Delegations -> Record]
  <2>1. RecordInv(d) /\ StartInv(d) /\ rec \in [Delegations -> Record]
    BY DEF IInv, TypeOK, RecordsInv, StartsInv
  <2>2. rec[d] \in Record
    BY <2>1
  <2>3. QED
    BY <2>1, <2>2, FirstGeneration DEF RecordInv, StartInv, Record
<1>2. ASSUME NEW e \in Delegations, NEW new, rec' = [rec EXCEPT ![e] = new], e = d => new.result = rec[d].result
      PROVE  rec'[d].result = rec[d].result
  BY <1>1, <1>2
<1> USE DEF Update
<1>3. CASE UNCHANGED rec
  BY <1>3
<1>4. ASSUME NEW e \in Delegations, StartNext(e) PROVE rec'[d].result = rec[d].result
  <2>1. UNCHANGED rec \/ \E new : rec' = [rec EXCEPT ![e] = new]
    BY <1>4 DEF StartNext, Prepare, ClaimStart, Spawn, SpawnFails, RecordIdentity, IdentityRefused, RecordStartFailure
  <2>2. launch[e].step # "done"
    BY <1>4 DEF StartNext, Prepare, ClaimStart, Spawn, SpawnFails, RecordIdentity, IdentityRefused, RecordStartFailure, Goes
  <2>3. QED
    BY <1>1, <1>2, <1>3, <2>1, <2>2
<1>5. ASSUME NEW r \in Remediations, RemediationNext(r) PROVE rec'[d].result = rec[d].result
  <2>1. CASE ClaimRemediation(r) \/ MarkManual(r) \/ Rollback(r)
    <3>1. launch[r].of \in Delegations
      BY <2>1 DEF IInv, RemediationsInv, RemediationInv, ClaimRemediation, MarkManual, Rollback, Goes
    <3>2. PICK e \in Delegations : e = launch[r].of
      BY <3>1
    <3>3. rec[e] \in Record
      BY <1>1
    <3>4. PICK new : rec' = [rec EXCEPT ![e] = new] /\ new.result = rec[e].result
      <4>1. CASE ClaimRemediation(r)
        <5>1. rec' = [rec EXCEPT ![e] = [rec[e] EXCEPT !.remediation = [state |-> "launching", token |-> r]]]
          BY <3>2, <4>1 DEF ClaimRemediation
        <5>2. [rec[e] EXCEPT !.remediation = [state |-> "launching", token |-> r]].result = rec[e].result
          BY <3>3 DEF Record
        <5>3. QED
          BY <5>1, <5>2
      <4>2. CASE MarkManual(r)
        <5>1. rec' = [rec EXCEPT ![e] = [rec[e] EXCEPT !.remediation = [rec[e].remediation EXCEPT !.state = "manual-recovery"]]]
          BY <3>2, <3>3, <4>2 DEF MarkManual, Record
        <5>2. [rec[e] EXCEPT !.remediation = [rec[e].remediation EXCEPT !.state = "manual-recovery"]].result = rec[e].result
          BY <3>3 DEF Record
        <5>3. QED
          BY <5>1, <5>2
      <4>3. CASE Rollback(r)
        <5>1. rec' = [rec EXCEPT ![e] = [rec[e] EXCEPT !.remediation = None]]
          BY <3>2, <4>3 DEF Rollback
        <5>2. [rec[e] EXCEPT !.remediation = None].result = rec[e].result
          BY <3>3 DEF Record
        <5>3. QED
          BY <5>1, <5>2
      <4>4. QED
        BY <2>1, <4>1, <4>2, <4>3
    <3>5. QED
      BY <1>2, <3>4
  <2>2. CASE Complete(r)
    <3>1. PICK e \in Delegations : e = launch[r].of
      BY <2>2 DEF IInv, RemediationsInv, RemediationInv, Complete, Goes
    <3>2. rec[e] \in Record
      BY <1>1
    <3>3. PICK new : rec' = [rec EXCEPT ![e] = new] /\ new.generation = rec[e].generation + 1
      <4> DEFINE active == [rec[e].remediation EXCEPT !.state = "active"]
      <4> DEFINE next == [rec[e] EXCEPT !.state = "running", !.generation = rec[e].generation + 1, !.identity = r,
                            !.result = None, !.turnsUsed = rec[e].turnsUsed + 1, !.remediation = active]
      <4>1. rec' = [rec EXCEPT ![e] = next]
        BY <2>2, <3>1, <3>2 DEF Complete, Record
      <4>2. next.generation = rec[e].generation + 1
        BY <3>2 DEF Record
      <4>3. QED
        BY <4>1, <4>2
    <3>4. e # d
      BY <1>1, <3>3
    <3>5. QED
      BY <1>2, <3>3, <3>4
  <2>3. CASE UNCHANGED rec
    BY <2>3
  <2>4. QED
    BY <1>5, <2>1, <2>2, <2>3
       DEF RemediationNext, Begin, Observe, ObserveRefuses, ClaimRefused, Deliver, DeliverFails, CompleteRefused, ReleaseAfterFailure
<1>6. ASSUME NEW h \in Handoffs, HandoffNext(h) PROVE rec'[d].result = rec[d].result
  <2>1. CASE RecordResult(h)
    <3>1. PICK e \in Delegations : e = launch[handoff[h].by].of
      BY <2>1 DEF RecordResult, IInv, HandoffsInv, HandoffInv, ChildrenInv, ChildInv
    <3>2. rec[e].state = "running" /\ \E new : rec' = [rec EXCEPT ![e] = new]
      BY <2>1, <3>1 DEF RecordResult, Recordable
    <3>3. QED
      BY <1>1, <1>2, <3>2
  <2>2. CASE UNCHANGED rec
    BY <2>2
  <2>3. QED
    BY <1>6, <2>1, <2>2 DEF HandoffNext, HandIn, CheckLease, ReleaseAfterResult, HandoffFails
<1>7. ASSUME NEW l \in Launches, Reserve(l) \/ ReserveFails(l) \/ ChildDies(l) \/ LaunchDies(l) PROVE UNCHANGED rec
  BY <1>7 DEF Reserve, ReserveFails, ChildDies, LaunchDies
<1>8. ASSUME NEW x \in Releases, ReleaseNext(x) PROVE UNCHANGED rec
  BY <1>8 DEF ReleaseNext, ReleaseLeases, ReleaseCheck
<1>9. QED
  BY <1>3, <1>4, <1>5, <1>6, <1>7, <1>8 DEF Next, vars, parts

\* A result is of the child that was spawned for its generation, and within the
\* generation it is never replaced or lost.
THEOREM ResultsStandAlways == Spec => ResultsStand
<1>1. IInv => ResultIsOfItsChild
  <2> SUFFICES ASSUME IInv, NEW d \in Delegations, rec[d].result # None
               PROVE  /\ rec[d].result.generation = rec[d].generation
                      /\ rec[d].result.by = rec[d].identity
                      /\ OwnGeneration(rec[d].result.by) = rec[d].generation
    BY DEF ResultIsOfItsChild
  <2>1. QED
    BY DEF IInv, RecordsInv, RecordInv
<1>2. IInv /\ [Next]_vars =>
        [\A d \in Delegations :
           rec[d].result # None /\ rec'[d].generation = rec[d].generation =>
             rec'[d].result = rec[d].result]_vars
  BY ResultStays
<1>3. QED
  BY <1>1, <1>2, Invariance, PTL DEF Spec, ResultsStand, OneResultPerGeneration


-----------------------------------------------------------------------------
(* Leases.  While launches follow one another, no handoff command outlives  *)
(* its child and no operator interferes, a lease covers every child at work *)
(* because each of the steps that free leases knows its child to be out of  *)
(* work.  A second inductive invariant, over the first, says how.           *)

Calm == faults \cap {"overlap", "operator", "orphan"} = {}

Active(r) == launch[r].step \notin {"idle", "done"}

OneAtATime == \A q, r \in Remediations : Active(q) /\ Active(r) => q = r

\* A remediation under way is of the child that is recorded, and nobody else
\* claims its delegation.
CurrentInv(r) ==
  Active(r) =>
    /\ launch[r].worker = rec[launch[r].of].identity
    /\ rec[launch[r].of].remediation # None => rec[launch[r].of].remediation.token = r
    /\ launch[r].step = "release" => child[launch[r].worker] = "gone"

\* The steps at which a launch has its lease.
HoldingSteps(l) ==
  IF l \in Delegations THEN {"spawn", "identity"}
                       ELSE {"claim", "deliver", "complete", "rollback", "manual"}

LeaseInv(l) ==
  /\ launch[l].step \in HoldingSteps(l) => l \in leases
  /\ launch[l].step = "idle" => l \notin leases
  /\ Working(l) => LeasesOf(launch[l].of) # {}

\* A handoff command runs in its child, and frees the leases after its result.
HandsInInv(h) ==
  handoff[h].step # "idle" =>
    /\ child[handoff[h].by] = "live"
    /\ handoff[h].step = "release" =>
         /\ rec[launch[handoff[h].by].of].result # None
         /\ rec[launch[handoff[h].by].of].result.by = handoff[h].by

CalmInv ==
  /\ OneAtATime
  /\ \A r \in Remediations : CurrentInv(r)
  /\ \A l \in Launches : LeaseInv(l)
  /\ \A h \in Handoffs : HandsInInv(h)
  /\ \A x \in Releases : release[x] = None

\* The delegation of a launch under way, and its child: what a remediation read is recorded.
LEMMA UnderWay ==
  ASSUME IInv, CalmInv, NEW l \in Launches, Active(l)
  PROVE  /\ launch[l].of \in Delegations
         /\ l \in Delegations => launch[l].of = l /\ rec[l].identity = None
         /\ l \in Remediations => rec[launch[l].of].identity # None /\ launch[l].worker \in Launches
<1>1. CASE l \in Delegations
  BY <1>1 DEF Active, IInv, StartsInv, StartInv
<1>2. CASE l \in Remediations
  BY <1>2 DEF Active, IInv, RemediationsInv, RemediationInv, CalmInv, CurrentInv
<1>3. QED
  BY <1>1, <1>2

\* A child at work has a delegation, in which it is the only one that lives, and
\* has not handed in.
LEMMA AtWork ==
  ASSUME IInv, NEW l \in Launches, Working(l)
  PROVE  /\ Spawned(l) /\ launch[l].of \in Delegations
         /\ ~(rec[launch[l].of].result # None /\ rec[launch[l].of].result.by = l)
         /\ \A k \in Launches : child[k] = "live" /\ launch[k].of = launch[l].of => k = l
<1>1. Spawned(l) /\ launch[l].of \in Delegations
  BY DEF Working, Spawned, IInv, ChildrenInv, ChildInv
<1>2. QED
  BY <1>1, OneLives DEF Working, OneChild

\* A step of a launch that frees no lease, and leaves the other records alone.
LEMMA CalmLaunch ==
  ASSUME IInv, CalmInv, NEW l \in Launches, NEW step \in LaunchSteps \ {"idle"}, Active(l),
         launch' = [launch EXCEPT ![l].step = step], UNCHANGED <<handoff, release>>,
         leases' \in {leases, leases \cup {l}},
         step \in HoldingSteps(l) => l \in leases',
         \/ UNCHANGED child
         \/ child' = [child EXCEPT ![l] = "live"] /\ ~Spawned(l) /\ l \in leases',
         \A e \in Delegations : e # launch[l].of => rec'[e] = rec[e],
         \/ rec'[launch[l].of].result = rec[launch[l].of].result
         \/ /\ rec'[launch[l].of].result = None
            /\ rec[launch[l].of].result # None => child[rec[launch[l].of].result.by] = "gone",
         l \in Remediations /\ step # "done" =>
           /\ rec'[launch[l].of].identity = rec[launch[l].of].identity
           /\ rec'[launch[l].of].remediation # None => rec'[launch[l].of].remediation.token = l
           /\ step = "release" => child[launch[l].worker] = "gone"
  PROVE  CalmInv'
<1> DEFINE d == launch[l].of
<1>1. /\ launch'[l].step = step
      /\ \A k \in Launches :
           /\ launch'[k].of = launch[k].of /\ launch'[k].worker = launch[k].worker
           /\ k # l => launch'[k] = launch[k]
  BY LaunchGoesOn DEF IInv
<1>2. \A k \in Launches : /\ child[k] = "gone" => child'[k] = "gone"
                          /\ child[k] = "live" => child'[k] = "live"
                          /\ child'[k] = "live" => child[k] = "live" \/ (k = l /\ l \in leases')
  BY DEF IInv, TypeOK, Spawned
<1>3. \A k \in Launches : Active(k)' => Active(k)
  BY <1>1 DEF Active
<1>4. OneAtATime'
  BY <1>3 DEF CalmInv, OneAtATime
<1>5. ASSUME NEW r \in Remediations PROVE CurrentInv(r)'
  <2> SUFFICES ASSUME Active(r)' PROVE CurrentInv(r)'
    BY DEF CurrentInv
  <2>1. /\ r \in Launches /\ Active(r) /\ CurrentInv(r) /\ launch[r].of \in Delegations
        /\ launch[r].worker \in Launches /\ rec[launch[r].of].identity # None
    BY <1>3, UnderWay DEF CalmInv
  <2>2. CASE r = l
    <3>1. step # "done"
      BY <1>1, <2>2 DEF Active
    <3>2. QED
      BY <1>1, <1>2, <2>1, <2>2, <3>1 DEF CurrentInv
  <2>3. CASE r # l
    <3>1. l \notin Remediations
      BY <2>1, <2>3 DEF CalmInv, OneAtATime
    <3>2. launch[r].of # d
      BY <2>1, <3>1, UnderWay
    <3>3. rec'[launch[r].of] = rec[launch[r].of] /\ launch'[r] = launch[r]
      BY <1>1, <2>1, <2>3, <3>2
    <3>4. QED
      BY <1>2, <2>1, <3>3 DEF CurrentInv
  <2>4. QED
    BY <2>2, <2>3
<1>6. ASSUME NEW k \in Launches PROVE LeaseInv(k)'
  <2>1. LeaseInv(k) /\ leases \subseteq leases'
    BY DEF CalmInv
  <2>2. (launch'[k].step \in HoldingSteps(k) => k \in leases') /\ (launch'[k].step = "idle" => k \notin leases')
    <3>1. CASE k = l
      BY <1>1, <3>1
    <3>2. CASE k # l
      BY <1>1, <2>1, <3>2 DEF LeaseInv
    <3>3. QED
      BY <3>1, <3>2
  <2>3. ASSUME Working(k)' PROVE LeasesOf(launch[k].of)' # {}
    <3>1. CASE k = l /\ l \in leases'
      BY <1>1, <3>1 DEF LeasesOf
    <3>2. CASE child[k] = "live"
      <4>1. Working(k)
        <5> SUFFICES ASSUME NEW e \in Delegations, rec[e].result # None, rec[e].result.by = k PROVE FALSE
          BY <3>2 DEF Working
        <5>1. rec'[e].result = rec[e].result
          <6>1. CASE e # d
            BY <6>1
          <6>2. CASE e = d
            BY <3>2, <6>2
          <6>3. QED
            BY <6>1, <6>2
        <5>2. QED
          BY <2>3, <5>1 DEF Working
      <4>2. PICK m \in leases : launch[m].of = launch[k].of
        BY <2>1, <4>1 DEF LeaseInv, LeasesOf
      <4>3. m \in Launches /\ m \in leases' /\ launch'[m].of = launch[k].of
        BY <1>1, <2>1, <4>2 DEF IInv, TypeOK
      <4>4. QED
        BY <4>3 DEF LeasesOf
    <3>3. QED
      BY <1>2, <2>3, <3>1, <3>2 DEF Working
  <2>4. QED
    BY <1>1, <2>2, <2>3 DEF LeaseInv, HoldingSteps
<1>7. ASSUME NEW h \in Handoffs PROVE HandsInInv(h)'
  <2> SUFFICES ASSUME handoff[h].step # "idle" PROVE HandsInInv(h)'
    BY DEF HandsInInv
  <2>1. HandsInInv(h) /\ handoff[h].by \in Launches
    BY DEF CalmInv, IInv, HandoffsInv, HandoffInv
  <2> DEFINE e == launch[handoff[h].by].of
  <2>2. e \in Delegations
    BY <2>1 DEF HandsInInv, IInv, ChildrenInv, ChildInv, Spawned
  <2>3. handoff[h].step = "release" => rec'[e].result = rec[e].result
    BY <2>1, <2>2 DEF HandsInInv
  <2>4. launch'[handoff[h].by].of = e /\ child'[handoff[h].by] = "live"
    BY <1>1, <1>2, <2>1 DEF HandsInInv
  <2>5. QED
    BY <2>1, <2>3, <2>4 DEF HandsInInv
<1>8. QED
  BY <1>4, <1>5, <1>6, <1>7 DEF CalmInv

\* A launch that begins, for d, has no lease, and nothing of d is under way.
LEMMA CalmBegins ==
  ASSUME IInv, CalmInv, NEW l \in Launches, NEW d \in Delegations, NEW new,
         launch[l].step = "idle", launch' = [launch EXCEPT ![l] = new],
         new.of = d, new.step \in {"claim", "observe"}, l \in Delegations => l = d /\ new.step = "claim",
         UNCHANGED <<leases, child, handoff, release>>,
         l \in Delegations => rec[d].identity = None /\ rec[d].result = None,
         \A e \in Delegations : e # d => rec'[e] = rec[e],
         rec'[d].result = rec[d].result,
         l \in Remediations =>
           /\ UNCHANGED rec /\ new.step = "observe"
           /\ new.worker = rec[d].identity /\ rec[d].remediation = None
           /\ \A q \in Remediations : ~Active(q)
  PROVE  CalmInv'
<1>1. launch'[l] = new /\ \A k \in Launches : k # l => launch'[k] = launch[k]
  BY DEF IInv, TypeOK
<1>2. ~Spawned(l) /\ l \notin leases
  BY DEF IInv, StartsInv, StartInv, RemediationsInv, RemediationInv, CalmInv, LeaseInv
<1>3. OneAtATime'
  <2>1. \A q \in Remediations : Active(q)' => Active(q) \/ q = l
    BY <1>1 DEF Active
  <2>2. QED
    BY <2>1 DEF CalmInv, OneAtATime
<1>4. ASSUME NEW r \in Remediations PROVE CurrentInv(r)'
  <2>1. CASE r = l
    BY <1>1, <2>1 DEF CurrentInv
  <2>2. CASE r # l /\ Active(r)
    <3>1. l \in Delegations /\ launch'[r] = launch[r] /\ CurrentInv(r)
      BY <1>1, <2>2 DEF CalmInv
    <3>2. launch[r].of \in Delegations /\ launch[r].of # d
      BY <2>2, <3>1, UnderWay
    <3>3. rec'[launch[r].of] = rec[launch[r].of]
      BY <3>2
    <3>4. QED
      BY <3>1, <3>3 DEF CurrentInv, Active
  <2>3. CASE r # l /\ ~Active(r)
    BY <1>1, <2>3 DEF CurrentInv, Active
  <2>4. QED
    BY <2>1, <2>2, <2>3
<1>5. ASSUME NEW k \in Launches PROVE LeaseInv(k)'
  <2>1. LeaseInv(k)
    BY DEF CalmInv
  <2>2. (launch'[k].step \in HoldingSteps(k) => k \in leases') /\ (launch'[k].step = "idle" => k \notin leases')
    BY <1>1, <2>1 DEF LeaseInv, HoldingSteps
  <2>3. ASSUME Working(k)' PROVE LeasesOf(launch[k].of)' # {}
    <3>1. Working(k) /\ k # l
      <4>1. \A e \in Delegations : rec'[e].result = rec[e].result
        OBVIOUS
      <4>2. QED
        BY <1>2, <2>3, <4>1 DEF Working, Spawned
    <3>2. PICK m \in leases : launch[m].of = launch[k].of
      BY <2>1, <3>1 DEF LeaseInv, LeasesOf
    <3>3. m # l /\ m \in Launches
      BY <1>2 DEF IInv, TypeOK
    <3>4. QED
      BY <1>1, <3>1, <3>2, <3>3 DEF LeasesOf
  <2>4. Working(k)' => launch'[k].of = launch[k].of
    BY <1>1, <1>2 DEF Working, Spawned
  <2>5. QED
    BY <2>2, <2>3, <2>4 DEF LeaseInv, HoldingSteps, LeasesOf
<1>6. ASSUME NEW h \in Handoffs PROVE HandsInInv(h)'
  <2> SUFFICES ASSUME handoff[h].step # "idle" PROVE HandsInInv(h)'
    BY DEF HandsInInv
  <2>1. HandsInInv(h) /\ handoff[h].by \in Launches /\ Spawned(handoff[h].by)
    BY DEF CalmInv, IInv, HandoffsInv, HandoffInv
  <2>2. launch'[handoff[h].by].of = launch[handoff[h].by].of /\ launch[handoff[h].by].of \in Delegations
    BY <1>1, <1>2, <2>1 DEF IInv, ChildrenInv, ChildInv
  <2>3. QED
    BY <2>1, <2>2 DEF HandsInInv
<1>7. QED
  BY <1>3, <1>4, <1>5, <1>6 DEF CalmInv

\* Leases of d are freed, when no child of d is at work, no start of d is under
\* way, and no remediation of d holds one.
LEMMA CalmFrees ==
  ASSUME IInv, CalmInv, NEW d \in Delegations, ReleaseFor(d), UNCHANGED <<rec, child, release>>,
         \A k \in Launches :
           /\ launch'[k].of = launch[k].of /\ launch'[k].worker = launch[k].worker
           /\ launch'[k].step \in {launch[k].step, "done"},
         \A h \in Handoffs : handoff'[h] \in {handoff[h], NoHandoff},
         \A k \in Launches : Working(k) => launch[k].of # d,
         \A k \in Launches : launch'[k].step \in HoldingSteps(k) => launch[k].of # d
  PROVE  CalmInv'
<1>1. leases' \subseteq leases /\ \A k \in leases : launch[k].of # d => k \in leases'
  BY DEF ReleaseFor, LeasesOf
<1>2. OneAtATime'
  BY DEF CalmInv, OneAtATime, Active
<1>3. ASSUME NEW r \in Remediations PROVE CurrentInv(r)'
  BY DEF CalmInv, CurrentInv, Active
<1>4. ASSUME NEW k \in Launches PROVE LeaseInv(k)'
  <2>1. LeaseInv(k)
    BY DEF CalmInv
  <2>2. launch'[k].step \in HoldingSteps(k) => k \in leases'
    BY <1>1, <2>1 DEF LeaseInv, HoldingSteps
  <2>3. ASSUME Working(k)' PROVE LeasesOf(launch[k].of)' # {}
    <3>1. Working(k) /\ launch[k].of # d
      BY <2>3 DEF Working
    <3>2. PICK m \in leases : launch[m].of = launch[k].of
      BY <2>1, <3>1 DEF LeaseInv, LeasesOf
    <3>3. m \in Launches
      BY DEF IInv, TypeOK
    <3>4. QED
      BY <1>1, <3>1, <3>2, <3>3 DEF LeasesOf
  <2>4. QED
    BY <1>1, <2>1, <2>2, <2>3 DEF LeaseInv, HoldingSteps, LeasesOf
<1>5. ASSUME NEW h \in Handoffs PROVE HandsInInv(h)'
  <2>1. HandsInInv(h) /\ (handoff[h].step # "idle" => handoff[h].by \in Launches)
    BY DEF CalmInv, IInv, HandoffsInv, HandoffInv
  <2>2. QED
    BY <2>1 DEF HandsInInv, NoHandoff
<1>6. QED
  BY <1>2, <1>3, <1>4, <1>5 DEF CalmInv

\* A step of a handoff command that frees no lease.
LEMMA CalmHandoff ==
  ASSUME IInv, CalmInv, UNCHANGED <<leases, launch, child, release>>,
         \A e \in Delegations :
           /\ rec'[e].result = rec[e].result \/ rec[e].result = None
           /\ rec'[e].identity = rec[e].identity
           /\ rec'[e].remediation \in {rec[e].remediation, None},
         \A h \in Handoffs : HandsInInv(h)'
  PROVE  CalmInv'
<1>1. OneAtATime'
  BY DEF CalmInv, OneAtATime, Active
<1>2. ASSUME NEW r \in Remediations PROVE CurrentInv(r)'
  <2>1. CurrentInv(r) /\ (Active(r) => launch[r].of \in Delegations)
    BY UnderWay DEF CalmInv
  <2>2. QED
    BY <2>1 DEF CurrentInv, Active
<1>3. ASSUME NEW k \in Launches PROVE LeaseInv(k)'
  <2>1. LeaseInv(k)
    BY DEF CalmInv
  <2>2. ASSUME Working(k)' PROVE Working(k)
    <3>1. child[k] = "live"
      BY <2>2 DEF Working
    <3>2. ASSUME NEW e \in Delegations, rec[e].result # None, rec[e].result.by = k PROVE FALSE
      <4>1. rec'[e].result = rec[e].result
        BY <3>2
      <4>2. QED
        BY <2>2, <3>2, <4>1 DEF Working
    <3>3. QED
      BY <3>1, <3>2 DEF Working
  <2>3. QED
    BY <2>1, <2>2 DEF LeaseInv, HoldingSteps, LeasesOf
<1>4. QED
  BY <1>1, <1>2, <1>3 DEF CalmInv

\* The steps of a start: it reserves before it spawns.
LEMMA CalmStarts ==
  ASSUME IInv, CalmInv, NEW d \in Delegations, StartNext(d)
  PROVE  CalmInv'
<1> USE DEF Goes
<1>1. rec \in [Delegations -> Record] /\ rec[d] \in Record
  BY DEF IInv, TypeOK
<1>2. CASE Prepare(d)
  <2> DEFINE new == [launch[d] EXCEPT !.step = "claim", !.of = d]
  <2>1. /\ launch[d].step = "idle" /\ launch' = [launch EXCEPT ![d] = new]
        /\ UNCHANGED <<leases, child, handoff, release>>
        /\ rec' = [rec EXCEPT ![d] = [NoRecord EXCEPT !.state = "prepared"]]
    BY <1>2 DEF Prepare, Update
  <2>2. new.of = d /\ new.step = "claim"
    BY DEF IInv, TypeOK
  <2>3. rec[d].identity = None /\ rec[d].result = None
    BY <2>1 DEF IInv, StartsInv, StartInv, RecordsInv, RecordInv
  <2>4. rec'[d].result = rec[d].result /\ \A e \in Delegations : e # d => rec'[e] = rec[e]
    BY <1>1, <2>1, <2>3 DEF NoRecord
  <2>5. d \in Launches /\ d \notin Remediations
    OBVIOUS
  <2> HIDE DEF new
  <2>6. QED
    BY <2>1, <2>2, <2>3, <2>4, <2>5, CalmBegins
<1>3. CASE Spawn(d) \/ SpawnFails(d)
  <2>1. /\ Active(d) /\ d \in leases /\ ~Spawned(d) /\ launch[d].of \in Delegations
    BY <1>3 DEF Spawn, SpawnFails, Active, CalmInv, LeaseInv, HoldingSteps, IInv, StartsInv, StartInv
  <2>2. PICK step \in {"identity", "fail"} : launch' = [launch EXCEPT ![d].step = step]
    BY <1>3 DEF Spawn, SpawnFails
  <2>3. UNCHANGED <<handoff, release, leases, rec>> /\ (UNCHANGED child \/ child' = [child EXCEPT ![d] = "live"])
    BY <1>3 DEF Spawn, SpawnFails
  <2>4. step \in LaunchSteps \ {"idle"}
    BY DEF LaunchSteps
  <2>5. QED
    BY <2>1, <2>2, <2>3, <2>4, CalmLaunch
<1>4. CASE ClaimStart(d) \/ RecordIdentity(d) \/ IdentityRefused(d) \/ RecordStartFailure(d)
  <2>1. /\ Active(d) /\ launch[d].of = d
        /\ UNCHANGED <<handoff, release, leases, child>>
    BY <1>4 DEF ClaimStart, RecordIdentity, IdentityRefused, RecordStartFailure, Active, IInv, StartsInv, StartInv
  <2>2. PICK step \in {"reserve", "done", "fail"} : launch' = [launch EXCEPT ![d].step = step]
    BY <1>4 DEF ClaimStart, RecordIdentity, IdentityRefused, RecordStartFailure
  <2>3. rec'[d].result = rec[d].result /\ \A e \in Delegations : e # d => rec'[e] = rec[e]
    BY <1>1, <1>4 DEF ClaimStart, RecordIdentity, IdentityRefused, RecordStartFailure, Update, Record
  <2>4. step \in LaunchSteps \ {"idle"} /\ step \notin HoldingSteps(d)
    BY DEF LaunchSteps, HoldingSteps
  <2>5. QED
    BY <2>1, <2>2, <2>3, <2>4, CalmLaunch
<1>5. QED
  BY <1>2, <1>3, <1>4 DEF StartNext

\* A remediation begins, and goes on without writing the record.
LEMMA CalmRemediations ==
  ASSUME IInv, CalmInv, Calm, NEW r \in Remediations,
         \/ \E d \in Delegations : Begin(r, d)
         \/ Observe(r) \/ ObserveRefuses(r) \/ ClaimRefused(r) \/ Deliver(r) \/ DeliverFails(r)
         \/ CompleteRefused(r)
  PROVE  CalmInv'
<1> USE DEF Goes
<1>1. CASE \E d \in Delegations : Begin(r, d)
  <2>1. PICK d \in Delegations : Begin(r, d)
    BY <1>1
  <2> DEFINE new == [step |-> "observe", of |-> d, generation |-> rec[d].generation, worker |-> rec[d].identity]
  <2>2. /\ launch[r].step = "idle" /\ launch' = [launch EXCEPT ![r] = new]
        /\ UNCHANGED <<rec, leases, child, handoff, release>> /\ rec[d].remediation = None
        /\ \A q \in Remediations : ~Active(q)
    BY <2>1 DEF Begin, Calm, Active
  <2>3. new.of = d /\ new.step = "observe" /\ new.worker = rec[d].identity /\ r \in Launches /\ r \notin Delegations
    OBVIOUS
  <2> HIDE DEF new
  <2>4. QED
    BY <2>2, <2>3, CalmBegins
<1>2. CASE ~\E d \in Delegations : Begin(r, d)
  <2>1. /\ Active(r) /\ r \in Launches /\ CurrentInv(r) /\ launch[r].of \in Delegations
        /\ UNCHANGED <<handoff, release, leases, rec>>
    BY <1>2, UnderWay DEF Observe, ObserveRefuses, ClaimRefused, Deliver, DeliverFails, CompleteRefused, Active, CalmInv
  <2>2. PICK step \in {"reserve", "done", "release", "complete", "rollback", "manual"} :
          /\ launch' = [launch EXCEPT ![r].step = step]
          /\ step = "release" => ClaimRefused(r)
          /\ step \in {"complete", "rollback", "manual"} => Deliver(r) \/ DeliverFails(r) \/ CompleteRefused(r)
    BY <1>2 DEF Observe, ObserveRefuses, ClaimRefused, Deliver, DeliverFails, CompleteRefused
  <2>3. step = "release" => child[launch[r].worker] = "gone"
    BY <2>2 DEF ClaimRefused, IInv, RemediationsInv, RemediationInv
  <2>4. step \in HoldingSteps(r) => r \in leases
    BY <2>2 DEF HoldingSteps, Deliver, DeliverFails, CompleteRefused, CalmInv, LeaseInv
  <2>5. UNCHANGED child \/ (child' = [child EXCEPT ![r] = "live"] /\ ~Spawned(r) /\ r \in leases)
    <3>1. CASE Deliver(r) \/ DeliverFails(r)
      <4>1. r \in leases /\ ~Spawned(r)
        BY <3>1 DEF Deliver, DeliverFails, CalmInv, LeaseInv, HoldingSteps, IInv, RemediationsInv, RemediationInv
      <4>2. QED
        BY <3>1, <4>1 DEF Deliver, DeliverFails
    <3>2. CASE ~(Deliver(r) \/ DeliverFails(r))
      BY <1>2, <3>2 DEF Observe, ObserveRefuses, ClaimRefused, CompleteRefused
    <3>3. QED
      BY <3>1, <3>2
  <2>6. step \in LaunchSteps \ {"idle"}
    BY DEF LaunchSteps
  <2>7. /\ rec'[launch[r].of].identity = rec[launch[r].of].identity
        /\ rec'[launch[r].of].remediation # None => rec'[launch[r].of].remediation.token = r
    BY <2>1 DEF CurrentInv
  <2>8. QED
    BY <2>1, <2>2, <2>3, <2>4, <2>5, <2>6, <2>7, CalmLaunch
<1>3. QED
  BY <1>1, <1>2

\* A remediation writes the record: the child whose result Complete discards is gone.
LEMMA CalmClaims ==
  ASSUME IInv, CalmInv, NEW r \in Remediations,
         ClaimRemediation(r) \/ Complete(r) \/ MarkManual(r) \/ Rollback(r)
  PROVE  CalmInv'
<1> DEFINE d == launch[r].of
<1> USE DEF Goes
<1>1. /\ Active(r) /\ r \in Launches /\ CurrentInv(r) /\ d \in Delegations
      /\ UNCHANGED <<handoff, release, leases, child>>
      /\ launch[r].step \in HoldingSteps(r)
      /\ child[launch[r].worker] = "gone"
  BY UnderWay DEF ClaimRemediation, Complete, MarkManual, Rollback, Active, CalmInv, HoldingSteps,
     IInv, RemediationsInv, RemediationInv
<1>2. r \in leases
  BY <1>1 DEF CalmInv, LeaseInv
<1>3. rec \in [Delegations -> Record] /\ rec[d] \in Record
  BY <1>1 DEF IInv, TypeOK
<1>4. ClaimRemediation(r) \/ rec[d].remediation = [state |-> "launching", token |-> r]
  BY DEF Complete, MarkManual, Rollback, Pending
<1>5. PICK step \in {"deliver", "done", "release"} :
        /\ launch' = [launch EXCEPT ![r].step = step]
        /\ step = "done" \/ ClaimRemediation(r) \/ Rollback(r)
  BY DEF ClaimRemediation, Complete, MarkManual, Rollback
<1>6. \A e \in Delegations : e # d => rec'[e] = rec[e]
  BY <1>1, <1>3 DEF ClaimRemediation, Complete, MarkManual, Rollback, Update
<1>7. \/ rec'[d].result = rec[d].result
      \/ rec'[d].result = None /\ (rec[d].result # None => child[rec[d].result.by] = "gone")
  <2>1. CASE Complete(r)
    <3>1. rec'[d].result = None
      BY <1>1, <1>3, <2>1 DEF Complete, Update, Record
    <3>2. rec[d].result # None => rec[d].result.by = launch[r].worker
      BY <1>1 DEF IInv, RecordsInv, RecordInv, CurrentInv
    <3>3. QED
      BY <1>1, <3>1, <3>2
  <2>2. CASE ClaimRemediation(r) \/ MarkManual(r) \/ Rollback(r)
    BY <1>1, <1>3, <2>2 DEF ClaimRemediation, MarkManual, Rollback, Update, Record
  <2>3. QED
    BY <2>1, <2>2
<1>8. step # "done" =>
        /\ rec'[d].identity = rec[d].identity
        /\ rec'[d].remediation # None => rec'[d].remediation.token = r
  BY <1>1, <1>3, <1>5 DEF ClaimRemediation, Rollback, Update, Record
<1>9. step \in LaunchSteps \ {"idle"}
  BY DEF LaunchSteps
<1>10. QED
  BY <1>1, <1>2, <1>5, <1>6, <1>7, <1>8, <1>9, CalmLaunch

\* The leases are freed after a remediation that failed: the recorded child is
\* gone, and its own was not spawned.
LEMMA CalmReleases ==
  ASSUME IInv, CalmInv, NEW r \in Remediations, ReleaseAfterFailure(r)
  PROVE  CalmInv'
<1> DEFINE d == launch[r].of
<1>1. /\ launch[r].step = "release" /\ launch' = [launch EXCEPT ![r].step = "done"]
      /\ ReleaseFor(d) /\ UNCHANGED <<rec, child, handoff, release>>
  BY DEF ReleaseAfterFailure, Goes
<1>2. /\ Active(r) /\ r \in Launches /\ CurrentInv(r) /\ d \in Delegations
      /\ ~Spawned(r) /\ rec[d].identity # None /\ RecordInv(d)
  BY <1>1, UnderWay DEF Active, CalmInv, IInv, RemediationsInv, RemediationInv, RecordsInv
<1>3. ASSUME NEW k \in Launches, Working(k), launch[k].of = d PROVE FALSE
  <2>1. ChildInv(k) /\ Spawned(k) /\ child[k] = "live"
    BY <1>3, AtWork DEF IInv, ChildrenInv, Working
  <2>2. CASE k = rec[d].identity
    BY <1>1, <1>2, <2>1, <2>2 DEF CurrentInv
  <2>3. CASE ClaimOpen(d) /\ k = rec[d].remediation.token
    BY <1>2, <2>1, <2>3 DEF CurrentInv, ClaimOpen
  <2>4. QED
    BY <1>2, <1>3, <2>1, <2>2, <2>3 DEF ChildInv
<1>4. /\ launch'[r].step = "done"
      /\ \A k \in Launches :
           /\ launch'[k].of = launch[k].of /\ launch'[k].worker = launch[k].worker
           /\ launch'[k].step \in {launch[k].step, "done"}
           /\ k # r => launch'[k] = launch[k]
  BY <1>1, <1>2, LaunchGoesOn DEF IInv, LaunchSteps
<1>5. ASSUME NEW k \in Launches, launch'[k].step \in HoldingSteps(k), launch[k].of = d PROVE FALSE
  <2>1. k # r /\ Active(k)
    BY <1>4, <1>5 DEF Active, HoldingSteps
  <2>2. k \notin Remediations
    BY <1>2, <2>1 DEF CalmInv, OneAtATime
  <2>3. QED
    BY <1>2, <1>5, <2>1, <2>2, UnderWay
<1>6. QED
  BY <1>1, <1>2, <1>3, <1>4, <1>5, CalmFrees

\* A handoff command reads, registers the result, and only then frees the leases:
\* its child, the only one that lives, is at work no more.
LEMMA CalmHandoffs ==
  ASSUME IInv, IInv', CalmInv, NEW h \in Handoffs, HandoffNext(h)
  PROVE  CalmInv'
<1>1. /\ rec \in [Delegations -> Record]
      /\ handoff \in [Handoffs -> [step : HandoffSteps, by : Launches \cup {None}, active : BOOLEAN]]
  BY DEF IInv, TypeOK
<1>2. ASSUME NEW l \in Launches, HandIn(h, l) PROVE CalmInv'
  <2> DEFINE new == [step |-> "lease", by |-> l,
                     active |-> rec[launch[l].of].remediation # None /\ rec[launch[l].of].remediation.state = "active"]
  <2>1. /\ child[l] = "live" /\ handoff' = [handoff EXCEPT ![h] = new]
        /\ UNCHANGED <<rec, leases, launch, child, release>>
    BY <1>2 DEF HandIn
  <2>2. new.step = "lease" /\ new.by = l
    OBVIOUS
  <2> HIDE DEF new
  <2>3. ASSUME NEW g \in Handoffs PROVE HandsInInv(g)'
    <3>1. HandsInInv(g)
      BY DEF CalmInv
    <3>2. CASE g = h
      BY <1>1, <2>1, <2>2, <3>2 DEF HandsInInv
    <3>3. CASE g # h
      BY <1>1, <2>1, <3>1, <3>3 DEF HandsInInv
    <3>4. QED
      BY <3>2, <3>3
  <2>4. QED
    BY <2>1, <2>3, CalmHandoff
<1>3. CASE CheckLease(h) \/ HandoffFails(h)
  <2>1. UNCHANGED <<rec, leases, launch, child, release>>
    BY <1>3 DEF CheckLease, HandoffFails
  <2>2. \/ handoff' = [handoff EXCEPT ![h] = NoHandoff]
        \/ handoff[h].step = "lease" /\ handoff' = [handoff EXCEPT ![h].step = "record"]
    BY <1>3 DEF CheckLease, HandoffFails
  <2>3. \A g \in Handoffs : handoff'[g].step # "idle" =>
          handoff[g].step # "idle" /\ handoff'[g].by = handoff[g].by /\ handoff'[g].step \in {handoff[g].step, "record"}
    BY <1>1, <2>2 DEF NoHandoff
  <2>4. ASSUME NEW g \in Handoffs PROVE HandsInInv(g)'
    <3>1. HandsInInv(g)
      BY DEF CalmInv
    <3>2. QED
      BY <2>1, <2>3, <3>1 DEF HandsInInv
  <2>5. QED
    BY <2>1, <2>4, CalmHandoff
<1>4. CASE RecordResult(h)
  <2> DEFINE l == handoff[h].by
  <2> DEFINE d == launch[l].of
  <2> DEFINE result == [by |-> l, generation |-> OwnGeneration(l), via |-> h]
  <2>1. /\ handoff[h].step = "record" /\ handoff' = [handoff EXCEPT ![h].step = "release"]
        /\ rec' = [rec EXCEPT ![d] = [rec[d] EXCEPT !.state = "terminal", !.remediation = None, !.result = result]]
        /\ UNCHANGED <<leases, launch, child, release>>
    BY <1>4 DEF RecordResult, Update
  <2>2. l \in Launches /\ child[l] = "live" /\ d \in Delegations
    BY <2>1 DEF IInv, HandoffsInv, HandoffInv, ChildrenInv, ChildInv, CalmInv, HandsInInv
  <2>3. rec[d].result = None /\ rec[d] \in Record
    BY <1>1, <1>4, <2>2 DEF RecordResult, Recordable, IInv, RecordsInv, RecordInv
  <2>4. /\ rec'[d].identity = rec[d].identity /\ rec'[d].remediation = None /\ rec'[d].result = result
        /\ \A e \in Delegations : e # d => rec'[e] = rec[e]
    BY <1>1, <2>1, <2>2, <2>3 DEF Record
  <2>5. result.by = l /\ result # None
    <3>1. OwnGeneration(l) \in Generations
      BY <1>4, <2>3 DEF RecordResult, Recordable, Record
    <3>2. result \in Result
      BY <2>2, <3>1 DEF Result
    <3>3. QED
      BY <3>2
  <2> HIDE DEF result
  <2>6. ASSUME NEW g \in Handoffs PROVE HandsInInv(g)'
    <3>1. HandsInInv(g)
      BY DEF CalmInv
    <3>2. CASE g = h
      BY <1>1, <2>1, <2>2, <2>4, <2>5, <3>2 DEF HandsInInv
    <3>3. CASE g # h /\ handoff[g].step # "idle"
      <4>1. handoff'[g] = handoff[g] /\ launch[handoff[g].by].of \in Delegations
        BY <1>1, <2>1, <3>3 DEF IInv, HandoffsInv, HandoffInv, ChildrenInv, ChildInv
      <4>2. handoff[g].step = "release" => launch[handoff[g].by].of # d
        BY <2>3, <3>1 DEF HandsInInv
      <4>3. QED
        BY <2>1, <2>4, <3>1, <4>1, <4>2 DEF HandsInInv
    <3>4. CASE g # h /\ handoff[g].step = "idle"
      BY <1>1, <2>1, <3>4 DEF HandsInInv
    <3>5. QED
      BY <3>2, <3>3, <3>4
  <2>7. \A e \in Delegations :
          /\ rec'[e].result = rec[e].result \/ rec[e].result = None
          /\ rec'[e].identity = rec[e].identity
          /\ rec'[e].remediation \in {rec[e].remediation, None}
    <3> TAKE e \in Delegations
    <3> HIDE DEF d, l
    <3>1. CASE e = d
      BY <2>3, <2>4, <3>1
    <3>2. CASE e # d
      BY <2>4, <3>2
    <3>3. QED
      BY <3>1, <3>2
  <2>8. QED
    BY <2>1, <2>6, <2>7, CalmHandoff
<1>5. CASE ReleaseAfterResult(h)
  <2> DEFINE l == handoff[h].by
  <2> DEFINE d == launch[l].of
  <2>1. /\ handoff[h].step = "release" /\ ReleaseFor(d) /\ handoff' = [handoff EXCEPT ![h] = NoHandoff]
        /\ UNCHANGED <<rec, launch, child, release>>
    BY <1>5 DEF ReleaseAfterResult
  <2>2. /\ l \in Launches /\ child[l] = "live" /\ d \in Delegations
        /\ rec[d].result # None /\ rec[d].result.by = l
    BY <2>1 DEF IInv, HandoffsInv, HandoffInv, ChildrenInv, ChildInv, CalmInv, HandsInInv
  <2>3. rec[d].identity = l /\ l # None
    BY <2>2 DEF IInv, RecordsInv, RecordInv
  <2>4. ASSUME NEW k \in Launches, Working(k), launch[k].of = d PROVE FALSE
    BY <2>2, <2>4, AtWork
  <2>5. ASSUME NEW k \in Launches, launch[k].step \in HoldingSteps(k), launch[k].of = d PROVE FALSE
    <3>1. Active(k)
      BY <2>5 DEF Active, HoldingSteps
    <3>2. CASE k \in Delegations
      BY <2>3, <2>5, <3>1, <3>2, UnderWay
    <3>3. CASE k \in Remediations
      <4>1. launch[k].worker = l /\ child[launch[k].worker] = "gone"
        BY <2>3, <2>5, <3>1, <3>3 DEF CalmInv, CurrentInv, HoldingSteps, IInv, RemediationsInv, RemediationInv
      <4>2. QED
        BY <2>2, <4>1
    <3>4. QED
      BY <3>2, <3>3
  <2>6. \A g \in Handoffs : handoff'[g] \in {handoff[g], NoHandoff}
    BY <1>1, <2>1
  <2>7. QED
    BY <2>1, <2>2, <2>4, <2>5, <2>6, CalmFrees
<1>6. QED
  BY <1>2, <1>3, <1>4, <1>5 DEF HandoffNext

\* A lease is granted, a launching command is killed, a child ends.
LEMMA CalmLaunches ==
  ASSUME IInv, CalmInv, Calm, NEW l \in Launches,
         Reserve(l) \/ ReserveFails(l) \/ ChildDies(l) \/ LaunchDies(l)
  PROVE  CalmInv'
<1>1. CASE Reserve(l) \/ ReserveFails(l) \/ LaunchDies(l)
  <2>1. /\ Active(l) /\ launch[l].of \in Delegations
        /\ UNCHANGED <<rec, handoff, release, child>> /\ leases' \in {leases, leases \cup {l}}
    BY <1>1, UnderWay DEF Reserve, ReserveFails, LaunchDies, Active, Goes, Reservations!Grant
  <2>2. PICK step \in {"spawn", "claim", "fail", "done"} :
          launch' = [launch EXCEPT ![l].step = step] /\ (step \in {"spawn", "claim"} => l \in leases')
    BY <1>1 DEF Reserve, ReserveFails, LaunchDies, Goes, Reservations!Grant
  <2>3. step \in LaunchSteps \ {"idle"} /\ (step \in HoldingSteps(l) => l \in leases')
    BY <2>2 DEF LaunchSteps, HoldingSteps
  <2>4. l \in Remediations =>
          /\ rec'[launch[l].of].remediation # None => rec'[launch[l].of].remediation.token = l
          /\ step # "release"
    BY <2>1 DEF CalmInv, CurrentInv
  <2>5. QED
    BY <2>1, <2>2, <2>3, <2>4, CalmLaunch
<1>2. CASE ChildDies(l)
  <2>1. /\ child[l] = "live" /\ child' = [child EXCEPT ![l] = "gone"]
        /\ UNCHANGED <<rec, leases, launch, handoff, release>> /\ \A h \in Handoffs : handoff[h].by # l
    BY <1>2 DEF ChildDies, Calm
  <2>2. child'[l] = "gone" /\ \A k \in Launches : k # l => child'[k] = child[k]
    BY <2>1 DEF IInv, TypeOK
  <2>3. OneAtATime'
    BY <2>1 DEF CalmInv, OneAtATime, Active
  <2>4. ASSUME NEW r \in Remediations PROVE CurrentInv(r)'
    <3>1. CurrentInv(r) /\ r \in Launches /\ (Active(r) => launch[r].worker \in Launches)
      BY UnderWay DEF CalmInv
    <3>2. QED
      BY <2>1, <2>2, <3>1 DEF CurrentInv, Active
  <2>5. ASSUME NEW k \in Launches PROVE LeaseInv(k)'
    BY <2>1, <2>2 DEF CalmInv, LeaseInv, HoldingSteps, LeasesOf, Working
  <2>6. ASSUME NEW h \in Handoffs PROVE HandsInInv(h)'
    <3>1. HandsInInv(h) /\ (handoff[h].step # "idle" => handoff[h].by \in Launches)
      BY DEF CalmInv, IInv, HandoffsInv, HandoffInv
    <3>2. QED
      BY <2>1, <2>2, <3>1 DEF HandsInInv
  <2>7. QED
    BY <2>1, <2>3, <2>4, <2>5, <2>6 DEF CalmInv
<1>3. QED
  BY <1>1, <1>2

\* What may go wrong is settled at the start.
LEMMA FaultsStay == [Next]_vars => UNCHANGED faults
<1>1. ASSUME NEW d \in Delegations, StartNext(d) PROVE UNCHANGED faults
  BY <1>1 DEF StartNext, Prepare, ClaimStart, Spawn, SpawnFails, RecordIdentity, IdentityRefused, RecordStartFailure
<1>2. ASSUME NEW r \in Remediations, RemediationNext(r) PROVE UNCHANGED faults
  BY <1>2 DEF RemediationNext, Begin, Observe, ObserveRefuses, ClaimRemediation, ClaimRefused, Deliver,
     DeliverFails, Complete, CompleteRefused, MarkManual, Rollback, ReleaseAfterFailure
<1>3. ASSUME NEW l \in Launches, Reserve(l) \/ ReserveFails(l) \/ ChildDies(l) \/ LaunchDies(l) PROVE UNCHANGED faults
  BY <1>3 DEF Reserve, ReserveFails, ChildDies, LaunchDies
<1>4. ASSUME NEW h \in Handoffs, HandoffNext(h) PROVE UNCHANGED faults
  BY <1>4 DEF HandoffNext, HandIn, CheckLease, RecordResult, ReleaseAfterResult, HandoffFails
<1>5. ASSUME NEW x \in Releases, ReleaseNext(x) PROVE UNCHANGED faults
  BY <1>5 DEF ReleaseNext, ReleaseCheck, ReleaseLeases
<1>6. QED
  BY <1>1, <1>2, <1>3, <1>4, <1>5 DEF Next, vars

\* In a calm behaviour the leases are where the work is.
THEOREM CalmInvariance == Spec => [](Calm => CalmInv)
<1>1. Init => CalmInv
  BY DEF Init, CalmInv, OneAtATime, CurrentInv, Active, LeaseInv, HoldingSteps, Working, HandsInInv, NoHandoff
<1>2. IInv /\ IInv' /\ (Calm => CalmInv) /\ [Next]_vars => (Calm => CalmInv)'
  <2> SUFFICES ASSUME IInv, IInv', Calm => CalmInv, [Next]_vars, Calm' PROVE CalmInv'
    OBVIOUS
  <2>1. UNCHANGED faults
    BY FaultsStay
  <2>2. Calm /\ CalmInv
    BY <2>1 DEF Calm
  <2>3. CASE UNCHANGED vars
    <3>1. \A h \in Handoffs : HandsInInv(h)'
      BY <2>2, <2>3 DEF CalmInv, HandsInInv, vars, parts
    <3>2. QED
      BY <2>2, <2>3, <3>1, CalmHandoff DEF vars, parts
  <2>4. CASE \E d \in Delegations : StartNext(d)
    BY <2>2, <2>4, CalmStarts
  <2>5. CASE \E r \in Remediations : RemediationNext(r)
    BY <2>2, <2>5, CalmRemediations, CalmClaims, CalmReleases DEF RemediationNext
  <2>6. CASE \E l \in Launches : Reserve(l) \/ ReserveFails(l) \/ ChildDies(l) \/ LaunchDies(l)
    BY <2>2, <2>6, CalmLaunches
  <2>7. CASE \E h \in Handoffs : HandoffNext(h)
    BY <2>2, <2>7, CalmHandoffs
  <2>8. ASSUME NEW x \in Releases, ReleaseNext(x) PROVE FALSE
    BY <2>2, <2>8 DEF ReleaseNext, ReleaseLeases, ReleaseCheck, Calm, CalmInv
  <2>9. QED
    BY <2>3, <2>4, <2>5, <2>6, <2>7, <2>8 DEF Next
<1>3. QED
  BY <1>1, <1>2, Invariance, PTL DEF Spec

\* The store grants no lease beyond the policy, whatever else fails.
LeaseCount == IsFiniteSet(leases) /\ Cardinality(leases) <= Capacity

\* The table's Cardinality is that of FiniteSets.
LEMMA TableCounts == ASSUME NEW S PROVE Reservations!Cardinality(S) = Cardinality(S)
BY DEF Reservations!Cardinality, Cardinality

LEMMA Granted ==
  ASSUME LeaseCount, NEW l \in Launches, Reservations!Grant(l)
  PROVE  LeaseCount'
<1>1. l \notin leases /\ leases' = leases \cup {l}
  BY DEF Reservations!Grant
<1>2. Cardinality(leases) < Capacity
  <2>1. Cardinality(Reservations!Holding("checkout")) < Capacity
    BY TableCounts DEF Reservations!Grant, UsesCheckout
  <2>2. Reservations!Holding("checkout") = leases
    BY DEF Reservations!Holding, UsesCheckout
  <2>3. QED
    BY <2>1, <2>2
<1>3. IsFiniteSet(leases') /\ Cardinality(leases') = Cardinality(leases) + 1 /\ Cardinality(leases) \in Nat
  BY <1>1, FS_AddElement, FS_CardinalityType DEF LeaseCount
<1>4. QED
  BY <1>2, <1>3 DEF LeaseCount

THEOREM LeasesCounted == Spec => []LeaseCount
<1>1. Init => LeaseCount
  BY FS_EmptySet DEF Init, LeaseCount
<1>2. LeaseCount /\ [Next]_vars => LeaseCount'
  <2> SUFFICES ASSUME LeaseCount, [Next]_vars PROVE LeaseCount'
    OBVIOUS
  <2>1. ASSUME leases' \subseteq leases PROVE LeaseCount'
    <3>1. IsFiniteSet(leases') /\ Cardinality(leases') <= Cardinality(leases)
      BY <2>1, FS_Subset DEF LeaseCount
    <3>2. Cardinality(leases) \in Nat /\ Cardinality(leases') \in Nat
      BY <3>1, FS_CardinalityType DEF LeaseCount
    <3>3. QED
      BY <3>1, <3>2 DEF LeaseCount
  <2>2. ASSUME NEW l \in Launches, Reserve(l) \/ ReserveFails(l) \/ ChildDies(l) \/ LaunchDies(l) PROVE LeaseCount'
    <3>1. leases' \subseteq leases \/ Reservations!Grant(l)
      BY <2>2 DEF Reserve, ReserveFails, ChildDies, LaunchDies
    <3>2. QED
      BY <2>1, <3>1, Granted
  <2>3. ASSUME NEW d, ReleaseFor(d) PROVE leases' \subseteq leases
    BY <2>3 DEF ReleaseFor, LeasesOf
  <2>4. ASSUME NEW d \in Delegations, StartNext(d) PROVE leases' \subseteq leases
    BY <2>4 DEF StartNext, Prepare, ClaimStart, Spawn, SpawnFails, RecordIdentity, IdentityRefused, RecordStartFailure
  <2>5. ASSUME NEW r \in Remediations, RemediationNext(r) PROVE leases' \subseteq leases
    <3>1. CASE ReleaseAfterFailure(r)
      BY <2>3, <3>1 DEF ReleaseAfterFailure
    <3>2. CASE ~ReleaseAfterFailure(r)
      BY <2>5, <3>2 DEF RemediationNext, Begin, Observe, ObserveRefuses, ClaimRemediation, ClaimRefused, Deliver,
         DeliverFails, Complete, CompleteRefused, MarkManual, Rollback
    <3>3. QED
      BY <3>1, <3>2
  <2>6. ASSUME NEW h \in Handoffs, HandoffNext(h) PROVE leases' \subseteq leases
    <3>1. CASE ReleaseAfterResult(h)
      BY <2>3, <3>1 DEF ReleaseAfterResult
    <3>2. CASE ~ReleaseAfterResult(h)
      BY <2>6, <3>2 DEF HandoffNext, HandIn, CheckLease, RecordResult, HandoffFails
    <3>3. QED
      BY <3>1, <3>2
  <2>7. ASSUME NEW x \in Releases, ReleaseNext(x) PROVE leases' \subseteq leases
    BY <2>3, <2>7 DEF ReleaseNext, ReleaseLeases, ReleaseCheck
  <2>8. CASE UNCHANGED vars
    BY <2>1, <2>8 DEF vars, parts
  <2>9. QED
    BY <2>1, <2>2, <2>4, <2>5, <2>6, <2>7, <2>8 DEF Next
<1>3. QED
  BY <1>1, <1>2, PTL DEF Spec

\* A lease of the delegation of every child at work, and of no two of them the same.
LEMMA WorkIsWithinPolicy ==
  ASSUME IInv, CalmInv, LeaseCount
  PROVE  Cardinality({l \in Launches : Working(l)}) <= Capacity
<1> DEFINE S == {l \in Launches : Working(l)}
<1> DEFINE f == [l \in S |-> CHOOSE k \in leases : launch[k].of = launch[l].of]
<1>1. ASSUME NEW l \in S PROVE f[l] \in leases /\ launch[f[l]].of = launch[l].of
  <2>1. \E k \in leases : launch[k].of = launch[l].of
    BY DEF CalmInv, LeaseInv, LeasesOf
  <2>2. QED
    BY <2>1
<1>2. ASSUME NEW k \in S, NEW l \in S, f[k] = f[l] PROVE k = l
  <2>1. launch[k].of = launch[l].of /\ child[k] = "live"
    <3> HIDE DEF f
    <3>1. QED
      BY <1>1, <1>2 DEF Working
  <2>2. QED
    BY <2>1, AtWork
<1>3. f \in Injection(S, leases)
  <2>1. f \in [S -> leases] /\ DOMAIN f = S /\ \A k, l \in S : f[k] = f[l] => k = l
    BY <1>1, <1>2
  <2> HIDE DEF f, S
  <2>2. QED
    BY <2>1 DEF Injection, IsInjective
<1>4. Cardinality(S) <= Cardinality(leases) /\ IsFiniteSet(S)
  <2> HIDE DEF f, S
  <2>1. QED
    BY <1>3, FS_Injection DEF LeaseCount
<1>5. Cardinality(S) \in Nat /\ Cardinality(leases) \in Nat
  <2> HIDE DEF S
  <2>1. QED
    BY <1>4, FS_CardinalityType DEF LeaseCount
<1>6. QED
  BY <1>4, <1>5 DEF LeaseCount

\* While launches follow one another, no handoff outlives its child and no operator
\* interferes, a lease covers every child at work, so that no more children are at
\* work in the checkout than the policy admits.
THEOREM LeasesCover == Spec => []LeasesCoverWork
<1>1. IInv /\ (Calm => CalmInv) /\ LeaseCount => LeasesCoverWork
  <2> SUFFICES ASSUME IInv, CalmInv, LeaseCount, Calm
               PROVE  /\ \A l \in Launches : Working(l) => LeasesOf(launch[l].of) # {}
                      /\ Cardinality({l \in Launches : Working(l)}) <= Capacity
    BY DEF LeasesCoverWork, LeaseCoversLiveChild, WritersWithinPolicy, Calm
  <2>1. ASSUME NEW l \in Launches, Working(l) PROVE LeasesOf(launch[l].of) # {}
    BY <2>1 DEF CalmInv, LeaseInv
  <2>2. QED
    BY <2>1, WorkIsWithinPolicy
<1>2. QED
  BY <1>1, Invariance, CalmInvariance, LeasesCounted, PTL

=============================================================================
