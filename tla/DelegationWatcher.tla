--------------------------- MODULE DelegationWatcher ---------------------------
(***************************************************************************)
(* Handing the result of a delegation to the session that asked for it:    *)
(* delegation-watcher.js over the delegation store, the adoption by another *)
(* session, and the coordinator extension that owns the watcher.           *)
(*                                                                         *)
(* A poll lists the records without a lock and goes through the list; for  *)
(* each result it first delivers what it has listed and then consumes what *)
(* is in the store by then.  Meanwhile children hand in, remediations open *)
(* generations and other sessions adopt.                                   *)
(***************************************************************************)
EXTENDS Naturals, FiniteSets

CONSTANTS
  Delegations,
  Origin,      \* the session they belong to
  Adopters,    \* sessions that may adopt, Origin maybe among them
  Turns,       \* remediationTurns
  FaultCases,  \* what may go wrong in one behaviour: sets of AllFaults
  None

AllFaults == {
  "undelivered",  \* onResult or onNotice throws
  "refused",      \* the update that consumes is refused
  "restart",      \* the coordinator process ends, and another one starts
  "remediation"}  \* a result is answered with a remediation

ConsumptionConstants ==
  /\ None \notin Adopters \cup {Origin} \cup Delegations
  /\ Turns \in Nat
  /\ FaultCases \subseteq SUBSET AllFaults

VARIABLES
  faults, \* what may go wrong in this behaviour
  rec,    \* run.json: the record of each delegation
  watch,  \* the watcher: what it has listed, and the delegation in hand
  cache,  \* deliveredResults and seenNotices, kept per process
  shown   \* history: how often the process was shown what

parts == <<rec, watch, cache, shown>>

vars == <<faults, parts>>

Generations == 1..(Turns + 1)

\* A result has the generation of its record: a remediation discards it.
Record == [state : {"running", "terminal"}, generation : Generations, result : BOOLEAN,
           startFailed : BOOLEAN, consumer : Adopters \cup {Origin, None}]

\* What a session is shown: the result of a generation, or a notice.
Messages == Delegations \X Generations \X {"result", "notice"}

TypeOK ==
  /\ faults \in FaultCases
  /\ rec \in [Delegations -> Record]
  /\ \A d \in Delegations : rec[d].consumer # None => rec[d].result
  /\ watch \in [list : SUBSET (Delegations \X Record), at : Delegations \cup {None},
                delivered : BOOLEAN]
  /\ cache \subseteq Messages
  /\ shown \in [Messages -> [now : 0..2, ever : BOOLEAN]]

Idle == [list |-> {}, at |-> None, delivered |-> FALSE]

NewRecord == [state |-> "running", generation |-> 1, result |-> FALSE, startFailed |-> FALSE,
              consumer |-> None]

Init ==
  /\ faults \in FaultCases
  /\ rec = [d \in Delegations |-> NewRecord]
  /\ watch = Idle
  /\ cache = {}
  /\ shown = [m \in Messages |-> [now |-> 0, ever |-> FALSE]]

-----------------------------------------------------------------------------
(* The store.  Delegation has the launches and handoffs in full.            *)

HandsIn(d) ==
  /\ rec[d].state = "running"
  /\ rec' = [rec EXCEPT ![d].state = "terminal", ![d].result = TRUE, ![d].consumer = None]
  /\ UNCHANGED <<faults, watch, cache, shown>>

StartFails(d) ==
  /\ rec[d].state = "running" /\ rec[d].generation = 1
  /\ rec' = [rec EXCEPT ![d].state = "terminal", ![d].startFailed = TRUE]
  /\ UNCHANGED <<faults, watch, cache, shown>>

\* completeRemediationLaunch: whether the result was consumed is not asked.
Remediates(d) ==
  /\ rec[d].state = "terminal" /\ rec[d].result
  /\ "remediation" \in faults /\ rec[d].generation <= Turns
  /\ rec' = [rec EXCEPT ![d] = [NewRecord EXCEPT !.generation = rec[d].generation + 1]]
  /\ UNCHANGED <<faults, watch, cache, shown>>

\* Mutation of Consumable: a result may be taken twice.
ConsumableAgain(d) == rec[d].state = "terminal" /\ rec[d].result

\* A terminal current result that nobody has consumed.
Consumable(d) == rec[d].state = "terminal" /\ rec[d].result /\ rec[d].consumer = None

\* adoptResult, by whoever approves it.
Adopts(s, d) ==
  /\ Consumable(d)
  /\ rec' = [rec EXCEPT ![d].consumer = s]
  /\ UNCHANGED <<faults, watch, cache, shown>>

-----------------------------------------------------------------------------
(* runPoll                                                                  *)

\* list: of the origin's records, as they are now.
Lists ==
  /\ watch = Idle
  /\ watch' = [Idle EXCEPT !.list = {<<d, rec[d]>> : d \in Delegations}]
  /\ UNCHANGED <<faults, rec, cache, shown>>

Listed(d) == (CHOOSE entry \in watch.list : entry[1] = d)[2]

\* currentTerminalResult
HasResult(r) == r.state = "terminal" /\ r.result /\ r.consumer = None

Message(d) == <<d, Listed(d).generation, IF HasResult(Listed(d)) THEN "result" ELSE "notice">>

\* The next record of the list with something to say.
Takes(d) ==
  /\ watch.at = None
  /\ d \in {entry[1] : entry \in watch.list}
  /\ HasResult(Listed(d)) \/ (Listed(d).startFailed /\ Message(d) \notin cache)
  /\ watch' = [watch EXCEPT !.at = d]
  /\ UNCHANGED <<faults, rec, cache, shown>>

Drop(d) == [list |-> {entry \in watch.list : entry[1] # d}, at |-> None, delivered |-> FALSE]

\* shouldNotice has no reason, or the notice has been seen.
Passes(d) ==
  /\ watch.at = None
  /\ d \in {entry[1] : entry \in watch.list}
  /\ ~HasResult(Listed(d))
  /\ Listed(d).startFailed => Message(d) \in cache
  /\ watch' = Drop(d)
  /\ UNCHANGED <<faults, rec, cache, shown>>

Show(m) == shown' = [shown EXCEPT ![m] = [now |-> IF @.now = 2 THEN 2 ELSE @.now + 1, ever |-> TRUE]]

\* Mutation of Delivers: the deliveries are not remembered.
DeliversAgain ==
  /\ watch.at # None /\ ~watch.delivered
  /\ Message(watch.at) \notin cache
  /\ Show(Message(watch.at))
  /\ watch' = IF HasResult(Listed(watch.at)) THEN [watch EXCEPT !.delivered = TRUE] ELSE Drop(watch.at)
  /\ UNCHANGED <<faults, rec, cache>>

\* onResult or onNotice is shown what was listed.
Delivers ==
  /\ watch.at # None /\ ~watch.delivered
  /\ Message(watch.at) \notin cache
  /\ Show(Message(watch.at))
  /\ cache' = cache \cup {Message(watch.at)}
  /\ watch' = IF HasResult(Listed(watch.at)) THEN [watch EXCEPT !.delivered = TRUE] ELSE Drop(watch.at)
  /\ UNCHANGED <<faults, rec>>

\* Mutation of AlreadyDelivered: it is left alone.
AlreadyDeliveredPassed ==
  /\ watch.at # None /\ ~watch.delivered
  /\ Message(watch.at) \in cache
  /\ watch' = Drop(watch.at)
  /\ UNCHANGED <<faults, rec, cache, shown>>

\* Delivered by an earlier poll, whose consumption failed.
AlreadyDelivered ==
  /\ watch.at # None /\ ~watch.delivered
  /\ Message(watch.at) \in cache
  /\ watch' = [watch EXCEPT !.delivered = TRUE]
  /\ UNCHANGED <<faults, rec, cache, shown>>

\* Mutation of DeliveryFails: consumed all the same.
DeliveryFailsConsuming ==
  /\ "undelivered" \in faults
  /\ watch.at # None /\ ~watch.delivered /\ Message(watch.at) \notin cache
  /\ watch' = [watch EXCEPT !.delivered = TRUE]
  /\ UNCHANGED <<faults, rec, cache, shown>>

\* One record's failure: the next poll comes back to it.
DeliveryFails ==
  /\ "undelivered" \in faults
  /\ watch.at # None /\ ~watch.delivered /\ Message(watch.at) \notin cache
  /\ watch' = Drop(watch.at)
  /\ UNCHANGED <<faults, rec, cache, shown>>

\* consumeResult names the delegation, not the generation.
Consumes ==
  /\ watch.at # None /\ watch.delivered
  /\ Consumable(watch.at)
  /\ rec' = [rec EXCEPT ![watch.at].consumer = Origin]
  /\ watch' = Drop(watch.at)
  /\ UNCHANGED <<faults, cache, shown>>

ConsumeFails ==
  /\ watch.at # None /\ watch.delivered
  /\ ~Consumable(watch.at) \/ "refused" \in faults
  /\ watch' = Drop(watch.at)
  /\ UNCHANGED <<faults, rec, cache, shown>>

\* A new process knows nothing of what the last one was shown.
Restarts ==
  /\ "restart" \in faults
  /\ watch' = Idle /\ cache' = {}
  /\ shown' = [m \in Messages |-> [now |-> 0, ever |-> shown[m].ever]]
  /\ UNCHANGED <<faults, rec>>

Poll ==
  \/ Lists \/ Delivers \/ AlreadyDelivered \/ DeliveryFails \/ Consumes \/ ConsumeFails
  \/ \E d \in Delegations : Takes(d) \/ Passes(d)

Next ==
  \/ Poll \/ Restarts
  \/ \E d \in Delegations : HandsIn(d) \/ StartFails(d) \/ Remediates(d) \/ \E s \in Adopters : Adopts(s, d)

Spec == Init /\ [][Next]_vars

\* The timer polls for ever; neither the session nor the store refuses for ever.
FairSpec ==
  /\ Spec
  /\ WF_parts(Lists \/ AlreadyDelivered \/ \E d \in Delegations : Takes(d) \/ Passes(d))
  /\ WF_parts(DeliveryFails \/ Delivers) /\ WF_parts(ConsumeFails \/ Consumes)
  /\ \A d \in Delegations : SF_parts(Delivers /\ watch.at = d) /\ SF_parts(Consumes /\ watch.at = d)

-----------------------------------------------------------------------------
(* What the watcher promises                                                *)

\* As long as the coordinator's process lives, nothing is shown to it twice,
\* even when consuming what it was shown keeps failing.
ShownOnce == \A m \in Messages : shown[m].now <= 1

\* Nobody takes a result that somebody else has taken: between adoption by a
\* session and consumption by the watcher there is one winner.
TakenOnce ==
  [][\A d \in Delegations :
       (rec[d].consumer # None /\ rec'[d].generation = rec[d].generation)
         => rec'[d].consumer = rec[d].consumer]_vars

\* A result is not taken on behalf of the origin before it was shown to it:
\* a failed delivery is retried "instead of permanently consuming a result the
\* origin session never saw" (delegation-watcher.js:156-158).
ConsumedWasShown ==
  \A d \in Delegations :
    ("remediation" \notin faults /\ rec[d].consumer = Origin /\ Origin \notin Adopters)
      => shown[<<d, rec[d].generation, "result">>].ever

\* A result or a failed start is brought to the origin in the end, unless a
\* session has adopted it or a remediation may replace it.
EverythingIsShown ==
  \A d \in Delegations :
    (faults \cap {"restart", "remediation"} = {} /\ rec[d].state = "terminal")
      ~> (\/ rec[d].startFailed /\ shown[<<d, 1, "notice">>].ever
          \/ rec[d].consumer \in Adopters
          \/ rec[d].consumer = Origin /\ shown[<<d, 1, "result">>].ever)
=============================================================================
