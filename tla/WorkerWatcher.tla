----------------------------- MODULE WorkerWatcher -----------------------------
(***************************************************************************)
(* Telling a coordinator session that a worker is done: notifier.js, the   *)
(* event bus (events-bus.js) and worker-watcher.js.                        *)
(*                                                                         *)
(* A hook or a handoff settles the run under its lock, then posts a        *)
(* notification on its own: a handoff carries the run it has settled, the  *)
(* other two read the run again first.  The line is appended to a file     *)
(* that a watcher in the coordinator polls from where it last stopped.     *)
(***************************************************************************)
EXTENDS Naturals, Sequences, SequencesExt, RunState

CONSTANTS
  Runs,
  Foreign,        \* the runs that another session launched
  MaxGeneration,  \* bound: generations of a run
  MaxPosts,       \* bound: notifications
  MaxPending,     \* MAX_PENDING (64 in the code)
  Statuses,       \* what workers hand in
  FaultCases,     \* what may go wrong in one behaviour: sets of AllFaults
  None,
  Garbage         \* a line that is no event

AllFaults == {
  "torn",      \* an append ends in the middle of its line
  "undelivered",  \* onEvent throws
  "restart"}   \* the coordinator session ends, and starts again

ASSUME WatcherConstants ==
  /\ Foreign \subseteq Runs
  /\ MaxGeneration \in Nat \ {0} /\ MaxPosts \in Nat /\ MaxPending \in Nat \ {0}
  /\ Statuses \subseteq {"completed", "blocked"}
  /\ FaultCases \subseteq SUBSET AllFaults

VARIABLES
  faults,   \* what may go wrong in this behaviour
  run,      \* run.json: state and generation
  posted,   \* how many notifications there have been
  notes,    \* the notifications under way
  bus,      \* events.jsonl: its whole lines
  tail,     \* the event of a line that has been written in part, or None
  watch,    \* the watcher of the session
  told,     \* what onEvent has been given, since the session started
  dropped   \* keys whose delivery was given up

parts == <<run, posted, notes, bus, tail, watch, told, dropped>>

vars == <<faults, parts>>

Generations == 1..MaxGeneration

\* An event; "of" is the generation and "settled" the state that it was posted
\* for, "generation" and "state" are what its line says of the run.
Note == [id : 1..MaxPosts, run : Runs, type : {"handoff", "stop", "run"},
         of : Generations, settled : RunStates,
         generation : Generations \cup {None}, state : RunStates \cup {None}]

Line == Note \cup {Garbage}

ASSUME NoneIsNoLine == None \notin Line

Keys == Runs \X Generations

TypeOK ==
  /\ faults \in FaultCases
  /\ run \in [Runs -> [state : RunStates, generation : Generations]]
  /\ posted \in 0..MaxPosts
  /\ notes \subseteq Note
  /\ bus \in Seq(Line)
  /\ tail \in Line \cup {None}
  /\ watch \in [phase : {"idle", "retry", "batch"}, since : Nat, cursor : Nat,
                seen : SUBSET Keys, queue : Seq(Line), pending : Seq(Note)]
  /\ Len(watch.pending) <= MaxPending
  /\ told \in Seq(Note)
  /\ dropped \subseteq Keys

\* createWorkerWatcher, at the end of the bus.
NewWatch(end) == [phase |-> "idle", since |-> end, cursor |-> end, seen |-> {},
                  queue |-> <<>>, pending |-> <<>>]

Init ==
  /\ faults \in FaultCases
  /\ run = [r \in Runs |-> [state |-> "running", generation |-> 1]]
  /\ posted = 0 /\ notes = {}
  /\ bus = <<>> /\ tail = None
  /\ watch = NewWatch(0)
  /\ told = <<>> /\ dropped = {}

-----------------------------------------------------------------------------
(* The workers.  WorkerLifecycle and Handoff have them in full.             *)

Post(r, type, state) ==
  /\ posted < MaxPosts
  /\ posted' = posted + 1
  /\ notes' = notes \cup {[id |-> posted + 1, run |-> r, type |-> type,
                           of |-> run[r].generation, settled |-> state,
                           generation |-> IF type = "handoff" THEN run[r].generation ELSE None,
                           state |-> IF type = "handoff" THEN state ELSE None]}

Settle(r, state) ==
  run' = [run EXCEPT ![r].state = IF CanTransition(@, state) THEN state ELSE @]

\* submitHandoff, and notifyHandoff with the settled run.
HandsOff(r) ==
  /\ AcceptsHandoff(run[r].state)
  /\ \E status \in Statuses : Settle(r, status) /\ Post(r, "handoff", status)
  /\ UNCHANGED <<faults, bus, tail, watch, told, dropped>>

\* onStop has run out of attempts: notifyStop.
StopsManually(r) ==
  /\ Settle(r, "manual-handoff-required")
  /\ Post(r, "stop", run'[r].state)
  /\ UNCHANGED <<faults, bus, tail, watch, told, dropped>>

\* onSessionEnd, and notifyRun whatever came of it.
SessionEnds(r) ==
  /\ Settle(r, "interrupted")
  /\ Post(r, "run", run'[r].state)
  /\ UNCHANGED <<faults, bus, tail, watch, told, dropped>>

\* A prompt: a continuation stays in the generation, a follow-up opens one.
Prompted(r) ==
  /\ \E follows \in 0..1 :
       /\ run[r].generation + follows \in Generations
       /\ run' = [run EXCEPT ![r] = [state |-> "running", generation |-> @.generation + follows]]
  /\ UNCHANGED <<faults, posted, notes, bus, tail, watch, told, dropped>>

\* claimRelaunch raises the generation and leaves the state alone.
Resumed(r) ==
  /\ run[r].state # "running"
  /\ run[r].generation + 1 \in Generations
  /\ run' = [run EXCEPT ![r].generation = @ + 1]
  /\ UNCHANGED <<faults, posted, notes, bus, tail, watch, told, dropped>>

-----------------------------------------------------------------------------
(* A notification on its way to the bus.  It is best-effort: one that is    *)
(* killed, or whose append fails, is one that never takes its next step.    *)

\* notifyRun and notifyStop: store.read, then baseEvent.
ReadsRun(n) ==
  /\ n.generation = None
  /\ notes' = (notes \ {n}) \cup {[n EXCEPT !.generation = run[n.run].generation,
                                            !.state = run[n.run].state]}
  /\ UNCHANGED <<faults, run, posted, bus, tail, watch, told, dropped>>

\* Appended in one piece.  After a line that was never finished it makes one
\* line with it, which is no JSON.
Appended(n) ==
  /\ n.generation # None
  /\ bus' = Append(bus, IF tail = None THEN n ELSE Garbage)
  /\ tail' = None
  /\ notes' = notes \ {n}
  /\ UNCHANGED <<faults, run, posted, watch, told, dropped>>

\* The first part of the line is there, the rest is still to come.
PartAppended(n) ==
  /\ "torn" \in faults
  /\ n.generation # None /\ tail = None
  /\ tail' = n
  /\ notes' = notes \ {n}
  /\ UNCHANGED <<faults, run, posted, bus, watch, told, dropped>>

RestAppended ==
  /\ tail \in Note
  /\ bus' = Append(bus, tail)
  /\ tail' = None
  /\ UNCHANGED <<faults, run, posted, notes, watch, told, dropped>>

\* The process that was appending dies.
AppendDies ==
  /\ tail \in Note
  /\ tail' = Garbage
  /\ UNCHANGED <<faults, run, posted, notes, bus, watch, told, dropped>>

-----------------------------------------------------------------------------
(* runPoll                                                                  *)

\* A handoff and a lifecycle event of one generation collapse into one.
Key(e) == <<e.run, e.generation>>

TerminalRunStates == Settling \ {"idle-awaiting-handoff", "result-stale"}

\* notifyStop is only called for the actions that are terminal.
IsTerminalEvent(e) == e.type = "run" => e.state \in TerminalRunStates

PollStarts ==
  /\ watch.phase = "idle"
  /\ watch' = [watch EXCEPT !.phase = "retry", !.queue = watch.pending, !.pending = <<>>]
  /\ UNCHANGED <<faults, run, posted, notes, bus, tail, told, dropped>>

\* readEvents: the whole lines from the cursor on.
NewLines == SubSeq(bus, watch.cursor + 1, Len(bus))

\* Mutation of ReadsBus: the cursor goes to the size of the file.
ReadsBusToItsSize ==
  /\ watch.phase = "retry" /\ watch.queue = <<>>
  /\ watch' = [watch EXCEPT !.phase = "batch",
       !.queue = NewLines,
       !.cursor = Len(bus) + (IF tail = None THEN 0 ELSE 1)]
  /\ UNCHANGED <<faults, run, posted, notes, bus, tail, told, dropped>>

\* A line that is not whole yet is left for the next poll.
ReadsBus ==
  /\ watch.phase = "retry" /\ watch.queue = <<>>
  /\ watch' = [watch EXCEPT !.phase = "batch",
       !.queue = NewLines, !.cursor = Len(bus)]
  /\ UNCHANGED <<faults, run, posted, notes, bus, tail, told, dropped>>

\* The line is an event that the session is to be told.
Announces(e) == e # Garbage /\ IsTerminalEvent(e) /\ e.run \notin Foreign

\* Mutation of Passes: what has been retried is not looked up.
PassesInBatchOnly(e) == Announces(e) => watch.phase = "batch" /\ Key(e) \in watch.seen

Passes(e) == Announces(e) => Key(e) \in watch.seen

Skips ==
  /\ watch.queue # <<>> /\ Passes(Head(watch.queue))
  /\ watch' = [watch EXCEPT !.queue = Tail(@)]
  /\ UNCHANGED <<faults, run, posted, notes, bus, tail, told, dropped>>

\* Marked only after it has been delivered.
Delivers ==
  /\ watch.queue # <<>>
  /\ LET e == Head(watch.queue) IN
       /\ ~Passes(e)
       /\ watch' = [watch EXCEPT !.queue = Tail(@), !.seen = @ \cup {Key(e)}]
       /\ told' = Append(told, e)
  /\ UNCHANGED <<faults, run, posted, notes, bus, tail, dropped>>

\* Mutation of DeliveryFails: the event was marked before it was delivered.
DeliveryFailsMarked ==
  /\ "undelivered" \in faults
  /\ watch.queue # <<>>
  /\ LET e == Head(watch.queue) IN
       /\ ~Passes(e)
       /\ watch' = [watch EXCEPT !.queue = Tail(@), !.seen = @ \cup {Key(e)}]
  /\ UNCHANGED <<faults, run, posted, notes, bus, tail, told, dropped>>

\* Kept for the next poll, if there is room.
DeliveryFails ==
  /\ "undelivered" \in faults
  /\ watch.queue # <<>>
  /\ LET e == Head(watch.queue)
         room == Len(watch.pending) < MaxPending IN
       /\ ~Passes(e)
       /\ watch' = [watch EXCEPT !.queue = Tail(@), !.pending = IF room THEN Append(@, e) ELSE @]
       /\ dropped' = IF room THEN dropped ELSE dropped \cup {Key(e)}
  /\ UNCHANGED <<faults, run, posted, notes, bus, tail, told>>

PollEnds ==
  /\ watch.phase = "batch" /\ watch.queue = <<>>
  /\ watch' = [watch EXCEPT !.phase = "idle"]
  /\ UNCHANGED <<faults, run, posted, notes, bus, tail, told, dropped>>

\* session_shutdown and session_start: what happened in between is not read.
Restarts ==
  /\ "restart" \in faults
  /\ watch' = NewWatch(Len(bus))
  /\ told' = <<>> /\ dropped' = {}
  /\ UNCHANGED <<faults, run, posted, notes, bus, tail>>

Poll == PollStarts \/ ReadsBus \/ Skips \/ Delivers \/ DeliveryFails \/ PollEnds

Worker(r) == HandsOff(r) \/ StopsManually(r) \/ SessionEnds(r) \/ Prompted(r) \/ Resumed(r)

Notification == \E n \in notes : ReadsRun(n) \/ Appended(n) \/ PartAppended(n)

Next ==
  \/ \E r \in Runs : Worker(r)
  \/ Notification \/ RestAppended \/ AppendDies
  \/ Poll \/ Restarts

Spec == Init /\ [][Next]_vars

\* The timer polls again and again, and a session does not refuse messages for ever.
FairSpec == Spec /\ WF_parts(PollStarts \/ ReadsBus \/ Skips \/ PollEnds) /\ SF_parts(Delivers)

-----------------------------------------------------------------------------
(* What the notifications promise                                           *)

\* A generation of a run is announced at most once in a session, although its
\* event may be posted twice, retried, and be pending more than once.
ToldOnce == \A i, j \in DOMAIN told : Key(told[i]) = Key(told[j]) => i = j

Told(key) == \E i \in DOMAIN told : Key(told[i]) = key

InHand(key) ==
  \E e \in ToSet(watch.queue) \cup ToSet(watch.pending) : Announces(e) /\ Key(e) = key

\* The cursor passes an event only if the event was told, is still in hand, or
\* was given up because too many deliveries were failing.
NothingForgotten ==
  \A i \in DOMAIN bus :
    (watch.since < i /\ i <= watch.cursor /\ Announces(bus[i]))
      => (Told(Key(bus[i])) \/ InHand(Key(bus[i])) \/ Key(bus[i]) \in dropped)

\* Every terminal event that reaches the bus while the session is up is told
\* in the end, or was given up.
EveryEventIsTold ==
  \A key \in (Runs \ Foreign) \X Generations :
    ("restart" \notin faults /\ \E i \in DOMAIN bus : Announces(bus[i]) /\ Key(bus[i]) = key)
      ~> (Told(key) \/ key \in dropped)

\* Nothing is on its way any more.
Quiet == notes = {} /\ tail = None /\ watch.phase = "batch" /\ watch.queue = <<>>
         /\ watch.cursor = Len(bus) /\ watch.pending = <<>>

\* "a resumed run that reaches a second terminal state in a later generation
\* notifies again" (worker-watcher.js:50-52).
LaterGenerationNotifies ==
  Quiet => \A i \in DOMAIN bus :
    (bus[i].of > 1 /\ bus[i].settled \in TerminalRunStates)
      => \E j \in DOMAIN told : told[j].run = bus[i].run /\ told[j].of = bus[i].of

\* "As soon as an external worker hands off a terminal result [...] Pi receives
\* a follow-up message with the run ID, state" (README.md:342).
HandoffIsTold ==
  Quiet => \A i \in DOMAIN bus :
    (bus[i].type = "handoff" /\ bus[i].settled = "completed")
      => \E j \in DOMAIN told : told[j].run = bus[i].run /\ told[j].settled = "completed"
=============================================================================
