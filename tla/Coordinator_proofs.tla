--------------------------- MODULE Coordinator_proofs ---------------------------
(***************************************************************************)
(* Theorems about what runs in the coordinator: the watcher of workers, the *)
(* watcher of delegations and the approvals, for any number of runs,       *)
(* delegations, tool calls and sessions, and any faults.  A behaviour of    *)
(* the sum is one of each part, so the parts are proved one by one.         *)
(***************************************************************************)
EXTENDS Coordinator, FiniteSetTheorems, SequenceTheorems, TLAPS

-----------------------------------------------------------------------------
(* The watcher of workers.                                                  *)

\* What reaches the bus says which generation it is of.
Posted == {n \in Note : n.generation # None}

BusInv == bus \in Seq(Posted \cup {Garbage}) /\ tail \in Posted \cup {Garbage, None}

\* The watcher remembers the keys of what it has told, and between polls it has
\* nothing in hand but what is pending.
WatchInv ==
  /\ watch.queue \in Seq(Posted \cup {Garbage}) /\ watch.pending \in Seq(Posted)
  /\ told \in Seq(Posted)
  /\ watch.cursor <= Len(bus)
  /\ watch.phase = "idle" => watch.queue = <<>>
  /\ watch.seen = {Key(told[i]) : i \in DOMAIN told}

WorkersInv == TypeOK /\ BusInv /\ WatchInv /\ ToldOnce /\ NothingForgotten

\* A step of a worker, of a notification on its way, or of the writer of a line.
LEMMA OutsideWatch ==
  ASSUME WorkersInv, TypeOK', BusInv', UNCHANGED <<watch, told, dropped>>,
         bus' = bus \/ \E line : bus' = Append(bus, line)
  PROVE  WorkersInv'
<1>1. Len(bus) \in Nat /\ Len(bus') \in Nat /\ Len(bus') >= Len(bus) /\ \A i \in 1..Len(bus) : bus'[i] = bus[i]
  <2>1. CASE bus' = bus
    BY <2>1 DEF WorkersInv, BusInv
  <2>2. ASSUME NEW line, bus' = Append(bus, line)
        PROVE  Len(bus) \in Nat /\ Len(bus') = Len(bus) + 1 /\ \A i \in 1..Len(bus) : bus'[i] = bus[i]
    BY <2>2 DEF WorkersInv, BusInv
  <2>3. QED
    BY <2>1, <2>2
<1>2. WatchInv'
  BY <1>1 DEF WorkersInv, WatchInv, TypeOK, Key
<1>3. ToldOnce'
  BY DEF WorkersInv, ToldOnce, Key
<1>4. NothingForgotten'
  <2> SUFFICES ASSUME NEW i \in DOMAIN bus', watch.since < i, i <= watch.cursor, Announces(bus'[i])
               PROVE  Told(Key(bus'[i])) \/ InHand(Key(bus'[i])) \/ Key(bus'[i]) \in dropped
    BY DEF NothingForgotten, Told, InHand, Announces, Key, IsTerminalEvent
  <2>1. i \in 1..Len(bus) /\ bus'[i] = bus[i]
    <3>1. i \in 1..Len(bus')
      BY DEF BusInv
    <3>2. watch.cursor \in Nat /\ watch.cursor <= Len(bus)
      BY DEF WorkersInv, TypeOK, WatchInv
    <3>3. QED
      BY <1>1, <3>1, <3>2
  <2>2. i \in DOMAIN bus
    BY <2>1 DEF WorkersInv, BusInv
  <2>3. QED
    BY <2>1, <2>2 DEF WorkersInv, NothingForgotten
<1>5. QED
  BY <1>2, <1>3, <1>4 DEF WorkersInv

USE WatcherConstants, NoneIsNoLine

\* Nothing has been posted, and the watcher is at the end of an empty bus.
LEMMA WorkersInit == Init => WorkersInv
<1> SUFFICES ASSUME Init PROVE WorkersInv
  OBVIOUS
<1>1. TypeOK
  BY DEF Init, TypeOK, NewWatch, Generations, RunStates, Keys
<1>2. BusInv /\ WatchInv /\ ToldOnce
  BY DEF Init, BusInv, WatchInv, ToldOnce, NewWatch
<1>3. NothingForgotten
  BY DEF Init, NothingForgotten
<1>4. QED
  BY <1>1, <1>2, <1>3 DEF WorkersInv

\* A notification is of the run as it is.
LEMMA PostTyped ==
  ASSUME TypeOK, NEW r \in Runs, NEW type \in {"handoff", "stop", "run"}, NEW state \in RunStates,
         Post(r, type, state)
  PROVE  posted' \in 0..MaxPosts /\ notes' \subseteq Note
<1>1. posted' \in 1..MaxPosts
  BY DEF Post, TypeOK
<1>2. run[r].generation \in Generations
  BY DEF TypeOK
<1> DEFINE n == [id |-> posted + 1, run |-> r, type |-> type, of |-> run[r].generation, settled |-> state,
                 generation |-> IF type = "handoff" THEN run[r].generation ELSE None,
                 state |-> IF type = "handoff" THEN state ELSE None]
<1>3. n \in Note
  BY <1>1, <1>2 DEF Note, Post
<1>4. notes' = notes \cup {n}
  BY DEF Post
<1> HIDE DEF n
<1>5. QED
  BY <1>1, <1>3, <1>4 DEF TypeOK

\* What workers do.
LEMMA WorkerSteps ==
  ASSUME WorkersInv, NEW r \in Runs, Worker(r)
  PROVE  WorkersInv'
<1> USE DEF WorkersInv
<1>1. UNCHANGED <<faults, bus, tail, watch, told, dropped>>
  BY DEF Worker, HandsOff, StopsManually, SessionEnds, Prompted, Resumed
<1>2. run[r] \in [state : RunStates, generation : Generations] /\ Generations \subseteq Nat
  BY DEF TypeOK, Generations
<1>3. /\ run' \in [Runs -> [state : RunStates, generation : Generations]]
      /\ posted' \in 0..MaxPosts /\ notes' \subseteq Note
  <2>1. ASSUME NEW state \in RunStates, Settle(r, state)
        PROVE  run' \in [Runs -> [state : RunStates, generation : Generations]]
    BY <1>2, <2>1 DEF Settle, TypeOK
  <2>2. CASE HandsOff(r)
    <3>1. PICK status \in Statuses : Settle(r, status) /\ Post(r, "handoff", status)
      BY <2>2 DEF HandsOff
    <3>2. status \in RunStates
      BY DEF RunStates, Settling
    <3>3. QED
      BY <2>1, <3>1, <3>2, PostTyped
  <2>3. CASE StopsManually(r)
    <3>1. run' \in [Runs -> [state : RunStates, generation : Generations]]
      BY <2>1, <2>3 DEF StopsManually, RunStates, Settling
    <3>2. run'[r].state \in RunStates
      BY <3>1
    <3>3. QED
      BY <2>3, <3>1, <3>2, PostTyped DEF StopsManually
  <2>4. CASE SessionEnds(r)
    <3>1. run' \in [Runs -> [state : RunStates, generation : Generations]]
      BY <2>1, <2>4 DEF SessionEnds, RunStates, Settling
    <3>2. run'[r].state \in RunStates
      BY <3>1
    <3>3. QED
      BY <2>4, <3>1, <3>2, PostTyped DEF SessionEnds
  <2>5. CASE Prompted(r)
    BY <1>2, <2>5 DEF Prompted, TypeOK, RunStates
  <2>6. CASE Resumed(r)
    BY <1>2, <2>6 DEF Resumed, TypeOK
  <2>7. QED
    BY <2>2, <2>3, <2>4, <2>5, <2>6 DEF Worker
<1>4. TypeOK' /\ BusInv'
  BY <1>1, <1>3 DEF TypeOK, BusInv
<1>5. QED
  BY <1>1, <1>4, OutsideWatch

\* A notification on its way, and the writer of a line.
LEMMA NotificationSteps ==
  ASSUME WorkersInv, Notification \/ RestAppended \/ AppendDies
  PROVE  WorkersInv'
<1> USE DEF WorkersInv
<1>1. bus \in Seq(Posted \cup {Garbage}) /\ tail \in Posted \cup {Garbage, None} /\ bus \in Seq(Line)
  BY DEF BusInv, TypeOK
<1>2. UNCHANGED <<faults, run, posted, watch, told, dropped>>
  <2>1. CASE Notification
    <3>1. PICK n \in notes : ReadsRun(n) \/ Appended(n) \/ PartAppended(n)
      BY <2>1 DEF Notification
    <3>2. QED
      BY <3>1 DEF ReadsRun, Appended, PartAppended
  <2>2. CASE RestAppended \/ AppendDies
    BY <2>2 DEF RestAppended, AppendDies
  <2>3. QED
    BY <2>1, <2>2
<1> DEFINE Moves ==
      /\ notes' \subseteq Note /\ tail' \in Posted \cup {Garbage, None}
      /\ bus' = bus \/ \E line \in Posted \cup {Garbage} : bus' = Append(bus, line)
<1>3. Moves
  <2>1. ASSUME NEW n \in notes, ReadsRun(n) PROVE Moves
    <3>1. n \in Note /\ run[n.run] \in [state : RunStates, generation : Generations]
      BY <2>1 DEF TypeOK, Note
    <3>2. [n EXCEPT !.generation = run[n.run].generation, !.state = run[n.run].state] \in Note
      BY <3>1 DEF Note
    <3>3. QED
      BY <1>1, <2>1, <3>2 DEF ReadsRun, TypeOK
  <2>2. ASSUME NEW n \in notes, Appended(n) PROVE Moves
    <3>1. n \in Posted
      BY <2>2 DEF Appended, Posted, TypeOK
    <3>2. QED
      BY <1>1, <2>2, <3>1 DEF Appended, TypeOK
  <2>3. ASSUME NEW n \in notes, PartAppended(n) PROVE Moves
    <3>1. n \in Posted
      BY <2>3 DEF PartAppended, Posted, TypeOK
    <3>2. QED
      BY <1>1, <2>3, <3>1 DEF PartAppended, TypeOK
  <2>4. CASE RestAppended
    <3>1. tail \in Posted \cup {Garbage}
      BY <1>1, <2>4 DEF RestAppended, Line
    <3>2. QED
      BY <1>1, <2>4, <3>1 DEF RestAppended, TypeOK
  <2>5. CASE AppendDies
    BY <1>1, <2>5 DEF AppendDies, TypeOK
  <2>6. QED
    BY <2>1, <2>2, <2>3, <2>4, <2>5 DEF Notification
<1>4. bus' \in Seq(Posted \cup {Garbage}) /\ bus' \in Seq(Line)
  <2>1. Posted \cup {Garbage} \subseteq Line
    BY DEF Posted, Line
  <2>2. CASE bus' = bus
    BY <1>1, <2>2
  <2>3. ASSUME NEW line \in Posted \cup {Garbage}, bus' = Append(bus, line)
        PROVE  bus' \in Seq(Posted \cup {Garbage}) /\ bus' \in Seq(Line)
    BY <1>1, <2>1, <2>3
  <2>4. QED
    BY <1>3, <2>2, <2>3
<1>5. TypeOK'
  <2>1. tail' \in Line \cup {None}
    BY <1>3 DEF Posted, Line
  <2>2. QED
    BY <1>2, <1>3, <1>4, <2>1 DEF TypeOK
<1>6. BusInv'
  BY <1>3, <1>4 DEF BusInv
<1>7. QED
  BY <1>2, <1>3, <1>5, <1>6, OutsideWatch

\* The types and the fields of the watcher, one by one.
LEMMA Watching ==
  ASSUME WorkersInv
  PROVE  /\ DOMAIN watch = {"phase", "since", "cursor", "seen", "queue", "pending"}
         /\ watch = [phase |-> watch.phase, since |-> watch.since, cursor |-> watch.cursor,
                     seen |-> watch.seen, queue |-> watch.queue, pending |-> watch.pending]
         /\ watch.phase \in {"idle", "retry", "batch"} /\ watch.since \in Nat /\ watch.cursor \in Nat
         /\ watch.seen \subseteq Keys /\ watch.queue \in Seq(Line) /\ watch.pending \in Seq(Note)
         /\ Len(watch.pending) <= MaxPending /\ Len(bus) \in Nat /\ watch.cursor <= Len(bus)
         /\ watch.queue \in Seq(Posted \cup {Garbage}) /\ watch.pending \in Seq(Posted)
         /\ bus \in Seq(Posted \cup {Garbage})
BY DEF WorkersInv, TypeOK, WatchInv, BusInv

\* What is announced is an event with a key.
LEMMA AnnouncedHasKey ==
  ASSUME NEW e \in Posted \cup {Garbage}, Announces(e)
  PROVE  e \in Posted /\ e \in Note /\ Key(e) \in Keys
BY DEF Announces, Posted, Note, Key, Keys

\* The elements of a tail and of a longer sequence.
LEMMA InTail ==
  ASSUME NEW S, NEW s \in Seq(S), s # <<>>
  PROVE  Tail(s) \in Seq(S) /\ Head(s) \in S /\ ToSet(s) = {Head(s)} \cup ToSet(Tail(s))
<1>1. Tail(s) \in Seq(S) /\ Head(s) \in S /\ Len(s) \in Nat \ {0} /\ Len(Tail(s)) = Len(s) - 1 /\ Head(s) = s[1]
  OBVIOUS
<1>2. \A i \in 1..Len(Tail(s)) : Tail(s)[i] = s[i + 1]
  OBVIOUS
<1>3. ASSUME NEW i \in 1..Len(s) PROVE s[i] \in {Head(s)} \cup ToSet(Tail(s))
  <2>1. CASE i = 1
    BY <1>1, <2>1
  <2>2. CASE i # 1
    <3>1. PICK j \in 1..Len(Tail(s)) : i = j + 1
      BY <1>1, <2>2
    <3>2. Tail(s)[j] = s[i]
      BY <1>2, <3>1
    <3>3. j \in DOMAIN Tail(s)
      BY <1>1
    <3>4. QED
      BY <3>2, <3>3 DEF ToSet
  <2>3. QED
    BY <2>1, <2>2
<1>4. ASSUME NEW i \in 1..Len(Tail(s)) PROVE Tail(s)[i] \in ToSet(s)
  BY <1>1, <1>2 DEF ToSet
<1>5. QED
  BY <1>1, <1>3, <1>4 DEF ToSet

LEMMA InAppend ==
  ASSUME NEW S, NEW s \in Seq(S), NEW e \in S
  PROVE  Append(s, e) \in Seq(S) /\ Len(Append(s, e)) = Len(s) + 1 /\ ToSet(Append(s, e)) = ToSet(s) \cup {e}
<1>1. /\ Append(s, e) \in Seq(S) /\ Len(s) \in Nat /\ Len(Append(s, e)) = Len(s) + 1
      /\ Append(s, e)[Len(s) + 1] = e /\ \A i \in 1..Len(s) : Append(s, e)[i] = s[i]
  OBVIOUS
<1>2. ToSet(Append(s, e)) \subseteq ToSet(s) \cup {e}
  BY <1>1 DEF ToSet
<1>3. ToSet(s) \cup {e} \subseteq ToSet(Append(s, e))
  BY <1>1 DEF ToSet
<1>4. QED
  BY <1>1, <1>2, <1>3

\* A step of a poll, which keeps in hand what it does not tell or give up, and
\* tells nothing that it has told.
LEMMA Polling ==
  ASSUME WorkersInv, TypeOK', WatchInv', ToldOnce',
         UNCHANGED <<faults, run, posted, notes, bus, tail>>, watch'.since = watch.since,
         watch'.cursor = watch.cursor,
         \A i \in DOMAIN told : i \in DOMAIN told' /\ told'[i] = told[i], dropped \subseteq dropped',
         \A e \in ToSet(watch.queue) \cup ToSet(watch.pending) : Announces(e) =>
           \/ e \in ToSet(watch'.queue) \cup ToSet(watch'.pending)
           \/ Told(Key(e))' \/ Key(e) \in dropped'
  PROVE  WorkersInv'
<1>1. BusInv'
  BY DEF WorkersInv, BusInv
<1>2. NothingForgotten'
  <2> SUFFICES ASSUME NEW i \in DOMAIN bus, watch.since < i, i <= watch.cursor, Announces(bus[i])
               PROVE  Told(Key(bus[i]))' \/ InHand(Key(bus[i]))' \/ Key(bus[i]) \in dropped'
    BY DEF NothingForgotten, Told, InHand, Announces, Key, IsTerminalEvent
  <2>1. Told(Key(bus[i])) \/ InHand(Key(bus[i])) \/ Key(bus[i]) \in dropped
    BY DEF WorkersInv, NothingForgotten
  <2>2. CASE Told(Key(bus[i]))
    BY <2>2 DEF Told, Key
  <2>3. CASE InHand(Key(bus[i]))
    <3>1. PICK e \in ToSet(watch.queue) \cup ToSet(watch.pending) : Announces(e) /\ Key(e) = Key(bus[i])
      BY <2>3 DEF InHand
    <3>2. Key(e)' = Key(bus[i])' /\ Key(bus[i])' = Key(bus[i])
      BY <3>1 DEF Key
    <3>3. QED
      BY <3>1, <3>2 DEF InHand, Told, Announces, IsTerminalEvent, Key
  <2>4. QED
    BY <2>1, <2>2, <2>3
<1>3. QED
  BY <1>1, <1>2 DEF WorkersInv

\* What has been told keeps its place; the keys of what has been told.
LEMMA ToldKept ==
  ASSUME WorkersInv, NEW e \in Posted, told' = Append(told, e)
  PROVE  /\ told' \in Seq(Posted) /\ DOMAIN told' = DOMAIN told \cup {Len(told) + 1}
         /\ \A i \in DOMAIN told : told'[i] = told[i] /\ i # Len(told) + 1
         /\ told'[Len(told) + 1] = e
         /\ {Key(told'[i]) : i \in DOMAIN told'} = watch.seen \cup {Key(e)}
<1>1. told \in Seq(Posted) /\ Len(told) \in Nat
  BY DEF WorkersInv, WatchInv
<1>2. /\ told' \in Seq(Posted) /\ DOMAIN told' = DOMAIN told \cup {Len(told) + 1}
      /\ \A i \in DOMAIN told : told'[i] = told[i] /\ i # Len(told) + 1
      /\ told'[Len(told) + 1] = e
  BY <1>1
<1>3. watch.seen = {Key(told[i]) : i \in DOMAIN told}
  BY DEF WorkersInv, WatchInv
<1>4. {Key(told'[i]) : i \in DOMAIN told'} = {Key(told[i]) : i \in DOMAIN told} \cup {Key(e)}
  BY <1>2
<1>5. QED
  BY <1>2, <1>3, <1>4

\* A poll starts with what is pending.
LEMMA PollStarted ==
  ASSUME WorkersInv, PollStarts
  PROVE  WorkersInv'
<1>1. /\ watch' = [watch EXCEPT !.phase = "retry", !.queue = watch.pending, !.pending = <<>>]
      /\ watch.queue = <<>>
      /\ UNCHANGED <<faults, run, posted, notes, bus, tail, told, dropped>>
  BY DEF PollStarts, WorkersInv, WatchInv
<1>2. /\ watch'.phase = "retry" /\ watch'.queue = watch.pending /\ watch'.pending = <<>>
      /\ watch'.since = watch.since /\ watch'.cursor = watch.cursor /\ watch'.seen = watch.seen
      /\ watch' = [phase |-> "retry", since |-> watch.since, cursor |-> watch.cursor,
                   seen |-> watch.seen, queue |-> watch.pending, pending |-> <<>>]
  BY <1>1, Watching
<1>3. watch.pending \in Seq(Line) /\ watch.pending \in Seq(Posted \cup {Garbage})
  BY Watching DEF Line
<1>4. TypeOK'
  BY <1>1, <1>2, <1>3, Watching DEF WorkersInv, TypeOK
<1>5. WatchInv'
  BY <1>1, <1>2, <1>3, Watching DEF WorkersInv, WatchInv, Key
<1>6. ToldOnce'
  BY <1>1 DEF WorkersInv, ToldOnce, Key
<1>7. \A e \in ToSet(watch.queue) \cup ToSet(watch.pending) : e \in ToSet(watch'.queue) \cup ToSet(watch'.pending)
  BY <1>1, <1>2 DEF ToSet
<1>8. QED
  BY <1>1, <1>2, <1>4, <1>5, <1>6, <1>7, Polling

\* The cursor passes the lines that are in hand from then on.
LEMMA BusRead ==
  ASSUME WorkersInv, ReadsBus
  PROVE  WorkersInv'
<1>1. /\ watch' = [watch EXCEPT !.phase = "batch", !.queue = NewLines, !.cursor = Len(bus)]
      /\ watch.queue = <<>>
      /\ UNCHANGED <<faults, run, posted, notes, bus, tail, told, dropped>>
  BY DEF ReadsBus
<1>2. /\ watch'.phase = "batch" /\ watch'.queue = NewLines /\ watch'.pending = watch.pending
      /\ watch'.since = watch.since /\ watch'.cursor = Len(bus) /\ watch'.seen = watch.seen
      /\ watch' = [phase |-> "batch", since |-> watch.since, cursor |-> Len(bus),
                   seen |-> watch.seen, queue |-> NewLines, pending |-> watch.pending]
  BY <1>1, Watching
<1>3. /\ NewLines \in Seq(Posted \cup {Garbage}) /\ NewLines \in Seq(Line)
      /\ \A i \in 1..Len(bus) : watch.cursor < i => bus[i] \in ToSet(NewLines)
  <2>1. /\ bus \in Seq(Posted \cup {Garbage}) /\ bus \in Seq(Line)
        /\ Len(bus) \in Nat /\ watch.cursor \in Nat /\ watch.cursor <= Len(bus)
    BY Watching DEF WorkersInv, TypeOK
  <2>2. NewLines \in Seq(Posted \cup {Garbage}) /\ NewLines \in Seq(Line)
    <3>1. \A i \in (watch.cursor + 1)..Len(bus) : i \in 1..Len(bus)
      BY <2>1
    <3>2. QED
      BY <2>1, <3>1 DEF NewLines
  <2>3. Len(NewLines) = Len(bus) - watch.cursor /\ \A j \in 1..Len(NewLines) : NewLines[j] = bus[watch.cursor + j]
    BY <2>1 DEF NewLines
  <2>4. ASSUME NEW i \in 1..Len(bus), watch.cursor < i PROVE bus[i] \in ToSet(NewLines)
    <3>1. PICK j \in 1..Len(NewLines) : i = watch.cursor + j
      <4>1. i - watch.cursor \in 1..Len(NewLines)
        BY <2>1, <2>3, <2>4
      <4>2. i = watch.cursor + (i - watch.cursor)
        BY <2>1
      <4>3. QED
        BY <4>1, <4>2
    <3>2. NewLines[j] = bus[i] /\ j \in DOMAIN NewLines
      BY <2>2, <2>3, <3>1
    <3>3. QED
      BY <3>2 DEF ToSet
  <2>5. QED
    BY <2>2, <2>4
<1>4. TypeOK'
  BY <1>1, <1>2, <1>3, Watching DEF WorkersInv, TypeOK
<1>5. WatchInv'
  BY <1>1, <1>2, <1>3, Watching DEF WorkersInv, WatchInv, Key
<1>6. ToldOnce'
  BY <1>1 DEF WorkersInv, ToldOnce, Key
<1>7. BusInv'
  BY <1>1 DEF WorkersInv, BusInv
<1>8. NothingForgotten'
  <2> SUFFICES ASSUME NEW i \in DOMAIN bus, watch.since < i, Announces(bus[i])
               PROVE  Told(Key(bus[i]))' \/ InHand(Key(bus[i]))' \/ Key(bus[i]) \in dropped
    BY <1>1, <1>2 DEF NothingForgotten, Told, InHand, Announces, Key, IsTerminalEvent
  <2>1. i \in 1..Len(bus) /\ watch.cursor \in Nat
    BY Watching
  <2>2. CASE watch.cursor < i
    <3>1. bus[i] \in ToSet(watch'.queue)
      BY <1>2, <1>3, <2>1, <2>2
    <3>2. QED
      BY <1>1, <3>1 DEF InHand, Announces, IsTerminalEvent, Key
  <2>3. CASE i <= watch.cursor
    <3>1. Told(Key(bus[i])) \/ InHand(Key(bus[i])) \/ Key(bus[i]) \in dropped
      BY <2>3 DEF WorkersInv, NothingForgotten
    <3>2. ToSet(watch.queue) = {}
      BY <1>1 DEF ToSet
    <3>3. QED
      BY <1>1, <1>2, <3>1, <3>2 DEF InHand, Told, Announces, IsTerminalEvent, Key
  <2>4. QED
    BY <2>1, <2>2, <2>3
<1>9. QED
  BY <1>4, <1>5, <1>6, <1>7, <1>8 DEF WorkersInv

\* The event at the head of the queue is skipped, told, kept or given up.
LEMMA Heading ==
  ASSUME WorkersInv, watch.queue # <<>>, NEW seen \in SUBSET Keys, NEW pending \in Seq(Posted),
         watch' = [watch EXCEPT !.queue = Tail(@), !.seen = seen, !.pending = pending],
         Len(pending) <= MaxPending, UNCHANGED <<faults, run, posted, notes, bus, tail>>,
         dropped' \in SUBSET Keys, dropped \subseteq dropped',
         told' \in Seq(Posted), seen = {Key(told'[i]) : i \in DOMAIN told'}, ToldOnce',
         \A i \in DOMAIN told : i \in DOMAIN told' /\ told'[i] = told[i],
         ToSet(watch.pending) \subseteq ToSet(pending),
         Announces(Head(watch.queue)) =>
           \/ Key(Head(watch.queue)) \in seen \/ Head(watch.queue) \in ToSet(pending)
           \/ Key(Head(watch.queue)) \in dropped'
  PROVE  WorkersInv'
<1>1. /\ watch'.phase = watch.phase /\ watch'.queue = Tail(watch.queue) /\ watch'.pending = pending
      /\ watch'.since = watch.since /\ watch'.cursor = watch.cursor /\ watch'.seen = seen
      /\ watch' = [phase |-> watch.phase, since |-> watch.since, cursor |-> watch.cursor,
                   seen |-> seen, queue |-> Tail(watch.queue), pending |-> pending]
  BY Watching
<1>2. /\ Tail(watch.queue) \in Seq(Line) /\ Tail(watch.queue) \in Seq(Posted \cup {Garbage})
      /\ ToSet(watch.queue) = {Head(watch.queue)} \cup ToSet(Tail(watch.queue))
  BY Watching, InTail
<1>3. told' \in Seq(Note) /\ pending \in Seq(Note)
  BY DEF Posted
<1>4. TypeOK'
  BY <1>1, <1>2, <1>3, Watching DEF WorkersInv, TypeOK
<1>5. watch.phase # "idle"
  BY DEF WorkersInv, WatchInv
<1>6. WatchInv'
  BY <1>1, <1>2, <1>5, Watching DEF WorkersInv, WatchInv, Key
<1>7. \A e \in ToSet(watch.queue) \cup ToSet(watch.pending) : Announces(e) =>
        \/ e \in ToSet(watch'.queue) \cup ToSet(watch'.pending)
        \/ Told(Key(e))' \/ Key(e) \in dropped'
  <2> SUFFICES ASSUME NEW e, e = Head(watch.queue), Announces(e)
               PROVE  e \in ToSet(watch'.pending) \/ Told(Key(e))' \/ Key(e) \in dropped'
    BY <1>1, <1>2
  <2>1. CASE Key(e) \in seen
    <3>1. PICK i \in DOMAIN told' : Key(told'[i]) = Key(e)
      BY <2>1
    <3>2. QED
      BY <3>1 DEF Told, Key
  <2>2. CASE Key(e) \notin seen
    BY <1>1, <2>2
  <2>3. QED
    BY <2>1, <2>2
<1>8. QED
  BY <1>1, <1>4, <1>6, <1>7, Polling

LEMMA HeadSteps ==
  ASSUME WorkersInv, Skips \/ Delivers \/ DeliveryFails
  PROVE  WorkersInv'
<1> DEFINE e == Head(watch.queue)
<1>1. watch.queue # <<>> /\ UNCHANGED <<faults, run, posted, notes, bus, tail>>
  BY DEF Skips, Delivers, DeliveryFails
<1>2. e \in Posted \cup {Garbage} /\ (Announces(e) => e \in Posted /\ e \in Note /\ Key(e) \in Keys)
  BY <1>1, Watching, InTail, AnnouncedHasKey
<1>3. /\ told \in Seq(Posted) /\ watch.seen = {Key(told[i]) : i \in DOMAIN told}
      /\ dropped \subseteq Keys /\ watch.seen \subseteq Keys /\ ToldOnce
      /\ watch.pending \in Seq(Posted) /\ Len(watch.pending) <= MaxPending
  BY Watching DEF WorkersInv, WatchInv, TypeOK
<1> HIDE DEF e
<1>4. CASE Skips
  <2>1. /\ watch' = [watch EXCEPT !.queue = Tail(@), !.seen = watch.seen, !.pending = watch.pending]
        /\ UNCHANGED <<told, dropped>> /\ Passes(e)
    <3>1. watch' = [watch EXCEPT !.queue = Tail(@)] /\ UNCHANGED <<told, dropped>> /\ Passes(e)
      BY <1>4 DEF Skips, e
    <3>2. QED
      BY <3>1, Watching
  <2>2. Announces(e) => Key(e) \in watch.seen
    BY <2>1 DEF Passes
  <2>3. ToldOnce' /\ watch.seen = {Key(told'[i]) : i \in DOMAIN told'}
    BY <1>3, <2>1 DEF ToldOnce, Key
  <2>4. QED
    BY <1>1, <1>3, <2>1, <2>2, <2>3, Heading DEF e
<1>5. CASE Delivers
  <2>1. /\ watch' = [watch EXCEPT !.queue = Tail(@), !.seen = @ \cup {Key(e)}]
        /\ told' = Append(told, e) /\ dropped' = dropped /\ Announces(e) /\ Key(e) \notin watch.seen
    BY <1>5 DEF Delivers, Passes, e
  <2>2. watch' = [watch EXCEPT !.queue = Tail(@), !.seen = watch.seen \cup {Key(e)}, !.pending = watch.pending]
    BY <2>1, Watching
  <2>3. /\ told' \in Seq(Posted) /\ DOMAIN told' = DOMAIN told \cup {Len(told) + 1}
        /\ \A i \in DOMAIN told : told'[i] = told[i] /\ i # Len(told) + 1
        /\ told'[Len(told) + 1] = e
        /\ {Key(told'[i]) : i \in DOMAIN told'} = watch.seen \cup {Key(e)}
    BY <1>2, <2>1, ToldKept
  <2>4. ToldOnce'
    <3>1. \A i \in DOMAIN told : Key(told[i]) # Key(e)
      BY <1>3, <2>1
    <3>2. \A i, j \in DOMAIN told' : Key(told'[i]) = Key(told'[j]) => i = j
      BY <1>3, <2>3, <3>1 DEF ToldOnce
    <3>3. QED
      BY <3>2 DEF ToldOnce, Key
  <2>5. watch.seen \cup {Key(e)} \in SUBSET Keys
    BY <1>2, <1>3, <2>1
  <2>6. QED
    BY <1>1, <1>3, <2>1, <2>2, <2>3, <2>4, <2>5, Heading DEF e
<1>6. CASE DeliveryFails
  <2> DEFINE room == Len(watch.pending) < MaxPending
  <2> DEFINE pending == IF room THEN Append(watch.pending, e) ELSE watch.pending
  <2>1. /\ watch' = [watch EXCEPT !.queue = Tail(@), !.pending = pending]
        /\ dropped' = IF room THEN dropped ELSE dropped \cup {Key(e)}
        /\ told' = told /\ Announces(e)
    <3>1. watch' = [watch EXCEPT !.queue = Tail(@), !.pending = IF room THEN Append(@, e) ELSE @]
      BY <1>6 DEF DeliveryFails, e
    <3>2. QED
      BY <1>6, <3>1, Watching DEF DeliveryFails, Passes, e
  <2>2. watch' = [watch EXCEPT !.queue = Tail(@), !.seen = watch.seen, !.pending = pending]
    BY <2>1, Watching
  <2>3. /\ pending \in Seq(Posted) /\ Len(pending) <= MaxPending /\ ToSet(watch.pending) \subseteq ToSet(pending)
        /\ room => e \in ToSet(pending)
    BY <1>2, <1>3, <2>1, InAppend
  <2>4. ToldOnce' /\ watch.seen = {Key(told'[i]) : i \in DOMAIN told'}
    BY <1>3, <2>1 DEF ToldOnce, Key
  <2>5. dropped' \in SUBSET Keys /\ dropped \subseteq dropped' /\ (~room => Key(e) \in dropped')
    BY <1>2, <1>3, <2>1
  <2> HIDE DEF pending, room
  <2>6. QED
    BY <1>1, <1>3, <2>1, <2>2, <2>3, <2>4, <2>5, Heading DEF e
<1>7. QED
  BY <1>4, <1>5, <1>6

\* A poll ends with nothing in hand; a session that starts reads from the end of the bus.
LEMMA PollEnded ==
  ASSUME WorkersInv, PollEnds
  PROVE  WorkersInv'
<1>1. /\ watch' = [watch EXCEPT !.phase = "idle"] /\ watch.queue = <<>>
      /\ UNCHANGED <<faults, run, posted, notes, bus, tail, told, dropped>>
  BY DEF PollEnds
<1>2. /\ watch'.phase = "idle" /\ watch'.queue = watch.queue /\ watch'.pending = watch.pending
      /\ watch'.since = watch.since /\ watch'.cursor = watch.cursor /\ watch'.seen = watch.seen
      /\ watch' = [phase |-> "idle", since |-> watch.since, cursor |-> watch.cursor,
                   seen |-> watch.seen, queue |-> watch.queue, pending |-> watch.pending]
  BY <1>1, Watching
<1>3. TypeOK'
  BY <1>1, <1>2, Watching DEF WorkersInv, TypeOK
<1>4. WatchInv'
  <2>1. {Key(told'[i]) : i \in DOMAIN told'} = watch.seen
    BY <1>1 DEF WorkersInv, WatchInv, Key
  <2>2. watch'.cursor <= Len(bus') /\ watch'.queue = <<>> /\ told' \in Seq(Posted)
    BY <1>1, <1>2 DEF WorkersInv, WatchInv
  <2>3. QED
    BY <1>2, <2>1, <2>2, Watching DEF WatchInv, Key
<1>5. ToldOnce'
  BY <1>1 DEF WorkersInv, ToldOnce, Key
<1>6. QED
  BY <1>1, <1>2, <1>3, <1>4, <1>5, Polling

LEMMA SessionRestarted ==
  ASSUME WorkersInv, Restarts
  PROVE  WorkersInv'
<1>1. /\ watch' = NewWatch(Len(bus)) /\ told' = <<>> /\ dropped' = {}
      /\ UNCHANGED <<faults, run, posted, notes, bus, tail>>
  BY DEF Restarts
<1>2. watch' = [phase |-> "idle", since |-> Len(bus), cursor |-> Len(bus), seen |-> {}, queue |-> <<>>, pending |-> <<>>]
  BY <1>1 DEF NewWatch
<1>3. Len(bus) \in Nat
  BY Watching
<1>4. TypeOK'
  BY <1>1, <1>2, <1>3 DEF WorkersInv, TypeOK
<1>5. BusInv' /\ WatchInv' /\ ToldOnce'
  BY <1>1, <1>2, <1>3 DEF WorkersInv, BusInv, WatchInv, ToldOnce
<1>6. NothingForgotten'
  <2> SUFFICES ASSUME NEW i \in DOMAIN bus, Len(bus) < i, i <= Len(bus) PROVE FALSE
    BY <1>1, <1>2 DEF NothingForgotten
  <2>1. i \in Nat
    BY Watching
  <2>2. QED
    BY <1>3, <2>1
<1>7. QED
  BY <1>4, <1>5, <1>6 DEF WorkersInv

LEMMA WorkersStep == WorkersInv /\ [Next]_vars => WorkersInv'
<1> SUFFICES ASSUME WorkersInv, [Next]_vars PROVE WorkersInv'
  OBVIOUS
<1>1. CASE UNCHANGED vars
  <2>1. TypeOK' /\ BusInv'
    BY <1>1 DEF vars, parts, WorkersInv, TypeOK, BusInv
  <2>2. QED
    BY <1>1, <2>1, OutsideWatch DEF vars, parts
<1>2. CASE \E r \in Runs : Worker(r)
  BY <1>2, WorkerSteps
<1>3. CASE Notification \/ RestAppended \/ AppendDies
  BY <1>3, NotificationSteps
<1>4. CASE Poll
  BY <1>4, PollStarted, BusRead, HeadSteps, PollEnded DEF Poll
<1>5. CASE Restarts
  BY <1>5, SessionRestarted
<1>6. QED
  BY <1>1, <1>2, <1>3, <1>4, <1>5 DEF Next

-----------------------------------------------------------------------------
(* The watcher of delegations.                                              *)

USE CoordinatorConstants DEF Results!ConsumptionConstants

\* What the list says of the delegation in hand.
InHandListed == \E entry \in dwatch.list : entry[1] = dwatch.at

\* A result is of a terminal record, which is in its first generation unless a
\* remediation may follow.
RecordsInv ==
  /\ \A d \in Delegations : rec[d].result => rec[d].state = "terminal"
  /\ "remediation" \notin dfaults =>
       /\ \A d \in Delegations : rec[d].generation = 1
       /\ \A entry \in dwatch.list : entry[2].generation = 1

\* The delegation in hand is on the list; a notice is taken in hand when it has not
\* been seen; and what was delivered is remembered.
HandInv ==
  /\ dwatch.at # None =>
       /\ InHandListed
       /\ ~Results!HasResult(Results!Listed(dwatch.at)) =>
            ~dwatch.delivered /\ Results!Message(dwatch.at) \notin cache
       /\ dwatch.delivered => Results!Message(dwatch.at) \in cache
  /\ dwatch.at = None => ~dwatch.delivered

\* What the process was shown it remembers.
CacheInv ==
  \A m \in Results!Messages :
    /\ shown[m].now >= 1 => m \in cache
    /\ m \in cache => shown[m].ever

ResultsInv ==
  /\ Results!TypeOK /\ RecordsInv /\ HandInv /\ CacheInv
  /\ Results!ShownOnce /\ Results!ConsumedWasShown

\* Every delegation is running, and the process was shown nothing.
LEMMA ResultsInit == Results!Init => ResultsInv
<1> SUFFICES ASSUME Results!Init PROVE ResultsInv
  OBVIOUS
<1>1. Results!TypeOK
  BY DEF Results!Init, Results!TypeOK, Results!Record, Results!NewRecord, Results!Generations, Results!Idle
<1>2. RecordsInv /\ HandInv /\ CacheInv
  BY DEF Results!Init, RecordsInv, HandInv, CacheInv, Results!NewRecord, Results!Idle
<1>3. Results!ShownOnce /\ Results!ConsumedWasShown
  BY DEF Results!Init, Results!ShownOnce, Results!ConsumedWasShown, Results!NewRecord
<1>4. QED
  BY <1>1, <1>2, <1>3 DEF ResultsInv

\* The delegation in hand, its record as it was listed, and what is to be said of it.
LEMMA Listing ==
  ASSUME ResultsInv
  PROVE  /\ \A d \in Delegations : (\E entry \in dwatch.list : entry[1] = d) =>
              /\ Results!Listed(d) \in Results!Record /\ Results!Message(d) \in Results!Messages
              /\ Results!HasResult(Results!Listed(d)) =>
                   Results!Message(d) = <<d, Results!Listed(d).generation, "result">>
              /\ "remediation" \notin dfaults => Results!Listed(d).generation = 1
         /\ dwatch.at # None => dwatch.at \in Delegations /\ \E entry \in dwatch.list : entry[1] = dwatch.at
<1>1. dwatch.list \subseteq Delegations \X Results!Record /\ dwatch.at \in Delegations \cup {None}
  BY DEF ResultsInv, Results!TypeOK
<1>2. ASSUME NEW d \in Delegations, \E entry \in dwatch.list : entry[1] = d
      PROVE  /\ Results!Listed(d) \in Results!Record
             /\ "remediation" \notin dfaults => Results!Listed(d).generation = 1
  <2> DEFINE chosen == CHOOSE entry \in dwatch.list : entry[1] = d
  <2>1. chosen \in dwatch.list /\ Results!Listed(d) = chosen[2]
    BY <1>2 DEF Results!Listed
  <2> HIDE DEF chosen
  <2>2. chosen[2] \in Results!Record
    BY <1>1, <2>1
  <2>3. QED
    BY <2>1, <2>2 DEF ResultsInv, RecordsInv
<1>3. ASSUME NEW d \in Delegations, \E entry \in dwatch.list : entry[1] = d
      PROVE  /\ Results!Message(d) \in Results!Messages
             /\ Results!HasResult(Results!Listed(d)) =>
                  Results!Message(d) = <<d, Results!Listed(d).generation, "result">>
  <2>1. Results!Listed(d).generation \in Results!Generations
    BY <1>2, <1>3 DEF Results!Record
  <2>2. QED
    BY <2>1 DEF Results!Message, Results!Messages
<1>4. QED
  BY <1>1, <1>2, <1>3 DEF ResultsInv, HandInv, InHandListed

\* A step of the store: a record is written, and no result is taken for the origin.
LEMMA RecordWritten ==
  ASSUME ResultsInv, NEW d \in Delegations, NEW new \in Results!Record, rec' = [rec EXCEPT ![d] = new],
         UNCHANGED <<dfaults, dwatch, cache, shown>>,
         new.consumer # None => new.result, new.result => new.state = "terminal",
         "remediation" \notin dfaults => new.generation = 1,
         new.consumer # Origin \/ Origin \in Adopters \/ new.consumer = rec[d].consumer
  PROVE  ResultsInv'
<1>1. /\ rec'[d] = new /\ \A e \in Delegations : e # d => rec'[e] = rec[e]
      /\ rec' \in [Delegations -> Results!Record]
  BY DEF ResultsInv, Results!TypeOK
<1>2. Results!TypeOK'
  BY <1>1 DEF ResultsInv, Results!TypeOK
<1>3. RecordsInv'
  BY <1>1 DEF ResultsInv, RecordsInv
<1>4. HandInv' /\ CacheInv' /\ Results!ShownOnce'
  BY DEF ResultsInv, HandInv, InHandListed, CacheInv, Results!ShownOnce, Results!HasResult, Results!Listed, Results!Message
<1>5. Results!ConsumedWasShown'
  <2> SUFFICES ASSUME NEW e \in Delegations, "remediation" \notin dfaults, rec'[e].consumer = Origin, Origin \notin Adopters
               PROVE  shown[<<e, rec'[e].generation, "result">>].ever
    BY DEF Results!ConsumedWasShown
  <2>1. rec[e].consumer = Origin /\ rec'[e].generation = 1 /\ rec[e].generation = 1
    BY <1>1 DEF ResultsInv, RecordsInv
  <2>2. QED
    BY <2>1 DEF ResultsInv, Results!ConsumedWasShown
<1>6. QED
  BY <1>2, <1>3, <1>4, <1>5 DEF ResultsInv

LEMMA StoreSteps ==
  ASSUME ResultsInv, NEW d \in Delegations,
         \/ Results!HandsIn(d) \/ Results!StartFails(d) \/ Results!Remediates(d)
         \/ \E s \in Adopters : Results!Adopts(s, d)
  PROVE  ResultsInv'
<1>1. /\ rec \in [Delegations -> Results!Record] /\ rec[d] \in Results!Record
      /\ (rec[d].consumer # None => rec[d].result) /\ (rec[d].result => rec[d].state = "terminal")
      /\ "remediation" \notin dfaults => rec[d].generation = 1
  BY DEF ResultsInv, Results!TypeOK, RecordsInv
<1>2. UNCHANGED <<dfaults, dwatch, cache, shown>>
  BY DEF Results!HandsIn, Results!StartFails, Results!Remediates, Results!Adopts
<1>3. CASE Results!HandsIn(d)
  <2> DEFINE new == [rec[d] EXCEPT !.state = "terminal", !.result = TRUE, !.consumer = None]
  <2>1. /\ rec' = [rec EXCEPT ![d] = new] /\ new \in Results!Record
        /\ new.state = "terminal" /\ new.result = TRUE /\ new.consumer = None /\ new.generation = rec[d].generation
    BY <1>1, <1>3 DEF Results!HandsIn, Results!Record
  <2> HIDE DEF new
  <2>2. QED
    BY <1>1, <1>2, <2>1, RecordWritten
<1>4. CASE Results!StartFails(d)
  <2> DEFINE new == [rec[d] EXCEPT !.state = "terminal", !.startFailed = TRUE]
  <2>1. /\ rec' = [rec EXCEPT ![d] = new] /\ new \in Results!Record
        /\ new.state = "terminal" /\ new.result = rec[d].result /\ new.consumer = rec[d].consumer
        /\ new.generation = rec[d].generation
    BY <1>1, <1>4 DEF Results!StartFails, Results!Record
  <2> HIDE DEF new
  <2>2. QED
    BY <1>1, <1>2, <2>1, RecordWritten
<1>5. CASE Results!Remediates(d)
  <2> DEFINE new == [Results!NewRecord EXCEPT !.generation = rec[d].generation + 1]
  <2>1. /\ rec' = [rec EXCEPT ![d] = new] /\ "remediation" \in dfaults
        /\ rec[d].generation \in 1..(Turns + 1) /\ rec[d].generation <= Turns
    BY <1>1, <1>5 DEF Results!Remediates, Results!Record, Results!Generations
  <2>2. rec[d].generation + 1 \in Results!Generations
    BY <2>1 DEF Results!Generations
  <2>3. Results!NewRecord \in Results!Record /\ Results!NewRecord.result = FALSE /\ Results!NewRecord.consumer = None
    BY DEF Results!NewRecord, Results!Record, Results!Generations
  <2>4. new \in Results!Record /\ new.result = FALSE /\ new.consumer = None
    BY <2>2, <2>3 DEF Results!Record
  <2> HIDE DEF new
  <2>5. QED
    BY <1>2, <2>1, <2>4, RecordWritten
<1>6. ASSUME NEW s \in Adopters, Results!Adopts(s, d) PROVE ResultsInv'
  <2> DEFINE new == [rec[d] EXCEPT !.consumer = s]
  <2>1. /\ rec' = [rec EXCEPT ![d] = new] /\ new \in Results!Record /\ rec[d].result
        /\ new.state = rec[d].state /\ new.result = rec[d].result /\ new.consumer = s /\ new.generation = rec[d].generation
    BY <1>1, <1>6 DEF Results!Adopts, Results!Consumable, Results!Record
  <2> HIDE DEF new
  <2>2. QED
    BY <1>1, <1>2, <2>1, RecordWritten
<1>7. QED
  BY <1>3, <1>4, <1>5, <1>6

\* The fields of the watcher, one by one.
LEMMA WatchingResults ==
  ASSUME ResultsInv
  PROVE  /\ dwatch = [list |-> dwatch.list, at |-> dwatch.at, delivered |-> dwatch.delivered]
         /\ dwatch.list \subseteq Delegations \X Results!Record /\ dwatch.delivered \in BOOLEAN
         /\ dwatch.at \in Delegations \cup {None}
BY DEF ResultsInv, Results!TypeOK

\* A step of the watcher that leaves the store and the process's memory alone.
LEMMA WatchMoves ==
  ASSUME ResultsInv, UNCHANGED <<dfaults, rec, cache, shown>>,
         NEW list, NEW at \in Delegations \cup {None}, NEW delivered \in BOOLEAN,
         list \subseteq Delegations \X Results!Record,
         dwatch' = [list |-> list, at |-> at, delivered |-> delivered],
         "remediation" \notin dfaults => \A entry \in list : entry[2].generation = 1,
         HandInv'
  PROVE  ResultsInv'
<1>1. dwatch'.list = list
  OBVIOUS
<1>2. Results!TypeOK'
  BY DEF ResultsInv, Results!TypeOK
<1>3. RecordsInv'
  BY <1>1 DEF ResultsInv, RecordsInv
<1>4. CacheInv' /\ Results!ShownOnce' /\ Results!ConsumedWasShown'
  BY DEF ResultsInv, CacheInv, Results!ShownOnce, Results!ConsumedWasShown
<1>5. QED
  BY <1>2, <1>3, <1>4 DEF ResultsInv

\* Going on to the next record of the list.
LEMMA Dropped ==
  ASSUME ResultsInv, NEW d
  PROVE  /\ Results!Drop(d) = [list |-> Results!Drop(d).list, at |-> None, delivered |-> FALSE]
         /\ Results!Drop(d).list \subseteq dwatch.list
BY DEF Results!Drop

\* The steps of the poll that only move along the list.
LEMMA ListSteps ==
  ASSUME ResultsInv,
         \/ Results!Lists \/ Results!AlreadyDelivered \/ Results!DeliveryFails \/ Results!ConsumeFails
         \/ \E d \in Delegations : Results!Takes(d) \/ Results!Passes(d)
  PROVE  ResultsInv'
<1>1. UNCHANGED <<dfaults, rec, cache, shown>>
  BY DEF Results!Lists, Results!AlreadyDelivered, Results!DeliveryFails, Results!ConsumeFails,
         Results!Takes, Results!Passes
<1>2. /\ dwatch = [list |-> dwatch.list, at |-> dwatch.at, delivered |-> dwatch.delivered]
      /\ dwatch.list \subseteq Delegations \X Results!Record /\ dwatch.delivered \in BOOLEAN
      /\ dwatch.at \in Delegations \cup {None}
  BY WatchingResults
<1>3. "remediation" \notin dfaults => \A entry \in dwatch.list : entry[2].generation = 1
  BY DEF ResultsInv, RecordsInv
<1>4. ASSUME NEW d, dwatch' = Results!Drop(d) PROVE ResultsInv'
  <2>1. /\ dwatch' = [list |-> Results!Drop(d).list, at |-> None, delivered |-> FALSE]
        /\ Results!Drop(d).list \subseteq dwatch.list
    BY <1>4, Dropped
  <2>2. HandInv'
    BY <2>1 DEF HandInv
  <2>3. QED
    BY <1>1, <1>2, <1>3, <2>1, <2>2, WatchMoves
<1>5. CASE Results!Lists
  <2> DEFINE list == {<<d, rec[d]>> : d \in Delegations}
  <2>1. dwatch' = [list |-> list, at |-> None, delivered |-> FALSE]
    BY <1>5 DEF Results!Lists, Results!Idle
  <2>2. list \subseteq Delegations \X Results!Record
    BY DEF ResultsInv, Results!TypeOK
  <2>3. "remediation" \notin dfaults => \A entry \in list : entry[2].generation = 1
    BY DEF ResultsInv, RecordsInv
  <2>4. HandInv'
    BY <2>1 DEF HandInv
  <2> HIDE DEF list
  <2>5. QED
    BY <1>1, <2>1, <2>2, <2>3, <2>4, WatchMoves
<1>6. CASE Results!AlreadyDelivered
  <2>1. dwatch' = [list |-> dwatch.list, at |-> dwatch.at, delivered |-> TRUE] /\ dwatch.at # None
        /\ Results!Message(dwatch.at) \in cache
    BY <1>2, <1>6 DEF Results!AlreadyDelivered
  <2>2. dwatch'.list = dwatch.list /\ dwatch'.at = dwatch.at
    BY <2>1
  <2>3. HandInv'
    BY <1>1, <2>1, <2>2 DEF ResultsInv, HandInv, InHandListed, Results!HasResult, Results!Listed, Results!Message
  <2>4. QED
    BY <1>1, <1>2, <1>3, <2>1, <2>3, WatchMoves
<1>7. ASSUME NEW d \in Delegations, Results!Takes(d) PROVE ResultsInv'
  <2>1. /\ dwatch' = [list |-> dwatch.list, at |-> d, delivered |-> dwatch.delivered] /\ dwatch.at = None
        /\ \E entry \in dwatch.list : entry[1] = d
        /\ Results!HasResult(Results!Listed(d)) \/ Results!Message(d) \notin cache
    BY <1>2, <1>7 DEF Results!Takes
  <2>2. dwatch'.list = dwatch.list /\ dwatch'.at = d /\ dwatch'.delivered = FALSE /\ d # None
    BY <2>1 DEF ResultsInv, HandInv
  <2>3. HandInv'
    BY <1>1, <2>1, <2>2 DEF HandInv, InHandListed, Results!HasResult, Results!Listed, Results!Message
  <2>4. QED
    BY <1>1, <1>2, <1>3, <2>1, <2>3, WatchMoves
<1>8. ASSUME \/ Results!DeliveryFails \/ Results!ConsumeFails \/ \E d \in Delegations : Results!Passes(d)
      PROVE  \E d : dwatch' = Results!Drop(d)
  BY <1>8 DEF Results!DeliveryFails, Results!ConsumeFails, Results!Passes
<1>9. QED
  BY <1>4, <1>5, <1>6, <1>7, <1>8

\* What is shown was not in the memory of the process, so it was not shown to it.
LEMMA Shown ==
  ASSUME ResultsInv, Results!Delivers
  PROVE  ResultsInv'
<1> DEFINE m == Results!Message(dwatch.at)
<1>1. /\ m \in Results!Messages /\ m \notin cache /\ dwatch.at # None /\ dwatch.at \in Delegations
      /\ InHandListed
  BY Listing DEF Results!Delivers, InHandListed
<1>2. /\ shown \in [Results!Messages -> [now : 0..2, ever : BOOLEAN]] /\ shown[m].now = 0
      /\ cache' = cache \cup {m} /\ UNCHANGED <<dfaults, rec>>
  BY <1>1 DEF ResultsInv, Results!TypeOK, CacheInv, Results!Delivers
<1>3. /\ shown' \in [Results!Messages -> [now : 0..2, ever : BOOLEAN]]
      /\ shown'[m] = [now |-> 1, ever |-> TRUE]
      /\ \A k \in Results!Messages : k # m => shown'[k] = shown[k]
  BY <1>1, <1>2 DEF Results!Delivers, Results!Show
<1>4. CacheInv' /\ Results!ShownOnce'
  BY <1>2, <1>3 DEF ResultsInv, CacheInv, Results!ShownOnce, Results!Messages, Results!Generations
<1>5. Results!ConsumedWasShown'
  <2> SUFFICES ASSUME NEW d \in Delegations, "remediation" \notin dfaults, rec[d].consumer = Origin, Origin \notin Adopters
               PROVE  shown'[<<d, rec[d].generation, "result">>].ever
    BY <1>2 DEF Results!ConsumedWasShown
  <2>1. shown[<<d, rec[d].generation, "result">>].ever
    BY DEF ResultsInv, Results!ConsumedWasShown
  <2>2. <<d, rec[d].generation, "result">> \in Results!Messages
    BY DEF ResultsInv, Results!TypeOK, Results!Record, Results!Messages
  <2>3. QED
    BY <1>3, <2>1, <2>2
<1>6. /\ dwatch'.list \subseteq dwatch.list /\ dwatch'.delivered \in BOOLEAN /\ dwatch'.at \in Delegations \cup {None}
      /\ dwatch' = [list |-> dwatch'.list, at |-> dwatch'.at, delivered |-> dwatch'.delivered]
      /\ HandInv'
  <2>1. CASE Results!HasResult(Results!Listed(dwatch.at))
    <3>1. dwatch' = [list |-> dwatch.list, at |-> dwatch.at, delivered |-> TRUE]
      BY <2>1, WatchingResults DEF Results!Delivers
    <3>2. dwatch'.list = dwatch.list /\ dwatch'.at = dwatch.at
      BY <3>1
    <3>3. /\ Results!HasResult(Results!Listed(dwatch.at))' /\ InHandListed'
          /\ Results!Message(dwatch.at)' \in cache'
      BY <1>1, <1>2, <2>1, <3>2 DEF InHandListed, Results!HasResult, Results!Listed, Results!Message
    <3>4. QED
      BY <1>1, <3>1, <3>3, WatchingResults DEF HandInv
  <2>2. CASE ~Results!HasResult(Results!Listed(dwatch.at))
    <3>1. dwatch' = Results!Drop(dwatch.at)
      BY <2>2 DEF Results!Delivers
    <3>2. /\ dwatch' = [list |-> Results!Drop(dwatch.at).list, at |-> None, delivered |-> FALSE]
          /\ Results!Drop(dwatch.at).list \subseteq dwatch.list
      BY <3>1, Dropped
    <3>3. dwatch'.list \subseteq dwatch.list /\ dwatch'.at = None /\ dwatch'.delivered = FALSE
      BY <3>2
    <3>4. HandInv'
      BY <3>3 DEF HandInv
    <3>5. QED
      BY <3>2, <3>3, <3>4
  <2>3. QED
    BY <2>1, <2>2
<1>7. Results!TypeOK'
  <2>1. cache' \subseteq Results!Messages
    BY <1>1, <1>2 DEF ResultsInv, Results!TypeOK
  <2>2. dwatch' \in [list : SUBSET (Delegations \X Results!Record), at : Delegations \cup {None}, delivered : BOOLEAN]
    BY <1>6, WatchingResults
  <2>3. QED
    BY <1>2, <1>3, <2>1, <2>2 DEF ResultsInv, Results!TypeOK
<1>8. RecordsInv'
  BY <1>2, <1>6 DEF ResultsInv, RecordsInv
<1>9. QED
  BY <1>4, <1>5, <1>6, <1>7, <1>8 DEF ResultsInv

\* What is consumed on behalf of the origin was delivered, and the delegation has
\* only one generation of which a result can have been delivered.
LEMMA ConsumedShown ==
  ASSUME ResultsInv, Results!Consumes
  PROVE  ResultsInv'
<1> DEFINE d == dwatch.at
<1>1. /\ d \in Delegations /\ InHandListed /\ dwatch.delivered
      /\ Results!HasResult(Results!Listed(d)) /\ Results!Message(d) \in cache
  BY Listing DEF Results!Consumes, ResultsInv, HandInv, InHandListed
<1>2. /\ rec \in [Delegations -> Results!Record] /\ UNCHANGED <<dfaults, cache, shown>>
      /\ rec' = [rec EXCEPT ![d].consumer = Origin] /\ dwatch' = Results!Drop(d)
      /\ rec[d].state = "terminal" /\ rec[d].result
  BY DEF ResultsInv, Results!TypeOK, Results!Consumes, Results!Consumable
<1>3. /\ rec' \in [Delegations -> Results!Record]
      /\ \A e \in Delegations : /\ rec'[e].state = rec[e].state /\ rec'[e].result = rec[e].result
                                /\ rec'[e].generation = rec[e].generation
                                /\ e # d => rec'[e].consumer = rec[e].consumer
  BY <1>1, <1>2 DEF Results!Record
<1>4. /\ dwatch' = [list |-> Results!Drop(d).list, at |-> None, delivered |-> FALSE]
      /\ Results!Drop(d).list \subseteq dwatch.list
  BY <1>2, Dropped
<1> HIDE DEF d
<1>5. dwatch'.list = Results!Drop(d).list /\ dwatch'.at = None /\ dwatch'.delivered = FALSE
  BY <1>4
<1>6. Results!TypeOK'
  <2>1. dwatch' \in [list : SUBSET (Delegations \X Results!Record), at : Delegations \cup {None}, delivered : BOOLEAN]
    <3>1. Results!Drop(d).list \subseteq Delegations \X Results!Record
      BY <1>4, WatchingResults
    <3>2. QED
      BY <1>4, <3>1
  <2>2. \A e \in Delegations : rec'[e].consumer # None => rec'[e].result
    BY <1>2, <1>3 DEF ResultsInv, Results!TypeOK
  <2>3. QED
    BY <1>2, <1>3, <2>1, <2>2 DEF ResultsInv, Results!TypeOK
<1>7. RecordsInv' /\ HandInv'
  BY <1>2, <1>3, <1>4, <1>5 DEF ResultsInv, RecordsInv, HandInv
<1>8. CacheInv' /\ Results!ShownOnce'
  BY <1>2 DEF ResultsInv, CacheInv, Results!ShownOnce
<1>9. Results!ConsumedWasShown'
  <2> SUFFICES ASSUME NEW e \in Delegations, "remediation" \notin dfaults, rec'[e].consumer = Origin, Origin \notin Adopters
               PROVE  shown[<<e, rec[e].generation, "result">>].ever
    BY <1>2, <1>3 DEF Results!ConsumedWasShown
  <2>1. CASE e # d
    BY <1>3, <2>1 DEF ResultsInv, Results!ConsumedWasShown
  <2>2. CASE e = d
    <3>1. /\ Results!Listed(d).generation = 1 /\ rec[d].generation = 1
          /\ Results!Message(d) = <<d, Results!Listed(d).generation, "result">>
          /\ Results!Message(d) \in Results!Messages
      <4>1. rec[d].generation = 1
        BY <1>1 DEF ResultsInv, RecordsInv
      <4>2. d \in Delegations /\ \E entry \in dwatch.list : entry[1] = d
        BY <1>1 DEF d, InHandListed
      <4>3. QED
        BY <1>1, <4>1, <4>2, Listing
    <3>2. QED
      BY <1>1, <2>2, <3>1 DEF ResultsInv, CacheInv
  <2>3. QED
    BY <2>1, <2>2
<1>10. QED
  BY <1>6, <1>7, <1>8, <1>9 DEF ResultsInv

\* A new process has been shown nothing.
LEMMA Restarted ==
  ASSUME ResultsInv, Results!Restarts
  PROVE  ResultsInv'
<1>1. /\ dwatch' = [list |-> {}, at |-> None, delivered |-> FALSE] /\ cache' = {} /\ UNCHANGED <<dfaults, rec>>
      /\ shown' = [m \in Results!Messages |-> [now |-> 0, ever |-> shown[m].ever]]
  BY DEF Results!Restarts, Results!Idle
<1>2. shown' \in [Results!Messages -> [now : 0..2, ever : BOOLEAN]]
  BY <1>1 DEF ResultsInv, Results!TypeOK
<1>3. Results!TypeOK'
  BY <1>1, <1>2 DEF ResultsInv, Results!TypeOK
<1>4. RecordsInv' /\ HandInv'
  BY <1>1 DEF ResultsInv, RecordsInv, HandInv
<1>5. CacheInv' /\ Results!ShownOnce'
  BY <1>1 DEF CacheInv, Results!ShownOnce, Results!Messages, Results!Generations
<1>6. Results!ConsumedWasShown'
  <2>1. \A d \in Delegations : <<d, rec[d].generation, "result">> \in Results!Messages
    BY DEF ResultsInv, Results!TypeOK, Results!Record, Results!Messages
  <2>2. QED
    BY <1>1, <2>1 DEF ResultsInv, Results!ConsumedWasShown
<1>7. QED
  BY <1>3, <1>4, <1>5, <1>6 DEF ResultsInv

\* Every step of the watcher of delegations keeps its invariant.
LEMMA ResultsStep == ResultsInv /\ [Results!Next]_(Results!vars) => ResultsInv'
<1> SUFFICES ASSUME ResultsInv, [Results!Next]_(Results!vars) PROVE ResultsInv'
  OBVIOUS
<1>1. CASE Results!Poll
  BY <1>1, ListSteps, Shown, ConsumedShown DEF Results!Poll
<1>2. CASE Results!Restarts
  BY <1>2, Restarted
<1>3. ASSUME NEW d \in Delegations,
             \/ Results!HandsIn(d) \/ Results!StartFails(d) \/ Results!Remediates(d)
             \/ \E s \in Adopters : Results!Adopts(s, d)
      PROVE  ResultsInv'
  BY <1>3, StoreSteps
<1>4. CASE UNCHANGED Results!vars
  BY <1>4 DEF ResultsInv, Results!TypeOK, RecordsInv, HandInv, InHandListed, CacheInv, Results!ShownOnce,
              Results!ConsumedWasShown, Results!vars, Results!parts, Results!HasResult, Results!Listed, Results!Message
<1>5. QED
  BY <1>1, <1>2, <1>3, <1>4 DEF Results!Next

\* Consuming and adopting ask that nobody has the result, and a generation that has
\* one is terminal, so that no other step writes the consumer of it.
LEMMA OneWinner ==
  ASSUME ResultsInv, [Results!Next]_(Results!vars), NEW d \in Delegations,
         rec[d].consumer # None, rec'[d].generation = rec[d].generation
  PROVE  rec'[d].consumer = rec[d].consumer
<1>1. /\ rec \in [Delegations -> Results!Record] /\ rec[d] \in Results!Record
      /\ rec[d].result /\ rec[d].state = "terminal"
  BY DEF ResultsInv, Results!TypeOK, RecordsInv
<1>2. ASSUME NEW e \in Delegations, Results!HandsIn(e) PROVE rec'[d] = rec[d]
  BY <1>1, <1>2 DEF Results!HandsIn
<1>3. ASSUME NEW e \in Delegations, Results!StartFails(e) PROVE rec'[d] = rec[d]
  BY <1>1, <1>3 DEF Results!StartFails
<1>4. ASSUME NEW e \in Delegations, Results!Remediates(e) PROVE rec'[d] = rec[d]
  <2>1. CASE e = d
    <3>1. rec'[d] = [Results!NewRecord EXCEPT !.generation = rec[d].generation + 1]
      BY <1>1, <1>4, <2>1 DEF Results!Remediates
    <3>2. rec'[d].generation = rec[d].generation + 1 /\ rec[d].generation \in Nat
      BY <1>1, <3>1 DEF Results!NewRecord, Results!Record, Results!Generations
    <3>3. QED
      BY <3>2
  <2>2. CASE e # d
    BY <1>1, <1>4, <2>2 DEF Results!Remediates
  <2>3. QED
    BY <2>1, <2>2
<1>5. ASSUME NEW e \in Delegations, NEW s \in Adopters, Results!Adopts(s, e) PROVE rec'[d] = rec[d]
  BY <1>1, <1>5 DEF Results!Adopts, Results!Consumable
<1>6. CASE Results!Poll \/ Results!Restarts
  BY <1>1, <1>6 DEF Results!Poll, Results!Restarts, Results!Lists, Results!Delivers, Results!AlreadyDelivered,
       Results!DeliveryFails, Results!Consumes, Results!ConsumeFails, Results!Takes, Results!Passes, Results!Consumable
<1>7. CASE UNCHANGED Results!vars
  BY <1>7 DEF Results!vars, Results!parts
<1>8. QED
  BY <1>2, <1>3, <1>4, <1>5, <1>6, <1>7 DEF Results!Next

-----------------------------------------------------------------------------
(* The approvals.                                                           *)

\* The calls that have taken an approval of what d stands for, to start it.
Taking(d) == {c \in Calls : call[c].step \in {"execute", "start"} /\ Approving!Approval(c).digest = d}

OnOffer(d) == \E a \in approved : a.digest = d

\* A call that has begun carries an approval; one that executes a launch does so
\* in the session that prepared it.
CallsInv ==
  \A c \in Calls :
    /\ call[c].step # "idle" => Approving!Approval(c) \in Approving!Approvals
    /\ Approving!Executing(c) /\ Approving!Approval(c).digest.kind = "launch" =>
         call[c].session = Approving!Approval(c).origin

\* A launch that was put to the user is still on offer.  Each approval of a launch
\* is on offer, or taken, or was used, or is lost; never two of these.
Accounted(d) ==
  /\ d \in mutations => OnOffer(d)
  /\ IsFiniteSet(Taking(d))
  /\ started[d] + Cardinality(Taking(d)) + (IF OnOffer(d) THEN 1 ELSE 0) <= granted[d]

LaunchesInv == \A d \in Approving!Digests : d.kind = "launch" => Accounted(d)

\* Without overlaps only one call executes, ...
OneExecution == \A b, c \in Calls : Approving!Executing(b) /\ Approving!Executing(c) => b = c

\* ... so a delegation which that call found unconsumed still is, and a
\* delegation is started once.
DelegationsInv ==
  "overlap" \notin afaults =>
    /\ OneExecution
    /\ \A a \in approved : granted[a.digest] >= 1
    /\ \A c \in Calls : Approving!Executing(c) => granted[Approving!Approval(c).digest] >= 1
    /\ \A c \in Calls : call[c].step = "start" /\ Approving!Approval(c).digest.kind = "delegation" =>
                          Approving!Approval(c).digest \notin consumed
    /\ \A d \in Approving!Digests : d.kind = "delegation" =>
         IF d \in consumed THEN started[d] <= 1 /\ granted[d] >= 1 ELSE started[d] = 0

ApprovalInv == Approving!TypeOK /\ CallsInv /\ LaunchesInv /\ DelegationsInv

\* Nothing has been prepared, approved or started.
LEMMA ApprovalInit ==
  ASSUME Approving!ApprovalConstants, Approving!Init
  PROVE  ApprovalInv
<1>1. Approving!TypeOK
  BY DEF Approving!ApprovalConstants, Approving!Init, Approving!TypeOK, Approving!Sessions,
      Approving!Steps
<1>2. \A d \in Approving!Digests : Taking(d) = {} /\ ~OnOffer(d)
  BY DEF Approving!Init, Taking, OnOffer
<1>3. LaunchesInv
  <2>1. \A d \in Approving!Digests : IsFiniteSet(Taking(d)) /\ Cardinality(Taking(d)) = 0
    BY <1>2, FS_EmptySet
  <2>2. QED
    BY <1>2, <2>1 DEF Approving!Init, LaunchesInv, Accounted
<1>4. CallsInv /\ DelegationsInv
  BY DEF Approving!Init, CallsInv, DelegationsInv, OneExecution, Approving!Executing
<1>5. QED
  BY <1>1, <1>3, <1>4 DEF ApprovalInv

\* When one call moves, the takers of an approval change by that call at most.
LEMMA TakersCounted ==
  ASSUME NEW c \in Calls, NEW d, IsFiniteSet(Taking(d)),
         \A b \in Calls : b # c => call'[b] = call[b]
  PROVE  /\ Cardinality(Taking(d)) \in Nat /\ IsFiniteSet(Taking(d)')
         /\ (c \in Taking(d) <=> c \in Taking(d)') => Cardinality(Taking(d)') = Cardinality(Taking(d))
         /\ c \notin Taking(d) /\ c \in Taking(d)' => Cardinality(Taking(d)') = Cardinality(Taking(d)) + 1
         /\ c \in Taking(d) /\ c \notin Taking(d)' => Cardinality(Taking(d)') = Cardinality(Taking(d)) - 1
<1>1. IsFiniteSet(Taking(d)) /\ Cardinality(Taking(d)) \in Nat
  BY FS_CardinalityType
<1>2. \A b \in Calls : b # c => (b \in Taking(d) <=> b \in Taking(d)')
  BY DEF Taking, Approving!Approval
<1>3. Taking(d) \subseteq Calls /\ Taking(d)' \subseteq Calls
  BY DEF Taking
<1>4. CASE c \in Taking(d) <=> c \in Taking(d)'
  <2>1. \A b : b \in Taking(d)' <=> b \in Taking(d)
    BY <1>2, <1>3, <1>4
  <2>2. Taking(d)' = Taking(d)
    BY <2>1
  <2>3. QED
    BY <1>1, <1>4, <2>2
<1>5. CASE c \notin Taking(d) /\ c \in Taking(d)'
  <2>1. Taking(d)' = Taking(d) \cup {c}
    BY <1>2, <1>3, <1>5
  <2>2. QED
    BY <1>1, <1>5, <2>1, FS_CardinalityType, FS_AddElement
<1>6. CASE c \in Taking(d) /\ c \notin Taking(d)'
  <2>1. Taking(d)' = Taking(d) \ {c}
    BY <1>2, <1>3, <1>6
  <2>2. QED
    BY <1>1, <1>6, <2>1, FS_CardinalityType, FS_RemoveElement
<1>7. QED
  BY <1>4, <1>5, <1>6

\* The types are preserved by every step.
LEMMA TypesKept ==
  ASSUME Approving!ApprovalConstants, Approving!TypeOK, CallsInv, [Approving!Next]_(Approving!vars)
  PROVE  Approving!TypeOK'
<1> USE DEF Approving!TypeOK, Approving!Steps
<1>1. CASE Approving!WorldChanges
  BY <1>1 DEF Approving!WorldChanges
<1>2. CASE Approving!NextSession
  BY <1>2 DEF Approving!NextSession, Approving!Sessions, Approving!ApprovalConstants
<1>3. ASSUME NEW c \in Calls, Approving!Prepares(c) PROVE Approving!TypeOK'
  <2>1. PICK kind \in Kinds :
          call' = [call EXCEPT ![c] = [step |-> "approve", session |-> session,
            approval |-> [digest |-> Approving!Digest(kind, world, session), origin |-> session]]]
    BY <1>3 DEF Approving!Prepares
  <2>2. Approving!Digest(kind, world, session) \in Approving!Digests
    BY DEF Approving!Digest, Approving!Digests
  <2>3. [digest |-> Approving!Digest(kind, world, session), origin |-> session] \in Approving!Approvals
    BY <2>2 DEF Approving!Approvals
  <2>4. QED
    BY <1>3, <2>1, <2>3 DEF Approving!Prepares
<1>4. ASSUME NEW c \in Calls, Approving!Approves(c) PROVE Approving!TypeOK'
  <2>1. Approving!Approval(c) \in Approving!Approvals /\ Approving!Approval(c).digest \in Approving!Digests
    BY <1>4 DEF Approving!Approves, Approving!Goes, CallsInv, Approving!Approvals
  <2>2. granted' \in [Approving!Digests -> Nat]
    BY <1>4, <2>1 DEF Approving!Approves
  <2>3. QED
    BY <1>4, <2>1, <2>2 DEF Approving!Approves, Approving!Goes
<1>5. ASSUME NEW c \in Calls, Approving!Executes(c) PROVE Approving!TypeOK'
  <2>1. PICK a \in approved :
          /\ call' = [call EXCEPT ![c] = [step |-> "confirm", session |-> session, approval |-> a]]
          /\ mutations' = mutations \cup {a.digest}
    BY <1>5 DEF Approving!Executes
  <2>2. a \in Approving!Approvals /\ a.digest \in Approving!Digests
    BY DEF Approving!Approvals
  <2>3. QED
    BY <1>5, <2>1, <2>2 DEF Approving!Executes
<1>6. ASSUME NEW c \in Calls, Approving!Confirms(c) PROVE Approving!TypeOK'
  BY <1>6 DEF Approving!Confirms, Approving!Goes
<1>7. ASSUME NEW c \in Calls,
             \/ Approving!Declines(c) \/ Approving!Fresh(c) \/ Approving!GivesUp(c) \/ Approving!NotFound(c)
      PROVE  Approving!TypeOK'
  BY <1>7 DEF Approving!Declines, Approving!Fresh, Approving!GivesUp, Approving!NotFound, Approving!Goes
<1>8. ASSUME NEW c \in Calls, Approving!Starts(c) PROVE Approving!TypeOK'
  <2>1. Approving!Approval(c).digest \in Approving!Digests
    BY <1>8 DEF Approving!Starts, Approving!Goes, CallsInv, Approving!Approvals
  <2>2. started' \in [Approving!Digests -> Nat] /\ consumed' \subseteq Approving!Digests /\ approved' \subseteq approved
    BY <1>8, <2>1 DEF Approving!Starts
  <2>3. QED
    BY <1>8, <2>2 DEF Approving!Starts, Approving!Goes
<1>9. CASE UNCHANGED Approving!vars
  BY <1>9 DEF Approving!vars, Approving!parts
<1>10. QED
  BY <1>1, <1>2, <1>3, <1>4, <1>5, <1>6, <1>7, <1>8, <1>9 DEF Approving!Next

\* A call carries what it has been given, and executes a launch where it was
\* prepared.
LEMMA CallsKept ==
  ASSUME ApprovalInv, Approving!TypeOK', [Approving!Next]_(Approving!vars)
  PROVE  CallsInv'
<1> USE DEF ApprovalInv, Approving!TypeOK, CallsInv, Approving!Approval, Approving!Executing
<1>1. CASE Approving!WorldChanges \/ Approving!NextSession \/ UNCHANGED Approving!vars
  BY <1>1 DEF Approving!WorldChanges, Approving!NextSession, Approving!vars, Approving!parts
<1>2. ASSUME NEW c \in Calls, Approving!Prepares(c) PROVE CallsInv'
  <2>1. call'[c] \in [step : Approving!Steps, session : Approving!Sessions,
                     approval : Approving!Approvals \cup {None}]
    OBVIOUS
  <2>2. PICK kind \in Kinds :
          call' = [call EXCEPT ![c] = [step |-> "approve", session |-> session,
            approval |-> [digest |-> Approving!Digest(kind, world, session), origin |-> session]]]
    BY <1>2 DEF Approving!Prepares
  <2>3. [digest |-> Approving!Digest(kind, world, session), origin |-> session] \in Approving!Approvals
    BY DEF Approving!Digest, Approving!Digests, Approving!Approvals
  <2>4. QED
    BY <2>2, <2>3
<1>3. ASSUME NEW c \in Calls, Approving!Executes(c) PROVE CallsInv'
  <2>1. PICK a \in approved :
          /\ Approving!MayExecute(a)
          /\ call' = [call EXCEPT ![c] = [step |-> "confirm", session |-> session, approval |-> a]]
    BY <1>3 DEF Approving!Executes
  <2>2. QED
    BY <2>1 DEF Approving!MayExecute
<1>4. ASSUME NEW c \in Calls,
             \/ Approving!Approves(c) \/ Approving!Confirms(c) \/ Approving!Declines(c) \/ Approving!Fresh(c)
             \/ Approving!Starts(c) \/ Approving!GivesUp(c) \/ Approving!NotFound(c)
      PROVE  CallsInv'
  <2>1. /\ call[c].step # "idle" /\ \A b \in Calls : b # c => call'[b] = call[b]
        /\ call'[c].approval = call[c].approval /\ call'[c].session = call[c].session
        /\ call'[c].step \in {"execute", "start"} => call[c].step \in {"confirm", "execute"}
        /\ call'[c].step # "confirm"
    BY <1>4 DEF Approving!Approves, Approving!Confirms, Approving!Declines, Approving!Fresh,
        Approving!Starts, Approving!GivesUp, Approving!NotFound, Approving!Goes
  <2>2. QED
    BY <2>1
<1>5. QED
  BY <1>1, <1>2, <1>3, <1>4 DEF Approving!Next

\* No step makes two starts of one approval of a launch.
LEMMA LaunchesKept ==
  ASSUME ApprovalInv, Approving!TypeOK', [Approving!Next]_(Approving!vars)
  PROVE  LaunchesInv'
<1> SUFFICES ASSUME NEW d \in Approving!Digests, d.kind = "launch"
             PROVE  Accounted(d)'
  BY DEF LaunchesInv
<1>0. /\ started[d] \in Nat /\ granted[d] \in Nat
      /\ Accounted(d)
      /\ \A c \in Calls :
           call[c] \in [step : Approving!Steps, session : Approving!Sessions,
                       approval : Approving!Approvals \cup {None}]
  BY DEF ApprovalInv, Approving!TypeOK, LaunchesInv
<1>1. CASE Approving!WorldChanges \/ UNCHANGED Approving!vars
  <2>1. UNCHANGED <<call, approved, mutations, granted, started>>
    BY <1>1 DEF Approving!WorldChanges, Approving!vars, Approving!parts
  <2>2. Taking(d)' = Taking(d) /\ OnOffer(d)' = OnOffer(d)
    BY <2>1 DEF Taking, OnOffer, Approving!Approval
  <2>3. QED
    BY <1>0, <2>1, <2>2 DEF Accounted
<1>2. CASE Approving!NextSession
  <2>1. UNCHANGED <<call, granted, started>> /\ mutations' = {} /\ approved' = {}
    BY <1>2 DEF Approving!NextSession
  <2>2. Taking(d)' = Taking(d) /\ ~OnOffer(d)'
    BY <2>1 DEF Taking, OnOffer, Approving!Approval
  <2>3. Cardinality(Taking(d)) \in Nat
    BY <1>0, FS_CardinalityType DEF Accounted
  <2>4. QED
    BY <1>0, <2>1, <2>2, <2>3 DEF Accounted
<1>3. ASSUME NEW c \in Calls, Approving!Prepares(c)
      PROVE  Accounted(d)'
  <2>1. /\ UNCHANGED <<approved, mutations, granted, started>> /\ \A b \in Calls : b # c => call'[b] = call[b]
        /\ call[c].step = "idle" /\ call'[c].step = "approve"
    BY <1>0, <1>3 DEF Approving!Prepares, ApprovalInv, Approving!TypeOK
  <2>2. c \notin Taking(d) /\ c \notin Taking(d)' /\ OnOffer(d)' = OnOffer(d)
    BY <2>1 DEF Taking, OnOffer
  <2>3. QED
    BY <1>0, <2>1, <2>2, TakersCounted DEF Accounted
<1>4. ASSUME NEW c \in Calls, Approving!Approves(c)
      PROVE  Accounted(d)'
  <2>1. /\ UNCHANGED <<mutations, started>> /\ \A b \in Calls : b # c => call'[b] = call[b]
        /\ call[c].step = "approve" /\ call'[c].step = "done"
        /\ approved' = {a \in approved : a.digest # Approving!Approval(c).digest} \cup {Approving!Approval(c)}
    BY <1>0, <1>4 DEF Approving!Approves, Approving!Goes, ApprovalInv, Approving!TypeOK
  <2>2. c \notin Taking(d) /\ c \notin Taking(d)'
    BY <2>1 DEF Taking
  <2>3. CASE d = Approving!Approval(c).digest
    <3>1. granted'[d] = granted[d] + 1
      BY <1>4, <2>3 DEF Approving!Approves, ApprovalInv, Approving!TypeOK
    <3>2. OnOffer(d)'
      BY <2>1, <2>3 DEF OnOffer
    <3>3. QED
      BY <1>0, <2>1, <2>2, <3>1, <3>2, TakersCounted DEF Accounted
  <2>4. CASE d # Approving!Approval(c).digest
    <3>1. granted'[d] = granted[d]
      BY <1>4, <2>4 DEF Approving!Approves, ApprovalInv, Approving!TypeOK
    <3>2. OnOffer(d)' <=> OnOffer(d)
      BY <2>1, <2>4 DEF OnOffer
    <3>3. QED
      BY <1>0, <2>1, <2>2, <3>1, <3>2, TakersCounted DEF Accounted
  <2>5. QED
    BY <2>3, <2>4
<1>5. ASSUME NEW c \in Calls, Approving!Executes(c)
      PROVE  Accounted(d)'
  <2>1. PICK a \in approved :
          /\ call' = [call EXCEPT ![c] = [step |-> "confirm", session |-> session, approval |-> a]]
          /\ mutations' = mutations \cup {a.digest}
    BY <1>5 DEF Approving!Executes
  <2>2. /\ UNCHANGED <<approved, granted, started>> /\ \A b \in Calls : b # c => call'[b] = call[b]
        /\ call[c].step = "idle" /\ call'[c].step = "confirm"
    BY <1>0, <1>5, <2>1 DEF Approving!Executes, ApprovalInv, Approving!TypeOK
  <2>3. /\ c \notin Taking(d) /\ c \notin Taking(d)' /\ OnOffer(d)' = OnOffer(d)
        /\ d \in mutations' => d \in mutations \/ OnOffer(d)
    BY <2>1, <2>2 DEF Taking, OnOffer
  <2>4. QED
    BY <1>0, <2>2, <2>3, TakersCounted DEF Accounted
<1>6. ASSUME NEW c \in Calls, Approving!Confirms(c)
      PROVE  Accounted(d)'
  <2>1. /\ UNCHANGED <<granted, started>> /\ \A b \in Calls : b # c => call'[b] = call[b]
        /\ call[c].step = "confirm" /\ call'[c].step = "execute" /\ call'[c].approval = call[c].approval
        /\ Approving!Approval(c).digest \in mutations /\ mutations' = mutations \ {Approving!Approval(c).digest}
    BY <1>0, <1>6 DEF Approving!Confirms, Approving!Goes, ApprovalInv, Approving!TypeOK
  <2>2. c \notin Taking(d)
    BY <2>1 DEF Taking
  <2>3. CASE d = Approving!Approval(c).digest
    <3>1. OnOffer(d) /\ c \in Taking(d)'
      BY <1>0, <2>1, <2>3 DEF Accounted, Taking, Approving!Approval
    <3>2. ~OnOffer(d)' /\ d \notin mutations'
      BY <1>6, <2>1, <2>3 DEF Approving!Confirms, OnOffer
    <3>3. QED
      BY <1>0, <2>1, <2>2, <3>1, <3>2, TakersCounted DEF Accounted
  <2>4. CASE d # Approving!Approval(c).digest
    <3>1. c \notin Taking(d)'
      BY <2>1, <2>4 DEF Taking, Approving!Approval
    <3>2. OnOffer(d)' <=> OnOffer(d)
      BY <1>6, <2>4 DEF Approving!Confirms, OnOffer
    <3>3. QED
      BY <1>0, <2>1, <2>2, <3>1, <3>2, TakersCounted DEF Accounted
  <2>5. QED
    BY <2>3, <2>4
<1>7. ASSUME NEW c \in Calls,
             \/ Approving!Declines(c) \/ Approving!Fresh(c) \/ Approving!GivesUp(c) \/ Approving!NotFound(c)
      PROVE  Accounted(d)'
  <2>1. /\ UNCHANGED <<approved, granted, started>> /\ \A b \in Calls : b # c => call'[b] = call[b]
        /\ call'[c].approval = call[c].approval /\ mutations' \subseteq mutations
        /\ call'[c].step \in {"execute", "start"} => call[c].step \in {"execute", "start"}
    BY <1>0, <1>7 DEF Approving!Declines, Approving!Fresh, Approving!GivesUp, Approving!NotFound,
        Approving!Goes, ApprovalInv, Approving!TypeOK
  <2>2. OnOffer(d)' = OnOffer(d) /\ (c \in Taking(d)' => c \in Taking(d))
    BY <2>1 DEF OnOffer, Taking, Approving!Approval
  <2>3. CASE c \in Taking(d) <=> c \in Taking(d)'
    BY <1>0, <2>1, <2>2, <2>3, TakersCounted DEF Accounted
  <2>4. CASE c \in Taking(d) /\ c \notin Taking(d)'
    BY <1>0, <2>1, <2>2, <2>4, TakersCounted DEF Accounted
  <2>5. QED
    BY <2>2, <2>3, <2>4
<1>8. ASSUME NEW c \in Calls, Approving!Starts(c)
      PROVE  Accounted(d)'
  <2>1. /\ UNCHANGED <<mutations, granted>> /\ \A b \in Calls : b # c => call'[b] = call[b]
        /\ call[c].step = "start" /\ call'[c].step = "done"
    BY <1>0, <1>8 DEF Approving!Starts, Approving!Goes, ApprovalInv, Approving!TypeOK
  <2>2. c \notin Taking(d)'
    BY <2>1 DEF Taking
  <2>3. OnOffer(d)' <=> OnOffer(d)
    BY <1>8 DEF Approving!Starts, OnOffer
  <2>4. CASE d = Approving!Approval(c).digest
    <3>1. started'[d] = started[d] + 1
      BY <1>8, <2>4 DEF Approving!Starts, ApprovalInv, Approving!TypeOK
    <3>2. c \in Taking(d)
      BY <2>1, <2>4 DEF Taking
    <3>3. QED
      BY <1>0, <2>1, <2>2, <2>3, <3>1, <3>2, TakersCounted DEF Accounted
  <2>5. CASE d # Approving!Approval(c).digest
    <3>1. started'[d] = started[d]
      BY <1>8, <2>5 DEF Approving!Starts, ApprovalInv, Approving!TypeOK
    <3>2. c \notin Taking(d)
      BY <2>5 DEF Taking
    <3>3. QED
      BY <1>0, <2>1, <2>2, <2>3, <3>1, <3>2, TakersCounted DEF Accounted
  <2>6. QED
    BY <2>4, <2>5
<1>9. QED
  BY <1>1, <1>2, <1>3, <1>4, <1>5, <1>6, <1>7, <1>8 DEF Approving!Next

\* The one call that executes is not overtaken between its look at the consumed
\* digests and its own claim.
LEMMA DelegationsKept ==
  ASSUME ApprovalInv, Approving!TypeOK', [Approving!Next]_(Approving!vars)
  PROVE  DelegationsInv'
<1> SUFFICES ASSUME "overlap" \notin afaults
             PROVE  DelegationsInv'
  <2>1. afaults' = afaults
    BY DEF Approving!Next, Approving!vars, Approving!WorldChanges, Approving!NextSession,
        Approving!Prepares, Approving!Approves, Approving!Executes, Approving!Confirms,
        Approving!Declines,
       Approving!Fresh, Approving!Starts, Approving!GivesUp, Approving!NotFound
  <2>2. QED
    BY <2>1 DEF DelegationsInv
<1> USE DEF ApprovalInv, Approving!TypeOK, DelegationsInv, OneExecution, Approving!Executing, Approving!Approval
<1>1. CASE Approving!WorldChanges \/ Approving!NextSession \/ UNCHANGED Approving!vars
  BY <1>1 DEF Approving!WorldChanges, Approving!NextSession, Approving!vars, Approving!parts
<1>2. ASSUME NEW c \in Calls, Approving!Prepares(c) PROVE DelegationsInv'
  <2>1. /\ UNCHANGED <<approved, granted, started, consumed>>
        /\ \A b \in Calls : b # c => call'[b] = call[b]
        /\ call'[c].step = "approve"
    BY <1>2 DEF Approving!Prepares
  <2>2. QED
    BY <2>1
<1>3. ASSUME NEW c \in Calls, Approving!Approves(c) PROVE DelegationsInv'
  <2>1. /\ UNCHANGED <<started, consumed>>
        /\ \A b \in Calls : b # c => call'[b] = call[b]
        /\ call'[c].step = "done" /\ call[c].step = "approve"
        /\ approved' \subseteq approved \cup {Approving!Approval(c)}
    BY <1>3 DEF Approving!Approves, Approving!Goes
  <2>2. Approving!Approval(c).digest \in Approving!Digests
    BY <2>1 DEF CallsInv, Approving!Approvals
  <2>3. /\ granted'[Approving!Approval(c).digest] >= 1
        /\ \A d \in Approving!Digests : granted'[d] >= granted[d] /\ granted[d] \in Nat /\ granted'[d] \in Nat
    <3>1. granted' = [granted EXCEPT ![Approving!Approval(c).digest] = @ + 1]
      BY <1>3 DEF Approving!Approves
    <3>2. QED
      BY <2>2, <3>1
  <2>4. \A a \in approved : a.digest \in Approving!Digests
    BY DEF Approving!Approvals
  <2>5. \A b \in Calls : Approving!Executing(b) => Approving!Approval(b).digest \in Approving!Digests
    BY DEF CallsInv, Approving!Approvals
  <2>6. \A b \in Calls : Approving!Executing(b)' => Approving!Executing(b) /\ b # c /\ call'[b] = call[b]
    BY <2>1
  <2>7. \A a \in approved' : granted'[a.digest] >= 1
    <3>1. \A a \in approved : granted[a.digest] >= 1
      OBVIOUS
    <3>2. QED
      BY <2>1, <2>3, <2>4, <3>1
  <2>8. \A b \in Calls : Approving!Executing(b)' => granted'[Approving!Approval(b)'.digest] >= 1
    <3>1. \A b \in Calls : Approving!Executing(b) => granted[Approving!Approval(b).digest] >= 1
      OBVIOUS
    <3>2. QED
      BY <2>3, <2>5, <2>6, <3>1
  <2>9. \A b \in Calls : call'[b].step = "start" /\ Approving!Approval(b)'.digest.kind = "delegation" =>
          Approving!Approval(b)'.digest \notin consumed'
    BY <2>1, <2>6
  <2>10. \A d \in Approving!Digests : d.kind = "delegation" =>
           IF d \in consumed' THEN started'[d] <= 1 /\ granted'[d] >= 1 ELSE started'[d] = 0
    BY <2>1, <2>3
  <2>11. OneExecution'
    BY <2>6
  <2>12. QED
    BY <2>7, <2>8, <2>9, <2>10, <2>11
<1>4. ASSUME NEW c \in Calls, Approving!Executes(c) PROVE DelegationsInv'
  <2>1. PICK a \in approved : call' = [call EXCEPT ![c] = [step |-> "confirm", session |-> session, approval |-> a]]
    BY <1>4 DEF Approving!Executes
  <2>2. /\ UNCHANGED <<approved, granted, started, consumed>>
        /\ \A b \in Calls : b # c => call'[b] = call[b]
        /\ call'[c].step = "confirm" /\ call'[c].approval = a
        /\ \A b \in Calls : ~Approving!Executing(b)
    BY <1>4, <2>1 DEF Approving!Executes
  <2>3. QED
    BY <2>2
<1>5. ASSUME NEW c \in Calls, Approving!Confirms(c) PROVE DelegationsInv'
  <2>1. /\ UNCHANGED <<granted, started, consumed>> /\ approved' \subseteq approved
        /\ \A b \in Calls : b # c => call'[b] = call[b]
        /\ call[c].step = "confirm" /\ call'[c].step = "execute" /\ call'[c].approval = call[c].approval
    BY <1>5 DEF Approving!Confirms, Approving!Goes
  <2>2. QED
    BY <2>1
<1>6. ASSUME NEW c \in Calls, Approving!Declines(c) \/ Approving!GivesUp(c) \/ Approving!NotFound(c)
      PROVE  DelegationsInv'
  <2>1. /\ UNCHANGED <<approved, granted, started, consumed>>
        /\ \A b \in Calls : b # c => call'[b] = call[b]
        /\ call'[c].step = "done"
    BY <1>6 DEF Approving!Declines, Approving!GivesUp, Approving!NotFound, Approving!Goes
  <2>2. QED
    BY <2>1
<1>7. ASSUME NEW c \in Calls, Approving!Fresh(c) PROVE DelegationsInv'
  <2>1. /\ UNCHANGED <<approved, granted, started, consumed>>
        /\ \A b \in Calls : b # c => call'[b] = call[b]
        /\ call[c].step = "execute" /\ call'[c].step = "start" /\ call'[c].approval = call[c].approval
        /\ Approving!Approval(c).digest.kind = "delegation" => Approving!Approval(c).digest \notin consumed
    BY <1>7 DEF Approving!Fresh, Approving!Goes
  <2>2. QED
    BY <2>1
<1>8. ASSUME NEW c \in Calls, Approving!Starts(c) PROVE DelegationsInv'
  <2>1. /\ UNCHANGED granted /\ approved' \subseteq approved
        /\ \A b \in Calls : b # c => call'[b] = call[b]
        /\ call[c].step = "start" /\ call'[c].step = "done"
        /\ consumed' = IF Approving!Approval(c).digest.kind = "delegation"
                       THEN consumed \cup {Approving!Approval(c).digest} ELSE consumed
    BY <1>8 DEF Approving!Starts, Approving!Goes
  <2>2. Approving!Approval(c).digest \in Approving!Digests /\ granted[Approving!Approval(c).digest] >= 1
    BY <2>1 DEF CallsInv, Approving!Approvals
  <2>3. \A d \in Approving!Digests :
          started'[d] = IF d = Approving!Approval(c).digest THEN started[d] + 1 ELSE started[d]
    BY <1>8 DEF Approving!Starts
  <2>4. \A b \in Calls : b # c => ~Approving!Executing(b)
    BY <2>1
  <2>5. \A b \in Calls : ~Approving!Executing(b)'
    BY <2>1, <2>4
  <2>6. \A d \in Approving!Digests : d.kind = "delegation" =>
          IF d \in consumed' THEN started'[d] <= 1 /\ granted'[d] >= 1 ELSE started'[d] = 0
    <3>1. ASSUME NEW d \in Approving!Digests, d.kind = "delegation", d = Approving!Approval(c).digest
          PROVE  d \in consumed' /\ started'[d] = 1 /\ granted'[d] >= 1
      BY <2>1, <2>2, <2>3, <3>1
    <3>2. ASSUME NEW d \in Approving!Digests, d # Approving!Approval(c).digest
          PROVE  (d \in consumed' <=> d \in consumed) /\ started'[d] = started[d] /\ granted'[d] = granted[d]
      BY <2>1, <2>3, <3>2
    <3>3. QED
      BY <3>1, <3>2
  <2>7. QED
    BY <2>1, <2>5, <2>6
<1>9. QED
  BY <1>1, <1>2, <1>3, <1>4, <1>5, <1>6, <1>7, <1>8 DEF Approving!Next

\* Every step of the approvals keeps their invariant.
LEMMA ApprovalsStep ==
  ASSUME Approving!ApprovalConstants
  PROVE  ApprovalInv /\ [Approving!Next]_(Approving!vars) => ApprovalInv'
<1>1. ApprovalInv /\ [Approving!Next]_(Approving!vars) => Approving!TypeOK'
  BY TypesKept DEF ApprovalInv
<1>2. QED
  BY <1>1, CallsKept, LaunchesKept, DelegationsKept DEF ApprovalInv

\* In the states of the invariant an approval is good for one start, of a launch in
\* the session that prepared it.
LEMMA Spent ==
  ASSUME Approving!ApprovalConstants, ApprovalInv
  PROVE  ApprovalsAreSpent
<1>1. Approving!OneStartPerApproval
  <2> SUFFICES ASSUME NEW d \in Approving!Digests, d.kind = "delegation" => "overlap" \notin afaults
               PROVE  started[d] <= granted[d]
    BY DEF Approving!OneStartPerApproval
  <2>1. started[d] \in Nat /\ granted[d] \in Nat
    BY DEF ApprovalInv, Approving!TypeOK
  <2>2. CASE d.kind = "delegation"
    BY <2>1, <2>2 DEF ApprovalInv, DelegationsInv
  <2>3. CASE d.kind # "delegation"
    <3>1. Accounted(d)
      BY <2>3 DEF Approving!ApprovalConstants, Approving!Digests, ApprovalInv, LaunchesInv
    <3>2. Cardinality(Taking(d)) \in Nat
      BY <3>1, FS_CardinalityType DEF Accounted
    <3>3. QED
      BY <2>1, <3>1, <3>2 DEF Accounted
  <2>4. QED
    BY <2>2, <2>3
<1>2. Approving!StartsInItsSession
  BY DEF ApprovalInv, CallsInv, Approving!Executing, Approving!StartsInItsSession
<1>3. QED
  BY <1>1, <1>2 DEF ApprovalInv, ApprovalsAreSpent

-----------------------------------------------------------------------------
(* The coordinator                                                          *)

SumInv == WorkersInv /\ ResultsInv /\ ApprovalInv

\* A step of the sum is a step of one part, and the others stay as they were.
LEMMA StepOfEach ==
  ASSUME [SumNext]_sumVars
  PROVE  [Next]_vars /\ [Results!Next]_(Results!vars) /\ [Approving!Next]_(Approving!vars)
<1>1. CASE Workers /\ Next
  BY <1>1 DEF Workers, resultVars, approvalVars, Results!vars, Results!parts, Approving!vars, Approving!parts
<1>2. CASE Delegated /\ Results!Next
  BY <1>2 DEF Delegated, approvalVars, Approving!vars, Approving!parts
<1>3. CASE Approving!Next /\ Tools
  BY <1>3 DEF Tools, resultVars, Results!vars, Results!parts
<1>4. CASE UNCHANGED sumVars
  BY <1>4 DEF sumVars, resultVars, approvalVars, Results!vars, Results!parts, Approving!vars, Approving!parts
<1>5. QED
  BY <1>1, <1>2, <1>3, <1>4 DEF SumNext

\* The invariant of each part holds in every behaviour of the sum.
THEOREM Invariance == SumSpec => []SumInv
<1>1. SumInit => SumInv
  BY WorkersInit, ResultsInit, ApprovalInit, CoordinatorConstants DEF SumInit, SumInv
<1>2. SumInv /\ [SumNext]_sumVars => SumInv'
  BY StepOfEach, WorkersStep, ResultsStep, ApprovalsStep, CoordinatorConstants DEF SumInv
<1>3. QED
  BY <1>1, <1>2, PTL DEF SumSpec

\* Nobody is told twice: of a generation of a worker's run in a session, of a
\* delegation's result or failed start in a process.
THEOREM ToldOnlyOnce == SumSpec => []NothingTwice
<1>1. SumInv => NothingTwice
  BY DEF SumInv, WorkersInv, ResultsInv, NothingTwice
<1>2. QED
  BY <1>1, Invariance, PTL

\* What the cursor of the bus has passed was told, is in hand or was given up, and
\* a result that was taken for its origin was shown there.
THEOREM NoneForgotten == SumSpec => []NothingLost
<1>1. SumInv => NothingLost
  BY DEF SumInv, WorkersInv, ResultsInv, NothingLost
<1>2. QED
  BY <1>1, Invariance, PTL

\* Nobody takes a result that somebody else has taken.
THEOREM TakenByOne == SumSpec => TakenOnce
<1> DEFINE Kept ==
      \A d \in Delegations :
        rec[d].consumer # None /\ rec'[d].generation = rec[d].generation => rec'[d].consumer = rec[d].consumer
<1>1. SumInv /\ [SumNext]_sumVars => [Kept]_(Results!vars)
  BY StepOfEach, OneWinner DEF SumInv
<1>2. QED
  BY <1>1, Invariance, PTL DEF SumSpec, TakenOnce, Results!TakenOnce

\* What was approved once is started once: a launch also when its executions
\* overlap, a delegation when they do not; and a launch in the session that
\* prepared it, even if its preview was approved after that session had ended.
THEOREM ApprovedOnce == SumSpec => []ApprovalsAreSpent
<1>1. SumInv => ApprovalsAreSpent
  BY Spent, CoordinatorConstants DEF SumInv
<1>2. QED
  BY <1>1, Invariance, PTL
=============================================================================
