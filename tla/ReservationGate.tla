--------------------------- MODULE ReservationGate ---------------------------
(***************************************************************************)
(* The per-project reservation store of delegation-reservations.js.  A     *)
(* lease is a file; reserve counts the active leases and writes one more,  *)
(* release and releaseForDelegation mark some released.  All of it happens *)
(* under a gate, the second mkdir mutex of the control plane, which        *)
(* differs from the run lock in three ways that matter:                    *)
(*   - the marker has one fixed name, owner.json, whoever owns the gate;   *)
(*   - it is written to a temporary file in the gate directory first;      *)
(*   - release compares the marker's token but not the directory, and a    *)
(*     failed acquisition is not cleaned up.                               *)
(***************************************************************************)
EXTENDS Naturals, FiniteSets

CONSTANTS Procs, Provable, Removers, Inodes, NoDir, None,
  Marker,        \* the name owner.json
  Delegations,
  Resources,
  ResourcesOf,   \* reservationResourceList, per delegation
  Capacity,      \* the delegation policy, per resource
  MaxOps         \* bound: gate acquisitions of one process

VARIABLES dir, dead, removal,
  pc,      \* the step a process is at
  op,      \* the operation it is performing
  count,   \* acquisitions it has made: with its name, the owner token
  leases,  \* the active leases
  seen     \* the active leases as the process read them

\* A process's temporary file is an entry under its own name.
INSTANCE OwnedMutex WITH MarkerNames <- {Marker}, OtherNames <- Procs

ASSUME ConstantsOK ==
  /\ Provable \subseteq Procs
  /\ Marker \notin Procs
  /\ None \notin Inodes \cup Token \cup {Marker}
  /\ NoDir \notin Directory
  /\ ResourcesOf \in [Delegations -> SUBSET Resources]
  /\ Capacity \in [Resources -> Nat]
  /\ MaxOps \in Nat

procVars == <<pc, op, count, leases, seen>>
vars == <<dir, dead, removal, pc, op, count, leases, seen>>

Lease == [id : Token, delegation : Delegations]

Idle == [kind |-> "none"]
Reserve(d) == [kind |-> "reserve", delegation |-> d]
ReleaseOne(l) == [kind |-> "release", lease |-> l]
ReleaseFor(d) == [kind |-> "releaseFor", delegation |-> d]

Op == [kind : {"none"}]
      \cup [kind : {"reserve", "releaseFor"}, delegation : Delegations]
      \cup [kind : {"release"}, lease : Lease]

\* Mutation of Mine: one token per process.
MineByProcess(p) == <<p>>

Mine(p) == <<p, count[p]>>

Body == {"list", "act"}
Holding == {"open", "rename", "releaseRead", "releaseUnlink", "releaseRmdir"} \cup Body

TypeOK ==
  /\ MutexTypeOK
  /\ pc \in [Procs -> Holding \cup {"idle", "mkdir", "exited"}]
  /\ op \in [Procs -> Op]
  /\ count \in [Procs -> Nat]
  /\ leases \in SUBSET Lease
  /\ seen \in [Procs -> SUBSET Lease]

Init ==
  /\ MutexInit
  /\ pc = [p \in Procs |-> "idle"]
  /\ op = [p \in Procs |-> Idle]
  /\ count = [p \in Procs |-> 0]
  /\ leases = {}
  /\ seen = [p \in Procs |-> {}]

Move(p, from, to) == pc[p] = from /\ pc' = [pc EXCEPT ![p] = to]

-----------------------------------------------------------------------------
(* acquireGate                                                             *)

\* reserve, release of a lease the caller knows, or releaseForDelegation.
Begin(p) ==
  /\ count[p] < MaxOps
  /\ Move(p, "idle", "mkdir")
  /\ \E o \in {Reserve(d) : d \in Delegations} \cup {ReleaseFor(d) : d \in Delegations}
              \cup {ReleaseOne(l) : l \in leases} :
       op' = [op EXCEPT ![p] = o]
  /\ UNCHANGED <<dir, dead, removal, count, leases, seen>>

MakeActive(p) ==
  /\ Move(p, "mkdir", "open")
  /\ Mkdir
  /\ count' = [count EXCEPT ![p] = @ + 1]
  /\ UNCHANGED <<dead, removal, op, leases, seen>>

\* EEXIST until the retry budget is spent.
GiveUp(p) ==
  /\ dir # NoDir
  /\ Move(p, "mkdir", "idle")
  /\ UNCHANGED <<dir, dead, removal, op, count, leases, seen>>

\* writeAtomicJson: the temporary file, then its rename over owner.json.
OpenTemporary(p) ==
  /\ dir # NoDir
  /\ Move(p, "open", "rename")
  /\ dir' = [dir EXCEPT !.entries = @ \cup {[name |-> p, text |-> None]}]
  /\ UNCHANGED <<dead, removal, op, count, leases, seen>>

RenameMarker(p) ==
  /\ HasEntry(p)
  /\ Move(p, "rename", "list")
  /\ dir' = [dir EXCEPT !.entries =
               {e \in @ : e.name \notin {p, Marker}} \cup {[name |-> Marker, text |-> Mine(p)]}]
  /\ UNCHANGED <<dead, removal, op, count, leases, seen>>

-----------------------------------------------------------------------------
(* The callback of withProjectGate                                         *)

\* readRecords
ListLeases(p) ==
  /\ Move(p, "list", "act")
  /\ seen' = [seen EXCEPT ![p] = leases]
  /\ UNCHANGED <<dir, dead, removal, op, count, leases>>

\* What reserve counts: the active records it read that use the resource.
Used(p, res) == Cardinality({l \in seen[p] : res \in ResourcesOf[l.delegation]})

\* Mutation of HasRoom: off by one at the capacity.
HasRoomOffByOne(p, d) == \A res \in ResourcesOf[d] : Used(p, res) <= Capacity[res]

HasRoom(p, d) == \A res \in ResourcesOf[d] : Used(p, res) < Capacity[res]

WriteLease(p) ==
  /\ Move(p, "act", "releaseRead")
  /\ \E d \in Delegations :
       /\ op[p] = Reserve(d)
       /\ HasRoom(p, d)
       /\ leases' = leases \cup {[id |-> Mine(p), delegation |-> d]}
  /\ UNCHANGED <<dir, dead, removal, op, count, seen>>

\* The leases the operation still has to mark released, of those it read.
ToRelease(p) ==
  {l \in seen[p] : op[p] = ReleaseOne(l) \/ op[p] = ReleaseFor(l.delegation)}

\* One lease file at a time.
ReleaseLease(p) ==
  /\ pc[p] = "act"
  /\ \E l \in ToRelease(p) :
       /\ leases' = leases \ {l}
       /\ seen' = [seen EXCEPT ![p] = @ \ {l}]
  /\ UNCHANGED <<dir, dead, removal, pc, op, count>>

\* The last lease is released; reserve finds a resource exhausted; the lease
\* to release is not active; or a call fails half-way.
EndBody(p) ==
  /\ pc[p] \in Body
  /\ pc' = [pc EXCEPT ![p] = "releaseRead"]
  /\ UNCHANGED <<dir, dead, removal, op, count, leases, seen>>

-----------------------------------------------------------------------------
(* releaseGate                                                             *)

ReleaseRead(p) ==
  /\ Move(p, "releaseRead", "releaseUnlink")
  /\ dir # NoDir
  /\ [name |-> Marker, text |-> Mine(p)] \in dir.entries
  /\ UNCHANGED <<dir, dead, removal, op, count, leases, seen>>

ReleaseUnlink(p) ==
  /\ Move(p, "releaseUnlink", "releaseRmdir")
  /\ Unlink(Marker)
  /\ UNCHANGED <<dead, removal, op, count, leases, seen>>

ReleaseRmdir(p) ==
  /\ Move(p, "releaseRmdir", "idle")
  /\ Rmdir
  /\ UNCHANGED <<dead, removal, op, count, leases, seen>>

-----------------------------------------------------------------------------
\* A call of the acquisition or of the release fails, or the marker is not
\* ours: the operation throws, and what it made stays.
Abandon(p) ==
  /\ pc[p] \in Holding \ {"act"}
  /\ pc' = [pc EXCEPT ![p] = "idle"]
  /\ UNCHANGED <<dir, dead, removal, op, count, leases, seen>>

Exit(p) ==
  /\ pc[p] # "exited"
  /\ pc' = [pc EXCEPT ![p] = "exited"]
  /\ dead' = dead \cup {p}
  /\ UNCHANGED <<dir, removal, op, count, leases, seen>>

Step(p) ==
  \/ Begin(p) \/ MakeActive(p) \/ GiveUp(p) \/ OpenTemporary(p) \/ RenameMarker(p)
  \/ ListLeases(p) \/ WriteLease(p) \/ ReleaseLease(p) \/ EndBody(p)
  \/ ReleaseRead(p) \/ ReleaseUnlink(p) \/ ReleaseRmdir(p)
  \/ Abandon(p) \/ Exit(p)

GateClear(r) == RemovalNext(r) /\ UNCHANGED procVars

Next == (\E p \in Procs : Step(p)) \/ (\E r \in Removers : GateClear(r))

Spec == Init /\ [][Next]_vars

-----------------------------------------------------------------------------
(* Properties.  The first ones are claimed for one gate-clear at a time;   *)
(* see GateClearSparesTheLiving for two.                                   *)

LeaseUses(l) == ResourcesOf[l.delegation]

Table == INSTANCE LeaseTable WITH
  Leases <- [id : Procs \X (1..MaxOps), delegation : Delegations], Uses <- LeaseUses

\* Counting the leases and writing one more, with the crashes, failures and
\* gate-clears around it, is an indivisible grant.
GateImplementsTable == Table!Spec

\* However operations interleave, crash and are cleared, no resource of the
\* delegation policy holds more active leases than its capacity.
NeverOverCommitted == Table!CapacityRespected

\* The gate keeps its shape, and what it is for.
LeasesAreSound == TypeOK /\ NeverOverCommitted

\* README.md, of gate-clear: "A live owner ... is always refused"; "it never
\* removes a mutex whose current owner is not proven dead".  A step of
\* gate-clear that deletes owner.json deletes that of an owner proven dead.
GateClearSparesTheLiving ==
  [][\A e \in IF dir = NoDir THEN {} ELSE dir.entries :
        (e.name = Marker /\ UNCHANGED procVars /\ dir' # dir) => OwnerGone(e.text)]_vars
=============================================================================
