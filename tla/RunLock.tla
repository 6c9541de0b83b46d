------------------------------- MODULE RunLock -------------------------------
(***************************************************************************)
(* The per-run lock of run-store.js.  Every write to a run (create,        *)
(* update, appendEvent, writeAssignment, writePrivateFile) goes through    *)
(* withLock: make `run.lock/active`, write an owner marker in it, run the  *)
(* callback (read run.json, compute, rename a new run.json over it), check *)
(* that the lock is still ours, unlink the marker, rmdir the directory.    *)
(*                                                                         *)
(* Hooks, launchers, watchers and operators do this from separate          *)
(* processes, so every file-system call is a step of its own.  A process   *)
(* may exit at any step, and any call may fail; `workflow unlock` may be   *)
(* removing crash residue at the same time (module OwnedMutex).            *)
(***************************************************************************)
EXTENDS Naturals, FiniteSets

CONSTANTS Procs, Provable, Removers, Inodes, NoDir, None,
          Diligent,     \* removers who run unlock again until it succeeds
          MaxAttempts   \* bound: lock acquisitions one process makes

VARIABLES dir, dead, removal,
  pc,       \* the step a process is at
  held,     \* the identity it read for the directory it made
  count,    \* lockCounter: tokens it has generated
  record,   \* run.json, as the set of updates it reflects
  snap      \* what a callback read

\* The marker is owner-<token>.json: every acquisition has a name of its own.
INSTANCE OwnedMutex WITH MarkerNames <- Procs \X Nat, OtherNames <- {}

ASSUME ConstantsOK ==
  /\ Provable \subseteq Procs
  /\ Diligent \subseteq Removers
  /\ None \notin Inodes \cup Token
  /\ NoDir \notin Directory
  /\ MaxAttempts \in Nat

procVars == <<pc, held, count, record, snap>>
vars == <<dir, dead, removal, pc, held, count, record, snap>>

Mine(p) == <<p, count[p]>>

\* Acquiring or holding: from the mkdir to the rmdir of the same directory.
Acquiring == {"statOwn", "open", "fill"}
Callback == {"read", "write"}
Releasing == {"releaseStat", "releaseUnlink", "releaseRestat", "releaseRmdir"}
Cleaning == {"cleanUnlink", "cleanRmdir"}
Holding == Acquiring \cup Callback \cup Releasing \cup Cleaning

TypeOK ==
  /\ MutexTypeOK
  /\ pc \in [Procs -> Holding \cup {"idle", "mkdir", "exited"}]
  /\ held \in [Procs -> Inodes \cup {None}]
  /\ count \in [Procs -> Nat]
  /\ record \in SUBSET Token
  /\ snap \in [Procs -> SUBSET Token]

Init ==
  /\ MutexInit
  /\ pc = [p \in Procs |-> "idle"]
  /\ held = [p \in Procs |-> None]
  /\ count = [p \in Procs |-> 0]
  /\ record = {}
  /\ snap = [p \in Procs |-> {}]

Move(p, from, to) == pc[p] = from /\ pc' = [pc EXCEPT ![p] = to]

-----------------------------------------------------------------------------
(* acquireLock                                                             *)

\* A store operation asks for the lock.
Begin(p) ==
  /\ count[p] < MaxAttempts
  /\ Move(p, "idle", "mkdir")
  /\ UNCHANGED <<dir, dead, removal, held, count, record, snap>>

MakeActive(p) ==
  /\ Move(p, "mkdir", "statOwn")
  /\ Mkdir
  /\ UNCHANGED <<dead, removal, held, count, record, snap>>

\* EEXIST: the lock is stale, or the retry budget is spent, and the operation
\* fails.  A retry within the budget is another attempt at MakeActive.
GiveUp(p) ==
  /\ dir # NoDir
  /\ Move(p, "mkdir", "idle")
  /\ UNCHANGED <<dir, dead, removal, held, count, record, snap>>

\* Read the identity of the directory just made and draw a fresh token.
StatOwn(p) ==
  /\ dir # NoDir
  /\ Move(p, "statOwn", "open")
  /\ held' = [held EXCEPT ![p] = dir.ino]
  /\ count' = [count EXCEPT ![p] = @ + 1]
  /\ UNCHANGED <<dir, dead, removal, record, snap>>

\* open(markerPath, "wx"): the marker exists, still empty.
OpenMarker(p) ==
  /\ dir # NoDir
  /\ ~HasEntry(Mine(p))
  /\ Move(p, "open", "fill")
  /\ dir' = [dir EXCEPT !.entries = @ \cup {[name |-> Mine(p), text |-> None]}]
  /\ UNCHANGED <<dead, removal, held, count, record, snap>>

\* Written through the open handle, so a marker unlinked meanwhile stays gone.
FillMarker(p) ==
  /\ Move(p, "fill", "read")
  /\ dir' = IF HasEntry(Mine(p))
            THEN [dir EXCEPT !.entries =
                    {[e EXCEPT !.text = IF e.name = Mine(p) THEN Mine(p) ELSE @] : e \in @}]
            ELSE dir
  /\ UNCHANGED <<dead, removal, held, count, record, snap>>

\* Opening or writing the marker fails: cleanupFailedAcquisition.
MarkerFails(p) ==
  /\ pc[p] \in {"open", "fill"}
  /\ pc' = [pc EXCEPT ![p] = "cleanUnlink"]
  /\ UNCHANGED <<dir, dead, removal, held, count, record, snap>>

CleanupUnlink(p) ==
  /\ Move(p, "cleanUnlink", "cleanRmdir")
  /\ \/ Unlink(Mine(p))
     \/ ~HasEntry(Mine(p)) /\ UNCHANGED dir
  /\ UNCHANGED <<dead, removal, held, count, record, snap>>

CleanupRmdir(p) ==
  /\ Move(p, "cleanRmdir", "idle")
  /\ Rmdir
  /\ UNCHANGED <<dead, removal, held, count, record, snap>>

-----------------------------------------------------------------------------
(* The callback of withLock: read run.json, rename its successor over it.  *)

ReadRecord(p) ==
  /\ Move(p, "read", "write")
  /\ snap' = [snap EXCEPT ![p] = record]
  /\ UNCHANGED <<dir, dead, removal, held, count, record>>

WriteRecord(p) ==
  /\ Move(p, "write", "releaseStat")
  /\ record' = snap[p] \cup {Mine(p)}
  /\ UNCHANGED <<dir, dead, removal, held, count, snap>>

\* The callback throws, or its updater returns the empty patch: no write.
NoWrite(p) ==
  /\ pc[p] \in Callback
  /\ pc' = [pc EXCEPT ![p] = "releaseStat"]
  /\ UNCHANGED <<dir, dead, removal, held, count, record, snap>>

-----------------------------------------------------------------------------
(* releaseLock                                                             *)

StillOwned(p) == dir # NoDir /\ dir.ino = held[p]

ReleaseStat(p) ==
  /\ StillOwned(p)
  /\ \/ Move(p, "releaseStat", "releaseUnlink")
     \/ Move(p, "releaseRestat", "releaseRmdir")
  /\ UNCHANGED <<dir, dead, removal, held, count, record, snap>>

ReleaseUnlink(p) ==
  /\ Move(p, "releaseUnlink", "releaseRestat")
  /\ Unlink(Mine(p))
  /\ UNCHANGED <<dead, removal, held, count, record, snap>>

ReleaseRmdir(p) ==
  /\ Move(p, "releaseRmdir", "idle")
  /\ Rmdir
  /\ UNCHANGED <<dead, removal, held, count, record, snap>>

-----------------------------------------------------------------------------
(* What may go wrong.                                                      *)

\* A call fails outside the callback and outside what cleanup covers (the
\* stat or chmod after mkdir, the chmod of the marker, a step of the release
\* or of the cleanup): the operation throws and its directory stays.
Abandon(p) ==
  /\ pc[p] \in {"statOwn", "read"} \cup Releasing \cup Cleaning
  /\ pc' = [pc EXCEPT ![p] = "idle"]
  /\ UNCHANGED <<dir, dead, removal, held, count, record, snap>>

Exit(p) ==
  /\ pc[p] # "exited"
  /\ pc' = [pc EXCEPT ![p] = "exited"]
  /\ dead' = dead \cup {p}
  /\ UNCHANGED <<dir, removal, held, count, record, snap>>

Release(p) == ReleaseStat(p) \/ ReleaseUnlink(p) \/ ReleaseRmdir(p)

\* The steps a running process takes with no call failing.
Step(p) ==
  \/ MakeActive(p) \/ GiveUp(p) \/ StatOwn(p) \/ OpenMarker(p) \/ FillMarker(p)
  \/ ReadRecord(p) \/ WriteRecord(p) \/ Release(p)
  \/ CleanupUnlink(p) \/ CleanupRmdir(p)

Fail(p) == MarkerFails(p) \/ NoWrite(p) \/ Abandon(p) \/ Exit(p)

Unlock(r) == RemovalNext(r) /\ UNCHANGED procVars

Next ==
  \/ \E p \in Procs : Begin(p) \/ Step(p) \/ Fail(p)
  \/ \E r \in Removers : Unlock(r)

Spec == Init /\ [][Next]_vars

\* Processes run, and an unlock that has begun goes on or ends where it is.  A
\* diligent operator who finds the run wedged runs `workflow unlock` again, and
\* no one call of it fails for ever.
Fairness ==
  /\ \A p \in Procs : WF_vars(Step(p))
  /\ \A r \in Removers : WF_vars((RemovalStep(r) \/ RemovalRefuse(r)) /\ UNCHANGED procVars)
  /\ \A r \in Diligent :
       /\ WF_vars(RemovalStart(r) /\ UNCHANGED procVars)
       /\ SF_vars(RemovalStat(r) /\ UNCHANGED procVars)
       /\ SF_vars(RemovalList(r) /\ UNCHANGED procVars)
       /\ SF_vars(RemovalRead(r) /\ UNCHANGED procVars)
       /\ SF_vars(RemovalAllow(r) /\ UNCHANGED procVars)
       /\ SF_vars(RemovalRestat(r) /\ UNCHANGED procVars)
       /\ SF_vars(RemovalRelist(r) /\ UNCHANGED procVars)
       /\ SF_vars(RemovalReread(r) /\ UNCHANGED procVars)
       /\ SF_vars(RemovalUnlink(r) /\ UNCHANGED procVars)

FairSpec == Spec /\ Fairness

-----------------------------------------------------------------------------
(* Properties                                                              *)

\* No two processes are ever between reading run.json and replacing it, in
\* whatever order they crash, fail, retry and are unlocked.
OneCallback ==
  \A p, q \in Procs : pc[p] \in Callback /\ pc[q] \in Callback => p = q

\* While a live process is between its mkdir and the end of its release, no
\* step of anybody else touches the lock directory: not a removal that was
\* authorised against an earlier owner and is only now deleting, and not
\* another process's late cleanup.  (The identity checks of releaseLock and
\* removeOwnedMutex, and the unique marker names, are there for this.)
HolderUndisturbed ==
  [][\A p \in Procs : pc[p] \in Holding /\ pc'[p] = pc[p] => dir' = dir]_vars

\* A marker that goes away while its owner takes no step was removed by
\* `workflow unlock`, and then its owner was proven dead.  This holds too for
\* a lock that a live process left behind when a call of its release failed.
RemovalNeedsProof ==
  [][\A p \in Procs : dir # NoDir /\ pc'[p] = pc[p] =>
         \A e \in dir.entries :
            \/ e.name[1] # p
            \/ dir' # NoDir /\ e.name \in {f.name : f \in dir'.entries}
            \/ OwnerGone(e.name)]_vars

\* The locked read-modify-write of run.json implements an atomic update: no
\* committed update is overwritten by a process that read run.json before it.
Abstract == INSTANCE AtomicUpdates WITH Updates <- Procs \X (1..MaxAttempts)

UpdatesAreAtomic == Abstract!Spec

\* What a process that was proven dead has left: the directory with its marker.
ProvenResidue(p) ==
  /\ p \in dead
  /\ dir # NoDir
  /\ \E e \in dir.entries : e.text # None /\ e.text[1] = p

\* What an unlock leaves that was killed, or failed, between the unlink of the
\* marker and the rmdir (mutex-removal.js:90-117): an empty directory that
\* nobody is at work on, and that no unlock accepts.
CutShort ==
  /\ dir # NoDir /\ dir.entries = {}
  /\ \A p \in Procs : pc[p] \notin Holding
  /\ \A r \in Removers : removal[r].at \notin {"poststat", "rmdir"}

\* As long as an operator keeps running `workflow unlock`, the lock directory
\* that a dead process left with its marker goes away as a whole, and the run
\* can be written again: unless an unlock itself was cut short between its two
\* deletions, nothing of the residue stays.
ResidueIsRecoverable ==
  \A p \in Provable : ProvenResidue(p) ~> (dir = NoDir \/ CutShort)

-----------------------------------------------------------------------------
(* The inductive invariant                                                 *)

Unmarked == {"statOwn", "open", "cleanRmdir", "releaseRestat", "releaseRmdir"}

\* A holder is alive, alone, and the directory is its own: it holds nothing
\* but its marker, and in the Unmarked steps nothing at all.
HoldersInv ==
  /\ \A p \in dead : pc[p] = "exited"
  /\ \A p \in Procs : pc[p] \in Holding =>
       /\ dir # NoDir
       /\ pc[p] # "statOwn" => held[p] = dir.ino
       /\ pc[p] \in Unmarked => dir.entries = {}
       /\ \A e \in dir.entries : e.name = Mine(p)
  /\ \A p, q \in Procs : pc[p] \in Holding /\ pc[q] \in Holding => p = q

\* There is at most one marker, and its text, once written, is its name.
EntriesInv ==
  dir # NoDir =>
    /\ \A e, f \in dir.entries : e = f
    /\ \A e \in dir.entries : e.text \in {None, e.name}

Authorised == {"restat", "relist", "reread", "unlink", "poststat", "rmdir"}
Emptied == {"poststat", "rmdir"}

\* A removal past allow() has a dead owner's marker in hand; past its unlink
\* it is the only one that can act on the directory.
RemovalsInv ==
  /\ \A r \in Removers : removal[r].at \in Authorised \cup {"allow"} =>
       removal[r].text \in Token /\ removal[r].text = removal[r].name
  /\ \A r \in Removers : removal[r].at \in Authorised => OwnerGone(removal[r].text)
  /\ \A r \in Removers : removal[r].at \in Emptied =>
       /\ dir # NoDir /\ dir.entries = {}
       /\ \A p \in Procs : pc[p] \notin Holding
       /\ \A s \in Removers : removal[s].at \in Emptied => s = r

\* The holder's snapshot is current, and its token is within the bound.
RecordInv ==
  /\ \A p \in Procs : pc[p] = "write" => snap[p] = record
  /\ \A p \in Procs : pc[p] \in {"mkdir", "statOwn"} => count[p] < MaxAttempts
  /\ \A p \in Procs : pc[p] \in Holding \ {"statOwn"} => count[p] \in 1..MaxAttempts

IInv == TypeOK /\ HoldersInv /\ EntriesInv /\ RemovalsInv /\ RecordInv
=============================================================================
