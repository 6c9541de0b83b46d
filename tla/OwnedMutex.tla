----------------------------- MODULE OwnedMutex -----------------------------
(***************************************************************************)
(* The directory that is the mutex, and the confirmed removal of a mutex   *)
(* whose owner is proven dead.                                             *)
(*                                                                         *)
(* Two mutexes of the control plane are an `active` directory made with    *)
(* mkdir that holds an owner marker: the run lock (run-store.js) and the   *)
(* reservation gate of a project (delegation-reservations.js).  They       *)
(* differ in how they acquire and release, and in the NAME of the marker;  *)
(* they share the removal that `workflow unlock` and `workflow delegation  *)
(* gate-clear` run, which is mutex-removal.js.  RunLock and                *)
(* ReservationGate instantiate this module.                                *)
(*                                                                         *)
(* A removal is ten file-system steps.  Nothing makes them atomic, and any *)
(* number of operators may run them at once, so each is an action here.    *)
(***************************************************************************)
EXTENDS Naturals, FiniteSets

CONSTANTS
  Procs,        \* processes that acquire the mutex; a restart is another one
  Provable,     \* those whose marker carries a pid and a start time
  Removers,     \* runs of `unlock` / `gate-clear` that may be in flight
  Inodes,       \* identities (dev, ino) a directory may get; they are reused
  MarkerNames,  \* directory entries that count as an owner marker
  OtherNames,   \* entries that do not (a temporary file being written)
  NoDir,        \* "there is no active directory"
  None          \* an absent identity, name or marker text

VARIABLES
  dir,      \* the active directory, or NoDir
  dead,     \* processes that have exited; the pid is gone or recycled
  removal   \* per remover: the step it is at and what it has read

\* Identity of one acquisition: the process, and how many it has made.
Token == Procs \X Nat

\* A directory entry.  The text of a marker is the token of its owner; an
\* entry opened but not yet written has no readable text.
Entry == [name : MarkerNames \cup OtherNames, text : Token \cup {None}]

Directory == [ino : Inodes, entries : SUBSET Entry]

RemovalSteps == {"idle", "stat", "list", "read", "allow", "restat", "relist",
                 "reread", "unlink", "poststat", "rmdir"}

Removal == [at   : RemovalSteps,
            ino  : Inodes \cup {None},
            name : MarkerNames \cup {None},
            text : Token \cup {None}]

NotRemoving == [at |-> "idle", ino |-> None, name |-> None, text |-> None]

MutexTypeOK ==
  /\ dir \in Directory \cup {NoDir}
  /\ dead \in SUBSET Procs
  /\ removal \in [Removers -> Removal]

MutexInit ==
  /\ dir = NoDir
  /\ dead = {}
  /\ removal = [r \in Removers |-> NotRemoving]

-----------------------------------------------------------------------------
(* What the file system does with the active path.                         *)

HasEntry(name) == dir # NoDir /\ \E e \in dir.entries : e.name = name

Without(name) == [dir EXCEPT !.entries = {e \in @ : e.name # name}]

\* Mutation of Mkdir: mkdir -p, which an existing directory satisfies.
MkdirIfMissing ==
  \E i \in Inodes : dir' = IF dir = NoDir THEN [ino |-> i, entries |-> {}] ELSE dir

\* mkdir: the new directory may get any identity, a freed one included.
Mkdir ==
  /\ dir = NoDir
  /\ \E i \in Inodes : dir' = [ino |-> i, entries |-> {}]

Unlink(name) == HasEntry(name) /\ dir' = Without(name)

\* rmdir refuses a directory that still has an entry.
Rmdir == dir # NoDir /\ dir.entries = {} /\ dir' = NoDir

-----------------------------------------------------------------------------
(* classifyOwnership: "owner-gone" is the only removable verdict.  A pid    *)
(* recycled by another process has another start time, so it is gone too;   *)
(* a marker without a start time is unprovable, and so is one whose         *)
(* process could not be observed (see RemovalRefuse).                       *)
OwnerGone(token) == token[1] \in Provable /\ token[1] \in dead

At(r, step) == removal[r].at = step

Goto(r, step) == removal' = [removal EXCEPT ![r].at = step]

Stop(r) == removal' = [removal EXCEPT ![r] = NotRemoving]

\* The removal starts; the read-only preview and --yes before it bind nothing.
RemovalStart(r) ==
  /\ At(r, "idle")
  /\ Goto(r, "stat")
  /\ UNCHANGED <<dir, dead>>

\* First inspection: stat, readdir, read the marker.
RemovalStat(r) ==
  /\ At(r, "stat")
  /\ dir # NoDir
  /\ removal' = [removal EXCEPT ![r] = [@ EXCEPT !.at = "list", !.ino = dir.ino]]
  /\ UNCHANGED <<dir, dead>>

\* Exactly one entry must be a marker: two are as unreadable as none.
RemovalList(r) ==
  /\ At(r, "list")
  /\ dir # NoDir
  /\ \E e \in dir.entries :
       /\ e.name \in MarkerNames
       /\ \A f \in dir.entries : f.name \in MarkerNames => f.name = e.name
       /\ removal' = [removal EXCEPT ![r] = [@ EXCEPT !.at = "read", !.name = e.name]]
  /\ UNCHANGED <<dir, dead>>

RemovalRead(r) ==
  /\ At(r, "read")
  /\ dir # NoDir
  /\ \E e \in dir.entries :
       /\ e.name = removal[r].name
       /\ e.text # None
       /\ removal' = [removal EXCEPT ![r] = [@ EXCEPT !.at = "allow", !.text = e.text]]
  /\ UNCHANGED <<dir, dead>>

\* Mutation of RemovalAllow: the owner is not observed.
RemovalAllowUnseen(r) ==
  /\ At(r, "allow")
  /\ Goto(r, "restat")
  /\ UNCHANGED <<dir, dead>>

\* Mutation of RemovalAllow: the verdict of the observation is inverted.
RemovalAllowLiving(r) ==
  /\ At(r, "allow")
  /\ ~OwnerGone(removal[r].text)
  /\ Goto(r, "restat")
  /\ UNCHANGED <<dir, dead>>

\* allow(): observe the owner named by the marker just read.
RemovalAllow(r) ==
  /\ At(r, "allow")
  /\ OwnerGone(removal[r].text)
  /\ Goto(r, "restat")
  /\ UNCHANGED <<dir, dead>>

\* Second inspection: same directory, same marker, nothing else in it.
RemovalRestat(r) ==
  /\ At(r, "restat")
  /\ dir # NoDir
  /\ dir.ino = removal[r].ino
  /\ Goto(r, "relist")
  /\ UNCHANGED <<dir, dead>>

RemovalRelist(r) ==
  /\ At(r, "relist")
  /\ dir # NoDir
  /\ {e.name : e \in dir.entries} = {removal[r].name}
  /\ Goto(r, "reread")
  /\ UNCHANGED <<dir, dead>>

RemovalReread(r) ==
  /\ At(r, "reread")
  /\ dir # NoDir
  /\ \E e \in dir.entries : e.name = removal[r].name /\ e.text = removal[r].text
  /\ Goto(r, "unlink")
  /\ UNCHANGED <<dir, dead>>

\* Mutation of RemovalUnlink: empty the directory, whatever is in it by now.
RemovalUnlinkAll(r) ==
  /\ At(r, "unlink")
  /\ dir # NoDir
  /\ dir' = [dir EXCEPT !.entries = {}]
  /\ Goto(r, "poststat")
  /\ UNCHANGED dead

RemovalUnlink(r) ==
  /\ At(r, "unlink")
  /\ Unlink(removal[r].name)
  /\ Goto(r, "poststat")
  /\ UNCHANGED dead

RemovalPoststat(r) ==
  /\ At(r, "poststat")
  /\ dir # NoDir
  /\ dir.ino = removal[r].ino
  /\ Goto(r, "rmdir")
  /\ UNCHANGED <<dir, dead>>

RemovalRmdir(r) ==
  /\ At(r, "rmdir")
  /\ Rmdir
  /\ Stop(r)
  /\ UNCHANGED dead

\* The removal's successful steps, in order.
RemovalStep(r) ==
  \/ RemovalStat(r)   \/ RemovalList(r)   \/ RemovalRead(r)   \/ RemovalAllow(r)
  \/ RemovalRestat(r) \/ RemovalRelist(r) \/ RemovalReread(r)
  \/ RemovalUnlink(r) \/ RemovalPoststat(r) \/ RemovalRmdir(r)

\* A check that fails, a call that fails, an observation of the owner that
\* fails, and the removing process being killed all end the removal where it
\* is: what was unlinked stays unlinked.
RemovalRefuse(r) ==
  /\ ~At(r, "idle")
  /\ Stop(r)
  /\ UNCHANGED <<dir, dead>>

RemovalNext(r) == RemovalStart(r) \/ RemovalStep(r) \/ RemovalRefuse(r)
=============================================================================
