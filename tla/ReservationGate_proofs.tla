------------------------ MODULE ReservationGate_proofs ------------------------
(***************************************************************************)
(* Theorems about ReservationGate, for any processes, delegations, policies *)
(* and directory identities, as long as one gate-clear runs at a time.     *)
(***************************************************************************)
EXTENDS ReservationGate, FiniteSetTheorems, TLAPS

\* One gate-clear runs at a time.
OneRemover == \A r, s \in Removers : r = s

(***************************************************************************)
(* The inductive invariant.                                                *)
(***************************************************************************)

\* Who holds the gate holds it alone, and what is in the directory is what it
\* has put there.
HoldersInv ==
  \A p \in Procs : pc[p] \in Holding =>
    /\ dir # NoDir
    /\ \A q \in Procs : pc[q] \in Holding => q = p
    /\ pc[p] \in {"open", "releaseRmdir"} => dir.entries = {}
    /\ pc[p] = "rename" => dir.entries = {[name |-> p, text |-> None]}
    /\ pc[p] \in {"list", "act", "releaseRead", "releaseUnlink"} =>
         dir.entries = {[name |-> Marker, text |-> Mine(p)]}

\* The dead have stopped.
DeadInv == \A p \in dead : pc[p] = "exited"

\* At most one entry, and only the marker has a text.
EntriesInv ==
  dir # NoDir =>
    /\ \A e, f \in dir.entries : e = f
    /\ \A e \in dir.entries : e.text # None => e.name = Marker

\* A gate-clear past its authorisation has the token of a dead process; once it
\* is past its rechecks the gate is that process's, and then nobody's.
RemovalsInv ==
  \A r \in Removers :
    /\ removal[r].at \in {"allow", "restat", "relist", "reread", "unlink"} => removal[r].text # None
    /\ removal[r].at \in {"restat", "relist", "reread", "unlink"} => OwnerGone(removal[r].text)
    /\ removal[r].at = "unlink" =>
         /\ removal[r].name = Marker
         /\ dir # NoDir
         /\ dir.entries = {[name |-> Marker, text |-> removal[r].text]}
    /\ removal[r].at \in {"poststat", "rmdir"} =>
         /\ dir # NoDir
         /\ dir.entries = {}
         /\ \A p \in Procs : pc[p] \notin Holding

\* Between its read of the leases and the end of its operation a holder knows
\* the leases, and none of them has the identity that it would grant.
LeasesInv ==
  /\ IsFiniteSet(leases)
  /\ \A l \in leases : l.id[2] \in 1..count[l.id[1]]
  /\ \A p \in Procs :
       /\ count[p] <= MaxOps
       /\ pc[p] = "mkdir" => count[p] < MaxOps
       /\ pc[p] \in Holding => count[p] >= 1
       /\ pc[p] \in {"open", "rename", "list", "act"} => \A l \in leases : l.id # Mine(p)
       /\ pc[p] = "act" => seen[p] = leases

IInv ==
  /\ TypeOK /\ HoldersInv /\ DeadInv /\ EntriesInv /\ RemovalsInv /\ LeasesInv
  /\ NeverOverCommitted

MutexInv == HoldersInv /\ DeadInv /\ EntriesInv /\ RemovalsInv

-----------------------------------------------------------------------------

\* The table counts as everybody does.
LEMMA TableCounts == ASSUME NEW S PROVE Table!Cardinality(S) = Cardinality(S)
BY DEF Table!Cardinality, Cardinality

\* Nobody holds the gate at first, and there are no leases.
LEMMA InitInv == Init => IInv
<1> SUFFICES ASSUME Init PROVE IInv
  OBVIOUS
<1> USE ConstantsOK DEF Init, MutexInit
<1>1. TypeOK
  BY DEF TypeOK, MutexTypeOK, Removal, NotRemoving, RemovalSteps, Directory, Op, Idle, Holding, Body
<1>2. HoldersInv /\ DeadInv /\ EntriesInv /\ RemovalsInv
  BY DEF HoldersInv, DeadInv, EntriesInv, RemovalsInv, NotRemoving, Holding, Body
<1>3. LeasesInv
  BY FS_EmptySet DEF LeasesInv, Holding, Body
<1>4. NeverOverCommitted
  <2>1. ASSUME NEW res \in Resources PROVE Table!Holding(res) = {}
    BY DEF Table!Holding
  <2>2. ASSUME NEW res \in Resources PROVE Cardinality(Table!Holding(res)) <= Capacity[res]
    <3>1. Cardinality({}) = 0 /\ Capacity[res] \in Nat
      BY FS_EmptySet
    <3>2. Cardinality(Table!Holding(res)) = 0
      BY <2>1, <3>1
    <3>3. QED
      BY <3>1, <3>2
  <2>3. QED
    BY <2>2, TableCounts DEF NeverOverCommitted, Table!CapacityRespected
<1>5. QED
  BY <1>1, <1>2, <1>3, <1>4 DEF IInv

\* The steps of a gate-clear that leave the directory alone.
LEMMA QuietRemoval ==
  ASSUME NEW r \in Removers,
         \/ RemovalStart(r)  \/ RemovalStat(r)   \/ RemovalList(r)
         \/ RemovalRead(r)   \/ RemovalAllow(r)  \/ RemovalRestat(r)
         \/ RemovalRelist(r) \/ RemovalReread(r) \/ RemovalPoststat(r)
         \/ RemovalRefuse(r)
  PROVE  UNCHANGED <<dir, dead>>
BY DEF RemovalStart, RemovalStat, RemovalList, RemovalRead, RemovalAllow,
       RemovalRestat, RemovalRelist, RemovalReread, RemovalPoststat, RemovalRefuse

-----------------------------------------------------------------------------
(* Type correctness                                                        *)

\* Every operation that begins is of a known kind; every entry, token and lease
\* that is written has the shape of one.
LEMMA TypeStep == TypeOK /\ [Next]_vars => TypeOK'
<1> SUFFICES ASSUME TypeOK, [Next]_vars PROVE TypeOK'
  OBVIOUS
<1> USE DEF TypeOK, MutexTypeOK, Move, Holding, Body
<1>1. ASSUME NEW p \in Procs, Begin(p) PROVE TypeOK'
  <2>1. PICK o \in {Reserve(d) : d \in Delegations} \cup {ReleaseFor(d) : d \in Delegations}
                   \cup {ReleaseOne(l) : l \in leases} : op' = [op EXCEPT ![p] = o]
    BY <1>1 DEF Begin
  <2>2. o \in Op
    BY DEF Op, Reserve, ReleaseFor, ReleaseOne
  <2>3. QED
    BY <1>1, <2>1, <2>2 DEF Begin
<1>2. ASSUME NEW p \in Procs, MakeActive(p) PROVE TypeOK'
  BY <1>2 DEF MakeActive, Mkdir, Directory
<1>3. ASSUME NEW p \in Procs, GiveUp(p) PROVE TypeOK'
  BY <1>3 DEF GiveUp
<1>4. ASSUME NEW p \in Procs, OpenTemporary(p) PROVE TypeOK'
  BY <1>4 DEF OpenTemporary, Directory, Entry, Token
<1>5. ASSUME NEW p \in Procs, RenameMarker(p) PROVE TypeOK'
  BY <1>5 DEF RenameMarker, HasEntry, Directory, Entry, Token, Mine
<1>6. ASSUME NEW p \in Procs, ListLeases(p) PROVE TypeOK'
  BY <1>6 DEF ListLeases
<1>7. ASSUME NEW p \in Procs, WriteLease(p) PROVE TypeOK'
  <2>1. PICK d \in Delegations : leases' = leases \cup {[id |-> Mine(p), delegation |-> d]}
    BY <1>7 DEF WriteLease
  <2>2. [id |-> Mine(p), delegation |-> d] \in Lease
    BY DEF Lease, Token, Mine
  <2>3. QED
    BY <1>7, <2>1, <2>2 DEF WriteLease
<1>8. ASSUME NEW p \in Procs, ReleaseLease(p) PROVE TypeOK'
  BY <1>8 DEF ReleaseLease
<1>9. ASSUME NEW p \in Procs, EndBody(p) \/ ReleaseRead(p) \/ Abandon(p) \/ Exit(p) PROVE TypeOK'
  BY <1>9 DEF EndBody, ReleaseRead, Abandon, Exit
<1>10. ASSUME NEW p \in Procs, ReleaseUnlink(p) PROVE TypeOK'
  BY <1>10 DEF ReleaseUnlink, Unlink, HasEntry, Without, Directory
<1>11. ASSUME NEW p \in Procs, ReleaseRmdir(p) PROVE TypeOK'
  BY <1>11 DEF ReleaseRmdir, Rmdir
<1>12. ASSUME NEW r \in Removers, GateClear(r) PROVE TypeOK'
  <2> USE DEF Removal, RemovalSteps
  <2>1. UNCHANGED procVars
    BY <1>12 DEF GateClear
  <2>2. CASE RemovalUnlink(r)
    BY <2>1, <2>2 DEF RemovalUnlink, Unlink, HasEntry, Without, Directory, Goto, procVars
  <2>3. CASE RemovalRmdir(r)
    BY <2>1, <2>3 DEF RemovalRmdir, Rmdir, Stop, NotRemoving, procVars
  <2>4. CASE RemovalStat(r)
    <3>1. dir.ino \in Inodes /\ removal[r] \in Removal
      BY <2>4 DEF RemovalStat, Directory
    <3>2. [removal[r] EXCEPT !.at = "list", !.ino = dir.ino] \in Removal
      BY <3>1
    <3>3. QED
      BY <2>1, <2>4, <3>2 DEF RemovalStat, procVars
  <2>5. CASE RemovalList(r)
    <3>1. PICK e \in dir.entries :
            /\ e.name \in {Marker}
            /\ removal' = [removal EXCEPT ![r] = [@ EXCEPT !.at = "read", !.name = e.name]]
      BY <2>5 DEF RemovalList
    <3>2. removal[r] \in Removal
      OBVIOUS
    <3>3. [removal[r] EXCEPT !.at = "read", !.name = e.name] \in Removal
      BY <3>1, <3>2
    <3>4. QED
      BY <2>1, <2>5, <3>1, <3>3 DEF RemovalList, procVars
  <2>6. CASE RemovalRead(r)
    <3>1. PICK e \in dir.entries :
            removal' = [removal EXCEPT ![r] = [@ EXCEPT !.at = "allow", !.text = e.text]]
      BY <2>6 DEF RemovalRead
    <3>2. removal[r] \in Removal /\ e \in Entry
      BY <2>6, <3>1 DEF RemovalRead, Directory
    <3>3. [removal[r] EXCEPT !.at = "allow", !.text = e.text] \in Removal
      BY <3>2 DEF Entry
    <3>4. QED
      BY <2>1, <2>6, <3>1, <3>3 DEF RemovalRead, procVars
  <2>7. CASE RemovalStart(r) \/ RemovalAllow(r) \/ RemovalRestat(r) \/ RemovalRelist(r)
             \/ RemovalReread(r) \/ RemovalPoststat(r) \/ RemovalRefuse(r)
    BY <2>1, <2>7 DEF RemovalStart, RemovalAllow, RemovalRestat, RemovalRelist, RemovalReread,
       RemovalPoststat, RemovalRefuse, Goto, Stop, NotRemoving, procVars
  <2>8. QED
    BY <1>12, <2>2, <2>3, <2>4, <2>5, <2>6, <2>7 DEF GateClear, RemovalNext, RemovalStep
<1>13. CASE UNCHANGED vars
  BY <1>13 DEF vars
<1>14. QED
  BY <1>1, <1>2, <1>3, <1>4, <1>5, <1>6, <1>7, <1>8, <1>9, <1>10, <1>11, <1>12, <1>13
  DEF Next, Step

-----------------------------------------------------------------------------
(* The gate excludes                                                       *)

\* The marker of a holder is that of a live process, so no gate-clear gets past
\* its rechecks; and while one is past them nothing but it can move the gate.
LEMMA MutexStep ==
  ASSUME OneRemover, TypeOK, MutexInv, [Next]_vars
  PROVE  MutexInv'
<1> USE ConstantsOK DEF TypeOK, MutexTypeOK, MutexInv, HoldersInv, DeadInv, EntriesInv, RemovalsInv,
        Move, Holding, Body, OwnerGone, Mine, Directory, Entry, Token
<1>1. ASSUME NEW p \in Procs, Begin(p) PROVE MutexInv'
  BY <1>1 DEF Begin
<1>2. ASSUME NEW p \in Procs, MakeActive(p) PROVE MutexInv'
  <2>1. dir = NoDir /\ dir' # NoDir /\ dir'.entries = {}
    BY <1>2 DEF MakeActive, Mkdir
  <2>2. HoldersInv'
    BY <1>2, <2>1 DEF MakeActive
  <2>3. DeadInv' /\ EntriesInv'
    BY <1>2, <2>1 DEF MakeActive
  <2>4. RemovalsInv'
    BY <1>2, <2>1 DEF MakeActive
  <2>5. QED
    BY <2>2, <2>3, <2>4
<1>3. ASSUME NEW p \in Procs, GiveUp(p) PROVE MutexInv'
  BY <1>3 DEF GiveUp
<1>4. ASSUME NEW p \in Procs, OpenTemporary(p) PROVE MutexInv'
  <2>1. /\ dir.entries = {} /\ dir' # NoDir
        /\ dir'.entries = {[name |-> p, text |-> None]}
    BY <1>4 DEF OpenTemporary
  <2>2. HoldersInv'
    BY <1>4, <2>1 DEF OpenTemporary
  <2>3. DeadInv' /\ EntriesInv'
    BY <1>4, <2>1 DEF OpenTemporary
  <2>4. RemovalsInv'
    BY <1>4, <2>1 DEF OpenTemporary
  <2>5. QED
    BY <2>2, <2>3, <2>4
<1>5. ASSUME NEW p \in Procs, RenameMarker(p) PROVE MutexInv'
  <2>1. /\ dir.entries = {[name |-> p, text |-> None]} /\ dir' # NoDir
        /\ dir'.entries = {[name |-> Marker, text |-> Mine(p)]}
    BY <1>5 DEF RenameMarker
  <2>2. HoldersInv'
    BY <1>5, <2>1 DEF RenameMarker
  <2>3. DeadInv' /\ EntriesInv'
    BY <1>5, <2>1 DEF RenameMarker
  <2>4. RemovalsInv'
    <3>1. \A r \in Removers : removal[r].at \notin {"unlink", "poststat", "rmdir"}
      <4>1. ASSUME NEW t PROVE [name |-> p, text |-> None] # [name |-> Marker, text |-> t]
        OBVIOUS
      <4>2. dir.entries # {} /\ \A t : dir.entries # {[name |-> Marker, text |-> t]}
        BY <2>1, <4>1
      <4>3. QED
        BY <4>2
    <3>2. QED
      BY <1>5, <3>1 DEF RenameMarker
  <2>5. QED
    BY <2>2, <2>3, <2>4
<1>6. ASSUME NEW p \in Procs, ListLeases(p) \/ WriteLease(p) PROVE MutexInv'
  BY <1>6 DEF ListLeases, WriteLease
<1>7. ASSUME NEW p \in Procs, ReleaseLease(p) PROVE MutexInv'
  BY <1>7 DEF ReleaseLease
<1>8. ASSUME NEW p \in Procs, EndBody(p) \/ ReleaseRead(p) PROVE MutexInv'
  BY <1>8 DEF EndBody, ReleaseRead
<1>9. ASSUME NEW p \in Procs, ReleaseUnlink(p) PROVE MutexInv'
  <2>1. /\ dir.entries = {[name |-> Marker, text |-> Mine(p)]} /\ p \notin dead
        /\ dir' # NoDir /\ dir'.entries = {}
    BY <1>9 DEF ReleaseUnlink, Unlink, Without
  <2>2. HoldersInv'
    BY <1>9, <2>1 DEF ReleaseUnlink
  <2>3. DeadInv' /\ EntriesInv'
    BY <1>9, <2>1 DEF ReleaseUnlink
  <2>4. RemovalsInv'
    BY <1>9, <2>1 DEF ReleaseUnlink
  <2>5. QED
    BY <2>2, <2>3, <2>4
<1>10. ASSUME NEW p \in Procs, ReleaseRmdir(p) PROVE MutexInv'
  <2>1. \A r \in Removers : removal[r].at \notin {"unlink", "poststat", "rmdir"}
    <3>1. pc[p] \in Holding /\ dir.entries = {}
      BY <1>10 DEF ReleaseRmdir, Rmdir
    <3>2. \A t : dir.entries # {[name |-> Marker, text |-> t]}
      BY <3>1
    <3>3. QED
      BY <3>1, <3>2
  <2>2. HoldersInv'
    BY <1>10 DEF ReleaseRmdir, Rmdir
  <2>3. DeadInv' /\ EntriesInv'
    BY <1>10 DEF ReleaseRmdir, Rmdir
  <2>4. RemovalsInv'
    BY <1>10, <2>1 DEF ReleaseRmdir
  <2>5. QED
    BY <2>2, <2>3, <2>4
<1>11. ASSUME NEW p \in Procs, Abandon(p) PROVE MutexInv'
  BY <1>11 DEF Abandon
<1>12. ASSUME NEW p \in Procs, Exit(p) PROVE MutexInv'
  BY <1>12 DEF Exit
<1>13. ASSUME NEW r \in Removers, GateClear(r) PROVE MutexInv'
  <2> USE DEF Removal, RemovalSteps, At, procVars, OneRemover
  <2>1. UNCHANGED procVars
    BY <1>13 DEF GateClear
  <2>2. CASE RemovalStart(r)
    BY <2>1, <2>2 DEF RemovalStart, Goto
  <2>3. CASE RemovalRefuse(r)
    BY <2>1, <2>3 DEF RemovalRefuse, Stop, NotRemoving
  <2>4. CASE RemovalStat(r)
    BY <2>1, <2>4 DEF RemovalStat
  <2>5. CASE RemovalList(r)
    BY <2>1, <2>5 DEF RemovalList
  <2>6. CASE RemovalRead(r)
    BY <2>1, <2>6 DEF RemovalRead
  <2>7. CASE RemovalAllow(r)
    BY <2>1, <2>7 DEF RemovalAllow, Goto
  <2>8. CASE RemovalRestat(r) \/ RemovalRelist(r) \/ RemovalPoststat(r)
    BY <2>1, <2>8 DEF RemovalRestat, RemovalRelist, RemovalPoststat, Goto
  <2>9. CASE RemovalReread(r)
    <3>1. PICK e \in dir.entries : e.name = removal[r].name /\ e.text = removal[r].text
      BY <2>9 DEF RemovalReread
    <3>2. e = [name |-> Marker, text |-> removal[r].text] /\ dir.entries = {e} /\ dir # NoDir
      BY <2>9, <3>1 DEF RemovalReread
    <3>3. QED
      BY <2>1, <2>9, <3>1, <3>2 DEF RemovalReread, Goto
  <2>10. CASE RemovalUnlink(r)
    <3>1. /\ dir # NoDir /\ dir' # NoDir /\ dir'.entries = {}
          /\ \A p \in Procs : pc[p] \notin Holding
      BY <2>10 DEF RemovalUnlink, Unlink, HasEntry, Without
    <3>2. QED
      BY <2>1, <2>10, <3>1 DEF RemovalUnlink, Goto
  <2>11. CASE RemovalRmdir(r)
    BY <2>1, <2>11 DEF RemovalRmdir, Rmdir, Stop, NotRemoving
  <2>12. QED
    BY <1>13, <2>2, <2>3, <2>4, <2>5, <2>6, <2>7, <2>8, <2>9, <2>10, <2>11
    DEF GateClear, RemovalNext, RemovalStep
<1>14. CASE UNCHANGED vars
  BY <1>14 DEF vars
<1>15. QED
  BY <1>1, <1>2, <1>3, <1>4, <1>5, <1>6, <1>7, <1>8, <1>9, <1>10, <1>11, <1>12, <1>13, <1>14
  DEF Next, Step

-----------------------------------------------------------------------------
(* Leases are counted and granted in one                                   *)

\* The leases change only when the holder grants one that it has room for, or
\* releases one.
LEMMA LeaseChanges ==
  ASSUME TypeOK, HoldersInv, LeasesInv, [Next]_vars, leases' # leases
  PROVE  \/ \E p \in Procs : ReleaseLease(p) /\ pc[p] = "act"
         \/ \E p \in Procs : WriteLease(p) /\ pc[p] = "act" /\ seen[p] = leases
<1>1. ASSUME NEW p \in Procs, Step(p)
      PROVE  \/ ReleaseLease(p) /\ pc[p] = "act"
             \/ WriteLease(p) /\ pc[p] = "act" /\ seen[p] = leases
  BY <1>1 DEF Step, Begin, MakeActive, GiveUp, OpenTemporary, RenameMarker, ListLeases, WriteLease,
     ReleaseLease, EndBody, ReleaseRead, ReleaseUnlink, ReleaseRmdir, Abandon, Exit, Move, LeasesInv
<1>2. ASSUME NEW r \in Removers, GateClear(r) PROVE FALSE
  BY <1>2 DEF GateClear, procVars
<1>3. CASE UNCHANGED vars
  BY <1>3 DEF vars
<1>4. QED
  BY <1>1, <1>2, <1>3 DEF Next

\* A grant takes an identity that no active lease has, and finds room for each
\* resource of its delegation.
LEMMA Grants ==
  ASSUME TypeOK, HoldersInv, LeasesInv, NEW p \in Procs, WriteLease(p), pc[p] = "act", seen[p] = leases
  PROVE  \E l \in [id : Procs \X (1..MaxOps), delegation : Delegations] : Table!Grant(l)
<1> USE ConstantsOK
<1>1. PICK d \in Delegations :
        HasRoom(p, d) /\ leases' = leases \cup {[id |-> Mine(p), delegation |-> d]}
  BY DEF WriteLease
<1> DEFINE l == [id |-> Mine(p), delegation |-> d]
<1>2. l \notin leases
  BY DEF LeasesInv
<1>3. count[p] \in 1..MaxOps
  BY DEF LeasesInv, Holding, Body, TypeOK
<1>4. l \in [id : Procs \X (1..MaxOps), delegation : Delegations]
  BY <1>3 DEF Mine
<1>5. ASSUME NEW res \in LeaseUses(l) PROVE Cardinality(Table!Holding(res)) < Capacity[res]
  <2>1. LeaseUses(l) = ResourcesOf[d]
    BY DEF LeaseUses
  <2>2. Used(p, res) < Capacity[res]
    BY <1>1, <2>1 DEF HasRoom
  <2>3. Table!Holding(res) = {k \in seen[p] : res \in ResourcesOf[k.delegation]}
    BY DEF Table!Holding, LeaseUses
  <2>4. QED
    BY <2>2, <2>3 DEF Used
<1>6. Table!Grant(l)
  BY <1>1, <1>2, <1>5, TableCounts DEF Table!Grant
<1>7. QED
  BY <1>4, <1>6

\* What the holder releases was active.
LEMMA Releases ==
  ASSUME TypeOK, HoldersInv, LeasesInv, NEW p \in Procs, ReleaseLease(p)
  PROVE  \E l \in [id : Procs \X (1..MaxOps), delegation : Delegations] : Table!Release(l)
<1> USE ConstantsOK
<1>1. PICK l \in ToRelease(p) : leases' = leases \ {l}
  BY DEF ReleaseLease
<1>2. l \in leases /\ l \in Lease
  BY <1>1 DEF ToRelease, LeasesInv, ReleaseLease, TypeOK
<1>3. l.id[1] \in Procs /\ l.id[2] \in 1..count[l.id[1]] /\ count[l.id[1]] <= MaxOps
  BY <1>2 DEF LeasesInv, Lease, Token
<1>4. l.id[2] \in 1..MaxOps
  BY <1>3 DEF TypeOK
<1>5. l \in [id : Procs \X (1..MaxOps), delegation : Delegations]
  BY <1>2, <1>3, <1>4 DEF Lease, Token
<1>6. QED
  BY <1>1, <1>2, <1>5 DEF Table!Release

\* The store implements the table: reading, counting and writing are one grant.
LEMMA TableStep ==
  ASSUME TypeOK, HoldersInv, LeasesInv, [Next]_vars
  PROVE  [Table!Next]_leases
<1>1. CASE leases' = leases
  BY <1>1
<1>2. CASE leases' # leases
  BY <1>2, LeaseChanges, Grants, Releases DEF Table!Next
<1>3. QED
  BY <1>1, <1>2

\* What the holder knows stays true: nobody else touches the leases.
LEMMA LeasesStep ==
  ASSUME TypeOK, HoldersInv, LeasesInv, [Next]_vars
  PROVE  LeasesInv'
<1> USE ConstantsOK DEF TypeOK, Move, Holding, Body, Mine
<1>1. ASSUME NEW p \in Procs,
             \/ Begin(p) \/ GiveUp(p) \/ OpenTemporary(p) \/ RenameMarker(p) \/ ListLeases(p)
             \/ EndBody(p) \/ ReleaseRead(p) \/ ReleaseUnlink(p) \/ ReleaseRmdir(p)
             \/ Abandon(p) \/ Exit(p)
      PROVE  LeasesInv'
  <2>1. leases' = leases /\ count' = count
    BY <1>1 DEF Begin, GiveUp, OpenTemporary, RenameMarker, ListLeases, EndBody, ReleaseRead,
       ReleaseUnlink, ReleaseRmdir, Abandon, Exit
  <2>2. \A q \in Procs : q # p => pc'[q] = pc[q] /\ seen'[q] = seen[q]
    BY <1>1 DEF Begin, GiveUp, OpenTemporary, RenameMarker, ListLeases, EndBody, ReleaseRead,
       ReleaseUnlink, ReleaseRmdir, Abandon, Exit
  <2>3. /\ pc'[p] = "mkdir" => count[p] < MaxOps
        /\ pc'[p] \in Holding => pc[p] \in Holding
        /\ pc'[p] \in {"open", "rename", "list", "act"} => pc[p] \in {"open", "rename", "list", "act"}
        /\ pc'[p] = "act" => seen'[p] = leases
    BY <1>1 DEF Begin, GiveUp, OpenTemporary, RenameMarker, ListLeases, EndBody, ReleaseRead,
       ReleaseUnlink, ReleaseRmdir, Abandon, Exit
  <2>4. QED
    BY <2>1, <2>2, <2>3 DEF LeasesInv
<1>2. ASSUME NEW p \in Procs, MakeActive(p) PROVE LeasesInv'
  <2>1. /\ leases' = leases /\ seen' = seen /\ pc[p] = "mkdir" /\ pc'[p] = "open"
        /\ count'[p] = count[p] + 1
        /\ \A q \in Procs : q # p => pc'[q] = pc[q] /\ count'[q] = count[q]
    BY <1>2 DEF MakeActive
  <2>2. ASSUME NEW l \in leases PROVE l.id[2] \in 1..count'[l.id[1]] /\ l.id # <<p, count'[p]>>
    <3>1. l.id[1] \in Procs /\ l.id[2] \in 1..count[l.id[1]]
      BY DEF LeasesInv, Lease, Token
    <3>2. QED
      BY <2>1, <3>1
  <2>3. count'[p] <= MaxOps /\ count'[p] >= 1
    BY <2>1 DEF LeasesInv
  <2>4. QED
    BY <2>1, <2>2, <2>3 DEF LeasesInv
<1>3. ASSUME NEW p \in Procs, WriteLease(p) PROVE LeasesInv'
  <2>1. PICK d \in Delegations : leases' = leases \cup {[id |-> <<p, count[p]>>, delegation |-> d]}
    BY <1>3 DEF WriteLease
  <2>2. /\ pc[p] = "act" /\ pc'[p] = "releaseRead" /\ count' = count /\ seen' = seen
        /\ \A q \in Procs : q # p => pc'[q] = pc[q] /\ pc[q] \notin Holding
    BY <1>3 DEF WriteLease, HoldersInv
  <2>3. IsFiniteSet(leases')
    BY <2>1, FS_AddElement DEF LeasesInv
  <2>4. \A l \in leases' : l.id[2] \in 1..count'[l.id[1]]
    BY <2>1, <2>2 DEF LeasesInv
  <2>5. QED
    BY <2>2, <2>3, <2>4 DEF LeasesInv
<1>4. ASSUME NEW p \in Procs, ReleaseLease(p) PROVE LeasesInv'
  <2>1. PICK l : leases' = leases \ {l} /\ seen' = [seen EXCEPT ![p] = @ \ {l}]
    BY <1>4 DEF ReleaseLease
  <2>2. /\ pc[p] = "act" /\ pc' = pc /\ count' = count
        /\ \A q \in Procs : q # p => pc[q] \notin Holding
    BY <1>4 DEF ReleaseLease, HoldersInv
  <2>3. IsFiniteSet(leases')
    BY <2>1, FS_Subset DEF LeasesInv
  <2>4. QED
    BY <2>1, <2>2, <2>3 DEF LeasesInv
<1>5. ASSUME NEW r \in Removers, GateClear(r) PROVE LeasesInv'
  BY <1>5 DEF GateClear, procVars, LeasesInv
<1>6. CASE UNCHANGED vars
  BY <1>6 DEF vars, LeasesInv
<1>7. QED
  BY <1>1, <1>2, <1>3, <1>4, <1>5, <1>6 DEF Next, Step

\* A grant keeps within the policy, and a release makes room.
LEMMA CapacityStep ==
  ASSUME TypeOK, LeasesInv, NeverOverCommitted, [Table!Next]_leases
  PROVE  NeverOverCommitted'
<1> USE ConstantsOK
<1> SUFFICES ASSUME NEW res \in Resources PROVE Cardinality(Table!Holding(res)') <= Capacity[res]
  BY TableCounts DEF NeverOverCommitted, Table!CapacityRespected
<1>1. /\ IsFiniteSet(Table!Holding(res)) /\ Cardinality(Table!Holding(res)) \in Nat
      /\ Cardinality(Table!Holding(res)) <= Capacity[res] /\ Capacity[res] \in Nat
  <2>1. IsFiniteSet(Table!Holding(res))
    BY FS_Subset DEF LeasesInv, Table!Holding
  <2>2. QED
    BY <2>1, FS_CardinalityType, TableCounts DEF NeverOverCommitted, Table!CapacityRespected
<1>2. CASE leases' = leases
  BY <1>1, <1>2 DEF Table!Holding
<1>3. ASSUME NEW l, Table!Grant(l) PROVE Cardinality(Table!Holding(res)') <= Capacity[res]
  <2>1. CASE res \in LeaseUses(l)
    <3>1. Table!Holding(res)' = Table!Holding(res) \cup {l}
      BY <1>3, <2>1 DEF Table!Grant, Table!Holding
    <3>2. Cardinality(Table!Holding(res)) < Capacity[res]
      BY <1>3, <2>1, TableCounts DEF Table!Grant
    <3>3. Cardinality(Table!Holding(res) \cup {l}) =
            IF l \in Table!Holding(res) THEN Cardinality(Table!Holding(res))
                                        ELSE Cardinality(Table!Holding(res)) + 1
      BY <1>1, FS_AddElement
    <3>4. QED
      BY <1>1, <3>1, <3>2, <3>3
  <2>2. CASE res \notin LeaseUses(l)
    <3>1. Table!Holding(res)' = Table!Holding(res)
      BY <1>3, <2>2 DEF Table!Grant, Table!Holding
    <3>2. QED
      BY <1>1, <3>1
  <2>3. QED
    BY <2>1, <2>2
<1>4. ASSUME NEW l, Table!Release(l) PROVE Cardinality(Table!Holding(res)') <= Capacity[res]
  <2>1. Table!Holding(res)' \subseteq Table!Holding(res)
    BY <1>4 DEF Table!Release, Table!Holding
  <2>2. /\ Cardinality(Table!Holding(res)') <= Cardinality(Table!Holding(res))
        /\ Cardinality(Table!Holding(res)') \in Nat
    BY <1>1, <2>1, FS_Subset, FS_CardinalityType
  <2>3. QED
    BY <1>1, <2>2
<1>5. QED
  BY <1>2, <1>3, <1>4 DEF Table!Next

\* The invariant is inductive.
LEMMA StepInv ==
  ASSUME OneRemover, IInv, [Next]_vars
  PROVE  IInv'
BY TypeStep, MutexStep, LeasesStep, TableStep, CapacityStep DEF IInv, MutexInv

-----------------------------------------------------------------------------
(* What the reservation store promises                                     *)

\* The invariant holds in every behaviour in which one gate-clear runs at a time.
THEOREM Invariance ==
  ASSUME OneRemover
  PROVE  Spec => []IInv
BY InitInv, StepInv, PTL DEF Spec

\* The leases have the shape of leases, and no resource of the delegation policy
\* holds more active ones than its capacity, however reservations, releases and
\* a gate-clear interleave, fail and crash.
THEOREM LeasesSound ==
  ASSUME OneRemover
  PROVE  Spec => []LeasesAreSound
<1>1. IInv => LeasesAreSound
  BY DEF IInv, LeasesAreSound
<1>2. QED
  BY <1>1, Invariance, PTL

\* The store under its gate implements the table of leases: counting and
\* granting are one step.
THEOREM Refinement ==
  ASSUME OneRemover
  PROVE  Spec => GateImplementsTable
<1>1. Init => Table!Init
  BY DEF Init, Table!Init
<1>2. IInv /\ [Next]_vars => [Table!Next]_leases
  BY TableStep DEF IInv
<1>3. QED
  BY <1>1, <1>2, Invariance, PTL DEF Spec, GateImplementsTable, Table!Spec

=============================================================================
