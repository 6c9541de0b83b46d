--------------------------- MODULE RunLock_proofs ---------------------------
(***************************************************************************)
(* Theorems about RunLock, for any number of processes, unlock runs and    *)
(* directory identities.                                                   *)
(***************************************************************************)
EXTENDS RunLock, TLAPS

\* The steps of an unlock run that leave the directory alone.
LEMMA QuietRemoval ==
  ASSUME NEW r \in Removers,
         \/ RemovalStart(r)  \/ RemovalStat(r)   \/ RemovalList(r)
         \/ RemovalRead(r)   \/ RemovalAllow(r)  \/ RemovalRestat(r)
         \/ RemovalRelist(r) \/ RemovalReread(r) \/ RemovalPoststat(r)
         \/ RemovalRefuse(r)
  PROVE  UNCHANGED <<dir, dead>>
  BY DEF RemovalStart, RemovalStat, RemovalList, RemovalRead, RemovalAllow,
         RemovalRestat, RemovalRelist, RemovalReread, RemovalPoststat, RemovalRefuse

-----------------------------------------------------------------------------
\* Type correctness: Init establishes TypeOK and every step preserves it.

LEMMA TypeInit == Init => TypeOK
  BY DEF Init, MutexInit, TypeOK, MutexTypeOK, Removal, NotRemoving, RemovalSteps,
         Directory

LEMMA TypeStep == TypeOK /\ [Next]_vars => TypeOK'
  <1> SUFFICES ASSUME TypeOK, [Next]_vars PROVE TypeOK'
    OBVIOUS
  <1> USE DEF TypeOK, MutexTypeOK, Move, Holding, Acquiring, Callback, Releasing, Cleaning
  <1>1. ASSUME NEW p \in Procs, Begin(p) PROVE TypeOK'
    BY <1>1 DEF Begin
  <1>2. ASSUME NEW p \in Procs, MakeActive(p) PROVE TypeOK'
    BY <1>2 DEF MakeActive, Mkdir, Directory
  <1>3. ASSUME NEW p \in Procs, GiveUp(p) PROVE TypeOK'
    BY <1>3 DEF GiveUp
  <1>4. ASSUME NEW p \in Procs, StatOwn(p) PROVE TypeOK'
    BY <1>4 DEF StatOwn, Directory
  <1>5. ASSUME NEW p \in Procs, OpenMarker(p) PROVE TypeOK'
    BY <1>5 DEF OpenMarker, Directory, Entry, Token, Mine
  <1>6. ASSUME NEW p \in Procs, FillMarker(p) PROVE TypeOK'
    BY <1>6 DEF FillMarker, HasEntry, Directory, Entry, Token, Mine
  <1>7. ASSUME NEW p \in Procs, MarkerFails(p) PROVE TypeOK'
    BY <1>7 DEF MarkerFails
  <1>8. ASSUME NEW p \in Procs, CleanupUnlink(p) PROVE TypeOK'
    BY <1>8 DEF CleanupUnlink, Unlink, HasEntry, Without, Directory
  <1>9. ASSUME NEW p \in Procs, CleanupRmdir(p) PROVE TypeOK'
    BY <1>9 DEF CleanupRmdir, Rmdir
  <1>10. ASSUME NEW p \in Procs, ReadRecord(p) PROVE TypeOK'
    BY <1>10 DEF ReadRecord
  <1>11. ASSUME NEW p \in Procs, WriteRecord(p) PROVE TypeOK'
    BY <1>11 DEF WriteRecord, Token, Mine
  <1>12. ASSUME NEW p \in Procs, NoWrite(p) PROVE TypeOK'
    BY <1>12 DEF NoWrite
  <1>13. ASSUME NEW p \in Procs, ReleaseStat(p) PROVE TypeOK'
    BY <1>13 DEF ReleaseStat
  <1>14. ASSUME NEW p \in Procs, ReleaseUnlink(p) PROVE TypeOK'
    BY <1>14 DEF ReleaseUnlink, Unlink, HasEntry, Without, Directory
  <1>15. ASSUME NEW p \in Procs, ReleaseRmdir(p) PROVE TypeOK'
    BY <1>15 DEF ReleaseRmdir, Rmdir
  <1>16. ASSUME NEW p \in Procs, Abandon(p) PROVE TypeOK'
    BY <1>16 DEF Abandon
  <1>17. ASSUME NEW p \in Procs, Exit(p) PROVE TypeOK'
    BY <1>17 DEF Exit
  <1>18. ASSUME NEW r \in Removers, Unlock(r) PROVE TypeOK'
    <2> USE DEF Removal, RemovalSteps
    <2>1. UNCHANGED procVars
      BY <1>18 DEF Unlock
    <2>2. CASE RemovalUnlink(r)
      BY <2>1, <2>2 DEF RemovalUnlink, Unlink, HasEntry, Without, Directory, Goto, procVars
    <2>3. CASE RemovalRmdir(r)
      BY <2>1, <2>3 DEF RemovalRmdir, Rmdir, Stop, NotRemoving, procVars
    <2>4. CASE RemovalStat(r)
      <3>1. dir.ino \in Inodes /\ UNCHANGED <<dir, dead>>
        BY <2>4 DEF RemovalStat, Directory
      <3>2. removal[r] \in Removal
        OBVIOUS
      <3>3. [removal[r] EXCEPT !.at = "list", !.ino = dir.ino] \in Removal
        BY <3>1, <3>2
      <3>4. QED
        BY <2>1, <2>4, <3>1, <3>3 DEF RemovalStat, procVars
    <2>5. CASE RemovalList(r)
      <3>1. PICK e \in dir.entries :
              /\ e.name \in Procs \X Nat
              /\ removal' = [removal EXCEPT ![r] = [@ EXCEPT !.at = "read", !.name = e.name]]
        BY <2>5 DEF RemovalList
      <3>2. removal[r] \in Removal /\ e \in Entry /\ UNCHANGED <<dir, dead>>
        BY <2>5, <3>1 DEF RemovalList, Directory
      <3>3. [removal[r] EXCEPT !.at = "read", !.name = e.name] \in Removal
        BY <3>1, <3>2 DEF Entry
      <3>4. QED
        BY <2>1, <3>1, <3>2, <3>3 DEF procVars
    <2>6. CASE RemovalRead(r)
      <3>1. PICK e \in dir.entries :
              /\ e.name \in Procs \X Nat
              /\ removal' = [removal EXCEPT ![r] = [@ EXCEPT !.at = "allow", !.text = e.text]]
        BY <2>6 DEF RemovalRead, Directory, Entry
      <3>2. removal[r] \in Removal /\ e \in Entry /\ UNCHANGED <<dir, dead>>
        BY <2>6, <3>1 DEF RemovalRead, Directory
      <3>3. [removal[r] EXCEPT !.at = "allow", !.text = e.text] \in Removal
        BY <3>1, <3>2 DEF Entry
      <3>4. QED
        BY <2>1, <3>1, <3>2, <3>3 DEF procVars
    <2>7. CASE RemovalStart(r) \/ RemovalAllow(r) \/ RemovalRestat(r) \/ RemovalRelist(r)
               \/ RemovalReread(r) \/ RemovalPoststat(r) \/ RemovalRefuse(r)
      BY <2>1, <2>7 DEF RemovalStart, RemovalAllow, RemovalRestat, RemovalRelist, RemovalReread,
         RemovalPoststat, RemovalRefuse, Goto, Stop, NotRemoving, procVars
    <2>8. QED
      BY <1>18, <2>2, <2>3, <2>4, <2>5, <2>6, <2>7 DEF Unlock, RemovalNext, RemovalStep
  <1>19. CASE UNCHANGED vars
    BY <1>19 DEF vars
  <1>20. QED
    BY <1>1, <1>2, <1>3, <1>4, <1>5, <1>6, <1>7, <1>8, <1>9, <1>10, <1>11, <1>12, <1>13,
       <1>14, <1>15, <1>16, <1>17, <1>18, <1>19 DEF Next, Step, Fail, Release

\* RunLock's variables keep their types in every behaviour.
THEOREM TypeCorrect == Spec => []TypeOK
  BY TypeInit, TypeStep, PTL DEF Spec

-----------------------------------------------------------------------------
(* The inductive invariant.                                                *)

Inv4 == HoldersInv /\ EntriesInv /\ RemovalsInv /\ RecordInv

LEMMA IInvInit == Init => IInv
  BY TypeInit, ConstantsOK DEF Init, MutexInit, IInv, HoldersInv, EntriesInv, RemovalsInv, RecordInv,
     NotRemoving, Authorised, Emptied, Holding, Acquiring, Callback, Releasing, Cleaning

LEMMA IInvStep == IInv /\ [Next]_vars => Inv4'
  <1> SUFFICES ASSUME IInv, [Next]_vars PROVE Inv4'
    OBVIOUS
  <1> USE ConstantsOK DEF IInv, Inv4, TypeOK, MutexTypeOK, HoldersInv, EntriesInv, RemovalsInv, RecordInv,
          Move, Holding, Acquiring, Callback, Releasing, Cleaning, Unmarked, Mine,
          Authorised, Emptied, OwnerGone, Directory, Entry, Token
  <1>1. ASSUME NEW p \in Procs, Begin(p) PROVE Inv4'
    BY <1>1 DEF Begin
  <1>2. ASSUME NEW p \in Procs, MakeActive(p) PROVE Inv4'
    <2>1. dir = NoDir /\ dir' # NoDir /\ dir'.entries = {}
      BY <1>2 DEF MakeActive, Mkdir
    <2>2. HoldersInv'
      BY <1>2, <2>1 DEF MakeActive
    <2>3. EntriesInv'
      BY <1>2, <2>1 DEF MakeActive
    <2>4. RemovalsInv'
      BY <1>2, <2>1 DEF MakeActive
    <2>5. RecordInv'
      BY <1>2, <2>1 DEF MakeActive
    <2>6. QED
      BY <2>2, <2>3, <2>4, <2>5
  <1>3. ASSUME NEW p \in Procs, GiveUp(p) PROVE Inv4'
    BY <1>3 DEF GiveUp
  <1>4. ASSUME NEW p \in Procs, StatOwn(p) PROVE Inv4'
    BY <1>4 DEF StatOwn
  <1>5. ASSUME NEW p \in Procs, OpenMarker(p) PROVE Inv4'
    <2>1. /\ dir' # NoDir
          /\ dir'.ino = dir.ino
          /\ dir.entries = {}
          /\ dir'.entries = {[name |-> <<p, count[p]>>, text |-> None]}
      BY <1>5 DEF OpenMarker
    <2>2. HoldersInv'
      BY <1>5, <2>1 DEF OpenMarker
    <2>3. EntriesInv'
      BY <1>5, <2>1 DEF OpenMarker
    <2>4. RemovalsInv'
      BY <1>5, <2>1 DEF OpenMarker
    <2>5. RecordInv'
      BY <1>5, <2>1 DEF OpenMarker
    <2>6. QED
      BY <2>2, <2>3, <2>4, <2>5
  <1>6. ASSUME NEW p \in Procs, FillMarker(p) PROVE Inv4'
    <2>1. /\ dir' # NoDir
          /\ dir'.ino = dir.ino
          /\ \A e \in dir'.entries : e.name = <<p, count[p]>>
          /\ \A e \in dir'.entries : e.text \in {None, e.name}
          /\ \A e, f \in dir'.entries : e = f
          /\ dir.entries = {} => dir'.entries = {}
      BY <1>6 DEF FillMarker, HasEntry
    <2>2. HoldersInv'
      BY <1>6, <2>1 DEF FillMarker
    <2>3. EntriesInv'
      BY <1>6, <2>1 DEF FillMarker
    <2>4. RemovalsInv'
      BY <1>6, <2>1 DEF FillMarker
    <2>5. RecordInv'
      BY <1>6, <2>1 DEF FillMarker
    <2>6. QED
      BY <2>2, <2>3, <2>4, <2>5
  <1>7. ASSUME NEW p \in Procs, MarkerFails(p) PROVE Inv4'
    BY <1>7 DEF MarkerFails
  <1>8. ASSUME NEW p \in Procs, CleanupUnlink(p) PROVE Inv4'
    <2>1. dir # NoDir /\ dir' # NoDir /\ dir'.ino = dir.ino /\ dir'.entries = {}
      BY <1>8 DEF CleanupUnlink, Unlink, HasEntry, Without
    <2>2. HoldersInv'
      BY <1>8, <2>1 DEF CleanupUnlink
    <2>3. EntriesInv'
      BY <1>8, <2>1 DEF CleanupUnlink
    <2>4. RemovalsInv'
      BY <1>8, <2>1 DEF CleanupUnlink
    <2>5. RecordInv'
      BY <1>8, <2>1 DEF CleanupUnlink
    <2>6. QED
      BY <2>2, <2>3, <2>4, <2>5
  <1>9. ASSUME NEW p \in Procs, CleanupRmdir(p) PROVE Inv4'
    BY <1>9 DEF CleanupRmdir, Rmdir
  <1>10. ASSUME NEW p \in Procs, ReadRecord(p) PROVE Inv4'
    BY <1>10 DEF ReadRecord
  <1>11. ASSUME NEW p \in Procs, WriteRecord(p) PROVE Inv4'
    BY <1>11 DEF WriteRecord
  <1>12. ASSUME NEW p \in Procs, NoWrite(p) PROVE Inv4'
    BY <1>12 DEF NoWrite
  <1>13. ASSUME NEW p \in Procs, ReleaseStat(p) PROVE Inv4'
    BY <1>13 DEF ReleaseStat, StillOwned
  <1>14. ASSUME NEW p \in Procs, ReleaseUnlink(p) PROVE Inv4'
    <2>1. dir # NoDir /\ dir' # NoDir /\ dir'.ino = dir.ino /\ dir'.entries = {}
      BY <1>14 DEF ReleaseUnlink, Unlink, HasEntry, Without
    <2>2. HoldersInv'
      BY <1>14, <2>1 DEF ReleaseUnlink
    <2>3. EntriesInv'
      BY <1>14, <2>1 DEF ReleaseUnlink
    <2>4. RemovalsInv'
      BY <1>14, <2>1 DEF ReleaseUnlink
    <2>5. RecordInv'
      BY <1>14, <2>1 DEF ReleaseUnlink
    <2>6. QED
      BY <2>2, <2>3, <2>4, <2>5
  <1>15. ASSUME NEW p \in Procs, ReleaseRmdir(p) PROVE Inv4'
    BY <1>15 DEF ReleaseRmdir, Rmdir
  <1>16. ASSUME NEW p \in Procs, Abandon(p) PROVE Inv4'
    BY <1>16 DEF Abandon
  <1>17. ASSUME NEW p \in Procs, Exit(p) PROVE Inv4'
    BY <1>17 DEF Exit
  <1>18. ASSUME NEW r \in Removers, Unlock(r) PROVE Inv4'
    <2> USE DEF Removal, RemovalSteps, At, procVars
    <2>1. UNCHANGED procVars
      BY <1>18 DEF Unlock
    <2>2. CASE RemovalStart(r) \/ RemovalRefuse(r)
      <3>1. CASE RemovalStart(r)
        BY <2>1, <3>1 DEF RemovalStart, Goto
      <3>2. CASE RemovalRefuse(r)
        BY <2>1, <3>2 DEF RemovalRefuse, Stop, NotRemoving
      <3>3. QED
        BY <2>2, <3>1, <3>2
    <2>3. CASE RemovalStat(r)
      BY <2>1, <2>3 DEF RemovalStat
    <2>4. CASE RemovalList(r)
      BY <2>1, <2>4 DEF RemovalList
    <2>5. CASE RemovalRead(r)
      BY <2>1, <2>5 DEF RemovalRead
    <2>6. CASE RemovalAllow(r)
      BY <2>1, <2>6 DEF RemovalAllow, Goto
    <2>7. CASE RemovalRestat(r) \/ RemovalRelist(r) \/ RemovalReread(r)
      <3>1. CASE RemovalRestat(r)
        BY <2>1, <3>1 DEF RemovalRestat, Goto
      <3>2. CASE RemovalRelist(r)
        BY <2>1, <3>2 DEF RemovalRelist, Goto
      <3>3. CASE RemovalReread(r)
        BY <2>1, <3>3 DEF RemovalReread, Goto
      <3>4. QED
        BY <2>7, <3>1, <3>2, <3>3
    <2>8. CASE RemovalUnlink(r)
      <3>1. /\ dir # NoDir
            /\ dir' # NoDir
            /\ dir'.ino = dir.ino
            /\ dir'.entries = {}
            /\ \A p \in Procs : pc[p] \notin Holding
            /\ \A s \in Removers : removal[s].at \notin Emptied
        BY <2>8 DEF RemovalUnlink, Unlink, HasEntry, Without
      <3>2. QED
        BY <2>1, <2>8, <3>1 DEF RemovalUnlink, Goto
    <2>9. CASE RemovalPoststat(r)
      BY <2>1, <2>9 DEF RemovalPoststat, Goto
    <2>10. CASE RemovalRmdir(r)
      BY <2>1, <2>10 DEF RemovalRmdir, Rmdir, Stop, NotRemoving
    <2>11. QED
      BY <1>18, <2>2, <2>3, <2>4, <2>5, <2>6, <2>7, <2>8, <2>9, <2>10
      DEF Unlock, RemovalNext, RemovalStep
  <1>19. CASE UNCHANGED vars
    BY <1>19 DEF vars
  <1>20. QED
    BY <1>1, <1>2, <1>3, <1>4, <1>5, <1>6, <1>7, <1>8, <1>9, <1>10, <1>11, <1>12, <1>13,
       <1>14, <1>15, <1>16, <1>17, <1>18, <1>19 DEF Next, Step, Fail, Release

\* The strengthened invariant holds in every behaviour.
THEOREM Invariance == Spec => []IInv
  <1>1. IInv /\ [Next]_vars => IInv'
    BY TypeStep, IInvStep DEF IInv, Inv4
  <1>2. QED
    BY IInvInit, <1>1, PTL DEF Spec

-----------------------------------------------------------------------------
(* What follows from it.                                                   *)

\* Mutual exclusion of the callbacks, whatever crashes and whoever unlocks.
THEOREM MutualExclusion == Spec => []OneCallback
  <1>1. IInv => OneCallback
    BY DEF IInv, HoldersInv, OneCallback, Holding
  <1>2. QED
    BY Invariance, <1>1, PTL

\* The callback's write adds its own update and loses none: the snapshot it writes back
\* is what is there now.
LEMMA WriteCommits ==
  ASSUME IInv, NEW p \in Procs, WriteRecord(p)
  PROVE  [Abstract!Next]_record
  <1>1. record' = record \cup {Mine(p)}
    BY DEF WriteRecord, Move, IInv, RecordInv
  <1>2. Mine(p) \in Procs \X (1..MaxAttempts)
    BY DEF WriteRecord, Move, IInv, RecordInv, Mine, Holding, Callback
  <1>3. QED
    BY <1>1, <1>2 DEF Abstract!Next, Abstract!Commit

\* Nothing else writes run.json: not the calls around the callback, not a call that
\* fails, not an unlock.
LEMMA OthersWriteNothing ==
  ASSUME [Next]_vars, \A p \in Procs : ~WriteRecord(p)
  PROVE  UNCHANGED record
  <1>1. ASSUME NEW p \in Procs, Release(p) \/ Fail(p) PROVE UNCHANGED record
    BY <1>1 DEF Release, ReleaseStat, ReleaseUnlink, ReleaseRmdir, Fail, MarkerFails, NoWrite,
       Abandon, Exit
  <1>2. ASSUME NEW p \in Procs, Begin(p) \/ Step(p), ~Release(p) PROVE UNCHANGED record
    BY <1>2 DEF Begin, Step, MakeActive, GiveUp, StatOwn, OpenMarker, FillMarker, ReadRecord,
       CleanupUnlink, CleanupRmdir
  <1>3. (\E r \in Removers : Unlock(r)) \/ UNCHANGED vars => UNCHANGED record
    BY DEF Unlock, procVars, vars
  <1>4. QED
    BY <1>1, <1>2, <1>3 DEF Next

\* Reading and replacing run.json under the lock implements AtomicUpdates.
THEOREM Refinement == Spec => UpdatesAreAtomic
  <1>1. Init => Abstract!Init
    BY DEF Init, Abstract!Init
  <1>2. IInv /\ [Next]_vars => [Abstract!Next]_record
    BY WriteCommits, OthersWriteNothing
  <1>3. QED
    BY <1>1, <1>2, Invariance, PTL DEF Spec, UpdatesAreAtomic, Abstract!Spec

\* A live holder's directory is changed by nobody but the holder.
THEOREM LiveHolder == Spec => HolderUndisturbed
  <1>1. ASSUME IInv, [Next]_vars
        PROVE  [\A p \in Procs : pc[p] \in Holding /\ pc'[p] = pc[p] => dir' = dir]_vars
    <2> SUFFICES ASSUME NEW p \in Procs, pc[p] \in Holding, pc'[p] = pc[p] PROVE dir' = dir
      OBVIOUS
    <2> USE <1>1 DEF IInv, HoldersInv, TypeOK, Move, Holding, Acquiring, Callback, Releasing, Cleaning
    <2>1. ASSUME NEW q \in Procs, MakeActive(q) \/ OpenMarker(q) \/ FillMarker(q) \/ CleanupUnlink(q)
                 \/ CleanupRmdir(q) \/ ReleaseUnlink(q) \/ ReleaseRmdir(q)
          PROVE  dir' = dir
      <3>1. q # p
        BY <2>1 DEF MakeActive, OpenMarker, FillMarker, CleanupUnlink, CleanupRmdir, ReleaseUnlink,
           ReleaseRmdir
      <3>2. dir # NoDir /\ pc[q] \notin Holding
        BY <3>1
      <3>3. QED
        BY <2>1, <3>2 DEF MakeActive, Mkdir, OpenMarker, FillMarker, CleanupUnlink, CleanupRmdir,
           ReleaseUnlink, ReleaseRmdir
    <2>2. ASSUME NEW q \in Procs, Begin(q) \/ GiveUp(q) \/ StatOwn(q) \/ ReadRecord(q)
                 \/ WriteRecord(q) \/ ReleaseStat(q) \/ Fail(q)
          PROVE  dir' = dir
      BY <2>2 DEF Begin, GiveUp, StatOwn, ReadRecord, WriteRecord, ReleaseStat, Fail, MarkerFails,
         NoWrite, Abandon, Exit
    <2>3. ASSUME NEW r \in Removers, Unlock(r) PROVE dir' = dir
      <3>1. ~RemovalRmdir(r)
        BY DEF RemovalRmdir, At, RemovalsInv, Emptied
      <3>2. ~RemovalUnlink(r)
        <4> SUFFICES ASSUME RemovalUnlink(r) PROVE FALSE
          OBVIOUS
        <4>1. PICK e \in dir.entries : e.name = removal[r].name
          BY DEF RemovalUnlink, Unlink, HasEntry
        <4>2. removal[r].name = Mine(p)
          BY <4>1
        <4>3. removal[r].name[1] \in dead
          BY DEF RemovalUnlink, At, RemovalsInv, Authorised, OwnerGone
        <4>4. QED
          BY <4>2, <4>3 DEF Mine
      <3>3. QED
        BY <2>3, <3>1, <3>2, QuietRemoval DEF Unlock, RemovalNext, RemovalStep
    <2>4. CASE UNCHANGED vars
      BY <2>4 DEF vars
    <2>5. QED
      BY <2>1, <2>2, <2>3, <2>4 DEF Next, Step, Release
  <1>2. QED
    BY Invariance, <1>1, PTL DEF Spec, HolderUndisturbed

\* Only the owner takes away its own marker, unless the owner is proven dead.
THEOREM ProvenRemoval == Spec => RemovalNeedsProof
  <1> DEFINE Kept(p) == \A e \in dir.entries :
                 \/ e.name[1] # p
                 \/ dir' # NoDir /\ e.name \in {f.name : f \in dir'.entries}
                 \/ OwnerGone(e.name)
  <1>1. ASSUME IInv, [Next]_vars
        PROVE  [\A p \in Procs : dir # NoDir /\ pc'[p] = pc[p] => Kept(p)]_vars
    <2> SUFFICES ASSUME NEW p \in Procs, dir # NoDir, pc'[p] = pc[p] PROVE Kept(p)
      OBVIOUS
    <2> USE <1>1 DEF IInv, HoldersInv, TypeOK, Move, Holding, Acquiring, Callback, Releasing, Cleaning
    <2>1. ASSUME NEW q \in Procs, MakeActive(q) \/ CleanupRmdir(q) \/ ReleaseRmdir(q) PROVE Kept(p)
      BY <2>1 DEF MakeActive, Mkdir, CleanupRmdir, ReleaseRmdir, Rmdir
    <2>2. ASSUME NEW q \in Procs, CleanupUnlink(q) \/ ReleaseUnlink(q) PROVE Kept(p)
      <3>1. q # p /\ \A e \in dir.entries : e.name = <<q, count[q]>>
        BY <2>2 DEF CleanupUnlink, ReleaseUnlink, Mine
      <3>2. QED
        BY <3>1
    <2>3. ASSUME NEW q \in Procs, OpenMarker(q) PROVE Kept(p)
      BY <2>3 DEF OpenMarker, Unmarked
    <2>4. ASSUME NEW q \in Procs, FillMarker(q) PROVE Kept(p)
      <3>1. q # p /\ \A e \in dir.entries : e.name = <<q, count[q]>>
        BY <2>4 DEF FillMarker, Mine
      <3>2. QED
        BY <3>1
    <2>5. ASSUME UNCHANGED dir PROVE Kept(p)
      BY <2>5
    <2>6. ASSUME NEW q \in Procs, Begin(q) \/ GiveUp(q) \/ StatOwn(q) \/ ReadRecord(q)
                 \/ WriteRecord(q) \/ ReleaseStat(q) \/ Fail(q)
          PROVE  Kept(p)
      BY <2>5, <2>6 DEF Begin, GiveUp, StatOwn, ReadRecord, WriteRecord, ReleaseStat, Fail, MarkerFails,
         NoWrite, Abandon, Exit
    <2>7. ASSUME NEW r \in Removers, Unlock(r) PROVE Kept(p)
      <3>1. CASE RemovalRmdir(r)
        BY <3>1 DEF RemovalRmdir, Rmdir
      <3>2. CASE RemovalUnlink(r)
        <4>1. /\ removal[r].text = removal[r].name
              /\ removal[r].text \in Token
              /\ OwnerGone(removal[r].text)
          BY <3>2 DEF RemovalUnlink, At, RemovalsInv, Authorised
        <4>2. PICK f \in dir.entries : f.name = removal[r].name
          BY <3>2 DEF RemovalUnlink, Unlink, HasEntry
        <4>3. \A e \in dir.entries : e = f /\ e.text \in {None, e.name}
          BY <4>2 DEF EntriesInv
        <4>4. QED
          BY <4>1, <4>2, <4>3, ConstantsOK
      <3>3. QED
        BY <2>5, <2>7, <3>1, <3>2, QuietRemoval DEF Unlock, RemovalNext, RemovalStep
    <2>8. CASE UNCHANGED vars
      BY <2>5, <2>8 DEF vars
    <2> HIDE DEF Kept
    <2>9. CASE \E q \in Procs : Begin(q) \/ Step(q) \/ Fail(q)
      BY <2>1, <2>2, <2>3, <2>4, <2>6, <2>9 DEF Step, Release
    <2>10. QED
      BY <1>1, <2>7, <2>8, <2>9 DEF Next
  <1>2. QED
    BY Invariance, <1>1, PTL DEF Spec, RemovalNeedsProof
=============================================================================
