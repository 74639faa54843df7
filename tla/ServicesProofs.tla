---------------------------- MODULE ServicesProofs ----------------------------
(* Proofs about the services around the mail: the lock on the configuration, the *)
(* file lock, the rate limit and the sessions of the remote endpoint, the        *)
(* deliveries of grant events, the challenges of agents, the daemon and its      *)
(* watchdog, the settings server and its pages, the stored secrets, the records  *)
(* of the improvement loop and of the vault.                                     *)
EXTENDS ConfigLock, FileLock, TokenBucket, HttpSessions, Webhooks, Escalation, BridgeDaemon,
        SettingsServer, SecretsAndRecords, FiniteSetTheorems, SequenceTheorems, TLAPS

------------------------------------------------------------------------------
(* The lock on the configuration                                                *)

WriterSteps ==
  {"idle", "queued", "mkdir", "again", "record", "look", "recheck", "unlink", "rmdir", "failed",
   "waits", "read", "write", "release", "free", "end", "done"}
OwnLock == {"read", "write", "release"}
Unrecorded == {"record", "rmdir", "free"}

ConfigLockTyped ==
  /\ lockDir \in BOOLEAN /\ lockOwner \in Writers \cup {Nobody}
  /\ step \in [Writers -> WriterSteps] /\ abandoned \in [Writers -> Writers \cup {Nobody}]
  /\ version \in Nat /\ base \in [Writers -> Nat]

(* One live writer at most is between taking the lock, or its record, and       *)
(* giving it back.                                                              *)
OneInside ==
  \A v, w \in Writers :
    /\ IsAlive(v) /\ step[v] \in OwnLock \cup Unrecorded
    /\ IsAlive(w) /\ step[w] \in OwnLock \cup Unrecorded
    => v = w

(* What the directory and the record say while it is there.                     *)
LockTells ==
  /\ ~lockDir => lockOwner = Nobody
  /\ \A w \in Writers : IsAlive(w) =>
       /\ step[w] \in OwnLock => lockDir /\ lockOwner = w
       /\ step[w] \in Unrecorded => lockDir /\ lockOwner = Nobody

(* Only the lock of a process that died is reclaimed.                           *)
ReclaimsFromTheDead ==
  \A w \in Writers : IsAlive(w) =>
    /\ step[w] = "recheck" => abandoned[w] \in Writers /\ ~IsAlive(abandoned[w])
    /\ step[w] = "unlink" => lockDir /\ lockOwner \in Writers /\ ~IsAlive(lockOwner)

ConfigLockSound ==
  ConfigLockTyped /\ OneInside /\ LockTells /\ ReclaimsFromTheDead /\ SavedOverNewest


LEMMA ConfigLockStarts == CLInit => ConfigLockSound
<1> SUFFICES ASSUME CLInit PROVE ConfigLockSound
  OBVIOUS
<1>1. lockDir \in BOOLEAN
  BY Zenon DEF CLInit
<1>2. lockOwner = Nobody /\ \A w \in Writers : step[w] = "idle"
  BY DEF CLInit
<1>3. ConfigLockTyped
  BY <1>1, ConfigLockAssumption DEF CLInit, ConfigLockTyped, WriterSteps
<1>4. QED
  BY <1>2, <1>3
  DEF ConfigLockSound, OneInside, LockTells, ReclaimsFromTheDead, SavedOverNewest, OwnLock, Unrecorded

(* A step that ends outside the lock and leaves lock and file alone.            *)
LEMMA StepsOutside ==
  ASSUME ConfigLockSound, NEW w \in Writers,
         NEW s \in WriterSteps \ (OwnLock \cup Unrecorded \cup {"recheck", "unlink"}), Go(w, s),
         UNCHANGED <<lockDir, lockOwner, dead, version, base>>,
         abandoned' \in [Writers -> Writers \cup {Nobody}],
         \A v \in Writers \ {w} : abandoned'[v] = abandoned[v]
  PROVE  ConfigLockSound'
<1> USE DEF ConfigLockSound, OwnLock, Unrecorded, IsAlive, Go
<1>1. step' \in [Writers -> WriterSteps] /\ step'[w] = s /\ \A v \in Writers \ {w} : step'[v] = step[v]
  BY DEF ConfigLockTyped
<1>2. ConfigLockTyped'
  BY <1>1 DEF ConfigLockTyped
<1>3. OneInside' /\ LockTells'
  BY <1>1 DEF OneInside, LockTells
<1>4. ReclaimsFromTheDead' /\ SavedOverNewest'
  BY <1>1 DEF ReclaimsFromTheDead, SavedOverNewest
<1>5. QED
  BY <1>2, <1>3, <1>4

(* A writer that no other live one meets at the lock moves on or leaves.        *)
Alone(w) ==
  \A v \in Writers \ {w} : IsAlive(v) => step[v] \notin OwnLock \cup Unrecorded \cup {"unlink"}

LEMMA StepsAlone ==
  ASSUME ConfigLockSound, NEW w \in Writers, Alone(w),
         NEW s \in WriterSteps \ {"recheck", "unlink"}, Go(w, s), UNCHANGED <<dead, abandoned>>,
         lockDir' \in BOOLEAN, lockOwner' \in Writers \cup {Nobody},
         version' \in Nat, base' \in [Writers -> Nat],
         s \in OwnLock => lockDir' /\ lockOwner' = w,
         s \in Unrecorded => lockDir' /\ lockOwner' = Nobody,
         ~lockDir' => lockOwner' = Nobody, s = "write" => base'[w] = version'
  PROVE  ConfigLockSound'
<1> USE DEF ConfigLockSound, OwnLock, Unrecorded, IsAlive, Go
<1>1. step' \in [Writers -> WriterSteps] /\ step'[w] = s /\ \A v \in Writers \ {w} : step'[v] = step[v]
  BY DEF ConfigLockTyped
<1>2. ConfigLockTyped'
  BY <1>1 DEF ConfigLockTyped
<1>3. OneInside'
  BY <1>1 DEF OneInside, Alone
<1>4. LockTells'
  BY <1>1 DEF LockTells, Alone
<1>5. ReclaimsFromTheDead'
  BY <1>1 DEF ReclaimsFromTheDead, Alone
<1>6. SavedOverNewest'
  BY <1>1 DEF SavedOverNewest, Alone
<1>7. QED
  BY <1>2, <1>3, <1>4, <1>5, <1>6

(* Nobody else is at the lock while a live writer holds it, or while the        *)
(* directory is not there.                                                      *)
LEMMA HoldersAreAlone ==
  ASSUME ConfigLockSound, Undisturbed, NEW w \in Writers, Runs(w),
         step[w] \in OwnLock \cup Unrecorded \cup {"unlink"} \/ ~lockDir
  PROVE  Alone(w)
<1>1. \A v \in Writers \ {w} : IsAlive(v) => step[v] # "unlink"
  BY DEF Runs
<1>2. CASE ~lockDir
  BY <1>2, <1>1 DEF Alone, ConfigLockSound, LockTells
<1>3. CASE step[w] \in OwnLock \cup Unrecorded
  BY <1>3, <1>1 DEF Alone, ConfigLockSound, OneInside, Runs
<1>4. CASE step[w] = "unlink"
  BY <1>4, <1>1, ConfigLockAssumption
  DEF Alone, ConfigLockSound, LockTells, ReclaimsFromTheDead, Runs
<1>5. QED
  BY <1>2, <1>3, <1>4

LEMMA TakesTheDirectory ==
  ASSUME ConfigLockSound, Undisturbed, NEW w \in Writers, MakeLockDir(w)
  PROVE  ConfigLockSound'
<1> USE DEF WriterSteps, OwnLock, Unrecorded, ConfigLockSound, ConfigLockTyped
<1>1. UNCHANGED <<lockOwner, dead, version, base, abandoned>>
  BY DEF MakeLockDir, Rest
<1>2. CASE lockDir
  <2>1. PICK s \in {"look", "failed"} : Go(w, s)
    BY <1>2 DEF MakeLockDir
  <2>2. lockDir' = lockDir
    BY <1>2, Zenon DEF MakeLockDir
  <2>3. QED
    BY <2>1, <2>2, <1>1, StepsOutside
<1>3. CASE ~lockDir
  <2>1. lockDir' /\ lockDir' \in BOOLEAN
    BY Zenon DEF MakeLockDir
  <2>2. Go(w, "record")
    BY <1>3 DEF MakeLockDir
  <2>3. Alone(w)
    BY <1>3, HoldersAreAlone DEF MakeLockDir
  <2>4. lockOwner = Nobody
    BY <1>3 DEF LockTells
  <2>5. QED
    BY <2>1, <2>2, <2>3, <2>4, <1>1, StepsAlone
<1>4. QED
  BY <1>2, <1>3

LEMMA HoldersMoveOn ==
  ASSUME ConfigLockSound, Undisturbed, NEW w \in Writers,
         Record(w) \/ Unlink(w) \/ Rmdir(w) \/ Read(w) \/ Write(w) \/ Release(w)
  PROVE  ConfigLockSound'
<1> USE DEF WriterSteps, OwnLock, Unrecorded, ConfigLockSound, ConfigLockTyped
<1>1. Runs(w) /\ IsAlive(w) /\ step[w] \in OwnLock \cup Unrecorded \cup {"unlink"}
  BY DEF Record, Unlink, Rmdir, Read, Write, Release, Runs
<1>2. Alone(w)
  BY <1>1, HoldersAreAlone
<1>3. CASE Record(w)
  <2>1. lockDir /\ lockDir' = lockDir /\ lockOwner' = w
    BY <1>3, <1>1 DEF Record, LockTells
  <2>2. Go(w, "read") /\ UNCHANGED <<dead, abandoned, version, base>>
    BY <1>3 DEF Record
  <2>3. QED
    BY <1>2, <2>1, <2>2, StepsAlone
<1>4. CASE Unlink(w)
  <2>1. lockDir /\ lockDir' = lockDir /\ lockOwner' = Nobody
    BY <1>4, <1>1 DEF Unlink, ReclaimsFromTheDead
  <2>2. Go(w, "rmdir") /\ UNCHANGED <<dead, abandoned, version, base>>
    BY <1>4, <1>1, ConfigLockAssumption DEF Unlink, Rest, ReclaimsFromTheDead
  <2>3. QED
    BY <1>2, <2>1, <2>2, StepsAlone
<1>5. CASE Rmdir(w)
  <2>1. lockOwner = Nobody /\ UNCHANGED <<lockOwner, dead, abandoned, version, base>>
    BY <1>5, <1>1 DEF Rmdir, Rest, LockTells
  <2>2. lockDir' \in BOOLEAN
    BY <1>5, Zenon DEF Rmdir
  <2>3. PICK s \in {"again", "failed"} : Go(w, s)
    BY <1>5 DEF Rmdir
  <2>4. QED
    BY <1>2, <2>1, <2>2, <2>3, StepsAlone
<1>6. CASE Read(w)
  <2>1. lockDir /\ lockOwner = w /\ lockDir' = lockDir /\ lockOwner' = lockOwner
    BY <1>6, <1>1 DEF Read, LockTells, lock_vars
  <2>2. Go(w, "write") /\ UNCHANGED <<dead, abandoned, version>>
    BY <1>6 DEF Read
  <2>3. base' \in [Writers -> Nat] /\ base'[w] = version'
    BY <1>6, <2>2 DEF Read
  <2>4. QED
    BY <1>2, <2>1, <2>2, <2>3, StepsAlone
<1>7. CASE Write(w)
  <2>1. lockDir /\ lockOwner = w /\ lockDir' = lockDir /\ lockOwner' = lockOwner
    BY <1>7, <1>1 DEF Write, LockTells, lock_vars
  <2>2. Go(w, "release") /\ UNCHANGED <<dead, abandoned, base>> /\ version' \in Nat
    BY <1>7 DEF Write
  <2>3. QED
    BY <1>2, <2>1, <2>2, StepsAlone
<1>8. CASE Release(w)
  <2>1. lockDir /\ lockDir' = lockDir /\ lockOwner' = Nobody
    BY <1>8, <1>1 DEF Release, LockTells
  <2>2. Go(w, "free") /\ UNCHANGED <<dead, abandoned, version, base>>
    BY <1>8, <1>1 DEF Release, Rest, LockTells
  <2>3. QED
    BY <1>2, <2>1, <2>2, StepsAlone
<1>9. QED
  BY <1>3, <1>4, <1>5, <1>6, <1>7, <1>8

(* A reclaimer looks at the record twice before it removes it.                  *)
LEMMA LooksTwice ==
  ASSUME ConfigLockSound, NEW w \in Writers, Look(w) \/ LookAgain(w)
  PROVE  ConfigLockSound'
<1> USE DEF WriterSteps, OwnLock, Unrecorded, ConfigLockSound, ConfigLockTyped
<1>1. UNCHANGED <<lockDir, lockOwner, dead, version, base>> /\ IsAlive(w)
  BY DEF Look, LookAgain, lock_vars, Rest, Runs
<1>2. /\ abandoned' \in [Writers -> Writers \cup {Nobody}]
      /\ \A v \in Writers \ {w} : abandoned'[v] = abandoned[v]
  BY DEF Look, LookAgain
<1>3. CASE Go(w, "failed")
  BY <1>1, <1>2, <1>3, StepsOutside
<1>4. CASE ~Go(w, "failed")
  <2>1. PICK s \in {"recheck", "unlink"} : Go(w, s)
    BY <1>4 DEF Look, LookAgain
  <2>2. s = "recheck" => abandoned'[w] \in Writers /\ ~IsAlive(abandoned'[w])
    BY <1>4, <2>1 DEF Look, LookAgain, Go, Abandoned
  <2>3. s = "unlink" => lockDir /\ lockOwner \in Writers /\ ~IsAlive(lockOwner)
    BY <1>4, <2>1, <1>1 DEF LookAgain, Look, Go, ReclaimsFromTheDead
  <2>4. step' \in [Writers -> WriterSteps] /\ step'[w] = s /\ \A v \in Writers \ {w} : step'[v] = step[v]
    BY <2>1 DEF Go
  <2>5. ConfigLockTyped'
    BY <1>1, <1>2, <2>4
  <2>6. OneInside' /\ LockTells'
    BY <1>1, <2>4 DEF OneInside, LockTells, IsAlive
  <2>7. ReclaimsFromTheDead' /\ SavedOverNewest'
    BY <1>1, <1>2, <2>2, <2>3, <2>4 DEF ReclaimsFromTheDead, SavedOverNewest, IsAlive
  <2>8. QED
    BY <2>5, <2>6, <2>7
<1>5. QED
  BY <1>3, <1>4

LEMMA WaitsOutside ==
  ASSUME ConfigLockSound, NEW w \in Writers,
         Enqueue(w) \/ SaveSync(w) \/ Dequeued(w) \/ Retry(w) \/ Waited(w) \/ GiveUp(w)
  PROVE  ConfigLockSound'
<1>1. PICK s \in {"queued", "mkdir", "waits", "done"} : Go(w, s)
  BY DEF Enqueue, SaveSync, Dequeued, Retry, Waited, GiveUp, Departs, Refuses
<1>2. UNCHANGED <<lockDir, lockOwner, dead, version, base, abandoned>>
  BY DEF Enqueue, SaveSync, Dequeued, Retry, Waited, GiveUp, lock_vars, Rest
<1>3. QED
  BY <1>1, <1>2, StepsOutside DEF WriterSteps, OwnLock, Unrecorded, ConfigLockSound, ConfigLockTyped

LEMMA LeavesTheLock ==
  ASSUME ConfigLockSound, Undisturbed, NEW w \in Writers, Free(w)
  PROVE  ConfigLockSound'
<1> USE DEF WriterSteps, OwnLock, Unrecorded, ConfigLockSound, ConfigLockTyped
<1>1. Go(w, "done") /\ UNCHANGED <<lockOwner, dead, abandoned, version, base>> /\ Runs(w) /\ IsAlive(w)
  BY DEF Free, Departs, Runs
<1>2. CASE step[w] = "free"
  <2>1. lockDir' \in BOOLEAN
    BY Zenon DEF Free, ConfigLockSound, ConfigLockTyped
  <2>2. lockOwner = Nobody
    BY <1>1, <1>2 DEF LockTells
  <2>3. Alone(w)
    BY <1>1, <1>2, HoldersAreAlone
  <2>4. QED
    BY <1>1, <2>1, <2>2, <2>3, StepsAlone
<1>3. CASE step[w] # "free"
  <2>1. lockDir' = lockDir
    BY <1>3, Zenon DEF Free
  <2>2. QED
    BY <1>1, <2>1, StepsOutside
<1>4. QED
  BY <1>2, <1>3

LEMMA DeathsRelease ==
  ASSUME ConfigLockSound, NEW p \in WriterProcesses, Dies(p)
  PROVE  ConfigLockSound'
<1>1. /\ \A w \in Writers : IsAlive(w)' => IsAlive(w)
      /\ UNCHANGED <<lockDir, lockOwner, step, abandoned, version, base>>
  BY DEF Dies, IsAlive, lock_vars
<1>2. QED
  BY <1>1 DEF ConfigLockSound, ConfigLockTyped, OneInside, LockTells, ReclaimsFromTheDead, SavedOverNewest

(* What a writer is about to save was made from the newest configuration, as    *)
(* long as nobody comes between a reclaimer's second look and its unlink:       *)
(* withConfigWriteLock of the configuration loader.                             *)
THEOREM SavesKeepTheNewest == Undisturbed => (CLSpec => []SavedOverNewest)
<1> SUFFICES ASSUME Undisturbed PROVE CLSpec => []SavedOverNewest
  OBVIOUS
<1>1. CLInit => ConfigLockSound
  BY ConfigLockStarts
<1>2. ConfigLockSound /\ [CLNext]_cl_vars => ConfigLockSound'
  <2> SUFFICES ASSUME ConfigLockSound, [CLNext]_cl_vars PROVE ConfigLockSound'
    OBVIOUS
  <2>1. ASSUME NEW w \in Writers, Begins(w) PROVE ConfigLockSound'
    BY <2>1, WaitsOutside DEF Begins
  <2>2. ASSUME NEW w \in Writers, Advances(w) PROVE ConfigLockSound'
    BY <2>2, WaitsOutside, TakesTheDirectory, HoldersMoveOn, LooksTwice, LeavesTheLock DEF Advances
  <2>3. ASSUME NEW p \in WriterProcesses, Dies(p) PROVE ConfigLockSound'
    BY <2>3, DeathsRelease
  <2>4. CASE UNCHANGED cl_vars
    BY <2>4 DEF cl_vars, lock_vars, ConfigLockSound, ConfigLockTyped, OneInside, LockTells,
                ReclaimsFromTheDead, SavedOverNewest, IsAlive
  <2>5. QED
    BY <2>1, <2>2, <2>3, <2>4 DEF CLNext
<1>3. ConfigLockSound => SavedOverNewest
  BY DEF ConfigLockSound
<1>4. QED
  BY <1>1, <1>2, <1>3, PTL DEF CLSpec

------------------------------------------------------------------------------
(* The file lock                                                                *)

LEMMA FilesFacts ==
  /\ NoFile \in Files
  /\ \A p \in Procs : token[p] \in 0..MaxStarts => Mine(p) \in Files /\ Draft(p) \in Files
BY DEF Files, Records, Mine, Draft

(* A process that moves to a known place leaves the type of pc intact. *)
LEMMA GotoTyped ==
  ASSUME NEW p \in Procs, pc \in [Procs -> Places],
         NEW place \in Places, Goto(p, place)
  PROVE  pc' \in [Procs -> Places]
BY DEF Goto

LEMMA PlacesFacts ==
  /\ "idle" \in Places /\ "held" \in Places /\ "mkdir" \in Places
  /\ "open" \in Places /\ "write" \in Places /\ "undo" \in Places
  /\ "read" \in Places /\ "recheck" \in Places /\ "unlink" \in Places
  /\ "rmdir" \in Places /\ "again" \in Places /\ "relread" \in Places
  /\ "relunlink" \in Places /\ "relrmdir" \in Places
  /\ "undormdir" \in Places
BY DEF Places, Acquiring, Releasing

(* Every variable keeps its type: the lock file, when it exists, is always *)
(* a record some call of createLock opened.                                *)
THEOREM LockTyped == Spec => []TypeOK
<1>1. Init => TypeOK
  <2> SUFFICES ASSUME Init PROVE TypeOK
    OBVIOUS
  <2>1. alive \in [Procs -> BOOLEAN] /\ dir \in BOOLEAN
    BY Zenon DEF Init
  <2>2. pc \in [Procs -> Places] /\ file \in Files /\ seen \in [Procs -> Files]
    BY FilesFacts, PlacesFacts DEF Init
  <2>3. token \in [Procs -> 0..MaxStarts] /\ starts \in 0..MaxStarts
    BY StartsAssumption DEF Init
  <2>4. QED
    BY <2>1, <2>2, <2>3 DEF TypeOK
<1>2. TypeOK /\ [Next]_vars => TypeOK'
  <2> SUFFICES ASSUME TypeOK, [Next]_vars PROVE TypeOK'
    OBVIOUS
  <2> USE FilesFacts, PlacesFacts, StartsAssumption
  <2>1. ASSUME NEW p \in Procs, Enter(p) PROVE TypeOK'
    BY <2>1, GotoTyped DEF Enter, TypeOK
  <2>2. ASSUME NEW p \in Procs, Mkdir(p) PROVE TypeOK'
    BY <2>2, GotoTyped DEF Mkdir, TypeOK
  <2>3. ASSUME NEW p \in Procs, OpenRecord(p) PROVE TypeOK'
    BY <2>3, GotoTyped DEF OpenRecord, TypeOK
  <2>4. ASSUME NEW p \in Procs, WriteRecord(p) PROVE TypeOK'
    BY <2>4, GotoTyped DEF WriteRecord, TypeOK
  <2>5. ASSUME NEW p \in Procs, WriteFails(p) PROVE TypeOK'
    BY <2>5, GotoTyped DEF WriteFails, TypeOK
  <2>6. ASSUME NEW p \in Procs, UndoUnlink(p) \/ UndoRmdir(p) PROVE TypeOK'
    BY <2>6, GotoTyped DEF UndoUnlink, UndoRmdir, TypeOK
  <2>7. ASSUME NEW p \in Procs, ReadOwner(p) PROVE TypeOK'
    BY <2>7, GotoTyped DEF ReadOwner, TypeOK
  <2>8. ASSUME NEW p \in Procs, TimeOut(p) PROVE TypeOK'
    BY <2>8, GotoTyped DEF TimeOut, TypeOK
  <2>9. ASSUME NEW p \in Procs, RecheckOwner(p) PROVE TypeOK'
    BY <2>9, GotoTyped DEF RecheckOwner, TypeOK
  <2>10. ASSUME NEW p \in Procs, ReclaimUnlink(p) PROVE TypeOK'
    BY <2>10, GotoTyped DEF ReclaimUnlink, TypeOK
  <2>11. ASSUME NEW p \in Procs, ReclaimRmdir(p) PROVE TypeOK'
    BY <2>11, GotoTyped DEF ReclaimRmdir, TypeOK
  <2>12. ASSUME NEW p \in Procs, Leave(p) PROVE TypeOK'
    BY <2>12, GotoTyped DEF Leave, TypeOK
  <2>13. ASSUME NEW p \in Procs, ReleaseRead(p) PROVE TypeOK'
    BY <2>13, GotoTyped DEF ReleaseRead, TypeOK
  <2>14. ASSUME NEW p \in Procs, ReleaseUnlink(p) PROVE TypeOK'
    BY <2>14, GotoTyped DEF ReleaseUnlink, TypeOK
  <2>15. ASSUME NEW p \in Procs, ReleaseRmdir(p) PROVE TypeOK'
    BY <2>15, GotoTyped DEF ReleaseRmdir, TypeOK
  <2>16. ASSUME NEW p \in Procs, Die(p) PROVE TypeOK'
    BY <2>16 DEF Die, TypeOK
  <2>17. ASSUME NEW p \in Procs, ReusePid(p) PROVE TypeOK'
    BY <2>17, GotoTyped DEF ReusePid, TypeOK
  <2>18. CASE UNCHANGED vars
    BY <2>18 DEF vars, TypeOK
  <2>19. QED
    BY <2>1, <2>2, <2>3, <2>4, <2>5, <2>6, <2>7, <2>8, <2>9, <2>10, <2>11,
       <2>12, <2>13, <2>14, <2>15, <2>16, <2>17, <2>18
    DEF Next, Step, Exhausted
<1>3. QED
  BY <1>1, <1>2, PTL DEF Spec

(* The three shapes an owner record can have are told apart by "complete"  *)
(* and "pid" alone.                                                        *)
LEMMA RecordFacts ==
  /\ ~NoFile.complete
  /\ \A p \in Procs : /\ Mine(p).complete /\ Mine(p).pid = p
                      /\ ~Draft(p).complete
BY DEF NoFile, Mine, Draft

(* A step that begins no call leaves every process its own record. *)
LEMMA StampsKept ==
  ASSUME token' = token
  PROVE  \A p \in Procs : Mine(p)' = Mine(p) /\ Draft(p)' = Draft(p)
BY DEF Mine, Draft

(* A record that is complete and whose process is gone is nobody's: no     *)
(* live process is creating, holding or releasing the lock.                *)
LEMMA AbandonedMeansNoCreator ==
  ASSUME TypeOK, RecordMatchesPlace, file.complete, Gone(file.pid)
  PROVE  \A q \in Procs : ~Creator(q)
BY RecordFacts DEF RecordMatchesPlace, Creator, Creating, At, Gone, TypeOK

(* As long as no two live processes stand between their second look at the *)
(* owner and their unlink, whatever the number of processes, the deaths,   *)
(* the PID reuse and the failed writes: the creator of the lock directory  *)
(* is alone, and so is the holder.                                         *)
THEOREM Exclusion == Spec /\ []OneReclaimer => []MutualExclusion
<1>1. Init => ExclusionInvariant
  BY DEF Init, ExclusionInvariant, OneCreator, CreatorHasDir, RecordHasDir,
         RecordMatchesPlace, ReclaimerSeesTheDead, Creator, Creating, At
<1>2. TypeOK /\ OneReclaimer /\ ExclusionInvariant /\ [Next]_vars => ExclusionInvariant'
  <2> SUFFICES ASSUME TypeOK, OneReclaimer, ExclusionInvariant, [Next]_vars
               PROVE  ExclusionInvariant'
    OBVIOUS
  <2> USE RecordFacts DEF ExclusionInvariant, OneCreator, CreatorHasDir,
        RecordHasDir, RecordMatchesPlace, ReclaimerSeesTheDead,
        Creator, Creating, At, Goto, TypeOK
  <2>1. ASSUME NEW p \in Procs, Enter(p) PROVE ExclusionInvariant'
    BY <2>1 DEF Enter, Mine, Draft
  <2>2. ASSUME NEW p \in Procs, Mkdir(p) PROVE ExclusionInvariant'
    BY <2>2, StampsKept DEF Mkdir
  <2>3. ASSUME NEW p \in Procs, OpenRecord(p) PROVE ExclusionInvariant'
    BY <2>3, StampsKept DEF OpenRecord
  <2>4. ASSUME NEW p \in Procs, WriteRecord(p) PROVE ExclusionInvariant'
    BY <2>4, StampsKept DEF WriteRecord
  <2>5. ASSUME NEW p \in Procs, WriteFails(p) PROVE ExclusionInvariant'
    BY <2>5, StampsKept DEF WriteFails
  <2>6. ASSUME NEW p \in Procs, UndoUnlink(p) PROVE ExclusionInvariant'
    BY <2>6, StampsKept DEF UndoUnlink
  <2>7. ASSUME NEW p \in Procs, UndoRmdir(p) PROVE ExclusionInvariant'
    BY <2>7, StampsKept DEF UndoRmdir
  <2>8. ASSUME NEW p \in Procs, ReadOwner(p) PROVE ExclusionInvariant'
    BY <2>8, StampsKept DEF ReadOwner
  <2>9. ASSUME NEW p \in Procs, TimeOut(p) PROVE ExclusionInvariant'
    BY <2>9, StampsKept DEF TimeOut
  <2>10. ASSUME NEW p \in Procs, RecheckOwner(p) PROVE ExclusionInvariant'
    BY <2>10, AbandonedMeansNoCreator, StampsKept DEF RecheckOwner, StillAbandoned
  <2>11. ASSUME NEW p \in Procs, ReclaimUnlink(p) PROVE ExclusionInvariant'
    BY <2>11, StampsKept DEF ReclaimUnlink, OneReclaimer
  <2>12. ASSUME NEW p \in Procs, ReclaimRmdir(p) PROVE ExclusionInvariant'
    BY <2>12, StampsKept DEF ReclaimRmdir
  <2>13. ASSUME NEW p \in Procs, Leave(p) PROVE ExclusionInvariant'
    BY <2>13, StampsKept DEF Leave
  <2>14. ASSUME NEW p \in Procs, ReleaseRead(p) PROVE ExclusionInvariant'
    BY <2>14, StampsKept DEF ReleaseRead
  <2>15. ASSUME NEW p \in Procs, ReleaseUnlink(p) PROVE ExclusionInvariant'
    BY <2>15, StampsKept DEF ReleaseUnlink
  <2>16. ASSUME NEW p \in Procs, ReleaseRmdir(p) PROVE ExclusionInvariant'
    BY <2>16, StampsKept DEF ReleaseRmdir
  <2>17. ASSUME NEW p \in Procs, Die(p) PROVE ExclusionInvariant'
    BY <2>17, StampsKept DEF Die
  <2>18. ASSUME NEW p \in Procs, ReusePid(p) PROVE ExclusionInvariant'
    BY <2>18, StampsKept DEF ReusePid
  <2>19. CASE UNCHANGED vars
    BY <2>19, StampsKept DEF vars
  <2>20. QED
    BY <2>1, <2>2, <2>3, <2>4, <2>5, <2>6, <2>7, <2>8, <2>9, <2>10, <2>11, <2>12, <2>13, <2>14, <2>15, <2>16, <2>17, <2>18, <2>19
    DEF Next, Step, Exhausted
<1>3. ExclusionInvariant => MutualExclusion
  BY DEF ExclusionInvariant, OneCreator, Creator, Creating, MutualExclusion, Holds
<1>4. QED
  BY <1>1, <1>2, <1>3, LockTyped, PTL DEF Spec

------------------------------------------------------------------------------
(* The rate limit                                                               *)

USE RatesAssumption

TBTypeOK ==
  /\ bucket \in [Callers -> [credit : Nat, idle : Nat]]
  /\ meter \in [Callers -> Nat]

Balanced == \A c \in Callers : meter[c] + Credit(c) <= CAPACITY

TBInv == TBTypeOK /\ Balanced

(* One more tick is worth REFILL, no more.                                      *)
LEMMA TickWorth ==
  ASSUME NEW i \in Nat
  PROVE  /\ i * REFILL \in Nat
         /\ (i + 1) * REFILL = i * REFILL + REFILL
  OBVIOUS

(* A bucket that may be evicted has been full again.                            *)
LEMMA LongIdleIsFull ==
  ASSUME NEW i \in Nat, i > MAX_IDLE
  PROVE  i * REFILL >= CAPACITY
<1>1. PICK d \in Nat : i = MAX_IDLE + d
  <2>1. i - MAX_IDLE \in Nat
    OBVIOUS
  <2> QED  BY <2>1
<1>2. i * REFILL = MAX_IDLE * REFILL + d * REFILL
  BY <1>1
<1>3. d * REFILL \in Nat /\ MAX_IDLE * REFILL \in Nat
  OBVIOUS
<1> QED
  BY <1>2, <1>3, EvictedFull

LEMMA CreditIsNatural ==
  ASSUME TBTypeOK, NEW c \in Callers
  PROVE  Credit(c) \in Nat /\ Credit(c) <= CAPACITY
<1>1. bucket[c].credit \in Nat /\ bucket[c].idle \in Nat
  BY DEF TBTypeOK
<1>2. bucket[c].idle * REFILL \in Nat
  BY <1>1
<1> QED
  BY <1>1, <1>2 DEF Credit, Lowest

LEMMA TBInitHolds == TBInit => TBInv
<1> SUFFICES ASSUME TBInit PROVE TBInv
  OBVIOUS
<1>1. TBTypeOK
  BY DEF TBInit, Fresh, TBTypeOK
<1>2. ASSUME NEW c \in Callers PROVE meter[c] + Credit(c) <= CAPACITY
  <2>1. bucket[c].credit = CAPACITY /\ bucket[c].idle = 0 /\ meter[c] = 0
    BY DEF TBInit, Fresh
  <2> QED
    BY <2>1, CreditIsNatural, <1>1
<1> QED
  BY <1>1, <1>2 DEF TBInv, Balanced

LEMMA PassesKeeps == TBInv /\ Passes => TBInv'
<1> SUFFICES ASSUME TBInv, Passes PROVE TBInv'
  OBVIOUS
<1> USE DEF TBInv
<1>1. TBTypeOK'
  <2>1. bucket' \in [Callers -> [credit : Nat, idle : Nat]]
    BY DEF Passes, TBTypeOK
  <2>2. meter' \in [Callers -> Nat]
    BY DEF Passes, TBTypeOK
  <2> QED
    BY <2>1, <2>2 DEF TBTypeOK
<1>2. ASSUME NEW c \in Callers PROVE meter'[c] + Credit(c)' <= CAPACITY
  <2> DEFINE k == bucket[c].credit
             i == bucket[c].idle
             w == i * REFILL
  <2>1. k \in Nat /\ i \in Nat /\ meter[c] \in Nat
    BY DEF TBTypeOK
  <2>2. bucket'[c].credit = k /\ bucket'[c].idle = i + 1
    BY DEF Passes, TBTypeOK
  <2>3. meter'[c] = IF meter[c] > REFILL THEN meter[c] - REFILL ELSE 0
    BY DEF Passes
  <2>4. w \in Nat /\ (i + 1) * REFILL = w + REFILL
    BY <2>1, TickWorth
  <2>5. meter[c] + Lowest(CAPACITY, k + w) <= CAPACITY
    BY DEF Balanced, Credit
  <2>6. Credit(c)' = Lowest(CAPACITY, k + (w + REFILL))
    BY <2>2, <2>4 DEF Credit, Lowest
  <2> HIDE DEF k, i, w
  <2> QED
    BY <2>1, <2>3, <2>4, <2>5, <2>6 DEF Lowest
<1> QED
  BY <1>1, <1>2 DEF Balanced

LEMMA SweepKeeps == TBInv /\ sweep => TBInv'
<1> SUFFICES ASSUME TBInv, sweep PROVE TBInv'
  OBVIOUS
<1> USE DEF TBInv
<1>1. TBTypeOK'
  BY DEF sweep, Fresh, TBTypeOK
<1>2. ASSUME NEW c \in Callers PROVE meter'[c] + Credit(c)' <= CAPACITY
  <2>1. meter' = meter /\ meter[c] \in Nat /\ bucket[c].idle \in Nat /\ bucket[c].credit \in Nat
    BY DEF sweep, TBTypeOK
  <2>2. CASE bucket[c].idle > MAX_IDLE
    <3>1. Credit(c) = CAPACITY
      <4>1. bucket[c].idle * REFILL >= CAPACITY /\ bucket[c].idle * REFILL \in Nat
        BY <2>1, <2>2, LongIdleIsFull
      <4> QED
        BY <2>1, <4>1 DEF Credit, Lowest
    <3>2. meter[c] = 0
      BY <2>1, <3>1 DEF Balanced
    <3>3. Credit(c)' \in Nat /\ Credit(c)' <= CAPACITY
      <4>1. bucket'[c].credit \in Nat /\ bucket'[c].idle \in Nat
        BY <1>1 DEF TBTypeOK
      <4>2. bucket'[c].idle * REFILL \in Nat
        BY <4>1
      <4> QED
        BY <4>1, <4>2 DEF Credit, Lowest
    <3> QED
      BY <2>1, <3>2, <3>3
  <2>3. CASE ~(bucket[c].idle > MAX_IDLE)
    <3>1. bucket'[c] = bucket[c]
      BY <2>3 DEF sweep
    <3> QED
      BY <2>1, <3>1 DEF Balanced, Credit
  <2> QED
    BY <2>2, <2>3
<1> QED
  BY <1>1, <1>2 DEF Balanced

LEMMA TakeKeeps == ASSUME NEW c \in Callers PROVE TBInv /\ take(c) => TBInv'
<1> SUFFICES ASSUME TBInv, take(c) PROVE TBInv'
  OBVIOUS
<1> USE DEF TBInv
<1> DEFINE allowed == IF Credit(c) > 0 THEN 1 ELSE 0
<1>1. Credit(c) \in Nat /\ Credit(c) <= CAPACITY /\ Credit(c) - allowed \in Nat /\ allowed \in Nat
  BY CreditIsNatural
<1>2. TBTypeOK'
  BY <1>1 DEF take, TBTypeOK
<1>3. ASSUME NEW d \in Callers PROVE meter'[d] + Credit(d)' <= CAPACITY
  <2>1. CASE d = c
    <3>1. bucket'[c].credit = Credit(c) - allowed /\ bucket'[c].idle = 0 /\ meter'[c] = meter[c] + allowed
      BY DEF take, TBTypeOK
    <3>2. Credit(c)' = Credit(c) - allowed
      BY <1>1, <3>1 DEF Credit, Lowest
    <3>3. meter[c] \in Nat /\ meter[c] + Credit(c) <= CAPACITY
      BY DEF TBTypeOK, Balanced
    <3> HIDE DEF allowed
    <3> QED
      BY <1>1, <2>1, <3>1, <3>2, <3>3
  <2>2. CASE d # c
    <3>1. bucket'[d] = bucket[d] /\ meter'[d] = meter[d]
      BY <2>2 DEF take, TBTypeOK
    <3> QED
      BY <3>1 DEF Balanced, Credit
  <2> QED
    BY <2>1, <2>2
<1> QED
  BY <1>2, <1>3 DEF Balanced

(* For any burst, refill and idle limit that satisfy EvictedFull, no caller is   *)
(* ever served more than one burst beyond what it was credited: the eviction of  *)
(* its bucket forgets nothing (rate-limit.ts).                                   *)
THEOREM RateIsHeld == TBSpec => []RateHeld
<1>1. TBInv /\ [TBNext]_tb_vars => TBInv'
  <2> SUFFICES ASSUME TBInv, [TBNext]_tb_vars PROVE TBInv'
    OBVIOUS
  <2>1. CASE UNCHANGED tb_vars
    BY <2>1 DEF tb_vars, TBInv, TBTypeOK, Balanced, Credit
  <2> QED
    BY <2>1, PassesKeeps, SweepKeeps, TakeKeeps DEF TBNext
<1>2. TBInv => RateHeld
  <2> SUFFICES ASSUME TBInv, NEW c \in Callers PROVE meter[c] <= CAPACITY
    BY DEF RateHeld
  <2> QED
    BY CreditIsNatural DEF TBInv, Balanced, TBTypeOK
<1> QED
  BY TBInitHolds, <1>1, <1>2, PTL DEF TBSpec

------------------------------------------------------------------------------
(* The sessions.  Whoever opened a transport is never changed, the table only    *)
(* ever names that client, and a request is let in by the table: so what it was  *)
(* let in for stays its own, even after the session has left the table.          *)

Somebody == Clients \cup {"nobody"}
RequestSet == [at : {"idle", "reading", "connecting", "handling", "streaming"},
               kind : Kinds, by : Somebody, sid : Sids \cup {NoSid}]

HTTypeOK ==
  /\ sessions \in [Sids -> Somebody] /\ opener \in [Sids -> Somebody]
  /\ transports \subseteq Sids
  /\ request \in [Requests -> RequestSet]

TableTrue == \A s \in Sids : sessions[s] # "nobody" => s \in transports /\ opener[s] = sessions[s]

(* What holds of one request by itself.                                         *)
LetIn(q) ==
  /\ q.at # "idle" => q.by \in Clients
  /\ q.at \in {"handling", "streaming"} => q.sid \in Sids /\ opener[q.sid] = q.by

AllLetIn == \A r \in Requests : LetIn(request[r])

HTInv == HTTypeOK /\ TableTrue /\ AllLetIn

LEMMA NoRequestIsFine == NoRequest \in RequestSet /\ LetIn(NoRequest) /\ NoSid \notin Sids
  BY DEF NoRequest, RequestSet, LetIn, Kinds, Somebody, NoSid, Sids

LEMMA HTInitHolds == HTInit => HTInv
<1> SUFFICES ASSUME HTInit PROVE HTInv
  OBVIOUS
<1>1. HTTypeOK
  BY NoRequestIsFine DEF HTInit, HTTypeOK, Somebody
<1>2. TableTrue
  BY DEF HTInit, TableTrue
<1>3. AllLetIn
  <2> SUFFICES ASSUME NEW r \in Requests PROVE LetIn(request[r])
    BY DEF AllLetIn
  <2>1. request[r] = NoRequest
    BY DEF HTInit
  <2> QED
    BY <2>1, NoRequestIsFine
<1> QED
  BY <1>1, <1>2, <1>3 DEF HTInv

(* A step that keeps the table and puts one request elsewhere.                   *)
LEMMA OneRequestMoves ==
  ASSUME HTInv, NEW r \in Requests, NEW q \in RequestSet, LetIn(q),
         UNCHANGED Table, request' = [request EXCEPT ![r] = q]
  PROVE  HTInv'
<1>1. HTTypeOK'
  BY DEF HTInv, HTTypeOK, Table
<1>2. TableTrue'
  BY DEF HTInv, TableTrue, Table
<1>3. AllLetIn'
  <2> SUFFICES ASSUME NEW p \in Requests PROVE LetIn(request[p])'
    BY DEF AllLetIn
  <2>1. opener' = opener /\ request'[p] = IF p = r THEN q ELSE request[p]
    BY DEF HTInv, HTTypeOK, Table
  <2> QED
    BY <2>1 DEF HTInv, AllLetIn, LetIn
<1> QED
  BY <1>1, <1>2, <1>3 DEF HTInv

LEMMA ArriveKeeps ==
  ASSUME HTInv, NEW r \in Requests, NEW c \in Clients, NEW kind \in Kinds,
         NEW sid \in Sids \cup {NoSid}, Arrive(r, c, kind, sid)
  PROVE  HTInv'
<1> DEFINE q == [at |-> "reading", kind |-> kind, by |-> c, sid |-> sid]
<1>1. q \in RequestSet /\ LetIn(q)
  BY DEF RequestSet, Somebody, LetIn
<1>2. UNCHANGED Table /\ request' = [request EXCEPT ![r] = q]
  BY DEF Arrive
<1> HIDE DEF q
<1> QED
  BY <1>1, <1>2, OneRequestMoves

LEMMA RouteKeeps ==
  ASSUME HTInv, NEW r \in Requests, Route(r)
  PROVE  HTInv'
<1>1. request[r] \in RequestSet /\ request[r].at = "reading" /\ LetIn(request[r]) /\ UNCHANGED Table
  BY DEF Route, HTInv, HTTypeOK, AllLetIn
<1>2. CASE Ends(r)
  BY <1>1, <1>2, NoRequestIsFine, OneRequestMoves DEF Ends
<1>3. CASE Own(r) /\ request' = [request EXCEPT ![r].at = "handling"]
  <2> DEFINE q == [request[r] EXCEPT !.at = "handling"]
  <2>1. q \in RequestSet /\ q.at = "handling" /\ q.by = request[r].by /\ q.sid = request[r].sid
    BY <1>1 DEF RequestSet
  <2>2. request[r].sid \in Sids /\ sessions[request[r].sid] = request[r].by /\ request[r].by \in Clients
    BY <1>1, <1>3 DEF Own, LetIn, RequestSet
  <2>3. opener[request[r].sid] = request[r].by
    BY <2>2, NobodyAssumption DEF HTInv, TableTrue
  <2>4. LetIn(q)
    BY <2>1, <2>2, <2>3 DEF LetIn
  <2>5. request' = [request EXCEPT ![r] = q]
    BY <1>3
  <2> HIDE DEF q
  <2> QED
    BY <1>1, <2>1, <2>4, <2>5, OneRequestMoves
<1>4. CASE request' = [request EXCEPT ![r].at = "connecting"]
  <2> DEFINE q == [request[r] EXCEPT !.at = "connecting"]
  <2>1. q \in RequestSet /\ q.at = "connecting" /\ q.by = request[r].by
    BY <1>1 DEF RequestSet
  <2>2. LetIn(q)
    BY <1>1, <2>1 DEF LetIn
  <2>3. request' = [request EXCEPT ![r] = q]
    BY <1>4
  <2> HIDE DEF q
  <2> QED
    BY <1>1, <2>1, <2>2, <2>3, OneRequestMoves
<1> QED
  BY <1>2, <1>3, <1>4 DEF Route

LEMMA OpenKeeps ==
  ASSUME HTInv, NEW r \in Requests, NEW s \in Sids, Open(r, s)
  PROVE  HTInv'
<1> DEFINE q == [request[r] EXCEPT !.sid = s, !.at = "handling"]
<1>1. request[r] \in RequestSet /\ request[r].at = "connecting" /\ request[r].by \in Clients
  BY DEF Open, HTInv, HTTypeOK, AllLetIn, LetIn
<1>2. q \in RequestSet /\ q.by = request[r].by /\ q.sid = s
  BY <1>1 DEF RequestSet
<1>3. /\ opener[s] = "nobody"
      /\ opener' = [opener EXCEPT ![s] = request[r].by]
      /\ sessions' = [sessions EXCEPT ![s] = request[r].by]
      /\ transports' = transports \cup {s}
  BY DEF Open
<1>4. request' = [request EXCEPT ![r] = q]
  BY DEF Open
<1> HIDE DEF q
<1>5. HTTypeOK'
  BY <1>1, <1>2, <1>3, <1>4 DEF HTInv, HTTypeOK, Somebody
<1>6. TableTrue'
  BY <1>3 DEF HTInv, HTTypeOK, TableTrue
<1>7. AllLetIn'
  <2> SUFFICES ASSUME NEW p \in Requests PROVE LetIn(request[p])'
    BY DEF AllLetIn
  <2>1. CASE p = r
    <3>1. request'[p] = q /\ opener'[s] = request[r].by
      BY <1>3, <1>4, <2>1 DEF HTInv, HTTypeOK
    <3> QED
      BY <1>1, <1>2, <3>1 DEF LetIn
  <2>2. CASE p # r
    <3>1. request'[p] = request[p] /\ LetIn(request[p])
      BY <1>4, <2>2 DEF HTInv, HTTypeOK, AllLetIn
    <3>2. request[p].at \in {"handling", "streaming"} => request[p].sid # s
      BY <1>3, <3>1, NobodyAssumption DEF LetIn
    <3> QED
      BY <1>3, <3>1, <3>2 DEF LetIn, HTInv, HTTypeOK
  <2> QED
    BY <2>1, <2>2
<1> QED
  BY <1>5, <1>6, <1>7 DEF HTInv

(* A transport that closes takes its streams with it.                           *)
LEMMA ClosingKeeps ==
  ASSUME HTInv, NEW s \in Sids, Closed(s),
         request' \in [Requests -> RequestSet],
         \A r \in Requests : request'[r] \in {request[r], NoRequest}
  PROVE  HTInv'
<1>1. HTTypeOK'
  BY DEF Closed, HTInv, HTTypeOK, Somebody
<1>2. TableTrue'
  BY DEF Closed, HTInv, HTTypeOK, TableTrue
<1>3. AllLetIn'
  <2> SUFFICES ASSUME NEW r \in Requests PROVE LetIn(request[r])'
    BY DEF AllLetIn
  <2>1. opener' = opener
    BY DEF Closed
  <2>2. LetIn(request'[r])
    BY NoRequestIsFine DEF HTInv, AllLetIn
  <2> QED
    BY <2>1, <2>2 DEF LetIn
<1> QED
  BY <1>1, <1>2, <1>3 DEF HTInv

LEMMA StreamsEnd ==
  ASSUME HTInv, NEW s \in Sids
  PROVE  /\ WithoutStreams(s) \in [Requests -> RequestSet]
         /\ \A r \in Requests : WithoutStreams(s)[r] \in {request[r], NoRequest}
  BY NoRequestIsFine DEF WithoutStreams, HTInv, HTTypeOK

LEMMA HandleKeeps ==
  ASSUME HTInv, NEW r \in Requests, Handle(r)
  PROVE  HTInv'
<1> DEFINE s == request[r].sid
<1>1. request[r] \in RequestSet /\ request[r].at = "handling" /\ LetIn(request[r]) /\ s \in Sids
  BY DEF Handle, HTInv, HTTypeOK, AllLetIn, LetIn
<1>2. CASE Closed(s) /\ request' = [WithoutStreams(s) EXCEPT ![r] = NoRequest]
  <2>1. request' \in [Requests -> RequestSet]
    BY <1>1, <1>2, StreamsEnd, NoRequestIsFine
  <2>2. \A p \in Requests : request'[p] \in {request[p], NoRequest}
    BY <1>1, <1>2, StreamsEnd
  <2> HIDE DEF s
  <2> QED
    BY <1>1, <1>2, <2>1, <2>2, ClosingKeeps
<1>3. CASE UNCHANGED Table /\ request' = [request EXCEPT ![r].at = "streaming"]
  <2> DEFINE q == [request[r] EXCEPT !.at = "streaming"]
  <2>1. q \in RequestSet /\ q.by = request[r].by /\ q.sid = request[r].sid
    BY <1>1 DEF RequestSet
  <2>2. LetIn(q)
    BY <1>1, <2>1 DEF LetIn
  <2>3. request' = [request EXCEPT ![r] = q]
    BY <1>3
  <2> HIDE DEF q, s
  <2> QED
    BY <1>3, <2>1, <2>2, <2>3, OneRequestMoves
<1>4. CASE UNCHANGED Table /\ Ends(r)
  BY <1>4, NoRequestIsFine, OneRequestMoves DEF Ends
<1> QED
  BY <1>2, <1>3, <1>4 DEF Handle

LEMMA CloseOneKeeps ==
  ASSUME HTInv, NEW s \in Sids, CloseOne(s)
  PROVE  HTInv'
  BY StreamsEnd, ClosingKeeps DEF CloseOne

LEMMA RestKeeps ==
  ASSUME HTInv, UNCHANGED <<sessions, opener, transports, request>>
  PROVE  HTInv'
  BY DEF HTInv, HTTypeOK, TableTrue, AllLetIn, LetIn

(* Whatever sessions open and close while requests read their bodies, a          *)
(* transport is driven only by the client it was created for (http.ts, "a        *)
(* session belongs to the client that opened it").                               *)
THEOREM OwnersDrive == HTSpec => []DrivenByOwner
<1>1. HTInv /\ [HTNext]_http_vars => HTInv'
  <2> SUFFICES ASSUME HTInv, [HTNext]_http_vars PROVE HTInv'
    OBVIOUS
  <2>1. CASE UNCHANGED http_vars
    BY <2>1, RestKeeps DEF http_vars
  <2>2. CASE BeginClose \/ Clear \/ FinishClose
    BY <2>2, RestKeeps DEF BeginClose, Clear, FinishClose, Table
  <2>3. ASSUME NEW s \in Sids, CloseOne(s) PROVE HTInv'
    BY <2>3, CloseOneKeeps
  <2>4. ASSUME NEW r \in Requests, Route(r) \/ Handle(r) PROVE HTInv'
    BY <2>4, RouteKeeps, HandleKeeps
  <2>5. ASSUME NEW r \in Requests, NEW s \in Sids, Open(r, s) PROVE HTInv'
    BY <2>5, OpenKeeps
  <2>6. ASSUME NEW r \in Requests, NEW c \in Clients, NEW kind \in Kinds,
               NEW sid \in Sids \cup {NoSid}, Arrive(r, c, kind, sid)
        PROVE  HTInv'
    BY <2>6, ArriveKeeps
  <2> QED
    BY <2>1, <2>2, <2>3, <2>4, <2>5, <2>6 DEF HTNext
<1>2. HTInv => DrivenByOwner
  BY DEF HTInv, TableTrue, AllLetIn, LetIn, DrivenByOwner
<1> QED
  BY HTInitHolds, <1>1, <1>2, PTL DEF HTSpec

------------------------------------------------------------------------------
(* The deliveries.  What an endpoint processed is balanced, delivery by          *)
(* delivery, by the answers that were lost; an attempt is given up only at the   *)
(* last; and what an attempt is to connect to was checked in the same attempt.   *)

Under == {"none", "resolving", "posting", "waiting"}
Row == [at : Under \cup Ended, attempt : Nat, pinned : Address \cup {"none"}]

WHTypeOK ==
  /\ emitted \in Nat /\ names \subseteq Address
  /\ delivery \in [Deliveries -> Row]
  /\ taken \in [Deliveries -> Nat]
  /\ unanswered \in [Deliveries -> Nat]

(* What holds of one delivery d of which t processings happened and u of them    *)
(* were not answered.                                                           *)
Sound(d, t, u) ==
  /\ t = u + (IF d.at = "delivered" THEN 1 ELSE 0)
  /\ d.attempt <= MAX_ATTEMPTS
  /\ d.at = "waiting" => d.attempt < MAX_ATTEMPTS
  /\ d.at = "exhausted" => d.attempt = MAX_ATTEMPTS
  /\ d.at = "posting" => d.pinned # "private"

AllSound == \A x \in Deliveries : Sound(delivery[x], taken[x], unanswered[x])
NotYet == \A x \in Deliveries : x[2] > emitted => delivery[x].at = "none"

WHInv == WHTypeOK /\ AllSound /\ NotYet /\ "private" \notin reached

LEMMA WHInitHolds == WHInit => WHInv
<1> SUFFICES ASSUME WHInit PROVE WHInv
  OBVIOUS
<1>1. /\ delivery = [x \in Deliveries |-> Idle]
      /\ taken = [x \in Deliveries |-> 0]
      /\ unanswered = [x \in Deliveries |-> 0]
      /\ emitted = 0 /\ names = {"public"} /\ reached = {}
  BY DEF WHInit
<1>2. Idle \in Row /\ Sound(Idle, 0, 0) /\ Idle.at = "none"
  BY AttemptsAssumption DEF Idle, Row, Under, Sound
<1> QED
  BY <1>1, <1>2 DEF WHInv, WHTypeOK, AllSound, NotYet, Address

(* One delivery of an emitted event goes on, the rest stays.                     *)
LEMMA OneDeliveryMoves ==
  ASSUME WHInv, NEW x \in Deliveries, NEW q \in Row,
         delivery[x].at # "none",
         delivery' = [delivery EXCEPT ![x] = q],
         NEW t \in Nat, NEW u \in Nat, Sound(q, t, u),
         taken' = [taken EXCEPT ![x] = t], unanswered' = [unanswered EXCEPT ![x] = u],
         emitted' = emitted, names' = names, "private" \notin reached'
  PROVE  WHInv'
<1>1. WHTypeOK'
  BY DEF WHInv, WHTypeOK
<1>2. AllSound'
  <2> SUFFICES ASSUME NEW y \in Deliveries
               PROVE  Sound(delivery'[y], taken'[y], unanswered'[y])
    BY DEF AllSound, Sound
  <2>1. CASE y = x
    BY <2>1 DEF WHInv, WHTypeOK
  <2>2. CASE y # x
    BY <2>2 DEF WHInv, WHTypeOK, AllSound
  <2> QED
    BY <2>1, <2>2
<1>3. NotYet'
  BY DEF WHInv, WHTypeOK, NotYet
<1> QED
  BY <1>1, <1>2, <1>3 DEF WHInv

LEMMA deliverAllKeeps == ASSUME WHInv, deliverAll PROVE WHInv'
<1>1. /\ emitted \in Nat /\ emitted' = emitted + 1
      /\ names' = names /\ taken' = taken /\ unanswered' = unanswered /\ reached' = reached
  BY DEF deliverAll, Counts, WHInv, WHTypeOK
<1>2. ASSUME NEW x \in Deliveries
      PROVE  /\ delivery'[x] \in Row
             /\ Sound(delivery'[x], taken[x], unanswered[x])
             /\ x[2] > emitted + 1 => delivery'[x].at = "none"
  <2>1. delivery[x] \in Row /\ Sound(delivery[x], taken[x], unanswered[x]) /\ x[2] \in Nat
    BY DEF WHInv, WHTypeOK, AllSound, Deliveries
  <2>2. CASE x[2] # emitted + 1
    <3>1. delivery'[x] = delivery[x]
      BY <1>1, <2>2 DEF deliverAll, WHInv, WHTypeOK
    <3>2. x[2] > emitted + 1 => delivery[x].at = "none"
      BY <1>1, <2>1 DEF WHInv, NotYet
    <3> QED
      BY <2>1, <3>1, <3>2
  <2>3. CASE x[2] = emitted + 1
    <3>1. delivery[x].at = "none"
      BY <1>1, <2>3 DEF WHInv, NotYet
    <3>2. taken[x] = unanswered[x] /\ taken[x] \in Nat
      BY <2>1, <3>1 DEF Sound, WHInv, WHTypeOK
    <3>3. delivery'[x] \in {[Idle EXCEPT !.at = "skipped"], [Idle EXCEPT !.at = "invalid"],
                            [Idle EXCEPT !.at = "resolving", !.attempt = 1]}
      BY <1>1, <2>3 DEF deliverAll, WHInv, WHTypeOK
    <3> DEFINE Made(at, n) == [at |-> at, attempt |-> n, pinned |-> "none"]
    <3>4. delivery'[x] \in {Made("skipped", 0), Made("invalid", 0), Made("resolving", 1)}
      BY <3>3 DEF Idle
    <3>5. ASSUME NEW at \in {"skipped", "invalid", "resolving"}, NEW n \in {0, 1}
          PROVE  Made(at, n) \in Row /\ Sound(Made(at, n), taken[x], unanswered[x])
      <4>1. Made(at, n) \in Row
        BY DEF Row, Under, Ended
      <4>2. Sound(Made(at, n), taken[x], unanswered[x])
        BY <3>2, AttemptsAssumption DEF Sound
      <4> QED
        BY <4>1, <4>2
    <3> HIDE DEF Made
    <3> QED
      BY <1>1, <2>3, <3>4, <3>5
  <2> QED
    BY <2>2, <2>3
<1>3. delivery' = [x \in Deliveries |-> delivery'[x]]
  BY DEF deliverAll, WHInv, WHTypeOK
<1> QED
  BY <1>1, <1>2, <1>3 DEF WHInv, WHTypeOK, AllSound, NotYet

(* What an attempt that fails leaves behind.                                     *)
LEMMA FailureIsSound ==
  ASSUME NEW d \in Row, NEW t \in Nat, NEW u \in Nat, t = u, d.attempt <= MAX_ATTEMPTS,
         NEW q, q = [d EXCEPT !.at = IF d.attempt < MAX_ATTEMPTS THEN "waiting" ELSE "exhausted"]
  PROVE  q \in Row /\ Sound(q, t, u)
<1>1. q \in Row /\ q.attempt = d.attempt /\ q.at = IF d.attempt < MAX_ATTEMPTS THEN "waiting" ELSE "exhausted"
  BY DEF Row, Under, Ended
<1> QED
  BY <1>1, AttemptsAssumption DEF Sound, Row

LEMMA resolveTargetKeeps ==
  ASSUME WHInv, NEW x \in Deliveries, resolveTarget(x)
  PROVE  WHInv'
<1> DEFINE d == delivery[x]
<1>1. /\ d \in Row /\ d.at = "resolving" /\ taken[x] \in Nat /\ unanswered[x] \in Nat
      /\ taken[x] = unanswered[x] /\ d.attempt <= MAX_ATTEMPTS
  <2>1. d.at = "resolving"
    BY DEF resolveTarget
  <2> QED
    BY <2>1 DEF WHInv, WHTypeOK, AllSound, Sound
<1>2. /\ emitted' = emitted /\ names' = names /\ "private" \notin reached'
      /\ taken' = [taken EXCEPT ![x] = taken[x]]
      /\ unanswered' = [unanswered EXCEPT ![x] = unanswered[x]]
  <2>1. Outside /\ Counts
    BY DEF resolveTarget
  <2> QED
    BY <2>1 DEF Outside, Counts, WHInv, WHTypeOK
<1>3. CASE Goes(x, "private")
  <2> DEFINE q == [d EXCEPT !.at = "private"]
  <2>1. q \in Row /\ Sound(q, taken[x], unanswered[x])
    BY <1>1 DEF Row, Ended, Sound
  <2>2. delivery' = [delivery EXCEPT ![x] = q]
    BY <1>3 DEF Goes
  <2> HIDE DEF q
  <2> QED
    BY <1>1, <1>2, <2>1, <2>2, OneDeliveryMoves
<1>4. ASSUME "private" \notin names, NEW a \in names,
             delivery' = [delivery EXCEPT ![x] = [d EXCEPT !.at = "posting", !.pinned = a]]
      PROVE  WHInv'
  <2> DEFINE q == [d EXCEPT !.at = "posting", !.pinned = a]
  <2>1. a \in Address /\ a # "private"
    BY <1>4 DEF WHInv, WHTypeOK
  <2>2. q \in Row /\ Sound(q, taken[x], unanswered[x])
    <3>1. q \in Row /\ q.at = "posting" /\ q.pinned = a /\ q.attempt = d.attempt
      BY <1>1, <2>1 DEF Row, Under
    <3> QED
      BY <1>1, <2>1, <3>1 DEF Sound
  <2>3. delivery' = [delivery EXCEPT ![x] = q]
    BY <1>4
  <2> HIDE DEF q
  <2> QED
    BY <1>1, <1>2, <2>2, <2>3, OneDeliveryMoves
<1>5. CASE FailsAttempt(x)
  <2> DEFINE q == [d EXCEPT !.at = IF d.attempt < MAX_ATTEMPTS THEN "waiting" ELSE "exhausted"]
  <2>1. q \in Row /\ Sound(q, taken[x], unanswered[x])
    BY <1>1, FailureIsSound
  <2>2. delivery' = [delivery EXCEPT ![x] = q]
    BY <1>5 DEF FailsAttempt, Goes
  <2> HIDE DEF q
  <2> QED
    BY <1>1, <1>2, <2>1, <2>2, OneDeliveryMoves
<1> QED
  BY <1>3, <1>4, <1>5 DEF resolveTarget

LEMMA postWithTimeoutKeeps ==
  ASSUME WHInv, NEW x \in Deliveries, postWithTimeout(x)
  PROVE  WHInv'
<1> DEFINE d == delivery[x]
<1>1. /\ d \in Row /\ d.at = "posting" /\ taken[x] \in Nat /\ unanswered[x] \in Nat
      /\ taken[x] = unanswered[x] /\ d.attempt <= MAX_ATTEMPTS /\ d.pinned # "private"
  BY DEF postWithTimeout, WHInv, WHTypeOK, AllSound, Sound
<1>2. /\ emitted' = emitted /\ names' = names /\ "private" \notin reached'
  BY <1>1 DEF postWithTimeout, Outside, Target, WHInv
<1>3. PICK processed \in BOOLEAN, answer \in {"ok", "redirected", "refused", "error", "none"} :
        /\ answer = "ok" => processed
        /\ answer \in {"redirected", "refused"} => ~processed
        /\ taken' = [taken EXCEPT ![x] = @ + (IF processed THEN 1 ELSE 0)]
        /\ unanswered' = [unanswered EXCEPT ![x] = @ + (IF processed /\ answer # "ok" THEN 1 ELSE 0)]
        /\ Answered(x, answer)
  BY DEF postWithTimeout
<1> DEFINE t == taken[x] + (IF processed THEN 1 ELSE 0)
           u == unanswered[x] + (IF processed /\ answer # "ok" THEN 1 ELSE 0)
<1>4. /\ t \in Nat /\ u \in Nat /\ t = u + (IF answer = "ok" THEN 1 ELSE 0)
      /\ taken' = [taken EXCEPT ![x] = t] /\ unanswered' = [unanswered EXCEPT ![x] = u]
  BY <1>1, <1>3
<1> HIDE DEF t, u
<1>5. CASE answer \in {"ok", "redirected", "refused"}
  <2> DEFINE q == [d EXCEPT !.at = IF answer = "ok" THEN "delivered" ELSE answer]
  <2>1. q \in Row /\ q.attempt = d.attempt /\ q.at = IF answer = "ok" THEN "delivered" ELSE answer
    BY <1>1, <1>5 DEF Row, Ended
  <2>2. Sound(q, t, u)
    BY <1>1, <1>4, <1>5, <2>1 DEF Sound
  <2>3. delivery' = [delivery EXCEPT ![x] = q]
    BY <1>3, <1>5 DEF Answered, Permanent, Goes
  <2> HIDE DEF q
  <2> QED
    BY <1>1, <1>2, <1>4, <2>1, <2>2, <2>3, OneDeliveryMoves
<1>6. CASE answer \notin {"ok", "redirected", "refused"}
  <2> DEFINE q == [d EXCEPT !.at = IF d.attempt < MAX_ATTEMPTS THEN "waiting" ELSE "exhausted"]
  <2>1. q \in Row /\ Sound(q, t, u)
    BY <1>1, <1>4, <1>6, FailureIsSound
  <2>2. delivery' = [delivery EXCEPT ![x] = q]
    BY <1>3, <1>6 DEF Answered, Permanent, FailsAttempt, Goes
  <2> HIDE DEF q
  <2> QED
    BY <1>1, <1>2, <1>4, <2>1, <2>2, OneDeliveryMoves
<1> QED
  BY <1>5, <1>6

LEMMA NextAttemptKeeps ==
  ASSUME WHInv, NEW x \in Deliveries, NextAttempt(x)
  PROVE  WHInv'
<1> DEFINE d == delivery[x]
           q == [at |-> "resolving", attempt |-> d.attempt + 1, pinned |-> "none"]
<1>1. /\ d \in Row /\ d.at = "waiting" /\ taken[x] \in Nat /\ unanswered[x] \in Nat
      /\ taken[x] = unanswered[x] /\ d.attempt < MAX_ATTEMPTS
  BY DEF NextAttempt, WHInv, WHTypeOK, AllSound, Sound
<1>2. /\ emitted' = emitted /\ names' = names /\ "private" \notin reached'
      /\ taken' = [taken EXCEPT ![x] = taken[x]]
      /\ unanswered' = [unanswered EXCEPT ![x] = unanswered[x]]
  BY DEF NextAttempt, Outside, Counts, WHInv, WHTypeOK
<1>3. q \in Row /\ Sound(q, taken[x], unanswered[x])
  BY <1>1, AttemptsAssumption DEF Row, Under, Sound
<1>4. delivery' = [delivery EXCEPT ![x] = q]
  BY DEF NextAttempt
<1> HIDE DEF q
<1> QED
  BY <1>1, <1>2, <1>3, <1>4, OneDeliveryMoves

LEMMA StoppedKeeps == ASSUME WHInv, Stopped PROVE WHInv'
<1>1. /\ emitted' = emitted /\ names' = names
      /\ taken' = taken /\ unanswered' = unanswered /\ reached' = reached
  BY DEF Stopped, Counts
<1>2. ASSUME NEW x \in Deliveries
      PROVE  /\ delivery'[x] \in Row
             /\ Sound(delivery'[x], taken[x], unanswered[x])
             /\ delivery[x].at = "none" => delivery'[x].at = "none"
  <2>1. delivery[x] \in Row /\ Sound(delivery[x], taken[x], unanswered[x])
    BY DEF WHInv, WHTypeOK, AllSound
  <2>2. CASE delivery[x].at \in Ended \cup {"none"}
    BY <2>1, <2>2 DEF Stopped, WHInv, WHTypeOK
  <2>3. CASE delivery[x].at \notin Ended \cup {"none"}
    <3> DEFINE q == [delivery[x] EXCEPT !.at = "dropped"]
    <3>1. delivery'[x] = q
      BY <2>3 DEF Stopped, WHInv, WHTypeOK
    <3>2. q \in Row /\ q.at = "dropped" /\ q.attempt = delivery[x].attempt
      BY <2>1 DEF Row, Ended
    <3>3. delivery[x].at # "delivered"
      BY <2>3 DEF Ended
    <3> HIDE DEF q
    <3> QED
      BY <2>1, <2>3, <3>1, <3>2, <3>3 DEF Sound
  <2> QED
    BY <2>2, <2>3
<1>3. delivery' = [x \in Deliveries |-> delivery'[x]]
  BY DEF Stopped, WHInv, WHTypeOK
<1> QED
  BY <1>1, <1>2, <1>3 DEF WHInv, WHTypeOK, AllSound, NotYet

LEMMA OtherStepsKeep ==
  ASSUME WHInv, names' \subseteq Address, UNCHANGED <<emitted, delivery, taken, unanswered, reached>>
  PROVE  WHInv'
  BY DEF WHInv, WHTypeOK, AllSound, Sound, NotYet

(* For any endpoints, number of attempts, changes of names and configuration and *)
(* restarts: no endpoint processes an event twice but for a lost answer, nothing *)
(* is given up early, and no connection goes to an unchecked address             *)
(* (webhooks.ts).                                                                *)
THEOREM DeliveriesHold == WHSpec => []WebhooksHold
<1>1. WHInv /\ [WHNext]_wh_vars => WHInv'
  <2> SUFFICES ASSUME WHInv, [WHNext]_wh_vars PROVE WHInv'
    OBVIOUS
  <2>1. CASE UNCHANGED wh_vars
    BY <2>1, OtherStepsKeep DEF wh_vars, WHInv, WHTypeOK
  <2>2. CASE Renamed
    BY <2>2, OtherStepsKeep DEF Renamed, Counts, WHInv, WHTypeOK
  <2>3. CASE Reconfigured
    BY <2>3, OtherStepsKeep DEF Reconfigured, Counts, WHInv, WHTypeOK
  <2>4. ASSUME NEW x \in Deliveries,
               resolveTarget(x) \/ postWithTimeout(x) \/ NextAttempt(x)
        PROVE  WHInv'
    BY <2>4, resolveTargetKeeps, postWithTimeoutKeeps, NextAttemptKeeps
  <2> QED
    BY <2>1, <2>2, <2>3, <2>4, deliverAllKeeps, StoppedKeeps DEF WHNext
<1>2. WHInv => WebhooksHold
  <2> SUFFICES ASSUME WHInv, NEW x \in Deliveries
      PROVE  /\ taken[x] <= unanswered[x] + 1
             /\ delivery[x].at = "delivered" => taken[x] = unanswered[x] + 1
             /\ delivery[x].at = "exhausted" => delivery[x].attempt = MAX_ATTEMPTS
    BY DEF WHInv, WebhooksHold
  <2>1. /\ Sound(delivery[x], taken[x], unanswered[x])
        /\ taken[x] \in Nat /\ unanswered[x] \in Nat
    BY DEF WHInv, WHTypeOK, AllSound
  <2> QED
    BY <2>1 DEF Sound
<1> QED
  BY WHInitHolds, <1>1, <1>2, PTL DEF WHSpec

------------------------------------------------------------------------------
(* Escalations                                                                  *)

Challenge ==
  [id : Nat, to : Presets, status : {"pending", "approved", "denied", "expired"}]
Ages == 0..HOUR
Verdicts == {<<>>, <<"approved">>, <<"denied">>}

EscalationTyped ==
  /\ escalations \in Seq(Challenge) /\ asked \in Seq(Ages) /\ decisions \in Seq(Verdicts)
  /\ Len(decisions) = Len(asked)
  /\ approving \in [Consoles -> Challenge] /\ raised \subseteq DOMAIN asked

(* The file holds the youngest challenges, in the order they were asked in.     *)
FileIsTheEnd ==
  /\ Len(escalations) = IF Len(asked) < MAX_HISTORY THEN Len(asked) ELSE MAX_HISTORY
  /\ \A i \in DOMAIN escalations : escalations[i].id = Len(asked) - Len(escalations) + i
  /\ \A i, j \in DOMAIN asked : i < j => asked[j] <= asked[i]

IsOpen(i) == escalations[i].status = "pending" /\ asked[escalations[i].id] <= EXPIRY
OneOpen == \A i, j \in DOMAIN escalations : IsOpen(i) /\ IsOpen(j) => i = j

DecidedOnce ==
  /\ \A i \in DOMAIN escalations :
       escalations[i].status = "pending" => decisions[escalations[i].id] = <<>>
  /\ \A c \in Consoles : approving[c] # NoRecord =>
       approving[c].id \in DOMAIN asked /\ decisions[approving[c].id] = <<"approved">>
  /\ \A id \in raised : decisions[id] = <<"approved">>

AskedOfLate == {id \in DOMAIN asked : asked[id] < HOUR}
SeldomAsked == Cardinality(AskedOfLate) <= RATE_LIMIT

CopyIsRecent == preset \in lately /\ (cacheFresh => cachedConfig \in lately)

EscalationsSound ==
  EscalationTyped /\ FileIsTheEnd /\ OneOpen /\ DecidedOnce /\ SeldomAsked /\ CopyIsRecent


LEMMA EscalationsStart == ESInit => EscalationsSound
<1> SUFFICES ASSUME ESInit PROVE EscalationsSound
  OBVIOUS
<1> USE EscalationAssumption DEF ESInit
<1>1. EscalationTyped
  BY DEF EscalationTyped, Challenge, NoRecord, Presets, Ages
<1>2. FileIsTheEnd /\ OneOpen /\ DecidedOnce
  BY DEF FileIsTheEnd, OneOpen, DecidedOnce
<1>3. AskedOfLate = {}
  BY DEF AskedOfLate
<1>4. SeldomAsked
  BY <1>3, FS_EmptySet DEF SeldomAsked
<1>5. CopyIsRecent
  BY DEF CopyIsRecent
<1>6. QED
  BY <1>1, <1>2, <1>4, <1>5 DEF EscalationsSound

Marked(e, s) == [e EXCEPT !.status = s]

LEMMA ChallengeMarked ==
  ASSUME NEW e \in Challenge, NEW s \in {"pending", "approved", "denied", "expired"}
  PROVE  Marked(e, s) \in Challenge /\ Marked(e, s).id = e.id /\ Marked(e, s).status = s
BY DEF Challenge, Marked

(* What evictExpired makes of the file.                                         *)
LEMMA EvictsOverdue ==
  ASSUME EscalationsSound
  PROVE  /\ evictExpired \in Seq(Challenge) /\ Len(evictExpired) = Len(escalations)
         /\ DOMAIN evictExpired = DOMAIN escalations
         /\ \A i \in DOMAIN escalations :
              /\ evictExpired[i].id = escalations[i].id
              /\ evictExpired[i].status = "pending" <=> IsOpen(i)
<1> USE DEF EscalationsSound, EscalationTyped
<1>1. \A i \in DOMAIN escalations :
        escalations[i] \in Challenge /\ escalations[i].id \in DOMAIN asked
        /\ asked[escalations[i].id] \in Ages
  <2> SUFFICES ASSUME NEW i \in DOMAIN escalations
               PROVE  escalations[i] \in Challenge /\ escalations[i].id \in DOMAIN asked
                      /\ asked[escalations[i].id] \in Ages
    OBVIOUS
  <2>1. escalations[i] \in Challenge /\ i \in 1..Len(escalations)
    OBVIOUS
  <2>2. Len(escalations) <= Len(asked) /\ escalations[i].id = Len(asked) - Len(escalations) + i
    BY EscalationAssumption DEF FileIsTheEnd
  <2>3. escalations[i].id \in 1..Len(asked)
    BY <2>1, <2>2
  <2>4. \A k \in 1..Len(asked) : k \in DOMAIN asked /\ asked[k] \in Ages
    OBVIOUS
  <2>5. QED
    BY <2>1, <2>3, <2>4
<1>2. \A i \in DOMAIN escalations :
        /\ evictExpired[i] \in Challenge
        /\ evictExpired[i].id = escalations[i].id
        /\ evictExpired[i].status = "pending" <=> IsOpen(i)
  <2> SUFFICES ASSUME NEW i \in DOMAIN escalations
               PROVE  /\ evictExpired[i] \in Challenge
                      /\ evictExpired[i].id = escalations[i].id
                      /\ evictExpired[i].status = "pending" <=> IsOpen(i)
    OBVIOUS
  <2>1. CASE Overdue(escalations[i])
    <3>1. evictExpired[i] = [escalations[i] EXCEPT !.status = "expired"]
      BY <2>1 DEF evictExpired
    <3>2. PICK e \in Challenge : e = escalations[i]
      BY <1>1
    <3>3. evictExpired[i] \in Challenge /\ evictExpired[i].id = e.id /\ evictExpired[i].status = "expired"
      <4>1. evictExpired[i] = Marked(e, "expired")
        BY <3>1, <3>2, Zenon DEF Marked
      <4>2. QED
        BY <4>1, <3>2, ChallengeMarked
    <3>4. ~IsOpen(i)
      BY <2>1, <1>1, EscalationAssumption DEF Overdue, IsOpen, Ages
    <3>5. QED
      BY <3>2, <3>3, <3>4
  <2>2. CASE ~Overdue(escalations[i])
    <3>1. evictExpired[i] = escalations[i]
      BY <2>2 DEF evictExpired
    <3>2. QED
      BY <3>1, <2>2, <1>1, EscalationAssumption DEF Overdue, IsOpen, Ages
  <2>3. QED
    BY <2>1, <2>2
<1>3. DOMAIN evictExpired = DOMAIN escalations /\ DOMAIN evictExpired = 1..Len(escalations)
  BY DEF evictExpired
<1>4. evictExpired \in [1..Len(escalations) -> Challenge]
  BY <1>2, <1>3 DEF evictExpired
<1>5. evictExpired \in Seq(Challenge)
  BY SMTT(20), <1>4
<1>6. QED
  BY <1>2, <1>3, <1>5

(* The file is saved with the same challenges, of which none opens again.       *)
LEMMA FileKept ==
  ASSUME EscalationsSound, asked' = asked, escalations' \in Seq(Challenge),
         Len(escalations') = Len(escalations),
         \A i \in DOMAIN escalations :
           escalations'[i].id = escalations[i].id /\ (escalations'[i].status = "pending" => IsOpen(i))
  PROVE  FileIsTheEnd' /\ OneOpen' /\ SeldomAsked'
<1> USE DEF EscalationsSound, EscalationTyped
<1>1. DOMAIN escalations' = DOMAIN escalations
  OBVIOUS
<1>2. FileIsTheEnd'
  BY <1>1 DEF FileIsTheEnd
<1>3. OneOpen'
  BY <1>1 DEF OneOpen, IsOpen
<1>4. SeldomAsked'
  BY DEF SeldomAsked, AskedOfLate
<1>5. QED
  BY <1>2, <1>3, <1>4

LEMMA Sweeping ==
  ASSUME EscalationsSound, escalations' = evictExpired,
         UNCHANGED <<asked, preset, approving, decisions, raised, lately, cachedConfig, cacheFresh>>
  PROVE  EscalationsSound'
<1>1. FileIsTheEnd' /\ OneOpen' /\ SeldomAsked'
  BY EvictsOverdue, FileKept
<1>2. EscalationTyped' /\ DecidedOnce' /\ CopyIsRecent'
  BY EvictsOverdue DEF EscalationsSound, EscalationTyped, DecidedOnce, IsOpen, CopyIsRecent
<1>3. QED
  BY <1>1, <1>2 DEF EscalationsSound

LEMMA Deciding ==
  ASSUME EscalationsSound, NEW i \in DOMAIN escalations, NEW d \in {"approved", "denied"},
         Decidable(i), Decided(i, d),
         UNCHANGED <<asked, preset, raised, lately, cachedConfig, cacheFresh>>,
         \/ approving' = approving
         \/ d = "approved" /\ \E c \in Consoles : approving' = [approving EXCEPT ![c] = escalations[i]]
  PROVE  EscalationsSound'
<1> USE DEF EscalationsSound, EscalationTyped
<1> DEFINE id == escalations[i].id
<1>1. /\ escalations' \in Seq(Challenge) /\ Len(escalations') = Len(escalations)
      /\ \A j \in DOMAIN escalations :
           /\ escalations'[j].id = escalations[j].id
           /\ escalations'[j].status = "pending" => j # i /\ IsOpen(j)
  <2>1. PICK e \in Challenge : e = evictExpired[i]
    BY EvictsOverdue
  <2>2. escalations' = [evictExpired EXCEPT ![i] = Marked(e, d)]
    BY <2>1, Zenon DEF Decided, Marked
  <2>3. PICK r \in Challenge : r = Marked(e, d) /\ r.id = e.id /\ r.status = d
    BY <2>1, ChallengeMarked
  <2>4. escalations' = [evictExpired EXCEPT ![i] = r]
    BY <2>2, <2>3
  <2>5. QED
    BY <2>1, <2>3, <2>4, EvictsOverdue
<1>2. FileIsTheEnd' /\ OneOpen' /\ SeldomAsked'
  BY <1>1, FileKept
<1>3. IsOpen(i) /\ id \in DOMAIN asked
  BY EvictsOverdue, EscalationAssumption DEF Decidable, FileIsTheEnd
<1>4. decisions[id] = <<>> /\ ~Overdue(escalations[i])
  BY <1>3, EscalationAssumption DEF DecidedOnce, IsOpen, Overdue, Ages
<1>5. decisions' = [decisions EXCEPT ![id] = <<d>>]
  BY <1>4 DEF Decided
<1>6. /\ decisions' \in Seq(Verdicts) /\ Len(decisions') = Len(decisions)
      /\ decisions'[id] = <<d>> /\ \A k \in DOMAIN asked \ {id} : decisions'[k] = decisions[k]
  BY <1>3, <1>5 DEF Verdicts
<1>7. approving' \in [Consoles -> Challenge]
  BY DEF EscalationTyped
<1>8. EscalationTyped'
  BY <1>1, <1>6, <1>7
<1>9. \A k \in DOMAIN asked : decisions[k] = <<"approved">> => k # id
  <2>1. Len(<<>>) = 0 /\ Len(<<"approved">>) = 1
    OBVIOUS
  <2>2. <<>> # <<"approved">>
    BY <2>1
  <2>3. QED
    BY <2>2, <1>4
<1>10. DecidedOnce'
  <2>1. \A j \in DOMAIN escalations' :
          escalations'[j].status = "pending" => decisions'[escalations'[j].id] = <<>>
    <3> SUFFICES ASSUME NEW j \in DOMAIN escalations, escalations'[j].status = "pending"
                 PROVE  decisions'[escalations[j].id] = <<>>
      BY <1>1
    <3>1. j # i /\ IsOpen(j)
      BY <1>1
    <3>2. escalations[j].id # id /\ escalations[j].id \in DOMAIN asked
      BY <3>1, EscalationAssumption DEF FileIsTheEnd
    <3>3. QED
      BY <3>1, <3>2, <1>6 DEF DecidedOnce, IsOpen
  <2>2. \A c \in Consoles : approving'[c] # NoRecord =>
          approving'[c].id \in DOMAIN asked' /\ decisions'[approving'[c].id] = <<"approved">>
    <3> SUFFICES ASSUME NEW c \in Consoles, approving'[c] # NoRecord
                 PROVE  approving'[c].id \in DOMAIN asked /\ decisions'[approving'[c].id] = <<"approved">>
      OBVIOUS
    <3>1. approving'[c] = approving[c] \/ (d = "approved" /\ approving'[c] = escalations[i])
      OBVIOUS
    <3>2. QED
      BY ZenonT(40), <3>1, <1>3, <1>6, <1>9 DEF DecidedOnce
  <2>3. \A k \in raised' : decisions'[k] = <<"approved">>
    BY <1>6, <1>9 DEF DecidedOnce
  <2>4. QED
    BY <2>1, <2>2, <2>3 DEF DecidedOnce
<1>11. CopyIsRecent'
  BY DEF CopyIsRecent
<1>12. QED
  BY <1>2, <1>8, <1>10, <1>11

LEMMA OneTo ==
  ASSUME NEW n \in Nat
  PROVE  IsFiniteSet(1..n) /\ Cardinality(1..n) = n
BY FS_Interval

LEMMA OneMore ==
  ASSUME NEW A, IsFiniteSet(A), NEW e, NEW n \in Nat, Cardinality(A) < n
  PROVE  Cardinality(A \cup {e}) <= n
<1>1. Cardinality(A) \in Nat
  BY FS_CardinalityType
<1>2. Cardinality(A \cup {e}) = Cardinality(A) \/ Cardinality(A \cup {e}) = Cardinality(A) + 1
  BY FS_AddElement
<1>3. QED
  BY <1>1, <1>2

LEMMA Appended ==
  ASSUME NEW S, NEW s \in Seq(S), NEW e \in S
  PROVE  /\ Append(s, e) \in Seq(S) /\ Len(Append(s, e)) = Len(s) + 1
         /\ Append(s, e)[Len(s) + 1] = e /\ \A i \in 1..Len(s) : Append(s, e)[i] = s[i]
OBVIOUS

(* The challenges of the last hour are all still in the file, unless they are   *)
(* as many as the file holds: counting those in it is enough.                   *)
LEMMA FileCountsTheHour ==
  ASSUME EscalationsSound, Recent < RATE_LIMIT
  PROVE  IsFiniteSet(AskedOfLate) /\ Cardinality(AskedOfLate) < RATE_LIMIT
<1> USE DEF EscalationsSound, EscalationTyped
<1> DEFINE S == {i \in DOMAIN escalations : asked[escalations[i].id] < HOUR}
           f == [i \in S |-> escalations[i].id]
           k == Len(asked) - Len(escalations)
<1>1. /\ DOMAIN escalations = 1..Len(escalations) /\ DOMAIN asked = 1..Len(asked)
      /\ Len(escalations) \in Nat /\ Len(asked) \in Nat
  OBVIOUS
<1>2. k \in Nat /\ (k > 0 => Len(escalations) = MAX_HISTORY)
  BY <1>1, EscalationAssumption DEF FileIsTheEnd
<1>3. \A i \in DOMAIN escalations : escalations[i].id = k + i
  BY DEF FileIsTheEnd
<1>4. IsFiniteSet(DOMAIN escalations) /\ Cardinality(DOMAIN escalations) = Len(escalations)
  BY <1>1, OneTo
<1>5. IsFiniteSet(S)
  BY <1>4, FS_Subset
<1>6. Recent = Cardinality(S) /\ Cardinality(S) \in Nat
  BY <1>5, FS_CardinalityType DEF Recent
<1>7. \A id \in AskedOfLate : \E i \in S : f[i] = id
  <2> SUFFICES ASSUME NEW id \in AskedOfLate PROVE \E i \in S : f[i] = id
    OBVIOUS
  <2>1. id \in 1..Len(asked) /\ asked[id] < HOUR
    BY <1>1 DEF AskedOfLate
  <2>2. CASE id > k
    <3>1. id - k \in DOMAIN escalations
      BY <1>1, <1>2, <2>1, <2>2
    <3>2. escalations[id - k].id = id
      BY <1>2, <1>3, <2>1, <3>1
    <3>3. id - k \in S
      BY <2>1, <3>1, <3>2
    <3>4. QED
      BY <3>2, <3>3
  <2>3. CASE ~(id > k)
    <3>1. \A i \in DOMAIN escalations : i \in S
      <4> SUFFICES ASSUME NEW i \in DOMAIN escalations PROVE asked[escalations[i].id] < HOUR
        OBVIOUS
      <4>1. k + i \in 1..Len(asked) /\ id < k + i
        BY <1>1, <1>2, <2>1, <2>3
      <4>2. asked[k + i] <= asked[id]
        BY <4>1, <1>1, <2>1 DEF FileIsTheEnd
      <4>3. asked[k + i] \in Ages /\ asked[id] \in Ages
        BY <4>1, <1>1, <2>1
      <4>4. QED
        BY SMTT(20), <4>2, <4>3, <2>1, <1>3, EscalationAssumption DEF Ages
    <3>2. S = DOMAIN escalations
      BY <3>1
    <3>3. Recent = MAX_HISTORY
      BY <3>2, <1>2, <1>4, <1>6, <2>1, <2>3
    <3>4. QED
      BY <3>3, EscalationAssumption
  <2>4. QED
    BY <2>2, <2>3
<1>8. \A i \in S : f[i] \in AskedOfLate
  <2> SUFFICES ASSUME NEW i \in S PROVE escalations[i].id \in AskedOfLate
    OBVIOUS
  <2>1. escalations[i].id \in 1..Len(asked)
    BY <1>1, <1>2, <1>3
  <2>2. QED
    BY <2>1, <1>1 DEF AskedOfLate
<1>9. f \in Surjection(S, AskedOfLate)
  BY <1>7, <1>8 DEF Surjection
<1>10. IsFiniteSet(AskedOfLate) /\ Cardinality(AskedOfLate) <= Cardinality(S)
  BY <1>5, <1>9, FS_Surjection
<1>11. QED
  BY <1>6, <1>10, FS_CardinalityType, EscalationAssumption

LEMMA NoneIsOpen ==
  ASSUME EscalationsSound, Pending < MAX_PENDING
  PROVE  \A i \in DOMAIN escalations : evictExpired[i].status # "pending"
<1> DEFINE P == {i \in DOMAIN escalations : evictExpired[i].status = "pending"}
<1>1. DOMAIN escalations = 1..Len(escalations) /\ Len(escalations) \in Nat
  BY DEF EscalationsSound, EscalationTyped
<1>2. IsFiniteSet(P)
  <2>1. IsFiniteSet(DOMAIN escalations) /\ P \subseteq DOMAIN escalations
    BY <1>1, OneTo
  <2>2. QED
    BY <2>1, FS_Subset
<1>3. Cardinality(P) = 0
  <2>1. Cardinality(P) \in Nat
    BY <1>2, FS_CardinalityType
  <2>2. Cardinality(P) < 1
    BY DEF Pending, MAX_PENDING
  <2>3. QED
    BY <2>1, <2>2
<1>4. QED
  BY <1>2, <1>3, FS_EmptySet

LEMMA Requesting ==
  ASSUME EscalationsSound, NEW to \in Presets, Request(to)
  PROVE  EscalationsSound'
<1> USE DEF EscalationsSound, EscalationTyped
<1>1. UNCHANGED <<preset, approving, raised, lately, cachedConfig, cacheFresh>>
  BY DEF Request, Gate
<1>2. CASE ~(isUpgrade(preset, to) /\ Recent < RATE_LIMIT /\ Pending < MAX_PENDING)
  <2>1. escalations' = evictExpired /\ UNCHANGED <<asked, decisions>>
    BY <1>2 DEF Request
  <2>2. QED
    BY <1>1, <2>1, Sweeping
<1>3. CASE isUpgrade(preset, to) /\ Recent < RATE_LIMIT /\ Pending < MAX_PENDING
  <2>1. PICK n \in Nat, l \in Nat : n = Len(asked) /\ l = Len(escalations)
    OBVIOUS
  <2>2. l = (IF n < MAX_HISTORY THEN n ELSE MAX_HISTORY)
    BY <2>1 DEF FileIsTheEnd
  <2> DEFINE r == [id |-> n + 1, to |-> to, status |-> "pending"]
             s == Append(evictExpired, r)
             off == IF l + 1 > MAX_HISTORY THEN 1 ELSE 0
  <2>3. escalations' = Trimmed(s) /\ asked' = Append(asked, 0) /\ decisions' = Append(decisions, <<>>)
    BY <1>3, <2>1 DEF Request
  <2>4. r \in Challenge /\ r.id = n + 1 /\ r.status = "pending"
    BY DEF Challenge
  <2> HIDE DEF r
  <2>5. /\ s \in Seq(Challenge) /\ Len(s) = l + 1 /\ s[l + 1] = r
        /\ \A i \in 1..l : s[i].id = n - l + i /\ s[i].status # "pending"
    <3>1. DOMAIN escalations = 1..l
      BY <2>1
    <3>2. evictExpired \in Seq(Challenge) /\ Len(evictExpired) = l
      BY EvictsOverdue, <2>1
    <3>3. \A i \in 1..l : evictExpired[i].id = n - l + i /\ evictExpired[i].status # "pending"
      <4>1. \A i \in 1..l : evictExpired[i].id = escalations[i].id
        BY <3>1, EvictsOverdue
      <4>2. \A i \in 1..l : escalations[i].id = n - l + i
        BY <3>1, <2>1 DEF FileIsTheEnd
      <4>3. \A i \in 1..l : evictExpired[i].status # "pending"
        BY <3>1, <1>3, NoneIsOpen
      <4>4. QED
        BY <4>1, <4>2, <4>3
    <3>4. /\ s \in Seq(Challenge) /\ Len(s) = l + 1 /\ s[l + 1] = r
          /\ \A i \in 1..l : s[i] = evictExpired[i]
      BY <3>2, <2>4, Appended
    <3>5. QED
      BY <3>3, <3>4
  <2> HIDE DEF s
  <2>6. /\ escalations' \in Seq(Challenge) /\ Len(escalations') = l + 1 - off
        /\ \A i \in 1..(l + 1 - off) : escalations'[i] = s[i + off]
    <3>1. CASE l + 1 > MAX_HISTORY
      <4>1. s # <<>> /\ escalations' = Tail(s) /\ off = 1
        BY <3>1, <2>3, <2>5 DEF Trimmed
      <4>2. QED
        BY <4>1, <2>5
    <3>2. CASE ~(l + 1 > MAX_HISTORY)
      <4>1. escalations' = s /\ off = 0
        BY <3>2, <2>3, <2>5 DEF Trimmed
      <4>2. QED
        BY <4>1, <2>5
    <3>3. QED
      BY <3>1, <3>2
  <2>7. off \in {0, 1} /\ l + 1 - off = (IF n + 1 < MAX_HISTORY THEN n + 1 ELSE MAX_HISTORY)
    BY <2>2, EscalationAssumption
  <2> HIDE DEF off
  <2>8. PICK m \in Nat : m = l + 1 - off
    BY <2>7
  <2>9. DOMAIN escalations' = 1..m
    BY <2>6, <2>8
  <2>10. \A i \in 1..m :
           /\ escalations'[i].id = (n + 1) - m + i
           /\ escalations'[i].status = "pending" => i = m
    <3> SUFFICES ASSUME NEW i \in 1..m
                 PROVE  /\ escalations'[i].id = (n + 1) - m + i
                        /\ escalations'[i].status = "pending" => i = m
      OBVIOUS
    <3>1. PICK j \in 1..(l + 1) : j = i + off
      BY <2>7, <2>8
    <3>2. escalations'[i] = s[j]
      BY <2>6, <2>8, <3>1
    <3>3. CASE j = l + 1
      BY <3>1, <3>2, <3>3, <2>4, <2>5, <2>7, <2>8
    <3>4. CASE j # l + 1
      <4>1. j \in 1..l
        BY <3>1, <3>4
      <4>2. s[j].id = n - l + j /\ s[j].status # "pending"
        BY <4>1, <2>5
      <4>3. QED
        BY <4>2, <3>1, <3>2, <2>7, <2>8
    <3>5. QED
      BY <3>3, <3>4
  <2>11. /\ asked' \in Seq(Ages) /\ Len(asked') = n + 1 /\ asked'[n + 1] = 0
         /\ \A i \in 1..n : asked'[i] = asked[i]
    <3>1. 0 \in Ages
      BY EscalationAssumption DEF Ages
    <3>2. QED
      BY <3>1, <2>1, <2>3, Appended
  <2>12. /\ decisions' \in Seq(Verdicts) /\ Len(decisions') = n + 1 /\ decisions'[n + 1] = <<>>
         /\ \A i \in 1..n : decisions'[i] = decisions[i]
    <3>1. <<>> \in Verdicts
      BY DEF Verdicts
    <3>2. QED
      BY <3>1, <2>1, <2>3, Appended
  <2>13. DOMAIN asked = 1..n /\ DOMAIN asked' = 1..(n + 1) /\ \A i \in 1..n : asked[i] \in Ages
    BY <2>1, <2>11
  <2>14. EscalationTyped'
    BY <1>1, <2>6, <2>11, <2>12, <2>13
  <2>15. FileIsTheEnd'
    <3>1. \A i, j \in DOMAIN asked' : i < j => asked'[j] <= asked'[i]
      <4>1. \A i, j \in 1..n : i < j => asked'[j] <= asked'[i]
        BY <2>11, <2>13 DEF FileIsTheEnd
      <4>2. \A i \in 1..n : 0 <= asked'[i]
        BY <2>11, <2>13, EscalationAssumption DEF Ages
      <4>3. \A i, j \in 1..(n + 1) : i < j => i \in 1..n /\ (j \in 1..n \/ j = n + 1)
        OBVIOUS
      <4>4. QED
        BY <4>1, <4>2, <4>3, <2>11, <2>13
    <3>2. Len(escalations') = (IF Len(asked') < MAX_HISTORY THEN Len(asked') ELSE MAX_HISTORY)
      BY <2>6, <2>7, <2>11
    <3>3. \A i \in DOMAIN escalations' : escalations'[i].id = Len(asked') - Len(escalations') + i
      BY <2>6, <2>8, <2>9, <2>10, <2>11
    <3>4. QED
      BY <3>1, <3>2, <3>3 DEF FileIsTheEnd
  <2>16. OneOpen'
    BY <2>9, <2>10 DEF OneOpen, IsOpen
  <2>17. DecidedOnce'
    <3>1. \A i \in DOMAIN escalations' :
            escalations'[i].status = "pending" => decisions'[escalations'[i].id] = <<>>
      <4> SUFFICES ASSUME NEW i \in 1..m, escalations'[i].status = "pending"
                   PROVE  decisions'[escalations'[i].id] = <<>>
        BY <2>9
      <4>1. escalations'[i].id = n + 1
        BY <2>8, <2>10
      <4>2. QED
        BY <4>1, <2>12
    <3>2. \A c \in Consoles : approving'[c] # NoRecord =>
            approving'[c].id \in DOMAIN asked' /\ decisions'[approving'[c].id] = <<"approved">>
      BY <1>1, <2>12, <2>13 DEF DecidedOnce
    <3>3. \A id \in raised' : decisions'[id] = <<"approved">>
      BY <1>1, <2>12, <2>13 DEF DecidedOnce
    <3>4. QED
      BY <3>1, <3>2, <3>3 DEF DecidedOnce
  <2>18. SeldomAsked'
    <3>1. AskedOfLate' = AskedOfLate \cup {n + 1}
      <4>1. 0 < HOUR
        BY EscalationAssumption
      <4>2. QED
        BY <4>1, <2>11, <2>13 DEF AskedOfLate
    <3>2. PICK A : A = AskedOfLate
      OBVIOUS
    <3>3. IsFiniteSet(A) /\ Cardinality(A) < RATE_LIMIT
      BY <1>3, <3>2, FileCountsTheHour
    <3>4. Cardinality(A \cup {n + 1}) <= RATE_LIMIT
      BY <3>3, OneMore, EscalationAssumption
    <3>5. QED
      BY <3>1, <3>2, <3>4 DEF SeldomAsked
  <2>19. CopyIsRecent'
    BY <1>1 DEF CopyIsRecent
  <2>20. QED
    BY <2>14, <2>15, <2>16, <2>17, <2>18, <2>19
<1>4. QED
  BY <1>2, <1>3

(* Time passes: what was asked grows older, and no younger than what came later.*)
LEMMA OlderAges ==
  ASSUME NEW n \in Ages
  PROVE  Older(n) \in Ages /\ n <= Older(n) /\ \A m \in Ages : m <= n => Older(m) <= Older(n)
BY EscalationAssumption DEF Ages, Older

LEMMA Ticking ==
  ASSUME EscalationsSound, Tick
  PROVE  EscalationsSound'
<1> USE DEF EscalationsSound, EscalationTyped
<1>1. UNCHANGED <<escalations, preset, approving, decisions, raised>>
  BY DEF Tick
<1>2. PICK n \in Nat : n = Len(asked)
  OBVIOUS
<1>3. DOMAIN asked = 1..n /\ \A i \in 1..n : asked[i] \in Ages
  BY <1>2
<1>4. asked' = [i \in 1..n |-> Older(asked[i])]
  BY <1>3 DEF Tick
<1>5. /\ asked' \in Seq(Ages) /\ Len(asked') = n /\ DOMAIN asked' = 1..n
      /\ \A i \in 1..n : asked'[i] = Older(asked[i]) /\ asked'[i] \in Ages /\ asked[i] <= asked'[i]
  <2>1. \A i \in 1..n : asked'[i] = Older(asked[i]) /\ asked'[i] \in Ages /\ asked[i] <= asked'[i]
    BY <1>3, <1>4, OlderAges
  <2>2. asked' \in [1..n -> Ages]
    BY <1>4, <2>1
  <2>3. QED
    BY <2>1, <2>2
<1>6. EscalationTyped'
  BY <1>1, <1>2, <1>3, <1>5
<1>7. FileIsTheEnd'
  <2>1. \A i, j \in 1..n : i < j => asked'[j] <= asked'[i]
    <3> SUFFICES ASSUME NEW i \in 1..n, NEW j \in 1..n, i < j PROVE asked'[j] <= asked'[i]
      OBVIOUS
    <3>1. asked[j] <= asked[i]
      BY <1>3 DEF FileIsTheEnd
    <3>2. QED
      BY <3>1, <1>3, <1>5, OlderAges
  <2>2. QED
    BY <2>1, <1>1, <1>2, <1>5 DEF FileIsTheEnd
<1>8. \A i \in DOMAIN escalations : escalations[i].id \in 1..n
  <2> SUFFICES ASSUME NEW i \in DOMAIN escalations PROVE escalations[i].id \in 1..n
    OBVIOUS
  <2>1. Len(escalations) \in Nat /\ i \in 1..Len(escalations) /\ Len(escalations) <= n
    BY <1>2, EscalationAssumption DEF FileIsTheEnd
  <2>2. escalations[i].id = n - Len(escalations) + i
    BY <1>2 DEF FileIsTheEnd
  <2>3. QED
    BY <2>1, <2>2
<1>9. OneOpen'
  <2>1. \A i \in DOMAIN escalations : IsOpen(i)' => IsOpen(i)
    BY <1>1, <1>3, <1>5, <1>8, EscalationAssumption DEF IsOpen, Ages
  <2>2. QED
    BY <1>1, <2>1 DEF OneOpen
<1>10. DecidedOnce'
  BY <1>1, <1>3, <1>5 DEF DecidedOnce
<1>11. SeldomAsked'
  <2>1. AskedOfLate' \subseteq AskedOfLate
    BY <1>3, <1>5, EscalationAssumption DEF AskedOfLate, Ages
  <2>2. IsFiniteSet(AskedOfLate)
    <3>1. IsFiniteSet(1..n) /\ AskedOfLate \subseteq 1..n
      BY OneTo, <1>3 DEF AskedOfLate
    <3>2. QED
      BY <3>1, FS_Subset
  <2>3. IsFiniteSet(AskedOfLate') /\ Cardinality(AskedOfLate') <= Cardinality(AskedOfLate)
    BY <2>1, <2>2, FS_Subset
  <2>4. Cardinality(AskedOfLate') \in Nat /\ Cardinality(AskedOfLate) \in Nat
    BY <2>2, <2>3, FS_CardinalityType
  <2>5. QED
    BY <2>3, <2>4, EscalationAssumption DEF SeldomAsked
<1>12. CopyIsRecent'
  <2>1. cacheFresh' = FALSE
    BY Zenon DEF Tick
  <2>2. preset' \in lately'
    BY DEF Tick
  <2>3. QED
    BY <2>1, <2>2, Zenon DEF CopyIsRecent
<1>13. QED
  BY <1>6, <1>7, <1>9, <1>10, <1>11, <1>12

(* The file and the decisions are left alone.                                   *)
LEMMA PresetChanges ==
  ASSUME EscalationsSound, UNCHANGED <<escalations, asked, decisions>>,
         approving' \in [Consoles -> Challenge],
         \A c \in Consoles : approving'[c] = approving[c] \/ approving'[c] = NoRecord,
         \A id \in raised' : id \in raised \/
           \E c \in Consoles : approving[c] # NoRecord /\ id = approving[c].id,
         CopyIsRecent'
  PROVE  EscalationsSound'
<1> USE DEF EscalationsSound, EscalationTyped
<1>1. \A id \in raised' : id \in DOMAIN asked /\ decisions[id] = <<"approved">>
  BY DEF DecidedOnce
<1>2. EscalationTyped'
  BY <1>1
<1>3. FileIsTheEnd' /\ OneOpen' /\ SeldomAsked'
  BY DEF FileIsTheEnd, OneOpen, IsOpen, SeldomAsked, AskedOfLate
<1>4. DecidedOnce'
  BY <1>1 DEF DecidedOnce
<1>5. QED
  BY <1>2, <1>3, <1>4

LEMMA EscalationsStep ==
  ASSUME EscalationsSound, [ESNext]_es_vars
  PROVE  EscalationsSound'
<1>1. NoRecord \in Challenge
  BY DEF NoRecord, Challenge, Presets
<1>2. approving \in [Consoles -> Challenge]
  BY DEF EscalationsSound, EscalationTyped
<1>3. ASSUME NEW to \in Presets \ {"read_only"}, Request(to) PROVE EscalationsSound'
  BY <1>3, Requesting
<1>4. CASE Sweeps
  BY <1>4, Sweeping DEF Sweeps, Gate
<1>5. CASE Check
  <2>1. UNCHANGED <<escalations, asked, preset, approving, decisions, raised, lately>>
    BY <1>5 DEF Check
  <2>2. cachedConfig' = Config
    BY <1>5 DEF Check
  <2>3. CopyIsRecent'
    BY <2>1, <2>2 DEF EscalationsSound, CopyIsRecent, Config
  <2>4. QED
    BY <1>2, <2>1, <2>3, PresetChanges
<1>6. CASE Tick
  BY <1>6, Ticking
<1>7. ASSUME NEW i \in DOMAIN escalations, Deny(i) PROVE EscalationsSound'
  <2>1. Decidable(i) /\ Decided(i, "denied")
    BY <1>7 DEF Deny
  <2>2. UNCHANGED <<asked, preset, approving, raised, lately, cachedConfig, cacheFresh>>
    BY <1>7 DEF Deny, Gate
  <2>3. QED
    BY <2>1, <2>2, Deciding
<1>8. ASSUME NEW i \in DOMAIN escalations, NEW c \in Consoles, Approve(c, i) PROVE EscalationsSound'
  <2>1. Decidable(i) /\ Decided(i, "approved") /\ approving' = [approving EXCEPT ![c] = escalations[i]]
    BY <1>8 DEF Approve
  <2>2. UNCHANGED <<asked, preset, raised, lately, cachedConfig, cacheFresh>>
    BY <1>8 DEF Approve, Gate
  <2>3. QED
    BY <2>1, <2>2, Deciding
<1>9. ASSUME NEW c \in Consoles, Apply(c) PROVE EscalationsSound'
  <2>1. approving[c] # NoRecord /\ approving' = [approving EXCEPT ![c] = NoRecord]
    BY <1>9 DEF Apply
  <2>2. UNCHANGED <<escalations, asked, decisions, cachedConfig, cacheFresh>>
    BY <1>9 DEF Apply, Gate
  <2>3. \/ preset' = approving[c].to /\ lately' = lately \cup {approving[c].to}
           /\ raised' = raised \cup {approving[c].id}
        \/ UNCHANGED <<preset, lately, raised>>
    BY <1>9 DEF Apply, Saved
  <2>4. CopyIsRecent'
    BY <2>2, <2>3 DEF EscalationsSound, CopyIsRecent
  <2>5. \A id \in raised' : id \in raised \/ id = approving[c].id
    BY <2>3
  <2>6. approving' \in [Consoles -> Challenge]
        /\ \A d \in Consoles : approving'[d] = approving[d] \/ approving'[d] = NoRecord
    BY <1>1, <1>2, <2>1
  <2>7. QED
    BY <2>1, <2>2, <2>4, <2>5, <2>6, PresetChanges
<1>10. ASSUME NEW p \in Presets, SetPreset(p) PROVE EscalationsSound'
  <2>1. UNCHANGED <<escalations, asked, approving, decisions, raised, cachedConfig, cacheFresh>>
    BY <1>10 DEF SetPreset, Gate
  <2>2. CopyIsRecent'
    BY <1>10, <2>1 DEF SetPreset, Saved, EscalationsSound, CopyIsRecent
  <2>3. QED
    BY <1>2, <2>1, <2>2, PresetChanges
<1>11. CASE UNCHANGED es_vars
  <2>1. UNCHANGED <<escalations, asked, preset, approving, decisions, raised, lately, cachedConfig, cacheFresh>>
    BY <1>11 DEF es_vars
  <2>2. CopyIsRecent'
    BY <2>1 DEF EscalationsSound, CopyIsRecent
  <2>3. QED
    BY <1>2, <2>1, <2>2, PresetChanges
<1>12. QED
  BY <1>3, <1>4, <1>5, <1>6, <1>7, <1>8, <1>9, <1>10, <1>11 DEF ESNext

LEMMA EscalationsHold ==
  ASSUME EscalationsSound
  PROVE  PermissionsHold
<1> USE DEF EscalationsSound, EscalationTyped
<1> DEFINE P == {i \in DOMAIN escalations : evictExpired[i].status = "pending"}
<1>1. \A id \in DOMAIN decisions : decisions[id] \in Verdicts
  OBVIOUS
<1>2. \A id \in raised : decisions[id] = <<"approved">>
  BY DEF DecidedOnce
<1>3. Cardinality(P) <= 1
  <2>1. \A i, j \in P : i = j
    BY EvictsOverdue DEF OneOpen
  <2>2. CASE P = {}
    <3>1. Cardinality(P) = 0
      BY <2>2, FS_EmptySet
    <3>2. QED
      BY <3>1
  <2>3. CASE P # {}
    <3>1. PICK i \in P : P = {i}
      BY <2>1, <2>3
    <3>2. Cardinality(P) = 1
      BY <3>1, FS_Singleton
    <3>3. QED
      BY <3>2
  <2>4. QED
    BY <2>2, <2>3
<1>4. Pending <= MAX_PENDING
  BY <1>3 DEF Pending, MAX_PENDING
<1>5. ChallengesHold
  BY <1>1, <1>2, <1>4 DEF ChallengesHold, Verdicts, SeldomAsked, AskedOfLate
<1>6. QED
  BY <1>5 DEF PermissionsHold, LoweredPresetBinds, CopyIsRecent

(* A challenge is decided at most once and in time, by one console; only an     *)
(* approved one changed the preset; one is open at a time and no more than the  *)
(* limit are asked in an hour; and a lowered preset binds the tools within a    *)
(* cache period.                                                                *)
THEOREM EscalationsAreSound == ESSpec => []PermissionsHold
<1>1. ESSpec => []EscalationsSound
  BY EscalationsStart, EscalationsStep, PTL DEF ESSpec
<1>2. QED
  BY <1>1, EscalationsHold, PTL

------------------------------------------------------------------------------
(* The daemon and its watchdog                                                  *)

Stages == {"off", "locking", "writing", "building", "starting", "connecting", "connected", "serving"}
Shutdowns == {"no", "stopping_ui", "closing", "released", "exiting"}
Past == {"released", "exiting"}  \* the lock is given back

DaemonTyped ==
  /\ lockFile \in Pids \cup {NoPid, Unwritten} /\ pid \in [Instances -> Pids \cup {NoPid}]
  /\ boot \in [Instances -> Stages] /\ down \in [Instances -> Shutdowns]
  /\ connected \subseteq Instances /\ retired \subseteq Instances

(* Of instance i: what it has, depending on how far it is.                      *)
Tenure(i) ==
  /\ boot[i] = "off" <=> pid[i] = NoPid
  /\ boot[i] \in {"off", "locking", "writing"} => down[i] = "no" /\ i \notin retired /\ i \notin connected
  /\ boot[i] = "writing" => lockFile = Unwritten
  /\ boot[i] \notin {"off", "locking", "writing"} /\ down[i] \notin Past => lockFile = pid[i]
  /\ down[i] \in Past => i \in retired /\ i \notin connected

(* Two processes differ in their pids, and one of them at most writes the file. *)
Apart(i, j) ==
  /\ pid[i] = pid[j] => pid[i] = NoPid
  /\ ~(boot[i] = "writing" /\ boot[j] = "writing")

DaemonSound ==
  /\ DaemonTyped
  /\ \A i \in Instances : Tenure(i)
  /\ \A i, j \in Instances : i # j => Apart(i, j)


LEMMA DaemonStarts == DMInit => DaemonSound
BY DaemonAssumption DEF DMInit, DaemonSound, DaemonTyped, Tenure, Apart, Stages, Shutdowns, Past

(* A step of one instance disturbs no other that holds the lock or writes it.   *)
OthersKeep(i) ==
  \A j \in Instances \ {i} :
    /\ pid'[j] = pid[j] /\ boot'[j] = boot[j] /\ down'[j] = down[j]
    /\ j \in connected' <=> j \in connected
    /\ j \in retired' <=> j \in retired
    /\ boot[j] = "writing" => lockFile' = Unwritten
    /\ boot[j] \notin {"off", "locking", "writing"} /\ down[j] \notin Past => lockFile' = pid[j]

LEMMA InstanceSteps ==
  ASSUME DaemonSound, NEW i \in Instances, DaemonTyped', OthersKeep(i), Tenure(i)',
         \A j \in Instances \ {i} : Apart(i, j)'
  PROVE  DaemonSound'
<1>1. \A j \in Instances : Tenure(j)'
  BY DEF DaemonSound, OthersKeep, Tenure
<1>2. \A j, k \in Instances : j # k => Apart(j, k)'
  <2> SUFFICES ASSUME NEW j \in Instances, NEW k \in Instances, j # k PROVE Apart(j, k)'
    OBVIOUS
  <2>1. CASE j # i /\ k # i
    BY <2>1 DEF DaemonSound, OthersKeep, Apart
  <2>2. CASE j = i
    BY <2>2
  <2>3. CASE k = i
    BY <2>3 DEF Apart
  <2>4. QED
    BY <2>1, <2>2, <2>3
<1>3. QED
  BY <1>1, <1>2 DEF DaemonSound

(* The start of an instance.                                                    *)
LEMMA BootKeepsTheLock ==
  ASSUME DaemonSound, NEW i \in Instances,
         Start(i) \/ Create(i) \/ WritePid(i) \/ Already(i)
  PROVE  DaemonSound'
<1> USE DaemonAssumption
    DEF DaemonSound, DaemonTyped, Stages, Shutdowns, Past, Boots, Mail, Accounts, Bridge
<1>1. CASE Start(i)
  <2>1. PICK p \in Pids : ~Lives(p) /\ pid' = [pid EXCEPT ![i] = p]
    BY <1>1 DEF Start
  <2>2. DaemonTyped' /\ boot[i] = "off" /\ boot'[i] = "locking"
    BY <1>1, <2>1 DEF Start, Tenure
  <2>3. OthersKeep(i)
    BY <1>1, <2>1 DEF Start, OthersKeep, Tenure
  <2>4. Tenure(i)'
    BY <1>1, <2>1, <2>2 DEF Start, Tenure
  <2>5. \A j \in Instances \ {i} : Apart(i, j)'
    BY <1>1, <2>1, <2>2 DEF Start, Apart, Lives
  <2>6. QED
    BY <2>2, <2>3, <2>4, <2>5, InstanceSteps
<1>2. CASE Create(i)
  <2>1. DaemonTyped'
    BY <1>2 DEF Create
  <2>2. OthersKeep(i)
    BY <1>2 DEF Create, OthersKeep, Tenure, NoPid, Unwritten
  <2>3. Tenure(i)'
    BY <1>2 DEF Create, Tenure
  <2>4. \A j \in Instances \ {i} : Apart(i, j)'
    BY <1>2 DEF Create, Apart, Tenure, NoPid, Unwritten
  <2>5. QED
    BY <2>1, <2>2, <2>3, <2>4, InstanceSteps
<1>3. CASE WritePid(i)
  <2>1. DaemonTyped'
    BY <1>3 DEF WritePid
  <2>2. OthersKeep(i)
    BY <1>3 DEF WritePid, OthersKeep, Tenure, NoPid, Unwritten, Apart
  <2>3. Tenure(i)'
    BY <1>3 DEF WritePid, Tenure
  <2>4. \A j \in Instances \ {i} : Apart(i, j)'
    BY <1>3 DEF WritePid, Apart
  <2>5. QED
    BY <2>1, <2>2, <2>3, <2>4, InstanceSteps
<1>4. CASE Already(i)
  <2>1. DaemonTyped'
    BY <1>4 DEF Already
  <2>2. OthersKeep(i)
    BY <1>4 DEF Already, OthersKeep, Tenure
  <2>3. Tenure(i)'
    BY <1>4 DEF Already, Tenure
  <2>4. \A j \in Instances \ {i} : Apart(i, j)'
    BY <1>4 DEF Already, Apart
  <2>5. QED
    BY <2>1, <2>2, <2>3, <2>4, InstanceSteps
<1>5. QED
  BY <1>1, <1>2, <1>3, <1>4

(* The end of a process, which removes the lock only if it is its own.          *)
LEMMA EndKeepsTheLock ==
  ASSUME DaemonSound, NEW i \in Instances, NEW lock, Disappears(i, lock),
         pid[i] # NoPid,
         lock = lockFile \/ (HoldsLock(i) /\ lock = NoPid)
  PROVE  DaemonSound'
<1> USE DaemonAssumption DEF DaemonSound, DaemonTyped, Stages, Shutdowns, Past, Boots
<1>1. DaemonTyped'
  BY DEF Disappears
<1>2. OthersKeep(i)
  BY DEF Disappears, OthersKeep, HoldsLock, Tenure, Apart, NoPid, Unwritten
<1>3. Tenure(i)'
  BY DEF Disappears, Tenure
<1>4. \A j \in Instances \ {i} : Apart(i, j)'
  BY DEF Disappears, Apart
<1>5. QED
  BY <1>1, <1>2, <1>3, <1>4, InstanceSteps

LEMMA ExitKeepsTheLock ==
  ASSUME DaemonSound, NEW i \in Instances,
         Refused(i) \/ Crash(i) \/ BootFails(i) \/ Exit(i) \/ HardExit(i)
  PROVE  DaemonSound'
<1>1. pid[i] # NoPid
  BY DEF DaemonSound, DaemonTyped, Tenure, Refused, Crash, BootFails, Exit, HardExit
<1>2. PICK lock : Disappears(i, lock) /\ (lock = lockFile \/ (HoldsLock(i) /\ lock = NoPid))
  BY DEF Refused, Crash, BootFails, Exit, HardExit, Exits
<1>3. QED
  BY <1>1, <1>2, EndKeepsTheLock

(* The work of a process that has the lock, and its shutdown.                   *)
LEMMA WorkKeepsTheLock ==
  ASSUME DaemonSound, LateRebuild = FALSE, NEW i \in Instances,
         \/ ReadRegistry(i) \/ applyRegistry(i) \/ Probe(i, TRUE) \/ Probe(i, FALSE)
         \/ Connect(i) \/ Serve(i)
  PROVE  DaemonSound'
<1> USE DaemonAssumption
    DEF DaemonSound, DaemonTyped, Stages, Shutdowns, Past, Boots, Mail, Accounts, Bridge
<1>1. lockFile' = lockFile /\ pid' = pid /\ down' = down
  BY DEF ReadRegistry, applyRegistry, Probe, Connect, Serve
<1>2. /\ boot' \in [Instances -> Stages] /\ \A j \in Instances \ {i} : boot'[j] = boot[j]
      /\ boot'[i] = boot[i] \/ {boot[i], boot'[i]} \cap {"off", "locking", "writing"} = {}
  BY DEF ReadRegistry, applyRegistry, Probe, Connect, Serve
<1>3. retired' \subseteq Instances /\ \A j \in Instances : j \in retired' <=> j \in retired
  BY DEF ReadRegistry, applyRegistry, Probe, Connect, Serve
<1>4. /\ connected' \subseteq Instances /\ connected \subseteq connected'
      /\ \A j \in connected' \ connected : j = i /\ i \notin retired /\ boot[i] = "connecting"
  BY DEF ReadRegistry, applyRegistry, Probe, Connect, Serve, MayConnect
<1>5. DaemonTyped'
  BY <1>1, <1>2, <1>3, <1>4
<1>6. OthersKeep(i)
  BY <1>1, <1>2, <1>3, <1>4 DEF OthersKeep, Tenure
<1>7. Tenure(i)'
  BY <1>1, <1>2, <1>3, <1>4 DEF Tenure
<1>8. \A j \in Instances \ {i} : Apart(i, j)'
  BY <1>1, <1>2 DEF Apart
<1>9. QED
  BY <1>5, <1>6, <1>7, <1>8, InstanceSteps

LEMMA ShutdownKeepsTheLock ==
  ASSUME DaemonSound, NEW i \in Instances,
         gracefulShutdown(i) \/ StopWork(i) \/ CloseAll(i) \/ killProtonBridge(i)
  PROVE  DaemonSound'
<1> USE DaemonAssumption
    DEF DaemonSound, DaemonTyped, Stages, Shutdowns, Past, Downs, Mail, Accounts, Bridge
<1>1. pid' = pid /\ boot' = boot
  BY DEF gracefulShutdown, StopWork, CloseAll, killProtonBridge
<1>2. boot[i] \notin {"off", "locking", "writing"}
  BY DEF gracefulShutdown, StopWork, CloseAll, killProtonBridge, Tenure
<1>3. \A j \in Instances \ {i} : Apart(i, j)'
  BY <1>1 DEF Apart
<1>4. CASE CloseAll(i)
  <2>1. DaemonTyped'
    BY <1>4 DEF CloseAll
  <2>2. OthersKeep(i)
    BY <1>4, <1>2 DEF CloseAll, OthersKeep, HoldsLock, Tenure, Apart, NoPid, Unwritten
  <2>3. Tenure(i)'
    BY <1>4, <1>2 DEF CloseAll, Tenure
  <2>4. QED
    BY <2>1, <2>2, <2>3, <1>3, InstanceSteps
<1>5. CASE ~CloseAll(i)
  <2>1. lockFile' = lockFile /\ connected' = connected /\ retired' = retired
    BY <1>5 DEF gracefulShutdown, StopWork, killProtonBridge
  <2>2. /\ down' \in [Instances -> Shutdowns] /\ \A j \in Instances \ {i} : down'[j] = down[j]
        /\ down'[i] \in Past <=> down[i] \in Past
    BY <1>5 DEF gracefulShutdown, StopWork, killProtonBridge
  <2>3. DaemonTyped' /\ OthersKeep(i)
    BY <1>1, <2>1, <2>2 DEF OthersKeep, Tenure
  <2>4. Tenure(i)'
    BY <1>1, <1>2, <2>1, <2>2 DEF Tenure
  <2>5. QED
    BY <2>3, <2>4, <1>3, InstanceSteps
<1>6. QED
  BY <1>4, <1>5

LEMMA OperatorKeepsTheLock ==
  ASSUME DaemonSound, OperatorRemoves
  PROVE  DaemonSound'
<1>1. /\ lockFile' = NoPid /\ \A i \in Instances : pid[i] # lockFile /\ boot[i] # "writing"
      /\ UNCHANGED <<pid, boot, down, connected, retired>>
  BY DEF OperatorRemoves, Lives, Mail
<1>2. QED
  BY <1>1 DEF DaemonSound, DaemonTyped, Tenure, Apart, Past

(* At most one process of the profile is connected, as long as no keychain      *)
(* answers a rebuild after the services were retired: the lock file of the      *)
(* daemon, and closeAll before its release.                                     *)
THEOREM OneProcessConnects == LateRebuild = FALSE => (DMSpec => []OneConnects)
<1> SUFFICES ASSUME LateRebuild = FALSE PROVE DMSpec => []OneConnects
  OBVIOUS
<1>1. DaemonSound /\ [DMNext]_dm_vars => DaemonSound'
  <2> SUFFICES ASSUME DaemonSound, [DMNext]_dm_vars PROVE DaemonSound'
    OBVIOUS
  <2>1. CASE OperatorRemoves
    BY <2>1, OperatorKeepsTheLock
  <2>2. CASE UNCHANGED dm_vars
    BY <2>2 DEF dm_vars, DaemonSound, DaemonTyped, Tenure, Apart
  <2>3. CASE DMNext /\ ~OperatorRemoves
    BY <2>3, BootKeepsTheLock, ExitKeepsTheLock, WorkKeepsTheLock, ShutdownKeepsTheLock DEF DMNext
  <2>4. QED
    BY <2>1, <2>2, <2>3
<1>2. DaemonSound => OneConnects
  BY DaemonAssumption DEF DaemonSound, DaemonTyped, Tenure, Apart, OneConnects, Past
<1>3. QED
  BY DaemonStarts, <1>1, <1>2, PTL DEF DMSpec

(* A launch is counted as long as the watchdog runs; what ran before is over.   *)
WatchdogSound ==
  /\ attempts \in Nat /\ row \in Nat
  /\ timer => row <= attempts
  /\ attempts <= BRIDGE_MAX_RESTARTS + 1 /\ row <= BRIDGE_MAX_RESTARTS
  /\ ~astray

LEMMA CallbacksKeepTheCount ==
  ASSUME WatchdogSound, NEW t \in Ticks,
         Begin(t) \/ Probed(t) \/ Appeared(t) \/ Missing(t)
  PROVE  WatchdogSound'
<1> USE WatchdogAssumption DEF WatchdogSound, Watch, Env
<1>1. CASE Begin(t)
  BY <1>1, Zenon DEF Begin
<1>2. CASE Appeared(t)
  <2>1. attempts' = 0 /\ row' = 0
    BY <1>2 DEF Appeared
  <2>2. astray' = astray
    BY <1>2 DEF Appeared
  <2>3. QED
    BY <2>1, <2>2
<1>3. CASE Missing(t)
  <2>1. row' = row /\ (attempts' = attempts \/ attempts' = 0)
    BY <1>3 DEF Missing, stopBridgeWatchdog
  <2>2. astray' = astray
    BY <1>3 DEF Missing
  <2>3. timer' => timer /\ attempts' = attempts
    BY <1>3 DEF Missing, stopBridgeWatchdog
  <2>4. QED
    BY <2>1, <2>2, <2>3
<1>4. CASE Probed(t) /\ bridge
  <2>1. (attempts' = attempts /\ row' = row) \/ (attempts' = 0 /\ row' = 0)
    BY <1>4 DEF Probed, Healthy
  <2>2. timer' = timer /\ astray' = astray
    BY <1>4 DEF Probed, Healthy
  <2>3. QED
    BY <2>1, <2>2
<1>5. CASE Probed(t) /\ ~bridge /\ ~MayLaunch(t)
  BY <1>5, Zenon DEF Probed, Launch
<1>6. CASE Probed(t) /\ ~bridge /\ MayLaunch(t)
  <2>1. timer /\ route = tick[t].route
    BY <1>6 DEF MayLaunch, isCurrentBridgeWatchdog, route
  <2>2. timer' = timer
    BY <1>6 DEF Probed, Launch
  <2>3. attempts' = IF attempts > BRIDGE_MAX_RESTARTS THEN attempts ELSE attempts + 1
    BY <1>6 DEF Probed, Launch
  <2>4. IF attempts' > BRIDGE_MAX_RESTARTS THEN row' = row ELSE row' = row + 1
    BY <1>6 DEF Probed, Launch
  <2>5. ~astray'
    BY <1>6, <2>1 DEF Probed, Launch
  <2>6. QED
    BY <2>1, <2>2, <2>3, <2>4, <2>5
<1>7. QED
  BY <1>1, <1>2, <1>3, <1>4, <1>5, <1>6

(* Bridge is launched for the active account only, and no more often in a row   *)
(* than the limit, however its callbacks overlap: tickBridgeWatchdog.           *)
THEOREM LaunchesStayBounded == WDSpec => []LaunchesBounded
<1>1. WDInit => WatchdogSound
  <2> SUFFICES ASSUME WDInit PROVE WatchdogSound
    OBVIOUS
  <2>1. attempts = 0 /\ row = 0
    BY DEF WDInit
  <2>2. ~astray
    BY DEF WDInit
  <2>3. QED
    BY <2>1, <2>2, WatchdogAssumption DEF WatchdogSound
<1>2. WatchdogSound /\ [WDNext]_wd_vars => WatchdogSound'
  <2> SUFFICES ASSUME WatchdogSound, [WDNext]_wd_vars PROVE WatchdogSound'
    OBVIOUS
  <2> USE WatchdogAssumption DEF WatchdogSound, Watch
  <2>1. CASE Shutdown
    <3>1. attempts' = 0 /\ row' = row
      BY <2>1 DEF Shutdown, stopBridgeWatchdog
    <3>2. ~timer'
      BY <2>1 DEF Shutdown, stopBridgeWatchdog
    <3>3. astray' = astray
      BY <2>1 DEF Shutdown
    <3>4. QED
      BY <3>1, <3>2, <3>3
  <2>2. CASE BridgeTurns
    BY <2>2, Zenon DEF BridgeTurns
  <2>3. ASSUME NEW next \in Routes \cup {NoRoute}, Rebuilt(next) PROVE WatchdogSound'
    <3>1. astray' = astray
      BY <2>3 DEF Rebuilt
    <3>2. CASE next = tracked
      <4>1. row' = row
        BY <2>3, <3>2 DEF Rebuilt
      <4>2. attempts' = attempts /\ timer' = timer
        BY <2>3, <3>2 DEF Rebuilt, reconcileBridgeWatchdog, Differs
      <4>3. QED
        BY <3>1, <4>1, <4>2
    <3>3. CASE next # tracked
      <4>1. row' = 0
        BY <2>3, <3>3 DEF Rebuilt
      <4>2. attempts' = 0
        BY <2>3, <3>3 DEF Rebuilt, reconcileBridgeWatchdog, Differs
      <4>3. QED
        BY <3>1, <4>1, <4>2
    <3>4. QED
      BY <3>2, <3>3
  <2>4. CASE UNCHANGED wd_vars
    BY <2>4, Zenon DEF wd_vars
  <2>5. QED
    BY <2>1, <2>2, <2>3, <2>4, CallbacksKeepTheCount DEF WDNext
<1>3. WatchdogSound => LaunchesBounded
  BY DEF WatchdogSound, LaunchesBounded
<1>4. QED
  BY <1>1, <1>2, <1>3, PTL DEF WDSpec

(* Both together: one process at most is connected to the mailboxes of the      *)
(* profile, and its watchdog launches Bridge a bounded number of times in a row.*)
THEOREM DaemonsAreSound == LateRebuild = FALSE => (BDSpec => []DaemonHolds)
<1> SUFFICES ASSUME LateRebuild = FALSE PROVE BDSpec => []DaemonHolds
  OBVIOUS
<1>1. DMSpec => []OneConnects
  BY OneProcessConnects
<1>2. WDSpec => []LaunchesBounded
  BY LaunchesStayBounded
<1>3. OneConnects /\ LaunchesBounded => DaemonHolds
  BY DEF DaemonHolds
<1>4. QED
  BY <1>1, <1>2, <1>3, PTL DEF BDSpec

------------------------------------------------------------------------------
(* The settings server: its gates                                               *)

Session == [id : Nat, expires : Nat]
Issue == [by : Nat, at : Nat]

AccessTyped ==
  /\ now \in Nat /\ serving \in Nat
  /\ browserSessions \subseteq Session /\ issue \in Seq(Issue)
  /\ cookie \in [Browsers -> Nat]
  /\ DOMAIN windows = Browsers /\ DOMAIN admitted = Browsers
  /\ \A b \in Browsers : IsFiniteSet(windows[b]) /\ \A q \in windows[b] \cup admitted[b] : q[1] \in Nat

(* The table has sessions of this process only, each for no longer than from    *)
(* its issue.                                                                   *)
SessionsIssued ==
  \A s \in browserSessions :
    s.id \in 1..Len(issue) /\ issue[s.id].by = serving /\ s.expires <= issue[s.id].at + TTL

(* The limiter has counted what it let through, of a client that it kept.       *)
AllCounted ==
  /\ \A b \in Browsers : Cardinality(WithinWindow(windows[b])) <= LIMIT
  /\ \A b \in Browsers \ forgotten : WithinWindow(admitted[b]) \subseteq windows[b]

AccessSound == AccessTyped /\ SessionsIssued /\ AllCounted /\ ~misled

LEMMA WithinFacts ==
  ASSUME NEW requests
  PROVE  /\ WithinWindow(requests) \subseteq requests
         /\ WithinWindow(WithinWindow(requests)) = WithinWindow(requests)
         /\ \A more : requests \subseteq more => WithinWindow(requests) \subseteq WithinWindow(more)
         /\ \A q : WithinWindow(requests \cup {q}) \subseteq WithinWindow(requests) \cup {q}
BY DEF WithinWindow

LEMMA RoomFacts ==
  ASSUME AccessTyped, NEW b \in Browsers, NEW table \in WithRoom(b)
  PROVE  DOMAIN table = Browsers /\ \A o \in Browsers : table[o] \in {windows[o], {}}
<1>1. DOMAIN Evicted = Browsers /\ \A o \in Browsers : Evicted[o] \in {windows[o], {}}
  BY DEF Evicted
<1>2. table \in {windows, Evicted} \/ \E o \in Oldest(Evicted) : table = [Evicted EXCEPT ![o] = {}]
  BY DEF WithRoom
<1> QED
  BY <1>1, <1>2 DEF AccessTyped

LEMMA CheckCounts ==
  ASSUME AccessTyped, AllCounted, NEW b \in Browsers, check(b), now' = now
  PROVE  /\ AllCounted'
         /\ DOMAIN windows' = Browsers /\ DOMAIN admitted' = Browsers
         /\ \A o \in Browsers : /\ IsFiniteSet(windows'[o])
                                /\ \A q \in windows'[o] \cup admitted'[o] : q[1] \in Nat
<1>1. \A requests : WithinWindow(requests)' = WithinWindow(requests')
  BY DEF WithinWindow
<1>2. \A o \in Browsers : IsFiniteSet(WithinWindow(windows[o])) /\ IsFiniteSet(windows[o])
  BY FS_Subset, WithinFacts DEF AccessTyped
<1>3. CASE TooMany(b)
  <2>1. /\ \A o \in Browsers : windows'[o] = IF o = b THEN WithinWindow(windows[b]) ELSE windows[o]
        /\ DOMAIN windows' = Browsers /\ admitted' = admitted /\ forgotten' = forgotten
    BY <1>3 DEF check, AccessTyped
  <2>2. \A o \in Browsers : WithinWindow(windows'[o]) = WithinWindow(windows[o])
    BY <2>1, WithinFacts
  <2>3. \A o \in Browsers : windows'[o] \subseteq windows[o] /\ IsFiniteSet(windows'[o])
    BY <2>1, <1>2, WithinFacts
  <2>4. \A o \in Browsers \ forgotten : WithinWindow(admitted[o]) \subseteq windows'[o]
    BY <2>1, WithinFacts DEF AllCounted, WithinWindow
  <2> QED
    BY <2>1, <2>2, <2>3, <2>4 DEF AllCounted, AccessTyped, WithinWindow
<1>4. CASE ~TooMany(b)
  <2> DEFINE new == NewRequest(b)
  <2>1. PICK table \in WithRoom(b) :
          /\ windows' = [table EXCEPT ![b] = WithinWindow(windows[b]) \cup {new}]
          /\ forgotten' = forgotten \cup {o \in Browsers : table[o] = {} /\ WithinWindow(windows[o]) # {}}
          /\ admitted' = [o \in Browsers |->
                IF o \in forgotten' THEN {}
                ELSE IF o = b THEN WithinWindow(admitted[o]) \cup {new}
                ELSE admitted[o]]
    BY <1>4 DEF check
  <2>2. new[1] = now
    BY DEF NewRequest
  <2> HIDE DEF new
  <2>3. DOMAIN table = Browsers /\ \A o \in Browsers : table[o] \in {windows[o], {}}
    BY <2>1, RoomFacts
  <2>4. /\ DOMAIN windows' = Browsers /\ DOMAIN admitted' = Browsers
        /\ windows'[b] = WithinWindow(windows[b]) \cup {new}
        /\ \A o \in Browsers \ {b} : windows'[o] = table[o]
        /\ \A o \in Browsers : admitted'[o] \subseteq admitted[o] \cup (IF o = b THEN {new} ELSE {})
    BY <2>1, <2>3, WithinFacts
  <2>5. IsFiniteSet({new}) /\ Cardinality({new}) = 1 /\ IsFiniteSet({}) /\ Cardinality({}) = 0
    BY FS_Singleton, FS_EmptySet
  <2>6. /\ IsFiniteSet(windows'[b])
        /\ Cardinality(windows'[b]) <= Cardinality(WithinWindow(windows[b])) + 1
    <3>1. IsFiniteSet(WithinWindow(windows[b])) /\ Cardinality(WithinWindow(windows[b])) \in Nat
      BY <1>2, FS_CardinalityType
    <3> DEFINE kept == WithinWindow(windows[b])
    <3>2. windows'[b] = kept \cup {new} /\ IsFiniteSet(kept) /\ Cardinality(kept) \in Nat
      BY <2>4, <3>1
    <3> HIDE DEF kept
    <3>3. /\ IsFiniteSet(kept \cup {new})
          /\ Cardinality(kept \cup {new}) = IF new \in kept THEN Cardinality(kept) ELSE Cardinality(kept) + 1
      BY ONLY <3>2, FS_AddElement, Zenon
    <3>4. IsFiniteSet(windows'[b]) /\ Cardinality(windows'[b]) <= Cardinality(kept) + 1
      BY ONLY <3>2, <3>3
    <3> QED
      BY <3>4 DEF kept
  <2>7. Cardinality(WithinWindow(windows[b])) < LIMIT
    BY <1>2, <1>4, FS_CardinalityType, AccessAssumption DEF TooMany
  <2>8. \A o \in Browsers : Cardinality(WithinWindow(windows'[o])) <= LIMIT /\ IsFiniteSet(windows'[o])
    <3> TAKE o \in Browsers
    <3>1. CASE o = b
      <4>1. Cardinality(WithinWindow(windows'[b])) <= Cardinality(windows'[b])
        BY <2>6, FS_Subset, WithinFacts
      <4>2. Cardinality(WithinWindow(windows'[b])) \in Nat /\ Cardinality(windows'[b]) \in Nat
            /\ Cardinality(WithinWindow(windows[b])) \in Nat
        BY <2>6, <1>2, FS_Subset, FS_CardinalityType, WithinFacts
      <4> QED
        BY <2>6, <2>7, <3>1, <4>1, <4>2, AccessAssumption
    <3>2. CASE o # b
      <4>1. windows'[o] \in {windows[o], {}}
        BY <2>3, <2>4, <3>2
      <4>2. WithinWindow({}) = {}
        BY DEF WithinWindow
      <4> QED
        BY <1>2, <2>5, <4>1, <4>2, AccessAssumption DEF AllCounted
    <3> QED
      BY <3>1, <3>2
  <2>9. \A o \in Browsers \ forgotten' : WithinWindow(admitted'[o]) \subseteq windows'[o]
    <3> TAKE o \in Browsers \ forgotten'
    <3>1. o \notin forgotten /\ WithinWindow(admitted[o]) \subseteq WithinWindow(windows[o])
      BY <2>1 DEF AllCounted, WithinWindow
    <3>2. CASE o = b
      <4>1. admitted'[o] = WithinWindow(admitted[o]) \cup {new}
        BY <2>1, <3>2
      <4> QED
        BY <2>4, <3>1, <3>2, <4>1 DEF WithinWindow
    <3>3. CASE o # b
      <4>1. admitted'[o] = admitted[o] /\ windows'[o] = table[o]
        BY <2>1, <2>4, <3>3
      <4>2. table[o] = windows[o] \/ WithinWindow(windows[o]) = {}
        BY <2>1, <2>3
      <4> QED
        BY <3>1, <4>1, <4>2, WithinFacts
    <3> QED
      BY <3>2, <3>3
  <2>10. \A o \in Browsers : \A q \in windows'[o] \cup admitted'[o] : q[1] \in Nat
    <3> TAKE o \in Browsers
    <3>1. \A q \in windows[o] \cup admitted[o] \cup {new} : q[1] \in Nat
      BY <2>2 DEF AccessTyped
    <3>2. windows'[o] \subseteq windows[o] \cup {new}
      BY <2>3, <2>4, WithinFacts
    <3> QED
      BY <2>4, <3>1, <3>2
  <2>11. AllCounted'
    BY <2>8, <2>9 DEF AllCounted, WithinWindow
  <2> QED
    BY <2>4, <2>8, <2>10, <2>11
<1> QED
  BY <1>3, <1>4

LEMMA AccessStarts == SAInit => AccessSound
<1> SUFFICES ASSUME SAInit PROVE AccessSound
  OBVIOUS
<1>1. IsFiniteSet({}) /\ Cardinality({}) = 0
  BY FS_EmptySet
<1>2. \A b \in Browsers : WithinWindow(windows[b]) = {} /\ WithinWindow(admitted[b]) = {}
  BY DEF SAInit, WithinWindow
<1>3. AllCounted
  <2>1. \A b \in Browsers : Cardinality(WithinWindow(windows[b])) <= LIMIT
    BY <1>1, <1>2, AccessAssumption
  <2>2. \A b \in Browsers : WithinWindow(admitted[b]) \subseteq windows[b]
    BY <1>2
  <2> QED
    BY <2>1, <2>2 DEF AllCounted
<1>4. AccessTyped
  BY <1>1 DEF SAInit, AccessTyped, NoCookie
<1> QED
  BY <1>3, <1>4 DEF SAInit, AccessSound, SessionsIssued

LEMMA AccessStep == AccessSound /\ [SANext]_access_vars => AccessSound'
<1> SUFFICES ASSUME AccessSound, [SANext]_access_vars PROVE AccessSound'
  OBVIOUS
<1> USE DEF AccessSound
<1>1. CASE UNCHANGED access_vars
  BY <1>1 DEF access_vars, AccessTyped, SessionsIssued, AllCounted, WithinWindow
<1>2. ASSUME NEW b \in Browsers, Bootstrap(b) PROVE AccessSound'
  <2>1. now' = now /\ check(b) /\ UNCHANGED <<now, serving, shell, misled>>
    BY <1>2 DEF Bootstrap
  <2>2. CASE UNCHANGED <<browserSessions, cookie, issue>>
    <3>1. AccessTyped' /\ SessionsIssued'
      BY <2>1, <2>2, CheckCounts DEF AccessTyped, SessionsIssued
    <3> QED
      BY <2>1, <3>1, CheckCounts
  <2>3. CASE ~UNCHANGED <<browserSessions, cookie, issue>>
    <3> DEFINE fresh == [id |-> Len(issue) + 1, expires |-> now + TTL]
    <3>1. /\ browserSessions' \subseteq browserSessions \cup {fresh}
          /\ issue' = Append(issue, [by |-> serving, at |-> now])
          /\ cookie' = [cookie EXCEPT ![b] = Len(issue) + 1]
      BY <1>2, <2>3 DEF Bootstrap, LiveSessions
    <3>2. /\ issue' \in Seq(Issue) /\ Len(issue') = Len(issue) + 1
          /\ \A k \in 1..Len(issue) : issue'[k] = issue[k]
          /\ issue'[Len(issue) + 1] = [by |-> serving, at |-> now] /\ Len(issue) \in Nat
      BY <3>1 DEF AccessTyped, Issue
    <3>3. fresh \in Session
      BY <3>2, AccessAssumption DEF AccessTyped, Session
    <3>4. fresh.id = Len(issue) + 1 /\ fresh.expires = now + TTL
      OBVIOUS
    <3> HIDE DEF fresh
    <3>5. SessionsIssued'
      <4> SUFFICES ASSUME NEW s \in browserSessions'
                   PROVE  s.id \in 1..Len(issue') /\ issue'[s.id].by = serving /\ s.expires <= issue'[s.id].at + TTL
        BY <2>1 DEF SessionsIssued
      <4>1. CASE s \in browserSessions
        BY <3>2, <4>1 DEF SessionsIssued
      <4>2. CASE s = fresh
        BY <3>2, <3>4, <4>2, AccessAssumption DEF AccessTyped
      <4> QED
        BY <3>1, <4>1, <4>2
    <3>6. cookie' \in [Browsers -> Nat] /\ browserSessions' \subseteq Session
      BY <3>1, <3>2, <3>3 DEF AccessTyped
    <3>7. AccessTyped'
      BY <2>1, <3>2, <3>6, CheckCounts DEF AccessTyped
    <3> QED
      BY <2>1, <3>5, <3>7, CheckCounts
  <2> QED
    BY <2>2, <2>3
<1>3. ASSUME NEW b \in Browsers, LoadShell(b) PROVE AccessSound'
  <2>1. /\ now' = now /\ check(b) /\ UNCHANGED <<now, serving, cookie, issue, misled>>
        /\ browserSessions' \subseteq browserSessions
    BY <1>3 DEF LoadShell, Presented
  <2>2. AccessTyped' /\ SessionsIssued'
    BY <2>1, CheckCounts DEF AccessTyped, SessionsIssued
  <2> QED
    BY <2>1, <2>2, CheckCounts
<1>4. ASSUME NEW b \in Browsers, SettingsChange(b) PROVE AccessSound'
  <2>1. /\ UNCHANGED <<now, serving, cookie, shell, issue>>
        /\ browserSessions' \subseteq browserSessions
    BY <1>4 DEF SettingsChange, Presented
  <2>2. SessionsIssued'
    BY <2>1 DEF SessionsIssued
  <2>3. CASE UNCHANGED <<windows, admitted, forgotten, misled>>
    BY <2>1, <2>2, <2>3 DEF AccessTyped, AllCounted, WithinWindow
  <2>4. CASE hasValidSession(cookie[b])
    <3>1. Entitled(cookie[b])
      <4>1. PICK s \in browserSessions : s.expires > now /\ s.id = cookie[b]
        BY <2>4 DEF hasValidSession, LiveSessions
      <4>2. s \in Session /\ s.id \in 1..Len(issue) /\ issue[s.id].by = serving /\ s.expires <= issue[s.id].at + TTL
        BY DEF AccessTyped, SessionsIssued
      <4>3. issue[s.id].at \in Nat
        <5>1. \A k \in 1..Len(issue) : issue[k] \in Issue
          BY DEF AccessTyped
        <5> QED
          BY <4>2, <5>1 DEF Issue
      <4> QED
        BY <4>1, <4>2, <4>3, AccessAssumption DEF Entitled, NoCookie, AccessTyped, Session
    <3>2. check(b) /\ ~misled'
      BY <1>4, <2>4, <3>1 DEF SettingsChange
    <3>3. AccessTyped'
      BY <2>1, <3>2, CheckCounts DEF AccessTyped
    <3> QED
      BY <2>1, <2>2, <3>2, <3>3, CheckCounts
  <2> QED
    BY <1>4, <2>3, <2>4 DEF SettingsChange
<1>5. CASE TimePasses
  <2>1. /\ now' = now + 1
        /\ UNCHANGED <<serving, browserSessions, cookie, shell, admitted, forgotten, issue, misled>>
        /\ DOMAIN windows' = Browsers
    BY <1>5 DEF TimePasses, AccessTyped
  <2>2. \A b \in Browsers : windows'[b] = windows[b]
            \/ (windows'[b] = {} /\ \A q \in windows[b] : q[1] + WINDOW <= now')
    BY <1>5 DEF TimePasses
  <2>3. \A b \in Browsers : \A q \in windows[b] \cup admitted[b] :
            q[1] + WINDOW > now' => q[1] + WINDOW > now
    BY <2>1, AccessAssumption DEF AccessTyped
  <2>4. \A b \in Browsers : /\ IsFiniteSet(windows'[b]) /\ windows'[b] \subseteq windows[b]
                            /\ Cardinality(WithinWindow(windows[b])) \in Nat
                            /\ Cardinality((WithinWindow(windows[b]))') \in Nat
                            /\ Cardinality((WithinWindow(windows[b]))') <= Cardinality(WithinWindow(windows[b]))
    <3> TAKE b \in Browsers
    <3>1. (WithinWindow(windows[b]))' \subseteq WithinWindow(windows[b]) /\ windows'[b] \subseteq windows[b]
      BY <2>2, <2>3 DEF WithinWindow
    <3>2. IsFiniteSet(windows[b]) /\ IsFiniteSet(WithinWindow(windows[b]))
      BY FS_Subset, WithinFacts DEF AccessTyped
    <3> QED
      BY <3>1, <3>2, FS_Subset, FS_CardinalityType
  <2>5. \A b \in Browsers \ forgotten : (WithinWindow(admitted[b]))' \subseteq windows'[b]
    <3> TAKE b \in Browsers \ forgotten
    <3> SUFFICES ASSUME NEW q \in admitted[b], q[1] + WINDOW > now' PROVE q \in windows'[b]
      BY <2>1 DEF WithinWindow
    <3>1. q \in windows[b]
      BY <2>3 DEF AllCounted, WithinWindow
    <3>2. q[1] \in Nat /\ now' \in Nat
      BY <2>1 DEF AccessTyped
    <3> QED
      BY <2>2, <3>1, <3>2, AccessAssumption
  <2>6. AllCounted'
    <3>1. \A b \in Browsers : Cardinality((WithinWindow(windows[b]))') <= LIMIT
      BY <2>4, AccessAssumption DEF AllCounted
    <3> QED
      BY <2>1, <2>5, <3>1 DEF AllCounted
  <2>7. AccessTyped' /\ SessionsIssued'
    BY <2>1, <2>4 DEF AccessTyped, SessionsIssued
  <2> QED
    BY <2>1, <2>6, <2>7
<1>6. CASE RestartProcess
  <2>1. /\ browserSessions' = {} /\ serving' = serving + 1 /\ UNCHANGED <<now, cookie, shell, issue, misled>>
        /\ windows' = [b \in Browsers |-> {}] /\ admitted' = [b \in Browsers |-> {}]
    BY <1>6 DEF RestartProcess
  <2>2. IsFiniteSet({}) /\ Cardinality({}) = 0 /\ \A b \in Browsers : (WithinWindow(windows[b]))' = {} /\ (WithinWindow(admitted[b]))' = {}
    BY <2>1, FS_EmptySet DEF WithinWindow
  <2>3. AllCounted'
    BY <2>2, AccessAssumption DEF AllCounted
  <2>4. AccessTyped' /\ SessionsIssued'
    BY <2>1, <2>2 DEF AccessTyped, SessionsIssued
  <2> QED
    BY <2>1, <2>3, <2>4
<1> QED
  BY <1>1, <1>2, <1>3, <1>4, <1>5, <1>6 DEF SANext

LEMMA AccessIsSound == SASpec => []AccessSound
BY AccessStarts, AccessStep, PTL DEF SASpec

LEMMA SoundGates == AccessSound => GatesHold
<1> SUFFICES ASSUME AccessSound, NEW b \in Browsers \ forgotten
             PROVE  Cardinality(WithinWindow(admitted[b])) <= LIMIT
  BY DEF AccessSound, GatesHold
<1>1. WithinWindow(admitted[b]) \subseteq WithinWindow(windows[b])
  BY DEF AccessSound, AllCounted, WithinWindow
<1>2. IsFiniteSet(WithinWindow(windows[b])) /\ Cardinality(WithinWindow(windows[b])) <= LIMIT
  BY FS_Subset, WithinFacts DEF AccessSound, AccessTyped, AllCounted
<1> QED
  BY <1>1, <1>2, FS_Subset, FS_CardinalityType, AccessAssumption

------------------------------------------------------------------------------
(* The settings server: its pages                                               *)

Vias == {"markup", "defaults", "setup", "permissions", "limits", "account"}
Owners == Ids \cup {BuiltIn, "nobody"}
SourceSet == [gen : Nat, of : Owners, via : Vias]
ConfigSet ==
  [gen : Nat, active : Owners, accounts : [Ids -> SourceSet], permissions : SourceSet, limits : SourceSet]
TabSet ==
  [session : Nat, gen : Nat, setup : SourceSet, permissions : SourceSet, limits : SourceSet,
   rows : [Ids -> SourceSet], form : [id : Owners, of : SourceSet]]
SaveKinds == {"none", "setup", "permissions", "limits", "account", "activate", "delete", "reset"}
SaveSet == [kind : SaveKinds, expected : Nat, session : Nat, id : Owners, of : SourceSet]

PageTyped ==
  /\ config \in ConfigSet /\ config.active \in Ids /\ process \in Nat
  /\ tab \in [Tabs -> TabSet] /\ posted \in [Tabs -> SaveSet] /\ fetched \in [Tabs -> ConfigSet]

(* A form that a page fills from the configuration is of the generation the     *)
(* page holds; rows and the forms opened on them are fetched apart.             *)
FormsOfPage(k) ==
  /\ k.setup # Absent => k.setup.gen = k.gen
  /\ k.permissions # Absent => k.permissions.gen = k.gen
  /\ k.limits # Absent => k.limits.via = "markup" \/ k.limits.gen = k.gen
  /\ k.form.of.via # "setup" /\ \A a \in Ids : k.rows[a].via # "setup"

(* So is what a save carries, of the generation it says it expects.             *)
SaveAsFilled(s) ==
  /\ s.kind = "none" => s = NoSave
  /\ s.kind \in {"setup", "permissions"} => s.of.gen = s.expected
  /\ s.kind = "limits" => s.of.via = "markup" \/ s.of.gen = s.expected
  /\ s.kind = "account" => s.of.via # "setup"

PageSound ==
  /\ PageTyped /\ FormsFenced
  /\ \A t \in Tabs : FormsOfPage(tab[t]) /\ SaveAsFilled(posted[t])

LEMMA SourceFacts ==
  /\ Absent \in SourceSet /\ Absent.gen = 0 /\ Absent.via = "markup"
  /\ Markup \in SourceSet /\ Markup.via = "markup"
  /\ \A gen \in Nat, of \in Owners, via \in Vias :
       /\ Source(gen, of, via) \in SourceSet
       /\ Source(gen, of, via).gen = gen /\ Source(gen, of, via).via = via
  /\ Primary \in Ids /\ Ids \subseteq Owners
BY DEF Absent, Markup, Source, SourceSet, Owners, Vias, Ids, BuiltIn

LEMMA DefaultsFacts ==
  ASSUME NEW gen \in Nat
  PROVE  LET d == Defaults(gen)
         IN  /\ d \in ConfigSet /\ d.active = Primary /\ d.gen = gen
             /\ d.permissions.gen = gen /\ d.limits.gen = gen
             /\ \A a \in Ids : d.accounts[a].via \in {"defaults", "markup"}
<1>1. \A a \in Ids : Source(gen, Primary, "defaults") \in SourceSet /\ Absent \in SourceSet
  BY SourceFacts DEF Vias
<1> QED
  BY <1>1, SourceFacts DEF Defaults, ConfigSet, Vias

LEMMA BlankFacts ==
  ASSUME NEW session \in Nat
  PROVE  Blank(session) \in TabSet /\ FormsOfPage(Blank(session))
<1>1. "nobody" \in Owners
  BY DEF Owners
<1> QED
  BY <1>1, SourceFacts DEF Blank, TabSet, FormsOfPage, NoForm

LEMMA NoSaveFacts == NoSave \in SaveSet /\ SaveAsFilled(NoSave)
BY SourceFacts DEF NoSave, SaveSet, SaveAsFilled, Owners, SaveKinds

LEMMA NothingFacts == NothingFetched \in ConfigSet
BY DefaultsFacts DEF NothingFetched, ConfigSet, Owners

LEMMA PageStarts == SPInit => PageSound
<1> SUFFICES ASSUME SPInit PROVE PageSound
  OBVIOUS
<1>1. /\ Defaults(0) \in ConfigSet /\ Defaults(0).gen = 0 /\ Defaults(0).active = Primary
      /\ Defaults(0).permissions.gen = 0 /\ Defaults(0).limits.gen = 0
  BY DefaultsFacts
<1>2. \A a \in Ids : Source(0, a, "defaults") \in SourceSet /\ Source(0, a, "defaults").via = "defaults"
  BY SourceFacts DEF Vias
<1>3. /\ config \in ConfigSet /\ config.gen = 0 /\ config.active = Primary
      /\ config.permissions.gen = 0 /\ config.limits.gen = 0
      /\ \A a \in Ids : config.accounts[a] = Source(0, a, "defaults")
  BY <1>1, <1>2 DEF SPInit, ConfigSet
<1>4. FormsFenced
  BY <1>2, <1>3 DEF FormsFenced, Listed
<1> QED
  BY <1>3, <1>4, BlankFacts, NoSaveFacts, NothingFacts, SourceFacts DEF SPInit, PageSound, PageTyped

(* A page that changes what it shows, and nothing else does.                    *)
LEMMA TabKeeps ==
  ASSUME PageSound, NEW t \in Tabs, NEW k \in TabSet, FormsOfPage(k), tab' = [tab EXCEPT ![t] = k],
         config' = config, process' = process, posted' = posted, fetched' \in [Tabs -> ConfigSet]
  PROVE  PageSound'
BY DEF PageSound, PageTyped, FormsFenced, Listed

LEMMA PostKeeps ==
  ASSUME PageSound, NEW t \in Tabs, NEW kind \in SaveKinds \ {"none"}, NEW id \in Owners, NEW of \in SourceSet,
         Post(t, kind, id, of),
         kind \in {"setup", "permissions"} => of.gen = tab[t].gen,
         kind = "limits" => of.via = "markup" \/ of.gen = tab[t].gen,
         kind = "account" => of.via # "setup"
  PROVE  PageSound'
<1> DEFINE s == [kind |-> kind, expected |-> tab[t].gen, session |-> tab[t].session, id |-> id, of |-> of]
<1>1. s \in SaveSet /\ SaveAsFilled(s)
  BY DEF SaveSet, SaveAsFilled, PageSound, PageTyped, TabSet
<1>2. posted' = [posted EXCEPT ![t] = s] /\ UNCHANGED <<config, tab, fetched, process>>
  BY DEF Post
<1> HIDE DEF s
<1> QED
  BY <1>1, <1>2 DEF PageSound, PageTyped, FormsFenced, Listed

LEMMA SaveKeeps ==
  ASSUME PageSound, NEW t \in Tabs, HandleSave(t)
  PROVE  PageSound'
<1> DEFINE s == posted[t]
<1>1. /\ s \in SaveSet /\ SaveAsFilled(s) /\ s # NoSave
      /\ posted' = [posted EXCEPT ![t] = NoSave] /\ UNCHANGED <<fetched, process>>
  BY DEF HandleSave, Waiting, PageSound, PageTyped
<1>2. \A o \in Tabs : posted'[o] \in SaveSet /\ SaveAsFilled(posted'[o])
  BY <1>1, NoSaveFacts DEF PageSound, PageTyped
<1>3. posted' \in [Tabs -> SaveSet]
  BY <1>1, NoSaveFacts DEF PageSound, PageTyped
<1>4. CASE s.session # process
  <2>1. tab' = [tab EXCEPT ![t] = Blank(process)] /\ config' = config
    BY <1>4 DEF HandleSave, Reloaded
  <2>2. Blank(process) \in TabSet /\ FormsOfPage(Blank(process))
    BY BlankFacts DEF PageSound, PageTyped
  <2> QED
    BY <1>1, <1>2, <1>3, <2>1, <2>2 DEF PageSound, PageTyped, FormsFenced, Listed
<1>5. CASE s.session = process /\ Stale(s)
  <2>1. tab' = tab /\ config' = config
    BY <1>5 DEF HandleSave
  <2> QED
    BY <1>1, <1>2, <1>3, <2>1 DEF PageSound, PageTyped, FormsFenced, Listed
<1>6. CASE s.session = process /\ ~Stale(s)
  <2>1. config' = ConfigAfter(s)
        /\ tab' = IF s.kind = "account" THEN [tab EXCEPT ![t].form = NoForm] ELSE tab
    BY <1>6 DEF HandleSave
  <2>2. tab' \in [Tabs -> TabSet] /\ \A o \in Tabs : FormsOfPage(tab'[o])
    <3>1. CASE s.kind = "account"
      <4> DEFINE k == [tab[t] EXCEPT !.form = NoForm]
      <4>1. tab[t] \in TabSet /\ FormsOfPage(tab[t]) /\ NoForm \in [id : Owners, of : SourceSet] /\ NoForm.of.via # "setup"
        BY SourceFacts DEF PageSound, PageTyped, NoForm, Owners
      <4>2. k \in TabSet /\ FormsOfPage(k)
        BY <4>1 DEF TabSet, FormsOfPage
      <4>3. tab' = [tab EXCEPT ![t] = k]
        BY <2>1, <3>1 DEF PageSound, PageTyped
      <4> HIDE DEF k
      <4> QED
        BY <4>2, <4>3 DEF PageSound, PageTyped
    <3> QED
      BY <2>1, <3>1 DEF PageSound, PageTyped
  <2>3. /\ config \in ConfigSet /\ config.active \in Ids /\ FormsFenced
        /\ s.of \in SourceSet /\ s.kind \in SaveKinds \ {"none"} /\ s.id \in Owners
        /\ s.kind \in {"setup", "permissions", "limits", "account"} => s.expected = config.gen
    BY <1>1, <1>6 DEF PageSound, PageTyped, SaveSet, SaveAsFilled, Stale
  <2>4. config' \in ConfigSet /\ config'.active \in Ids /\ FormsFenced'
    <3>1. CASE s.kind = "permissions"
      <4>1. config' = [config EXCEPT !.permissions = s.of] /\ s.of.gen = config.gen
        BY <1>1, <2>1, <2>3, <3>1 DEF ConfigAfter, PatchOf, SaveAsFilled
      <4> QED
        BY <2>3, <4>1 DEF ConfigSet, FormsFenced, Listed
    <3>2. CASE s.kind = "limits"
      <4>1. config' = [config EXCEPT !.limits = s.of] /\ (s.of.via = "markup" \/ s.of.gen = config.gen)
        BY <1>1, <2>1, <2>3, <3>2 DEF ConfigAfter, PatchOf, SaveAsFilled
      <4> QED
        BY <2>3, <4>1 DEF ConfigSet, FormsFenced, Listed
    <3>3. CASE s.kind = "setup"
      <4>1. config' = [config EXCEPT !.accounts[config.active] = s.of] /\ s.of.gen = config.gen
        BY <1>1, <2>1, <2>3, <3>3 DEF ConfigAfter, PatchOf, SaveAsFilled
      <4> QED
        BY <2>3, <4>1 DEF ConfigSet, FormsFenced, Listed
    <3>4. CASE s.kind = "account"
      <4>1. /\ config' = config \/ (config' = [config EXCEPT !.accounts[s.id] = s.of] /\ s.id \in Ids)
            /\ s.of.via # "setup"
        BY <1>1, <2>1, <3>4 DEF ConfigAfter, updateAccount, SaveAsFilled, Listed
      <4> QED
        BY <2>3, <4>1 DEF ConfigSet, FormsFenced, Listed
    <3>5. CASE s.kind = "activate"
      <4>1. config' = config \/ (config' = [config EXCEPT !.active = s.id] /\ s.id \in Ids)
        BY <2>1, <3>5 DEF ConfigAfter, setActiveAccount, Listed
      <4> QED
        BY <2>3, <4>1 DEF ConfigSet, FormsFenced, Listed
    <3>6. CASE s.kind = "delete"
      <4> DEFINE next == IF config.active # s.id THEN config.active ELSE CHOOSE a \in Listed \ {s.id} : TRUE
      <4>1. CASE config' = config
        BY <2>3, <4>1 DEF FormsFenced, Listed
      <4>2. CASE config' # config
        <5>1. /\ config' = [config EXCEPT !.accounts[s.id] = Absent, !.active = next]
              /\ s.id \in Listed /\ Listed # {s.id}
          BY <2>1, <3>6, <4>2 DEF ConfigAfter, dropAccount
        <5>2. next \in Ids /\ s.id \in Ids
          BY <2>3, <5>1 DEF Listed
        <5> HIDE DEF next
        <5> QED
          BY <2>3, <5>1, <5>2, SourceFacts DEF ConfigSet, FormsFenced, Listed
      <4> QED
        BY <4>1, <4>2
    <3>7. CASE s.kind = "reset"
      <4>1. config' = Defaults(config.gen + 1) /\ config.gen + 1 \in Nat
        BY <2>1, <2>3, <3>7 DEF ConfigAfter, resetConfiguration, ConfigSet
      <4> QED
        BY <4>1, DefaultsFacts, SourceFacts DEF FormsFenced, Listed
    <3> QED
      BY <2>3, <3>1, <3>2, <3>3, <3>4, <3>5, <3>6, <3>7 DEF SaveKinds
  <2> QED
    BY <1>1, <1>2, <1>3, <2>2, <2>4 DEF PageSound, PageTyped
<1> QED
  BY <1>4, <1>5, <1>6

LEMMA PageShows ==
  ASSUME PageSound, NEW t \in Tabs,
         \/ refresh(t) \/ refreshAccounts(t)
         \/ \E which \in {"permissions", "limits"} : ensureTabLoaded(t, which)
         \/ \E a \in Ids : openAccountForm(t, a)
  PROVE  PageSound'
<1>1. /\ tab \in [Tabs -> TabSet] /\ tab[t] \in TabSet /\ FormsOfPage(tab[t])
      /\ config \in ConfigSet /\ fetched \in [Tabs -> ConfigSet] /\ fetched[t] \in ConfigSet
  BY DEF PageSound, PageTyped
<1>2. CASE refresh(t)
  <2> DEFINE c == fetched[t]
  <2>1. c.gen \in Nat /\ c.active \in Owners
    BY <1>1 DEF ConfigSet
  <2>2. /\ populateSetup(c) \in SourceSet /\ populateSetup(c).gen = c.gen
        /\ populatePermissions(c) \in SourceSet /\ populatePermissions(c).gen = c.gen
        /\ populateResponseLimits(c) \in SourceSet /\ populateResponseLimits(c).gen = c.gen
    BY <2>1, SourceFacts DEF populateSetup, populatePermissions, populateResponseLimits, Vias
  <2>3. tab' = [tab EXCEPT ![t] = Refilled(tab[t], c)]
    BY <1>1, <1>2 DEF refresh
  <2>4. UNCHANGED <<config, posted, process>> /\ fetched' \in [Tabs -> ConfigSet]
    BY <1>1, <1>2, NothingFacts DEF refresh
  <2>5. Refilled(tab[t], c) \in TabSet /\ FormsOfPage(Refilled(tab[t], c))
    <3> DEFINE permissions == IF tab[t].permissions = Absent THEN Absent ELSE populatePermissions(c)
               limits == IF tab[t].limits = Absent THEN Absent ELSE populateResponseLimits(c)
    <3>1. /\ permissions \in SourceSet /\ (permissions # Absent => permissions.gen = c.gen)
          /\ limits \in SourceSet /\ (limits # Absent => limits.gen = c.gen)
      BY <2>2, SourceFacts
    <3>2. Refilled(tab[t], c) = [tab[t] EXCEPT !.gen = c.gen, !.setup = populateSetup(c),
                                   !.permissions = permissions, !.limits = limits]
      BY DEF Refilled
    <3> HIDE DEF permissions, limits
    <3> QED
      BY <1>1, <2>1, <2>2, <3>1, <3>2 DEF TabSet, FormsOfPage
  <2> QED
    BY <2>3, <2>4, <2>5, TabKeeps
<1>3. CASE refreshAccounts(t)
  <2> DEFINE k == [tab[t] EXCEPT !.rows = safeAccounts]
  <2>1. safeAccounts \in [Ids -> SourceSet] /\ \A a \in Ids : safeAccounts[a].via # "setup"
    <3>1. \A a \in Ids : /\ Source(config.gen, a, "account") \in SourceSet
                         /\ Source(config.gen, a, "account").via = "account"
      BY <1>1, SourceFacts DEF ConfigSet, Vias
    <3> QED
      BY <3>1, SourceFacts DEF safeAccounts
  <2>2. k \in TabSet /\ FormsOfPage(k)
    BY <1>1, <2>1 DEF TabSet, FormsOfPage
  <2>3. tab' = [tab EXCEPT ![t] = k] /\ UNCHANGED <<config, posted, fetched, process>>
    BY <1>1, <1>3 DEF refreshAccounts
  <2> HIDE DEF k
  <2> QED
    BY <1>1, <2>2, <2>3, TabKeeps
<1>4. ASSUME NEW a \in Ids, openAccountForm(t, a) PROVE PageSound'
  <2> DEFINE k == [tab[t] EXCEPT !.form = [id |-> a, of |-> tab[t].rows[a]]]
  <2>1. k \in TabSet /\ FormsOfPage(k)
    BY <1>1, SourceFacts DEF TabSet, FormsOfPage
  <2>2. tab' = [tab EXCEPT ![t] = k] /\ UNCHANGED <<config, posted, fetched, process>>
    BY <1>1, <1>4 DEF openAccountForm
  <2> HIDE DEF k
  <2> QED
    BY <1>1, <2>1, <2>2, TabKeeps
<1>5. CASE ensureTabLoaded(t, "permissions")
  <2> DEFINE k == [tab[t] EXCEPT !.permissions = populatePermissions(tab[t])]
  <2>1. populatePermissions(tab[t]) \in SourceSet /\ populatePermissions(tab[t]).gen = tab[t].gen
    BY <1>1, SourceFacts DEF populatePermissions, Vias, TabSet
  <2>2. k \in TabSet /\ FormsOfPage(k)
    BY <1>1, <2>1 DEF TabSet, FormsOfPage
  <2>3. tab' = [tab EXCEPT ![t] = k] /\ UNCHANGED <<config, posted, fetched, process>>
    BY <1>1, <1>5 DEF ensureTabLoaded
  <2> HIDE DEF k
  <2> QED
    BY <1>1, <2>2, <2>3, TabKeeps
<1>6. CASE ensureTabLoaded(t, "limits")
  <2> DEFINE k == [tab[t] EXCEPT !.limits = Markup]
  <2>1. k \in TabSet /\ FormsOfPage(k)
    BY <1>1, SourceFacts DEF TabSet, FormsOfPage
  <2>2. tab' = [tab EXCEPT ![t] = k] /\ UNCHANGED <<config, posted, fetched, process>>
    BY <1>1, <1>6 DEF ensureTabLoaded
  <2> HIDE DEF k
  <2> QED
    BY <1>1, <2>1, <2>2, TabKeeps
<1> QED
  BY <1>2, <1>3, <1>4, <1>5, <1>6

LEMMA PagePosts ==
  ASSUME PageSound, NEW t \in Tabs,
         \/ saveSetup(t) \/ savePermissions(t) \/ rlSave(t) \/ applyPreset(t)
         \/ saveAccountForm(t) \/ resetConfig(t)
         \/ \E a \in Ids : activateAccount(t, a) \/ deleteAccount(t, a)
  PROVE  PageSound'
<1>1. /\ tab[t] \in TabSet /\ FormsOfPage(tab[t]) /\ "nobody" \in Owners /\ Absent \in SourceSet
      /\ tab[t].setup \in SourceSet /\ tab[t].permissions \in SourceSet /\ tab[t].limits \in SourceSet
      /\ tab[t].form.id \in Owners /\ tab[t].form.of \in SourceSet /\ Ids \subseteq Owners
  BY SourceFacts DEF PageSound, PageTyped, TabSet, Owners
<1>2. CASE saveSetup(t)
  BY <1>1, <1>2, PostKeeps DEF saveSetup, FormsOfPage, SaveKinds
<1>3. CASE savePermissions(t)
  BY <1>1, <1>3, PostKeeps DEF savePermissions, FormsOfPage, SaveKinds
<1>4. CASE rlSave(t)
  BY <1>1, <1>4, PostKeeps DEF rlSave, FormsOfPage, SaveKinds
<1>5. CASE applyPreset(t)
  <2>1. populatePermissions(tab[t]) \in SourceSet /\ populatePermissions(tab[t]).gen = tab[t].gen
    BY <1>1, SourceFacts DEF populatePermissions, Vias, TabSet
  <2> QED
    BY <1>1, <1>5, <2>1, PostKeeps DEF applyPreset, SaveKinds
<1>6. CASE saveAccountForm(t)
  BY <1>1, <1>6, PostKeeps DEF saveAccountForm, FormsOfPage, SaveKinds
<1>7. CASE resetConfig(t)
  BY <1>1, <1>7, PostKeeps DEF resetConfig, SaveKinds
<1>8. ASSUME NEW a \in Ids, activateAccount(t, a) \/ deleteAccount(t, a) PROVE PageSound'
  <2>1. a \in Owners /\ (Post(t, "activate", a, Absent) \/ Post(t, "delete", a, Absent))
    BY <1>1, <1>8 DEF activateAccount, deleteAccount
  <2> QED
    BY <1>1, <2>1, PostKeeps DEF SaveKinds
<1> QED
  BY <1>2, <1>3, <1>4, <1>5, <1>6, <1>7, <1>8

LEMMA PageStep == PageSound /\ [SPNext]_page_vars => PageSound'
<1> SUFFICES ASSUME PageSound, [SPNext]_page_vars PROVE PageSound'
  OBVIOUS
<1>1. CASE UNCHANGED page_vars
  BY <1>1 DEF page_vars, PageSound, PageTyped, FormsFenced, Listed
<1>2. CASE RestartServer
  <2>1. process' \in Nat /\ posted' = [o \in Tabs |-> NoSave] /\ UNCHANGED <<config, tab, fetched>>
    BY <1>2 DEF RestartServer, PageSound, PageTyped
  <2> QED
    BY <2>1, NoSaveFacts DEF PageSound, PageTyped, FormsFenced, Listed
<1>3. ASSUME NEW t \in Tabs, Fetch(t) PROVE PageSound'
  <2>1. fetched' = [fetched EXCEPT ![t] = config] /\ UNCHANGED <<config, tab, posted, process>>
    BY <1>3 DEF Fetch
  <2> QED
    BY <2>1 DEF PageSound, PageTyped, FormsFenced, Listed
<1> QED
  BY <1>1, <1>2, <1>3, PageShows, PagePosts, SaveKeeps DEF SPNext

LEMMA PageIsSound == SPSpec => []PageSound
BY PageStarts, PageStep, PTL DEF SPSpec

(* Whatever the order of the pages' and the clients' steps: no form filled      *)
(* before a reset is stored after it, nothing is let through without a session  *)
(* of this process, nor beyond a client's limit.                                *)
THEOREM SettingsAreSound == SSSpec => []SettingsHold
<1>1. AccessSound => GatesHold
  BY SoundGates
<1>2. PageSound => FormsFenced
  BY DEF PageSound
<1> QED
  BY <1>1, <1>2, AccessIsSound, PageIsSound, PTL DEF SSSpec, SettingsHold

------------------------------------------------------------------------------
(* The keys of the integrations                                                 *)

Copies == [Secrets -> Nat]
CallPlaces ==
  {"idle", "queued", "clear", "save", "commit", "refresh", "reading", "read", "disable", "migrate", "done"}
CallStates ==
  [pc : CallPlaces, saves : SUBSET Secrets, clears : SUBSET Secrets, seen : Nat,
   cleared : SUBSET Secrets, stored : BOOLEAN, found : Copies]

KeysTyped ==
  /\ conf \in Copies /\ keychain \in Copies /\ secretsInUse \in Copies
  /\ quarantined \in SUBSET Secrets /\ keychainUp \in BOOLEAN
  /\ call \in [Anyone -> CallStates] /\ refreshGeneration \in Anyone /\ resetGeneration \in Nat
  /\ promised \in [Secrets -> Nat \cup {Unpromised}] /\ changedBy \in [Secrets -> SettingsCalls \cup {NoCaller}]

(* One call at a time changes what is stored, and only what it was asked to.    *)
Writing(c) == call[c].pc \in {"clear", "save", "commit"}
CallsSound ==
  /\ call[Daemon].pc = "migrate" => writer = Daemon
  /\ \A c \in SettingsCalls :
       /\ Writing(c) => /\ writer = c
                        /\ \A s \in Secrets : changedBy[s] = c <=> s \in call[c].saves \cup call[c].clears
       /\ call[c].saves \cap call[c].clears = {} /\ call[c].cleared \subseteq call[c].saves \cup call[c].clears
       /\ call[c].pc \in {"idle", "disable"} => call[c].saves = {}
       /\ call[c].pc = "save" \/ call[c].pc = "commit" =>
            \A s \in call[c].clears : keychain[s] = Vacant \/ keychainUp = FALSE
       /\ call[c].pc = "commit" => \A s \in call[c].saves :
            IF call[c].stored = TRUE THEN keychain[s] = c + 1 /\ s \in call[c].cleared /\ keychainUp = TRUE
                                     ELSE s \notin quarantined

(* What a call leaves, and what is promised once it is done.                    *)
Val(c, s) == IF s \in call[c].saves THEN c + 1 ELSE Vacant
LeftAsAsked ==
  \A s \in Secrets :
    /\ changedBy[s] # NoCaller => call[changedBy[s]].pc \notin {"idle", "queued"}
    /\ changedBy[s] # NoCaller /\ call[changedBy[s]].pc \in {"refresh", "reading", "read", "disable"} =>
         Loaded[s] = Val(changedBy[s], s)
    /\ promised[s] # Unpromised =>
         changedBy[s] # NoCaller /\ call[changedBy[s]].pc = "done" /\ Loaded[s] = promised[s]

(* The newest refresh has read what the settled secrets are, and once it ended  *)
(* the clients have them, or none.                                              *)
Settled(s) ==
  changedBy[s] = NoCaller \/ call[changedBy[s]].pc \notin {"clear", "save", "commit", "refresh", "disable"}
NewestSound ==
  \A s \in Secrets : Settled(s) =>
    /\ call[refreshGeneration].pc = "read" => call[refreshGeneration].found[s] = Loaded[s]
    /\ ~Refreshing => secretsInUse[s] \in {Vacant, Loaded[s]}

ISInv == KeysTyped /\ CallsSound /\ LeftAsAsked /\ NewestSound


SameBut(r, q) == r.saves = q.saves /\ r.clears = q.clears /\ r.seen = q.seen

LEMMA KeyFacts ==
  /\ Daemon \notin SettingsCalls /\ NoCaller \notin SettingsCalls /\ NoCaller # Daemon /\ Daemon \in Anyone
  /\ SettingsCalls \subseteq Anyone /\ Anyone = SettingsCalls \cup {Daemon}
  /\ \A c \in SettingsCalls : c \in Nat /\ c # Daemon /\ c # NoCaller /\ c + 1 \in Nat /\ c + 1 # Unpromised /\ c + 1 # Vacant
  /\ Empty \in Copies /\ (\A s \in Secrets : Empty[s] = Vacant)
  /\ Vacant = 0 /\ Unpromised = -1
BY SecretsAssumption DEF Daemon, NoCaller, Anyone, Unpromised, Vacant, Empty, Copies

LEMMA LoadedIs ==
  ASSUME KeysTyped
  PROVE  /\ Loaded \in Copies
         /\ \A s \in Secrets :
              Loaded[s] = IF s \in quarantined THEN Vacant
                          ELSE IF conf[s] = Vacant /\ keychainUp = TRUE THEN keychain[s] ELSE conf[s]
BY DEF Loaded, KeysTyped, Copies, Vacant

LEMMA NoCallFacts ==
  ASSUME NEW p \in CallPlaces
  PROVE  /\ NoCall \in CallStates /\ NoCall.pc = "idle" /\ NoCall.saves = {} /\ NoCall.clears = {} /\ NoCall.cleared = {}
         /\ LET r == [NoCall EXCEPT !.pc = p] IN
            r \in CallStates /\ r.pc = p /\ r.saves = {} /\ r.clears = {} /\ r.cleared = {}
<1>1. PICK no \in BOOLEAN : no = FALSE
  OBVIOUS
<1>2. NoCall = [pc |-> "idle", saves |-> {}, clears |-> {}, seen |-> 0, cleared |-> {}, stored |-> no, found |-> Empty]
  BY <1>1 DEF NoCall
<1>3. /\ NoCall \in CallStates /\ NoCall.pc = "idle" /\ NoCall.saves = {} /\ NoCall.clears = {}
      /\ NoCall.cleared = {}
  BY <1>2, KeyFacts DEF CallStates, CallPlaces
<1>4. PICK q \in CallStates : q = NoCall
  BY <1>3
<1>5. LET r == [q EXCEPT !.pc = p] IN
      r \in CallStates /\ r.pc = p /\ r.saves = q.saves /\ r.clears = q.clears /\ r.cleared = q.cleared
  BY DEF CallStates
<1> QED
  BY <1>3, <1>4, <1>5

(* While nobody settled anything new and the newest refresh is as it was.       *)
LEMMA NewestStays ==
  ASSUME NewestSound, UNCHANGED <<refreshGeneration, secretsInUse>>,
         \A s \in Secrets : Settled(s)' => Settled(s) /\ Loaded'[s] = Loaded[s],
         Refreshing => Refreshing',
         call'[refreshGeneration].pc = "read" =>
           call[refreshGeneration].pc = "read" /\ call'[refreshGeneration].found = call[refreshGeneration].found
  PROVE  NewestSound'
BY DEF NewestSound

(* A step of the call that has the lock and keeps it.                           *)
LEMMA WriterStep ==
  ASSUME ISInv, NEW c \in SettingsCalls, Writing(c),
         call' \in [Anyone -> CallStates], \A d \in Anyone : d # c => call'[d] = call[d],
         call'[c].pc \in {"save", "commit"}, SameBut(call'[c], call[c]),
         call'[c].cleared \subseteq call[c].saves \cup call[c].clears,
         UNCHANGED <<conf, quarantined, keychainUp, changedBy, promised, secretsInUse, refreshGeneration,
                     resetGeneration, writer>>,
         keychain' \in Copies,
         \A s \in Secrets : s \notin call[c].saves \cup call[c].clears => keychain'[s] = keychain[s],
         \A s \in call[c].clears : keychain'[s] = Vacant \/ keychainUp = FALSE,
         call'[c].pc = "commit" => \A s \in call[c].saves :
           IF call'[c].stored = TRUE THEN keychain'[s] = c + 1 /\ s \in call'[c].cleared /\ keychainUp = TRUE
                                     ELSE s \notin quarantined
  PROVE  ISInv'
<1> USE KeyFacts
<1>1. KeysTyped /\ CallsSound /\ LeftAsAsked /\ NewestSound
  BY DEF ISInv
<1>2. KeysTyped'
  BY <1>1 DEF KeysTyped
<1>3. writer = c /\ \A s \in Secrets : changedBy[s] = c <=> s \in call[c].saves \cup call[c].clears
  BY <1>1 DEF CallsSound
<1>4. \A d \in SettingsCalls : d # c => ~Writing(d)
  BY <1>1, <1>3 DEF CallsSound
<1>5. \A s \in Secrets : changedBy[s] # c => Loaded'[s] = Loaded[s]
  BY <1>1, <1>2, <1>3, LoadedIs DEF Loaded
<1>6. CallsSound'
  BY <1>1, <1>3, <1>4 DEF CallsSound, Writing, SameBut
<1>7. LeftAsAsked'
  <2>1. ASSUME NEW s \in Secrets
        PROVE  /\ changedBy[s] # NoCaller => call'[changedBy[s]].pc \notin {"idle", "queued"}
               /\ changedBy[s] # NoCaller /\ call'[changedBy[s]].pc \in {"refresh", "reading", "read", "disable"} =>
                    Loaded'[s] = Val(changedBy[s], s)'
               /\ promised[s] # Unpromised =>
                    changedBy[s] # NoCaller /\ call'[changedBy[s]].pc = "done" /\ Loaded'[s] = promised[s]
    <3>1. changedBy[s] \in SettingsCalls \cup {NoCaller}
      BY <1>1 DEF KeysTyped
    <3>2. CASE changedBy[s] = c
      BY <1>1, <3>2 DEF LeftAsAsked, Writing
    <3>3. CASE changedBy[s] # c
      <4>1. changedBy[s] # NoCaller => call'[changedBy[s]] = call[changedBy[s]]
        BY <3>1, <3>3
      <4> QED
        BY <1>1, <1>5, <3>1, <3>3, <4>1 DEF LeftAsAsked, Val
    <3> QED
      BY <3>2, <3>3
  <2> QED
    BY <2>1 DEF LeftAsAsked, Val
<1>8. NewestSound'
  <2>1. ASSUME NEW s \in Secrets, Settled(s)'
        PROVE  Settled(s) /\ Loaded'[s] = Loaded[s]
    <3>1. changedBy[s] \in SettingsCalls \cup {NoCaller}
      BY <1>1 DEF KeysTyped
    <3>2. changedBy[s] # c
      BY <2>1 DEF Settled
    <3> QED
      BY <1>5, <2>1, <3>1, <3>2 DEF Settled
  <2>2. refreshGeneration \in Anyone
    BY <1>1 DEF KeysTyped
  <2> QED
    BY <1>1, <2>1, <2>2, NewestStays DEF Refreshing, Writing
<1> QED
  BY <1>2, <1>6, <1>7, <1>8 DEF ISInv

LEMMA DoubtStep ==
  ASSUME ISInv, NEW c \in SettingsCalls, Writing(c), NEW S \in SUBSET (call[c].saves \cup call[c].clears),
         S \subseteq Secrets,
         FailInDoubt(c, S), UNCHANGED <<conf, keychainUp, changedBy, resetGeneration>>,
         keychain' \in Copies,
         \A s \in Secrets : s \notin S => keychain'[s] = keychain[s]
  PROVE  ISInv'
<1> USE KeyFacts
<1>1. KeysTyped /\ CallsSound /\ LeftAsAsked /\ NewestSound /\ call \in [Anyone -> CallStates]
  BY DEF ISInv, KeysTyped
<1>2. /\ quarantined' = quarantined \cup S /\ secretsInUse' = Empty /\ refreshGeneration' = c /\ writer' = NoCaller
      /\ call' = [call EXCEPT ![c].pc = "done"]
      /\ promised' = [s \in Secrets |-> IF s \in S THEN Vacant ELSE promised[s]]
  BY DEF FailInDoubt, Disabled
<1>3. PICK p \in CallPlaces : p = "done"
  BY DEF CallPlaces
<1>4. /\ call' \in [Anyone -> CallStates] /\ call'[c].pc = "done" /\ SameBut(call'[c], call[c])
      /\ call'[c].cleared = call[c].cleared
      /\ \A d \in Anyone : d # c => call'[d] = call[d]
  BY <1>1, <1>2, <1>3 DEF CallStates, SameBut
<1>5. KeysTyped'
  BY <1>1, <1>2, <1>4 DEF KeysTyped
<1>6. writer = c /\ \A s \in Secrets : changedBy[s] = c <=> s \in call[c].saves \cup call[c].clears
  BY <1>1 DEF CallsSound
<1>7. \A d \in SettingsCalls : d # c => ~Writing(d)
  BY <1>1, <1>6 DEF CallsSound
<1>8. /\ \A s \in S : Loaded'[s] = Vacant
      /\ \A s \in Secrets : changedBy[s] # c => Loaded'[s] = Loaded[s]
  BY <1>1, <1>2, <1>5, <1>6, LoadedIs DEF Loaded
<1>9. CallsSound'
  BY <1>1, <1>4, <1>6, <1>7 DEF CallsSound, Writing, SameBut
<1>10. LeftAsAsked'
  <2>1. ASSUME NEW s \in Secrets
        PROVE  /\ changedBy[s] # NoCaller => call'[changedBy[s]].pc \notin {"idle", "queued"}
               /\ changedBy[s] # NoCaller /\ call'[changedBy[s]].pc \in {"refresh", "reading", "read", "disable"} =>
                    Loaded'[s] = Val(changedBy[s], s)'
               /\ promised'[s] # Unpromised =>
                    changedBy[s] # NoCaller /\ call'[changedBy[s]].pc = "done" /\ Loaded'[s] = promised'[s]
    <3>1. changedBy[s] \in SettingsCalls \cup {NoCaller} /\ promised'[s] = IF s \in S THEN Vacant ELSE promised[s]
      BY <1>1, <1>2 DEF KeysTyped
    <3>2. CASE changedBy[s] = c
      <4>1. promised[s] = Unpromised
        BY <1>1, <3>2 DEF LeftAsAsked, Writing
      <4> QED
        BY <1>4, <1>8, <3>1, <3>2, <4>1
    <3>3. CASE changedBy[s] # c
      <4>1. changedBy[s] # NoCaller => call'[changedBy[s]] = call[changedBy[s]]
        BY <1>4, <3>1, <3>3
      <4>2. s \notin S
        BY <1>6, <3>3
      <4> QED
        BY <1>1, <1>8, <3>1, <3>3, <4>1, <4>2 DEF LeftAsAsked, Val
    <3> QED
      BY <3>2, <3>3
  <2> QED
    BY <2>1 DEF LeftAsAsked, Val
<1>11. NewestSound'
  BY <1>2, <1>4 DEF NewestSound, Refreshing
<1> QED
  BY <1>5, <1>9, <1>10, <1>11 DEF ISInv

LEMMA StoredFacts ==
  ASSUME KeysTyped, NEW done \in SUBSET Secrets, NEW new \in Nat, Stored(done, new)
  PROVE  keychain' \in Copies /\ \A s \in Secrets : keychain'[s] = IF s \in done THEN new ELSE keychain[s]
BY DEF KeysTyped, Stored, Copies

LEMMA ClearBatchSound ==
  ASSUME ISInv, NEW c \in SettingsCalls, ClearBatch(c)
  PROVE  ISInv'
<1> USE KeyFacts
<1>1. KeysTyped /\ CallsSound /\ call \in [Anyone -> CallStates] /\ call[c] \in CallStates
  BY DEF ISInv, KeysTyped
<1>2. /\ call[c].pc = "clear" /\ UNCHANGED <<conf, keychainUp, changedBy, resetGeneration>> /\ Writing(c)
      /\ keychain \in Copies /\ call[c].saves \in SUBSET Secrets /\ call[c].clears \in SUBSET Secrets
      /\ call[c].cleared \subseteq call[c].saves \cup call[c].clears
      /\ call[c].saves \cap call[c].clears = {}
  BY <1>1 DEF ClearBatch, Fixed, Writing, KeysTyped, CallStates, CallsSound
<1>3. PICK S \in SUBSET Secrets : S = call[c].clears
  BY <1>2
<1>4. PICK p \in CallPlaces : p = "save"
  BY DEF CallPlaces
<1>5. CASE S = {} /\ Proceeds(c, "save") /\ UNCHANGED keychain
           /\ UNCHANGED <<quarantined, storageHint, secretsInUse, refreshGeneration, writer, promised>>
  <2>1. call' = [call EXCEPT ![c].pc = p]
    BY <1>4, <1>5 DEF Proceeds
  <2>2. /\ call' \in [Anyone -> CallStates] /\ call'[c].pc = "save" /\ SameBut(call'[c], call[c])
        /\ call'[c].cleared = call[c].cleared /\ \A d \in Anyone : d # c => call'[d] = call[d]
    BY <1>1, <1>4, <2>1 DEF CallStates, SameBut
  <2> QED
    BY <1>2, <1>3, <1>5, <2>2, WriterStep
<1>6. ASSUME NEW ok \in BOOLEAN, NEW done \in SUBSET S,
             Batch(S, ok, done), Stored(done, Vacant), ~ok, InDoubtAfterClear(S), FailInDoubt(c, S)
      PROVE  ISInv'
  <2>1. keychain' \in Copies /\ \A s \in Secrets : keychain'[s] = IF s \in done THEN Vacant ELSE keychain[s]
    BY <1>1, <1>6, StoredFacts
  <2>2. \A s \in Secrets : s \notin S => keychain'[s] = keychain[s]
    BY <2>1
  <2>3. S \in SUBSET (call[c].saves \cup call[c].clears)
    BY <1>3
  <2> QED
    BY <1>2, <1>6, <2>1, <2>2, <2>3, DoubtStep
<1>7. ASSUME NEW ok \in BOOLEAN, NEW done \in SUBSET S,
             Batch(S, ok, done), Stored(done, Vacant), ok = TRUE \/ ~InDoubtAfterClear(S),
             call' = [call EXCEPT ![c].pc = "save", ![c].cleared = IF ok THEN S ELSE {}],
             UNCHANGED <<quarantined, storageHint, secretsInUse, refreshGeneration, writer, promised>>
      PROVE  ISInv'
  <2>1. keychain' \in Copies /\ \A s \in Secrets : keychain'[s] = IF s \in done THEN Vacant ELSE keychain[s]
    BY <1>1, <1>7, StoredFacts
  <2>2. PICK cl \in SUBSET Secrets : cl = (IF ok THEN S ELSE {})
    OBVIOUS
  <2>3. call' = [call EXCEPT ![c].pc = p, ![c].cleared = cl]
    BY <1>4, <1>7, <2>2
  <2>4. /\ call' \in [Anyone -> CallStates] /\ call'[c].pc = "save" /\ SameBut(call'[c], call[c])
        /\ call'[c].cleared = cl /\ \A d \in Anyone : d # c => call'[d] = call[d]
    BY <1>1, <1>4, <2>3 DEF CallStates, SameBut
  <2>5. \A s \in S : keychain'[s] = Vacant \/ keychainUp = FALSE
    BY <1>1, <1>7, <2>1 DEF Batch, InDoubtAfterClear, KeysTyped
  <2>6. cl \subseteq call[c].saves \cup call[c].clears
    BY <1>3, <2>2
  <2>7. \A s \in Secrets : s \notin call[c].saves \cup call[c].clears => keychain'[s] = keychain[s]
    BY <1>3, <2>1
  <2> QED
    BY <1>2, <1>3, <1>7, <2>1, <2>4, <2>5, <2>6, <2>7, WriterStep
<1> QED
  <2>1. \/ S = {} /\ Proceeds(c, "save") /\ UNCHANGED keychain
           /\ UNCHANGED <<quarantined, storageHint, secretsInUse, refreshGeneration, writer, promised>>
        \/ \E ok \in BOOLEAN, done \in SUBSET S :
             /\ Batch(S, ok, done) /\ Stored(done, Vacant)
             /\ \/ ~ok /\ InDoubtAfterClear(S) /\ FailInDoubt(c, S)
                \/ /\ ok = TRUE \/ ~InDoubtAfterClear(S)
                   /\ call' = [call EXCEPT ![c].pc = "save", ![c].cleared = IF ok THEN S ELSE {}]
                   /\ UNCHANGED <<quarantined, storageHint, secretsInUse, refreshGeneration, writer, promised>>
    BY <1>3, Zenon DEF ClearBatch
  <2> QED
    BY <1>5, <1>6, <1>7, <2>1

LEMMA SaveSound ==
  ASSUME ISInv, NEW c \in SettingsCalls, Save(c)
  PROVE  ISInv'
<1> USE KeyFacts
<1>1. KeysTyped /\ CallsSound /\ call \in [Anyone -> CallStates] /\ call[c] \in CallStates
  BY DEF ISInv, KeysTyped
<1>2. /\ call[c].pc = "save" /\ UNCHANGED <<conf, keychainUp, changedBy, resetGeneration>> /\ Writing(c)
      /\ keychain \in Copies /\ call[c].saves \in SUBSET Secrets /\ call[c].clears \in SUBSET Secrets
      /\ call[c].cleared \in SUBSET Secrets
      /\ call[c].cleared \subseteq call[c].saves \cup call[c].clears
      /\ call[c].saves \cap call[c].clears = {}
      /\ \A s \in call[c].clears : keychain[s] = Vacant \/ keychainUp = FALSE
  BY <1>1 DEF Save, Fixed, Writing, KeysTyped, CallStates, CallsSound
<1>3. PICK S \in SUBSET Secrets : S = call[c].saves
  BY <1>2
<1>4. PICK p \in CallPlaces : p = "commit"
  BY DEF CallPlaces
<1>5. CASE S = {} /\ Proceeds(c, "commit") /\ UNCHANGED keychain
           /\ UNCHANGED <<quarantined, storageHint, secretsInUse, refreshGeneration, writer, promised>>
  <2>1. call' = [call EXCEPT ![c].pc = p]
    BY <1>4, <1>5 DEF Proceeds
  <2>2. /\ call' \in [Anyone -> CallStates] /\ call'[c].pc = "commit" /\ SameBut(call'[c], call[c])
        /\ call'[c].cleared = call[c].cleared /\ \A d \in Anyone : d # c => call'[d] = call[d]
    BY <1>1, <1>4, <2>1 DEF CallStates, SameBut
  <2> QED
    BY <1>2, <1>3, <1>5, <2>2, WriterStep
<1>6. ASSUME NEW ok \in BOOLEAN, NEW done \in SUBSET S,
             Batch(S, ok, done), Stored(done, c + 1), ~ok, InDoubtAfterSave(S), FailInDoubt(c, S)
      PROVE  ISInv'
  <2>1. keychain' \in Copies /\ \A s \in Secrets : keychain'[s] = IF s \in done THEN c + 1 ELSE keychain[s]
    BY <1>1, <1>6, StoredFacts
  <2>2. \A s \in Secrets : s \notin S => keychain'[s] = keychain[s]
    BY <2>1
  <2>3. S \in SUBSET (call[c].saves \cup call[c].clears)
    BY <1>3
  <2> QED
    BY <1>2, <1>6, <2>1, <2>2, <2>3, DoubtStep
<1>7. ASSUME NEW ok \in BOOLEAN, NEW done \in SUBSET S,
             Batch(S, ok, done), Stored(done, c + 1), ok = TRUE \/ ~InDoubtAfterSave(S),
             call' = [call EXCEPT ![c].pc = "commit", ![c].stored = ok, ![c].cleared = IF ok THEN @ \cup S ELSE @],
             UNCHANGED <<quarantined, storageHint, secretsInUse, refreshGeneration, writer, promised>>
      PROVE  ISInv'
  <2>1. keychain' \in Copies /\ \A s \in Secrets : keychain'[s] = IF s \in done THEN c + 1 ELSE keychain[s]
    BY <1>1, <1>7, StoredFacts
  <2>2. PICK cl \in SUBSET Secrets : cl = (IF ok THEN call[c].cleared \cup S ELSE call[c].cleared)
    BY <1>2
  <2>3. call' = [call EXCEPT ![c].pc = p, ![c].stored = ok, ![c].cleared = cl]
    BY <1>1, <1>4, <1>7, <2>2 DEF CallStates
  <2>4. /\ call' \in [Anyone -> CallStates] /\ call'[c].pc = "commit" /\ SameBut(call'[c], call[c])
        /\ call'[c].cleared = cl /\ call'[c].stored = ok /\ \A d \in Anyone : d # c => call'[d] = call[d]
    BY <1>1, <1>4, <2>3 DEF CallStates, SameBut
  <2>5. \A s \in call[c].clears : keychain'[s] = Vacant \/ keychainUp = FALSE
    BY <1>2, <1>3, <2>1
  <2>6. cl \subseteq call[c].saves \cup call[c].clears
    BY <1>2, <1>3, <2>2
  <2>7. \A s \in Secrets : s \notin call[c].saves \cup call[c].clears => keychain'[s] = keychain[s]
    BY <1>3, <2>1
  <2>8. \A s \in call[c].saves :
           IF ok = TRUE THEN keychain'[s] = c + 1 /\ s \in cl /\ keychainUp = TRUE ELSE s \notin quarantined
    BY <1>1, <1>3, <1>7, <2>1, <2>2 DEF Batch, InDoubtAfterSave, KeysTyped
  <2> QED
    BY <1>2, <1>7, <2>1, <2>4, <2>5, <2>6, <2>7, <2>8, WriterStep
<1> QED
  <2>1. \/ S = {} /\ Proceeds(c, "commit") /\ UNCHANGED keychain
           /\ UNCHANGED <<quarantined, storageHint, secretsInUse, refreshGeneration, writer, promised>>
        \/ \E ok \in BOOLEAN, done \in SUBSET S :
             /\ Batch(S, ok, done) /\ Stored(done, c + 1)
             /\ \/ ~ok /\ InDoubtAfterSave(S) /\ FailInDoubt(c, S)
                \/ /\ ok = TRUE \/ ~InDoubtAfterSave(S)
                   /\ call' = [call EXCEPT ![c].pc = "commit", ![c].stored = ok, ![c].cleared = IF ok THEN @ \cup S ELSE @]
                   /\ UNCHANGED <<quarantined, storageHint, secretsInUse, refreshGeneration, writer, promised>>
    BY <1>3, Zenon DEF Save
  <2> QED
    BY <1>5, <1>6, <1>7, <2>1

LEMMA CommitSecretsSound ==
  ASSUME ISInv, NEW c \in SettingsCalls, Commit(c)
  PROVE  ISInv'
<1> USE KeyFacts
<1>1. KeysTyped /\ CallsSound /\ LeftAsAsked /\ NewestSound /\ call \in [Anyone -> CallStates] /\ call[c] \in CallStates
  BY DEF ISInv, KeysTyped
<1>2. /\ call[c].pc = "commit" /\ Writing(c) /\ writer' = NoCaller
      /\ UNCHANGED <<keychain, keychainUp, changedBy, promised, resetGeneration, secretsInUse, refreshGeneration>>
      /\ quarantined' = quarantined \ call[c].cleared
      /\ call[c].saves \in SUBSET Secrets /\ call[c].clears \in SUBSET Secrets /\ conf \in Copies
      /\ call[c].cleared \subseteq call[c].saves \cup call[c].clears
      /\ call[c].saves \cap call[c].clears = {}
      /\ \A s \in call[c].clears : keychain[s] = Vacant \/ keychainUp = FALSE
      /\ \A s \in call[c].saves :
           IF call[c].stored = TRUE THEN keychain[s] = c + 1 /\ s \in call[c].cleared /\ keychainUp = TRUE
                                    ELSE s \notin quarantined
      /\ writer = c /\ \A s \in Secrets : changedBy[s] = c <=> s \in call[c].saves \cup call[c].clears
      /\ call[c].stored \in BOOLEAN
  BY <1>1 DEF Commit, Fixed, History, Writing, KeysTyped, CallStates, CallsSound
<1>3. \A d \in SettingsCalls : d # c => ~Writing(d)
  BY <1>1, <1>2 DEF CallsSound
<1>4. /\ conf' \in Copies
      /\ \A s \in Secrets : conf'[s] = IF s \in call[c].clears THEN Vacant
                                       ELSE IF s \in call[c].saves
                                            THEN IF call[c].stored = TRUE THEN Vacant ELSE c + 1
                                            ELSE conf[s]
  BY <1>1, <1>2 DEF Commit, Copies
<1>5. PICK p \in CallPlaces : p = "refresh"
  BY DEF CallPlaces
<1>6. /\ call' \in [Anyone -> CallStates] /\ call'[c].pc = "refresh" /\ SameBut(call'[c], call[c])
      /\ call'[c].cleared = call[c].cleared
      /\ \A d \in Anyone : d # c => call'[d] = call[d]
  <2>1. call' = [call EXCEPT ![c].pc = p]
    BY <1>5 DEF Commit, Proceeds
  <2> QED
    BY <1>1, <1>5, <2>1 DEF CallStates, SameBut
<1>7. KeysTyped'
  BY <1>1, <1>2, <1>4, <1>6 DEF KeysTyped
<1>8. /\ \A s \in Secrets : changedBy[s] = c => Loaded'[s] = Val(c, s)
      /\ \A s \in Secrets : changedBy[s] # c => Loaded'[s] = Loaded[s]
  <2>1. \A s \in Secrets :
          /\ Loaded'[s] = IF s \in quarantined' THEN Vacant
                          ELSE IF conf'[s] = Vacant /\ keychainUp = TRUE THEN keychain[s] ELSE conf'[s]
          /\ Loaded[s] = IF s \in quarantined THEN Vacant
                         ELSE IF conf[s] = Vacant /\ keychainUp = TRUE THEN keychain[s] ELSE conf[s]
    BY <1>1, <1>2, <1>7, LoadedIs DEF Loaded
  <2>2. ASSUME NEW s \in Secrets, changedBy[s] = c
        PROVE  Loaded'[s] = Val(c, s)
    <3>1. CASE s \in call[c].clears
      BY <1>2, <1>4, <2>1, <3>1 DEF Val
    <3>2. CASE s \in call[c].saves
      BY <1>2, <1>4, <2>1, <3>2 DEF Val
    <3> QED
      BY <1>2, <2>2, <3>1, <3>2
  <2> QED
    BY <1>2, <1>4, <2>1, <2>2
<1>9. CallsSound'
  BY <1>1, <1>2, <1>3, <1>6 DEF CallsSound, Writing, SameBut
<1>10. LeftAsAsked'
  <2>1. ASSUME NEW s \in Secrets
        PROVE  /\ changedBy[s] # NoCaller => call'[changedBy[s]].pc \notin {"idle", "queued"}
               /\ changedBy[s] # NoCaller /\ call'[changedBy[s]].pc \in {"refresh", "reading", "read", "disable"} =>
                    Loaded'[s] = Val(changedBy[s], s)'
               /\ promised[s] # Unpromised =>
                    changedBy[s] # NoCaller /\ call'[changedBy[s]].pc = "done" /\ Loaded'[s] = promised[s]
    <3>1. changedBy[s] \in SettingsCalls \cup {NoCaller}
      BY <1>1 DEF KeysTyped
    <3>2. CASE changedBy[s] = c
      <4>1. promised[s] = Unpromised
        BY <1>1, <1>2, <3>2 DEF LeftAsAsked
      <4>2. Loaded'[s] = Val(c, s)'
        BY <1>2, <1>6, <1>8, <3>2 DEF Val, SameBut
      <4> QED
        BY <1>2, <1>6, <3>2, <4>1, <4>2
    <3>3. CASE changedBy[s] # c
      <4>1. changedBy[s] # NoCaller => call'[changedBy[s]] = call[changedBy[s]]
        BY <1>6, <3>1, <3>3
      <4> QED
        BY <1>1, <1>2, <1>8, <3>1, <3>3, <4>1 DEF LeftAsAsked, Val
    <3> QED
      BY <3>2, <3>3
  <2> QED
    BY <1>2, <2>1 DEF LeftAsAsked, Val
<1>11. NewestSound'
  <2>1. ASSUME NEW s \in Secrets, Settled(s)'
        PROVE  Settled(s) /\ Loaded'[s] = Loaded[s]
    <3>1. changedBy[s] \in SettingsCalls \cup {NoCaller}
      BY <1>1 DEF KeysTyped
    <3>2. changedBy[s] # c
      BY <1>2, <1>6, <2>1 DEF Settled
    <3> QED
      BY <1>2, <1>6, <1>8, <2>1, <3>1, <3>2 DEF Settled
  <2>2. refreshGeneration \in Anyone
    BY <1>1 DEF KeysTyped
  <2> QED
    BY <1>1, <1>2, <1>6, <2>1, <2>2, NewestStays DEF Refreshing, Writing
<1> QED
  BY <1>7, <1>9, <1>10, <1>11 DEF ISInv

LEMMA SubmitSound ==
  ASSUME ISInv, NEW c \in SettingsCalls, Submit(c)
  PROVE  ISInv'
<1> USE KeyFacts
<1>1. KeysTyped /\ CallsSound /\ LeftAsAsked /\ NewestSound /\ call \in [Anyone -> CallStates]
      /\ resetGeneration \in Nat /\ refreshGeneration \in Anyone
  BY DEF ISInv, KeysTyped
<1>2. /\ call[c].pc = "idle"
      /\ UNCHANGED <<conf, quarantined, resetGeneration, keychain, keychainUp, secretsInUse, refreshGeneration, writer,
                     promised, changedBy>>
  BY DEF Submit, secret_files, History, Fixed
<1>3. PICK ss \in SUBSET Secrets, cs \in SUBSET Secrets :
        /\ ss \cap cs = {}
        /\ call' = [call EXCEPT ![c] = [NoCall EXCEPT !.pc = "queued", !.saves = ss, !.clears = cs,
                                                   !.seen = resetGeneration]]
  BY DEF Submit
<1>4. PICK p \in CallPlaces : p = "queued"
  BY DEF CallPlaces
<1>5. PICK r \in CallStates :
        /\ r = [NoCall EXCEPT !.pc = "queued", !.saves = ss, !.clears = cs, !.seen = resetGeneration]
        /\ r.pc = "queued" /\ r.saves = ss /\ r.clears = cs /\ r.cleared = {}
  <2>1. PICK q \in CallStates : q = NoCall /\ q.cleared = {}
    BY <1>1, <1>4, NoCallFacts
  <2>2. PICK r : r = [q EXCEPT !.pc = p, !.saves = ss, !.clears = cs, !.seen = resetGeneration]
    OBVIOUS
  <2>3. r \in CallStates /\ r.pc = p /\ r.saves = ss /\ r.clears = cs /\ r.cleared = q.cleared
    BY <1>1, <2>2 DEF CallStates
  <2>4. r = [NoCall EXCEPT !.pc = "queued", !.saves = ss, !.clears = cs, !.seen = resetGeneration]
    BY <1>4, <2>1, <2>2, Zenon
  <2> QED
    BY <1>4, <2>1, <2>3, <2>4
<1>6. /\ call' \in [Anyone -> CallStates] /\ call'[c] = r /\ \A d \in Anyone : d # c => call'[d] = call[d]
  BY <1>1, <1>3, <1>5
<1>7. KeysTyped' /\ CallsSound'
  BY <1>1, <1>2, <1>3, <1>5, <1>6 DEF KeysTyped, CallsSound, Writing
<1>8. \A s \in Secrets : changedBy[s] # NoCaller => changedBy[s] \in SettingsCalls /\ changedBy[s] # c
  BY <1>1, <1>2 DEF LeftAsAsked, KeysTyped
<1>9. Loaded' = Loaded
  BY <1>2 DEF Loaded
<1>10. LeftAsAsked'
  BY <1>1, <1>2, <1>6, <1>8, <1>9 DEF LeftAsAsked, Val
<1>11. NewestSound'
  <2>1. \A s \in Secrets : Settled(s)' => Settled(s) /\ Loaded'[s] = Loaded[s]
    BY <1>2, <1>6, <1>8, <1>9 DEF Settled
  <2> QED
    BY <1>1, <1>2, <1>5, <1>6, <2>1, NewestStays DEF Refreshing
<1> QED
  BY <1>7, <1>10, <1>11 DEF ISInv

LEMMA AdmitSound ==
  ASSUME ISInv, NEW c \in SettingsCalls, Admit(c)
  PROVE  ISInv'
<1> USE KeyFacts
<1>1. KeysTyped /\ CallsSound /\ LeftAsAsked /\ NewestSound /\ call \in [Anyone -> CallStates]
      /\ refreshGeneration \in Anyone /\ call[c] \in CallStates
  BY DEF ISInv, KeysTyped
<1>2. /\ call[c].pc = "queued" /\ writer = NoCaller
      /\ UNCHANGED <<conf, quarantined, resetGeneration, keychain, keychainUp, secretsInUse, refreshGeneration>>
  BY DEF Admit, secret_files, Fixed
<1>3. PICK p \in {"done", "clear"} :
        /\ call' = [call EXCEPT ![c].pc = p]
        /\ p = "done" => UNCHANGED <<writer, promised, changedBy>>
        /\ p = "clear" =>
             /\ writer' = c
             /\ promised' = [s \in Secrets |-> IF s \in call[c].saves \cup call[c].clears THEN Unpromised ELSE promised[s]]
             /\ changedBy' = [s \in Secrets |-> IF s \in call[c].saves \cup call[c].clears THEN c ELSE changedBy[s]]
  <2>1. CASE call[c].seen # resetGeneration
    <3>1. call' = [call EXCEPT ![c].pc = "done"] /\ UNCHANGED <<writer, promised, changedBy>>
      BY <2>1 DEF Admit, Proceeds, History
    <3> QED
      BY <3>1
  <2>2. CASE call[c].seen = resetGeneration
    <3>1. /\ call' = [call EXCEPT ![c].pc = "clear"]
          /\ writer' = c
          /\ promised' = [s \in Secrets |-> IF s \in call[c].saves \cup call[c].clears THEN Unpromised ELSE promised[s]]
          /\ changedBy' = [s \in Secrets |-> IF s \in call[c].saves \cup call[c].clears THEN c ELSE changedBy[s]]
      BY <2>2 DEF Admit, Proceeds
    <3> QED
      BY <3>1
  <2> QED
    BY <2>1, <2>2
<1>4. /\ call' \in [Anyone -> CallStates] /\ call'[c].pc = p /\ SameBut(call'[c], call[c])
      /\ call'[c].cleared = call[c].cleared /\ \A d \in Anyone : d # c => call'[d] = call[d]
  <2>1. p \in CallPlaces
    BY DEF CallPlaces
  <2> QED
    BY <1>1, <1>3, <2>1 DEF CallStates, SameBut
<1>5. Loaded' = Loaded
  BY <1>2 DEF Loaded
<1>6. /\ \A d \in SettingsCalls : ~Writing(d)
      /\ call[Daemon].pc # "migrate"
  BY <1>1, <1>2 DEF CallsSound
<1>7. \A s \in Secrets : changedBy[s] # NoCaller => changedBy[s] \in SettingsCalls /\ changedBy[s] # c
  BY <1>1, <1>2 DEF LeftAsAsked, KeysTyped
<1>8. /\ promised' \in [Secrets -> Nat \cup {Unpromised}] /\ changedBy' \in [Secrets -> SettingsCalls \cup {NoCaller}]
      /\ \A s \in Secrets : changedBy'[s] # c => changedBy'[s] = changedBy[s] /\ promised'[s] = promised[s]
      /\ \A s \in Secrets : changedBy'[s] = c => promised'[s] = Unpromised /\ p = "clear"
      /\ p = "clear" => \A s \in Secrets : changedBy'[s] = c <=> s \in call[c].saves \cup call[c].clears
  BY <1>1, <1>3, <1>7 DEF KeysTyped
<1>9. KeysTyped'
  BY <1>1, <1>2, <1>4, <1>8 DEF KeysTyped
<1>10. CallsSound'
  <2>1. call'[Daemon].pc # "migrate"
    BY <1>4, <1>6
  <2>2. ASSUME NEW d \in SettingsCalls
        PROVE  /\ Writing(d)' => /\ writer' = d
                        /\ \A s \in Secrets : changedBy'[s] = d <=> s \in call'[d].saves \cup call'[d].clears
               /\ call'[d].saves \cap call'[d].clears = {} /\ call'[d].cleared \subseteq call'[d].saves \cup call'[d].clears
               /\ call'[d].pc \in {"idle", "disable"} => call'[d].saves = {}
               /\ call'[d].pc # "save" /\ call'[d].pc # "commit"
    <3>1. CASE d = c
      BY <1>1, <1>3, <1>4, <1>8, <3>1 DEF CallsSound, Writing, SameBut
    <3>2. CASE d # c
      BY <1>1, <1>4, <1>6, <3>2 DEF CallsSound, Writing
    <3> QED
      BY <3>1, <3>2
  <2> QED
    BY <2>1, <2>2 DEF CallsSound
<1>11. LeftAsAsked'
  <2>1. ASSUME NEW s \in Secrets
        PROVE  /\ changedBy'[s] # NoCaller => call'[changedBy'[s]].pc \notin {"idle", "queued"}
               /\ changedBy'[s] # NoCaller /\ call'[changedBy'[s]].pc \in {"refresh", "reading", "read", "disable"} =>
                    Loaded[s] = Val(changedBy[s], s)'
               /\ promised'[s] # Unpromised =>
                    changedBy'[s] # NoCaller /\ call'[changedBy'[s]].pc = "done" /\ Loaded[s] = promised'[s]
    <3>1. CASE changedBy'[s] = c
      BY <1>4, <1>8, <3>1
    <3>2. CASE changedBy'[s] # c
      <4>1. /\ changedBy'[s] = changedBy[s] /\ promised'[s] = promised[s]
            /\ changedBy[s] # NoCaller => changedBy[s] \in Anyone /\ call'[changedBy[s]] = call[changedBy[s]]
        BY <1>4, <1>7, <1>8, <3>2
      <4> QED
        BY <1>1, <4>1 DEF LeftAsAsked, Val
    <3> QED
      BY <3>1, <3>2
  <2> QED
    BY <1>5, <2>1 DEF LeftAsAsked
<1>12. NewestSound'
  <2>1. ASSUME NEW s \in Secrets, Settled(s)'
        PROVE  Settled(s) /\ Loaded'[s] = Loaded[s]
    <3>1. changedBy'[s] # c
      BY <1>4, <1>8, <2>1 DEF Settled
    <3> QED
      BY <1>4, <1>5, <1>7, <1>8, <2>1, <3>1 DEF Settled
  <2> QED
    BY <1>1, <1>2, <1>3, <1>4, <2>1, NewestStays DEF Refreshing
<1> QED
  BY <1>9, <1>10, <1>11, <1>12 DEF ISInv

(* A refresh, of a call or of the daemon's start, touches nothing stored.       *)
LEMMA RefreshStep ==
  ASSUME ISInv, NEW c \in Anyone,
         call[c].pc \in {"refresh", "reading", "read"}, call'[c].pc \in {"reading", "read", "done"},
         call' \in [Anyone -> CallStates], \A d \in Anyone : d # c => call'[d] = call[d],
         SameBut(call'[c], call[c]), call'[c].cleared = call[c].cleared,
         UNCHANGED <<conf, quarantined, resetGeneration, keychain, keychainUp, writer, changedBy>>,
         secretsInUse' \in Copies, refreshGeneration' \in Anyone,
         promised' \in [Secrets -> Nat \cup {Unpromised}],
         \A s \in Secrets : \/ promised'[s] = promised[s]
                            \/ changedBy[s] = c /\ call'[c].pc = "done" /\ promised'[s] = Val(c, s)
  PROVE  KeysTyped' /\ CallsSound' /\ LeftAsAsked' /\ Loaded' = Loaded
<1> USE KeyFacts
<1>1. KeysTyped /\ CallsSound /\ LeftAsAsked
  BY DEF ISInv
<1>2. KeysTyped'
  BY <1>1 DEF KeysTyped
<1>3. CallsSound'
  BY <1>1 DEF CallsSound, Writing, SameBut
<1>4. Loaded' = Loaded
  BY DEF Loaded
<1>5. ASSUME NEW s \in Secrets
      PROVE  /\ changedBy[s] # NoCaller => call'[changedBy[s]].pc \notin {"idle", "queued"}
             /\ changedBy[s] # NoCaller /\ call'[changedBy[s]].pc \in {"refresh", "reading", "read", "disable"} =>
                  Loaded[s] = Val(changedBy[s], s)'
             /\ promised'[s] # Unpromised =>
                  changedBy[s] # NoCaller /\ call'[changedBy[s]].pc = "done" /\ Loaded[s] = promised'[s]
  <2>1. changedBy[s] \in SettingsCalls \cup {NoCaller}
    BY <1>1 DEF KeysTyped
  <2>2. CASE changedBy[s] = c
    <3>1. promised[s] = Unpromised /\ Loaded[s] = Val(c, s) /\ c # NoCaller
      BY <1>1, <2>1, <2>2 DEF LeftAsAsked
    <3> QED
      BY <2>2, <3>1 DEF Val, SameBut
  <2>3. CASE changedBy[s] # c
    <3>1. changedBy[s] # NoCaller => call'[changedBy[s]] = call[changedBy[s]]
      BY <2>1, <2>3
    <3> QED
      BY <1>1, <2>1, <2>3, <3>1 DEF LeftAsAsked, Val
  <2> QED
    BY <2>2, <2>3
<1>6. LeftAsAsked'
  BY <1>4, <1>5 DEF LeftAsAsked
<1> QED
  BY <1>2, <1>3, <1>4, <1>6

LEMMA RefreshesSound ==
  ASSUME ISInv, NEW c \in Anyone, Refresh(c) \/ LoadStored(c) \/ ServicesRefreshed(c)
  PROVE  ISInv'
<1> USE KeyFacts
<1>1. KeysTyped /\ CallsSound /\ LeftAsAsked /\ NewestSound /\ call \in [Anyone -> CallStates] /\ call[c] \in CallStates
      /\ secretsInUse \in Copies /\ refreshGeneration \in Anyone
      /\ promised \in [Secrets -> Nat \cup {Unpromised}]
      /\ changedBy \in [Secrets -> SettingsCalls \cup {NoCaller}]
  BY DEF ISInv, KeysTyped
<1>2. CASE Refresh(c)
  <2>1. /\ call[c].pc = "refresh" /\ refreshGeneration' = c
        /\ UNCHANGED <<conf, quarantined, resetGeneration, keychain, keychainUp, writer, changedBy, promised, secretsInUse>>
    BY <1>2 DEF Refresh, secret_files, Fixed, History
  <2>2. PICK p \in CallPlaces : p = "reading"
    BY DEF CallPlaces
  <2>3. /\ call' \in [Anyone -> CallStates] /\ call'[c].pc = "reading" /\ SameBut(call'[c], call[c])
        /\ call'[c].cleared = call[c].cleared /\ \A d \in Anyone : d # c => call'[d] = call[d]
    <3>1. call' = [call EXCEPT ![c].pc = p]
      BY <1>2, <2>2 DEF Refresh, Proceeds
    <3> QED
      BY <1>1, <2>2, <3>1 DEF CallStates, SameBut
  <2>4. KeysTyped' /\ CallsSound' /\ LeftAsAsked'
    BY <1>1, <2>1, <2>3, RefreshStep
  <2>5. NewestSound'
    BY <2>1, <2>3 DEF NewestSound, Refreshing
  <2> QED
    BY <2>4, <2>5 DEF ISInv
<1>3. CASE LoadStored(c)
  <2>1. /\ call[c].pc = "reading"
        /\ UNCHANGED <<conf, quarantined, resetGeneration, keychain, keychainUp, writer, changedBy, promised, secretsInUse,
                       refreshGeneration>>
    BY <1>3 DEF LoadStored, secret_files, Fixed, History
  <2>2. PICK p \in CallPlaces : p = "read"
    BY DEF CallPlaces
  <2>3. PICK found \in Copies : found = Loaded
    BY <1>1, LoadedIs
  <2>4. /\ call' \in [Anyone -> CallStates] /\ call'[c].pc = "read" /\ SameBut(call'[c], call[c])
        /\ call'[c].cleared = call[c].cleared /\ call'[c].found = found /\ \A d \in Anyone : d # c => call'[d] = call[d]
    <3>1. call' = [call EXCEPT ![c].pc = p, ![c].found = found]
      BY <1>3, <2>2, <2>3 DEF LoadStored
    <3> QED
      BY <1>1, <2>2, <3>1 DEF CallStates, SameBut
  <2>5. KeysTyped' /\ CallsSound' /\ LeftAsAsked' /\ Loaded' = Loaded
    BY <1>1, <2>1, <2>4, RefreshStep
  <2>6. \A s \in Secrets : Settled(s)' => Settled(s)
    BY <1>1, <2>1, <2>4 DEF Settled
  <2>7. NewestSound'
    BY <1>1, <2>1, <2>3, <2>4, <2>5, <2>6 DEF NewestSound, Refreshing
  <2> QED
    BY <2>5, <2>7 DEF ISInv
<1>4. CASE ServicesRefreshed(c)
  <2>1. /\ call[c].pc = "read" /\ UNCHANGED <<conf, quarantined, resetGeneration, keychain, keychainUp, writer, changedBy,
                                              refreshGeneration>>
        /\ secretsInUse' = IF refreshGeneration = c THEN call[c].found ELSE secretsInUse
    BY <1>4 DEF ServicesRefreshed, secret_files, Fixed
  <2>2. PICK p \in CallPlaces : p = "done"
    BY DEF CallPlaces
  <2>3. /\ call' \in [Anyone -> CallStates] /\ call'[c].pc = "done" /\ SameBut(call'[c], call[c])
        /\ call'[c].cleared = call[c].cleared /\ \A d \in Anyone : d # c => call'[d] = call[d]
    <3>1. call' = [call EXCEPT ![c].pc = p]
      BY <1>4, <2>2 DEF ServicesRefreshed, Proceeds
    <3> QED
      BY <1>1, <2>2, <3>1 DEF CallStates, SameBut
  <2>4. /\ promised' \in [Secrets -> Nat \cup {Unpromised}]
        /\ \A s \in Secrets : promised'[s] = promised[s] \/ (changedBy[s] = c /\ promised'[s] = Val(c, s))
    <3>1. promised' = [s \in Secrets |-> IF changedBy[s] = c THEN Val(c, s) ELSE promised[s]]
      BY <1>4 DEF ServicesRefreshed, Promise, Val
    <3>2. \A s \in Secrets : changedBy[s] = c => Val(c, s) \in Nat
      BY <1>1 DEF Val
    <3> QED
      BY <1>1, <3>1, <3>2
  <2>5. secretsInUse' \in Copies
    BY <1>1, <2>1 DEF CallStates
  <2>6. KeysTyped' /\ CallsSound' /\ LeftAsAsked' /\ Loaded' = Loaded
    BY <1>1, <2>1, <2>3, <2>4, <2>5, RefreshStep
  <2>7. \A s \in Secrets : Settled(s)' => Settled(s)
    BY <1>1, <2>1, <2>3 DEF Settled
  <2>8. NewestSound'
    <3>1. CASE refreshGeneration = c
      BY <1>1, <2>1, <2>3, <2>6, <2>7, <3>1 DEF NewestSound, Refreshing
    <3>2. CASE refreshGeneration # c
      BY <1>1, <2>1, <2>3, <2>6, <2>7, <3>2 DEF NewestSound, Refreshing
    <3> QED
      BY <3>1, <3>2
  <2> QED
    BY <2>6, <2>8 DEF ISInv
<1> QED
  BY <1>2, <1>3, <1>4

LEMMA ResetKeysSound ==
  ASSUME ISInv, NEW c \in SettingsCalls, Reset(c)
  PROVE  ISInv'
<1> USE KeyFacts
<1>1. KeysTyped /\ CallsSound /\ LeftAsAsked /\ NewestSound /\ call \in [Anyone -> CallStates] /\ call[c] \in CallStates
      /\ refreshGeneration \in Anyone
  BY DEF ISInv, KeysTyped
<1>2. /\ call[c].pc = "idle" /\ call[Daemon].pc = "done" /\ writer = NoCaller
      /\ conf' = Empty /\ resetGeneration' = resetGeneration + 1
      /\ promised' = [s \in Secrets |-> Unpromised] /\ changedBy' = [s \in Secrets |-> c]
      /\ UNCHANGED <<secretsInUse, refreshGeneration, writer, keychainUp>>
  BY DEF Reset, Fixed
<1>3. /\ quarantined' \in SUBSET Secrets /\ keychain' \in Copies
      /\ quarantined' = Secrets \/ (\A s \in Secrets : keychain'[s] = Vacant)
  <2>1. PICK ok \in BOOLEAN, done \in SUBSET Secrets :
          Batch(Secrets, ok, done) /\ Stored(done, Vacant) /\ quarantined' = IF ok THEN {} ELSE Secrets
    BY DEF Reset
  <2>2. keychain' \in Copies /\ \A s \in Secrets : keychain'[s] = IF s \in done THEN Vacant ELSE keychain[s]
    BY <1>1, <2>1, StoredFacts
  <2> QED
    BY <2>1, <2>2 DEF Batch
<1>4. PICK p \in CallPlaces : p = "disable"
  BY DEF CallPlaces
<1>5. /\ call' \in [Anyone -> CallStates] /\ call'[c].pc = "disable" /\ SameBut(call'[c], call[c])
      /\ call'[c].cleared = call[c].cleared /\ \A d \in Anyone : d # c => call'[d] = call[d]
  <2>1. call' = [call EXCEPT ![c].pc = p]
    BY <1>4 DEF Reset, Proceeds
  <2> QED
    BY <1>1, <1>4, <2>1 DEF CallStates, SameBut
<1>6. KeysTyped'
  BY <1>1, <1>2, <1>3, <1>5 DEF KeysTyped
<1>7. \A s \in Secrets : Loaded'[s] = Vacant
  BY <1>2, <1>3 DEF Loaded
<1>8. \A d \in SettingsCalls : ~Writing(d)
  BY <1>1, <1>2 DEF CallsSound
<1>9. call[c].saves = {} /\ call'[c].saves = {}
  BY <1>1, <1>2, <1>5 DEF CallsSound, SameBut
<1>10. CallsSound'
  <2>1. ASSUME NEW d \in SettingsCalls
        PROVE  /\ ~Writing(d)'
               /\ call'[d].saves \cap call'[d].clears = {} /\ call'[d].cleared \subseteq call'[d].saves \cup call'[d].clears
               /\ call'[d].pc \in {"idle", "disable"} => call'[d].saves = {}
    BY <1>1, <1>5, <1>8, <1>9 DEF CallsSound, Writing, SameBut
  <2> QED
    BY <1>2, <1>5, <2>1 DEF CallsSound, Writing
<1>11. LeftAsAsked'
  BY <1>2, <1>5, <1>7, <1>9 DEF LeftAsAsked, Val
<1>12. NewestSound'
  BY <1>2, <1>5 DEF NewestSound, Settled
<1> QED
  BY <1>6, <1>10, <1>11, <1>12 DEF ISInv

LEMMA DisableAfterResetSound ==
  ASSUME ISInv, NEW c \in SettingsCalls, DisableAfterReset(c)
  PROVE  ISInv'
<1> USE KeyFacts
<1>1. KeysTyped /\ CallsSound /\ LeftAsAsked /\ call \in [Anyone -> CallStates] /\ call[c] \in CallStates
      /\ promised \in [Secrets -> Nat \cup {Unpromised}]
      /\ changedBy \in [Secrets -> SettingsCalls \cup {NoCaller}]
  BY DEF ISInv, KeysTyped
<1>2. /\ call[c].pc = "disable" /\ secretsInUse' = Empty /\ refreshGeneration' = c
      /\ UNCHANGED <<conf, quarantined, resetGeneration, keychain, keychainUp, writer, changedBy>>
  BY DEF DisableAfterReset, Disabled, Fixed, secret_files
<1>3. PICK p \in CallPlaces : p = "done"
  BY DEF CallPlaces
<1>4. /\ call' \in [Anyone -> CallStates] /\ call'[c].pc = "done" /\ SameBut(call'[c], call[c])
      /\ call'[c].cleared = call[c].cleared /\ \A d \in Anyone : d # c => call'[d] = call[d]
  <2>1. call' = [call EXCEPT ![c].pc = p]
    BY <1>3 DEF DisableAfterReset, Proceeds
  <2> QED
    BY <1>1, <1>3, <2>1 DEF CallStates, SameBut
<1>5. \A s \in Secrets : promised'[s] = IF changedBy[s] = c THEN Val(c, s) ELSE promised[s]
  BY DEF DisableAfterReset, Promise, Val
<1>6. promised' \in [Secrets -> Nat \cup {Unpromised}]
  <2>1. promised' = [s \in Secrets |-> IF changedBy[s] = c THEN Val(c, s) ELSE promised[s]]
    BY DEF DisableAfterReset, Promise, Val
  <2>2. \A s \in Secrets : Val(c, s) \in Nat
    BY DEF Val
  <2> QED
    BY <1>1, <2>1, <2>2
<1>7. KeysTyped'
  BY <1>1, <1>2, <1>4, <1>6 DEF KeysTyped
<1>8. Loaded' = Loaded
  BY <1>2 DEF Loaded
<1>9. CallsSound'
  BY <1>1, <1>2, <1>4 DEF CallsSound, Writing, SameBut
<1>10. ASSUME NEW s \in Secrets
       PROVE  /\ changedBy[s] # NoCaller => call'[changedBy[s]].pc \notin {"idle", "queued"}
              /\ changedBy[s] # NoCaller /\ call'[changedBy[s]].pc \in {"refresh", "reading", "read", "disable"} =>
                   Loaded[s] = Val(changedBy[s], s)'
              /\ promised'[s] # Unpromised =>
                   changedBy[s] # NoCaller /\ call'[changedBy[s]].pc = "done" /\ Loaded[s] = promised'[s]
  <2>1. changedBy[s] \in SettingsCalls \cup {NoCaller}
    BY <1>1
  <2>2. CASE changedBy[s] = c
    BY <1>1, <1>2, <1>4, <1>5, <2>2 DEF LeftAsAsked
  <2>3. CASE changedBy[s] # c
    <3>1. changedBy[s] # NoCaller => call'[changedBy[s]] = call[changedBy[s]]
      BY <1>4, <2>1, <2>3
    <3>2. promised'[s] = promised[s]
      BY <1>5, <2>3
    <3> QED
      BY <1>1, <1>2, <2>1, <3>1, <3>2 DEF LeftAsAsked, Val
  <2> QED
    BY <2>2, <2>3
<1>11. LeftAsAsked'
  BY <1>2, <1>8, <1>10 DEF LeftAsAsked
<1>12. NewestSound'
  BY <1>2, <1>4 DEF NewestSound, Refreshing
<1> QED
  BY <1>7, <1>9, <1>11, <1>12 DEF ISInv

LEMMA MigrateSound ==
  ASSUME ISInv, Migrate
  PROVE  ISInv'
<1> USE KeyFacts
<1>1. KeysTyped /\ CallsSound /\ LeftAsAsked /\ NewestSound /\ call \in [Anyone -> CallStates] /\ call[Daemon] \in CallStates
      /\ refreshGeneration \in Anyone /\ conf \in Copies /\ keychain \in Copies
      /\ changedBy \in [Secrets -> SettingsCalls \cup {NoCaller}] /\ keychainUp \in BOOLEAN
  BY DEF ISInv, KeysTyped
<1>2. /\ call[Daemon].pc = "migrate" /\ writer = Daemon /\ writer' = NoCaller
      /\ UNCHANGED <<quarantined, resetGeneration, secretsInUse, refreshGeneration, promised, changedBy, keychainUp>>
  BY <1>1 DEF Migrate, History, Fixed, CallsSound
<1>3. PICK p \in CallPlaces : p = "refresh"
  BY DEF CallPlaces
<1>4. /\ call' \in [Anyone -> CallStates] /\ call'[Daemon].pc = "refresh"
      /\ \A d \in SettingsCalls : call'[d] = call[d]
  <2>1. call' = [call EXCEPT ![Daemon].pc = p]
    BY <1>3 DEF Migrate, Proceeds
  <2> QED
    BY <1>1, <1>3, <2>1 DEF CallStates
<1>5. /\ conf' \in Copies /\ keychain' \in Copies
      /\ \A s \in Secrets : \/ conf'[s] = conf[s] /\ keychain'[s] = keychain[s]
                            \/ conf'[s] = Vacant /\ keychain'[s] = conf[s] /\ keychainUp = TRUE /\ conf[s] # Vacant
                            \/ conf'[s] = conf[s] /\ conf[s] # Vacant
  <2>1. CASE ~otherPlaintext
    BY <1>1, <2>1 DEF Migrate
  <2>2. CASE otherPlaintext
    <3> DEFINE S == {s \in Secrets : conf[s] # Vacant}
    <3>1. PICK ok \in BOOLEAN, done \in SUBSET S :
            /\ Batch(S, ok, done)
            /\ keychain' = [s \in Secrets |-> IF s \in done THEN conf[s] ELSE keychain[s]]
            /\ conf' = IF ok THEN Empty ELSE conf
      BY <2>2, Zenon DEF Migrate
    <3>2. conf' \in Copies /\ keychain' \in Copies
      BY <1>1, <3>1 DEF Copies
    <3>3. \A s \in Secrets : keychain'[s] = IF s \in done THEN conf[s] ELSE keychain[s]
      BY <3>1
    <3>4. CASE ok = TRUE
      BY <1>1, <3>1, <3>2, <3>3, <3>4 DEF Batch
    <3>5. CASE ok = FALSE
      BY <1>1, <3>1, <3>2, <3>3, <3>5
    <3> QED
      BY <3>4, <3>5
  <2> QED
    BY <2>1, <2>2
<1>6. KeysTyped'
  BY <1>1, <1>2, <1>4, <1>5 DEF KeysTyped
<1>7. \A s \in Secrets : Loaded'[s] = Loaded[s]
  BY <1>1, <1>2, <1>5 DEF Loaded
<1>8. \A d \in SettingsCalls : ~Writing(d)
  BY <1>1, <1>2 DEF CallsSound
<1>9. CallsSound'
  BY <1>1, <1>4, <1>8 DEF CallsSound, Writing
<1>10. LeftAsAsked'
  BY <1>1, <1>2, <1>4, <1>7 DEF LeftAsAsked, Val
<1>11. NewestSound'
  <2>1. \A s \in Secrets : Settled(s)' => Settled(s) /\ Loaded'[s] = Loaded[s]
    BY <1>1, <1>2, <1>4, <1>7 DEF Settled
  <2> QED
    BY <1>1, <1>2, <1>4, <2>1, NewestStays DEF Refreshing
<1> QED
  BY <1>6, <1>9, <1>10, <1>11 DEF ISInv

LEMMA DaemonCrashesSound ==
  ASSUME ISInv, DaemonCrashes
  PROVE  ISInv'
<1> USE KeyFacts
<1>1. KeysTyped /\ CallsSound /\ LeftAsAsked /\ call \in [Anyone -> CallStates]
      /\ changedBy \in [Secrets -> SettingsCalls \cup {NoCaller}]
  BY DEF ISInv, KeysTyped
<1>2. /\ writer' = Daemon /\ secretsInUse' = Empty /\ refreshGeneration' = Daemon
      /\ UNCHANGED <<conf, quarantined, resetGeneration, keychain, keychainUp, promised, changedBy>>
      /\ call' = [c \in Anyone |-> IF c = Daemon THEN [NoCall EXCEPT !.pc = "migrate"]
                                   ELSE IF call[c].pc = "idle" THEN NoCall ELSE [NoCall EXCEPT !.pc = "done"]]
  BY DEF DaemonCrashes, History, secret_files
<1>3. PICK p \in CallPlaces, q \in CallPlaces : p = "migrate" /\ q = "done"
  BY DEF CallPlaces
<1>4. PICK m \in CallStates, n \in CallStates, i \in CallStates :
        /\ m = [NoCall EXCEPT !.pc = "migrate"] /\ n = [NoCall EXCEPT !.pc = "done"] /\ i = NoCall
        /\ m.pc = "migrate" /\ n.pc = "done" /\ i.pc = "idle"
        /\ n.saves = {} /\ n.clears = {} /\ n.cleared = {} /\ i.saves = {} /\ i.clears = {} /\ i.cleared = {}
  <2>1. /\ [NoCall EXCEPT !.pc = p] \in CallStates /\ [NoCall EXCEPT !.pc = p].pc = p
    BY NoCallFacts
  <2>2. LET r == [NoCall EXCEPT !.pc = q] IN
        r \in CallStates /\ r.pc = q /\ r.saves = {} /\ r.clears = {} /\ r.cleared = {}
    BY NoCallFacts
  <2>3. NoCall \in CallStates /\ NoCall.pc = "idle" /\ NoCall.saves = {} /\ NoCall.clears = {} /\ NoCall.cleared = {}
    BY <1>3, NoCallFacts
  <2> QED
    BY <1>3, <2>1, <2>2, <2>3
<1>5. /\ call' \in [Anyone -> CallStates] /\ call'[Daemon] = m
      /\ \A c \in SettingsCalls : call'[c] = IF call[c].pc = "idle" THEN i ELSE n
  BY <1>2, <1>4
<1>6. KeysTyped'
  BY <1>1, <1>2, <1>5 DEF KeysTyped
<1>7. Loaded' = Loaded
  BY <1>2 DEF Loaded
<1>8. CallsSound'
  <2>1. ASSUME NEW d \in SettingsCalls
        PROVE  /\ ~Writing(d)' /\ call'[d].pc \in {"idle", "done"}
               /\ call'[d].saves = {} /\ call'[d].clears = {} /\ call'[d].cleared = {}
    BY <1>4, <1>5 DEF Writing
  <2> QED
    BY <1>2, <1>4, <1>5, <2>1 DEF CallsSound
<1>9. LeftAsAsked'
  BY <1>1, <1>2, <1>4, <1>5, <1>7 DEF LeftAsAsked
<1>10. NewestSound'
  BY <1>2, <1>4, <1>5 DEF NewestSound, Refreshing
<1> QED
  BY <1>6, <1>8, <1>9, <1>10 DEF ISInv

LEMMA KeysBegin ==
  ASSUME ISInit
  PROVE  ISInv
<1> USE KeyFacts
<1>1. /\ keychainUp \in BOOLEAN /\ quarantined = {} /\ resetGeneration = 0
      /\ secretsInUse = Empty /\ refreshGeneration = Daemon /\ writer = Daemon
      /\ promised = [s \in Secrets |-> Unpromised] /\ changedBy = [s \in Secrets |-> NoCaller]
      /\ call = [c \in Anyone |-> IF c = Daemon THEN [NoCall EXCEPT !.pc = "migrate"] ELSE NoCall]
  BY DEF ISInit
<1>2. conf \in Copies /\ keychain \in Copies
  <2>1. PICK s \in Secrets : keychain = IF keychainUp THEN [Empty EXCEPT ![s] = 1] ELSE Empty
    BY DEF ISInit
  <2>2. PICK z \in Secrets : conf \in {Empty, [Empty EXCEPT ![z] = 1]}
    BY DEF ISInit
  <2> QED
    BY <2>1, <2>2 DEF Copies
<1>3. PICK p \in CallPlaces : p = "migrate"
  BY DEF CallPlaces
<1>4. PICK m \in CallStates, i \in CallStates :
        /\ m = [NoCall EXCEPT !.pc = "migrate"] /\ i = NoCall /\ m.pc = "migrate" /\ i.pc = "idle"
        /\ i.saves = {} /\ i.clears = {} /\ i.cleared = {}
  <2>1. /\ [NoCall EXCEPT !.pc = p] \in CallStates /\ [NoCall EXCEPT !.pc = p].pc = p
    BY NoCallFacts
  <2>2. NoCall \in CallStates /\ NoCall.pc = "idle" /\ NoCall.saves = {} /\ NoCall.clears = {} /\ NoCall.cleared = {}
    BY <1>3, NoCallFacts
  <2> QED
    BY <1>3, <2>1, <2>2
<1>5. call \in [Anyone -> CallStates] /\ call[Daemon] = m /\ \A c \in SettingsCalls : call[c] = i
  BY <1>1, <1>4
<1>6. KeysTyped
  BY <1>1, <1>2, <1>5 DEF KeysTyped
<1>7. CallsSound
  BY <1>1, <1>4, <1>5 DEF CallsSound, Writing
<1>8. LeftAsAsked /\ NewestSound
  BY <1>1, <1>4, <1>5 DEF LeftAsAsked, NewestSound, Refreshing
<1> QED
  BY <1>6, <1>7, <1>8 DEF ISInv

(* As long as the keychain stays as it is.                                      *)
LEMMA KeysSteps ==
  ASSUME ISInv, ~KeychainLeaves, ISNext \/ UNCHANGED is_vars
  PROVE  ISInv'
<1>1. CASE UNCHANGED is_vars
  BY <1>1 DEF is_vars, secret_files, ISInv, KeysTyped, CallsSound, LeftAsAsked, NewestSound, Writing, Val, Settled,
     Refreshing, Loaded
<1>2. CASE ISNext
  <2>1. ~Leaves
    BY DEF Leaves
  <2>2. ASSUME NEW c \in SettingsCalls,
               \/ Submit(c) \/ Admit(c) \/ ClearBatch(c) \/ Save(c) \/ Commit(c) \/ Reset(c) \/ DisableAfterReset(c)
        PROVE  ISInv'
    BY <2>2, SubmitSound, AdmitSound, ClearBatchSound, SaveSound, CommitSecretsSound, ResetKeysSound,
       DisableAfterResetSound
  <2> QED
    BY <1>2, <2>1, <2>2, RefreshesSound, MigrateSound, DaemonCrashesSound DEF ISNext
<1> QED
  BY <1>1, <1>2

LEMMA KeysHold ==
  ASSUME ISInv
  PROVE  ServedAsPromised
<1> SUFFICES ASSUME NEW s \in Secrets, promised[s] # Unpromised
             PROVE  /\ secretsInUse[s] \in {Vacant, promised[s]} \/ Refreshing
                    /\ Loaded[s] = promised[s]
  BY DEF ServedAsPromised
<1>1. changedBy[s] # NoCaller /\ call[changedBy[s]].pc = "done" /\ Loaded[s] = promised[s]
  BY DEF ISInv, LeftAsAsked
<1>2. Settled(s)
  BY <1>1 DEF Settled
<1> QED
  BY <1>1, <1>2 DEF ISInv, NewestSound

------------------------------------------------------------------------------
(* The mailbox credentials                                                      *)

Values == [Fields -> Nat]
ProfileStates ==
  [conn : Values, blob : Values, listed : BOOLEAN, quarantined : BOOLEAN, acct : Values]
EntryStates == [own : Values, shared : Values]
StartStates ==
  [at : {"down", "migrating", "idle", "asked", "hydrating", "up"}, found : Values, quarantined : BOOLEAN]
SaveStates == [at : {"none", "account", "reset", "answered"}, new : SUBSET Fields, to : Values]

SecretsTyped ==
  /\ profile \in ProfileStates /\ entries \in EntryStates /\ starting \in StartStates
  /\ saving \in [Settings -> SaveStates] /\ inService \in Values
  /\ reachable \in BOOLEAN /\ suspended \in BOOLEAN
  /\ due \in [Fields -> Nat \cup {Unknown}] /\ outages \in Nat

(* The lock keeps the migration and the requests apart.                         *)
OneWriter ==
  /\ starting.at = "migrating" => configLock = Starter
  /\ \A r \in Settings : saving[r].at \in {"account", "reset"} => configLock = r

(* While an older version's connection stands in the open, nothing else has     *)
(* been done with it than to copy it to the shared entries.                     *)
InTheOpen == \E f \in Fields : profile.conn[f] # NoSecret
BeforeMigration ==
  /\ starting.at = "migrating" => InTheOpen
  /\ InTheOpen =>
       /\ LegacyInstall /\ starting.at \in {"down", "migrating"} /\ profile.listed = FALSE
       /\ \A r \in Settings : saving[r].at \notin {"account", "reset"}
       /\ \A f \in Fields : /\ due[f] = 1 /\ entries.own[f] = NoSecret /\ profile.blob[f] = NoSecret
                            /\ {profile.conn[f], entries.shared[f]} \subseteq {NoSecret, 1}

(* The first of the account, its own entry and the shared one that has a field  *)
(* has the one due; while the keychain did not change, and but for what only    *)
(* the migration had, one has it.                                               *)
FoundFirst(f, kept) ==
  /\ kept \in {NoSecret, due[f]}
  /\ kept = NoSecret /\ profile.quarantined = FALSE =>
       IF entries.own[f] # NoSecret THEN entries.own[f] = due[f] ELSE entries.shared[f] \in {NoSecret, due[f]}
  /\ kept = NoSecret /\ due[f] # NoSecret /\ outages = 0 /\ ~(LegacyInstall /\ due[f] = 1) =>
       reachable = TRUE /\ entries.own[f] = due[f]
CopiesSound == \A f \in Fields : due[f] # Unknown => FoundFirst(f, Registry[f])

(* What a request is about to write.                                            *)
SavesSound ==
  \A r \in Settings :
    /\ saving[r].at = "account" =>
         \A f \in Fields :
           IF f \in saving[r].new
           THEN /\ due[f] = Unknown
                /\ \/ saving[r].to[f] = r + 1
                   \/ saving[r].to[f] = NoSecret /\ entries.own[f] = r + 1 /\ (outages = 0 => reachable = TRUE)
           ELSE due[f] # Unknown => FoundFirst(f, saving[r].to[f])
    /\ saving[r].at = "reset" =>
         \A f \in Fields : due[f] = Unknown /\ (saving[r].new = {} => entries.own[f] = NoSecret /\ entries.shared[f] = NoSecret)

(* Nothing is left of what a reset removed, where it is looked for.             *)
RemovedForGood ==
  \A f \in Fields : due[f] = NoSecret =>
    /\ profile.conn[f] = NoSecret /\ profile.blob[f] = NoSecret
    /\ profile.quarantined = TRUE \/ entries.shared[f] = NoSecret

ServiceSound ==
  /\ starting.at = "hydrating" =>
       starting.found = Registry /\ (starting.quarantined = TRUE <=> profile.quarantined = TRUE \/ suspended = TRUE)
  /\ starting.at = "up" => \A f \in Fields : due[f] # Unknown =>
       /\ inService[f] \in {NoSecret, due[f]}
       /\ outages = 0 /\ inService[f] # due[f] =>
            profile.quarantined = TRUE \/ suspended = TRUE \/ (LegacyInstall /\ due[f] = 1)

MSInv ==
  /\ SecretsTyped /\ OneWriter /\ BeforeMigration /\ CopiesSound /\ SavesSound /\ RemovedForGood /\ ServiceSound


LEMMA SecretsFacts ==
  /\ Blanks \in Values /\ \A f \in Fields : Blanks[f] = NoSecret
  /\ NoSecret = 0 /\ Unknown = -1 /\ Unlocked = 0 /\ Starter = -1
  /\ \A r \in Settings : r \in Nat /\ r # Unlocked /\ r # Starter /\ r + 1 \in Nat /\ r + 1 # NoSecret /\ r + 1 # Unknown
BY MailboxAssumption DEF Blanks, Values, NoSecret, Unknown, Unlocked, Starter

LEMMA OffFacts ==
  ASSUME NEW place \in {"down", "migrating", "idle", "asked", "hydrating", "up"}
  PROVE  /\ [Off EXCEPT !.at = place] \in StartStates /\ [Off EXCEPT !.at = place].at = place
         /\ Off \in StartStates /\ Off.at = "down"
<1>1. PICK no \in BOOLEAN : no = FALSE
  OBVIOUS
<1>2. Off = [at |-> "down", found |-> Blanks, quarantined |-> no]
  BY <1>1 DEF Off
<1>3. Off \in StartStates /\ Off.at = "down"
  BY <1>2, SecretsFacts DEF StartStates
<1> QED
  BY <1>3 DEF StartStates

LEMMA WithFacts ==
  ASSUME NEW values \in Values, NEW others \in Values, NEW fs \in SUBSET Fields
  PROVE  /\ With(values, fs, others) \in Values
         /\ \A f \in Fields : With(values, fs, others)[f] = IF f \in fs THEN others[f] ELSE values[f]
BY DEF With, Values

LEMMA SecretsBegin ==
  ASSUME MSInit
  PROVE  MSInv
<1> USE SecretsFacts
<1>1. PICK listed \in BOOLEAN, no \in BOOLEAN, acct \in Values, conn \in Values :
        /\ profile = [conn |-> conn, blob |-> Blanks, listed |-> listed, quarantined |-> no, acct |-> acct]
        /\ no = FALSE /\ listed = ~LegacyInstall
        /\ conn = IF LegacyInstall THEN [f \in Fields |-> 1] ELSE Blanks
        /\ acct = IF LegacyInstall \/ reachable THEN Blanks ELSE [f \in Fields |-> 1]
  <2>1. PICK conn \in Values : conn = IF LegacyInstall THEN [f \in Fields |-> 1] ELSE Blanks
    BY DEF Values
  <2>2. PICK acct \in Values : acct = IF LegacyInstall \/ reachable THEN Blanks ELSE [f \in Fields |-> 1]
    BY DEF Values
  <2>3. PICK listed \in BOOLEAN : listed = ~LegacyInstall
    OBVIOUS
  <2>4. PICK no \in BOOLEAN : no = FALSE
    OBVIOUS
  <2> QED
    BY <2>1, <2>2, <2>3, <2>4 DEF MSInit
<1>2. profile \in ProfileStates /\ profile.conn = conn /\ profile.blob = Blanks /\ profile.acct = acct
      /\ profile.listed = listed /\ profile.quarantined = no
  BY <1>1 DEF ProfileStates
<1>3. PICK own \in Values : entries = [own |-> own, shared |-> Blanks]
                            /\ own = IF LegacyInstall \/ ~reachable THEN Blanks ELSE [f \in Fields |-> 1]
  BY DEF MSInit, Values
<1>4. entries \in EntryStates /\ entries.own = own /\ entries.shared = Blanks
  BY <1>3 DEF EntryStates
<1>5. NotSaving \in SaveStates /\ NotSaving.at = "none"
  BY DEF NotSaving, SaveStates
<1>6. starting \in StartStates /\ starting.at = "down"
  BY OffFacts DEF MSInit
<1>7. /\ saving \in [Settings -> SaveStates] /\ (\A r \in Settings : saving[r].at = "none")
      /\ due \in [Fields -> Nat \cup {Unknown}] /\ (\A f \in Fields : due[f] = 1)
      /\ outages = 0 /\ inService \in Values /\ reachable \in BOOLEAN /\ suspended \in BOOLEAN
  BY <1>5 DEF MSInit
<1>8. /\ \A f \in Fields : conn[f] = IF LegacyInstall THEN 1 ELSE NoSecret
      /\ \A f \in Fields : acct[f] = IF LegacyInstall \/ reachable THEN NoSecret ELSE 1
      /\ \A f \in Fields : own[f] = IF LegacyInstall \/ ~reachable THEN NoSecret ELSE 1
  BY <1>1, <1>3
<1>9. SecretsTyped
  BY <1>2, <1>4, <1>6, <1>7 DEF SecretsTyped
<1>10. OneWriter /\ SavesSound /\ ServiceSound
  BY <1>6, <1>7 DEF OneWriter, SavesSound, ServiceSound
<1>11. BeforeMigration /\ RemovedForGood
  BY <1>1, <1>2, <1>4, <1>6, <1>7, <1>8 DEF BeforeMigration, InTheOpen, RemovedForGood
<1>12. CopiesSound
  <2>1. \A f \in Fields : Registry[f] = IF LegacyInstall THEN 1 ELSE acct[f]
    BY <1>1, <1>2, <1>8 DEF Registry
  <2> QED
    BY <1>1, <1>2, <1>4, <1>7, <1>8, <2>1 DEF CopiesSound, FoundFirst
<1> QED
  BY <1>9, <1>10, <1>11, <1>12 DEF MSInv

LEMMA StartDaemonSound ==
  ASSUME MSInv, StartDaemon
  PROVE  MSInv'
<1> USE SecretsFacts
<1>0. /\ starting.at = "down" /\ configLock = Unlocked
      /\ UNCHANGED <<profile, reachable, saving, inService, suspended, due, outages>>
      /\ SecretsTyped /\ BeforeMigration /\ CopiesSound /\ SavesSound /\ RemovedForGood /\ ServiceSound
      /\ profile \in ProfileStates /\ profile.conn \in Values /\ entries \in EntryStates
      /\ entries.shared \in Values /\ Registry' = Registry
  BY DEF StartDaemon, history, MSInv, SecretsTyped, ProfileStates, EntryStates, Registry
<1>1. CASE Migrates
  <2>1. InTheOpen
    BY <1>1 DEF Migrates, Filled, InTheOpen
  <2>2. PICK stored \in SUBSET Fields :
          /\ entries' = [entries EXCEPT !.shared = With(@, stored, profile.conn)]
          /\ configLock' = Starter
          /\ starting' = [Off EXCEPT !.at = "migrating", !.found = With(profile.conn, stored, Blanks)]
    BY <1>1 DEF StartDaemon, Stores, Filled
  <2> DEFINE shared2 == With(entries.shared, stored, profile.conn)
             found2 == With(profile.conn, stored, Blanks)
  <2>3. /\ shared2 \in Values /\ found2 \in Values
        /\ \A f \in Fields : shared2[f] = IF f \in stored THEN profile.conn[f] ELSE entries.shared[f]
    BY <1>0, WithFacts
  <2>4. /\ entries' = [entries EXCEPT !.shared = shared2]
        /\ starting' = [Off EXCEPT !.at = "migrating", !.found = found2]
    BY <2>2
  <2> HIDE DEF shared2, found2
  <2>0. PICK off \in StartStates : off = Off
    BY OffFacts
  <2>12. starting' = [off EXCEPT !.at = "migrating", !.found = found2]
    BY <2>0, <2>4
  <2>13. starting' \in StartStates /\ starting'.at = "migrating"
    BY <2>3, <2>12 DEF StartStates
  <2>5. /\ entries' \in EntryStates /\ entries'.own = entries.own /\ entries'.shared = shared2
        /\ starting' \in StartStates /\ starting'.at = "migrating"
    BY <1>0, <2>3, <2>4, <2>13 DEF EntryStates
  <2>6. SecretsTyped'
    BY <1>0, <2>5 DEF SecretsTyped
  <2>7. /\ LegacyInstall /\ profile.listed = FALSE /\ Registry = profile.conn
        /\ \A r \in Settings : saving[r].at \notin {"account", "reset"}
        /\ \A f \in Fields : /\ due[f] = 1 /\ entries.own[f] = NoSecret /\ profile.blob[f] = NoSecret
                             /\ {profile.conn[f], entries.shared[f]} \subseteq {NoSecret, 1}
    BY <1>0, <2>1 DEF BeforeMigration, Registry
  <2>8. OneWriter'
    BY <1>0, <2>2, <2>7 DEF OneWriter
  <2>9. BeforeMigration'
    BY <1>0, <2>1, <2>3, <2>5, <2>7 DEF BeforeMigration, InTheOpen
  <2>10. CopiesSound'
    BY <1>0, <2>3, <2>5, <2>7 DEF CopiesSound, FoundFirst
  <2>11. SavesSound' /\ RemovedForGood' /\ ServiceSound'
    BY <1>0, <2>5, <2>7 DEF SavesSound, RemovedForGood, ServiceSound
  <2> QED
    BY <2>6, <2>8, <2>9, <2>10, <2>11 DEF MSInv
<1>2. CASE ~Migrates
  <2>1. /\ starting' = [Off EXCEPT !.at = "idle"] /\ UNCHANGED <<entries, configLock>>
    BY <1>2 DEF StartDaemon
  <2>2. starting' \in StartStates /\ starting'.at = "idle"
    BY <2>1, OffFacts
  <2>3. ~InTheOpen
    BY <1>0, <1>2 DEF BeforeMigration, Migrates, Filled, InTheOpen
  <2>4. SecretsTyped' /\ OneWriter' /\ BeforeMigration'
    BY <1>0, <2>1, <2>2, <2>3 DEF SecretsTyped, OneWriter, BeforeMigration, InTheOpen, MSInv
  <2>5. CopiesSound' /\ SavesSound' /\ RemovedForGood' /\ ServiceSound'
    BY <1>0, <2>1, <2>2 DEF CopiesSound, SavesSound, RemovedForGood, ServiceSound, FoundFirst
  <2> QED
    BY <2>4, <2>5 DEF MSInv
<1> QED
  BY <1>1, <1>2

LEMMA MigrateSaveSound ==
  ASSUME MSInv, MigrateSave
  PROVE  MSInv'
<1> USE SecretsFacts
<1>0. /\ starting.at = "migrating" /\ configLock' = Unlocked
      /\ starting' = [Off EXCEPT !.at = "asked"]
      /\ UNCHANGED <<entries, reachable, saving, inService, suspended, due, outages>>
      /\ SecretsTyped /\ BeforeMigration /\ profile \in ProfileStates /\ starting.found \in Values
      /\ profile' = [profile EXCEPT !.conn = Blanks, !.blob = starting.found]
  BY DEF MigrateSave, history, MSInv, SecretsTyped, StartStates
<1>1. /\ profile' \in ProfileStates /\ profile'.conn = Blanks /\ profile'.listed = profile.listed
      /\ profile'.quarantined = profile.quarantined
      /\ starting' \in StartStates /\ starting'.at = "asked"
  BY <1>0, OffFacts DEF ProfileStates
<1>2. /\ LegacyInstall /\ profile.listed = FALSE /\ profile.listed \in BOOLEAN
      /\ \A r \in Settings : saving[r].at \notin {"account", "reset"}
      /\ \A f \in Fields : /\ due[f] = 1 /\ entries.own[f] = NoSecret
                           /\ entries.shared[f] \in {NoSecret, 1}
  BY <1>0 DEF BeforeMigration, ProfileStates
<1>3. Registry' = Blanks
  BY <1>1, <1>2 DEF Registry
<1>4. SecretsTyped' /\ OneWriter' /\ BeforeMigration'
  BY <1>0, <1>1, <1>2 DEF SecretsTyped, OneWriter, BeforeMigration, InTheOpen
<1>5. CopiesSound'
  BY <1>0, <1>1, <1>2, <1>3 DEF CopiesSound, FoundFirst
<1>6. SavesSound' /\ RemovedForGood' /\ ServiceSound'
  BY <1>0, <1>1, <1>2 DEF SavesSound, RemovedForGood, ServiceSound
<1> QED
  BY <1>4, <1>5, <1>6 DEF MSInv

LEMMA ReadAccountsSound ==
  ASSUME MSInv, ReadAccounts
  PROVE  MSInv'
<1> USE SecretsFacts
<1>0. /\ starting.at \in {"idle", "asked"}
      /\ UNCHANGED <<profile, entries, reachable, configLock, saving, inService, suspended, due, outages>>
      /\ SecretsTyped /\ OneWriter /\ BeforeMigration /\ profile \in ProfileStates /\ suspended \in BOOLEAN
      /\ Registry' = Registry
  BY DEF ReadAccounts, history, MSInv, SecretsTyped, Registry
<1>1. PICK withheld \in BOOLEAN : withheld = (profile.quarantined \/ suspended)
  OBVIOUS
<1>2. starting' = [at |-> "hydrating", found |-> Registry, quarantined |-> withheld]
  BY <1>1 DEF ReadAccounts
<1>3. Registry \in Values /\ profile.quarantined \in BOOLEAN
  BY <1>0 DEF Registry, ProfileStates
<1>4. /\ starting' \in StartStates /\ starting'.at = "hydrating" /\ starting'.found = Registry
      /\ starting'.quarantined = withheld
  BY <1>2, <1>3 DEF StartStates
<1>5. SecretsTyped' /\ OneWriter' /\ BeforeMigration'
  BY <1>0, <1>4 DEF SecretsTyped, OneWriter, BeforeMigration, InTheOpen
<1>6. CopiesSound' /\ SavesSound' /\ RemovedForGood'
  BY <1>0, <1>4 DEF MSInv, CopiesSound, SavesSound, RemovedForGood, FoundFirst
<1>7. withheld = TRUE <=> profile.quarantined = TRUE \/ suspended = TRUE
  BY <1>0, <1>1, <1>3
<1>8. ServiceSound'
  BY <1>0, <1>4, <1>7 DEF ServiceSound
<1> QED
  BY <1>5, <1>6, <1>8 DEF MSInv

LEMMA HydrateSound ==
  ASSUME MSInv, Hydrate
  PROVE  MSInv'
<1> USE SecretsFacts
<1>0. /\ starting.at = "hydrating" /\ starting' = [Off EXCEPT !.at = "up"]
      /\ UNCHANGED <<profile, entries, reachable, configLock, saving, suspended, due, outages>>
      /\ SecretsTyped /\ OneWriter /\ BeforeMigration /\ CopiesSound /\ ServiceSound
      /\ profile \in ProfileStates /\ entries \in EntryStates /\ starting \in StartStates
      /\ starting.found \in Values /\ starting.quarantined \in BOOLEAN /\ entries.own \in Values /\ entries.shared \in Values
      /\ profile.quarantined \in BOOLEAN /\ suspended \in BOOLEAN /\ reachable \in BOOLEAN
  BY DEF Hydrate, history, MSInv, SecretsTyped, ProfileStates, EntryStates, StartStates
<1>1. starting' \in StartStates /\ starting'.at = "up"
  BY <1>0, OffFacts
<1>2. /\ inService' \in Values
      /\ \A f \in Fields :
           inService'[f] = IF starting.quarantined = TRUE \/ reachable = FALSE THEN starting.found[f]
                           ELSE Hydrated(f, starting.found)
  BY <1>0 DEF Hydrate, Values, Hydrated
<1>3. SecretsTyped' /\ OneWriter' /\ BeforeMigration'
  BY <1>0, <1>1, <1>2 DEF SecretsTyped, OneWriter, BeforeMigration, InTheOpen
<1>4. CopiesSound' /\ SavesSound' /\ RemovedForGood'
  BY <1>0, <1>1 DEF MSInv, CopiesSound, SavesSound, RemovedForGood, FoundFirst, Registry
<1>5. ASSUME NEW f \in Fields, due[f] # Unknown
      PROVE  /\ inService'[f] \in {NoSecret, due[f]}
             /\ outages = 0 /\ inService'[f] # due[f] =>
                  profile.quarantined = TRUE \/ suspended = TRUE \/ (LegacyInstall /\ due[f] = 1)
  <2>1. FoundFirst(f, starting.found[f]) /\ (starting.quarantined = TRUE <=> profile.quarantined = TRUE \/ suspended = TRUE)
    BY <1>0, <1>5 DEF CopiesSound, ServiceSound
  <2> QED
    BY <1>0, <1>2, <2>1 DEF FoundFirst, Hydrated
<1>6. ServiceSound'
  BY <1>0, <1>1, <1>5 DEF ServiceSound
<1> QED
  BY <1>3, <1>4, <1>6 DEF MSInv

LEMMA AgainFacts ==
  ASSUME starting \in StartStates, starting.at # "migrating"
  PROVE  /\ AgainIfUp \in StartStates
         /\ AgainIfUp.at = IF starting.at = "down" THEN "down" ELSE "asked"
<1>1. CASE starting.at = "down"
  BY <1>1 DEF AgainIfUp
<1>2. CASE starting.at # "down"
  <2>1. AgainIfUp = [Off EXCEPT !.at = "asked"]
    BY <1>2 DEF AgainIfUp
  <2>2. [Off EXCEPT !.at = "asked"] \in StartStates /\ [Off EXCEPT !.at = "asked"].at = "asked"
    BY OffFacts, SecretsFacts
  <2> QED
    BY <1>2, <2>1, <2>2
<1> QED
  BY <1>1, <1>2

LEMMA SaveAccountSound ==
  ASSUME MSInv, NEW r \in Settings, NEW new \in SUBSET Fields, SaveAccount(r, new),
         starting.at \notin {"down", "migrating"}
  PROVE  MSInv'
<1> USE SecretsFacts
<1>0. /\ saving[r].at = "none" /\ configLock = Unlocked /\ configLock' = r
      /\ UNCHANGED <<profile, reachable, starting, inService, suspended, outages>>
      /\ due' = With(due, new, [f \in Fields |-> Unknown])
      /\ SecretsTyped /\ OneWriter /\ BeforeMigration /\ CopiesSound /\ RemovedForGood /\ ServiceSound
      /\ profile \in ProfileStates /\ entries \in EntryStates /\ entries.own \in Values /\ entries.shared \in Values
      /\ saving \in [Settings -> SaveStates] /\ Registry \in Values /\ Registry' = Registry
      /\ reachable \in BOOLEAN
  BY DEF SaveAccount, history, MSInv, SecretsTyped, ProfileStates, EntryStates, Registry
<1>1. /\ Merged(r, new) \in Values
      /\ \A f \in Fields : Merged(r, new)[f] = IF f \in new THEN r + 1 ELSE Registry[f]
  BY <1>0 DEF Merged, Values
<1>2. PICK merged \in Values : merged = Merged(r, new)
  BY <1>1
<1>3. PICK stored \in SUBSET Fields :
        /\ entries' = [entries EXCEPT !.own = With(@, stored, merged)]
        /\ saving' = [saving EXCEPT ![r] = [at |-> "account", new |-> new, to |-> With(merged, stored, Blanks)]]
        /\ \A f \in stored : merged[f] # NoSecret /\ reachable = TRUE
  BY <1>0, <1>2 DEF SaveAccount, Stores, Filled, Kept
<1> DEFINE own2 == With(entries.own, stored, merged)
           to == With(merged, stored, Blanks)
           s == [at |-> "account", new |-> new, to |-> to]
<1>4. /\ own2 \in Values /\ to \in Values
      /\ \A f \in Fields : own2[f] = IF f \in stored THEN merged[f] ELSE entries.own[f]
      /\ \A f \in Fields : to[f] = IF f \in stored THEN NoSecret ELSE merged[f]
  BY <1>0, WithFacts
<1>5. entries' = [entries EXCEPT !.own = own2] /\ saving' = [saving EXCEPT ![r] = s]
  BY <1>3
<1> HIDE DEF own2, to
<1>6. /\ entries' \in EntryStates /\ entries'.own = own2 /\ entries'.shared = entries.shared
      /\ s \in SaveStates /\ s.at = "account" /\ s.new = new /\ s.to = to
  BY <1>0, <1>4, <1>5 DEF EntryStates, SaveStates
<1> HIDE DEF s
<1>7. /\ saving' \in [Settings -> SaveStates] /\ saving'[r] = s
      /\ \A q \in Settings : q # r => saving'[q] = saving[q] /\ saving[q].at \notin {"account", "reset"}
  <2>1. \A q \in Settings : saving[q].at \notin {"account", "reset"}
    BY <1>0 DEF OneWriter
  <2> QED
    BY <1>0, <1>5, <1>6, <2>1
<1>8. /\ due' \in [Fields -> Nat \cup {Unknown}]
      /\ \A f \in Fields : due'[f] = IF f \in new THEN Unknown ELSE due[f]
  BY <1>0 DEF SecretsTyped, With
<1>9. SecretsTyped' /\ OneWriter' /\ BeforeMigration'
  <2>1. ~InTheOpen
    BY <1>0 DEF BeforeMigration
  <2> QED
    BY <1>0, <1>6, <1>7, <1>8, <2>1 DEF SecretsTyped, OneWriter, BeforeMigration, InTheOpen
<1>10. ASSUME NEW f \in Fields, f \notin new, due[f] # Unknown
       PROVE  FoundFirst(f, Registry[f])' /\ FoundFirst(f, to[f])'
  <2>1. FoundFirst(f, Registry[f]) /\ merged[f] = Registry[f] /\ due'[f] = due[f]
    BY <1>0, <1>1, <1>2, <1>8, <1>10 DEF CopiesSound
  <2>2. /\ entries'.own[f] = IF f \in stored THEN merged[f] ELSE entries.own[f]
        /\ entries'.shared[f] = entries.shared[f] /\ to[f] = IF f \in stored THEN NoSecret ELSE merged[f]
        /\ (f \in stored => merged[f] # NoSecret /\ reachable = TRUE)
    BY <1>3, <1>4, <1>6
  <2> QED
    BY <1>0, <2>1, <2>2 DEF FoundFirst
<1>11. CopiesSound'
  BY <1>0, <1>8, <1>10 DEF CopiesSound
<1>12. SavesSound'
  <2>1. ASSUME NEW f \in Fields, f \in new
        PROVE  /\ due'[f] = Unknown
               /\ \/ to[f] = r + 1
                  \/ to[f] = NoSecret /\ entries'.own[f] = r + 1 /\ reachable = TRUE
    BY <1>1, <1>2, <1>3, <1>4, <1>6, <1>8, <2>1
  <2>2. \A f \in Fields : f \notin new /\ due'[f] # Unknown => FoundFirst(f, to[f])'
    BY <1>8, <1>10
  <2>3. \A f \in Fields : FoundFirst(f, saving[r].to[f])' <=> FoundFirst(f, to[f])'
    BY <1>6, <1>7 DEF FoundFirst
  <2> QED
    BY <1>0, <1>6, <1>7, <2>1, <2>2, <2>3 DEF SavesSound
<1>13. RemovedForGood' /\ ServiceSound'
  BY <1>0, <1>6, <1>8 DEF RemovedForGood, ServiceSound
<1> QED
  BY <1>9, <1>11, <1>12, <1>13 DEF MSInv

LEMMA AccountSavedSound ==
  ASSUME MSInv, NEW r \in Settings, NEW dropBlobs \in BOOLEAN, AccountSaved(r, dropBlobs)
  PROVE  MSInv'
<1> USE SecretsFacts
<1>0. /\ saving[r].at = "account" /\ configLock' = Unlocked
      /\ UNCHANGED <<entries, reachable, inService, suspended, outages>>
      /\ due' = With(due, saving[r].new, [f \in Fields |-> r + 1])
      /\ starting' = AgainIfUp
      /\ SecretsTyped /\ OneWriter /\ BeforeMigration /\ CopiesSound /\ SavesSound /\ RemovedForGood
      /\ profile \in ProfileStates /\ starting \in StartStates /\ saving \in [Settings -> SaveStates]
      /\ saving[r] \in SaveStates /\ saving[r].new \in SUBSET Fields /\ saving[r].to \in Values
  BY DEF AccountSaved, history, MSInv, SecretsTyped, SaveStates
<1>1. PICK new \in SUBSET Fields, to \in Values : new = saving[r].new /\ to = saving[r].to
  BY <1>0
<1>2. PICK yes \in BOOLEAN, blob \in Values :
        /\ yes = TRUE /\ blob \in {Blanks, profile.blob}
        /\ profile' = [profile EXCEPT !.listed = yes, !.acct = to, !.conn = Blanks, !.blob = blob]
  <2>1. PICK yes \in BOOLEAN : yes = TRUE
    OBVIOUS
  <2>2. PICK blob \in Values : blob = IF dropBlobs THEN Blanks ELSE profile.blob
    BY <1>0 DEF ProfileStates
  <2>3. profile' = [profile EXCEPT !.listed = yes, !.acct = to, !.conn = Blanks, !.blob = blob]
    BY <1>0, <1>1, <2>1, <2>2 DEF AccountSaved, ProfileStates
  <2> QED
    BY <2>1, <2>2, <2>3
<1>3. /\ profile' \in ProfileStates /\ profile'.listed = yes /\ profile'.acct = to /\ profile'.conn = Blanks
      /\ profile'.blob = blob /\ profile'.quarantined = profile.quarantined
  BY <1>0, <1>2 DEF ProfileStates
<1>4. Registry' = to
  BY <1>2, <1>3 DEF Registry
<1>5. starting.at # "migrating" /\ \A q \in Settings : q # r => saving[q].at \notin {"account", "reset"}
  BY <1>0 DEF OneWriter
<1>6. starting' \in StartStates /\ starting'.at \in {"down", "asked"}
  BY <1>0, <1>5, AgainFacts
<1> DEFINE s == [NotSaving EXCEPT !.at = "answered"]
<1>7. s \in SaveStates /\ s.at = "answered"
  BY DEF NotSaving, SaveStates
<1> HIDE DEF s
<1>8. saving' \in [Settings -> SaveStates] /\ \A q \in Settings : saving'[q].at \notin {"account", "reset"}
  <2>1. saving' = [saving EXCEPT ![r] = s]
    BY DEF AccountSaved, s
  <2> QED
    BY <1>0, <1>5, <1>7, <2>1
<1>9. /\ due' \in [Fields -> Nat \cup {Unknown}]
      /\ \A f \in Fields : due'[f] = IF f \in new THEN r + 1 ELSE due[f]
  BY <1>0, <1>1 DEF SecretsTyped, With
<1>10. SecretsTyped' /\ OneWriter' /\ BeforeMigration'
  BY <1>0, <1>3, <1>6, <1>8, <1>9 DEF SecretsTyped, OneWriter, BeforeMigration, InTheOpen
<1>11. CopiesSound'
  <2>1. ASSUME NEW f \in Fields, due'[f] # Unknown
        PROVE  FoundFirst(f, to[f])'
    <3>1. CASE f \in new
      <4>1. to[f] = r + 1 \/ (to[f] = NoSecret /\ entries.own[f] = r + 1 /\ (outages = 0 => reachable = TRUE))
        BY <1>0, <1>1, <3>1 DEF SavesSound
      <4> QED
        BY <1>0, <1>9, <3>1, <4>1 DEF FoundFirst
    <3>2. CASE f \notin new
      <4>1. FoundFirst(f, to[f]) /\ due'[f] = due[f]
        BY <1>0, <1>1, <1>9, <2>1, <3>2 DEF SavesSound
      <4> QED
        BY <1>0, <1>3, <4>1 DEF FoundFirst
    <3> QED
      BY <3>1, <3>2
  <2> QED
    BY <1>4, <2>1 DEF CopiesSound, FoundFirst
<1>12. SavesSound' /\ ServiceSound'
  BY <1>6, <1>8 DEF SavesSound, ServiceSound
<1>13. RemovedForGood'
  <2>1. ASSUME NEW f \in Fields, due'[f] = NoSecret
        PROVE  /\ profile'.conn[f] = NoSecret /\ profile'.blob[f] = NoSecret
               /\ profile'.quarantined = TRUE \/ entries'.shared[f] = NoSecret
    <3>1. due[f] = NoSecret
      BY <1>9, <2>1
    <3> QED
      BY <1>0, <1>2, <1>3, <3>1 DEF RemovedForGood
  <2> QED
    BY <2>1 DEF RemovedForGood
<1> QED
  BY <1>10, <1>11, <1>12, <1>13 DEF MSInv

LEMMA NotSavedSound ==
  ASSUME MSInv, NEW r \in Settings, NotSaved(r)
  PROVE  MSInv'
<1> USE SecretsFacts
<1>0. /\ saving[r].at \in {"account", "reset"} /\ configLock' = Unlocked
      /\ UNCHANGED <<profile, entries, reachable, starting, inService, suspended, due, outages>>
      /\ SecretsTyped /\ OneWriter /\ BeforeMigration /\ saving \in [Settings -> SaveStates]
  BY DEF NotSaved, history, MSInv, SecretsTyped
<1> DEFINE s == [NotSaving EXCEPT !.at = "answered"]
<1>1. s \in SaveStates /\ s.at = "answered"
  BY DEF NotSaving, SaveStates
<1> HIDE DEF s
<1>2. starting.at # "migrating" /\ \A q \in Settings : q # r => saving[q].at \notin {"account", "reset"}
  BY <1>0 DEF OneWriter
<1>3. saving' \in [Settings -> SaveStates] /\ \A q \in Settings : saving'[q].at \notin {"account", "reset"}
  <2>1. saving' = [saving EXCEPT ![r] = s]
    BY DEF NotSaved, s
  <2> QED
    BY <1>0, <1>1, <1>2, <2>1
<1>4. SecretsTyped' /\ OneWriter' /\ BeforeMigration' /\ SavesSound'
  BY <1>0, <1>2, <1>3 DEF SecretsTyped, OneWriter, BeforeMigration, InTheOpen, SavesSound
<1>5. CopiesSound' /\ RemovedForGood' /\ ServiceSound'
  BY <1>0 DEF MSInv, CopiesSound, FoundFirst, RemovedForGood, ServiceSound, Registry
<1> QED
  BY <1>4, <1>5 DEF MSInv

LEMMA ResetKeychainSound ==
  ASSUME MSInv, NEW r \in Settings, ResetKeychain(r), starting.at \notin {"down", "migrating"}
  PROVE  MSInv'
<1> USE SecretsFacts
<1>0. /\ saving[r].at = "none" /\ configLock = Unlocked /\ configLock' = r
      /\ UNCHANGED <<profile, reachable, starting, inService, suspended, outages>>
      /\ due' = [f \in Fields |-> Unknown]
      /\ SecretsTyped /\ OneWriter /\ BeforeMigration /\ ServiceSound
      /\ entries \in EntryStates /\ saving \in [Settings -> SaveStates]
  BY DEF ResetKeychain, history, MSInv, SecretsTyped
<1>1. PICK kept \in SUBSET Fields, shared \in SUBSET Fields :
        /\ entries' = [own |-> With(Blanks, kept, entries.own), shared |-> With(Blanks, shared, entries.shared)]
        /\ saving' = [saving EXCEPT ![r] = [at |-> "reset", new |-> kept \cup shared, to |-> Blanks]]
  BY DEF ResetKeychain, Fields
<1> DEFINE own2 == With(Blanks, kept, entries.own)
           shared2 == With(Blanks, shared, entries.shared)
           s == [at |-> "reset", new |-> kept \cup shared, to |-> Blanks]
<1>2. /\ own2 \in Values /\ shared2 \in Values
      /\ \A f \in Fields : own2[f] = IF f \in kept THEN entries.own[f] ELSE NoSecret
      /\ \A f \in Fields : shared2[f] = IF f \in shared THEN entries.shared[f] ELSE NoSecret
  BY <1>0, WithFacts DEF EntryStates
<1> HIDE DEF own2, shared2
<1>3. /\ entries' \in EntryStates /\ entries'.own = own2 /\ entries'.shared = shared2
      /\ s \in SaveStates /\ s.at = "reset" /\ s.new = kept \cup shared
  BY <1>1, <1>2 DEF EntryStates, SaveStates, own2, shared2
<1> HIDE DEF s
<1>4. /\ saving' \in [Settings -> SaveStates] /\ saving'[r] = s
      /\ \A q \in Settings : q # r => saving'[q].at \notin {"account", "reset"}
  <2>1. \A q \in Settings : saving[q].at \notin {"account", "reset"}
    BY <1>0 DEF OneWriter
  <2>2. saving' = [saving EXCEPT ![r] = s]
    BY <1>1 DEF s
  <2> QED
    BY <1>0, <1>3, <2>1, <2>2
<1>5. due' \in [Fields -> Nat \cup {Unknown}] /\ \A f \in Fields : due'[f] = Unknown
  BY <1>0
<1>6. SecretsTyped' /\ OneWriter' /\ BeforeMigration'
  <2>1. ~InTheOpen
    BY <1>0 DEF BeforeMigration
  <2> QED
    BY <1>0, <1>3, <1>4, <1>5, <2>1 DEF SecretsTyped, OneWriter, BeforeMigration, InTheOpen
<1>7. CopiesSound' /\ RemovedForGood' /\ ServiceSound'
  BY <1>0, <1>5 DEF CopiesSound, RemovedForGood, ServiceSound, Registry
<1>8. SavesSound'
  <2>1. s.new = {} => \A f \in Fields : entries'.own[f] = NoSecret /\ entries'.shared[f] = NoSecret
    BY <1>2, <1>3
  <2> QED
    BY <1>3, <1>4, <1>5, <2>1 DEF SavesSound
<1> QED
  BY <1>6, <1>7, <1>8 DEF MSInv

LEMMA ResetSavedSound ==
  ASSUME MSInv, NEW r \in Settings, ResetSaved(r)
  PROVE  MSInv'
<1> USE SecretsFacts
<1>0. /\ saving[r].at = "reset" /\ configLock' = Unlocked
      /\ UNCHANGED <<entries, reachable, outages>> /\ due' = Blanks
      /\ SecretsTyped /\ OneWriter /\ BeforeMigration /\ SavesSound
      /\ starting \in StartStates /\ saving \in [Settings -> SaveStates] /\ suspended \in BOOLEAN
  BY DEF ResetSaved, history, MSInv, SecretsTyped
<1>1. PICK no \in BOOLEAN, failed \in BOOLEAN :
        /\ no = FALSE /\ (failed = TRUE <=> saving[r].new # {})
        /\ profile' = [conn |-> Blanks, blob |-> Blanks, listed |-> no, acct |-> Blanks, quarantined |-> failed]
  <2>1. PICK no \in BOOLEAN : no = FALSE
    OBVIOUS
  <2>2. PICK failed \in BOOLEAN : failed = (saving[r].new # {})
    OBVIOUS
  <2>3. profile' = [conn |-> Blanks, blob |-> Blanks, listed |-> no, acct |-> Blanks, quarantined |-> failed]
    BY <2>1, <2>2 DEF ResetSaved, Quarantines
  <2> QED
    BY <2>1, <2>2, <2>3
<1>2. /\ profile' \in ProfileStates /\ profile'.conn = Blanks /\ profile'.blob = Blanks
      /\ profile'.quarantined = failed /\ profile'.acct = Blanks
  BY <1>1 DEF ProfileStates
<1>3. Registry' = Blanks
  BY <1>2 DEF Registry
<1>4. starting.at # "migrating" /\ \A q \in Settings : q # r => saving[q].at \notin {"account", "reset"}
  BY <1>0 DEF OneWriter
<1> DEFINE s == [NotSaving EXCEPT !.at = "answered"]
<1>5. s \in SaveStates /\ s.at = "answered"
  BY DEF NotSaving, SaveStates
<1> HIDE DEF s
<1>6. saving' \in [Settings -> SaveStates] /\ \A q \in Settings : saving'[q].at \notin {"account", "reset"}
  <2>1. saving' = [saving EXCEPT ![r] = s]
    BY DEF ResetSaved, s
  <2> QED
    BY <1>0, <1>4, <1>5, <2>1
<1>7. due' \in [Fields -> Nat \cup {Unknown}] /\ \A f \in Fields : due'[f] = NoSecret
  BY <1>0 DEF Values
<1>8. /\ starting' \in StartStates /\ starting'.at \in {"down", "asked", "up"} /\ suspended' \in BOOLEAN
      /\ inService' \in Values
      /\ starting'.at = "up" => inService' = Blanks /\ suspended' = TRUE
  <2>1. CASE saving[r].new # {} /\ starting.at \notin {"down", "migrating"}
    <3>1. suspended' = TRUE /\ inService' = Blanks /\ starting' = [Off EXCEPT !.at = "up"]
      BY <2>1 DEF ResetSaved
    <3> QED
      BY <3>1, OffFacts
  <2>2. CASE ~(saving[r].new # {} /\ starting.at \notin {"down", "migrating"})
    <3>1. starting' = AgainIfUp /\ UNCHANGED <<suspended, inService>>
      BY <2>2 DEF ResetSaved
    <3> QED
      BY <1>0, <1>4, <3>1, AgainFacts DEF SecretsTyped
  <2> QED
    BY <2>1, <2>2
<1>9. SecretsTyped' /\ OneWriter' /\ BeforeMigration'
  BY <1>0, <1>2, <1>6, <1>7, <1>8 DEF SecretsTyped, OneWriter, BeforeMigration, InTheOpen
<1>10. failed = FALSE => \A f \in Fields : entries.own[f] = NoSecret /\ entries.shared[f] = NoSecret
  BY <1>0, <1>1 DEF SavesSound
<1>11. CopiesSound' /\ RemovedForGood'
  BY <1>0, <1>1, <1>2, <1>3, <1>7, <1>10 DEF CopiesSound, FoundFirst, RemovedForGood
<1>12. SavesSound' /\ ServiceSound'
  BY <1>6, <1>7, <1>8 DEF SavesSound, ServiceSound
<1> QED
  BY <1>9, <1>11, <1>12 DEF MSInv

LEMMA KeychainTurnsSound ==
  ASSUME MSInv, KeychainTurns
  PROVE  MSInv'
<1> USE SecretsFacts
<1>0. /\ UNCHANGED <<profile, entries, configLock, starting, saving, inService, suspended, due>>
      /\ outages \in Nat /\ outages' = outages + 1 /\ reachable' = ~reachable
      /\ SecretsTyped /\ OneWriter /\ BeforeMigration /\ Registry' = Registry
  BY DEF KeychainTurns, MSInv, SecretsTyped, Registry
<1>1. outages' \in Nat /\ outages' # 0 /\ reachable' \in BOOLEAN
  BY <1>0
<1>2. SecretsTyped' /\ OneWriter' /\ BeforeMigration'
  BY <1>0, <1>1 DEF SecretsTyped, OneWriter, BeforeMigration, InTheOpen
<1>3. \A f \in Fields : \A kept : FoundFirst(f, kept) => FoundFirst(f, kept)'
  BY <1>0, <1>1 DEF FoundFirst
<1>4. CopiesSound'
  BY <1>0, <1>3 DEF MSInv, CopiesSound
<1>5. SavesSound'
  BY <1>0, <1>1, <1>3 DEF MSInv, SavesSound
<1>6. RemovedForGood' /\ ServiceSound'
  BY <1>0, <1>1 DEF MSInv, RemovedForGood, ServiceSound, Registry
<1> QED
  BY <1>2, <1>4, <1>5, <1>6 DEF MSInv

LEMMA AllDiesSound ==
  ASSUME MSInv, AllDies
  PROVE  MSInv'
<1> USE SecretsFacts
<1>0. /\ UNCHANGED <<profile, entries, reachable, due, outages>> /\ configLock' = Unlocked
      /\ starting' = Off /\ inService' = Blanks /\ suspended' = FALSE
      /\ SecretsTyped /\ BeforeMigration
  BY DEF AllDies, MSInv
<1>1. starting' \in StartStates /\ starting'.at = "down"
  BY <1>0, OffFacts
<1>2. saving' \in [Settings -> SaveStates] /\ \A q \in Settings : saving'[q].at \in {"none", "answered"}
  <2>1. NotSaving \in SaveStates /\ NotSaving.at = "none"
    BY DEF NotSaving, SaveStates
  <2>2. [NotSaving EXCEPT !.at = "answered"] \in SaveStates /\ [NotSaving EXCEPT !.at = "answered"].at = "answered"
    BY DEF NotSaving, SaveStates
  <2> QED
    BY <2>1, <2>2 DEF AllDies
<1>3. SecretsTyped' /\ OneWriter' /\ BeforeMigration'
  BY <1>0, <1>1, <1>2 DEF SecretsTyped, OneWriter, BeforeMigration, InTheOpen
<1>4. CopiesSound' /\ RemovedForGood'
  BY <1>0 DEF MSInv, CopiesSound, FoundFirst, RemovedForGood, Registry
<1>5. SavesSound' /\ ServiceSound'
  BY <1>1, <1>2 DEF SavesSound, ServiceSound
<1> QED
  BY <1>3, <1>4, <1>5 DEF MSInv

LEMMA MailboxSecretsSteps ==
  ASSUME MSInv, MSNext \/ UNCHANGED ms_vars
  PROVE  MSInv'
<1>1. CASE UNCHANGED ms_vars
  BY <1>1 DEF ms_vars, history, MSInv, SecretsTyped, OneWriter, BeforeMigration, InTheOpen, CopiesSound, FoundFirst,
     SavesSound, RemovedForGood, ServiceSound, Registry
<1>2. CASE MSNext
  BY <1>2, StartDaemonSound, MigrateSaveSound, ReadAccountsSound, HydrateSound, KeychainTurnsSound, AllDiesSound,
     SaveAccountSound, AccountSavedSound, NotSavedSound, ResetKeychainSound, ResetSavedSound DEF MSNext
<1> QED
  BY <1>1, <1>2

LEMMA MailboxSecretsHold ==
  ASSUME MSInv
  PROVE  NeverAnOlderSecret /\ SavedSecretServed
<1> USE SecretsFacts
<1>1. /\ SecretsTyped /\ RemovedForGood /\ ServiceSound /\ profile.quarantined \in BOOLEAN /\ suspended \in BOOLEAN
  BY DEF MSInv, SecretsTyped, ProfileStates
<1>2. NeverAnOlderSecret
  BY <1>1 DEF NeverAnOlderSecret, RemovedForGood, ServiceSound, loadMailboxCredentials
<1>3. SavedSecretServed
  BY <1>1 DEF SavedSecretServed, Served, Withheld, ServiceSound
<1> QED
  BY <1>2, <1>3

LEMMA MailboxSecretsAreKept == MSSpec => [](NeverAnOlderSecret /\ SavedSecretServed)
BY SecretsBegin, MailboxSecretsSteps, MailboxSecretsHold, PTL DEF MSSpec

(* As long as the keychain does not come and go, a secret of an integration is  *)
(* used and found as the last answer said; whatever the keychain does, no       *)
(* mailbox service gets an older credential than the one saved, and none that   *)
(* was saved is lost while the keychain stays: for any number of requests,      *)
(* failures of the keychain and crashes.                                        *)
THEOREM SecretsAreKept == ~KeychainLeaves => (SecretsSpec => []SecretsHold)
<1> SUFFICES ASSUME ~KeychainLeaves
             PROVE  SecretsSpec => []SecretsHold
  OBVIOUS
<1>1. ISInit => ISInv
  BY KeysBegin
<1>2. ISInv /\ [ISNext]_is_vars => ISInv'
  BY KeysSteps
<1>3. ISInv => ServedAsPromised
  BY KeysHold
<1>4. ISSpec => []ServedAsPromised
  BY <1>1, <1>2, <1>3, PTL DEF ISSpec
<1> QED
  BY <1>4, MailboxSecretsAreKept, PTL DEF SecretsSpec, SecretsHold

------------------------------------------------------------------------------
(* The improvement loop                                                         *)

Acts == {"none", "initialized", "imported", "re_audited", "begun", "validation_started", "validated",
         "validation_discarded", "completed", "blocked"}
ItemOrNone == Items \cup {NoItem}
Transitions == [seq : Nat, act : Acts, item : ItemOrNone, on : Nat]
LoopRuns == [id : Nat, item : ItemOrNone, at : Nat]
Results == [item : ItemOrNone, at : Nat, until : Nat, ok : BOOLEAN]
ItemStates == [Items -> [status : {"absent", "queued", "in_progress", "completed", "blocked"}, audit : Nat]]
Snapshots ==
  [seq : Nat, pending : Transitions, active : ItemOrNone, auditRequired : BOOLEAN, lastAudit : Nat,
   result : Results, run : LoopRuns, items : ItemStates]
LoopPlaces == {"prompt", "locked", "init", "append", "save", "checking", "checked"}
Shells == [at : LoopPlaces, run : LoopRuns, check : DOMAIN Passing, ok : BOOLEAN]

(* What was numbered n is the n-th.                                             *)
Numbered(log) == \A n \in DOMAIN log : log[n].seq = n

(* Every item begun was completed or blocked, and an audit came after; or only  *)
(* the audit is missing, and is required; or it is the one at work.             *)
EndOf(log, m, p) == m < p /\ log[p].act \in {"completed", "blocked"} /\ log[p].item = log[m].item
EndedIn(log, m) == \E p \in DOMAIN log : EndOf(log, m, p)
ClosedIn(log, m) == \E p, q \in DOMAIN log : p < q /\ EndOf(log, m, p) /\ log[q].act = "re_audited"
InTurn(log, current, required) ==
  \A m \in DOMAIN log : log[m].act = "begun" =>
    ClosedIn(log, m) \/ (required = TRUE /\ EndedIn(log, m)) \/ (current # NoItem /\ current = log[m].item)
OneByOneIn(log) ==
  \A m, n \in DOMAIN log : m < n /\ log[m].act = "begun" /\ log[n].act = "begun" =>
    \E p, q \in (m + 1)..(n - 1) : p < q /\ log[p].act \in {"completed", "blocked"} /\ log[p].item = log[m].item
                                   /\ log[q].act = "re_audited"

PassesAll(content) == \A k \in DOMAIN Passing : content \in Passing[k]
ResultSound(result) == result.ok = TRUE /\ result.at = result.until => PassesAll(result.at)
TestedIn(log) == \A n \in DOMAIN log : log[n].act = "completed" => PassesAll(log[n].on)

(* A validation that was not overtaken by an edit has seen what it began with.  *)
RunSound(s) ==
  /\ s.run = NoRun => s.at \notin {"checking", "checked"}
  /\ s.at \in {"prompt", "init"} => s.run = NoRun
  /\ s.run # NoRun => s.run.at <= workspace
  /\ s.run # NoRun /\ s.run.at = workspace =>
       /\ s.at = "checking" => \A k \in DOMAIN Passing : k < s.check => workspace \in Passing[k]
       /\ s.at \in {"checked", "locked"} /\ s.ok = TRUE => PassesAll(workspace)
       /\ s.at \in {"append", "save"} => s.check = 1

LoopTyped ==
  /\ snapshot \in Snapshots /\ events \in Seq(Transitions) /\ truth \in Seq(Transitions)
  /\ running \in [Terminals -> Shells] /\ workspace \in Nat
  /\ loopLock \in Terminals \cup {Unheld, Dead} /\ files \in {"none", "history", "ready"}

(* One terminal at a time is between two writes, and has the lock.              *)
LockSound ==
  /\ \A t \in Terminals : running[t].at \in {"locked", "init", "append", "save"} => loopLock = t
  /\ \A t \in Terminals : running[t].at \notin {"prompt", "init"} => files = "ready"
  /\ \A t \in Terminals : running[t].at = "init" => files = "history"
  /\ files # "ready" => snapshot = initialSnapshot /\ events = <<>> /\ truth = <<>>

PendingIsLast == Len(truth) > 0 /\ snapshot.pending = Last(truth)
HistorySound ==
  /\ snapshot.seq = Len(truth) /\ Numbered(truth)
  /\ snapshot.pending = NoEvent \/ PendingIsLast
  /\ events = truth \/ (events = Front(truth) /\ PendingIsLast)
  /\ \A t \in Terminals : running[t].at = "append" => events = Front(truth) /\ PendingIsLast
  /\ \A t \in Terminals : running[t].at = "save" => events = truth

ItemsSound ==
  /\ InTurn(truth, snapshot.active, snapshot.auditRequired) /\ OneByOneIn(truth)
  /\ ResultSound(snapshot.result) /\ TestedIn(truth)
  /\ \A t \in Terminals : RunSound(running[t])

LoopInv == LoopTyped /\ LockSound /\ HistorySound /\ ItemsSound

------------------------------------------------------------------------------
(* Sequences that grow                                                          *)

LEMMA LogAppended ==
  ASSUME NEW S, NEW log \in Seq(S), NEW e \in S
  PROVE  /\ Append(log, e) \in Seq(S) /\ DOMAIN Append(log, e) = DOMAIN log \cup {Len(log) + 1}
         /\ Len(log) \in Nat /\ DOMAIN log = 1..Len(log) /\ Len(Append(log, e)) = Len(log) + 1
         /\ \A n \in DOMAIN log : Append(log, e)[n] = log[n] /\ n # Len(log) + 1 /\ n < Len(log) + 1 /\ n \in Nat
         /\ Append(log, e)[Len(log) + 1] = e
         /\ Front(Append(log, e)) = log /\ Last(Append(log, e)) = e
BY DEF Front, Last

LEMMA FrontAndLast ==
  ASSUME NEW S, NEW log \in Seq(S), Len(log) > 0
  PROVE  /\ Append(Front(log), Last(log)) = log /\ Front(log) \in Seq(S) /\ Last(log) \in S
         /\ Len(Front(log)) = Len(log) - 1 /\ \A n \in DOMAIN Front(log) : Front(log)[n] = log[n] /\ n \in DOMAIN log /\ n < Len(log)
<1> DEFINE f == Front(log)
           L == Len(log)
<1>1. L \in Nat /\ L - 1 \in Nat /\ log \in [1..L -> S]
  OBVIOUS
<1>2. f \in Seq(S) /\ Len(f) = L - 1 /\ \A n \in 1..(L - 1) : f[n] = log[n]
  BY <1>1 DEF Front
<1>3. Last(log) \in S /\ Last(log) = log[L]
  BY <1>1 DEF Last
<1> HIDE DEF f
<1>4. PICK l \in S : l = Last(log)
  BY <1>3
<1>5. PICK more \in Seq(S) : more = Append(f, l)
  BY <1>2, <1>4, LogAppended, Zenon
<1>6. Len(more) = L /\ \A n \in 1..L : more[n] = log[n]
  <2>1. Len(more) = (L - 1) + 1
    BY <1>2, <1>4, <1>5, LogAppended
  <2>2. \A n \in 1..(L - 1) : more[n] = f[n]
    BY <1>2, <1>4, <1>5, LogAppended
  <2>3. more[L] = l
    BY <1>1, <1>2, <1>4, <1>5
  <2> QED
    BY <1>1, <1>2, <1>3, <1>4, <2>1, <2>2, <2>3
<1>8. more = log
  BY <1>6, SeqEqual
<1>7. DOMAIN f = 1..(L - 1) /\ DOMAIN log = 1..L
  BY <1>1, <1>2
<1> QED
  BY <1>1, <1>2, <1>3, <1>4, <1>5, <1>8, <1>7 DEF f

(* What was closed or ended stays so, and what is added comes after.            *)
LEMMA ClosedStays ==
  ASSUME NEW log \in Seq(Transitions), NEW e \in Transitions, NEW m \in DOMAIN log
  PROVE  /\ ClosedIn(log, m) => ClosedIn(Append(log, e), m)
         /\ EndedIn(log, m) => EndedIn(Append(log, e), m)
         /\ EndedIn(log, m) /\ e.act = "re_audited" => ClosedIn(Append(log, e), m)
         /\ e.act \in {"completed", "blocked"} /\ e.item = log[m].item => EndedIn(Append(log, e), m)
<1> DEFINE more == Append(log, e)
           L == Len(log)
<1>1. /\ DOMAIN more = DOMAIN log \cup {L + 1} /\ more[L + 1] = e /\ L \in Nat /\ DOMAIN log = 1..L
      /\ \A n \in DOMAIN log : more[n] = log[n] /\ n < L + 1
  BY LogAppended
<1> HIDE DEF more
<1>2. \A p \in DOMAIN log : EndOf(log, m, p) => EndOf(more, m, p) /\ p \in DOMAIN more
  BY <1>1 DEF EndOf
<1>3. ASSUME ClosedIn(log, m)
      PROVE  ClosedIn(more, m)
  <2>1. PICK p \in DOMAIN log, q \in DOMAIN log : p < q /\ EndOf(log, m, p) /\ log[q].act = "re_audited"
    BY <1>3 DEF ClosedIn
  <2>2. p \in DOMAIN more /\ q \in DOMAIN more /\ EndOf(more, m, p) /\ more[q].act = "re_audited"
    BY <1>1, <1>2, <2>1
  <2> QED
    BY <2>1, <2>2 DEF ClosedIn
<1>4. ASSUME EndedIn(log, m)
      PROVE  EndedIn(more, m) /\ (e.act = "re_audited" => ClosedIn(more, m))
  <2>1. PICK p \in DOMAIN log : EndOf(log, m, p)
    BY <1>4 DEF EndedIn
  <2>2. p \in DOMAIN more /\ EndOf(more, m, p) /\ p < L + 1 /\ L + 1 \in DOMAIN more
    BY <1>1, <1>2, <2>1
  <2> QED
    BY <1>1, <2>2 DEF EndedIn, ClosedIn
<1>5. ASSUME e.act \in {"completed", "blocked"}, e.item = log[m].item
      PROVE  EndedIn(more, m)
  <2>1. L + 1 \in DOMAIN more /\ EndOf(more, m, L + 1)
    BY <1>1, <1>5 DEF EndOf
  <2> QED
    BY <2>1 DEF EndedIn
<1> QED
  BY <1>3, <1>4, <1>5 DEF more

(* Which transition may follow which.                                           *)
Follows(act, item, current, required, current2, required2) ==
  \/ act # "begun" /\ current2 = current /\ required2 = required
  \/ act = "re_audited" /\ current = NoItem
  \/ act = "begun" /\ required = FALSE /\ current = NoItem /\ current2 = item /\ item # NoItem
  \/ act \in {"completed", "blocked"} /\ item = current /\ required2 = TRUE

LEMMA TurnStays ==
  ASSUME NEW log \in Seq(Transitions), NEW e \in Transitions, NEW a, NEW r, NEW a2, NEW r2,
         InTurn(log, a, r), OneByOneIn(log), Follows(e.act, e.item, a, r, a2, r2)
  PROVE  InTurn(Append(log, e), a2, r2) /\ OneByOneIn(Append(log, e))
<1> DEFINE more == Append(log, e)
           L == Len(log)
<1>1. /\ DOMAIN more = DOMAIN log \cup {L + 1} /\ more[L + 1] = e /\ L \in Nat /\ DOMAIN log = 1..L
      /\ \A n \in DOMAIN log : more[n] = log[n] /\ n < L + 1
  BY LogAppended
<1>2. \A m \in DOMAIN log :
         /\ ClosedIn(log, m) => ClosedIn(more, m)
         /\ EndedIn(log, m) => EndedIn(more, m)
         /\ EndedIn(log, m) /\ e.act = "re_audited" => ClosedIn(more, m)
         /\ e.act \in {"completed", "blocked"} /\ e.item = log[m].item => EndedIn(more, m)
  BY ClosedStays
<1> HIDE DEF more
<1>3. ASSUME NEW m \in DOMAIN more, more[m].act = "begun"
      PROVE  ClosedIn(more, m) \/ (r2 = TRUE /\ EndedIn(more, m)) \/ (a2 # NoItem /\ a2 = more[m].item)
  <2>1. CASE m \in DOMAIN log
    <3>1. ClosedIn(log, m) \/ (r = TRUE /\ EndedIn(log, m)) \/ (a # NoItem /\ a = log[m].item)
      BY <1>1, <1>3, <2>1 DEF InTurn
    <3> QED
      BY <1>1, <1>2, <2>1, <3>1 DEF Follows
  <2>2. CASE m = L + 1
    BY <1>1, <1>3, <2>2 DEF Follows
  <2> QED
    BY <1>1, <2>1, <2>2
<1>4. ASSUME NEW m \in DOMAIN more, NEW n \in DOMAIN more, m < n, more[m].act = "begun", more[n].act = "begun"
      PROVE  \E p, q \in (m + 1)..(n - 1) :
               p < q /\ more[p].act \in {"completed", "blocked"} /\ more[p].item = more[m].item
               /\ more[q].act = "re_audited"
  <2>1. m \in DOMAIN log
    BY <1>1, <1>4
  <2>2. CASE n \in DOMAIN log
    <3>0. log[m].act = "begun" /\ log[n].act = "begun"
      BY <1>1, <1>4, <2>1, <2>2
    <3>1. PICK p \in (m + 1)..(n - 1), q \in (m + 1)..(n - 1) :
            p < q /\ log[p].act \in {"completed", "blocked"} /\ log[p].item = log[m].item
            /\ log[q].act = "re_audited"
      BY <1>4, <2>1, <2>2, <3>0, Zenon DEF OneByOneIn
    <3>2. p \in DOMAIN log /\ q \in DOMAIN log
      BY <1>1, <2>1, <2>2
    <3> QED
      BY <1>1, <2>1, <3>1, <3>2
  <2>3. CASE n = L + 1
    <3>1. e.act = "begun" /\ r = FALSE /\ a = NoItem
      BY <1>1, <1>4, <2>3 DEF Follows
    <3>2. ClosedIn(log, m)
      BY <1>1, <1>4, <2>1, <3>1 DEF InTurn
    <3>3. PICK p \in DOMAIN log, q \in DOMAIN log : p < q /\ EndOf(log, m, p) /\ log[q].act = "re_audited"
      BY <3>2 DEF ClosedIn
    <3>4. p \in (m + 1)..(n - 1) /\ q \in (m + 1)..(n - 1)
      BY <1>1, <2>1, <2>3, <3>3 DEF EndOf
    <3> QED
      BY <1>1, <2>1, <3>3, <3>4 DEF EndOf
  <2> QED
    BY <1>1, <2>2, <2>3
<1> QED
  BY <1>3, <1>4 DEF InTurn, OneByOneIn, more

------------------------------------------------------------------------------
(* The steps                                                                    *)

LEMMA LoopFacts ==
  /\ NoItem \notin Items /\ Len(Passing) \in Nat /\ Len(Passing) >= 1 /\ DOMAIN Passing = 1..Len(Passing)
  /\ Unheld \notin Terminals /\ Dead \notin Terminals /\ Unheld # Dead
  /\ NoEvent \in Transitions /\ NoEvent.seq = 0 /\ NoRun \in LoopRuns /\ NoResult \in Results
  /\ NoResult.ok # TRUE
BY LoopAssumption DEF NoItem, Unheld, Dead, NoEvent, NoRun, NoResult, Transitions, LoopRuns, Results, ItemOrNone, Acts

LEMMA PromptFacts ==
  ASSUME NEW run \in LoopRuns
  PROVE  /\ AtPrompt \in Shells /\ AtPrompt.at = "prompt" /\ AtPrompt.run = NoRun
         /\ LET s == [AtPrompt EXCEPT !.at = "append", !.run = run] IN
            s \in Shells /\ s.at = "append" /\ s.run = run /\ s.check = 1
<1>1. PICK yes \in BOOLEAN : yes = TRUE
  OBVIOUS
<1>2. AtPrompt = [at |-> "prompt", run |-> NoRun, check |-> 1, ok |-> yes]
  BY <1>1 DEF AtPrompt
<1>3. 1 \in DOMAIN Passing /\ NoRun \in LoopRuns
  BY LoopFacts
<1>4. AtPrompt \in Shells /\ AtPrompt.at = "prompt" /\ AtPrompt.run = NoRun
  BY <1>2, <1>3 DEF Shells, LoopPlaces
<1>5. AtPrompt.check = 1
  BY <1>2
<1>6. PICK r \in Shells : r = AtPrompt
  BY <1>4
<1> DEFINE s == [r EXCEPT !.at = "append", !.run = run]
<1>7. s \in Shells /\ s.at = "append" /\ s.run = run /\ s.check = r.check
  BY <1>6 DEF Shells, LoopPlaces
<1> QED
  BY <1>4, <1>5, <1>6, <1>7

LEMMA CommitSound ==
  ASSUME LoopInv, NEW t \in Terminals, NEW snap \in Snapshots, NEW act \in Acts, NEW item \in ItemOrNone,
         NEW on \in Nat, NEW run \in LoopRuns, commit(t, snap, act, item, on, run),
         files' = "ready", running[t].at \in {"locked", "init"}, events = truth,
         snap.seq = Len(truth), ResultSound(snap.result),
         Follows(act, item, snapshot.active, snapshot.auditRequired, snap.active, snap.auditRequired),
         act = "completed" => PassesAll(on),
         run # NoRun => run.at <= workspace
  PROVE  LoopInv'
<1> DEFINE e == [seq |-> snap.seq + 1, act |-> act, item |-> item, on |-> on]
           s == [AtPrompt EXCEPT !.at = "append", !.run = run]
<1>1. /\ e \in Transitions /\ e.seq = Len(truth) + 1 /\ e.act = act /\ e.item = item /\ e.on = on
      /\ Len(truth) \in Nat
  BY DEF Snapshots, Transitions, LoopInv, LoopTyped
<1>2. /\ snapshot' = [snap EXCEPT !.seq = e.seq, !.pending = e] /\ truth' = Append(truth, e)
      /\ running' = [running EXCEPT ![t] = s] /\ UNCHANGED <<events, loopLock, workspace, changed, kills, tampers>>
  BY DEF commit, around
<1>3. s \in Shells /\ s.at = "append" /\ s.run = run /\ s.check = 1
  BY PromptFacts
<1> HIDE DEF e, s
<1>4. /\ snapshot' \in Snapshots /\ snapshot'.seq = Len(truth) + 1 /\ snapshot'.pending = e
      /\ snapshot'.active = snap.active /\ snapshot'.auditRequired = snap.auditRequired
      /\ snapshot'.result = snap.result
  <2>1. PICK q \in Nat : q = e.seq
    BY <1>1 DEF Transitions
  <2>2. snapshot' = [snap EXCEPT !.seq = q, !.pending = e]
    BY <1>2, <2>1
  <2>3. snapshot' = [seq |-> q, pending |-> e, active |-> snap.active, auditRequired |-> snap.auditRequired,
                     lastAudit |-> snap.lastAudit, result |-> snap.result, run |-> snap.run, items |-> snap.items]
    BY <2>2 DEF Snapshots
  <2>4. snapshot' \in Snapshots
    BY <1>1, <2>1, <2>3 DEF Snapshots
  <2> QED
    BY <1>1, <2>1, <2>3, <2>4
<1>5. /\ truth' \in Seq(Transitions) /\ DOMAIN truth' = DOMAIN truth \cup {Len(truth) + 1}
      /\ Len(truth') = Len(truth) + 1 /\ Front(truth') = truth /\ Last(truth') = e /\ truth'[Len(truth) + 1] = e
      /\ \A n \in DOMAIN truth : truth'[n] = truth[n]
  BY <1>1, <1>2, LogAppended DEF LoopInv, LoopTyped
<1>6. /\ running' \in [Terminals -> Shells] /\ running'[t] = s
      /\ \A u \in Terminals : u # t => running'[u] = running[u]
  BY <1>2, <1>3 DEF LoopInv, LoopTyped
<1>7. LoopTyped'
  BY <1>2, <1>4, <1>5, <1>6 DEF LoopInv, LoopTyped
<1>8. loopLock = t
  BY DEF LoopInv, LockSound
<1>9. LockSound'
  BY <1>2, <1>3, <1>6, <1>8 DEF LoopInv, LockSound
<1>10. HistorySound'
  <2>1. PendingIsLast' /\ events' = Front(truth')
    BY <1>1, <1>2, <1>4, <1>5 DEF PendingIsLast
  <2>2. Numbered(truth')
    BY <1>1, <1>5 DEF Numbered, LoopInv, HistorySound
  <2>3. \A u \in Terminals : running'[u].at \notin {"save"}
    BY <1>3, <1>6, <1>8 DEF LoopInv, LockSound
  <2> QED
    BY <1>4, <1>5, <2>1, <2>2, <2>3 DEF HistorySound
<1>11. ItemsSound'
  <2>1. InTurn(truth', snapshot'.active, snapshot'.auditRequired) /\ OneByOneIn(truth')
    BY <1>1, <1>2, <1>4, TurnStays DEF LoopInv, LoopTyped, ItemsSound
  <2>2. ResultSound(snapshot'.result)
    BY <1>4
  <2>3. TestedIn(truth')
    BY <1>1, <1>5 DEF TestedIn, LoopInv, ItemsSound
  <2>4. \A u \in Terminals : RunSound(running[u])' 
    BY <1>2, <1>3, <1>6 DEF RunSound, LoopInv, ItemsSound
  <2> QED
    BY <2>1, <2>2, <2>3, <2>4 DEF ItemsSound, ResultSound, PassesAll, TestedIn, InTurn, OneByOneIn, ClosedIn, EndedIn, EndOf
<1> QED
  BY <1>7, <1>9, <1>10, <1>11 DEF LoopInv

(* A step of one terminal that leaves snapshot and history alone.               *)
LEMMA QuietStepSound ==
  ASSUME LoopInv, NEW t \in Terminals, NEW s \in Shells,
         UNCHANGED <<snapshot, events, truth, workspace>>, running' = [running EXCEPT ![t] = s],
         loopLock' \in Terminals \cup {Unheld, Dead}, files' \in {"none", "history", "ready"},
         s.at \in {"locked", "init", "append", "save"} => loopLock' = t,
         \A u \in Terminals : u # t /\ loopLock = u => loopLock' = u,
         files' = files \/ (files = "none" /\ files' = "history"),
         s.at \notin {"prompt", "init"} => files' = "ready",
         s.at = "init" => files' = "history",
         s.at \notin {"append", "save"}, RunSound(s)
  PROVE  LoopInv'
<1>1. /\ running' \in [Terminals -> Shells] /\ running'[t] = s
      /\ \A u \in Terminals : u # t => running'[u] = running[u]
  BY DEF LoopInv, LoopTyped
<1>2. LoopTyped'
  BY <1>1 DEF LoopInv, LoopTyped
<1>3. LockSound'
  <2>1. \A u \in Terminals : running'[u].at \in {"locked", "init", "append", "save"} => loopLock' = u
    BY <1>1 DEF LoopInv, LockSound
  <2>2. \A u \in Terminals : running'[u].at \notin {"prompt", "init"} => files' = "ready"
    BY <1>1 DEF LoopInv, LockSound
  <2>3. \A u \in Terminals : running'[u].at = "init" => files' = "history"
    BY <1>1 DEF LoopInv, LockSound
  <2>4. files' # "ready" => snapshot' = initialSnapshot /\ events' = <<>> /\ truth' = <<>>
    BY DEF LoopInv, LockSound
  <2> QED
    BY <2>1, <2>2, <2>3, <2>4 DEF LockSound, initialSnapshot
<1>4. HistorySound'
  BY <1>1 DEF LoopInv, HistorySound, PendingIsLast, Numbered
<1>5. \A u \in Terminals : RunSound(running[u])'
  BY <1>1 DEF RunSound, LoopInv, ItemsSound
<1>6. ItemsSound'
  BY <1>5 DEF LoopInv, ItemsSound
<1> QED
  BY <1>2, <1>3, <1>4, <1>6 DEF LoopInv

LEMMA QuietActions ==
  ASSUME LoopInv, NEW t \in Terminals,
         acquireLock(t) \/ commandInit(t) \/ GivesUp(t) \/ Killed(t) \/ runCheck(t)
  PROVE  LoopInv'
<1> USE LoopFacts
<1>0. /\ running[t] \in Shells /\ RunSound(running[t]) /\ AtPrompt \in Shells /\ AtPrompt.at = "prompt"
      /\ AtPrompt.run = NoRun /\ RunSound(AtPrompt) /\ LoopTyped
      /\ (running[t].at \in {"locked", "init", "append", "save"} => loopLock = t)
  BY PromptFacts DEF LoopInv, LoopTyped, ItemsSound, RunSound, LockSound
<1>1. CASE acquireLock(t)
  <2> DEFINE s == [running[t] EXCEPT !.at = "locked"]
  <2>1. s \in Shells /\ s.at = "locked" /\ s.run = running[t].run /\ s.check = running[t].check /\ s.ok = running[t].ok
    BY <1>0 DEF Shells, LoopPlaces
  <2>2. running' = [running EXCEPT ![t] = s]
    BY <1>1 DEF acquireLock
  <2>3. UNCHANGED <<snapshot, events, truth, workspace, files>> /\ loopLock = Unheld /\ loopLock' = t /\ files = "ready"
    BY <1>1 DEF acquireLock, around, LoopInv, LockSound
  <2> HIDE DEF s
  <2>4. RunSound(s)
    BY <1>0, <1>1, <2>1 DEF RunSound, acquireLock
  <2> QED
    BY <2>1, <2>2, <2>3, <2>4, QuietStepSound
<1>2. CASE commandInit(t)
  <2> DEFINE s == [running[t] EXCEPT !.at = "init"]
  <2>1. s \in Shells /\ s.at = "init" /\ s.run = running[t].run /\ s.check = running[t].check /\ s.ok = running[t].ok
    BY <1>0 DEF Shells, LoopPlaces
  <2>2. running' = [running EXCEPT ![t] = s]
    BY <1>2 DEF commandInit
  <2>3. UNCHANGED <<snapshot, events, truth, workspace>> /\ loopLock = Unheld /\ loopLock' = t /\ files = "none" /\ files' = "history"
    BY <1>2 DEF commandInit, around
  <2> HIDE DEF s
  <2>4. RunSound(s)
    BY <1>0, <1>2, <2>1 DEF RunSound, commandInit
  <2> QED
    BY <2>1, <2>2, <2>3, <2>4, QuietStepSound
<1>3. CASE GivesUp(t) \/ Killed(t)
  <2>1. /\ UNCHANGED <<snapshot, events, truth, workspace, files>> /\ running' = [running EXCEPT ![t] = AtPrompt]
        /\ loopLock' \in {Unheld, Dead, loopLock} /\ \A u \in Terminals : u # t /\ loopLock = u => loopLock' = u
    BY <1>0, <1>3 DEF GivesUp, Killed, Prompt, around
  <2>2. loopLock' \in Terminals \cup {Unheld, Dead} /\ files' \in {"none", "history", "ready"}
    BY <1>0, <2>1 DEF LoopTyped
  <2> QED
    BY <1>0, <2>1, <2>2, QuietStepSound
<1>4. CASE runCheck(t)
  <2>1. /\ UNCHANGED <<snapshot, events, truth, workspace, files, loopLock>> /\ files = "ready"
        /\ running[t].at = "checking"
    BY <1>4 DEF runCheck, around, LoopInv, LockSound
  <2>2. running[t].check \in 1..Len(Passing) /\ running[t].check \in Nat
    BY <1>0 DEF Shells
  <2>3. CASE running' = [running EXCEPT ![t].ok = FALSE, ![t].at = "checked"]
    <3>1. PICK no \in BOOLEAN : no = FALSE
      OBVIOUS
    <3> DEFINE s == [running[t] EXCEPT !.ok = no, !.at = "checked"]
    <3>2. s \in Shells /\ s.at = "checked" /\ s.run = running[t].run /\ s.ok = no
      BY <1>0 DEF Shells, LoopPlaces
    <3>3. running' = [running EXCEPT ![t] = s]
      BY <1>0, <2>3, <3>1 DEF LoopTyped
    <3> HIDE DEF s
    <3>4. RunSound(s)
      BY <1>0, <2>1, <3>1, <3>2 DEF RunSound
    <3> QED
      BY <1>0, <2>1, <3>2, <3>3, <3>4, QuietStepSound DEF LoopTyped
  <2>4. CASE /\ workspace \in Passing[running[t].check] /\ running[t].check < Len(Passing)
             /\ running' = [running EXCEPT ![t].check = @ + 1]
    <3> DEFINE s == [running[t] EXCEPT !.check = @ + 1]
    <3>1. running[t].check + 1 \in DOMAIN Passing
      BY <2>2, <2>4
    <3>2. s \in Shells /\ s.at = "checking" /\ s.run = running[t].run /\ s.check = running[t].check + 1
      BY <1>0, <2>1, <3>1 DEF Shells
    <3>3. running' = [running EXCEPT ![t] = s]
      BY <2>4
    <3> HIDE DEF s
    <3>4. RunSound(s)
      BY <1>0, <2>1, <2>2, <2>4, <3>2 DEF RunSound
    <3> QED
      BY <1>0, <2>1, <3>2, <3>3, <3>4, QuietStepSound DEF LoopTyped
  <2>5. CASE /\ workspace \in Passing[running[t].check] /\ ~(running[t].check < Len(Passing))
             /\ running' = [running EXCEPT ![t].at = "checked"]
    <3> DEFINE s == [running[t] EXCEPT !.at = "checked"]
    <3>2. s \in Shells /\ s.at = "checked" /\ s.run = running[t].run
      BY <1>0 DEF Shells, LoopPlaces
    <3>3. running' = [running EXCEPT ![t] = s]
      BY <2>5
    <3> HIDE DEF s
    <3>4. RunSound(s)
      BY <1>0, <2>1, <2>2, <2>5, <3>2 DEF RunSound, PassesAll
    <3> QED
      BY <1>0, <2>1, <3>2, <3>3, <3>4, QuietStepSound DEF LoopTyped
  <2> QED
    BY <1>4, <2>3, <2>4, <2>5 DEF runCheck
<1> QED
  BY <1>1, <1>2, <1>3, <1>4

(* The history has caught up with the snapshot.                                 *)
LEMMA HistoryStepSound ==
  ASSUME LoopInv, NEW t \in Terminals, NEW s \in Shells, loopLock = t,
         UNCHANGED <<truth, workspace, files>>, files = "ready", running' = [running EXCEPT ![t] = s],
         events' = truth, snapshot' \in Snapshots, snapshot'.seq = snapshot.seq,
         snapshot'.active = snapshot.active, snapshot'.auditRequired = snapshot.auditRequired,
         snapshot'.result = snapshot.result, snapshot'.pending = NoEvent \/ snapshot'.pending = snapshot.pending,
         loopLock' = t \/ (loopLock' = Unheld /\ s.at \in {"prompt", "checking"}),
         s.at \notin {"append", "init"}, RunSound(s)
  PROVE  LoopInv'
<1>1. /\ running' \in [Terminals -> Shells] /\ running'[t] = s
      /\ \A u \in Terminals : u # t => running'[u] = running[u] /\ running[u].at \notin {"locked", "init", "append", "save"}
  BY DEF LoopInv, LoopTyped, LockSound
<1>2. LoopTyped'
  BY <1>1 DEF LoopInv, LoopTyped
<1>3. LockSound'
  BY <1>1 DEF LoopInv, LockSound
<1>4. HistorySound'
  BY <1>1 DEF LoopInv, HistorySound, PendingIsLast, Numbered
<1>5. \A u \in Terminals : RunSound(running[u])'
  BY <1>1 DEF RunSound, LoopInv, ItemsSound
<1>6. ItemsSound'
  BY <1>5 DEF LoopInv, ItemsSound
<1> QED
  BY <1>2, <1>3, <1>4, <1>6 DEF LoopInv

LEMMA SettledSnapshot ==
  ASSUME NEW snap \in Snapshots
  PROVE  LET settled == [snap EXCEPT !.pending = NoEvent] IN
         /\ settled \in Snapshots /\ settled.seq = snap.seq /\ settled.active = snap.active
         /\ settled.auditRequired = snap.auditRequired /\ settled.result = snap.result /\ settled.pending = NoEvent
BY LoopFacts DEF Snapshots

LEMMA HistoryActions ==
  ASSUME LoopInv, NEW t \in Terminals, appendHistory(t) \/ Committed(t) \/ recoverPendingHistory(t)
  PROVE  LoopInv'
<1> USE LoopFacts
<1>0. /\ running[t] \in Shells /\ RunSound(running[t]) /\ LoopTyped /\ HistorySound
      /\ snapshot \in Snapshots /\ truth \in Seq(Transitions)
      /\ (running[t].at \in {"locked", "init", "append", "save"} => loopLock = t)
      /\ (running[t].at \in {"locked", "append", "save"} => files = "ready")
  BY DEF LoopInv, LoopTyped, ItemsSound, LockSound
<1>1. PendingIsLast => Append(Front(truth), snapshot.pending) = truth
  BY <1>0, FrontAndLast DEF PendingIsLast
<1>2. CASE appendHistory(t)
  <2> DEFINE s == [running[t] EXCEPT !.at = "save"]
  <2>1. s \in Shells /\ s.at = "save" /\ s.run = running[t].run /\ s.check = running[t].check
    BY <1>0 DEF Shells, LoopPlaces
  <2>2. running' = [running EXCEPT ![t] = s]
    BY <1>2 DEF appendHistory
  <2>3. /\ UNCHANGED <<snapshot, files, loopLock, truth, workspace>> /\ running[t].at = "append"
        /\ events' = Append(events, snapshot.pending)
    BY <1>2 DEF appendHistory, around
  <2>4. events' = truth
    BY <1>0, <1>1, <2>3 DEF HistorySound
  <2> HIDE DEF s
  <2>5. RunSound(s)
    BY <1>0, <2>1, <2>3 DEF RunSound
  <2> QED
    BY <1>0, <2>1, <2>2, <2>3, <2>4, <2>5, HistoryStepSound
<1>3. CASE Committed(t)
  <2> DEFINE s == [running[t] EXCEPT !.at = IF running[t].run = NoRun THEN "prompt" ELSE "checking"]
  <2>1. s \in Shells /\ s.run = running[t].run /\ s.check = running[t].check
        /\ s.at = IF running[t].run = NoRun THEN "prompt" ELSE "checking"
    BY <1>0 DEF Shells, LoopPlaces
  <2>2. running' = [running EXCEPT ![t] = s]
    BY <1>3 DEF Committed
  <2>3. /\ UNCHANGED <<events, files, truth, workspace>> /\ running[t].at = "save" /\ loopLock' = Unheld
        /\ snapshot' = [snapshot EXCEPT !.pending = NoEvent]
    BY <1>3 DEF Committed, around
  <2>4. events' = truth
    BY <1>0, <2>3 DEF HistorySound
  <2> HIDE DEF s
  <2>5. RunSound(s)
    BY <1>0, <2>1, <2>3 DEF RunSound, Shells
  <2>6. /\ snapshot' \in Snapshots /\ snapshot'.seq = snapshot.seq /\ snapshot'.active = snapshot.active
        /\ snapshot'.auditRequired = snapshot.auditRequired /\ snapshot'.result = snapshot.result
        /\ snapshot'.pending = NoEvent
    BY <1>0, <2>3, SettledSnapshot
  <2> QED
    BY <1>0, <2>1, <2>2, <2>3, <2>4, <2>5, <2>6, HistoryStepSound
<1>4. CASE recoverPendingHistory(t)
  <2>1. /\ UNCHANGED <<files, loopLock, running, truth, workspace>> /\ running[t].at = "locked"
        /\ snapshot.pending # NoEvent /\ running' = [running EXCEPT ![t] = running[t]]
    BY <1>0, <1>4 DEF recoverPendingHistory, around, LoopTyped
  <2>2. PendingIsLast /\ Numbered(truth)
    BY <1>0, <2>1 DEF HistorySound
  <2>3. /\ Len(truth) \in DOMAIN truth /\ snapshot.pending = truth[Len(truth)] /\ snapshot.pending.seq = Len(truth)
    BY <1>0, <2>2 DEF PendingIsLast, Numbered, Last
  <2>4. /\ events' = truth /\ snapshot' \in Snapshots /\ snapshot'.seq = snapshot.seq
        /\ snapshot'.active = snapshot.active
        /\ snapshot'.auditRequired = snapshot.auditRequired /\ snapshot'.result = snapshot.result
        /\ snapshot'.pending = NoEvent \/ snapshot'.pending = snapshot.pending
    <3>1. CASE NotIn(snapshot.pending)
      <4>1. events # truth
        <5>1. truth[Len(truth)] \in Range(truth)
          BY <2>3 DEF Range
        <5> QED
          BY <2>3, <3>1, <5>1 DEF NotIn
      <4>2. events = Front(truth)
        BY <1>0, <4>1 DEF HistorySound
      <4>3. events' = Append(events, snapshot.pending) /\ snapshot' = snapshot
        BY <1>4, <3>1 DEF recoverPendingHistory
      <4> QED
        BY <1>0, <1>1, <2>2, <4>2, <4>3
    <3>2. CASE ~NotIn(snapshot.pending)
      <4>1. PICK n \in DOMAIN events : events[n].seq = Len(truth)
        BY <2>3, <3>2 DEF NotIn, Range
      <4>2. events # Front(truth)
        <5>1. \A m \in DOMAIN Front(truth) : Front(truth)[m].seq = m /\ m < Len(truth)
          <6>1. truth \in Seq(Transitions) /\ Len(truth) > 0
            BY <1>0, <2>2 DEF PendingIsLast
          <6>2. \A m \in DOMAIN Front(truth) : Front(truth)[m] = truth[m] /\ m \in DOMAIN truth /\ m < Len(truth)
            BY <6>1, FrontAndLast
          <6> QED
            BY <2>2, <6>2 DEF Numbered
        <5>2. \A m \in DOMAIN Front(truth) : Front(truth)[m].seq # Len(truth)
          <6>1. Len(truth) \in Nat /\ \A m \in DOMAIN Front(truth) : m \in DOMAIN truth
            BY <1>0, <2>2, FrontAndLast DEF PendingIsLast
          <6>2. DOMAIN truth \subseteq Nat
            BY <1>0
          <6> QED
            BY <5>1, <6>1, <6>2
        <5> QED
          BY <4>1, <5>2
      <4>3. events = truth
        BY <1>0, <4>2 DEF HistorySound
      <4>4. events' = events /\ snapshot' = [snapshot EXCEPT !.pending = NoEvent]
        BY <1>4, <3>2 DEF recoverPendingHistory
      <4> QED
        BY <1>0, <4>3, <4>4, SettledSnapshot
    <3> QED
      BY <3>1, <3>2
  <2> QED
    BY <1>0, <2>1, <2>4, HistoryStepSound
<1> QED
  BY <1>2, <1>3, <1>4

LEMMA LoopBegins ==
  ASSUME LoopInit
  PROVE  LoopInv
<1> USE LoopFacts
<1>1. PICK yes \in BOOLEAN : yes = TRUE
  OBVIOUS
<1>2. initialSnapshot =
        [seq |-> 0, pending |-> NoEvent, active |-> NoItem, auditRequired |-> yes, lastAudit |-> 0,
         result |-> NoResult, run |-> NoRun, items |-> [i \in Items |-> [status |-> "absent", audit |-> 0]]]
  BY <1>1 DEF initialSnapshot
<1>3. [i \in Items |-> [status |-> "absent", audit |-> 0]] \in ItemStates
  BY DEF ItemStates
<1>4. /\ initialSnapshot \in Snapshots /\ initialSnapshot.seq = 0 /\ initialSnapshot.pending = NoEvent
      /\ initialSnapshot.result = NoResult
  BY <1>2, <1>3 DEF Snapshots, ItemOrNone
<1>5. AtPrompt \in Shells /\ AtPrompt.at = "prompt" /\ AtPrompt.run = NoRun
  BY PromptFacts
<1>6. LoopTyped
  BY <1>4, <1>5 DEF LoopInit, LoopTyped
<1>7. LockSound
  BY <1>5 DEF LoopInit, LockSound
<1>8. HistorySound
  BY <1>4, <1>5 DEF LoopInit, HistorySound, Numbered
<1>9. ItemsSound
  <2>1. DOMAIN truth = {}
    BY DEF LoopInit
  <2>2. InTurn(truth, snapshot.active, snapshot.auditRequired) /\ OneByOneIn(truth) /\ TestedIn(truth)
    BY <2>1 DEF InTurn, OneByOneIn, TestedIn
  <2>3. ResultSound(snapshot.result)
    BY <1>4 DEF LoopInit, ResultSound
  <2>4. \A t \in Terminals : RunSound(running[t])
    BY <1>5 DEF LoopInit, RunSound
  <2> QED
    BY <2>2, <2>3, <2>4 DEF ItemsSound
<1> QED
  BY <1>6, <1>7, <1>8, <1>9 DEF LoopInv

LEMMA AroundSound ==
  ASSUME LoopInv, Edit \/ RemoveLock \/ (\E a \in Artifacts : Rewrite(a)) \/ UNCHANGED loop_vars
  PROVE  LoopInv'
<1> USE LoopFacts
<1>1. CASE Edit
  <2>1. UNCHANGED <<snapshot, events, files, loopLock, running, truth>> /\ workspace' = workspace + 1 /\ workspace' \in Nat
    BY <1>1 DEF Edit, LoopInv, LoopTyped
  <2>2. LoopTyped' /\ LockSound' /\ HistorySound'
    BY <2>1 DEF LoopInv, LoopTyped, LockSound, HistorySound, PendingIsLast, Numbered, initialSnapshot
  <2>3. ASSUME NEW u \in Terminals
        PROVE  RunSound(running[u])'
    <3>1. running[u] \in Shells /\ RunSound(running[u]) /\ running'[u] = running[u] /\ workspace \in Nat
      BY <2>1 DEF LoopInv, LoopTyped, ItemsSound
    <3>2. running[u].run.at \in Nat
      BY <3>1 DEF Shells, LoopRuns
    <3> QED
      BY <2>1, <3>1, <3>2 DEF RunSound
  <2> QED
    BY <2>1, <2>2, <2>3 DEF LoopInv, ItemsSound
<1>2. CASE RemoveLock
  <2>1. /\ UNCHANGED <<snapshot, events, running, truth, workspace>> /\ loopLock' = Unheld
        /\ \A t \in Terminals : running[t].at = "prompt"
        /\ files' \in {"none", "history", "ready"} /\ (files' # "ready" => files # "ready")
    BY <1>2 DEF RemoveLock, around, LoopInv, LoopTyped
  <2>2. LoopTyped' /\ LockSound' /\ HistorySound'
    BY <2>1 DEF LoopInv, LoopTyped, LockSound, HistorySound, PendingIsLast, Numbered, initialSnapshot
  <2> QED
    BY <2>1, <2>2 DEF LoopInv, ItemsSound, RunSound
<1>3. CASE (\E a \in Artifacts : Rewrite(a)) \/ UNCHANGED loop_vars
  <2>1. UNCHANGED <<snapshot, events, files, loopLock, running, truth, workspace>>
    BY <1>3 DEF Rewrite, loop_vars
  <2> QED
    BY <2>1 DEF LoopInv, LoopTyped, LockSound, HistorySound, PendingIsLast, Numbered, initialSnapshot, ItemsSound, RunSound
<1> QED
  BY <1>1, <1>2, <1>3

LEMMA InitializedSound ==
  ASSUME LoopInv, NEW t \in Terminals, Initialized(t)
  PROVE  LoopInv'
<1> USE LoopFacts
<1>1. /\ running[t].at = "init" /\ files' = "ready" /\ workspace \in Nat
      /\ commit(t, initialSnapshot, "initialized", NoItem, workspace, NoRun)
  BY DEF Initialized, LoopInv, LoopTyped
<1>2. /\ snapshot = initialSnapshot /\ snapshot \in Snapshots /\ events = truth /\ truth = <<>> /\ HistorySound
      /\ ResultSound(snapshot.result)
  BY <1>1 DEF LoopInv, LoopTyped, LockSound, ItemsSound
<1>3. snapshot.seq = Len(truth)
  BY <1>2 DEF HistorySound
<1>4. Follows("initialized", NoItem, snapshot.active, snapshot.auditRequired, snapshot.active, snapshot.auditRequired)
  BY DEF Follows
<1>5. "initialized" \in Acts /\ NoItem \in ItemOrNone
  BY DEF Acts, ItemOrNone
<1> QED
  BY <1>1, <1>2, <1>3, <1>4, <1>5, CommitSound

(* What every command finds.                                                    *)
LEMMA CommandFinds ==
  ASSUME LoopInv, NEW t \in Terminals, MayChange(t)
  PROVE  /\ running[t].at = "locked" /\ files = "ready" /\ events = truth /\ snapshot.seq = Len(truth)
         /\ snapshot \in Snapshots /\ running[t] \in Shells /\ RunSound(running[t]) /\ ResultSound(snapshot.result)
         /\ workspace \in Nat
<1>1. running[t].at = "locked" /\ snapshot.pending = NoEvent /\ HistorySound
  BY DEF MayChange, LoopInv
<1>2. truth \in Seq(Transitions) /\ snapshot.seq = Len(truth)
  BY <1>1 DEF HistorySound, LoopInv, LoopTyped
<1>3. ~PendingIsLast
  <2> SUFFICES ASSUME PendingIsLast
               PROVE  FALSE
    OBVIOUS
  <2>1. Len(truth) \in DOMAIN truth /\ truth[Len(truth)] = NoEvent
    BY <1>1, <1>2 DEF PendingIsLast, Last
  <2>2. NoEvent.seq = Len(truth)
    BY <1>1, <2>1 DEF HistorySound, Numbered
  <2> QED
    BY <2>2, LoopFacts DEF PendingIsLast
<1> QED
  BY <1>1, <1>2, <1>3 DEF HistorySound, LoopInv, LoopTyped, LockSound, ItemsSound


LEMMA ReauditSound ==
  ASSUME LoopInv, NEW t \in Terminals, NEW a \in Artifacts, commandReaudit(t, a)
  PROVE  LoopInv'
<1> USE LoopFacts
<1> DEFINE snap == [snapshot EXCEPT !.auditRequired = FALSE, !.lastAudit = a]
<1>1. /\ MayChange(t) /\ snapshot.active = NoItem /\ files' = files
      /\ commit(t, snap, "re_audited", NoItem, workspace, NoRun)
  BY DEF commandReaudit, Commands
<1>2. /\ running[t].at = "locked" /\ files = "ready" /\ events = truth /\ snapshot.seq = Len(truth)
      /\ snapshot \in Snapshots /\ ResultSound(snapshot.result) /\ workspace \in Nat
  BY <1>1, CommandFinds
<1>3. a \in Nat
  BY LoopAssumption DEF Artifacts
<1>4. PICK no \in BOOLEAN : no = FALSE
  OBVIOUS
<1>5. snap = [snapshot EXCEPT !.auditRequired = no, !.lastAudit = a]
  BY <1>4
<1>6. snap \in Snapshots /\ snap.seq = snapshot.seq /\ snap.result = snapshot.result
  BY <1>2, <1>3, <1>5 DEF Snapshots
<1> HIDE DEF snap
<1>7. Follows("re_audited", NoItem, snapshot.active, snapshot.auditRequired, snap.active, snap.auditRequired)
  BY <1>1 DEF Follows
<1>8. "re_audited" \in Acts /\ NoItem \in ItemOrNone
  BY DEF Acts, ItemOrNone
<1> QED
  BY <1>1, <1>2, <1>6, <1>7, <1>8, CommitSound

LEMMA ImportSound ==
  ASSUME LoopInv, NEW t \in Terminals, NEW a \in Artifacts, NEW replace \in BOOLEAN, commandImport(t, a, replace)
  PROVE  LoopInv'
<1> USE LoopFacts
<1> DEFINE listed == [i \in Items |-> IF i \in Lists[a] THEN [status |-> "queued", audit |-> a] ELSE snapshot.items[i]]
           snap == [snapshot EXCEPT !.items = listed]
<1>1. /\ MayChange(t) /\ files' = files
      /\ commit(t, snap, "imported", NoItem, workspace, NoRun)
  BY DEF commandImport, Commands
<1>2. /\ running[t].at = "locked" /\ files = "ready" /\ events = truth /\ snapshot.seq = Len(truth)
      /\ snapshot \in Snapshots /\ ResultSound(snapshot.result) /\ workspace \in Nat
  BY <1>1, CommandFinds
<1>3. a \in Nat /\ snapshot.items \in ItemStates
  BY <1>2, LoopAssumption DEF Artifacts, Snapshots
<1>4. listed \in ItemStates
  BY <1>3 DEF ItemStates
<1> HIDE DEF listed
<1>6. /\ snap \in Snapshots /\ snap.seq = snapshot.seq /\ snap.result = snapshot.result
      /\ snap.active = snapshot.active /\ snap.auditRequired = snapshot.auditRequired
  BY <1>2, <1>4 DEF Snapshots
<1> HIDE DEF snap
<1>7. Follows("imported", NoItem, snapshot.active, snapshot.auditRequired, snap.active, snap.auditRequired)
  BY <1>6 DEF Follows
<1>8. "imported" \in Acts /\ NoItem \in ItemOrNone
  BY DEF Acts, ItemOrNone
<1> QED
  BY <1>1, <1>2, <1>6, <1>7, <1>8, CommitSound

(* The status of one item changes.                                              *)
LEMMA ItemChanges ==
  ASSUME NEW items \in ItemStates, NEW i \in Items, NEW status \in {"in_progress", "completed", "blocked"}
  PROVE  [items EXCEPT ![i].status = status] \in ItemStates
BY DEF ItemStates

LEMMA BeginSound ==
  ASSUME LoopInv, NEW t \in Terminals, NEW i \in Items, commandBegin(t, i)
  PROVE  LoopInv'
<1> USE LoopFacts
<1> DEFINE begun == [snapshot.items EXCEPT ![i].status = "in_progress"]
           snap == [snapshot EXCEPT !.items[i].status = "in_progress", !.active = i, !.result = NoResult, !.run = NoRun]
<1>1. /\ MayChange(t) /\ files' = files /\ ~snapshot.auditRequired /\ snapshot.active = NoItem
      /\ commit(t, snap, "begun", i, workspace, NoRun)
  BY DEF commandBegin, Commands
<1>2. /\ running[t].at = "locked" /\ files = "ready" /\ events = truth /\ snapshot.seq = Len(truth)
      /\ snapshot \in Snapshots /\ workspace \in Nat
  BY <1>1, CommandFinds
<1>3. snapshot.items \in ItemStates /\ snapshot.auditRequired \in BOOLEAN
  BY <1>2 DEF Snapshots
<1>4. begun \in ItemStates
  BY <1>3, ItemChanges
<1>5. snap = [snapshot EXCEPT !.items = begun, !.active = i, !.result = NoResult, !.run = NoRun]
  BY <1>2 DEF Snapshots
<1> HIDE DEF begun
<1>6. /\ snap \in Snapshots /\ snap.seq = snapshot.seq /\ snap.result = NoResult /\ snap.active = i
  BY <1>2, <1>4, <1>5 DEF Snapshots, ItemOrNone
<1> HIDE DEF snap
<1>7. snapshot.auditRequired = FALSE
  BY <1>1, <1>3
<1>8. Follows("begun", i, snapshot.active, snapshot.auditRequired, snap.active, snap.auditRequired)
  BY <1>1, <1>6, <1>7 DEF Follows
<1>9. "begun" \in Acts /\ i \in ItemOrNone /\ ResultSound(snap.result)
  BY <1>6 DEF Acts, ItemOrNone, ResultSound
<1> QED
  BY <1>1, <1>2, <1>6, <1>8, <1>9, CommitSound

LEMMA ValidateSound ==
  ASSUME LoopInv, NEW t \in Terminals, commandValidate(t)
  PROVE  LoopInv'
<1> USE LoopFacts
<1> DEFINE run == [id |-> snapshot.seq + 1, item |-> snapshot.active, at |-> workspace]
           snap == [snapshot EXCEPT !.result = NoResult, !.run = run]
<1>1. /\ MayChange(t) /\ files' = files
      /\ commit(t, snap, "validation_started", snapshot.active, workspace, run)
  BY DEF commandValidate, Commands
<1>2. /\ running[t].at = "locked" /\ files = "ready" /\ events = truth /\ snapshot.seq = Len(truth)
      /\ snapshot \in Snapshots /\ workspace \in Nat
  BY <1>1, CommandFinds
<1>3. run \in LoopRuns /\ run.at <= workspace /\ snapshot.active \in ItemOrNone
  BY <1>2 DEF LoopRuns, Snapshots
<1> HIDE DEF run
<1>6. /\ snap \in Snapshots /\ snap.seq = snapshot.seq /\ snap.result = NoResult
      /\ snap.active = snapshot.active /\ snap.auditRequired = snapshot.auditRequired
  BY <1>2, <1>3 DEF Snapshots
<1> HIDE DEF snap
<1>7. Follows("validation_started", snapshot.active, snapshot.active, snapshot.auditRequired,
              snap.active, snap.auditRequired)
  BY <1>6 DEF Follows
<1>8. "validation_started" \in Acts /\ ResultSound(snap.result)
  BY <1>6 DEF Acts, ResultSound
<1> QED
  BY <1>1, <1>2, <1>3, <1>6, <1>7, <1>8, CommitSound

LEMMA ValidatedSound ==
  ASSUME LoopInv, NEW t \in Terminals, Validated(t)
  PROVE  LoopInv'
<1> USE LoopFacts
<1>1. PICK run \in LoopRuns : run = running[t].run /\ run # NoRun
  BY CommandFinds DEF Validated, Shells
<1>2. /\ running[t].at = "locked" /\ files = "ready" /\ events = truth /\ snapshot.seq = Len(truth)
      /\ snapshot \in Snapshots /\ workspace \in Nat /\ running[t] \in Shells /\ RunSound(running[t])
      /\ ResultSound(snapshot.result) /\ files' = files
  BY CommandFinds DEF Validated
<1>3. run.item \in ItemOrNone /\ run.at \in Nat
  BY <1>1 DEF LoopRuns
<1>4. CASE stillCurrent(run)
  <2>1. PICK ok \in BOOLEAN : ok = (running[t].ok /\ workspace = run.at)
    OBVIOUS
  <2> DEFINE result == [item |-> run.item, at |-> run.at, until |-> workspace, ok |-> ok]
             snap == [snapshot EXCEPT !.run = NoRun, !.result = result]
  <2>2. commit(t, snap, "validated", run.item, workspace, NoRun)
    BY <1>1, <1>4, <2>1, Zenon DEF Validated
  <2>3. result \in Results /\ result.ok = ok /\ result.at = run.at
    BY <1>2, <1>3 DEF Results
  <2>4. ResultSound(result)
    <3>1. ASSUME ok = TRUE
          PROVE  PassesAll(run.at)
      BY <1>1, <1>2, <2>1, <3>1 DEF RunSound, Shells
    <3> QED
      BY <2>3, <3>1 DEF ResultSound
  <2> HIDE DEF result
  <2>5. /\ snap \in Snapshots /\ snap.seq = snapshot.seq /\ snap.result = result
        /\ snap.active = snapshot.active /\ snap.auditRequired = snapshot.auditRequired
    BY <1>2, <2>3 DEF Snapshots
  <2> HIDE DEF snap
  <2>6. Follows("validated", run.item, snapshot.active, snapshot.auditRequired, snap.active, snap.auditRequired)
    BY <2>5 DEF Follows
  <2>7. "validated" \in Acts
    BY DEF Acts
  <2> QED
    BY <1>2, <1>3, <2>2, <2>4, <2>5, <2>6, <2>7, CommitSound
<1>5. CASE ~stillCurrent(run)
  <2>1. commit(t, snapshot, "validation_discarded", run.item, workspace, NoRun)
    BY <1>1, <1>5, Zenon DEF Validated
  <2>2. Follows("validation_discarded", run.item, snapshot.active, snapshot.auditRequired,
                snapshot.active, snapshot.auditRequired)
    BY DEF Follows
  <2>3. "validation_discarded" \in Acts
    BY DEF Acts
  <2> QED
    BY <1>2, <1>3, <2>1, <2>2, <2>3, CommitSound
<1> QED
  BY <1>4, <1>5

LEMMA CompleteSound ==
  ASSUME LoopInv, NEW t \in Terminals, commandComplete(t)
  PROVE  LoopInv'
<1> USE LoopFacts
<1>0. PICK i : i = snapshot.active
  OBVIOUS
<1> DEFINE done == [snapshot.items EXCEPT ![i].status = "completed"]
           snap == [snapshot EXCEPT !.items[i].status = "completed", !.active = NoItem, !.auditRequired = TRUE]
<1>1. /\ MayChange(t) /\ files' = files /\ i # NoItem /\ FreshlyPassed(i)
      /\ commit(t, snap, "completed", i, workspace, NoRun)
  BY <1>0 DEF commandComplete, Commands
<1>2. /\ running[t].at = "locked" /\ files = "ready" /\ events = truth /\ snapshot.seq = Len(truth)
      /\ snapshot \in Snapshots /\ workspace \in Nat /\ ResultSound(snapshot.result)
  BY <1>1, CommandFinds
<1>3. snapshot.items \in ItemStates /\ snapshot.result \in Results /\ i \in Items
  BY <1>0, <1>1, <1>2 DEF Snapshots, ItemOrNone
<1>4. done \in ItemStates
  BY <1>3, ItemChanges
<1>5. PICK yes \in BOOLEAN : yes = TRUE
  OBVIOUS
<1>6. snap = [snapshot EXCEPT !.items = done, !.active = NoItem, !.auditRequired = yes]
  BY <1>2, <1>5 DEF Snapshots
<1> HIDE DEF done
<1>7. /\ snap \in Snapshots /\ snap.seq = snapshot.seq /\ snap.result = snapshot.result
      /\ snap.auditRequired = yes
  BY <1>2, <1>4, <1>6 DEF Snapshots, ItemOrNone
<1> HIDE DEF snap
<1>8. Follows("completed", i, snapshot.active, snapshot.auditRequired, snap.active, snap.auditRequired)
  BY <1>0, <1>5, <1>7 DEF Follows
<1>9. "completed" \in Acts /\ i \in ItemOrNone
  BY <1>3 DEF Acts, ItemOrNone
<1>10. PassesAll(workspace)
  BY <1>1, <1>2, <1>3 DEF FreshlyPassed, Passed, ResultSound, Results
<1> QED
  BY <1>1, <1>2, <1>7, <1>8, <1>9, <1>10, CommitSound

LEMMA BlockSound ==
  ASSUME LoopInv, NEW t \in Terminals, commandBlock(t)
  PROVE  LoopInv'
<1> USE LoopFacts
<1>0. PICK i : i = snapshot.active
  OBVIOUS
<1> DEFINE done == [snapshot.items EXCEPT ![i].status = "blocked"]
           snap == [snapshot EXCEPT !.items[i].status = "blocked", !.active = NoItem, !.auditRequired = TRUE,
                                    !.run = NoRun, !.result = NoResult]
<1>1. /\ MayChange(t) /\ files' = files /\ i # NoItem
      /\ commit(t, snap, "blocked", i, workspace, NoRun)
  BY <1>0 DEF commandBlock, Commands
<1>2. /\ running[t].at = "locked" /\ files = "ready" /\ events = truth /\ snapshot.seq = Len(truth)
      /\ snapshot \in Snapshots /\ workspace \in Nat
  BY <1>1, CommandFinds
<1>3. snapshot.items \in ItemStates /\ i \in Items
  BY <1>0, <1>1, <1>2 DEF Snapshots, ItemOrNone
<1>4. done \in ItemStates
  BY <1>3, ItemChanges
<1>5. PICK yes \in BOOLEAN : yes = TRUE
  OBVIOUS
<1>6. snap = [snapshot EXCEPT !.items = done, !.active = NoItem, !.auditRequired = yes,
                              !.run = NoRun, !.result = NoResult]
  BY <1>2, <1>5 DEF Snapshots
<1> HIDE DEF done
<1>7. /\ snap \in Snapshots /\ snap.seq = snapshot.seq /\ snap.result = NoResult
      /\ snap.auditRequired = yes
  BY <1>2, <1>4, <1>6 DEF Snapshots, ItemOrNone
<1> HIDE DEF snap
<1>8. Follows("blocked", i, snapshot.active, snapshot.auditRequired, snap.active, snap.auditRequired)
  BY <1>0, <1>5, <1>7 DEF Follows
<1>9. "blocked" \in Acts /\ i \in ItemOrNone /\ ResultSound(snap.result)
  BY <1>3, <1>7 DEF Acts, ItemOrNone, ResultSound
<1> QED
  BY <1>1, <1>2, <1>7, <1>8, <1>9, CommitSound

LEMMA LoopSteps ==
  ASSUME LoopInv, LoopNext \/ UNCHANGED loop_vars
  PROVE  LoopInv'
<1>1. ASSUME NEW t \in Terminals,
             acquireLock(t) \/ commandInit(t) \/ GivesUp(t) \/ Killed(t) \/ runCheck(t)
      PROVE  LoopInv'
  BY <1>1, QuietActions
<1>2. ASSUME NEW t \in Terminals,
             \/ Initialized(t) \/ appendHistory(t) \/ Committed(t) \/ recoverPendingHistory(t)
             \/ (\E a \in Artifacts : commandReaudit(t, a) \/ \E replace \in BOOLEAN : commandImport(t, a, replace))
             \/ (\E i \in Items : commandBegin(t, i))
             \/ commandValidate(t) \/ Validated(t) \/ commandComplete(t) \/ commandBlock(t)
      PROVE  LoopInv'
  BY <1>2, InitializedSound, HistoryActions, ReauditSound, ImportSound, BeginSound, ValidateSound,
     ValidatedSound, CompleteSound, BlockSound
<1>3. ASSUME Edit \/ RemoveLock \/ (\E a \in Artifacts : Rewrite(a)) \/ UNCHANGED loop_vars
      PROVE  LoopInv'
  BY <1>3, AroundSound
<1> QED
  BY <1>1, <1>2, <1>3 DEF LoopNext

(* The history of the improvement loop is what its snapshot went through, an    *)
(* item is completed only with the content all checks passed on, and between    *)
(* two items there is the end of the first and an audit: for any number of      *)
(* terminals, items, checks, edits and kills.                                   *)
THEOREM LoopIsExact == LoopSpec => []LoopHolds
<1>1. LoopInv => LoopHolds
  <2> SUFFICES ASSUME LoopInv
               PROVE  LoopHolds
    OBVIOUS
  <2>1. HistoryExact
    BY DEF LoopInv, HistorySound, PendingIsLast, HistoryExact
  <2>2. CompletedWasTested
    BY DEF LoopInv, ItemsSound, TestedIn, PassesAll, CompletedWasTested, Range
  <2>3. OneByOne
    BY DEF LoopInv, ItemsSound, OneByOneIn, OneByOne
  <2> QED
    BY <2>1, <2>2, <2>3 DEF LoopHolds
<1>2. LoopInit => LoopInv
  BY LoopBegins
<1>3. LoopInv /\ [LoopNext]_loop_vars => LoopInv'
  BY LoopSteps
<1> QED
  BY <1>1, <1>2, <1>3, PTL DEF LoopSpec

------------------------------------------------------------------------------
(* The log of the vault                                                         *)

Outcomes == {"answered", "failed"}
VaultClients == 1..MaxClients
LogRow == [shape : {"whole", "torn", "spoiled"}, prev : Nat, hash : Nat, by : VaultClients,
        call : PassCalls, outcome : Outcomes]
Books == [log : Seq(LogRow), known : [VaultClients -> Nat \cup {Unread}], hashes : Nat]
CallSteps == {"idle", "running", "answered", "failed", "lost"}

WholeIn(b) == {i \in 1..Len(b.log) : b.log[i].shape = "whole"}
RowsIn(b, c) == {i \in WholeIn(b) : b.log[i].call = c}
LinkedIn(b) ==
  \A i \in WholeIn(b) : i + 1 \in WholeIn(b) =>
    b.log[i + 1].prev = b.log[i].hash \/ b.log[i + 1].by # b.log[i].by

(* The client that wrote the last readable row knows that row.                  *)
EndIsKnown(b) ==
  b.log # <<>> /\ b.log[Len(b.log)].shape = "whole" =>
    b.known[b.log[Len(b.log)].by] = b.log[Len(b.log)].hash

BooksSound(b) == b \in Books /\ LinkedIn(b) /\ EndIsKnown(b)

(* What the log says of a call.                                                 *)
Told(c) ==
  /\ requested[c].at \in {"idle", "running"} => RowsOf(c) = {}
  /\ c \notin unlogged /\ requested[c].at \in {"answered", "failed"} =>
       /\ RowsOf(c) # {}
       /\ \A i \in RowsOf(c) : (\A j \in RowsOf(c) : j <= i) => books.log[i].outcome = requested[c].at

VaultSound ==
  /\ BooksSound(books)
  /\ client \in 0..clients /\ clients \in VaultClients /\ mishaps \in Nat
  /\ requested \in [PassCalls -> [at : CallSteps, by : 0..MaxClients, reveals : BOOLEAN]]
  /\ \A c \in PassCalls : requested[c].at = "running" => requested[c].by \in VaultClients
  /\ \A c \in PassCalls : Told(c)

(* What a client finds at the end of the log is a hash, and that of the last    *)
(* row if the row is readable and its own.                                      *)
LEMMA PrevIsEnd ==
  ASSUME NEW b, BooksSound(b), NEW n \in VaultClients
  PROVE  /\ loadPrevHash(b, n) \in Nat
         /\ b.log # <<>> /\ b.log[Len(b.log)].shape = "whole" /\ b.log[Len(b.log)].by = n =>
              loadPrevHash(b, n) = b.log[Len(b.log)].hash
<1>1. b.log \in Seq(LogRow) /\ b.known \in [VaultClients -> Nat \cup {Unread}]
  BY DEF BooksSound, Books
<1>2. b.log # <<>> => b.log[Len(b.log)] \in LogRow
  BY <1>1
<1> QED
  BY <1>1, <1>2 DEF loadPrevHash, BooksSound, EndIsKnown, Genesis, LogRow

(* What an entry does to the log: a row of its own behind the others, or a line *)
(* that nobody can read; the readable rows before it stay.                      *)
LEMMA EntryKeeps ==
  ASSUME NEW b, BooksSound(b), NEW n \in VaultClients, NEW c \in PassCalls, NEW outcome \in Outcomes
  PROVE  LET d == audit(b, n, c, outcome) IN
         /\ BooksSound(d)
         /\ Torn(b.log) => WholeIn(d) = WholeIn(b) /\ ~Torn(d.log)
         /\ ~Torn(b.log) => WholeIn(d) = WholeIn(b) \cup {Len(b.log) + 1} /\ ~Torn(d.log)
                            /\ d.log[Len(b.log) + 1].call = c /\ d.log[Len(b.log) + 1].outcome = outcome
         /\ \A i \in WholeIn(b) : d.log[i] = b.log[i]
<1> DEFINE d == audit(b, n, c, outcome)
           e == Entry(b, n, c, outcome)
           L == Len(b.log)
<1>1. /\ b.log \in Seq(LogRow) /\ b.known \in [VaultClients -> Nat \cup {Unread}] /\ b.hashes \in Nat
      /\ L \in Nat
  BY DEF BooksSound, Books
<1>2. loadPrevHash(b, n) \in Nat
  BY PrevIsEnd
<1>3. /\ e \in LogRow /\ e.shape = "whole" /\ e.call = c /\ e.outcome = outcome /\ e.by = n
      /\ e.hash = b.hashes + 1 /\ e.prev = loadPrevHash(b, n)
  BY <1>1, <1>2 DEF Entry, LogRow
<1>4. /\ d.log = Lines(b.log, e) /\ d.known = [b.known EXCEPT ![n] = b.hashes + 1]
      /\ d.hashes = b.hashes + 1 /\ d = [log |-> d.log, known |-> d.known, hashes |-> d.hashes]
  BY DEF audit
<1> HIDE DEF d, e
<1>5. d.known \in [VaultClients -> Nat \cup {Unread}] /\ d.hashes \in Nat
  BY <1>1, <1>4
<1>6. CASE Torn(b.log)
  <2>1. L \in 1..L /\ b.log[L] \in LogRow /\ b.log[L].shape = "torn"
    BY <1>1, <1>6 DEF Torn
  <2>2. d.log = [b.log EXCEPT ![L] = [b.log[L] EXCEPT !.shape = "spoiled"]]
    BY <1>4, <1>6 DEF Lines
  <2>3. [b.log[L] EXCEPT !.shape = "spoiled"] \in LogRow
    BY <2>1 DEF LogRow
  <2>4. d.log \in Seq(LogRow) /\ Len(d.log) = L
    BY <1>1, <2>1, <2>2, <2>3
  <2>5. /\ \A i \in 1..L : i # L => d.log[i] = b.log[i]
        /\ d.log[L].shape = "spoiled"
    BY <1>1, <2>1, <2>2, <2>3 DEF LogRow
  <2>6. WholeIn(d) = WholeIn(b) /\ \A i \in WholeIn(b) : i # L /\ i \in 1..L
    BY <2>1, <2>4, <2>5 DEF WholeIn
  <2>7. LinkedIn(d)
    BY <2>5, <2>6 DEF LinkedIn, BooksSound
  <2>8. EndIsKnown(d)
    BY <2>4, <2>5 DEF EndIsKnown
  <2>9. d \in Books
    BY <1>4, <1>5, <2>4 DEF Books
  <2> QED
    BY <1>6, <2>4, <2>5, <2>6, <2>7, <2>8, <2>9 DEF BooksSound, Torn, d
<1>7. CASE ~Torn(b.log)
  <2>1. d.log = Append(b.log, e)
    BY <1>4, <1>7 DEF Lines
  <2>2. /\ d.log \in Seq(LogRow) /\ Len(d.log) = L + 1 /\ d.log[L + 1] = e
        /\ \A i \in 1..L : d.log[i] = b.log[i]
    BY <1>1, <1>3, <2>1
  <2>3. WholeIn(d) = WholeIn(b) \cup {L + 1} /\ \A i \in WholeIn(b) : i \in 1..L
    BY <1>1, <1>3, <2>2 DEF WholeIn
  <2>4. LinkedIn(d)
    <3> SUFFICES ASSUME NEW i \in WholeIn(d), i + 1 \in WholeIn(d), d.log[i + 1].by = d.log[i].by
                 PROVE  d.log[i + 1].prev = d.log[i].hash
      BY DEF LinkedIn
    <3>1. i \in 1..L /\ i \in WholeIn(b)
      BY <1>1, <2>3
    <3>2. CASE i + 1 \in 1..L
      <4>1. i + 1 \in WholeIn(b)
        BY <1>1, <2>3, <3>2
      <4>2. b.log[i + 1].prev = b.log[i].hash \/ b.log[i + 1].by # b.log[i].by
        BY <3>1, <4>1 DEF LinkedIn, BooksSound
      <4> QED
        BY <2>2, <3>1, <3>2, <4>2
    <3>3. CASE i = L
      <4>1. b.log # <<>> /\ b.log[L].shape = "whole" /\ b.log[L].by = n
        BY <1>1, <1>3, <2>2, <3>1, <3>3 DEF WholeIn
      <4>2. loadPrevHash(b, n) = b.log[L].hash
        BY <4>1, PrevIsEnd
      <4> QED
        BY <1>3, <2>2, <3>1, <3>3, <4>2
    <3> QED
      BY <1>1, <3>1, <3>2, <3>3
  <2>5. EndIsKnown(d)
    BY <1>1, <1>3, <1>4, <2>2 DEF EndIsKnown
  <2>6. d \in Books
    BY <1>4, <1>5, <2>2 DEF Books
  <2> QED
    BY <1>1, <1>3, <1>7, <2>2, <2>3, <2>4, <2>5, <2>6 DEF BooksSound, Torn, d
<1> QED
  BY <1>6, <1>7

(* An entry that cannot be appended leaves the log as it is.                    *)
LEMMA FailedEntryKeeps ==
  ASSUME NEW b, BooksSound(b), NEW n \in VaultClients
  PROVE  BooksSound(auditFails(b, n)) /\ auditFails(b, n).log = b.log
<1> DEFINE d == auditFails(b, n)
<1>1. b \in Books
  BY DEF BooksSound
<1>2. /\ d = [b EXCEPT !.known[n] = loadPrevHash(b, n)] /\ d.log = b.log /\ d.hashes = b.hashes
      /\ d.known = [b.known EXCEPT ![n] = loadPrevHash(b, n)]
  BY <1>1 DEF auditFails, Books
<1>3. PICK p \in Nat : p = loadPrevHash(b, n)
  BY PrevIsEnd
<1>4. d = [b EXCEPT !.known[n] = p]
  BY <1>2, <1>3
<1>5. d \in Books
  BY <1>1, <1>4 DEF Books
<1> HIDE DEF d
<1>6. LinkedIn(d)
  BY <1>2 DEF BooksSound, LinkedIn, WholeIn
<1>7. EndIsKnown(d)
  <2> SUFFICES ASSUME b.log # <<>>, b.log[Len(b.log)].shape = "whole"
               PROVE  d.known[b.log[Len(b.log)].by] = b.log[Len(b.log)].hash
    BY <1>2 DEF EndIsKnown
  <2>1. b.log[Len(b.log)].by \in VaultClients
    <3>1. b.log \in Seq(LogRow)
      BY <1>1 DEF Books
    <3>2. b.log[Len(b.log)] \in LogRow
      BY <3>1
    <3> QED
      BY <3>2 DEF LogRow
  <2> QED
    BY <1>1, <1>2, <2>1, PrevIsEnd DEF Books, BooksSound, EndIsKnown
<1> QED
  BY <1>2, <1>5, <1>6, <1>7 DEF BooksSound, d

(* Half a row at the end leaves the readable rows as they are.                  *)
LEMMA TornRowKeeps ==
  ASSUME NEW b, BooksSound(b), ~Torn(b.log), NEW e, e \in LogRow, e.shape = "torn"
  PROVE  LET d == [b EXCEPT !.log = Append(@, e)] IN
         BooksSound(d) /\ WholeIn(d) = WholeIn(b) /\ \A i \in WholeIn(b) : d.log[i] = b.log[i]
<1> DEFINE d == [b EXCEPT !.log = Append(@, e)]
<1>1. b \in Books
  BY DEF BooksSound
<1>2. b.log \in Seq(LogRow) /\ Len(b.log) \in Nat
  BY <1>1 DEF Books
<1>30. Append(b.log, e) \in Seq(LogRow)
  BY <1>2
<1>3. PICK l \in Seq(LogRow) : l = Append(b.log, e)
  BY <1>30
<1>31. d = [b EXCEPT !.log = l]
  BY <1>1, <1>3
<1>32. d \in Books /\ d.log = Append(b.log, e) /\ d.known = b.known
  BY <1>1, <1>3, <1>31 DEF Books
<1> HIDE DEF d
<1>4. /\ Len(d.log) = Len(b.log) + 1 /\ d.log[Len(b.log) + 1] = e
      /\ \A i \in 1..Len(b.log) : d.log[i] = b.log[i]
  BY <1>2, <1>32
<1>5. WholeIn(d) = WholeIn(b) /\ \A i \in WholeIn(b) : i \in 1..Len(b.log)
  BY <1>2, <1>4 DEF WholeIn
<1>6. LinkedIn(d)
  BY <1>4, <1>5 DEF LinkedIn, BooksSound
<1>7. EndIsKnown(d)
  BY <1>2, <1>4 DEF EndIsKnown
<1> QED
  BY <1>32, <1>4, <1>5, <1>6, <1>7 DEF BooksSound, d

LEMMA RowsAreRows == Whole = WholeIn(books) /\ \A c \in PassCalls : RowsOf(c) = RowsIn(books, c)
BY DEF Whole, WholeIn, RowsOf, RowsIn

LEMMA VaultBegins ==
  ASSUME PAInit
  PROVE  VaultSound
<1> USE PassAssumption
<1>1. books.log = <<>> /\ Len(books.log) = 0 /\ books \in Books
  BY DEF PAInit, Books, VaultClients, Unread
<1>2. WholeIn(books) = {}
  BY <1>1 DEF WholeIn
<1>3. BooksSound(books)
  BY <1>1, <1>2 DEF BooksSound, LinkedIn, EndIsKnown
<1>4. \A c \in PassCalls : RowsOf(c) = {} /\ requested[c].at = "idle"
  BY <1>2, RowsAreRows DEF RowsIn, PAInit, Unasked
<1> QED
  BY <1>3, <1>4 DEF PAInit, VaultSound, Unasked, VaultClients, CallSteps, NoClient, Told

(* A step that leaves the readable rows as they are, and finishes no call.      *)
LEMMA NothingEntered ==
  ASSUME VaultSound, BooksSound(books'), WholeIn(books') = WholeIn(books),
         \A i \in WholeIn(books) : books'.log[i] = books.log[i],
         unlogged \subseteq unlogged',
         NEW c \in PassCalls, requested'[c] = requested[c] \/ requested'[c].at \in {"running", "lost"},
         requested'[c].at = "running" => requested[c].at \in {"idle", "running"}
  PROVE  Told(c)'
<1>1. RowsOf(c)' = RowsOf(c) /\ \A i \in RowsOf(c) : books'.log[i] = books.log[i]
  BY DEF RowsOf, Whole, WholeIn
<1> QED
  BY <1>1 DEF VaultSound, Told

(* An entry of another call.                                                    *)
LEMMA OthersEntered ==
  ASSUME VaultSound, NEW c \in PassCalls, requested'[c] = requested[c], unlogged \subseteq unlogged',
         \A i \in WholeIn(books) : i \in WholeIn(books') /\ books'.log[i] = books.log[i],
         \A i \in WholeIn(books') : i \in WholeIn(books) \/ books'.log[i].call # c
  PROVE  Told(c)'
<1>1. RowsOf(c)' = RowsOf(c) /\ \A i \in RowsOf(c) : books'.log[i] = books.log[i]
  BY DEF RowsOf, Whole, WholeIn
<1> QED
  BY <1>1 DEF VaultSound, Told

LEMMA CallEndsSound ==
  ASSUME VaultSound, NEW c \in PassCalls, NEW outcome \in Outcomes, NEW written \in BOOLEAN, CallEnds(c, outcome, written)
  PROVE  VaultSound'
<1> USE PassAssumption
<1> DEFINE n == requested[c].by
<1>1. /\ n \in VaultClients /\ BooksSound(books) /\ requested[c].at = "running" /\ RowsOf(c) = {}
      /\ unlogged \subseteq unlogged' /\ books' = (IF written THEN audit(books, n, c, outcome) ELSE auditFails(books, n))
      /\ requested' = [requested EXCEPT ![c].at = outcome]
      /\ client' = client /\ clients' = clients
  BY DEF CallEnds, VaultSound, Told
<1>2. /\ requested' \in [PassCalls -> [at : CallSteps, by : 0..MaxClients, reveals : BOOLEAN]]
      /\ \A d \in PassCalls \ {c} : requested'[d] = requested[d]
      /\ requested'[c].at = outcome
  BY <1>1 DEF VaultSound, CallSteps, Outcomes
<1>3. mishaps' \in Nat
  BY DEF CallEnds, Mishap, VaultSound
<1>4. CASE ~written
  <2>1. BooksSound(books') /\ books'.log = books.log
    BY <1>1, <1>4, FailedEntryKeeps
  <2>2. WholeIn(books') = WholeIn(books) /\ \A i \in WholeIn(books) : books'.log[i] = books.log[i]
    BY <2>1 DEF WholeIn
  <2>3. c \in unlogged'
    BY <1>4 DEF CallEnds
  <2>4. \A d \in PassCalls : d # c => Told(d)'
    BY <1>1, <1>2, <2>1, <2>2, NothingEntered
  <2>5. Told(c)'
    BY <1>2, <2>3 DEF Told, Outcomes
  <2> QED
    BY <1>1, <1>2, <1>3, <2>1, <2>4, <2>5 DEF VaultSound
<1>5. CASE written
  <2> DEFINE L == Len(books.log)
  <2>0. L \in Nat /\ books' = audit(books, n, c, outcome)
    BY <1>1, <1>5 DEF BooksSound, Books
  <2>1. /\ BooksSound(books')
        /\ Torn(books.log) => WholeIn(books') = WholeIn(books)
        /\ ~Torn(books.log) => WholeIn(books') = WholeIn(books) \cup {L + 1}
                               /\ books'.log[L + 1].call = c /\ books'.log[L + 1].outcome = outcome
        /\ \A i \in WholeIn(books) : books'.log[i] = books.log[i]
    BY <1>1, <2>0, EntryKeeps
  <2>2. CASE Torn(books.log)
    <3>1. c \in unlogged'
      BY <2>2 DEF CallEnds
    <3>2. \A d \in PassCalls : d # c => Told(d)'
      BY <1>1, <1>2, <2>1, <2>2, NothingEntered
    <3>3. Told(c)'
      BY <1>2, <3>1 DEF Told, Outcomes
    <3> QED
      BY <1>1, <1>2, <1>3, <2>1, <3>2, <3>3 DEF VaultSound
  <2>3. CASE ~Torn(books.log)
    <3>1. \A i \in WholeIn(books') : i \in WholeIn(books) \/ books'.log[i].call = c
      BY <2>1, <2>3
    <3>2. RowsOf(c)' = {L + 1} /\ books'.log[L + 1].outcome = outcome
      <4>1. RowsIn(books, c) = {} /\ Whole' = WholeIn(books') /\ RowsOf(c)' = RowsIn(books', c)
        BY <1>1, RowsAreRows DEF Whole, WholeIn, RowsOf, RowsIn
      <4>2. \A i \in WholeIn(books) : books'.log[i].call # c
        BY <2>1, <4>1 DEF RowsIn
      <4> QED
        BY <2>1, <2>3, <4>1, <4>2 DEF RowsIn
    <3>3. \A d \in PassCalls \ {c} : Told(d)'
      BY <1>1, <1>2, <2>1, <2>3, <3>1, OthersEntered
    <3>4. \A i \in RowsOf(c)' : books'.log[i].outcome = requested'[c].at
      BY <1>2, <3>2
    <3>5. Told(c)'
      BY <1>2, <3>2, <3>4 DEF Told, Outcomes
    <3> QED
      BY <1>1, <1>2, <1>3, <2>1, <3>3, <3>5 DEF VaultSound
  <2> QED
    BY <2>2, <2>3
<1> QED
  BY <1>4, <1>5

LEMMA UnreadableSound ==
  ASSUME VaultSound, NEW c \in PassCalls, Unreadable(c)
  PROVE  VaultSound'
<1> USE PassAssumption
<1> DEFINE n == requested[c].by
           b == audit(books, n, c, "answered")
           L == Len(books.log)
           M == Len(b.log)
<1>1. /\ n \in VaultClients /\ BooksSound(books) /\ requested[c].at = "running" /\ RowsOf(c) = {}
      /\ unlogged \subseteq unlogged' /\ books' = audit(b, n, c, "failed")
      /\ requested' = [requested EXCEPT ![c].at = "failed"]
      /\ client' = client /\ clients' = clients /\ mishaps' = mishaps
  BY DEF Unreadable, VaultSound, Told
<1>2. /\ requested' \in [PassCalls -> [at : CallSteps, by : 0..MaxClients, reveals : BOOLEAN]]
      /\ \A d \in PassCalls \ {c} : requested'[d] = requested[d]
      /\ requested'[c].at = "failed"
  BY <1>1 DEF VaultSound, CallSteps
<1>3. /\ BooksSound(b) /\ ~Torn(b.log)
      /\ Torn(books.log) => WholeIn(b) = WholeIn(books)
      /\ ~Torn(books.log) => WholeIn(b) = WholeIn(books) \cup {L + 1} /\ b.log[L + 1].call = c
      /\ \A i \in WholeIn(books) : b.log[i] = books.log[i]
  BY <1>1, EntryKeeps DEF Outcomes
<1> HIDE DEF b
<1>4. /\ BooksSound(books')
      /\ WholeIn(books') = WholeIn(b) \cup {M + 1}
      /\ books'.log[M + 1].call = c /\ books'.log[M + 1].outcome = "failed"
      /\ \A i \in WholeIn(b) : books'.log[i] = b.log[i]
  BY <1>1, <1>3, EntryKeeps DEF Outcomes
<1>5. /\ M \in Nat /\ \A i \in WholeIn(b) : i \in 1..M
  BY <1>3 DEF BooksSound, Books, WholeIn
<1>6. /\ WholeIn(books) \subseteq WholeIn(b)
      /\ \A i \in WholeIn(books) : i \in WholeIn(books') /\ books'.log[i] = books.log[i]
  BY <1>3, <1>4
<1>7. \A i \in WholeIn(books') : i \in WholeIn(books) \/ books'.log[i].call = c
  BY <1>3, <1>4
<1>8. M + 1 \in RowsOf(c)' /\ \A i \in RowsOf(c)' : i <= M + 1
  BY <1>4, <1>5, RowsAreRows, RowsAreRows DEF RowsOf, Whole, WholeIn
<1>9. \A i \in RowsOf(c)' : (\A j \in RowsOf(c)' : j <= i) => books'.log[i].outcome = "failed"
  <2> SUFFICES ASSUME NEW i \in RowsOf(c)', \A j \in RowsOf(c)' : j <= i
               PROVE  i = M + 1
    BY <1>4
  <2>1. i <= M + 1 /\ M + 1 <= i /\ i \in Int
    BY <1>8 DEF RowsOf, Whole
  <2> QED
    BY <1>5, <2>1
<1>10. \A d \in PassCalls \ {c} : Told(d)'
  BY <1>1, <1>2, <1>6, <1>7, OthersEntered
<1>11. Told(c)'
  BY <1>2, <1>8, <1>9 DEF Told
<1> QED
  BY <1>1, <1>2, <1>4, <1>10, <1>11 DEF VaultSound

LEMMA ProcessDiesSound ==
  ASSUME VaultSound, ProcessDies
  PROVE  VaultSound'
<1> USE PassAssumption DEF Outcomes
<1>1. /\ BooksSound(books') /\ WholeIn(books') = WholeIn(books)
      /\ \A i \in WholeIn(books) : books'.log[i] = books.log[i]
  <2>1. CASE UNCHANGED books
    BY <2>1 DEF VaultSound
  <2>2. CASE \E c \in PassCalls : requested[c].at = "running" /\ ~Torn(books.log)
               /\ books' = [books EXCEPT !.log = Append(@, [Entry(books, requested[c].by, c, "answered") EXCEPT !.shape = "torn"])]
    <3>1. PICK c \in PassCalls : requested[c].at = "running" /\ ~Torn(books.log)
               /\ books' = [books EXCEPT !.log = Append(@, [Entry(books, requested[c].by, c, "answered") EXCEPT !.shape = "torn"])]
      BY <2>2
    <3> DEFINE e == [Entry(books, requested[c].by, c, "answered") EXCEPT !.shape = "torn"]
    <3>2. BooksSound(books) /\ requested[c].by \in VaultClients /\ books.hashes \in Nat
      BY <3>1 DEF VaultSound, BooksSound, Books
    <3>3. PICK p \in Nat : p = loadPrevHash(books, requested[c].by)
      BY <3>2, PrevIsEnd
    <3>4. e = [shape |-> "torn", prev |-> p, hash |-> books.hashes + 1, by |-> requested[c].by,
               call |-> c, outcome |-> "answered"]
      BY <3>3 DEF Entry
    <3>5. e \in LogRow /\ e.shape = "torn"
      BY <3>2, <3>4 DEF LogRow
    <3> HIDE DEF e
    <3> QED
      BY <3>1, <3>2, <3>5, TornRowKeeps DEF e
  <2> QED
    BY <2>1, <2>2 DEF ProcessDies
<1>2. /\ requested' \in [PassCalls -> [at : CallSteps, by : 0..MaxClients, reveals : BOOLEAN]]
      /\ \A c \in PassCalls : requested'[c] = requested[c] \/ requested'[c].at = "lost"
      /\ \A c \in PassCalls : requested'[c].at # "running"
      /\ unlogged' = unlogged
  BY DEF ProcessDies, VaultSound, CallSteps
<1>3. client' \in 0..clients' /\ clients' \in VaultClients /\ mishaps' \in Nat
  BY DEF ProcessDies, VaultSound, VaultClients, NoClient, Mishap
<1>4. \A c \in PassCalls : Told(c)'
  BY <1>1, <1>2, NothingEntered
<1> QED
  BY <1>1, <1>2, <1>3, <1>4 DEF VaultSound, Told

LEMMA VaultSteps ==
  ASSUME VaultSound, [PANext]_pass_vars
  PROVE  VaultSound'
<1> USE PassAssumption
<1>1. ASSUME NEW c \in PassCalls, NEW reveals \in BOOLEAN, Ask(c, reveals)
      PROVE  VaultSound'
  <2>1. /\ BooksSound(books') /\ books' = books /\ unlogged' = unlogged
        /\ client' = client /\ clients' = clients /\ mishaps' = mishaps /\ client \in VaultClients
    BY <1>1 DEF Ask, VaultSound, VaultClients, NoClient
  <2>2. /\ requested' \in [PassCalls -> [at : CallSteps, by : 0..MaxClients, reveals : BOOLEAN]]
        /\ \A d \in PassCalls : d # c => requested'[d] = requested[d]
        /\ requested[c].at = "idle" /\ requested'[c].at = "running" /\ requested'[c].by = client
    BY <1>1, <2>1 DEF Ask, VaultSound, CallSteps, VaultClients
  <2>3. \A d \in PassCalls : Told(d)'
    BY <2>1, <2>2, NothingEntered
  <2> QED
    BY <2>1, <2>2, <2>3 DEF VaultSound, Told
<1>2. CASE NewClient
  <2>1. UNCHANGED <<books, requested, mishaps, unlogged>> /\ client' \in 0..clients' /\ clients' \in VaultClients
    BY <1>2 DEF NewClient, VaultSound, VaultClients, NoClient
  <2> QED
    BY <2>1 DEF VaultSound, Told, RowsOf, Whole
<1>3. CASE UNCHANGED pass_vars
  BY <1>3 DEF pass_vars, VaultSound, Told, RowsOf, Whole
<1> QED
  BY <1>1, <1>2, <1>3, CallEndsSound, UnreadableSound, ProcessDiesSound DEF PANext, Succeeds, Fails, Outcomes

(* The log of the vault tells how every call ended, and a gap in it between two *)
(* rows of one client is a removal (audit() in pass-service).                   *)
THEOREM LogIsTrue == PASpec => []AuditHolds
<1>1. VaultSound => AuditHolds
  BY RowsAreRows DEF VaultSound, Told, LogTellsTheAnswer, AuditHolds, GapsAreChangesOfClient, BooksSound, LinkedIn
<1> QED
  BY <1>1, VaultBegins, VaultSteps, PTL DEF PASpec

(* The history of the loop and the log of the vault tell what happened, for any *)
(* number of terminals, items, calls and clients, whatever is killed when.      *)
THEOREM RecordsAreTrue == RecordsSpec => []RecordsHold
BY LoopIsExact, LogIsTrue, PTL DEF RecordsSpec, RecordsHold

==============================================================================
