----------------------------- MODULE ConfigLock -----------------------------
(* The lock on the configuration file: a directory that holds the record of its *)
(* owner.  Writers of several processes contend for it, one file operation at a *)
(* time; within a process asynchronous writers wait in a queue, and synchronous *)
(* ones block the process while they try.  The lock of a process that died is   *)
(* reclaimed.                                                                   *)
EXTENDS Naturals, Sequences, FiniteSets

CONSTANTS
  Writers,       \* numbered from 1
  ProcessOf,     \* [Writers -> processes]
  LOCK_MAX_RETRIES,
  MaxDeaths,     \* bound: processes that die
  Undisturbed    \* whether nobody comes between a reclaimer's look and its unlink

Nobody == 0
ASSUME ConfigLockAssumption ==
  /\ Writers \subseteq Nat \ {Nobody}
  /\ LOCK_MAX_RETRIES \in Nat \ {0} /\ MaxDeaths \in Nat /\ Undisturbed \in BOOLEAN
WriterProcesses == {ProcessOf[w] : w \in Writers}

VARIABLES
  lockDir,       \* whether the directory exists
  lockOwner,     \* the writer named by the record in it
  dead,          \* processes that have died
  step,          \* where each writer is
  mode,          \* whether it writes synchronously
  tries, abandoned,
  chain,         \* _asyncLockChain: the asynchronous writers of each process
  asyncLockHeld, \* the asynchronous writer of each process that holds the lock
  stack,         \* the writer whose synchronous code a process is running
  version, base  \* of the configuration: on disk, and read by each writer

lock_vars == <<lockDir, lockOwner>>
cl_vars == <<lock_vars, dead, step, mode, tries, abandoned, chain, asyncLockHeld, stack, version, base>>

CLInit ==
  /\ lockDir = FALSE /\ lockOwner = Nobody /\ dead = {}
  /\ step = [w \in Writers |-> "idle"] /\ mode = [w \in Writers |-> "async"]
  /\ tries = [w \in Writers |-> 0] /\ abandoned = [w \in Writers |-> Nobody]
  /\ chain = [p \in WriterProcesses |-> <<>>] /\ asyncLockHeld = [p \in WriterProcesses |-> Nobody]
  /\ stack = [p \in WriterProcesses |-> Nobody]
  /\ version = 0 /\ base = [w \in Writers |-> 0]

IsAlive(w) == ProcessOf[w] \notin dead
(* A writer runs when its process is not in another writer's synchronous code,  *)
(* and under Undisturbed not between another's look at a record and its unlink. *)
Runs(w) ==
  /\ IsAlive(w) /\ stack[ProcessOf[w]] \in {Nobody, w}
  /\ Undisturbed => \A v \in Writers \ {w} : IsAlive(v) => step[v] # "unlink"
Go(w, s) == step' = [step EXCEPT ![w] = s]
(* Synchronous code keeps the process until the writer next waits or ends.      *)
Stay(w) == stack' = [stack EXCEPT ![ProcessOf[w]] = w]
Yield(w) == stack' = [stack EXCEPT ![ProcessOf[w]] = Nobody]
Rest == UNCHANGED <<dead, mode, chain, asyncLockHeld, version, base>>

(* withConfigWriteLockAsync joins the queue; withConfigLock refuses while an    *)
(* asynchronous writer of the process holds the lock.                           *)
Enqueue(w) ==
  /\ Runs(w) /\ step[w] = "idle"
  /\ mode' = [mode EXCEPT ![w] = "async"]
  /\ chain' = [chain EXCEPT ![ProcessOf[w]] = Append(@, w)]
  /\ Go(w, "queued")
  /\ UNCHANGED <<lock_vars, dead, tries, abandoned, asyncLockHeld, stack, version, base>>

(* Mutant: the check is left out, and the writer counts as a nested one.        *)
RefusesNot(p) == FALSE
Refuses(p) == asyncLockHeld[p] # Nobody

SaveSync(w) ==
  /\ Runs(w) /\ step[w] = "idle"
  /\ ~Refuses(ProcessOf[w])
  /\ mode' = [mode EXCEPT ![w] = "sync"]
  /\ IF asyncLockHeld[ProcessOf[w]] # Nobody THEN Go(w, "read") ELSE Go(w, "mkdir")
  /\ Stay(w)
  /\ UNCHANGED <<lock_vars, dead, tries, abandoned, chain, asyncLockHeld, version, base>>

Dequeued(w) ==
  /\ Runs(w) /\ step[w] = "queued" /\ Head(chain[ProcessOf[w]]) = w
  /\ Go(w, "mkdir") /\ Stay(w)
  /\ UNCHANGED <<lock_vars, tries, abandoned>> /\ Rest

(* createConfigLock, first and, after a reclaim, for a second time.             *)
MakeLockDir(w) ==
  /\ Runs(w) /\ step[w] \in {"mkdir", "again"}
  /\ lockDir' = TRUE
  /\ Go(w, IF ~lockDir THEN "record" ELSE IF step[w] = "mkdir" THEN "look" ELSE "failed")
  /\ UNCHANGED <<lockOwner, tries, abandoned, stack>> /\ Rest

Record(w) ==
  /\ Runs(w) /\ step[w] = "record"
  /\ lockOwner' = w
  /\ Go(w, "read")
  /\ asyncLockHeld' = IF mode[w] = "async" THEN [asyncLockHeld EXCEPT ![ProcessOf[w]] = w] ELSE asyncLockHeld
  /\ IF mode[w] = "async" THEN Yield(w) ELSE UNCHANGED stack
  /\ UNCHANGED <<lockDir, dead, tries, abandoned, mode, chain, version, base>>

(* tryAcquireConfigLock reads the record: only a dead owner's lock is reclaimed.*)
Abandoned == lockDir /\ lockOwner # Nobody /\ ~IsAlive(lockOwner)

Look(w) ==
  /\ Runs(w) /\ step[w] = "look"
  /\ Go(w, IF Abandoned THEN "recheck" ELSE "failed")
  /\ abandoned' = [abandoned EXCEPT ![w] = IF Abandoned THEN lockOwner ELSE Nobody]
  /\ UNCHANGED <<lock_vars, tries, stack>> /\ Rest

(* reclaimAbandonedConfigLock: the record is read again, removed, and then the  *)
(* directory.                                                                   *)
LookAgain(w) ==
  /\ Runs(w) /\ step[w] = "recheck"
  /\ Go(w, IF lockDir /\ lockOwner = abandoned[w] THEN "unlink" ELSE "failed")
  /\ UNCHANGED <<lock_vars, tries, abandoned, stack>> /\ Rest

Unlink(w) ==
  /\ Runs(w) /\ step[w] = "unlink"
  /\ Go(w, IF lockOwner # Nobody THEN "rmdir" ELSE "failed")
  /\ lockOwner' = Nobody
  /\ UNCHANGED <<lockDir, tries, abandoned, stack>> /\ Rest

Rmdir(w) ==
  /\ Runs(w) /\ step[w] = "rmdir"
  /\ IF lockDir /\ lockOwner = Nobody
     THEN lockDir' = FALSE /\ Go(w, "again")
     ELSE UNCHANGED lockDir /\ Go(w, "failed")
  /\ UNCHANGED <<lockOwner, tries, abandoned, stack>> /\ Rest

(* The writer waits a little and tries again, or gives up and reports an error. *)
Retry(w) ==
  /\ Runs(w) /\ step[w] = "failed" /\ tries[w] + 1 < LOCK_MAX_RETRIES
  /\ tries' = [tries EXCEPT ![w] = @ + 1]
  /\ Go(w, "waits")
  /\ IF mode[w] = "async" THEN Yield(w) ELSE UNCHANGED stack
  /\ UNCHANGED <<lock_vars, abandoned>> /\ Rest

Waited(w) ==
  /\ Runs(w) /\ step[w] = "waits"
  /\ Go(w, "mkdir") /\ Stay(w)
  /\ UNCHANGED <<lock_vars, tries, abandoned>> /\ Rest

(* The writer leaves: the next one in the queue goes on, whatever the outcome.  *)
(* Mutant: only a writer that had the lock lets the next one go on.             *)
LeftIfHeld(w) == IF step[w] = "failed" THEN chain[ProcessOf[w]] ELSE Tail(chain[ProcessOf[w]])
Left(w) == Tail(chain[ProcessOf[w]])

Departs(w) ==
  /\ Go(w, "done")
  /\ chain' = IF mode[w] = "async" THEN [chain EXCEPT ![ProcessOf[w]] = Left(w)] ELSE chain
  /\ Yield(w)

GiveUp(w) ==
  /\ Runs(w) /\ step[w] = "failed" /\ tries[w] + 1 = LOCK_MAX_RETRIES
  /\ Departs(w)
  /\ UNCHANGED <<lock_vars, dead, mode, tries, abandoned, asyncLockHeld, version, base>>

(* The callback reads the file and writes it back; an asynchronous one waits    *)
(* for the keychain in between.                                                 *)
Read(w) ==
  /\ Runs(w) /\ step[w] = "read"
  /\ base' = [base EXCEPT ![w] = version]
  /\ Go(w, "write")
  /\ UNCHANGED <<lock_vars, dead, tries, abandoned, mode, chain, asyncLockHeld, stack, version>>

Write(w) ==
  /\ Runs(w) /\ step[w] = "write"
  /\ version' = version + 1
  /\ Go(w, "release")
  /\ Stay(w)
  /\ UNCHANGED <<lock_vars, dead, tries, abandoned, mode, chain, asyncLockHeld, base>>

(* releaseConfigLock removes the record if it is still the writer's own, then   *)
(* the directory.                                                               *)
Release(w) ==
  /\ Runs(w) /\ step[w] = "release"
  /\ lockOwner' = IF lockOwner = w THEN Nobody ELSE lockOwner
  /\ Go(w, IF lockOwner = w THEN "free" ELSE "end")
  /\ UNCHANGED <<lockDir, tries, abandoned, stack>> /\ Rest

Free(w) ==
  /\ Runs(w) /\ step[w] \in {"free", "end"}
  /\ lockDir' = IF step[w] = "free" /\ lockOwner = Nobody THEN FALSE ELSE lockDir
  /\ asyncLockHeld' = IF mode[w] = "async" THEN [asyncLockHeld EXCEPT ![ProcessOf[w]] = Nobody] ELSE asyncLockHeld
  /\ Departs(w)
  /\ UNCHANGED <<lockOwner, dead, mode, tries, abandoned, version, base>>

Dies(p) ==
  /\ p \notin dead /\ Cardinality(dead) < MaxDeaths
  /\ dead' = dead \cup {p}
  /\ UNCHANGED <<lock_vars, step, mode, tries, abandoned, chain, asyncLockHeld, stack, version, base>>

Begins(w) == Enqueue(w) \/ SaveSync(w)
Advances(w) ==
  \/ Dequeued(w) \/ MakeLockDir(w) \/ Record(w) \/ Look(w) \/ LookAgain(w) \/ Unlink(w) \/ Rmdir(w)
  \/ Retry(w) \/ Waited(w) \/ GiveUp(w) \/ Read(w) \/ Write(w) \/ Release(w) \/ Free(w)

CLNext == (\E w \in Writers : Begins(w) \/ Advances(w)) \/ (\E p \in WriterProcesses : Dies(p))

CLSpec == CLInit /\ [][CLNext]_cl_vars

------------------------------------------------------------------------------
(* Properties.                                                                  *)

(* No change is lost: what a writer is about to save was made from the newest   *)
(* configuration, whichever process or request saves beside it.                 *)
SavedOverNewest == \A w \in Writers : step[w] = "write" /\ IsAlive(w) => base[w] = version

(* A writer that waits in the queue gets its turn and ends, with success or an  *)
(* error, unless its process dies: one that fails does not hold up the others.  *)
QueueMoves == \A w \in Writers : step[w] = "queued" ~> (step[w] = "done" \/ ~IsAlive(w))

==============================================================================
