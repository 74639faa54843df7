------------------------------ MODULE FileLock ------------------------------
(***************************************************************************)
(* The cross-process lock of src/src/utils/file-lock.ts: a directory       *)
(* `<store>.lock` that holds one owner record.  Every file-system call is  *)
(* a step of its own, so two processes interleave between any two calls    *)
(* and a process may die between any two calls.                            *)
(***************************************************************************)
EXTENDS Naturals, FiniteSets

CONSTANTS
    Procs,      \* processes that open the same store (their PIDs)
    Mortal,     \* the processes that may be killed
    MaxStarts   \* bound: calls of withFileLock in one behaviour

ASSUME MortalAssumption == Mortal \subseteq Procs
ASSUME StartsAssumption == MaxStarts \in Nat

VARIABLES
    alive,   \* the process table that process.kill(pid, 0) reads
    pc,      \* where each process stands in withFileLock
    token,   \* the random token of the process's current call
    starts,  \* calls of withFileLock so far; also the source of fresh tokens
    dir,     \* the lock directory exists
    file,    \* owner.json inside it
    seen     \* the owner record the process read last

vars == <<alive, pc, token, starts, dir, file, seen>>

NoFile == [pid |-> "none", token |-> 0, complete |-> FALSE]
Records == [pid : Procs, token : 0..MaxStarts, complete : BOOLEAN]
Files == Records \cup {NoFile}

Acquiring == {"mkdir", "open", "write", "undo", "undormdir", "read",
              "recheck", "unlink", "rmdir", "again"}
Releasing == {"relread", "relunlink", "relrmdir"}
Places == {"idle", "held"} \cup Acquiring \cup Releasing

(* createLock's owner record. *)
Mine(p) == [pid |-> p, token |-> token[p], complete |-> TRUE]
Draft(p) == [pid |-> p, token |-> token[p], complete |-> FALSE]

Goto(p, place) == pc' = [pc EXCEPT ![p] = place]
At(p, place) == alive[p] /\ pc[p] = place

Init ==
    /\ alive = [p \in Procs |-> TRUE]
    /\ pc = [p \in Procs |-> "idle"]
    /\ token = [p \in Procs |-> 0]
    /\ starts = 0
    /\ dir = FALSE
    /\ file = NoFile
    /\ seen = [p \in Procs |-> NoFile]

(* withFileLock is entered: the call will own one fresh random token. *)
Enter(p) ==
    /\ At(p, "idle")
    /\ starts < MaxStarts
    /\ starts' = starts + 1
    /\ token' = [token EXCEPT ![p] = starts + 1]
    /\ Goto(p, "mkdir")
    /\ UNCHANGED <<alive, dir, file, seen>>

(* createLock: mkdirSync wins the directory, or EEXIST returns null.  The  *)
(* first call then looks at the owner; the call after a reclaim ("again")  *)
(* gives up this round.                                                    *)
Mkdir(p) ==
    /\ \/ At(p, "mkdir")
       \/ At(p, "again")
    /\ \/ /\ ~dir
          /\ dir' = TRUE
          /\ Goto(p, "open")
       \/ /\ dir
          /\ dir' = dir
          /\ Goto(p, IF pc[p] = "mkdir" THEN "read" ELSE "mkdir")
    /\ UNCHANGED <<alive, token, starts, file, seen>>

(* openSync(recordPath, "wx"): an empty record, not yet readable as one. *)
OpenRecord(p) ==
    /\ At(p, "open")
    /\ IF dir /\ file = NoFile
         THEN file' = Draft(p) /\ Goto(p, "write")
         ELSE file' = file /\ Goto(p, "undo")
    /\ UNCHANGED <<alive, token, starts, dir, seen>>

(* writeFileSync + fsyncSync + closeSync on the open descriptor: it writes *)
(* the inode it opened, whether or not the name still leads there.         *)
WriteRecord(p) ==
    /\ At(p, "write")
    /\ file' = IF file = Draft(p) THEN Mine(p) ELSE file
    /\ Goto(p, "held")
    /\ UNCHANGED <<alive, token, starts, dir, seen>>

(* The open, the write, the fsync or the close fails (disk full, EIO): the *)
(* record may or may not have become readable by then.                     *)
WriteFails(p) ==
    /\ \/ At(p, "open") /\ file' = file
       \/ At(p, "write") /\ file' \in {file, IF file = Draft(p) THEN Mine(p) ELSE file}
    /\ Goto(p, "undo")
    /\ UNCHANGED <<alive, token, starts, dir, seen>>

(* createLock's catch: unlink, then rmdir, both best effort, and rethrow.  *)
UndoUnlink(p) ==
    /\ At(p, "undo")
    /\ file' = NoFile
    /\ Goto(p, "undormdir")
    /\ UNCHANGED <<alive, token, starts, dir, seen>>

UndoRmdir(p) ==
    /\ At(p, "undormdir")
    /\ dir' = (dir /\ file # NoFile)
    /\ Goto(p, "idle")
    /\ UNCHANGED <<alive, token, starts, file, seen>>

(* isProcessAlive, negated: process.kill(pid, 0) says ESRCH.  The mutant   *)
(* takes a record that has been there for long as abandoned.               *)
GoneByAge(pid) == TRUE
Gone(pid) == ~alive[pid]

(* tryAcquire after EEXIST: an absent or incomplete record, or a live      *)
(* owner, ends the round.                                                  *)
ReadOwner(p) ==
    /\ At(p, "read")
    /\ seen' = [seen EXCEPT ![p] = file]
    /\ Goto(p, IF file.complete /\ Gone(file.pid) THEN "recheck" ELSE "mkdir")
    /\ UNCHANGED <<alive, token, starts, dir, file>>

(* acquire: the deadline passed, so the call throws instead of going on    *)
(* unlocked.                                                               *)
TimeOut(p) ==
    /\ At(p, "mkdir")
    /\ Goto(p, "idle")
    /\ UNCHANGED <<alive, token, starts, dir, file, seen>>

(* reclaimDeadOwner: the record read again is still the abandoned one, and *)
(* its process is still gone.                                              *)
StillAbandoned(p) == file = seen[p] /\ Gone(file.pid)

RecheckOwner(p) ==
    /\ At(p, "recheck")
    /\ Goto(p, IF StillAbandoned(p) THEN "unlink" ELSE "mkdir")
    /\ UNCHANGED <<alive, token, starts, dir, file, seen>>

(* reclaimDeadOwner: unlinkSync removes whatever record is there NOW. *)
ReclaimUnlink(p) ==
    /\ At(p, "unlink")
    /\ file' = NoFile
    /\ Goto(p, IF file = NoFile THEN "mkdir" ELSE "rmdir")
    /\ UNCHANGED <<alive, token, starts, dir, seen>>

(* reclaimDeadOwner: rmdirSync works on an existing empty directory only. *)
ReclaimRmdir(p) ==
    /\ At(p, "rmdir")
    /\ IF dir /\ file = NoFile
         THEN dir' = FALSE /\ Goto(p, "again")
         ELSE dir' = dir /\ Goto(p, "mkdir")
    /\ UNCHANGED <<alive, token, starts, file, seen>>

(* The protected function returned or threw: release() begins. *)
Leave(p) ==
    /\ At(p, "held")
    /\ Goto(p, "relread")
    /\ UNCHANGED <<alive, token, starts, dir, file, seen>>

(* release: only the record this call wrote may be removed. *)
ReleaseRead(p) ==
    /\ At(p, "relread")
    /\ Goto(p, IF file = Mine(p) THEN "relunlink" ELSE "idle")
    /\ UNCHANGED <<alive, token, starts, dir, file, seen>>

ReleaseUnlink(p) ==
    /\ At(p, "relunlink")
    /\ file' = NoFile
    /\ Goto(p, IF file = NoFile THEN "idle" ELSE "relrmdir")
    /\ UNCHANGED <<alive, token, starts, dir, seen>>

ReleaseRmdir(p) ==
    /\ At(p, "relrmdir")
    /\ dir' = (dir /\ file # NoFile)
    /\ Goto(p, "idle")
    /\ UNCHANGED <<alive, token, starts, file, seen>>

(* The process is killed between two system calls: nothing is cleaned up. *)
Die(p) ==
    /\ alive[p]
    /\ p \in Mortal
    /\ alive' = [alive EXCEPT ![p] = FALSE]
    /\ UNCHANGED <<pc, token, starts, dir, file, seen>>

(* The operating system gives the PID to a new mailpouch process. *)
ReusePid(p) ==
    /\ ~alive[p]
    /\ alive' = [alive EXCEPT ![p] = TRUE]
    /\ Goto(p, "idle")
    /\ UNCHANGED <<token, starts, dir, file, seen>>

Step(p) ==
    \/ Enter(p) \/ Mkdir(p) \/ OpenRecord(p) \/ WriteRecord(p) \/ WriteFails(p)
    \/ UndoUnlink(p) \/ UndoRmdir(p) \/ ReadOwner(p) \/ TimeOut(p) \/ RecheckOwner(p)
    \/ ReclaimUnlink(p) \/ ReclaimRmdir(p)
    \/ Leave(p) \/ ReleaseRead(p) \/ ReleaseUnlink(p) \/ ReleaseRmdir(p)

(* The bound on calls is used up and every live process has finished. *)
Exhausted ==
    /\ starts = MaxStarts
    /\ \A p \in Procs : alive[p] => pc[p] = "idle"
    /\ UNCHANGED vars

Next == Exhausted \/ \E p \in Procs : Step(p) \/ Die(p) \/ ReusePid(p)

Spec == Init /\ [][Next]_vars

(* At most one live process stands between reclaimDeadOwner's second look  *)
(* at the owner and its unlink.  Nothing in the code enforces it: it is    *)
(* the condition under which exclusion holds for any number of processes.  *)
OneReclaimer ==
    \A p, q \in Procs : At(p, "unlink") /\ At(q, "unlink") => p = q

-----------------------------------------------------------------------------
TypeOK ==
    /\ alive \in [Procs -> BOOLEAN]
    /\ pc \in [Procs -> Places]
    /\ token \in [Procs -> 0..MaxStarts]
    /\ starts \in 0..MaxStarts
    /\ dir \in BOOLEAN
    /\ file \in Files
    /\ seen \in [Procs -> Files]

(* The protected function runs between createLock's return and release().  *)
Holds(p) == alive[p] /\ pc[p] \in {"held", "relread"}

(* file-lock.ts exists for this: two live processes never run functions    *)
(* protected by the same lock at the same time.                            *)
MutualExclusion == \A p, q \in Procs : Holds(p) /\ Holds(q) => p = q

(* Nobody takes the owner record of a process that is inside: not a        *)
(* reclaimer working from an older reading, not a creator cleaning up, not *)
(* a late release.  Losing the record is how a second holder gets in.      *)
LiveRecordKept ==
    [][\A p \in Procs : Holds(p) /\ file = Mine(p) => file' = file]_vars

(* What exclusion rests on.  A live process that has won the mkdir (or has *)
(* just unlinked a dead owner's record) is alone in that, and what the     *)
(* directory holds is exactly what its place says.                         *)
Creating == {"open", "write", "undo", "undormdir", "held", "relread",
             "relunlink", "relrmdir", "rmdir"}
Creator(p) == alive[p] /\ pc[p] \in Creating

OneCreator == \A p, q \in Procs : Creator(p) /\ Creator(q) => p = q
CreatorHasDir == \A p \in Procs : Creator(p) => dir
RecordMatchesPlace ==
    \A p \in Procs :
        /\ At(p, "write") => file = Draft(p)
        /\ At(p, "undo") => file \in {NoFile, Draft(p), Mine(p)}
        /\ At(p, "held") \/ At(p, "relread") \/ At(p, "relunlink") => file = Mine(p)
        /\ At(p, "open") \/ At(p, "undormdir") \/ At(p, "relrmdir") \/ At(p, "rmdir")
              => file = NoFile
RecordHasDir == file # NoFile => dir
ReclaimerSeesTheDead ==
    \A p \in Procs :
        /\ At(p, "recheck") => seen[p].complete
        /\ At(p, "unlink") =>
              /\ file = seen[p] /\ file.complete
              /\ \A q \in Procs : ~Creator(q)

ExclusionInvariant ==
    /\ OneCreator
    /\ CreatorHasDir
    /\ RecordMatchesPlace
    /\ RecordHasDir
    /\ ReclaimerSeesTheDead
=============================================================================
