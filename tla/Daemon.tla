-------------------------------- MODULE Daemon --------------------------------
(* The processes that serve one configuration profile: the lock file that lets  *)
(* one of them connect, the steps of its start and of its shutdown, which run   *)
(* at the same time when a signal comes early, the rebuilds of the accounts     *)
(* that wait for the keychain meanwhile, and Proton Bridge, which it may launch.*)
EXTENDS Naturals

CONSTANTS
  Instances,
  Pids,        \* process ids the system hands out, > 1, used again when free
  MaxBoots,   \* bound: processes started
  LateRebuild  \* whether a keychain may answer after the services were retired

NoPid == 0
Unwritten == 1 \* the lock file exists and its pid is not written yet
ASSUME DaemonAssumption ==
  /\ Pids \subseteq Nat \ {NoPid, Unwritten}
  /\ MaxBoots \in Nat /\ LateRebuild \in BOOLEAN

VARIABLES
  lockFile,    \* NoPid when there is none, Unwritten, or the pid it holds
  pid,         \* of each instance, NoPid when it does not run
  boot,        \* how far its start is
  down,        \* how far its shutdown is
  connected,   \* instances with connections to the mailboxes
  retired,     \* instances whose services are closed for good
  scheduling,  \* instances whose scheduler polls
  reading,     \* instances with a rebuild of the accounts that waits for the keychain
  queue,       \* the schedules and reminders on disk: "kept" or "quarantined"
  launched,    \* instances whose Bridge runs
  autoStarted, \* of those, the ones that saw it answer
  boots       \* of the bound

dm_vars == <<lockFile, pid, boot, down, connected, retired, scheduling, reading, queue,
            launched, autoStarted, boots>>

DMInit ==
  /\ lockFile = NoPid /\ pid = [i \in Instances |-> NoPid]
  /\ boot = [i \in Instances |-> "off"] /\ down = [i \in Instances |-> "no"]
  /\ connected = {} /\ retired = {} /\ scheduling = {}
  /\ reading = {} /\ queue = "kept"
  /\ launched = {} /\ autoStarted = {} /\ boots = 0

Lives(p) == \E i \in Instances : pid[i] = p
Boots(i, stage) == boot' = [boot EXCEPT ![i] = stage]
Accounts == <<reading, queue>>
Mail == <<connected, retired, scheduling, Accounts>>
Bridge == <<launched, autoStarted>>

------------------------------------------------------------------------------
(* The lock file                                                                *)

Start(i) ==
  /\ pid[i] = NoPid /\ boots < MaxBoots
  /\ boots' = boots + 1
  /\ \E p \in Pids : ~Lives(p) /\ pid' = [pid EXCEPT ![i] = p]
  /\ Boots(i, "locking")
  /\ UNCHANGED <<lockFile, down, Mail, Bridge>>

Create(i) ==
  /\ boot[i] = "locking" /\ lockFile = NoPid
  /\ lockFile' = Unwritten
  /\ Boots(i, "writing")
  /\ UNCHANGED <<pid, down, Mail, Bridge, boots>>

WritePid(i) ==
  /\ boot[i] = "writing"
  /\ lockFile' = pid[i]
  /\ Boots(i, "building") /\ reading' = reading \cup {i}
  /\ UNCHANGED <<pid, down, connected, retired, scheduling, queue, Bridge, boots>>

(* A pid used again: the file already names this process.                       *)
Already(i) ==
  /\ boot[i] = "locking" /\ lockFile = pid[i]
  /\ Boots(i, "building") /\ reading' = reading \cup {i}
  /\ UNCHANGED <<lockFile, pid, down, connected, retired, scheduling, queue, Bridge, boots>>

HoldsLock(i) == boot[i] \notin {"off", "locking", "writing"} /\ lockFile = pid[i]

(* The process is gone, and everything of it but Bridge; on its own exits it    *)
(* removes a lock it holds.                                                     *)
Disappears(i, lock) ==
  /\ lockFile' = lock
  /\ pid' = [pid EXCEPT ![i] = NoPid]
  /\ Boots(i, "off") /\ down' = [down EXCEPT ![i] = "no"]
  /\ connected' = connected \ {i} /\ retired' = retired \ {i} /\ scheduling' = scheduling \ {i}
  /\ reading' = reading \ {i}
  /\ UNCHANGED <<queue, Bridge, boots>>
Exits(i) == Disappears(i, IF HoldsLock(i) THEN NoPid ELSE lockFile)

(* Another one lives, or the record is stale or malformed: it gives up.         *)
Refused(i) ==
  /\ boot[i] = "locking" /\ lockFile \notin {NoPid, pid[i]}
  /\ Exits(i)

Crash(i) == pid[i] # NoPid /\ Disappears(i, lockFile)

(* A human removes a record no running process wrote.                           *)
OperatorRemoves ==
  /\ lockFile # NoPid /\ ~Lives(lockFile)
  /\ \A i \in Instances : boot[i] # "writing"
  /\ lockFile' = NoPid
  /\ UNCHANGED <<pid, boot, down, Mail, Bridge, boots>>

------------------------------------------------------------------------------
(* The start                                                                    *)

(* A rebuild of the accounts reads the registry and the keychain, at the start  *)
(* and after a settings save, and then compares with what it finds: the account *)
(* of a retired service, whose settings were erased, looks like another mailbox.*)
ReadRegistry(i) ==
  /\ boot[i] = "serving" /\ down[i] = "no"
  /\ reading' = reading \cup {i}
  /\ UNCHANGED <<lockFile, pid, boot, down, connected, retired, scheduling, queue, Bridge, boots>>

applyRegistry(i) ==
  /\ i \in reading /\ (i \in retired => LateRebuild)
  /\ reading' = reading \ {i}
  /\ retired' = retired \ {i}
  /\ queue' = IF i \in retired THEN "quarantined" ELSE queue
  /\ Boots(i, IF boot[i] = "building" THEN "starting" ELSE boot[i])
  /\ UNCHANGED <<lockFile, pid, down, connected, scheduling, Bridge, boots>>

(* The settings page is bound, Bridge is probed and, if it does not answer, may *)
(* be launched.                                                                 *)
Probe(i, launches) ==
  /\ boot[i] = "starting"
  /\ Boots(i, "connecting")
  /\ launched' = IF launches THEN launched \cup {i} ELSE launched
  /\ \/ launches /\ autoStarted' = autoStarted \cup {i}
     \/ UNCHANGED autoStarted
  /\ UNCHANGED <<lockFile, pid, down, Mail, boots>>

MayConnect(i) == i \notin retired

Connect(i) ==
  /\ boot[i] = "connecting"
  /\ Boots(i, "connected")
  /\ \/ MayConnect(i) /\ connected' = connected \cup {i}
     \/ UNCHANGED connected
  /\ UNCHANGED <<lockFile, pid, down, retired, scheduling, Accounts, Bridge, boots>>

Serve(i) ==
  /\ boot[i] = "connected"
  /\ Boots(i, "serving")
  /\ scheduling' = scheduling \cup {i}
  /\ UNCHANGED <<lockFile, pid, down, connected, retired, Accounts, Bridge, boots>>

BootFails(i) == boot[i] \in {"connected", "serving"} /\ Exits(i)

------------------------------------------------------------------------------
(* The shutdown: one at a time, its steps in order, five seconds at most.       *)

Downs(i, stage) == down' = [down EXCEPT ![i] = stage]

gracefulShutdown(i) ==
  /\ pid[i] # NoPid /\ boot[i] \notin {"locking", "writing"} /\ down[i] = "no"
  /\ Downs(i, "stopping_ui")
  /\ UNCHANGED <<lockFile, pid, boot, Mail, Bridge, boots>>

StopWork(i) ==
  /\ down[i] = "stopping_ui"
  /\ Downs(i, "closing")
  /\ scheduling' = scheduling \ {i}
  /\ UNCHANGED <<lockFile, pid, boot, connected, retired, Accounts, Bridge, boots>>

(* Mutant: the lock is released while the connections are still being closed.   *)
ReleaseFirst(i) ==
  /\ down[i] = "closing"
  /\ Downs(i, "released")
  /\ retired' = retired \cup {i}
  /\ lockFile' = IF HoldsLock(i) THEN NoPid ELSE lockFile
  /\ UNCHANGED <<pid, boot, connected, scheduling, Accounts, Bridge, boots>>

(* Waits for a connect in flight too; then the lock is released.                *)
CloseAll(i) ==
  /\ down[i] = "closing"
  /\ Downs(i, "released")
  /\ connected' = connected \ {i} /\ retired' = retired \cup {i}
  /\ lockFile' = IF HoldsLock(i) THEN NoPid ELSE lockFile
  /\ UNCHANGED <<pid, boot, scheduling, Accounts, Bridge, boots>>

killProtonBridge(i) ==
  /\ down[i] = "released"
  /\ Downs(i, "exiting")
  /\ launched' = IF i \in autoStarted THEN launched \ {i} ELSE launched
  /\ autoStarted' = autoStarted \ {i}
  /\ UNCHANGED <<lockFile, pid, boot, Mail, boots>>

Exit(i) == down[i] = "exiting" /\ Exits(i)
HardExit(i) == down[i] # "no" /\ Exits(i)

DMNext ==
  \/ OperatorRemoves
  \/ \E i \in Instances :
       \/ Start(i) \/ Create(i) \/ WritePid(i) \/ Already(i) \/ Refused(i) \/ Crash(i)
       \/ ReadRegistry(i) \/ applyRegistry(i)
       \/ Probe(i, TRUE) \/ Probe(i, FALSE) \/ Connect(i) \/ Serve(i) \/ BootFails(i)
       \/ gracefulShutdown(i) \/ StopWork(i) \/ CloseAll(i) \/ killProtonBridge(i)
       \/ Exit(i) \/ HardExit(i)

DMSpec == DMInit /\ [][DMNext]_dm_vars

------------------------------------------------------------------------------
(* Properties.                                                                  *)

(* At most one process has connections to the mailboxes of the profile, through *)
(* boots that race, crashes, pids used again, records a human removes, and     *)
(* shutdowns that overtake a start.                                             *)
OneConnects == \A i, j \in connected : i = j

(* Schedules and reminders are quarantined only when an account is removed or   *)
(* repointed; nobody does either here.                                          *)
QueueKept == queue = "kept"

==============================================================================
