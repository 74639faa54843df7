--------------------------- MODULE ImprovementLoop ---------------------------
(* The development loop of scripts/improvement-loop.mjs: a snapshot replaced    *)
(* atomically, a history appended to beside it, and a lock directory, all in    *)
(* the repository. Commands of several terminals hold the lock for one          *)
(* transition each; the checks of a validation run without it, while the        *)
(* workspace is edited; any command can be killed between two of its writes.    *)
EXTENDS Naturals, Sequences, SequencesExt

CONSTANTS
  Terminals,
  Items,              \* in order of priority
  Lists,              \* Lists[a]: the items that audit artifact a imports
  Passing,            \* Passing[k]: the contents on which an item's k-th check passes
  MaxTransitions, MaxEdits, MaxKills, MaxTampers   \* bounds

ASSUME LoopAssumption ==
  /\ Items \subseteq Nat \ {0} /\ DOMAIN Lists \subseteq Nat
  /\ Passing \in Seq(SUBSET Nat) /\ Passing # <<>>
  /\ {"nobody", "dead"} \cap Terminals = {}

Artifacts == DOMAIN Lists
Unheld == "nobody"
Dead == "dead"      \* a lock whose owner is not alive: reclaimed by the operator only
NoItem == 0

VARIABLES
  snapshot,   \* snapshot.json
  events,     \* history.jsonl
  files,      \* what init made so far
  loopLock,   \* loop.lock
  running,    \* what each terminal runs
  workspace,  \* the content of the repository: every edit makes a new one
  changed,    \* the audit artifacts whose bytes are not those recorded
  truth,      \* history: the transitions the snapshot went through
  kills, tampers

loop_vars == <<snapshot, events, files, loopLock, running, workspace, changed, truth, kills, tampers>>
around == <<workspace, changed, kills, tampers>>

NoRun == [id |-> 0, item |-> NoItem, at |-> 0]
NoResult == [item |-> NoItem, at |-> 0, until |-> 0, ok |-> FALSE]
NoEvent == [seq |-> 0, act |-> "none", item |-> NoItem, on |-> 0]
AtPrompt == [at |-> "prompt", run |-> NoRun, check |-> 1, ok |-> TRUE]

initialSnapshot ==
  [seq |-> 0, pending |-> NoEvent, active |-> NoItem, auditRequired |-> TRUE, lastAudit |-> 0,
   result |-> NoResult, run |-> NoRun, items |-> [i \in Items |-> [status |-> "absent", audit |-> 0]]]

LoopInit ==
  /\ snapshot = initialSnapshot /\ events = <<>> /\ files = "none" /\ loopLock = Unheld
  /\ running = [t \in Terminals |-> AtPrompt]
  /\ workspace = 0 /\ changed = {} /\ truth = <<>> /\ kills = 0 /\ tampers = 0

------------------------------------------------------------------------------
(* The lock and init                                                            *)

(* A terminal that finds the lock held waits for a while or gives up; so does   *)
(* one that finds its owner dead, who never lets go.                            *)
acquireLock(t) ==
  /\ loopLock = Unheld
  /\ \/ running[t].at = "prompt" /\ files = "ready"
     \/ running[t].at = "checked"
  /\ loopLock' = t /\ running' = [running EXCEPT ![t].at = "locked"]
  /\ UNCHANGED <<snapshot, events, files, truth, around>>

Prompt(t) == running' = [running EXCEPT ![t] = AtPrompt]

(* init makes the empty history, then the snapshot; once there is a history     *)
(* without a snapshot it refuses to go on.                                      *)
commandInit(t) ==
  /\ files = "none" /\ loopLock = Unheld /\ running[t].at = "prompt"
  /\ loopLock' = t /\ files' = "history" /\ running' = [running EXCEPT ![t].at = "init"]
  /\ UNCHANGED <<snapshot, events, truth, around>>

------------------------------------------------------------------------------
(* commit(): the snapshot with the event pending in it, the history, and the    *)
(* snapshot without it.                                                         *)

commit(t, snap, act, item, on, run) ==
  LET event == [seq |-> snap.seq + 1, act |-> act, item |-> item, on |-> on] IN
  /\ Len(truth) < MaxTransitions
  /\ snapshot' = [snap EXCEPT !.seq = event.seq, !.pending = event]
  /\ truth' = Append(truth, event)
  /\ running' = [running EXCEPT ![t] = [AtPrompt EXCEPT !.at = "append", !.run = run]]
  /\ UNCHANGED <<events, loopLock, around>>

appendHistory(t) ==
  /\ running[t].at = "append"
  /\ events' = Append(events, snapshot.pending)
  /\ running' = [running EXCEPT ![t].at = "save"]
  /\ UNCHANGED <<snapshot, files, loopLock, truth, around>>

Committed(t) ==
  /\ running[t].at = "save"
  /\ snapshot' = [snapshot EXCEPT !.pending = NoEvent]
  /\ loopLock' = Unheld
  /\ running' = [running EXCEPT ![t].at = IF running[t].run = NoRun THEN "prompt" ELSE "checking"]
  /\ UNCHANGED <<events, files, truth, around>>

Initialized(t) ==
  /\ running[t].at = "init"
  /\ files' = "ready"
  /\ commit(t, initialSnapshot, "initialized", NoItem, workspace, NoRun)

(* loadSnapshot() and recoverPendingHistory(), first in every transition.       *)
verifySnapshotArtifacts ==
  LET recorded == {snapshot.lastAudit} \cup {snapshot.items[i].audit : i \in Items} IN
  changed \cap recorded = {}

(* Mutant: a pending event is appended without looking.                         *)
AlwaysMissing(event) == TRUE
NotIn(event) == \A e \in Range(events) : e.seq # event.seq

recoverPendingHistory(t) ==
  /\ running[t].at = "locked" /\ snapshot.pending # NoEvent /\ verifySnapshotArtifacts
  /\ IF NotIn(snapshot.pending)
     THEN events' = Append(events, snapshot.pending) /\ UNCHANGED snapshot
     ELSE snapshot' = [snapshot EXCEPT !.pending = NoEvent] /\ UNCHANGED events
  /\ UNCHANGED <<files, loopLock, running, truth, around>>

MayChange(t) == running[t].at = "locked" /\ snapshot.pending = NoEvent /\ verifySnapshotArtifacts
Commands(t) == MayChange(t) /\ running[t].run = NoRun

(* A command that may not, a status, or one that finds a changed artifact.      *)
GivesUp(t) ==
  /\ running[t].at = "locked"
  /\ loopLock' = Unheld /\ Prompt(t)
  /\ UNCHANGED <<snapshot, events, files, truth, around>>

------------------------------------------------------------------------------
(* The commands                                                                 *)

commandImport(t, a, replace) ==
  /\ Commands(t) /\ a \notin changed
  /\ \A i \in Lists[a] : snapshot.items[i].status \in (IF replace THEN {"absent", "queued"} ELSE {"absent"})
  /\ commit(t, [snapshot EXCEPT !.items = [i \in Items |->
                  IF i \in Lists[a] THEN [status |-> "queued", audit |-> a] ELSE @[i]]],
            "imported", NoItem, workspace, NoRun)
  /\ UNCHANGED files

commandReaudit(t, a) ==
  /\ Commands(t) /\ a \notin changed
  /\ snapshot.active = NoItem /\ snapshot.run = NoRun
  /\ commit(t, [snapshot EXCEPT !.auditRequired = FALSE, !.lastAudit = a], "re_audited", NoItem, workspace, NoRun)
  /\ UNCHANGED files

(* Named, or the one nextQueued() picks: any queued item can be begun.          *)
commandBegin(t, i) ==
  /\ Commands(t) /\ ~snapshot.auditRequired /\ snapshot.active = NoItem
  /\ snapshot.items[i].status = "queued"
  /\ commit(t, [snapshot EXCEPT !.items[i].status = "in_progress", !.active = i, !.result = NoResult, !.run = NoRun],
            "begun", i, workspace, NoRun)
  /\ UNCHANGED files

commandValidate(t) ==
  /\ Commands(t) /\ snapshot.active # NoItem /\ snapshot.run = NoRun
  /\ LET run == [id |-> snapshot.seq + 1, item |-> snapshot.active, at |-> workspace] IN
     commit(t, [snapshot EXCEPT !.result = NoResult, !.run = run], "validation_started", snapshot.active, workspace, run)
  /\ UNCHANGED files

(* A check passes or not on what it finds; it can also time out. The first that *)
(* fails is the last that runs.                                                 *)
runCheck(t) ==
  /\ running[t].at = "checking"
  /\ \/ running' = [running EXCEPT ![t].ok = FALSE, ![t].at = "checked"]
     \/ /\ workspace \in Passing[running[t].check]
        /\ running' = IF running[t].check < Len(Passing) THEN [running EXCEPT ![t].check = @ + 1]
                                                        ELSE [running EXCEPT ![t].at = "checked"]
  /\ UNCHANGED <<snapshot, events, files, loopLock, truth, around>>

stillCurrent(run) == snapshot.active = run.item /\ snapshot.run.id = run.id

Validated(t) ==
  /\ MayChange(t) /\ running[t].run # NoRun
  /\ LET run == running[t].run IN
     IF stillCurrent(run)
     THEN commit(t, [snapshot EXCEPT !.run = NoRun,
                       !.result = [item |-> run.item, at |-> run.at, until |-> workspace,
                                   ok |-> running[t].ok /\ workspace = run.at]],
                 "validated", run.item, workspace, NoRun)
     ELSE commit(t, snapshot, "validation_discarded", run.item, workspace, NoRun)
  /\ UNCHANGED files

(* Mutant: a passing result is enough, whatever was edited since.               *)
Passed(i) == snapshot.result.item = i /\ snapshot.result.ok
FreshlyPassed(i) == Passed(i) /\ snapshot.result.at = workspace /\ snapshot.result.until = workspace

commandComplete(t) ==
  LET i == snapshot.active IN
  /\ Commands(t) /\ i # NoItem /\ snapshot.run = NoRun /\ FreshlyPassed(i)
  /\ commit(t, [snapshot EXCEPT !.items[i].status = "completed", !.active = NoItem, !.auditRequired = TRUE],
            "completed", i, workspace, NoRun)
  /\ UNCHANGED files

commandBlock(t) ==
  LET i == snapshot.active IN
  /\ Commands(t) /\ i # NoItem
  /\ commit(t, [snapshot EXCEPT !.items[i].status = "blocked", !.active = NoItem, !.auditRequired = TRUE,
                                !.run = NoRun, !.result = NoResult],
            "blocked", i, workspace, NoRun)
  /\ UNCHANGED files

------------------------------------------------------------------------------
(* Around it                                                                    *)

Edit ==
  /\ workspace < MaxEdits /\ workspace' = workspace + 1
  /\ UNCHANGED <<snapshot, events, files, loopLock, running, changed, truth, kills, tampers>>

(* An artifact is rewritten, or put back.                                       *)
Rewrite(a) ==
  /\ tampers < MaxTampers /\ tampers' = tampers + 1
  /\ changed' = IF a \in changed THEN changed \ {a} ELSE changed \cup {a}
  /\ UNCHANGED <<snapshot, events, files, loopLock, running, workspace, truth, kills>>

Killed(t) ==
  /\ kills < MaxKills /\ running[t].at # "prompt"
  /\ kills' = kills + 1
  /\ loopLock' = IF loopLock = t THEN Dead ELSE loopLock
  /\ Prompt(t)
  /\ UNCHANGED <<snapshot, events, files, workspace, changed, truth, tampers>>

(* The operator takes the dead lock away once no command runs, and what a       *)
(* killed init left behind.                                                     *)
RemoveLock ==
  /\ loopLock = Dead /\ \A t \in Terminals : running[t].at = "prompt"
  /\ loopLock' = Unheld
  /\ files' = IF files = "history" THEN "none" ELSE files
  /\ UNCHANGED <<snapshot, events, running, truth, around>>

LoopNext ==
  \/ \E t \in Terminals :
       \/ acquireLock(t) \/ commandInit(t) \/ Initialized(t) \/ appendHistory(t) \/ Committed(t)
       \/ recoverPendingHistory(t) \/ GivesUp(t) \/ Killed(t)
       \/ \E a \in Artifacts : commandReaudit(t, a) \/ \E replace \in BOOLEAN : commandImport(t, a, replace)
       \/ \E i \in Items : commandBegin(t, i)
       \/ commandValidate(t) \/ runCheck(t) \/ Validated(t) \/ commandComplete(t) \/ commandBlock(t)
  \/ Edit \/ RemoveLock \/ \E a \in Artifacts : Rewrite(a)

LoopSpec == LoopInit /\ [][LoopNext]_loop_vars

------------------------------------------------------------------------------
(* Properties.                                                                  *)

(* The history is what the snapshot went through, each transition once and in   *)
(* order, but for the last while it is pending: whatever was killed, the next   *)
(* command recovers it.                                                         *)
HistoryExact ==
  \/ events = truth
  \/ Len(truth) > 0 /\ events = Front(truth) /\ snapshot.pending = Last(truth)

(* The history of a completed item has the fresh, passing validation it rests   *)
(* on: every check passes on the very content it was completed with.            *)
CompletedWasTested ==
  \A e \in Range(truth) : e.act = "completed" => \A k \in DOMAIN Passing : e.on \in Passing[k]

(* One item at a time, and after each an audit before the next: between two     *)
(* "begun" there is an end of the first and a later audit.                      *)
OneByOne ==
  \A m, n \in DOMAIN truth : m < n /\ truth[m].act = "begun" /\ truth[n].act = "begun" =>
    \E p, q \in (m + 1)..(n - 1) : p < q /\ truth[p].act \in {"completed", "blocked"} /\ truth[p].item = truth[m].item
                                   /\ truth[q].act = "re_audited"

LoopHolds == HistoryExact /\ CompletedWasTested /\ OneByOne

==============================================================================
