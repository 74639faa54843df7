----------------------------- MODULE Scheduler -----------------------------
(***************************************************************************)
(* The scheduled-send queue of src/src/services/scheduler.ts, with the     *)
(* mailbox identities of the account registry it is bound to, its store    *)
(* file, and the outcomes SMTPService.sendEmail and the mutation           *)
(* coordinator can give a delivery.                                        *)
(*                                                                         *)
(* The daemon is one JavaScript thread: tool calls, registry rebuilds and  *)
(* timer ticks run only while processDue is not running or is awaiting a   *)
(* send.  The process may be killed between any two steps, every write may *)
(* fail, and what the server did with a send is decided when the daemon    *)
(* learns of it or can no longer learn it.                                 *)
(***************************************************************************)
EXTENDS Naturals, FiniteSets

CONSTANTS
    Items,         \* the scheduled emails of one behaviour (their UUIDs)
    Accounts,      \* account ids of the registry
    Identities,    \* mailbox fingerprints an account may have
    Edited,        \* the accounts an operator repoints or removes
    MaxRetries,    \* MAX_RETRIES of the code (3)
    Legacy,        \* rows an earlier release may have left in the file
    WriteFaults,   \* TRUE: any write of the store may fail
    ReadFaults,    \* TRUE: the store may be unreadable when it is loaded
    LossyReplies,  \* TRUE: a delivered send may be reported as failed
    NoAccount,     \* the owner of a record written before accounts existed
    NoItem         \* nothing is being awaited

ASSUME IdentityAssumption == Identities \subseteq Nat \ {0} /\ Identities # {}
ASSUME EditedAssumption == Edited \subseteq Accounts
ASSUME NoneAssumption == NoAccount \notin Accounts /\ NoItem \notin Items
ASSUME RetryAssumption == MaxRetries \in Nat \ {0}
ASSUME LegacyAssumption == Legacy \subseteq Items
ASSUME SwitchAssumption ==
    WriteFaults \in BOOLEAN /\ ReadFaults \in BOOLEAN /\ LossyReplies \in BOOLEAN

NoMailbox == 0                  \* no fingerprint: removed, or not recorded

VARIABLES
    pc,        \* where the daemon is; "down" between two processes
    mem,       \* this.items
    disk,      \* the store file
    identity,  \* identityForAccount of every account
    blocked,   \* accounts whose SMTPService is in abuse backoff
    ready,     \* emails whose scheduledAt and nextAttemptAt have passed
    todo,      \* rest of processDue's captured `due`
    cur,       \* the email processDue is awaiting
    issued,    \* history: ids returned by schedule() or found in the file
    meant,     \* history: the mailbox each id was scheduled for
    revoked,   \* history: ids cancelled or quarantined by a call that held
    attempts,  \* history: sends handed to SMTPService
    wire       \* history: copies the server accepted

vars == <<pc, mem, disk, identity, blocked, ready, todo, cur,
          issued, meant, revoked, attempts, wire>>
history == <<issued, meant, revoked, attempts, wire>>

Live == {"pending", "sending"}
Final == {"sent", "failed", "cancelled", "outcome_unknown"}
Statuses == Live \cup Final \cup {"absent"}

Row == [status : Statuses, retries : 0..MaxRetries,
        owner : Accounts \cup {NoAccount}, ident : Identities \cup {NoMailbox}]
Absent == [status |-> "absent", retries |-> 0, owner |-> NoAccount, ident |-> NoMailbox]
Empty == [i \in Items |-> Absent]

(* A record written before accounts, or before fingerprints, existed. *)
LegacyRow(a) == [Absent EXCEPT !.status = "pending", !.owner = a]

Init ==
    /\ pc = "down"
    /\ mem = Empty
    /\ \E owners \in [Legacy -> Accounts \cup {NoAccount}] :
          disk = [i \in Items |-> IF i \in Legacy THEN LegacyRow(owners[i]) ELSE Absent]
    /\ identity \in [Accounts -> Identities]
    /\ blocked = {}
    /\ ready = {}
    /\ todo = {}
    /\ cur = NoItem
    /\ issued = Legacy
    /\ meant = [i \in Items |-> NoMailbox]
    /\ revoked = {}
    /\ attempts = [i \in Items |-> 0]
    /\ wire = [i \in Items |-> 0]

Put(rows, i, status) == [rows EXCEPT ![i].status = status]

(* isRecordCurrent: owned, fingerprinted, and still that mailbox. *)
Owned(row) == row.owner \in Accounts
Current(row) == Owned(row) /\ row.ident # NoMailbox /\ row.ident = identity[row.owner]
Stale(row) == Owned(row) /\ row.ident # NoMailbox /\ row.ident # identity[row.owner]

(* pruneHistory: every live row stays; which of the others are older than  *)
(* thirty days or beyond the thousand newest is left open.  The mutant     *)
(* takes a delivery in flight for history.                                 *)
HistoryByPending(row) == row.status \notin {"pending", "absent"}
History(row) == row.status \in Final
Prunings(rows) ==
    {[i \in Items |-> IF i \in old THEN Absent ELSE rows[i]] :
        old \in SUBSET {i \in Items : History(rows[i])}}

(* writeItems: the temporary file replaces the store whole, or not at all. *)
MaySave(rows) == disk' \in {rows} \cup (IF WriteFaults THEN {disk} ELSE {})
Saves(rows) == disk' = rows
(* persist: prune, write, and only log a failure. *)
Persist(rows) == mem' \in Prunings(rows) /\ MaySave(mem')

(* What the server may have done with a send nobody waits for any more. *)
PerhapsDelivered(i) ==
    wire' \in {wire, [wire EXCEPT ![i] = @ + 1]}

Serving == pc \in {"idle", "wait"}

-----------------------------------------------------------------------------
(* The tools and the registry, while processDue is idle or awaiting. *)

(* schedule: the id is returned only when the record has reached the disk; *)
(* a failed write removes it again.                                        *)
Schedule(i, a) ==
    /\ Serving
    /\ i \notin issued
    /\ identity[a] # NoMailbox
    /\ mem' = [mem EXCEPT ![i] = [status |-> "pending", retries |-> 0,
                                  owner |-> a, ident |-> identity[a]]]
    /\ Saves(mem')
    /\ issued' = issued \cup {i}
    /\ meant' = [meant EXCEPT ![i] = identity[a]]
    /\ UNCHANGED <<pc, identity, blocked, ready, todo, cur, revoked, attempts, wire>>

(* cancel of a pending email: a failed write restores it and throws, so    *)
(* the cancel that returns has reached the disk.                           *)
CancelPending(i) ==
    /\ Serving
    /\ Current(mem[i]) /\ mem[i].status = "pending"
    /\ mem' = Put(mem, i, "cancelled")
    /\ Saves(mem')
    /\ revoked' = revoked \cup {i}
    /\ UNCHANGED <<pc, identity, blocked, ready, todo, cur, issued, meant, attempts, wire>>

(* cancel while the send is in flight: the cooperative stop, saved on a    *)
(* best-effort basis.  The caller hears "in_flight".                       *)
CancelSending(i) ==
    /\ Serving
    /\ Current(mem[i]) /\ mem[i].status = "sending"
    /\ Persist(Put(mem, i, "cancelled"))
    /\ revoked' = revoked \cup {i}
    /\ UNCHANGED <<pc, identity, blocked, ready, todo, cur, issued, meant, attempts, wire>>

(* quarantineAccount: a send in flight is kept as cancelled, every other   *)
(* row of the owner goes; the memory stays safe when a write fails.  The   *)
(* mutant hides that failure from the caller.                              *)
RowsOf(rows, a) == {i \in Items : rows[i].status # "absent" /\ rows[i].owner = a}
Quarantined(rows, a) ==
    [i \in Items |->
        IF i \notin RowsOf(rows, a) THEN rows[i]
        ELSE IF rows[i].status = "sending" THEN [rows[i] EXCEPT !.status = "cancelled"]
        ELSE Absent]
QuarantineUnsaved(a) ==
    /\ mem' = Quarantined(mem, a)
    /\ revoked' = revoked \cup RowsOf(mem, a)
    /\ \/ Saves(mem')
       \/ WriteFaults /\ UNCHANGED disk
Quarantine(a) ==
    /\ mem' = Quarantined(mem, a)
    /\ IF RowsOf(mem, a) = {} THEN UNCHANGED <<disk, revoked>>
       ELSE \/ Saves(mem') /\ revoked' = revoked \cup RowsOf(mem, a)
            \/ WriteFaults /\ UNCHANGED <<disk, revoked>>

(* accounts-rebuilt: the account was removed or names another mailbox now, *)
(* and its services were replaced.                                         *)
Repoint(a, k) ==
    /\ Serving
    /\ a \in Edited /\ k # identity[a]
    /\ identity' = [identity EXCEPT ![a] = k]
    /\ Quarantine(a)
    /\ blocked' = blocked \ {a}
    /\ UNCHANGED <<pc, ready, todo, cur, issued, meant, attempts, wire>>

(* The registry is edited while no daemon runs. *)
RepointOffline(a, k) ==
    /\ pc = "down"
    /\ a \in Edited /\ k # identity[a]
    /\ identity' = [identity EXCEPT ![a] = k]
    /\ UNCHANGED <<pc, mem, disk, blocked, ready, todo, cur, history>>

-----------------------------------------------------------------------------
(* Time. *)

ComesDue(i) ==
    /\ i \in issued \ ready
    /\ ready' = ready \cup {i}
    /\ UNCHANGED <<pc, mem, disk, identity, blocked, todo, cur, history>>

BackoffElapses(a) ==
    /\ a \in blocked
    /\ blocked' = blocked \ {a}
    /\ UNCHANGED <<pc, mem, disk, identity, ready, todo, cur, history>>

-----------------------------------------------------------------------------
(* processDue. *)

Due == {i \in Items : mem[i].status = "pending" /\ Current(mem[i]) /\ i \in ready}

(* start() ticks at once ("boot"), the timer at any idle moment; a tick    *)
(* that finds isProcessing set changes nothing.                            *)
Tick ==
    /\ pc \in {"boot", "idle"}
    /\ todo' = Due
    /\ pc' = IF Due = {} THEN "idle" ELSE "loop"
    /\ UNCHANGED <<mem, disk, identity, blocked, ready, cur, history>>

(* `due` was captured before earlier awaits, so every item is looked at    *)
(* again: a cancel, a quarantine, a repoint or a backoff defers it.        *)
StillDue(i) == /\ mem[i].status = "pending"
               /\ Current(mem[i])
               /\ mem[i].owner \notin blocked
Defer(i) ==
    /\ pc = "loop" /\ i \in todo
    /\ ~StillDue(i)
    /\ todo' = todo \ {i}
    /\ UNCHANGED <<pc, mem, disk, identity, blocked, ready, cur, history>>

(* The delivery fence: "sending" is on disk before SMTP sees the message.  *)
Dispatch(i) ==
    /\ pc = "loop" /\ i \in todo
    /\ StillDue(i)
    /\ mem' = Put(mem, i, "sending")
    /\ Saves(mem')
    /\ pc' = "wait" /\ cur' = i
    /\ todo' = todo \ {i}
    /\ attempts' = [attempts EXCEPT ![i] = @ + 1]
    /\ UNCHANGED <<identity, blocked, ready, issued, meant, revoked, wire>>

(* The fence does not reach the disk: the memory is rolled back and the    *)
(* whole tick fails before SMTP.                                           *)
FenceFails(i) ==
    /\ WriteFaults
    /\ pc = "loop" /\ i \in todo
    /\ StillDue(i)
    /\ pc' = "idle" /\ todo' = {}
    /\ UNCHANGED <<mem, disk, identity, blocked, ready, cur, history>>

Back == pc' = "loop" /\ cur' = NoItem /\ UNCHANGED <<identity, todo, issued, meant, attempts>>

Delivered == wire' = [wire EXCEPT ![cur] = @ + 1]
NotDelivered == IF LossyReplies THEN PerhapsDelivered(cur) ELSE UNCHANGED wire

(* A cancel or a quarantine landed during the await: whatever the outcome, *)
(* the status it left is preserved and nothing is written here.            *)
ResumeCancelled ==
    /\ pc = "wait" /\ mem[cur].status # "sending"
    /\ PerhapsDelivered(cur)
    /\ Back
    /\ UNCHANGED <<mem, disk, blocked, ready, revoked>>

ResumeSent ==
    /\ pc = "wait" /\ mem[cur].status = "sending"
    /\ Persist(Put(mem, cur, "sent"))
    /\ Delivered
    /\ blocked' = blocked \ {mem[cur].owner}
    /\ Back
    /\ UNCHANGED <<ready, revoked>>

(* The retry bookkeeping of both failure paths.                            *)
AfterFailure(row) ==
    [row EXCEPT !.retries = @ + 1,
                !.status = IF row.retries + 1 >= MaxRetries THEN "failed" ELSE "pending"]

(* sendEmail returns {success: false} or throws an ordinary error; an      *)
(* abuse reply also trips the owner's backoff.                             *)
ResumeFailed ==
    /\ pc = "wait" /\ mem[cur].status = "sending"
    /\ Persist([mem EXCEPT ![cur] = AfterFailure(@)])
    /\ NotDelivered
    /\ blocked' \in {blocked, blocked \cup {mem[cur].owner}}
    /\ ready' = ready \ {cur}
    /\ Back
    /\ UNCHANGED revoked

(* The transport was aborted or replaced under the send.  The mutant       *)
(* treats that like any other failure.                                     *)
UnknownAsFailure(row) == AfterFailure(row)
AfterUnknown(row) == [row EXCEPT !.retries = @ + 1, !.status = "outcome_unknown"]

ResumeUnknown ==
    /\ pc = "wait" /\ mem[cur].status = "sending"
    /\ Persist([mem EXCEPT ![cur] = AfterUnknown(@)])
    /\ PerhapsDelivered(cur)
    /\ Back
    /\ UNCHANGED <<blocked, ready, revoked>>

(* The last persist, and the finally block that clears isProcessing.  The  *)
(* mutant leaves the flag set.                                             *)
LoopEndsStuck ==
    /\ pc = "loop" /\ todo = {}
    /\ Persist(mem)
    /\ UNCHANGED <<pc, identity, blocked, ready, todo, cur, history>>

LoopEnds ==
    /\ pc = "loop" /\ todo = {}
    /\ Persist(mem)
    /\ pc' = "idle"
    /\ UNCHANGED <<identity, blocked, ready, todo, cur, history>>

-----------------------------------------------------------------------------
(* The process. *)

Halt ==
    /\ pc' = "down"
    /\ mem' = Empty
    /\ blocked' = {} /\ todo' = {} /\ cur' = NoItem
    /\ IF pc = "wait" THEN PerhapsDelivered(cur) ELSE UNCHANGED wire
    /\ UNCHANGED <<identity, ready, issued, meant, revoked, attempts>>

Crash ==
    /\ pc # "down"
    /\ Halt
    /\ UNCHANGED disk

(* stop(): the queue is persisted, then the process exits. *)
Stop ==
    /\ Serving
    /\ \E rows \in Prunings(mem) : MaySave(rows)
    /\ Halt

(* load: sends found in flight become outcome_unknown and are saved.  The  *)
(* mutant puts them back in the queue.                                     *)
RecoveredAsPending(row) == IF row.status = "sending" THEN [row EXCEPT !.status = "pending"] ELSE row
Recovered(row) == IF row.status = "sending" THEN [row EXCEPT !.status = "outcome_unknown"] ELSE row

Load ==
    /\ pc = "down"
    /\ pc' = "migrate"
    /\ LET rows == [i \in Items |-> Recovered(disk[i])]
       IN  /\ mem' \in Prunings(rows)
           /\ IF \E i \in Items : disk[i].status = "sending" THEN MaySave(mem')
              ELSE UNCHANGED disk
    /\ UNCHANGED <<identity, blocked, ready, todo, cur, history>>

(* The file cannot be read or parsed: the daemon starts with no items. *)
LoadFails ==
    /\ ReadFaults
    /\ pc = "down"
    /\ pc' = "boot"
    /\ UNCHANGED <<mem, disk, identity, blocked, ready, todo, cur, history>>

(* migrateLegacyRecords: an unowned row goes to the active account, a row  *)
(* without fingerprint gets its own owner's; an unresolved one stays inert. *)
Migrated(row, active) ==
    LET owner == IF Owned(row) THEN row.owner ELSE active
    IN  IF
          \/ row.status = "absent"
          \/ Owned(row) /\ row.ident # NoMailbox
          \/ identity[owner] = NoMailbox
          THEN row
          ELSE [row EXCEPT !.owner = owner, !.ident = identity[owner]]

Migrate(active) ==
    /\ pc = "migrate"
    /\ pc' = "purge"
    /\ LET rows == [i \in Items |-> Migrated(mem[i], active)]
       IN  \/ mem' = rows /\ IF rows = mem THEN UNCHANGED disk ELSE Saves(rows)
           \/ WriteFaults /\ UNCHANGED <<mem, disk>>
    /\ UNCHANGED <<identity, blocked, ready, todo, cur, history>>

(* quarantineStaleIdentityRecords, one owner at a time.                    *)
StaleOwners == {mem[i].owner : i \in {j \in Items : Stale(mem[j])}}

Purge(a) ==
    /\ pc = "purge"
    /\ a \in StaleOwners
    /\ Quarantine(a)
    /\ UNCHANGED <<pc, identity, blocked, ready, todo, cur, issued, meant, attempts, wire>>

PurgeDone ==
    /\ pc = "purge"
    /\ StaleOwners = {}
    /\ pc' = "boot"
    /\ UNCHANGED <<mem, disk, identity, blocked, ready, todo, cur, history>>

-----------------------------------------------------------------------------
Boot == Load \/ LoadFails \/ PurgeDone
        \/ \E a \in Accounts : Migrate(a) \/ Purge(a)
ProcessDue ==
    \/ Tick \/ LoopEnds
    \/ \E i \in Items : Defer(i) \/ Dispatch(i) \/ FenceFails(i)
    \/ ResumeCancelled \/ ResumeSent \/ ResumeFailed \/ ResumeUnknown
Calls ==
    \/ \E i \in Items : CancelPending(i) \/ CancelSending(i)
                        \/ \E a \in Accounts : Schedule(i, a)
    \/ \E a \in Accounts, k \in Identities \cup {NoMailbox} :
          Repoint(a, k) \/ RepointOffline(a, k)
Time == (\E i \in Items : ComesDue(i)) \/ (\E a \in Accounts : BackoffElapses(a))

Next == Calls \/ Time \/ ProcessDue \/ Boot \/ Crash \/ Stop

Spec == Init /\ [][Next]_vars

(* The timer fires every minute; start() runs to its end; sendEmail always *)
(* returns, for every SMTP phase has a timeout below a minute; time passes;*)
(* and a disk that fails does not fail at every fence for ever.            *)
Resume == ResumeCancelled \/ ResumeSent \/ ResumeFailed \/ ResumeUnknown
Fairness ==
    /\ WF_vars(Boot) /\ WF_vars(Tick) /\ WF_vars(LoopEnds) /\ WF_vars(Resume)
    /\ \A i \in Items : WF_vars(ComesDue(i)) /\ WF_vars(Defer(i)) /\ SF_vars(Dispatch(i))
    /\ \A a \in Accounts : WF_vars(BackoffElapses(a))

(* While nobody edits the registry and the store can be read: what is promised   *)
(* of an email then does not depend on its account.                              *)
CalmNext == Next /\ UNCHANGED identity
CalmSpec == Init /\ [][CalmNext]_vars /\ Fairness

-----------------------------------------------------------------------------
TypeOK ==
    /\ pc \in {"down", "migrate", "purge", "boot", "idle", "loop", "wait"}
    /\ mem \in [Items -> Row]
    /\ disk \in [Items -> Row]
    /\ identity \in [Accounts -> Identities \cup {NoMailbox}]
    /\ blocked \subseteq Accounts
    /\ ready \subseteq Items
    /\ todo \subseteq Items
    /\ cur \in Items \cup {NoItem}
    /\ issued \subseteq Items
    /\ meant \in [Items -> Identities \cup {NoMailbox}]
    /\ revoked \subseteq Items
    /\ attempts \in [Items -> 0..MaxRetries]
    /\ wire \in [Items -> 0..MaxRetries]

(* The recipient gets a scheduled email at most once: the queue is         *)
(* persisted around every send so that neither a crash, a failed write, an *)
(* aborted transport nor a retry sends a delivered message again.          *)
AtMostOnce == \A i \in Items : wire[i] <= 1

(* While a send is out, and after any send that may have been delivered,   *)
(* the store does not list the email as pending: a restart cannot pick it  *)
(* up again, whatever writes failed since.                                 *)
FenceHolds ==
    \A i \in Items : (pc = "wait" /\ cur = i) \/ wire[i] > 0
                         => disk[i].status # "pending" /\ mem[i].status # "pending"

(* MAX_RETRIES bounds the sends of one email over all runs of the daemon,  *)
(* not over one of them: a pending row knows how often it was tried.       *)
TriesRecorded ==
    \A i \in Items :
        /\ mem[i].status = "pending" => mem[i].retries = attempts[i] /\ attempts[i] < MaxRetries
        /\ disk[i].status = "pending" => disk[i].retries = attempts[i] /\ attempts[i] < MaxRetries

(* What the store owes the recipient of every email: one copy, a fence      *)
(* before it, and a count of the tries that survives restarts.             *)
QueueHolds == AtMostOnce /\ FenceHolds /\ TriesRecorded

(* A cancel() that answered, even "in_flight", and a quarantine that       *)
(* returned are the last word: no later tick, retry or restart sends it.   *)
(* And a message is handed only to the mailbox it was scheduled for,       *)
(* however the account was repointed, removed and restored in between,     *)
(* with the daemon up or down.                                             *)
SentAsMeant ==
    [][\A i \in Items :
         attempts'[i] # attempts[i] =>
           /\ i \notin revoked
           /\ meant[i] # NoMailbox => identity[mem[i].owner] = meant[i]]_vars

(* What the daemon, or the file while no daemon runs, knows of an email.   *)
Known(i) == IF pc = "down" THEN disk[i] ELSE mem[i]

(* schedule() promises that a restart does not silently lose an email: one *)
(* that waits goes away only because its mailbox is not its account's any  *)
(* more, and one that is out for delivery is on record when the daemon     *)
(* stops or dies.                                                          *)
NothingLost ==
    [][\A i \in Items : Known(i)'.status = "absent" =>
          /\ Known(i).status = "pending" =>
                /\ Owned(Known(i))
                /\ identity'[Known(i).owner] # Known(i).ident
          /\ Known(i).status = "sending" => pc' # "down"]_vars

(* Once the process is no longer killed or stopped, every email of a       *)
(* mailbox that is still its account's gets an outcome: neither a failing  *)
(* fence, a backoff, an aborted transport nor the isProcessing flag leaves *)
(* it in the queue for ever.                                               *)
Waiting(i) == Known(i).status \in Live /\ Current(Known(i))
EveryEmailSettles ==
    <>[][~Crash /\ ~Stop]_vars => \A i \in Items : Waiting(i) ~> ~Waiting(i)

-----------------------------------------------------------------------------
(* What the queue, its store and the daemon's await say of an email.       *)
Phase(i) ==
    IF i \notin issued THEN "new"
    ELSE IF pc = "wait" /\ cur = i THEN "flying"
    ELSE IF mem[i].status = "pending" THEN "queued"
    ELSE IF disk[i].status = "pending" THEN "parked"
    ELSE "closed"

(* The scheduler keeps the promise of Delivery: through every crash,       *)
(* failed write, unreadable store, repoint and aborted transport an email  *)
(* is tried one at a time, at most MAX_RETRIES times in all, never after a *)
(* try that delivered it and never after it was withdrawn.                 *)
Promise == INSTANCE Delivery WITH
    MaxTries <- MaxRetries,
    phase <- [i \in Items |-> Phase(i)],
    withdrawn <- revoked,
    tries <- attempts,
    copies <- wire
KeepsPromise == Promise!DSpec

-----------------------------------------------------------------------------
(* The inductive invariant behind the safety properties, by its parts:     *)
(* what the two copies of an email's record, the await and the history say *)
(* of that email.                                                          *)

Pending(i) == mem[i].status = "pending" \/ disk[i].status = "pending"
InFlight(i) == pc = "wait" /\ cur = i

(* Only the email that is awaited is "sending", some account owns it, and  *)
(* no copy of its record is "pending".                                     *)
Fenced(i) ==
    /\ mem[i].status = "sending" => InFlight(i) /\ Owned(mem[i])
    /\ InFlight(i) => ~Pending(i) /\ i \in issued

(* retryCount is the number of tries so far; the fence is not one yet.     *)
TriesCounted(i) ==
    /\ \A row \in {mem[i], disk[i]} :
          row.status = "pending" => row.retries = attempts[i] /\ attempts[i] < MaxRetries
    /\ mem[i].status = "sending" => mem[i].retries + 1 = attempts[i]

RevokedAtRest(i) == i \in revoked => ~Pending(i) /\ mem[i].status # "sending"

UnissuedUntouched(i) ==
    i \notin issued =>
        /\ mem[i].status = "absent" /\ disk[i].status = "absent"
        /\ attempts[i] = 0 /\ wire[i] = 0 /\ meant[i] = NoMailbox /\ i \notin revoked

CopiesCounted(i) == IF InFlight(i) THEN wire[i] < attempts[i] ELSE wire[i] <= attempts[i]

DeliveredAtRest(i) ==
    ~LossyReplies =>
        /\ wire[i] <= 1
        /\ wire[i] > 0 => ~Pending(i) /\ ~InFlight(i)

RowsKeepTheirMailbox(i) ==
    meant[i] # NoMailbox =>
        \A row \in {mem[i], disk[i]} :
            row.status # "absent" => Owned(row) /\ row.ident = meant[i]

EmailSound(i) ==
    /\ Fenced(i)
    /\ TriesCounted(i)
    /\ RevokedAtRest(i)
    /\ UnissuedUntouched(i)
    /\ CopiesCounted(i)
    /\ DeliveredAtRest(i)
    /\ RowsKeepTheirMailbox(i)

(* Each part holds of every email at every step of every run: the queue,   *)
(* its store and the await never disagree about an email in a way that     *)
(* could send it once more, in another name or after it was withdrawn.     *)
QueueInvariant ==
    /\ pc = "wait" => cur \in Items
    /\ \A i \in Items : EmailSound(i)
=============================================================================
