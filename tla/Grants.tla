------------------------------- MODULE Grants -------------------------------
(***************************************************************************)
(* Who may call the mailbox: the grant file of src/src/agents/grant-store.ts *)
(* shared by several mailpouch processes, the service-account credentials  *)
(* of service-account-store.ts, the per-agent gate of grant-manager.ts as  *)
(* index.ts runs it twice around the confirmation of a call, and the       *)
(* hourly quota ledger.                                                    *)
(*                                                                         *)
(* A process is any run of index.ts: the daemon, a --settings-only process *)
(* or one `mailpouch agent` command.  It is one JavaScript thread, so a    *)
(* synchronous sequence (a check, a login, a revocation) is interleaved    *)
(* with the other processes only.  One mutate() is one step: it runs under *)
(* the file lock, whose exclusion module FileLock is about.                *)
(***************************************************************************)
EXTENDS Naturals, FiniteSets

CONSTANTS
    Processes,
    Serving,       \* those with an MCP transport; the others administer
    Interactive,   \* agents that register themselves (DCR or stdio name)
    Service,       \* ids of service accounts: client_credentials logins
    Calls,         \* the tool calls of one behaviour
    Capped,        \* clients whose grants carry an hourly cap
    Cap,           \* that cap
    Window,        \* HOUR_MS
    MaxPending,    \* MAX_PENDING_GRANTS (50)
    PendingTTL,    \* PENDING_APPROVAL_TTL_MS
    Expiries,      \* expiresAt an operator may give
    MaxTime,       \* bound of the clock
    Mortal,        \* processes that may be killed
    Faults,        \* TRUE: a read or a write of the stores may fail
    NoProcess, NoClient

Clients == Interactive \cup Service
Never == MaxTime + 1            \* conditions without expiresAt

ASSUME ClientsAssumption ==
    /\ Interactive \cap Service = {}
    /\ NoClient \notin Clients /\ NoProcess \notin Processes
    /\ Capped \subseteq Clients /\ Serving \subseteq Processes
    /\ IsFiniteSet(Interactive)
ASSUME CallsAssumption == IsFiniteSet(Calls)
ASSUME BoundsAssumption ==
    /\ Cap \in Nat \ {0} /\ Window \in Nat \ {0} /\ MaxPending \in Nat \ {0}
    /\ PendingTTL \in Nat /\ MaxTime \in Nat
    /\ Expiries \subseteq 0..MaxTime
ASSUME FaultsAssumption == Mortal \subseteq Processes /\ Faults \in BOOLEAN

VARIABLES
    now,
    disk,      \* the grants file
    cred,      \* the service-accounts file, with the terms each was issued on
    memory,    \* this.grants of every process
    pc,        \* what a process's thread is in the middle of
    todo,      \* clients a synchronous sequence still has to treat
    calls,     \* the calls index.ts is gating or running
    ledger,    \* the reservations in the quota database
    dialogs,   \* on-screen approval prompts left open
    ruling,    \* history: the operator's last word on each client
    admitted   \* history: the calls past the last gate

vars == <<now, disk, cred, memory, pc, todo, calls, ledger, dialogs, ruling, admitted>>

Times == 0..MaxTime
Terms == Expiries \cup {Never}

(* An AgentGrant.  A creation time is kept only while a request is pending *)
(* and an expiry only while the grant is active: nothing else reads them   *)
(* (prune's ages are left open).                                           *)
Grant == [status : {"absent", "pending", "active", "revoked", "expired"},
          created : Times, expires : Terms, total : Nat]
Bare(status, total) ==
    [status |-> status, created |-> 0, expires |-> Never, total |-> total]
Absent == Bare("absent", 0)
NoGrants == [c \in Clients |-> Absent]

(* Reading the file for a decision may also find it unavailable. *)
Unread == Bare("unavailable", 0)

Call == [phase : {"unused", "checking", "confirming", "rechecking", "running", "over"},
         on : Processes \cup {NoProcess}, client : Clients \cup {NoClient},
         seen : Grant \cup {Unread}, under : {"none", "approved", "revoked"}, at : Times]
FreshCall == [phase |-> "unused", on |-> NoProcess, client |-> NoClient,
              seen |-> Absent, under |-> "none", at |-> 0]

Init ==
    /\ now = 0
    /\ disk = NoGrants
    /\ cred = [s \in Service |-> [state |-> "unissued", expires |-> Never]]
    /\ memory = [p \in Processes |-> NoGrants]
    /\ pc = [p \in Processes |-> "idle"]
    /\ todo = [p \in Processes |-> {}]
    /\ calls = [k \in Calls |-> FreshCall]
    /\ ledger = {}
    /\ dialogs = {}
    /\ ruling = [c \in Clients |-> "none"]
    /\ admitted = {}

-----------------------------------------------------------------------------
(* The store: reloadMerge, then the change, then persist. *)

(* reloadMerge: the file decides, except that a process keeps its own call *)
(* counter when it is ahead.                                               *)
Merged(p) ==
    [c \in Clients |->
        IF disk[c].status # "absent" /\ memory[p][c].total > disk[c].total
        THEN [disk[c] EXCEPT !.total = memory[p][c].total]
        ELSE disk[c]]

(* persist: the whole map replaces the file, or the write throws and the   *)
(* map is ahead of it.                                                     *)
Saves == IF Faults THEN BOOLEAN ELSE {TRUE}
Store(p, grants, saved) ==
    /\ memory' = [memory EXCEPT ![p] = grants]
    /\ disk' = IF saved THEN grants ELSE disk

(* A mutate() whose function returned without persisting. *)
Reload(p) ==
    /\ pc[p] = "idle"
    /\ memory' = [memory EXCEPT ![p] = Merged(p)]
    /\ UNCHANGED <<now, disk, cred, pc, todo, calls, ledger, dialogs, ruling, admitted>>

PendingIn(grants) == {c \in Clients : grants[c].status = "pending"}

(* The oldest requests, as many as must go before one more is admitted.    *)
Oldest(grants, n) ==
    {old \in SUBSET PendingIn(grants) :
        /\ Cardinality(old) = n
        /\ \A c \in old : \A d \in PendingIn(grants) \ old :
              grants[c].created <= grants[d].created}

Evictions(grants) ==
    LET n == Cardinality(PendingIn(grants))
    IN  Oldest(grants, IF n >= MaxPending THEN n - MaxPending + 1 ELSE 0)

Without(grants, gone) == [c \in Clients |-> IF c \in gone THEN Absent ELSE grants[c]]

(* createPending, from the DCR endpoint or for a local client; the event   *)
(* opens the approval prompt.  An id the file already knows is a Reload.   *)
CreatePending(p, c) ==
    /\ pc[p] = "idle"
    /\ now + PendingTTL < MaxTime               \* bound: time to expire remains
    /\ Merged(p)[c].status = "absent"
    /\ \E old \in Evictions(Merged(p)), saved \in Saves :
          /\ Store(p, [Without(Merged(p), old) EXCEPT ![c] =
                          [Bare("pending", 0) EXCEPT !.created = now]], saved)
          /\ dialogs' = IF saved THEN dialogs \cup {<<p, c>>} ELSE dialogs
          /\ ruling' = IF saved THEN [ruling EXCEPT ![c] = "none"] ELSE ruling
    /\ UNCHANGED <<now, cred, pc, todo, calls, ledger, admitted>>

Activated(grants, c, e) ==
    [grants EXCEPT ![c] = [Bare("active", @.total) EXCEPT !.expires = e]]
Ended(grants, c, status) == [grants EXCEPT ![c] = Bare(status, @.total)]

(* The Agents tab: approve whatever the record's state, or deny/revoke it. *)
Approve(p, c) ==
    /\ pc[p] = "idle"
    /\ Merged(p)[c].status # "absent"
    /\ \E e \in Terms, saved \in Saves :
          /\ Store(p, Activated(Merged(p), c, e), saved)
          /\ ruling' = IF saved /\ c \in Interactive
                       THEN [ruling EXCEPT ![c] = "approved"] ELSE ruling
    /\ UNCHANGED <<now, cred, pc, todo, calls, ledger, dialogs, admitted>>

Deny(p, c) ==
    /\ pc[p] = "idle"
    /\ Merged(p)[c].status # "absent"
    /\ \E saved \in Saves :
          /\ Store(p, Ended(Merged(p), c, "revoked"), saved)
          /\ ruling' = IF saved /\ c \in Interactive
                       THEN [ruling EXCEPT ![c] = "revoked"] ELSE ruling
    /\ UNCHANGED <<now, cred, pc, todo, calls, ledger, dialogs, admitted>>

(* A late click on the prompt: onlyIfPending.  Approving there does not    *)
(* overrule a revocation, so the history does not move from one.           *)
Click(p, c) ==
    \E saved \in Saves, yes \in BOOLEAN :
       /\ Store(p, IF yes THEN Activated(Merged(p), c, Never)
                          ELSE Ended(Merged(p), c, "revoked"), saved)
       /\ ruling' = IF saved /\ ruling[c] = "none"
                    THEN [ruling EXCEPT ![c] = IF yes THEN "approved" ELSE "revoked"]
                    ELSE ruling
Undecided(p, c) == Merged(p)[c].status = "pending"

Answer(p, c) ==
    /\ pc[p] = "idle"
    /\ <<p, c>> \in dialogs
    /\ dialogs' = dialogs \ {<<p, c>>}
    /\ IF Undecided(p, c)
       THEN Click(p, c)
       ELSE /\ memory' = [memory EXCEPT ![p] = Merged(p)]
            /\ UNCHANGED <<disk, ruling>>
    /\ UNCHANGED <<now, cred, pc, todo, calls, ledger, admitted>>

(* flushCounters, and recordConnection, whose fields are display only. *)
Flush(p) ==
    /\ pc[p] = "idle"
    /\ \E saved \in Saves : Store(p, Merged(p), saved)
    /\ UNCHANGED <<now, cred, pc, todo, calls, ledger, dialogs, ruling, admitted>>

(* expireStalePending, every thirty seconds.  The mutant forgets to write. *)
Overdue(grants) == {c \in PendingIn(grants) : now > grants[c].created + PendingTTL}
ExpireUnsaved(p, saved) ==
    /\ pc[p] = "idle"
    /\ Overdue(Merged(p)) # {}
    /\ Store(p, Without(Merged(p), Overdue(Merged(p))), FALSE)
    /\ UNCHANGED <<now, cred, pc, todo, calls, ledger, dialogs, ruling, admitted>>

ExpireStale(p, saved) ==
    /\ pc[p] = "idle"
    /\ Overdue(Merged(p)) # {}
    /\ Store(p, Without(Merged(p), Overdue(Merged(p))), saved)
    /\ UNCHANGED <<now, cred, pc, todo, calls, ledger, dialogs, ruling, admitted>>

(* prune: ended grants older than the days the operator names. *)
Prune(p) ==
    /\ pc[p] = "idle"
    /\ \E gone \in SUBSET {c \in Clients : Merged(p)[c].status \in {"revoked", "expired"}},
          saved \in Saves :
          gone # {} /\ Store(p, Without(Merged(p), gone), saved)
    /\ UNCHANGED <<now, cred, pc, todo, calls, ledger, dialogs, ruling, admitted>>

-----------------------------------------------------------------------------
(* Service accounts: two files, one sequence. *)

Present(s) == cred[s].state = "present"

(* issue, whose id is new, and a client_credentials login that verified    *)
(* the secret: both go on to ensureActiveServiceGrant.                     *)
Issue(p, s) ==
    /\ pc[p] = "idle"
    /\ cred[s].state = "unissued"
    /\ \E e \in Terms : cred' = [cred EXCEPT ![s] = [state |-> "present", expires |-> e]]
    /\ pc' = [pc EXCEPT ![p] = "ensure"]
    /\ todo' = [todo EXCEPT ![p] = {s}]
    /\ UNCHANGED <<now, disk, memory, calls, ledger, dialogs, ruling, admitted>>

Login(p, s) ==
    /\ pc[p] = "idle"
    /\ Present(s)
    /\ pc' = [pc EXCEPT ![p] = "ensure"]
    /\ todo' = [todo EXCEPT ![p] = {s}]
    /\ UNCHANGED <<now, disk, cred, memory, calls, ledger, dialogs, ruling, admitted>>

(* The rest of the sequence; a step that could not be saved throws, and    *)
(* while index.ts is still loading the process ends with it.               *)
Stopped(p) == IF pc[p] = "boot" THEN "down" ELSE "idle"
Advance(p, s, saved) ==
    /\ todo' = [todo EXCEPT ![p] = IF saved THEN @ \ {s} ELSE {}]
    /\ pc' = [pc EXCEPT ![p] = IF ~saved THEN Stopped(p)
                               ELSE IF todo[p] = {s} THEN "idle" ELSE @]

(* ensureActiveServiceGrant on the terms of the account the process read,  *)
(* whether or not the account still exists.                                *)
Ensure(p, s) ==
    /\ pc[p] \in {"ensure", "boot"} /\ s \in todo[p]
    /\ \E saved \in Saves :
          /\ Store(p, Activated(Merged(p), s, cred[s].expires), saved)
          /\ Advance(p, s, saved)
    /\ UNCHANGED <<now, cred, calls, ledger, dialogs, ruling, admitted>>

(* Every revocation path removes the credential first and the grant after  *)
(* it: the Agents tab, the CLI, and revokeGrantsBoundToAccount.            *)
RevokeCredential(p, s) ==
    /\ pc[p] = "idle"
    /\ cred' = [cred EXCEPT ![s].state = IF @ = "present" THEN "gone" ELSE @]
    /\ ruling' = IF Present(s) THEN [ruling EXCEPT ![s] = "revoked"] ELSE ruling
    /\ pc' = [pc EXCEPT ![p] = "revoke"]
    /\ todo' = [todo EXCEPT ![p] = {s}]
    /\ UNCHANGED <<now, disk, memory, calls, ledger, dialogs, admitted>>

RevokeGrant(p, s) ==
    /\ pc[p] = "revoke" /\ s \in todo[p]
    /\ \E saved \in Saves :
          /\ IF Merged(p)[s].status = "absent"
             THEN saved /\ memory' = [memory EXCEPT ![p] = Merged(p)] /\ disk' = disk
             ELSE Store(p, Ended(Merged(p), s, "revoked"), saved)
          /\ Advance(p, s, saved)
    /\ UNCHANGED <<now, cred, calls, ledger, dialogs, ruling, admitted>>

(* The grants file cannot be read: reloadMerge throws, the sequence stops  *)
(* half way.                                                               *)
Abandon(p) ==
    /\ Faults
    /\ pc[p] \in {"ensure", "revoke", "boot"}
    /\ pc' = [pc EXCEPT ![p] = Stopped(p)]
    /\ todo' = [todo EXCEPT ![p] = {}]
    /\ UNCHANGED <<now, disk, cred, memory, calls, ledger, dialogs, ruling, admitted>>

-----------------------------------------------------------------------------
(* The gate of a tool call. *)

(* getAuthorizationSnapshot: always the file, never the map. *)
Snapshots(c) == {disk[c]} \cup (IF Faults THEN {Unread} ELSE {})

(* A call reaches index.ts, whose first check reads the grant. *)
Arrive(p, k, c) ==
    /\ pc[p] = "idle"
    /\ calls[k].phase = "unused"
    /\ \E seen \in Snapshots(c) :
          calls' = [calls EXCEPT ![k] =
              [FreshCall EXCEPT !.phase = "checking", !.on = p, !.client = c, !.seen = seen]]
    /\ pc' = [pc EXCEPT ![p] = "check"]
    /\ UNCHANGED <<now, disk, cred, memory, todo, ledger, dialogs, ruling, admitted>>

(* The confirmation was given, or none was needed: the grant is read again.*)
Recheck(p, k) ==
    /\ pc[p] = "idle"
    /\ calls[k].phase = "confirming" /\ calls[k].on = p
    /\ \E seen \in Snapshots(calls[k].client) :
          calls' = [calls EXCEPT ![k].phase = "rechecking", ![k].seen = seen,
                                 ![k].under = ruling[calls[k].client]]
    /\ pc' = [pc EXCEPT ![p] = "check"]
    /\ UNCHANGED <<now, disk, cred, memory, todo, ledger, dialogs, ruling, admitted>>

Checking(p, k) ==
    pc[p] = "check" /\ calls[k].on = p /\ calls[k].phase \in {"checking", "rechecking"}

(* What check() asks of the grant before its expiry: an active status and, *)
(* for a service account, a credential that still exists.  The mutant      *)
(* trusts the grant alone.                                                 *)
ActiveAlone(k) == calls[k].seen.status = "active"
Backed(k) ==
    /\ calls[k].seen.status = "active"
    /\ calls[k].client \in Service => Present(calls[k].client)
Elapsed(k) == calls[k].seen.expires <= now

Finish(k) == [calls EXCEPT ![k] =
    IF k \in admitted THEN [@ EXCEPT !.phase = "over", !.seen = Absent]
    ELSE [FreshCall EXCEPT !.phase = "over"]]

(* markExpired: whatever the record says now.  A failure to save it makes  *)
(* the check throw; the call is over either way.                           *)
Lapse(p, k) ==
    /\ Checking(p, k)
    /\ Backed(k) /\ Elapsed(k)
    /\ LET c == calls[k].client IN
       IF Merged(p)[c].status \in {"absent", "expired"}
       THEN memory' = [memory EXCEPT ![p] = Merged(p)] /\ disk' = disk
       ELSE \E saved \in Saves : Store(p, Ended(Merged(p), c, "expired"), saved)
    /\ calls' = Finish(k)
    /\ pc' = [pc EXCEPT ![p] = "idle"]
    /\ UNCHANGED <<now, cred, todo, ledger, dialogs, ruling, admitted>>

(* Refused by status, an absent or unreadable credential, account binding, *)
(* address, presets, folders or ledger; or the confirmation was declined.  *)
Refuse(p, k) ==
    /\ \/ Checking(p, k) /\ (Backed(k) /\ Elapsed(k) => Faults)
       \/ pc[p] = "idle" /\ calls[k].phase = "confirming" /\ calls[k].on = p
    /\ calls' = Finish(k)
    /\ pc' = [pc EXCEPT ![p] = "idle"]
    /\ UNCHANGED <<now, disk, cred, memory, todo, ledger, dialogs, ruling, admitted>>

(* The first check never reserves (reserveHourlyToolSlot: false).          *)
Pass(p, k) ==
    /\ Checking(p, k) /\ calls[k].phase = "checking"
    /\ Backed(k) /\ ~Elapsed(k)
    /\ calls' = [calls EXCEPT ![k].phase = "confirming"]
    /\ pc' = [pc EXCEPT ![p] = "idle"]
    /\ UNCHANGED <<now, disk, cred, memory, todo, ledger, dialogs, ruling, admitted>>

(* reserve: one BEGIN IMMEDIATE transaction prunes the rows of the last    *)
(* window, counts the client's and inserts.  The mutant counts a slot too  *)
(* few.                                                                    *)
InWindow(k) == calls[k].at + Window > now
Kept == {k \in ledger : InWindow(k)}
Used(c) == Cardinality({k \in Kept : calls[k].client = c})
RoomForOneMore(c) == c \in Capped => Used(c) <= Cap
Room(c) == c \in Capped => Used(c) < Cap

(* The second check passes and reserves; the handler starts at once, unless *)
(* the ledger's files cannot be secured after the commit: the call is then *)
(* refused and its slot stays taken.                                       *)
Secured(c) == IF Faults /\ c \in Capped THEN BOOLEAN ELSE {TRUE}
Dispatch(p, k) ==
    /\ Checking(p, k) /\ calls[k].phase = "rechecking"
    /\ Backed(k) /\ ~Elapsed(k)
    /\ Room(calls[k].client)
    /\ \E secured \in Secured(calls[k].client) :
          calls' = [calls EXCEPT ![k].phase = IF secured THEN "running" ELSE "over",
                                 ![k].at = now, ![k].seen = Absent]
    /\ ledger' = IF calls[k].client \in Capped THEN Kept \cup {k} ELSE ledger
    /\ admitted' = admitted \cup {k}
    /\ pc' = [pc EXCEPT ![p] = "idle"]
    /\ UNCHANGED <<now, disk, cred, memory, todo, dialogs, ruling>>

(* The handler returns: recordCall counts a success in memory only. *)
Complete(p, k) ==
    /\ pc[p] = "idle"
    /\ calls[k].phase = "running" /\ calls[k].on = p
    /\ LET c == calls[k].client IN
       \/ /\ memory[p][c].status # "absent"
          /\ memory' = [memory EXCEPT ![p][c].total = @ + 1]
       \/ memory' = memory
    /\ calls' = Finish(k)
    /\ UNCHANGED <<now, disk, cred, pc, todo, ledger, dialogs, ruling, admitted>>

-----------------------------------------------------------------------------
(* The world around the stores. *)

Tick ==
    /\ now < MaxTime
    /\ now' = now + 1
    /\ UNCHANGED <<disk, cred, memory, pc, todo, calls, ledger, dialogs, ruling, admitted>>

(* The operator, or a reset, removes the grants file. *)
RemoveFile ==
    /\ disk' = NoGrants
    /\ ruling' = [c \in Clients |-> IF c \in Interactive THEN "none" ELSE ruling[c]]
    /\ UNCHANGED <<now, cred, memory, pc, todo, calls, ledger, dialogs, admitted>>

Crash(p) ==
    /\ p \in Mortal /\ pc[p] # "down"
    /\ pc' = [pc EXCEPT ![p] = "down"]
    /\ memory' = [memory EXCEPT ![p] = NoGrants]
    /\ todo' = [todo EXCEPT ![p] = {}]
    /\ calls' = [k \in Calls |->
                    IF calls[k].on = p THEN Finish(k)[k] ELSE calls[k]]
    /\ dialogs' = {d \in dialogs : d[1] # p}
    /\ UNCHANGED <<now, disk, cred, ledger, ruling, admitted>>

(* index.ts loads: both stores are read (an unreadable one starts empty),  *)
(* then every service account's grant is ensured.                          *)
Boot(p) ==
    /\ pc[p] = "down"
    /\ \E loaded \in {disk} \cup (IF Faults THEN {NoGrants} ELSE {}) :
          memory' = [memory EXCEPT ![p] = loaded]
    /\ \E accounts \in {{s \in Service : Present(s)}} \cup (IF Faults THEN {{}} ELSE {}) :
          /\ todo' = [todo EXCEPT ![p] = accounts]
          /\ pc' = [pc EXCEPT ![p] = IF accounts = {} THEN "idle" ELSE "boot"]
    /\ UNCHANGED <<now, disk, cred, calls, ledger, dialogs, ruling, admitted>>

(* What a daemon does of itself and for its agents. *)
Serve(p) ==
    \/ Flush(p)
    \/ \E saved \in Saves : ExpireStale(p, saved)
    \/ \E c \in Interactive : CreatePending(p, c) \/ Answer(p, c)
    \/ \E s \in Service : Login(p, s)
    \/ \E k \in Calls :
          \/ \E c \in Clients : Arrive(p, k, c)
          \/ Recheck(p, k) \/ Lapse(p, k) \/ Refuse(p, k) \/ Pass(p, k)
          \/ Dispatch(p, k) \/ Complete(p, k)

(* What the operator does in any process: the Agents tab or the CLI. *)
Administer(p) ==
    \/ Reload(p) \/ Prune(p)
    \/ \E c \in Clients : Approve(p, c) \/ Deny(p, c)
    \/ \E s \in Service : Issue(p, s) \/ RevokeCredential(p, s)

Next ==
    \/ Tick \/ RemoveFile
    \/ \E p \in Serving : Serve(p)
    \/ \E p \in Processes :
          \/ Administer(p) \/ Abandon(p) \/ Crash(p) \/ Boot(p)
          \/ \E s \in Service : Ensure(p, s) \/ RevokeGrant(p, s)

Spec == Init /\ [][Next]_vars

(* The clock runs, and the event loop of a process that stays up gets to   *)
(* its timers and to the end of its synchronous sequences.                 *)
Sequence(p) ==
    \/ \E s \in Service : Ensure(p, s) \/ RevokeGrant(p, s)
    \/ \E k \in Calls : Checking(p, k) /\ (Lapse(p, k) \/ Refuse(p, k) \/ Pass(p, k) \/ Dispatch(p, k))
FairSpec ==
    /\ Spec
    /\ WF_vars(Tick)
    /\ \A p \in Serving \ Mortal : SF_vars(ExpireStale(p, TRUE)) /\ WF_vars(Sequence(p))

-----------------------------------------------------------------------------
(* Every variable has the shape the code gives it, and a process has       *)
(* clients left to treat exactly while it is in a sequence over them.      *)
TypeOK ==
    /\ now \in Times
    /\ disk \in [Clients -> Grant]
    /\ cred \in [Service -> [state : {"unissued", "present", "gone"}, expires : Terms]]
    /\ memory \in [Processes -> [Clients -> Grant]]
    /\ pc \in [Processes -> {"idle", "ensure", "revoke", "check", "boot", "down"}]
    /\ todo \in [Processes -> SUBSET Service]
    /\ \A p \in Processes : todo[p] # {} <=> pc[p] \in {"ensure", "revoke", "boot"}
    /\ calls \in [Calls -> Call]
    /\ ledger \subseteq Calls /\ admitted \subseteq Calls
    /\ dialogs \subseteq Processes \X Interactive
    /\ ruling \in [Clients -> {"none", "approved", "revoked"}]

(* A call runs only for an interactive agent whose approval was the        *)
(* operator's last word, or for a service account nobody has revoked, when *)
(* its last check read the stores: whatever copies the processes held,     *)
(* whatever was half done, and however long the confirmation took.         *)
OnlyTheApproved ==
    \A k \in Calls : calls[k].phase = "running" =>
        \/ calls[k].client \in Interactive /\ calls[k].under = "approved"
        \/ calls[k].client \in Service /\ calls[k].under # "revoked"

(* In no window do more calls pass the last gate than the cap allows,      *)
(* counted over all processes and their restarts.                          *)
QuotaHeld ==
    \A c \in Capped :
        Cardinality({k \in admitted : calls[k].client = c /\ InWindow(k)}) <= Cap

(* Nothing but a call past the last gate holds a slot: one that a status,  *)
(* a condition, the preset or the user refused costs the agent nothing.    *)
SlotsAreCalls == ledger \subseteq admitted

(* The ledger charges the calls that ran, and no more of them than the cap. *)
LedgerHolds == QuotaHeld /\ SlotsAreCalls

(* The review queue stays within its limit whichever process adds to it. *)
QueueBounded == Cardinality(PendingIn(disk)) <= MaxPending

(* The count of calls shown for a grant never goes back while it exists. *)
CountersNeverFall ==
    [][\A c \in Clients : disk[c].status # "absent" /\ disk'[c].status # "absent"
           => disk'[c].total >= disk[c].total]_vars

(* A request nobody decides is removed in the end. *)
RequestsResolve ==
    \A c \in Interactive : disk[c].status = "pending" ~> disk[c].status # "pending"

(* Crossing expiresAt is what expires a grant: the grant in force is not   *)
(* marked expired before its own expiry.                                   *)
ExpiryIsDue ==
    [][\A c \in Clients : disk[c].status = "active" /\ disk'[c].status = "expired"
           => disk[c].expires <= now]_vars
=============================================================================
