------------------------------ MODULE Accounts ------------------------------
(***************************************************************************)
(* The mailboxes of one daemon: the account registry on disk               *)
(* (src/src/accounts/registry.ts), the manager that keeps a pair of        *)
(* services per account and reconciles them with it (accounts/manager.ts), *)
(* what the settings server and the tool dispatcher do around the two, and *)
(* the data derived per account (runtime/account-runtime.ts).              *)
(*                                                                         *)
(* An account id names a slot, not a mailbox: an edit can point it at      *)
(* another one.  The registry is read in two looks with awaits between     *)
(* them (the file, then the keychain), connects and disconnects wait for   *)
(* the network, and every reader of mail can be overtaken by an edit.      *)
(***************************************************************************)
EXTENDS Naturals, Sequences, FiniteSets, SequencesExt

CONSTANTS
    Ids, Primary,     \* account ids; the one that defaultConfig() has
    Boxes, NoBox,     \* mailboxes: host and user of an account
    Keys, NoKey,      \* passwords
    Requests,         \* requests to the settings server
    MaxJobs           \* readers of mail at work at the same time

ASSUME NamesAssumption ==
    /\ Primary \in Ids /\ NoBox \notin Boxes /\ NoKey \notin Keys
    /\ MaxJobs \in Nat

VARIABLES
    disk,       \* accounts (a box each), the chosen one, the quarantine mark
    keychain,   \* the password kept for each id
    request,    \* what each request to the settings server is at
    newest,     \* rebuildVersion
    queue,      \* rebuildTail: the rebuilds asked for, oldest first
    snapshot,   \* what the rebuild at work has read, if it has
    suspended,  \* keychainHydrationSuspended
    live,       \* perAccount: the index of an id's services, 0 for none
    services,   \* every pair of services an id ever had
    epoch,      \* connectionVersions
    tail,       \* connectTails: connects and refreshes, oldest first
    active,     \* _activeAccountId
    runtime,    \* accountRuntime: generation and derived data per id
    jobs,       \* the readers of mail at work
    written,    \* history: configurations saved so far
    applied,    \* history: the configuration the manager last applied
    misserved   \* history: an answer was of another mailbox than its id names

store == <<disk, keychain, written>>
pairs == <<live, services, epoch, tail, active>>
rebuild == <<newest, queue, snapshot, suspended, applied>>
vars == <<store, request, rebuild, pairs, runtime, jobs, misserved>>

Off == "off"
NoAttempt == [by |-> "none", key |-> NoKey]

(* A pair of services.  box and key are its spec; box never changes, and   *)
(* the name of the mailbox is kept here after scrubAccountSpec.            *)
Fresh(box, key) ==
    [box |-> box, key |-> key, client |-> Off, config |-> NoKey,
     attempt |-> NoAttempt, idle |-> FALSE, retired |-> FALSE]
NewRuntime == [generation |-> 0, derived |-> {}, instance |-> 0]
NoRequest == [at |-> "idle", kind |-> "none", id |-> Primary]

Listed == {a \in Ids : disk.box[a] # NoBox}
Live == {a \in Ids : live[a] # 0}
Current(a) == services[a][live[a]]

(* registryFromConfig: a chosen id that is gone gives way to the first.    *)
Fallback(accounts, id) == IF id \in accounts THEN {id} ELSE accounts

Init ==
    /\ \E accounts \in SUBSET Ids, box \in Boxes :
         /\ Primary \in accounts
         /\ disk = [box |-> [a \in Ids |-> IF a \in accounts THEN box ELSE NoBox],
                    chosen |-> Primary, marked |-> FALSE]
         /\ live = [a \in Ids |-> IF a \in accounts THEN 1 ELSE 0]
         /\ \E key \in Keys :
              /\ keychain = [a \in Ids |-> IF a \in accounts THEN key ELSE NoKey]
              /\ services = [a \in Ids |-> IF a \in accounts THEN <<Fresh(box, key)>> ELSE <<>>]
    /\ request = [r \in Requests |-> NoRequest]
    /\ newest = 0 /\ queue = <<>> /\ snapshot = <<>> /\ suspended = FALSE
    /\ epoch = [a \in Ids |-> 0] /\ tail = [a \in Ids |-> <<>>]
    /\ active = Primary
    /\ runtime = [a \in Ids |-> NewRuntime]
    /\ jobs = {} /\ written = 0 /\ applied = 0 /\ misserved = FALSE

-----------------------------------------------------------------------------
(* Requests to the settings server.  The registry is read and written      *)
(* under the config lock; a password goes to the keychain first.           *)

Locked == \E r \in Requests : request[r].at \in {"saving", "clearing", "resetting"}
At(r, at) == request' = [request EXCEPT ![r].at = at]

(* Create an account under a new id, or change one.                        *)
SaveSecret(r, a, key) ==
    /\ request[r].at = "idle" /\ ~Locked
    /\ a \in Listed \/ (live[a] = 0 /\ services[a] = <<>>)
    /\ request' = [request EXCEPT ![r] = [at |-> "saving", kind |-> "edit", id |-> a]]
    /\ keychain' = [keychain EXCEPT ![a] = key]
    /\ UNCHANGED <<disk, written, rebuild, pairs, runtime, jobs, misserved>>

Commit(r, box) ==
    /\ request[r].at = "saving" /\ At(r, "written")
    /\ disk' = [disk EXCEPT !.box[request[r].id] = box]
    /\ written' = written + 1
    /\ UNCHANGED <<keychain, rebuild, pairs, runtime, jobs, misserved>>

(* The last account is never deleted; the password goes after the lock.    *)
Delete(r, a) ==
    /\ request[r].at = "idle" /\ ~Locked
    /\ a \in Listed /\ Listed # {a}
    /\ \E next \in Fallback(Listed \ {a}, disk.chosen) :
         disk' = [disk EXCEPT !.box[a] = NoBox, !.chosen = next]
    /\ written' = written + 1
    /\ request' = [request EXCEPT ![r] = [at |-> "scrubbing", kind |-> "delete", id |-> a]]
    /\ UNCHANGED <<keychain, rebuild, pairs, runtime, jobs, misserved>>

Scrub(r) ==
    /\ request[r].at = "scrubbing" /\ At(r, "written")
    /\ keychain' = [keychain EXCEPT ![request[r].id] = NoKey]
    /\ UNCHANGED <<disk, written, rebuild, pairs, runtime, jobs, misserved>>

Activate(r, a) ==
    /\ request[r].at = "idle" /\ ~Locked /\ a \in Listed
    /\ disk' = [disk EXCEPT !.chosen = a]
    /\ written' = written + 1
    /\ request' = [request EXCEPT ![r] = [at |-> "written", kind |-> "activate", id |-> a]]
    /\ UNCHANGED <<keychain, rebuild, pairs, runtime, jobs, misserved>>

(* Each mutation but an uncleared reset asks for a rebuild and waits.      *)
Enqueue(r) ==
    /\ newest' = newest + 1
    /\ queue' = Append(queue, [version |-> newest + 1, by |-> r])

AskRebuild(r) ==
    /\ request[r].at = "written" /\ At(r, "rebuilding")
    /\ Enqueue(r)
    /\ UNCHANGED <<store, snapshot, suspended, applied, pairs, runtime, jobs, misserved>>

(* What the endpoint does once its rebuild is done: connect the account    *)
(* that changed, if the manager knows it.                                  *)
ConnectTask(a) == [kind |-> "connect", of |-> live[a], epoch |-> epoch[a], at |-> "queued"]
RefreshTask(i) == [kind |-> "refresh", of |-> i, epoch |-> 0, at |-> "queued"]

Answer(r) ==
    /\ request[r].at = "resolved" /\ At(r, "answered")
    /\ tail' = IF request[r].kind = "edit" /\ request[r].id \in Live
               THEN [tail EXCEPT ![request[r].id] = Append(@, ConnectTask(request[r].id))]
               ELSE tail
    /\ UNCHANGED <<store, rebuild, live, services, epoch, active, runtime, jobs, misserved>>

-----------------------------------------------------------------------------
(* AccountManager: retiring and refreshing services.                       *)

StopIdle(s) == [s EXCEPT !.idle = FALSE]
Disconnect(s) == [s EXCEPT !.client = Off, !.attempt = NoAttempt]
WipeImap(s) == [s EXCEPT !.config = NoKey]
Retire(s) == [WipeImap(Disconnect(StopIdle(s))) EXCEPT !.retired = TRUE, !.key = NoKey]

(* applyRegistry: what becomes of id a when the registry says box and key. *)
(* A box that differs is another mailbox: the pair is replaced.            *)
Repointed(a, spec) == a \in Live /\ spec.box # NoBox /\ Current(a).box # spec.box
Rotated(a, spec) == a \in Live /\ spec.box = Current(a).box /\ Current(a).key # spec.key
Removed(a, spec) == a \in Live /\ spec.box = NoBox
Added(a, spec) == a \notin Live /\ spec.box # NoBox

Reconciled(a, spec) ==
    LET old == IF a \in Live THEN [services[a] EXCEPT ![live[a]] = Retire(@)]
                             ELSE services[a]
    IN  IF Repointed(a, spec) \/ Added(a, spec) THEN Append(old, Fresh(spec.box, spec.key))
        ELSE IF Removed(a, spec) THEN old
        ELSE IF Rotated(a, spec)
        THEN [services[a] EXCEPT ![live[a]] = [StopIdle(@) EXCEPT !.key = spec.key]]
        ELSE services[a]

(* invalidateConnection; a removed id without work forgets its counter.    *)
NextEpoch(a, spec) ==
    IF Removed(a, spec) /\ tail[a] = <<>> THEN 0
    ELSE IF Repointed(a, spec) \/ Rotated(a, spec) \/ Removed(a, spec) THEN epoch[a] + 1
    ELSE epoch[a]

(* The "accounts-rebuilt" handler: resetMailbox of what was repointed or   *)
(* removed, then disposeAccountsExcept.  A generation starts at 0 again    *)
(* when an id comes back, in another runtime object.  The mutant empties   *)
(* the data of a repointed id but keeps its generation.                    *)
DerivedSameGeneration(a, spec) ==
    IF Removed(a, spec) THEN [NewRuntime EXCEPT !.instance = runtime[a].instance + 1]
    ELSE IF Repointed(a, spec) THEN [runtime[a] EXCEPT !.derived = {}]
    ELSE runtime[a]
Derived(a, spec) ==
    LET r == runtime[a] IN
    IF Removed(a, spec) THEN [NewRuntime EXCEPT !.instance = r.instance + 1]
    ELSE IF Repointed(a, spec)
    THEN [r EXCEPT !.generation = @ + 1, !.derived = {}]
    ELSE r

Apply(specs, chosen, from) ==
    LET known == {a \in Ids : specs[a].box # NoBox} IN
    /\ services' = [a \in Ids |-> Reconciled(a, specs[a])]
    /\ live' = [a \in Ids |-> IF a \in known THEN Len(Reconciled(a, specs[a])) ELSE 0]
    /\ epoch' = [a \in Ids |-> NextEpoch(a, specs[a])]
    /\ tail' = [a \in Ids |-> IF Rotated(a, specs[a])
                              THEN Append(tail[a], RefreshTask(live[a])) ELSE tail[a]]
    /\ active' \in Fallback(known, chosen)
    /\ runtime' = [a \in Ids |-> Derived(a, specs[a])]
    /\ applied' = from

-----------------------------------------------------------------------------
(* rebuildFromRegistryAsync: one at a time, oldest first.                  *)

Head1 == Head(queue)
Resolved(by) == request' = [request EXCEPT ![by].at = "resolved"]

(* A newer rebuild has been asked for: this one has nothing to do.         *)
SkipRebuild ==
    /\ queue # <<>> /\ snapshot = <<>>
    /\ Head1.version # newest
    /\ queue' = Tail(queue) /\ Resolved(Head1.by)
    /\ UNCHANGED <<store, newest, snapshot, suspended, applied, pairs, runtime, jobs, misserved>>

ReadAccounts ==
    /\ queue # <<>> /\ snapshot = <<>>
    /\ Head1.version = newest
    /\ snapshot' = <<[from |-> written, disk |-> disk, unhydrated |-> suspended \/ disk.marked]>>
    /\ UNCHANGED <<store, request, newest, queue, suspended, applied, pairs, runtime, jobs, misserved>>

Specs(d, plain) ==
    [a \in Ids |-> [box |-> d.box[a],
                    key |-> IF plain \/ d.box[a] = NoBox THEN NoKey ELSE keychain[a]]]

(* The secrets have been read; the snapshot is dropped when it is old.     *)
WhateverIsNewest == queue # <<>>
StillNewest == Head1.version = newest
FinishRebuild ==
    /\ snapshot # <<>>
    /\ queue' = Tail(queue) /\ Resolved(Head1.by) /\ snapshot' = <<>>
    /\ IF StillNewest
       THEN LET read == snapshot[1] IN
            Apply(Specs(read.disk, read.unhydrated), read.disk.chosen, read.from)
       ELSE UNCHANGED <<services, live, epoch, tail, active, runtime, applied>>
    /\ UNCHANGED <<store, newest, suspended, jobs, misserved>>

(* The read fails: the endpoint answers that a restart is needed.          *)
RebuildFails ==
    /\ snapshot # <<>>
    /\ queue' = Tail(queue) /\ snapshot' = <<>>
    /\ request' = [request EXCEPT ![Head1.by].at = "failed"]
    /\ UNCHANGED <<store, newest, suspended, applied, pairs, runtime, jobs, misserved>>

-----------------------------------------------------------------------------
(* /api/reset, under the config lock from the deletion of the secrets to   *)
(* the end of the rebuild.                                                 *)

(* An entry that could not be deleted, or may not have been, is left.      *)
EraseSecrets(r, left) ==
    /\ request[r].at = "idle" /\ ~Locked
    /\ keychain' = [a \in Ids |-> IF a \in left THEN keychain[a] ELSE NoKey]
    /\ \E kind \in (IF left = {} THEN {"reset"} ELSE {}) \cup {"uncleared"} :
         request' = [request EXCEPT ![r] = [at |-> "clearing", kind |-> kind, id |-> Primary]]
    /\ UNCHANGED <<disk, written, rebuild, pairs, runtime, jobs, misserved>>

Defaults(box, marked) ==
    [box |-> [a \in Ids |-> IF a = Primary THEN box ELSE NoBox],
     chosen |-> Primary, marked |-> marked]

Reset(r, box) ==
    /\ request[r].at = "clearing" /\ request[r].kind = "reset"
    /\ disk' = Defaults(box, FALSE) /\ written' = written + 1
    /\ At(r, "resetting") /\ Enqueue(r)
    /\ UNCHANGED <<keychain, snapshot, suspended, applied, pairs, runtime, jobs, misserved>>

(* rebuildFromRegistryWithoutKeychain: at once, and for good.              *)
ResetUncleared(r, box) ==
    /\ request[r].at = "clearing" /\ request[r].kind = "uncleared"
    /\ disk' = Defaults(box, TRUE) /\ written' = written + 1
    /\ At(r, "answered")
    /\ suspended' = TRUE /\ newest' = newest + 1
    /\ Apply([a \in Ids |-> [box |-> disk'.box[a], key |-> NoKey]], Primary, written')
    /\ UNCHANGED <<keychain, queue, snapshot, jobs, misserved>>

-----------------------------------------------------------------------------
(* connectTails: the connects and refreshes of one account, one at a time. *)

IsCurrentPair(a, task) == live[a] = task.of /\ ~services[a][task.of].retired
IsCurrent(a, task) ==
    /\ live[a] = task.of /\ ~services[a][task.of].retired
    /\ epoch[a] = task.epoch
StillLive(a, task) == live[a] = task.of /\ ~services[a][task.of].retired

(* finishConnectTask; the last task of an id that is gone clears up.       *)
FinishTask(a) ==
    /\ tail' = [tail EXCEPT ![a] = Tail(@)]
    /\ epoch' = [epoch EXCEPT ![a] = IF Tail(tail[a]) = <<>> /\ a \notin Live THEN 0 ELSE @]

Serve(a, i, s) == services' = [services EXCEPT ![a][i] = s]

(* connectAll at start-up, and the watchdog, ask for connects as well; each *)
(* takes the place of a request.                                           *)
Warm(r, a) ==
    /\ request[r].at = "idle" /\ a \in Live /\ At(r, "answered")
    /\ tail' = [tail EXCEPT ![a] = Append(@, ConnectTask(a))]
    /\ UNCHANGED <<store, rebuild, live, services, epoch, active, runtime, jobs, misserved>>

Connecting(s, by, key) ==
    [s EXCEPT !.client = Off, !.config = key, !.attempt = [by |-> by, key |-> key]]

BeginConnect(a) ==
    /\ tail[a] # <<>>
    /\ LET task == Head(tail[a]) s == services[a][task.of] IN
       /\ task.kind = "connect" /\ task.at = "queued"
       /\ IF IsCurrent(a, task)
          THEN /\ Serve(a, task.of, Connecting(s, "task", s.key))
               /\ tail' = [tail EXCEPT ![a][1].at = "running"]
               /\ UNCHANGED epoch
          ELSE FinishTask(a) /\ UNCHANGED services
    /\ UNCHANGED <<store, request, rebuild, live, active, runtime, jobs, misserved>>

(* No password, no login.  A connect without one stores an empty           *)
(* configuration, as good as none.                                         *)
CanLogIn(s) == s.attempt.key # NoKey

(* connect returns: as this attempt's, or superseded by another connect or *)
(* a disconnect.  Stale connections are cleaned up; see CleanUp.           *)
Landed(s, ok) ==
    IF s.attempt.by # "task" THEN s
    ELSE [s EXCEPT !.attempt = NoAttempt, !.client = IF ok THEN s.attempt.key ELSE Off]

EndConnect(a, ok) ==
    /\ tail[a] # <<>>
    /\ ok => CanLogIn(services[a][Head(tail[a]).of])
    /\ LET task == Head(tail[a])
           s == services[a][task.of]
           landed == Landed(s, ok)
           connected == ok /\ s.attempt.by = "task"
       IN
       /\ task.kind = "connect" /\ task.at = "running"
       /\ IF IsCurrent(a, task)
          THEN Serve(a, task.of, [landed EXCEPT !.idle = @ \/ connected]) /\ FinishTask(a)
          ELSE IF ~StillLive(a, task)
          THEN Serve(a, task.of, Retire(landed)) /\ FinishTask(a)
          ELSE /\ Serve(a, task.of, Disconnect(StopIdle(landed)))
               /\ tail' = [tail EXCEPT ![a][1].at = "closing"]
               /\ UNCHANGED epoch
    /\ UNCHANGED <<store, request, rebuild, live, active, runtime, jobs, misserved>>

(* queueImapRefresh.                                                       *)
BeginRefresh(a) ==
    /\ tail[a] # <<>>
    /\ LET task == Head(tail[a]) s == services[a][task.of] IN
       /\ task.kind = "refresh" /\ task.at = "queued"
       /\ IF StillLive(a, task)
          THEN /\ Serve(a, task.of, Disconnect(s))
               /\ tail' = [tail EXCEPT ![a][1].at = "closing"]
               /\ UNCHANGED epoch
          ELSE Serve(a, task.of, Retire(s)) /\ FinishTask(a)
    /\ UNCHANGED <<store, request, rebuild, live, active, runtime, jobs, misserved>>

(* The logout of a refresh or of a stale connect has ended: wipeImap.      *)
CleanUp(a) ==
    /\ tail[a] # <<>> /\ Head(tail[a]).at = "closing"
    /\ LET i == Head(tail[a]).of IN Serve(a, i, WipeImap(services[a][i]))
    /\ FinishTask(a)
    /\ UNCHANGED <<store, request, rebuild, live, active, runtime, jobs, misserved>>

(* The server or the network drops a connection.                           *)
Drop(a, i) ==
    /\ i \in DOMAIN services[a] /\ services[a][i].client # Off
    /\ Serve(a, i, [services[a][i] EXCEPT !.client = Off])
    /\ UNCHANGED <<store, request, rebuild, live, epoch, tail, active, runtime, jobs, misserved>>

-----------------------------------------------------------------------------
(* Readers of mail.  A tool call holds the services of its route, a fill   *)
(* of the analytics cache and a background sync a generation too.          *)

Job(kind, a, i) ==
    [kind |-> kind, id |-> a, of |-> i, generation |-> runtime[a].generation,
     instance |-> runtime[a].instance, at |-> "begun", got |-> NoBox]

Start(kind, a) ==
    /\ Cardinality(jobs) < MaxJobs /\ a \in Live
    /\ kind = "sync" => Current(a).client # Off
    /\ jobs' = jobs \cup {Job(kind, a, live[a])}
    /\ UNCHANGED <<store, request, rebuild, pairs, runtime, misserved>>

(* A tool call asks for the analytics of its route, which may be old, and  *)
(* waits for them.  A cache grows stale with time and with every change of *)
(* the mailbox, so a fill may always be due; one fill serves all calls of  *)
(* its generation.                                                         *)
StartFill(j) ==
    /\ j.kind = "call" /\ j.at = "begun"
    /\ \A k \in jobs : ~(k.kind = "fill" /\ k.id = j.id
                          /\ k.generation = runtime[j.id].generation)
    /\ jobs' = (jobs \ {j}) \cup {Job("fill", j.id, j.of)}
    /\ UNCHANGED <<store, request, rebuild, pairs, runtime, misserved>>

(* ensureConnection of a reader whose client is gone: reconnect with the   *)
(* configuration of the last connect.                                      *)
Reconnect(j) ==
    /\ j.at = "begun"
    /\ LET s == services[j.id][j.of] IN
       /\ s.client = Off /\ s.config # NoKey
       /\ Serve(j.id, j.of, Connecting(s, "tool", s.config))
    /\ UNCHANGED <<store, request, rebuild, live, epoch, tail, active, runtime, jobs, misserved>>

Reconnected(a, i, ok) ==
    /\ i \in DOMAIN services[a] /\ services[a][i].attempt.by = "tool"
    /\ LET s == services[a][i] IN
       Serve(a, i, [s EXCEPT !.attempt = NoAttempt, !.client = IF ok THEN s.attempt.key ELSE Off])
    /\ UNCHANGED <<store, request, rebuild, live, epoch, tail, active, runtime, jobs, misserved>>

(* The mail arrives, of the mailbox the client is connected to.            *)
Read(j) ==
    /\ j.at = "begun" /\ services[j.id][j.of].client # Off
    /\ jobs' = (jobs \ {j}) \cup {[j EXCEPT !.at = "read", !.got = services[j.id][j.of].box]}
    /\ UNCHANGED <<store, request, rebuild, pairs, runtime, misserved>>

(* It does not: a tool call and a sync end with an error, a fill goes on   *)
(* with nothing, which it will keep.                                       *)
ReadFails(j) ==
    /\ j.at = "begun"
    /\ jobs' = (jobs \ {j}) \cup
         (IF j.kind = "fill" THEN {[j EXCEPT !.at = "read"]} ELSE {})
    /\ UNCHANGED <<store, request, rebuild, pairs, runtime, misserved>>

(* isCurrentAccountRoute and isCurrentGeneration.                          *)
OnRoute(j) == live[j.id] = j.of
SameGeneration(j) ==
    /\ live[j.id] # 0 /\ runtime[j.id].generation = j.generation
    /\ j.kind = "fill" => runtime[j.id].instance = j.instance

(* The result of a call is answered, or discarded; that of a resource or a *)
(* prompt also when another account has become the active one.             *)
Answerable(j) == OnRoute(j)
OfMailbox(a, box) == a \in Live /\ Current(a).box = box
Return(j) ==
    /\ j.at = "read" /\ j.kind = "call"
    /\ jobs' = jobs \ {j}
    /\ misserved' = (misserved \/ (Answerable(j) /\ j.got # NoBox /\ ~OfMailbox(j.id, j.got)))
    /\ UNCHANGED <<store, request, rebuild, pairs, runtime>>

(* A fill sets the analytics cache, a sync the analytics and the rows of   *)
(* the index: derived is the mailboxes whose mail these hold.  A failed    *)
(* fill keeps nothing, like that of an empty mailbox.                      *)
Keep(j) ==
    /\ j.at = "read" /\ j.kind \in {"fill", "sync"}
    /\ jobs' = (jobs \ {j}) \cup (IF j.kind = "fill" THEN {[j EXCEPT !.kind = "call"]} ELSE {})
    /\ runtime' =
         IF j.got # NoBox /\ SameGeneration(j) /\ (j.kind = "sync" => OnRoute(j))
         THEN [runtime EXCEPT ![j.id].derived = @ \cup {j.got}]
         ELSE runtime
    /\ UNCHANGED <<store, request, rebuild, pairs, misserved>>

-----------------------------------------------------------------------------
Edits ==
    \E r \in Requests :
        \/ \E a \in Ids, key \in Keys : SaveSecret(r, a, key)
        \/ \E box \in Boxes : Commit(r, box) \/ Reset(r, box) \/ ResetUncleared(r, box)
        \/ \E a \in Ids : Delete(r, a) \/ Activate(r, a)
        \/ \E left \in SUBSET Ids : EraseSecrets(r, left)
        \/ Scrub(r)

Endpoints ==
    \E r \in Requests : AskRebuild(r) \/ Answer(r) \/ \E a \in Ids : Warm(r, a)
Rebuilds == SkipRebuild \/ ReadAccounts \/ FinishRebuild \/ RebuildFails
Connects ==
    \E a \in Ids :
        \/ BeginConnect(a) \/ BeginRefresh(a) \/ CleanUp(a)
        \/ \E ok \in BOOLEAN : EndConnect(a, ok)
Network ==
    \E a \in Ids : \E i \in DOMAIN services[a] :
             Drop(a, i) \/ \E ok \in BOOLEAN : Reconnected(a, i, ok)
Readers ==
    \/ \E kind \in {"call", "sync"}, a \in Ids : Start(kind, a)
    \/ \E j \in jobs :
        \/ StartFill(j) \/ Reconnect(j) \/ Read(j) \/ ReadFails(j)
        \/ Return(j) \/ Keep(j)

Next == Edits \/ Endpoints \/ Rebuilds \/ Connects \/ Network \/ Readers

Spec == Init /\ [][Next]_vars

-----------------------------------------------------------------------------
Attempt == [by : {"none", "task"}, key : Keys \cup {NoKey}] \cup [by : {"tool"}, key : Keys]
Service == [box : Boxes, key : Keys \cup {NoKey}, client : Keys \cup {Off},
            config : Keys \cup {NoKey},
            attempt : Attempt,
            idle : BOOLEAN, retired : BOOLEAN]
Task == [kind : {"connect", "refresh"}, of : Nat, epoch : Nat,
         at : {"queued", "running", "closing"}]
Work == [kind : {"call", "sync", "fill"}, id : Ids, of : Nat \ {0},
         generation : Nat, instance : Nat, at : {"begun", "read"},
         got : Boxes \cup {NoBox}]

TypeOK ==
    /\ disk \in [box : [Ids -> Boxes \cup {NoBox}], chosen : Ids, marked : BOOLEAN]
    /\ keychain \in [Ids -> Keys \cup {NoKey}]
    /\ newest \in Nat /\ written \in Nat /\ applied \in 0..written
    /\ \A i \in DOMAIN queue : queue[i].by \in Requests /\ queue[i].version \in 1..newest
    /\ Len(snapshot) <= 1 /\ suspended \in BOOLEAN
    /\ \A a \in Ids :
         /\ \A i \in DOMAIN services[a] : services[a][i] \in Service
         /\ live[a] \in 0..Len(services[a]) /\ epoch[a] \in Nat
         /\ \A i \in DOMAIN tail[a] :
              tail[a][i] \in Task /\ tail[a][i].of \in DOMAIN services[a]
    /\ active \in Ids
    /\ jobs \subseteq Work

(* The manager never goes back to an older configuration than the one it   *)
(* has applied, whichever keychain read is the slow one (the two checks in *)
(* rebuildFromRegistryAsync).                                              *)
NewestRegistryWins == [][applied' >= applied]_applied

(* Services that were replaced or removed are dead for good, whatever was  *)
(* under way with them: no connection, no configuration to make one with,  *)
(* no password, no IDLE loop (retireServices, cleanUpStaleConnect).        *)
RetiredStayDead ==
    \A a \in Ids : \A i \in DOMAIN services[a] :
        live[a] # i =>
            LET s == services[a][i] IN
            s.client = Off /\ s.config = NoKey /\ s.key = NoKey /\ ~s.idle

(* The IDLE loop belongs to the current pair of its account and was        *)
(* started with its current password (isCurrentConnection).                *)
IdleIsCurrent ==
    \A a \in Ids : \A i \in DOMAIN services[a] :
        services[a][i].idle => live[a] = i /\ services[a][i].config = services[a][i].key

(* What is derived from mail, and what is answered, is of the mailbox that *)
(* the id names now: the fill that was started before an id was repointed  *)
(* never fills the new mailbox's cache (getAnalyticsEmails, resetMailbox,  *)
(* syncAccountBackground, isCurrentAccountRoute).                          *)
OwnMailboxOnly ==
    /\ ~misserved
    /\ \A a \in Ids : \A box \in runtime[a].derived : OfMailbox(a, box)

(* After a reset that may have left a password in the keychain, no account *)
(* has one, whatever rebuild was under way (rebuildFromRegistryWithoutKey- *)
(* chain).                                                                 *)
SuspendedHoldNoSecret ==
    suspended => \A a \in Live : Current(a).key = NoKey /\ ~Current(a).idle

(* No services but an account's current ones do anything, and those only    *)
(* with its current password, of which a partial reset leaves none.         *)
ServicesHold == RetiredStayDead /\ IdleIsCurrent /\ SuspendedHoldNoSecret
=============================================================================
