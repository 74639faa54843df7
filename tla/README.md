# Verification of mailpouch

mailpouch gives AI agents access to a Proton mailbox through Proton Bridge: an
MCP server (stdio or HTTP) whose tools read, change and send mail, with one
approval per agent, a settings web page, and a queue of scheduled emails. This
directory holds TLA+ modules of the parts of it that are hard to test, the TLC
configurations that check them on small instances, and theorems with proofs
checked by TLAPS.

All source paths below are relative to the repository root, which
`PROJECT.json` calls `src/`: the file `src/services/scheduler.ts` of the
repository is `src/src/services/scheduler.ts` there and in the comments of the
modules.

Contents: 1 the system; 2 how the project is organised; 3 the modules; 4 the
runs, their bounds and fairness; 5 what is proved; 6 findings; 7 divergences
seen while modelling; 8 what is not modelled.

## 1. The system

### 1.1 Processes and threads

Three kinds of process share one home directory: the **daemon** (`src/index.ts`,
which speaks MCP), a **settings-only** process (`--settings-only`, the web page
without a daemon) and one-shot **CLI** commands (`mailpouch agent approve ...`).
A singleton guard (`src/utils/singleton-lock.ts`) keeps a second daemon of the
same configuration profile from starting; daemons of other profiles, or started
with `MAILPOUCH_NO_SINGLETON=1` "for intentional multi-instance setups", share
the grants, the credentials and the quota database all the same.
Every process is one JavaScript thread. Code between two awaits is atomic with
respect to the same process; other processes interleave with it at every
file-system call. Hence three sources of concurrency, and the modules treat them
differently: *awaits* inside a daemon (scheduler, deadline coordinator, the
confirmation of a tool call, connects, rebuilds), *files* between processes
(locks, grants, service accounts, quota database, configuration, keychain), and
*the outside*: other clients of the mailbox, the server, the keychain, the
resolver of names, and a user with several browser tabs.

### 1.2 Inventory

| Component (source) | State it keeps | Operations | Hard behaviour | What makes it correct | Module |
|---|---|---|---|---|---|
| File lock (`utils/file-lock.ts`) | a directory `<store>.lock` with one owner record | withFileLock: create, read owner, reclaim, release | several system calls per operation, death between any two, PID reuse, failing writes | exclusion; nobody takes a live holder's record | `FileLock` |
| Configuration lock and saves (`config/loader.ts`) | lock directory, a queue per process, the config file | withConfigLock(Async), saveConfig | synchronous and queued writers of one process beside other processes, a dead owner | no lost update; the queue moves | `ConfigLock` |
| Secrets (`config/loader.ts`, `security/keychain.ts`, `settings/server.ts`) | keychain entries, plaintext and encrypted copies in the config, what the clients hold | save, clear, reset, migrate, quarantine, load | two places per secret, keychain comes and goes, crash half way, migration of older layouts | never an older secret than the last answer said; a saved one is served | `IntegrationSecrets`, `MailboxSecrets` |
| Scheduled-send queue (`services/scheduler.ts`) | `items`, store file, `isProcessing`, timer | schedule, cancel, processDue, quarantineAccount, migrate, load, persist | crash between send and record, failing writes, cancel or repoint during a send, retries across restarts | no duplicate, no misrouting, bounded retries, nothing lost, everything gets an outcome | `Scheduler`, `Delivery` |
| SMTP service (`services/smtp-service.ts`) | pool, generation, backoff | sendEmail, reinitialize, abort, wipe | a pool retired under a send or a connecting socket | a retired generation is powerless; an ambiguous send is reported as ambiguous | `Submission`, outcomes in `Scheduler` |
| Mutation deadline coordinator (`services/mailbox-mutation-deadline.ts`) | per-call state, `activeScopeCounts`, `activeMutationsByTransport` | withMailboxMutationDeadline, withBackgroundAccountMailMutation, abortMutationGroup | commands of several calls share a transport; timer, client abort and completion race | callers are told what is known; no write after an answer; an abort closes no more than it must | `MutationDeadline` |
| IMAP service (`services/simple-imap-service.ts`) | connection, IDLE loop, message cache, folder cache | connect, reconnect, refresh, move, copy, delete, label, flag, read, create/rename/delete mailboxes, list | overtaking connects, lost answers, other clients, UIDVALIDITY, a server that answers OK and does nothing | counts say what happened; mail is lost only from the trash; no socket leaks; system mailboxes stay | `ImapConnection`, `Mailbox`, `Folders` |
| Accounts (`accounts/*.ts`) | registry in the config, services per account, rebuild version | edit, activate, rebuild, swap, retire, connect | asynchronous keychain reads overtaken by newer rebuilds, retired services still connecting | the newest registry wins; a retired service never serves; mail stays with its mailbox | `Accounts` |
| Account runtime, full-text index (`runtime/account-runtime.ts`, `services/fts-service.ts`) | analytics cache, fetch in flight, index with an owner marker | get, fetch, sync, rebuild, invalidate, switch index | a fetch in flight when the account is repointed; another process rebinds the index | nothing derived from a former mailbox is found again | `AccountRuntime` |
| Reminders (`services/reminder-service.ts`) | reminder file | add, cancel, scan, prune, quarantine, migrate | write fails between fired and answered, account repointed, restart | answered once, for its mailbox only; nothing forgotten | `Reminders` |
| Agent grants (`agents/grant-store.ts`, `grant-manager.ts`) | grants file, a copy per process, counters | createPending, approve, deny, expire, prune, check, flush | whole-file rewrites by several processes; a check, minutes of confirmation, a second check | only the approved run; bounded queue; requests resolve | `Grants` |
| Service accounts, quota ledger | credentials file; SQLite reservations | issue, verify, revoke; reserve | two files, one write fails; several daemons at the last slot | a revoked credential stops calls; the cap holds over all daemons | `Grants` |
| Folder scope of a grant (`agents/grant-manager.ts`, `tools/*.ts`) | none | folders of a call as gate and handler see them | the gate and each handler parse raw arguments separately | a handler names no mailbox outside the allowlist | `FolderScope` |
| Tool-call gates (`index.ts`, `permissions/manager.ts`) | a cached configuration, rate buckets, audit rows | route, check, confirm, check again, run, answer | minutes between check and run while presets, switches and routes change | nothing runs past a gate that has closed; every call is accounted for | `CallGate` |
| Escalation (`permissions/escalation.ts`) | challenge file, preset of the config | request, approve, deny, expire | two consoles and an agent on one file; the decision and the preset are two writes | one challenge, one decision, in time | `Escalation` |
| OAuth tokens (`transports/oauth-*.ts`) | codes, clients, tokens in memory and file | register, authorize, exchange, verify, purge | purge racing an unreadable store; restart after a failed persist | a token of a revoked agent is refused for ever; a code is used once | `OAuthTokens` |
| HTTP transport (`transports/http.ts`, `rate-limit.ts`) | session table, buckets | open, route, stream, close a session; take | sessions closed and opened while a body is read; eviction of buckets | a session serves the caller that opened it; the rate is held | `HttpSessions`, `TokenBucket` |
| Webhooks (`notifications/webhooks.ts`) | attempts of the deliveries under way | deliver, deliverAll | names rebound between check and connect; retries, late answers | bounded attempts, to checked addresses only | `Webhooks` |
| Daemon (`index.ts`, `utils/singleton-lock.ts`, `bridge-watchdog-route.ts`) | singleton lock, order of start and shutdown, watchdog | start, accounts-rebuilt handler, watchdog tick, shutdown | shutdown during start, two daemons, a rebuild that answers after retirement, overlapping ticks | one process connects; Bridge is launched only so often | `Daemon`, `BridgeWatchdog` |
| Settings server and page (`settings/*.ts`) | sessions, limiter; forms filled in the browser | exchange token, save, reset, activate | forms filled before a reset and saved after it; tabs; restarts | nothing from before a reset is stored after it; changes need a session | `SettingsAccess`, `SettingsPage`, together `SettingsServer` |
| Vault log (`services/pass-service.ts`) | a hash-chained log | pass calls, appends | client replaced under a running call, failed appends, torn rows | the log tells every answer | `PassAudit` |
| Improvement loop (`scripts/improvement-loop.mjs`) | snapshot, history, lock | init, begin, validate, complete, audit | killed between two writes; the workspace edited under a validation | the history is what the snapshot went through | `ImprovementLoop` |

`PROJECT.json` lists every component with its status, and under `hazards` the
lines where the code is exposed to interleavings, crashes and failures, with the
properties that would catch each.

### 1.3 What the parts say to each other

* A tool call passes `CallGate` (preset, switch, rate) and `Grants` (approval,
  expiry, cap; the folder condition is `FolderScope`), both asked twice around
  the confirmation, then runs under the coordinator of `MutationDeadline`, whose
  commands are on the IMAP service (`Mailbox`, `Folders` over `ImapConnection`)
  and the SMTP service (`Submission`).
* `Scheduler` sends through the same coordinator in its background form, so a
  scheduled send may be cut off by the abort of a tool call that shares its
  transport: the `ResumeUnknown` outcome of `Scheduler` and the `scheduled` call
  of `MCProgress`.
* A save of the settings goes through `SettingsAccess`, is written under
  `ConfigLock`, moves secrets (`IntegrationSecrets`, `MailboxSecrets`), and makes
  `Accounts` rebuild its services. The `accounts-rebuilt` event quarantines the
  rows of an account whose mailbox changed in `Scheduler`, `Reminders` and
  `AccountRuntime` (`Repoint` in each), and reconciles the watchdog's route.
* Every `mutate()` of the grants file runs under `withFileLock`. `Grants` takes
  it as one step; what that rests on is the subject of `FileLock`.
* A revoked grant closes the `HttpSessions` of its client and purges its
  `OAuthTokens`.

## 2. How the project is organised

Each component has a module with its state as VARIABLES, one action per
operation and its properties at the end. Parameters are CONSTANTS with named
assumptions where a proof needs them. No module declares a RECURSIVE operator.
Definitions whose comment begins with "Mutant" are not part of any
specification. Each is the body a plausible bug would give to the definition
next to it; `PROJECT.json` pairs one of them with each property of each passing
run, and the property must fail when it is used.

Modules that need their own symmetry or cfg have a small `MC` module
(`MCGrants`, `MCOAuthTokens`, `MCAccounts`). Four composites put several
components together: `MCProgress` (what must happen in the end), `MCServices`
(the services around the mail), `MCToolCalls` (what surrounds one tool call) and
`MCMail` (mail itself). **A composite runs one part at a time**: an initial state
chooses the part, and every behaviour is a behaviour of that part from its own
initial states, while the variables of the others stand still. It does not
interleave the parts. It says of each part exactly what a run of its own would
say (the parts share no variables that both change), and it lets one
configuration hold the constants of many small instances. The composites EXTEND
their components, so that a run checks the very definition a theorem is about; only
`MutationDeadline` in `MCProgress` is an instance. `SecretsAndRecords` puts two pairs
of components that share nothing side by side: `SecretsHold` and `RecordsHold` are
what the two modules of secrets, and the improvement loop and the log of the vault,
say together. Real interaction between components is inside the modules
instead: `Grants` composes grants file, credentials, gate and ledger; `Accounts`
composes registry, manager, connections and readers; `MutationDeadline` the
calls and both transports; `OAuthTokens` takes the files of `Grants` as its
environment; `Scheduler` takes the identities of the registry; `Delivery` is an
abstract specification that `Scheduler` implements.

## 3. The modules

`map` in `PROJECT.json` names the lines every definition stands for. Below: the
state, the actions and what was abstracted.

### 3.1 `FileLock`

State: the process table (`alive`, what `process.kill(pid, 0)` reads), the place
of each process in `withFileLock` (`pc`), its token, the directory (`dir`), its
owner record (`file`) and the record each process read last (`seen`). Every
system call is an action: `Mkdir`, `OpenRecord`, `WriteRecord`, `WriteFails` and
`UndoUnlink`/`UndoRmdir` are `createLock`; `ReadOwner` and `TimeOut` are
`tryAcquire` and `acquire`; `RecheckOwner`, `ReclaimUnlink`, `ReclaimRmdir` are
`reclaimDeadOwner`; `Leave` and the `Release*` actions are `release`. A record is
created empty and becomes complete later. `Die` may come between any two calls;
`ReusePid` gives the dead owner's PID to a new process. Left out: the resolution
of symbolic links to one lock path, and the sleeps between rounds.

`MutualExclusion` is *not* an invariant of `Spec`: `reclaimDeadOwner` checks the
owner and unlinks the record in two system calls, so two simultaneous reclaimers
can remove a fresh record (finding `file_lock_stolen`; the header of
`src/utils/singleton-lock.ts` describes the same interleaving as the reason why
that other lock is never reclaimed). The `services` run and the theorem
`Exclusion` add one condition,
`OneReclaimer`: no two live processes are between the second look and the unlink
at once. Under it exclusion holds, and nothing else is assumed. It is an
assumption about the environment and the code does not enforce it.

A process that dies between the unlink and the rmdir of its release leaves a
directory without a record. The model shows what the code does with it: nobody
can judge its owner, so nobody reclaims it and every later caller times out.
That fails closed, and no property here says otherwise.

### 3.2 `Scheduler` and `Delivery`

State: `mem` (`this.items`) and `disk` (the store), both as one row per email with
status, retry count, owner and mailbox fingerprint; `pc`, where the thread is
("loop" inside `processDue`, "wait" at its await, "down" between two processes);
`todo`, the rest of the captured `due`; `identity`, what `identityForAccount`
says of each account; `blocked`, the accounts in abuse backoff; `ready`, the
emails whose time has come. History variables carry what the code does not keep:
`issued`, `meant` (the mailbox an id was scheduled for), `revoked`, `attempts`,
`wire` (copies the server took).

Actions: `Schedule`, `CancelPending`, `CancelSending`, `Repoint` (the
`accounts-rebuilt` handler with `quarantineAccount`), `RepointOffline`; `Tick`,
`Defer`, `Dispatch`, `FenceFails`, `Resume*`, `LoopEnds` for `processDue`;
`Load`, `LoadFails`, `Migrate`, `Purge`, `PurgeDone` for `start`; `Crash`, `Stop`.
`persist` includes `pruneHistory`: which rows are older than thirty days is left
open, that live rows stay is modelled. What the server did with a send is chosen
when the daemon learns the outcome, or when nobody can learn it any more.

`Delivery` is what the owner of an email may rely on, without store, accounts or
processes: one try at a time, at most `MaxTries`, a delivered try is the last, a
withdrawn email is not tried again. `KeepsPromise` is the refinement:
`Phase(i)` reads from queue, store and await where the email is.

One daemon per store is assumed, as the singleton guard has it by default.

### 3.3 `MutationDeadline`

State per call: `stage`, `abortError`, `answer`, `active` (`activeScopeCounts`),
`dispatched` (`wireMutationDispatched`); `peers` is
`activeMutationsByTransport`. `line[r][s][l]` is one command of call `r` on
transport `s`: flying, severed (its transport was closed under it), landed (the
promise is settled but its continuation has not run), doubtful (landed on a
transport closed since), struck (the abort promise won the race). Actions are
what runs between two awaits: `Enter`, `EnterTooLate`, `ClientAborts`, `Expire`,
`TimerFires`, `Dispatch`, `DispatchThrows`, `DispatchTooLate`, `Land`, `Return`,
`Finish`, and `Retire`, a transport that SMTPService replaces for a reason of its
own. `AbortMutationGroup` states the breadth-first search as the least set closed
under "registered on a transport of a member".

The IMAP services are seen through commands that settle or do not; a lost
connection is an ordinary error of a command. `Land` and `Return` are two steps,
so an abort may fall between them. JavaScript runs continuations before the next
timer, so some of these interleavings are finer than the engine's; what holds
over them holds over the engine's.

### 3.4 `Grants`

State: `disk` (the grants file), `cred` (the service-account file), `memory`
(each process's map), `pc`/`todo` (the synchronous sequence a process is in and
the accounts it still has to treat), `calls` (each tool call with the snapshot
its last check read), `ledger` (the reservation rows), `dialogs` (prompts left
open), `now`. History: `ruling`, the operator's last word per client, and
`admitted`, the calls past the last gate.

Every operation of the store is one `mutate()`: `Merged` is `reloadMerge`, `Store`
is `persist`, which may fail with `Faults`. `Approve`, `Deny`, `Prune`, `Issue`
and `RevokeCredential` are the operator's, in any process; a service account's
revocation is two steps (`RevokeCredential`, `RevokeGrant`) in the order all
paths of the code use, and `Crash`, a failed write or `Abandon` may come between
them. `Answer` is the on-screen prompt clicked late. A call goes through
`Arrive`, `Pass` (first check, which must not reserve), `Recheck` after the
confirmation, then `Dispatch`, `Lapse` or `Refuse`. `Dispatch` is the check with
`reserve`: one SQLite transaction prunes, counts and inserts; a failure to secure
the ledger's files after the commit refuses the call and keeps its slot, as the
code does.

Abstractions: conditions other than status, credential, expiry and cap (presets,
tool lists, folders, addresses) are the one nondeterministic `Refuse`; a creation
time is kept only while a request is pending and an expiry only while a grant is
active, for nothing else reads them; `prune` may take any ended grant (its ages
are left open); a cap covers one tool; a reservation's time is the time of its
transaction (the code reads the clock first and may then wait up to 250 ms for
the database).

### 3.5 `OAuthTokens`

State: `held`, `byClient` and `kept` are the token map, its reverse index and the
token file; `codes` and `clients` the two other maps of `OAuthStore`, which live
in memory only; `codeOf`, `tokenOf`, `stale`, `expired` what was recorded about
each code and token. `grant` and `cred` are what the grants and service-accounts
files say of each client: "ended" stands for denied, revoked, expired, pruned or
never there, "lapsed" for active past `expiresAt`. `turn` is the one synchronous
sequence of the thread that looks at those files twice, so that other processes
can change them in between: "login" (the secret was verified, the grant not yet
ensured), "account" (the grant was read, the credential not yet), "expire" (an
expired grant was read, `markExpired` not yet called). `waiting` are the requests
that passed the bearer check and await their body. History: `blemished`, the
clients that were ever out of good standing, `exchanged`, `fate` (why a token was
dropped) and `harm` (whether a restart met a file that a failed write had left
behind, or could not read it).

Actions: `Register`, `Authorize`, `Exchange`, `RefuseExchange`, `VerifySecret`
with `Login`, and `RevokeToken` are the OAuth endpoints; `PresentExpired`,
`PresentInactive`, `PresentLapsed` with `MarkExpired`, `AskAccount` with
`AccountMissing`, `AdmitAccount` or `TurnAway`, and `Admit` are the outcomes of
the bearer check; `Proceed` ends a request; `EndHere` is a grant event of this
daemon with its purge; `Change`, `IssueAccount` and `RemoveAccount` are the other
processes; `Sweep`, `Age` and `Restart` are time and death. `Persist` replaces
the file whole or fails silently, as the code has it.

Abstractions: which entry a full map evicts is left open (the code takes the
oldest); an agent registers once, for a registration makes a new id; PKCE, redirect URI
and resource mismatches are the one refusal of a code, and the resource, address
and rate refusals of a request need no step of their own: a request that is
refused changes nothing.

`RefusedForGood` (in `VoidForGood`) and `GoodStandingKeeps` pull in opposite directions, and the
bearer check has to satisfy both: a definitive answer must cost every token of
the client, on disk too, and an unreadable file must cost none. Both except a
restart before a failed write of the token file was made good (`harm`), which
the code accepts ("Best-effort", `oauth-store.ts:131`).

### 3.6 `ConfigLock`

State: the lock directory and its record, each writer's place (`step`), the queue
of asynchronous writers of each process (`chain`), who holds it, and which writer's
synchronous code keeps its process busy (`stack`). `version` and `base` are the
configuration on disk and the one each writer read. `Enqueue` and the synchronous
entry are the two ways in; then mkdir, the look at an existing record, the
reclaim of a dead owner, the save and the release are one action each, and a
process may die between any two. `LOCK_MAX_RETRIES` is 50 in the code and 2 here.
The reclaim has the race of `FileLock` (`loader.ts:640`); the constant
`Undisturbed` excludes it, is TRUE in the run, and with FALSE `SavedOverNewest`
fails. A crash between mkdir and record leaves a lock nobody reclaims: later
writers give up with an error, which is what `QueueMoves` asks of them.

### 3.7 `IntegrationSecrets` and `MailboxSecrets`

`IntegrationSecrets`: the Pass token and the SimpleLogin key, each in the keychain
or in the configuration, with the storage hint, the quarantine, and what the
daemon's clients hold. Settings requests (`save`, `clear`, `reset`) and the start
of the daemon are sequences of steps over those places; keychain calls can fail
one by one, a crash may come between two steps. `promised` is what the last
answer said of each secret. Exempt are secrets whose request is not answered yet
and a client while a newer refresh still reads (a superseded refresh answers
before the newer has finished). `MailboxSecrets` is the same question for a
mailbox's password and SMTP token, with the layouts of older versions (shared
keychain entries, top-level connection, encrypted copies) and the migration at
start. In both, an older keychain entry behind a newer copy in the file is the
danger. One settings process is assumed. `IntegrationSecrets` with a keychain
that comes and goes is the run `secrets_resurrected`.

### 3.8 `Accounts`

State: the registry on disk with the keychain, the settings requests, the
rebuilds asked for (`newest`, `queue`, `snapshot`), the pairs of services an id
ever had (`live`, `services`), the connect tasks, the derived data (`runtime`),
and the readers of mail at work (`jobs`). The registry is read in two looks (file,
then keychain) with awaits between, and a newer rebuild may overtake an older
one; `applied >= ` its former value is `NewestRegistryWins`. `ServicesHold` says
that replaced services stay dead (no connection, no password, no IDLE loop) once
their tasks are over, that IDLE runs on the current pair with its current
password, and that a reset which may have left a password in the keychain gives
none to anybody. `OwnMailboxOnly` is about the answer given, and the cache filled,
by a reader that was overtaken by an edit.

### 3.9 `ImapConnection`

State: the client and its flag, the generation of the newest attempt, each
caller's attempt (`op`), the IDLE loops (`loop`; a loop's number is its
generation), every socket, and what a login meets. Actions are what runs between
two awaits of `connect`, `reconnect`, `disconnect`, `refresh`, abort, and of the
IDLE loop; the network drops and comes back, passwords change. `Accounted`: every
live primary socket is the service's client or is being dialled, and the flag
tells the truth. `LockoutSpared`: between two clearings of the failure nobody is
rejected twice. Not modelled: refusals of a certificate, `checkBridgeVersion`,
`reloadCredentials`, `wipeCache`.

### 3.10 `Mailbox`

State: the server (messages under UIDs, UIDVALIDITY, capabilities), the cache and
`uidValidityMap`, the mailbox lock, and the calls; `reached` remembers, for each
call, which messages have been in its target since it began, for a count of mail
that someone else has moved on is still a true count. A call goes through its
resolution of ids to folders, then per folder opens it, runs its commands and
interprets the answers; other clients move and expunge mail, a connection may
drop with a command in flight, and Bridge's OK to a COPY from All Mail does
nothing. `HonestCounts`, `CacheFollows` and `LostOnlyFromTrash` are relations
between the counts, the cache and what the server holds. Abstractions: a folder's
ids are one chunk; headers and bodies are not told apart; a flag is `\Seen`.

### 3.11 `Folders`

State: the mailboxes of the server, `folderCache` and whether it is fresh, the
connection, the calls. A call creates, ensures, deletes, renames,
lists or syncs. The name checks, the listing (from the cache, from the server, or from
a stale cache when no connection can be made: `ensureConnection`, `Listed`,
`Probed`), the protection check, the command (`Carry`) and the reading of its answer
(`Return`, with one outcome for each kind of answer the code tells apart) are
separate steps, with other clients between them. `Cut` is a connection that is gone
before a command or its answer, `Late` the deadline error, after which nothing is
listed. A call that was answered may be followed by another (`Leaves`); only what goes
wrong is counted (`MaxUpsets`). `SystemKept`: no special-use mailbox, also
under a local name, is deleted or renamed, whatever listing the protection had to
do with; it fails closed when it had none, and no listing it can have, cached or
fresh, lacks one. `DeedsOwn`: "created", "deleted" and "renamed" are said only of the
caller's own command.

### 3.12 `AccountRuntime`

State: the mailbox an account points at and the version of its mail, the runtime
object with cache, generation and fetch in flight, the readers, the background
sync, the open index and the owner marker on disk. `DerivedBelongs` says that
nothing derived from a former mailbox is found under the account again.

### 3.13 `Reminders`

State: the rows in memory and on disk, the registry's identities, the call that
waits for its message, deadlines. Every change is written whole; `persistOrRollback`
restores the memory when the write fails, except for a quarantine.
`check_reminders` is `Check`: scan, mark fired, answer, prune. `SurfacesOnce` and
`NothingForgotten` exempt what the code gives up knowingly (quarantine, an
unreadable file) and the one case it loses: see section 7.

### 3.14 `Submission`

State: the generation and pool of SMTPService, the sockets, the sends with the
generation they were dispatched on, what the server accepted, which messages were
marked answered, and which folder's message each cached id stands for. `Retires` is
what a new configuration, an abort and the end of the account
have in common. A reply first looks its original up (`ReadOriginal`), in a cache
that may be stale; a send then waits for its socket, is handed over, is cut or
answered; and a reply marks the original if the caller may.

### 3.15 `CallGate`

State: the settings on disk, the permission manager's copy and its age, the rate
slots, the account's route, the calls; `passed` keeps every slot ever taken. A call is
routed, checked, perhaps put to the user, checked again, run, and its result answered
or discarded if its account is another by then. `CallsAccounted` is about audit rows
(one for an agent's call whose tool ran, never two) and about the rate over the whole
history, with the names of one tool taken together, though the buckets forget.
`NothingPastTheGate` is a step property: the tool that starts is one the preset saved
last allows, and an answer is not of another account than the call was routed to.

### 3.16 `FolderScope`

A pure comparison of two parsers, written as a machine of two steps so that every
pair of gate and handler is a behaviour: `scope` is the grant's list, the
mailboxes and the raw call; `Check` is the gate of `grant-manager.ts` with its
source and destination matrices and the list of a search (`Extracts`); `Handle` is the
handler with the mailboxes it
names. Strings are sequences of words, slashes and blanks, for the two sides
differ by trimming, prefixing and case. Only restricted grants are tried.
`FolderScopeHolds` is `StaysWithin`, `ReadsProven` (the reading handlers would stay
inside by themselves) and `ServesInside`, the converse, so that a gate that refused
everything would not pass. Left out: the tools that take no folder, and
the mailboxes a server touches by itself (children of a renamed mailbox).

### 3.17 `Escalation`

State: the pending file, the preset of the configuration, what each console has
approved and not applied yet, the daemon's cached copy. The clock ticks longer
than a cache period. `ChallengesHold`: one decision, before expiry, by whichever
console; one challenge open; no more than `RATE_LIMIT` an hour.
`LoweredPresetBinds`: a copy that is still acted on is a preset the file had a
tick ago.

### 3.18 `Webhooks`, `HttpSessions`, `TokenBucket`

`Webhooks`: a delivery per endpoint and event with its attempt, the address its
name was found to stand for, and its wait; names move, the configuration changes,
the process restarts (deliveries under way live in memory only). `HttpSessions`:
the table with its owners, the open transports, the requests that read bodies
meanwhile, the closing of the listener. `TokenBucket`: credit and idle time of
each caller's bucket, and `meter`, what a caller used beyond what it was credited.
`EvictedFull` (a bucket is full again when it is evicted) is the assumption under
which eviction is harmless; the defaults fill a bucket in two seconds and evict it
after ten minutes of silence.

### 3.19 `Daemon` and `BridgeWatchdog`

`Daemon`: per process the steps of its start (lock file created, written,
connected, scheduling) and of its shutdown, which overtake each other when a
signal comes early; crashes, reused PIDs and a human who removes a stale record.
`LateRebuild` lets a keychain read answer after retirement: the run
`shutdown_purges_queue`. `BridgeWatchdog`: the timer's callbacks, which overlap
and outlive it, the route of the active account they were started for, the
launches in a row; the limit of launches is 3 in the code and 2 in the run.

### 3.20 `SettingsAccess`, `SettingsPage`, `SettingsServer`

`SettingsAccess`: the token of a process exchanged for a session, expiry, cap and
eviction of sessions, the page's token for changes, the sliding windows per
client. Sessions and counted requests are sets: a session has its number and its
expiry, a request its tick and a number that tells it from the others of the tick;
which client was heard of longest ago follows from the ticks. `SettingsPage`: what
each tab was filled from, told apart by reset generation and mailbox; `FormsFenced`
says that nothing filled before a reset is stored after it, except by the two forms
that carry no generation of their own. `SettingsServer` has the steps of both, in any
order, and `SettingsHold` for both.

### 3.21 `PassAudit` and `ImprovementLoop`

`PassAudit`: the log with rows chained by hashes, the end of the chain each client
remembers, the calls; appends fail (`auditFails`), crashes leave half a row
(`ProcessDies`), `NewClient` replaces the client under a running call.
`ImprovementLoop`:
snapshot, history, artifacts and lock of `scripts/improvement-loop.mjs`, commands
of two terminals killed between any two writes, edits under a running validation.

## 4. The runs

| Run | Instance | Checks | Shows |
|---|---|---|---|
| `progress` | parts of `MCProgress`: `ConfigLock` (3 writers in 2 processes, one death), `MutationDeadline` (a tool call and a scheduled send, 2 parallel commands each, on one transport that may never answer), `Grants` (1 agent, a daemon and a mortal administering process); 57 k states | `QueueMoves`, `SavedOverNewest`, `CallsEnd`, `RequestsResolve` | writers get their turn and lose no update, calls are answered and leave the registry, undecided requests go |
| `services` | parts of `MCServices`: `FileLock` under `OneReclaimer`, `TokenBucket`, `HttpSessions`, `Webhooks`, `IntegrationSecrets`, `MailboxSecrets`, `Escalation`, `BridgeWatchdog`, `Daemon`, `SettingsPage`, `SettingsAccess`, `ImprovementLoop`, `PassAudit`; 1.5 M states | `MutualExclusion`, `SecretsHold`, `PermissionsHold`, `WebhooksHold`, `DrivenByOwner`, `RateHeld`, `DaemonHolds`, `SettingsHold`, `RecordsHold` | the services around the mail, through crashes, races and limits |
| `tool_calls` | parts of `MCToolCalls`: `CallGate` (2 calls, 2 names of one tool), `MutationDeadline` (a mailbox write, a reply on both transports, a send), `FolderScope` (every tool of both matrices, 13 spellings, 4 allowlists); 806 k states | `HonestOutcomes`, `CallsAccounted`, `FolderScopeHolds`, `NoLateWrite`, `NothingPastTheGate` | what surrounds one tool call: gates that close under the confirmation, folders, aborts and what callers are told |
| `mail` | parts of `MCMail`: `Scheduler` (2 accounts, 2 mailboxes, failing reads and writes), `Mailbox`, `Folders`, `AccountRuntime`, `Reminders`, `Submission`; 2.2 M states | `MailboxHolds`, `FoldersHold`, `DerivedBelongs`, `NothingForgotten`, `SubmissionHolds`, `SentAsMeant`, `LostOnlyFromTrash`, `SurfacesOnce` | mail through lost answers, other clients, repointed accounts, failing writes and restarts |
| `scheduler` | 2 emails, 1 account, 3 retries, failing writes, a record from before accounts existed; 102 k states | `QueueHolds`, `NothingLost`, `EveryEmailSettles`, `KeepsPromise` | no duplicate, bounded tries over restarts, nothing lost, every email settles, `Delivery` is implemented |
| `grants_service` | 1 service account with a cap of 1, 2 mortal daemons, 2 calls, failing reads and writes; 1.2 M states | `OnlyTheApproved`, `LedgerHolds` | half-done revocations, logins racing them, both daemons at the last slot |
| `oauth_tokens` | 1 agent, 1 service account, 2 tokens, 2 codes, limits of 1, 1 request; 1.4 M states | `VoidForGood`, `GoodStandingKeeps`, `AdmittedInStanding` | refused bearers stay refused over restarts and re-approvals, agents in good standing stay logged in, only the standing are admitted |
| `accounts` | 2 ids, 2 mailboxes, 2 passwords, 2 settings requests, 1 reader; 1.3 M states | `ServicesHold`, `OwnMailboxOnly`, `NewestRegistryWins` | edits, deletions, activations and resets against connecting, refreshing and reading services |
| `imap_connection` | 2 callers, 2 IDLE loops, 3 sockets of each kind, 2 changes; 165 k states | `ConnectionsHold`, `IdleRecovers` | connects that overtake each other, outages and password changes |
| `file_lock_stolen` | `FileLock` without the condition | violation of `LiveRecordKept` | finding 1 |
| `shutdown_purges_queue` | `Daemon`, one process | violation of `QueueKept` | finding 2 |
| `secrets_resurrected` | `IntegrationSecrets` with a keychain that comes and goes | violation of `ServedAsPromised` | finding 3 |

Bundled properties are conjunctions: `QueueHolds` = `AtMostOnce`, `FenceHolds`,
`TriesRecorded`; `HonestOutcomes` = `HonestRetry`, `CutNeverDefinite`;
`LedgerHolds` = `QuotaHeld`, `SlotsAreCalls`; `VoidForGood` = `RefusedForGood`,
`CodesUsedOnce`; `ServicesHold` = `RetiredStayDead`, `IdleIsCurrent`,
`SuspendedHoldNoSecret`; `ConnectionsHold` = `Accounted`, `LockoutSpared`;
`MailboxHolds` = `HonestCounts`, `CacheFollows`; `FoldersHold` = `SystemKept`,
`DeedsOwn`; `FolderScopeHolds` =
`StaysWithin`, `ReadsProven`, `ServesInside`.

### Bounds, and why they are enough

Every bound is a CONSTANT whose comment says so; it appears in guards only.

* `FileLock`: the hazards need a dead owner, one reclaimer and one contender, so
  three processes; three calls let each of them own a token. `ConfigLock`: three
  writers, two in one process, give one queue, one synchronous writer in its way
  and one foreign process; 2 retries instead of 50 are as many as tell the first
  from the last.
* `Scheduler`: two emails let one be captured in `due` while the other is sent.
  Three retries are the code's own number; the accounts part has one, for it is
  about identities and not about counts. Identities are two because every check
  compares two fingerprints. No clock is needed: an account is blocked or not, an
  email due or not. The `scheduler` run keeps the registry as it is
  (`CalmSpec`), for `NothingLost` does not hold over repoints (section 7).
* `MutationDeadline`: a chain of three calls over two transports is the shortest
  in which an abort reaches a call it shares nothing with. In that run the mailbox
  write is never cancelled itself, so its rejection can only come through the
  chain. Two parallel commands show the counting, two in sequence the sticky bit.
* `Grants`: a queue limit of 1 forces evictions; a cap of 1 with two calls forces
  refusals. Requests are created only while there is time left for them to expire
  (the guard in `CreatePending`), for `RequestsResolve` would otherwise blame the
  bound. `grants_service` has service accounts only (`ServiceSpec`), `progress`
  the agents.
* `OAuthTokens`: one client of each kind, for no property relates two clients
  except the limits of the maps; two tokens and codes with limits of one force
  evictions.
* `Accounts`: two ids, one of them the built-in primary, make deletion and
  activation possible; two mailboxes and two passwords tell a repoint from a
  rotation; two requests let a rebuild be overtaken.
* `ImapConnection`: two attempts and an abort are what it takes to overtake and be
  overtaken; two loops, one the other's successor. A larger instance (3 loops, 3
  changes, 4 sockets) was explored to 15 M states without a violation.
* `Mailbox`: two messages make a bulk call partial; two UIDs make the second copy
  differ from the first; a cache of one entry evicts; the budget of two covers
  one call and one foreign act, or two calls (the second a read, or the emptying of
  the trash).
* `Folders`: a folder and a label of one leaf make the clash of names; two
  upsets make a failed listing after a stale cache. The second call creates or
  syncs, which are the calls that interfere with another's listing.
* `FolderScope`: the spellings contain padded, prefixed, differently capitalised,
  special, empty and foreign names; allowlists contain small letters, prefixed and
  special names. Nothing in the two parsers looks at more than one blank or prefix.
* `AccountRuntime`, `Reminders`, `Submission`: two readers, two records, two
  sends: each property relates one of them to an older one. `MaxTroubles` 3 in
  `Reminders` is a failed write, a repoint and a restart.
* `IntegrationSecrets`, `MailboxSecrets`: two settings requests (a save and a clear
  or reset), one outage or crash: each allows an older copy to survive.
* `Escalation`: 3 challenges with a limit of 2 an hour. `Webhooks`: two endpoints
  (one a private literal), two events, two attempts of eight: no property depends
  on the number. `HttpSessions`: two clients, two requests, two session ids.
  `TokenBucket`: capacity 3, and idle time followed beyond the eviction.
  `Daemon`: two processes, four starts, three pids of which one is used again.
  `BridgeWatchdog`: two routes, two overlapping callbacks, a limit of 2 launches.
  `SettingsPage`: two tabs, one reset, one restart. `SettingsAccess`: two requests in
  two ticks, room for one session and one bucket.
  `CallGate`: two calls, one save, two routes, a limit of 1 in 2 ticks.
  `PassAudit`: two clients, three calls, one mishap. `ImprovementLoop`: two items,
  two checks of one of them, one edit, one kill, one tampered artifact.

Deadlock is checked in `scheduler`, `grants_service`, `oauth_tokens` and
`file_lock_stolen`. The others set `CHECK_DEADLOCK FALSE`: their parts end when
their calls, commands or processes are used up, or the process is gone.

### Fairness

Safety runs use specifications without fairness. The liveness properties use:

* `Scheduler!Fairness`: the timer fires, `start()` runs to its end, `sendEmail`
  returns (each SMTP phase has a socket timeout), time passes: weak fairness.
  Strong fairness of `Dispatch` says that the disk does not fail at every fence
  for ever; with a disk that always refuses the fence the code rightly never
  sends. `EveryEmailSettles` assumes in its premise that the process is at some
  point no longer killed or stopped.
* `MCProgress!LockFair`: a writer whose process lives goes on with its next step;
  `retry` sleeps and synchronous waits end by themselves.
* `MCProgress!DeadlineFair` (as `MutationDeadline!Fairness`): deadlines pass,
  timers fire, continuations of settled promises run. No fairness for `Land` or
  for the handler: a wedged transport may never settle a command.
* `MCProgress!GrantsFair` (as `Grants!FairSpec`): the clock runs; a daemon that is
  not killed gets to the end of its synchronous sequences, and its approval
  sweep, every thirty seconds, is not for ever kept from writing (strong fairness
  of `ExpireStale(p, TRUE)`: it is disabled while the thread is in a check and
  enabled again after it). Requests in a file that no process sweeps wait for one.
* `ImapConnection!Fairness`: attempts to connect and loops go on; every phase of
  them has a timeout. None for the environment: `IdleRecovers` is about the time
  after Bridge answers and takes the password.

Left out of liveness: that a webhook is delivered, that a reminder is shown (only
`check_reminders`, which the agent calls, shows it), that Bridge comes up.

## 5. What is proved

The theorems hold for every value of the constants that satisfies the named
ASSUMEs of the module, which say no more than: constants have their types, sets
that are counted are finite, limits are positive, "none" values are none of the
others.

Eight modules hold the proofs. Where a bullet says "induction on X", X is an
operator of the proof module or of the module it is about.

* **`SchedulerProofs`** (`Scheduler`, `Delivery`): `TypeCorrect`, `QueueIsSound`,
  `TriesStayRecorded`, `NeverTwice`, `FenceIsHeld`, `EveryEmailIsSentAsMeant`,
  `PromiseIsKept`, `NothingIsLost`.
  Induction on `QueueInvariant`: for each email, both copies of its row, the await
  and the history agree (`EmailSound`: only the awaited email is "sending",
  neither copy of it is "pending", a pending copy knows the number of tries, a
  withdrawn email is at rest, every copy has the mailbox it was meant for). The
  proof has a lemma per part, so that an action is looked at once for the email
  it is about and once for the bystanders. `NeverTwice` and `FenceIsHeld` assume
  `~LossyReplies`: with `LossyReplies` both fail.
  `TypeCorrect` also follows from the invariant: that tries and copies never
  exceed `MaxRetries` is not a matter of types.
  `PromiseIsKept` is the refinement of `Delivery`, by step simulation: `EmailSteps`
  lists what one step of the daemon can do to one email (it enters, is withdrawn,
  flies, lands, is stopped or loaded with the process, or stays as it is), every
  action is shown to be one of these for every email, and each of these is a step of
  `Delivery` or none. It needs `Recorded` besides the invariant: what is settled in
  memory does not wait in the store, and what waits or is out in memory is on record
  there.
  `NothingIsLost` uses the same steps under `CalmSpec` and `~ReadFaults`; its
  invariant `Agreed` (no record names a mailbox its account is not) is what makes
  quarantines impossible while nobody edits the registry.
* **`ToolCallProofs`** (`MutationDeadline`, `CallGate`, `FolderScope`):
  `TypeCorrect`, `RegistryAgrees`, `RetryIsHonest`,
  `CutIsNeverDefinite`, `NoWriteAfterAnswer`, `AbortsStayContained`, for any
  number of calls, transports and parallel commands. Induction on
  `DeadlineInvariant`: registry, counts and outstanding commands agree
  (cardinalities of finite sets), and for each call the sticky bit, the abort
  error, the answer and the doubt about a cut command are consistent
  (`CallSound`). Containment rests on the least-set definition of the affected
  calls: a call that shares no transport with another affected one could be left
  out of the set.
  `CallsAreAccounted` and `NoCallPastTheGate`: induction on `GateSound`, which adds to
  the property that a call has no audit row before it is over (`RowsKept`), and that
  the slots a bucket still keeps contain every slot of the window that ends now
  (`SlotsKept`); so the count made at the gate bounds every window of the history
  (`RateKept`), though buckets forget.
  `CallsStayInTheirFolders`: for all arguments, lists and mailboxes. Lemmas compare
  the two parsers tool by tool, what the gate extracts and what the handler names; the
  invariant `FolderScopeSound` ties the verdict and the named mailboxes to the call.
* **`GrantsProofs`**: `TypeCorrect`, `OnlyTheApprovedRun`, `QuotaIsHeld`,
  `RefusedCallsAreFree`, `QueueIsBounded`, `CountersOnlyGrow`, for any number of
  clients, processes and calls, with faults or without. Induction on
  `GrantsInvariant`: an active grant in the file is one the operator approved
  last (`FileSound`), and a revoked service account is exactly one whose
  credential is gone; a call before its last gate carries what it read together
  with the operator's word at that moment (`GateSound`); an admitted call's slot
  is in the ledger as long as the window counts it (`SlotSound`). The quota is
  not inductive by itself: `reserve` counts rows of the ledger, the property
  counts calls, and `SlotSound` makes the first an upper bound of the second.
  For service accounts the invariant says nothing about their grants: a revoked
  account may well have an active one, and the gate holds because it looks at
  the credential again.
* **`OAuthTokensProofs`**: `TypeCorrect` (with the exactness of the reverse
  index), `MapsStayBounded`, `RefusedStayRefused`, `StandingKeepsTokens`,
  `OnlyTheStandingAdmitted`, `CodesAreUsedOnce`, for any number of clients, tokens
  and codes and any limits. `TokenSteps` reduces every action to one of four
  effects on the tokens (nothing, one issued, some dropped for a reason, the file
  loaded). The invariant adds two facts: a client with a code or a token is in
  good standing or blemished (`Stains`, what makes a purge justified), and map and
  file differ in expired tokens only unless a write failed (`Synced`, what makes a
  restart harmless).
* **`ServicesProofs`** (`ConfigLock`, `FileLock`, `TokenBucket`, `HttpSessions`,
  `Webhooks`, `Escalation`, `Daemon`, `BridgeWatchdog`, `BridgeDaemon`, `SettingsServer`,
  `IntegrationSecrets`, `MailboxSecrets`, `ImprovementLoop`, `PassAudit`, `SecretsAndRecords`):
  * `Exclusion`, that is `Spec /\ []OneReclaimer => []MutualExclusion`, for any number
    of processes. Induction on `ExclusionInvariant`: at most one live process has won
    the mkdir (`OneCreator`), the directory exists while it has, and what the
    directory holds is what that process's place says. Exclusion alone is not
    inductive: it says nothing of a process on its way in or of the record in the
    directory. `SavesKeepTheNewest` is the same question for the configuration's
    lock, under `Undisturbed`: one live writer at most is inside (`OneInside`), the
    directory and the record say who (`LockTells`), and only a dead writer's lock is
    taken away (`ReclaimsFromTheDead`), so the version a writer has read is the newest
    when it saves.
  * `RateIsHeld`, for any capacity, rate and idle limit with
    `EvictedFull`: a balance that every step keeps (what a caller used and what it
    has left never exceed one burst), and a bucket that may be evicted has been full
    again. `OwnersDrive`, for any number of clients, requests and sessions: the
    opener of a transport never changes, the table only ever names that client, and
    a request is let in by the table, so what it was let in for stays its own even
    after the session has left the table.
  * `DeliveriesHold`, for any number of endpoints, events,
    attempts and changes of names: a connection is pinned to the address its own
    attempt has checked, attempts never exceed the limit, and the endpoint processes
    an event again only after an answer that was lost or an error.
  * `EscalationsAreSound`, induction on `EscalationsSound`: the file is the end of the
    history of challenges, in the order they were asked in (`FileIsTheEnd`), from which
    the limit per hour follows, for the code counts in the file only; a pending
    challenge has no decision and a console only applies an approved one
    (`DecidedOnce`).
  * `OneProcessConnects`, under `LateRebuild = FALSE`: the lock file has the pid of
    the process that is past its start and has not given it back (`Tenure`), and two
    processes differ in their pids (`Apart`). `LaunchesStayBounded`: the launches in a
    row never exceed what the watchdog has counted. `DaemonsAreSound` puts the two
    together as the run has them.
  * `SettingsAreSound`, for any number of browsers, pages, sessions and restarts, from
    two invariants. `AccessSound`: the table has sessions of this process only, each for
    no longer than from its issue, and everything a client was let through with in the
    present window is still in its bucket, unless the client was forgotten at the cap.
    `PageSound`: a form that a page filled from the configuration is of the generation
    that page holds, and so is what its save carries, of the generation the save says
    it expects; `FormsFenced` alone says nothing of forms that are not yet saved.
  * `SecretsAreKept`, for any number of requests, crashes and failed calls of the
    keychain, from two invariants.
    `ISInv`, of the integrations' keys, knows for each key which request changed it
    last: while that request writes nobody else does (`CallsSound`), once it has
    written what a start would load is what it was asked for (`LeftAsAsked`), and the
    newest refresh has read that (`NewestSound`). It assumes `~KeychainLeaves`: the
    property is false of a keychain that becomes unusable and usable again (finding
    3), and the part of the `services` run makes the same assumption. Single calls of
    the keychain fail all the same.
    `MSInv`, of the mailbox credentials, needs no such assumption: of the three places
    a credential may be in, the first that has one has the one due (`FoundFirst`, in
    `CopiesSound` of what is stored and in `SavesSound` of what a request is about to
    store), nothing is left of what a reset removed (`RemovedForGood`), and the
    services read nothing else (`ServiceSound`). An older copy that survives behind a
    newer one is allowed, and is why neither property is inductive: it must never
    become the first.
  * `LoopIsExact`, for any number of terminals, items and checks, induction on
    `LoopInv`: history and snapshot differ by the one pending transition while its
    writer, which has the lock, is between its two writes, or was killed there
    (`HistorySound`); a passing result whose workspace did not change while it ran
    names content that every check passes on (`ResultSound`, and `RunSound` of a
    validation under way); items are taken in turn (`InTurn`). `HistoryExact` alone
    does not say that the missing event is the one the snapshot announces.
  * `LogIsTrue`, for any number of calls, clients and mishaps, induction on
    `VaultSound`: the client that wrote the last readable row knows its hash
    (`EndIsKnown`), so rows of one client that follow each other are linked, and a
    call has no row before it ended (`Told`). `RecordsAreTrue` puts the loop and the
    log together as the run has them.
* **`MailProofs`** (`ImapConnection`, `Submission`, `AccountRuntime`, `Reminders`,
  `Folders`):
  * `ConnectionsAreSound`, for any number of callers, loops and sockets, from two
    inductive invariants: of the primary client, that only the newest attempt goes on,
    that every attempt dials a socket of its own and that no socket but the client is
    open; and of the rejections, that whoever was rejected is not dialling and cannot
    before the failure is cleared.
  * `SubmissionIsSound`, induction on `SubInv`: no send is of a pool to come
    (`PoolsPast`), a socket that can carry anything is of a send of the pool there is
    (`SocketsOwned`), which is why a retired pool delivers nothing.
  * `DerivedStaysOwn`, induction on `ARInv`: a fetch that is of the present runtime
    object and generation reads the present mailbox at a version not older than the
    last change of a tool (`FetchSound`); everything older is dropped by that
    comparison, which the property alone does not say.
  * `RemindersAreKept`, `RemindersSurfaceOnce`, induction on `REMInv`: memory and file
    disagree only on what is excused (`FileAgrees`), a number that was answered is not
    given away again (`OnceMade`).
  * `FoldersAreSound`, induction on `FoldersSound`: every listing a call or the cache
    can have is whole as far as system mailboxes go, so a command that deletes or
    renames is never about one of them (`CallSound`).
* **`AccountsProofs`** (`Accounts`), for any number of accounts, requests and
  readers. `RegistryNeverGoesBack`, induction on `RegistrySound`: a rebuild that is
  still the newest has read a registry no older than the one applied
  (`SnapshotSound`). `OnlyCurrentServicesServe`, induction on `PairsSound`: all pairs
  but the last are dead, and a connect that is current and not yet aborted uses the
  password its services have (`AttemptIsCurrent`). `MailStaysWithItsMailbox`, on
  `ReadersSound` besides: a reader has mail only of the mailbox its services are for,
  and a fill of the present generation only of the present mailbox.
* **`MailboxProofs`** (`Mailbox`), for any number of calls, messages and UIDs:
  `MailboxIsSound` and `MailIsLostFromTrashOnly`, induction on `MailboxInv`. The
  properties speak of a call only when it is over, and of the cache only where nobody
  else has changed the message, so the invariant says what stands in between:
  * of the server (`ServerTyped`): a UID at or past `next` is free. Each step has
    `Effect(T)`: a UID that was given out stands for its message or for nothing until
    the mailbox is rebuilt, and outside the slots T nothing is seen to change.
  * of each call alone (`MailShape`): every id it was given is in one place, still to
    be grouped, at work, accepted, won or lost (`Partition`), so no id is counted twice
    through the fallbacks from a bulk command to single ids.
  * of each call and the server (`CallStands`): the ids at work in the mailbox it holds
    are the messages it noted, what it counts has been in its target since it began
    (`Arrived`), and what it took off a label is off it or taken out of the cache
    (`TakenOff`).
  * of the cache and the server (`EntryStands`): an entry under the present UIDVALIDITY
    shows what the server holds, or others have changed that slot.

  `MailIsLostFromTrashOnly` follows from the shape of the calls: whoever expunges is
  emptying the trash or removing a label (`EmptyShape`, `RemoveShape`), which leaves
  the message in the mail, and no MOVE, which imapflow would make a copy and an
  expunge, is given to a server without that capability.

`QueueIsHonest`, `OutcomesAreHonest`, `LedgerIsHonest` and `VoidStaysVoid` state
the bundled properties of the runs and follow from the theorems of their parts.

### Only model-checked

* Every invariant and action property of the passing runs that is not about liveness
  is the subject of a theorem. `SecretsHold`, `SavedOverNewest`, `MutualExclusion`,
  `DaemonHolds`, `QueueHolds` and `NothingLost` are proved under the hypotheses named
  with them in section 5; their runs are under the same.
* `LiveRecordKept` is not proved, for it is false without `OneReclaimer` (finding 1).
* Liveness (`EveryEmailSettles`, `QueueMoves`, `CallsEnd`,
  `RequestsResolve`, `IdleRecovers`) stays with TLC: TLAPS does not reason about
  ENABLED, on which fairness rests.
* Induction over data and RECURSIVE operators are out of its reach too; no module here
  needs them.

## 6. Findings

`PROJECT.json` quotes the lines; each has a run whose counterexample shows it.

1. `src/utils/file-lock.ts:145`: a reclaimer can remove the record of a live
   owner (`file_lock_stolen`). All other modules take one `withFileLock` as one
   step; they are right as long as this does not happen.
2. `src/accounts/manager.ts:204`: a rebuild that still reads the keychain when
   shutdown retires the services is applied afterwards, and its event quarantines
   the scheduled mail and reminders of accounts nobody edited
   (`shutdown_purges_queue`).
3. `src/settings/server.ts:1552`: with the keychain unusable, a new key goes to the
   configuration and a clear removes only that copy; the older key in the keychain
   is what the services load when it is back (`secrets_resurrected`).

## 7. Divergences seen while modelling

Met while writing the modules, confirmed with TLC on the instance named or by
reading, and without a run of their own, so that a run for each does not crowd out
the others. Where a property stands in a module, it is there to be tried.

* `Scheduler`: after a repoint during a send the next start discards emails
  scheduled for the new mailbox (`scheduler.ts:917`; `NothingLost` with `Edited`
  not empty); a rejection after the server took the message counts as a definite
  failure and is retried (`smtp-service.ts:695`; `AtMostOnce` with `LossyReplies`).
* `Grants`: `markExpired` acts on an expiry read without the lock and undoes a
  re-approval (`grant-store.ts:343`; `ExpiryIsDue`). `localCaller`
  (`index.ts:2173`) trusts a copy in memory: a record that another process pruned
  stays there for up to thirty seconds, in which no new request is made.
* `ConfigLock`: the reclaim race of the file lock (`Undisturbed` FALSE).
* `ImapConnection`: a superseded IDLE loop makes its next client over the one of
  the new loop (`LoopsApart`; the comment at `simple-imap-service.ts:3137` denies
  it), and a session of IDLE can leak (comment at 3195).
* `Mailbox`: `searchSingleFolder` (1285) skips the UIDVALIDITY check, so an old
  cache entry is served after a rebuild (`RebuildClears` with searches and lists);
  mutations never check UIDVALIDITY; `move_to_trash` names "Trash" literally; a
  plain EXPUNGE removes what another client has marked deleted.
* `Folders`: a listing in flight over a mutation's clear refills the cache with
  the older listing and counts as fresh; the cache is only added to after its
  TTL, so deleted mailboxes reappear in cached answers; a caller whose CREATE was
  carried out and cut off may hear that the name exists; `ensureFolderExists` of a
  label answers success when the clash is with a folder of the same leaf.
* `Submission`: `reply_to_email` passes the original's `inReplyTo` where the
  original's own Message-ID is meant.
* `Reminders`: `check_reminders` prunes after the scan; when the prune's write
  fails the fired reminders are on disk as fired and their answer is lost, against
  the "at-least-once" comment.
* `MailboxSecrets`: with an installation of an older version and a keychain miss
  the migrated encrypted password is never read back by a rebuild
  (`index.ts:3167`; `MigrationUnaffecting`, against `registry.ts:166`), and the
  next save in Setup deletes the only copy; a quarantined profile cannot be
  configured again.
* `Accounts`: a superseded rebuild resolves before the newer snapshot is applied,
  so its request answers success against older services; a request continues
  after its token was purged (`oauth-store.ts:252`); the authenticated rate limit
  is per client where comments say per token.
* `SettingsPage`: a Setup form filled from one account writes it into another that
  a second tab activated meanwhile (`SetupKeepsMailboxes`); account form and its
  generation are fetched apart; deletion and activation carry no generation.
* `Daemon`: a boot that goes on during shutdown may start the scheduler after its
  stop or launch a Bridge nobody ends; the tray's "enable" twice binds two settings
  servers; `server.close()` waits for the Agents tab's event stream, so "Disable"
  reports a URL that no longer listens and a shutdown waits for the five-second
  hard exit, skipping the scheduler's stop.
* `CallGate`: a call that is declined, or names no account, leaves no audit row,
  although README.md:576 and SECURITY.md:51 say that every gated call does;
  permission and rate are not asked again after the dialog.
* `PassAudit`: a client replaced while a call runs forks the chain, so a gap need
  not be a removal (`GapsAreRemovals`).
* `AccountRuntime`: a failed fetch is cached as an empty mailbox; a failed rebuild
  of the index leaves it wiped; a mutation that throws skips the invalidation.
* `Webhooks`: deliveries under way are lost with the process. `BridgeWatchdog`: the
  success of an old route's probe resets the count of the new one's launches.
  `HttpSessions`: a session whose client vanished stays until the process ends.

## 8. What is not modelled, and why

* `analytics-service.ts` and `content-parser.ts` are pure functions of fetched mail
  without state, order or failure. The CLI commands and diagnostics are one-shot
  users of stores that other modules own. The release scripts run commands one
  after the other.
* Of the user interfaces, what a page keeps between requests is in `SettingsPage`;
  templates, the terminal interface and the tray icon are presentation. Of the
  tools, argument checks and formatting are left out except where a folder is named
  (`FolderScope`) or a result is counted (`Mailbox`).
* Start and stop of the settings listeners from the tray: the code gives no order
  that a property could rest on (section 7, `Daemon`).
* The wizard and the editing of the configuration files of MCP clients; the checks
  of certificates; validation of configuration fields, encryption and the wiping of
  memory; the text search inside SQLite; PKCE and redirect matching (one refusal in
  `OAuthTokens`); construction and parsing of messages; rotation of logs.
* Inside the modelled parts: wording, logging, sorting and listing. Durability below
  `fsync` and `rename` is taken as given: a write replaces a file whole or not at
  all, except where a module has the append or the create as a step (`FileLock`,
  `PassAudit`, `ImprovementLoop`, `Daemon`).
* Parts of a composite are not interleaved (section 2). Their real meeting points
  are listed in 1.3; what one module takes from another is a nondeterministic
  environment there (identities in `Scheduler`, grants in `CallGate`).
