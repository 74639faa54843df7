--------------------------- MODULE AccountRuntime ----------------------------
(* What the daemon derives from one account's mailbox: the analytics cache and  *)
(* the fetch that fills it, the background sync, and the full-text index on     *)
(* disk with its owner marker, while the account's mail is changed by tools and *)
(* the account is repointed at another mailbox, removed and added again.        *)
EXTENDS Naturals

CONSTANTS
  Readers,          \* calls that may be going on at a time
  MaxMailboxes,     \* bounds: mailboxes the account is pointed at in turn,
  MaxVersions,      \* changes of the mail in them, and rebinds of the index
  MaxRebinds        \* by another process

ASSUME RuntimeBoundsAssumption == {MaxMailboxes, MaxVersions, MaxRebinds} \subseteq Nat

Nobody == 0
NoReader == 0
NoMail == [of |-> Nobody, version |-> 0]
NoFetch == [of |-> Nobody, gen |-> 0, object |-> 0, version |-> 0]
Quiet == [at |-> "idle", kind |-> "analytics", on |-> NoReader, index |-> "none", got |-> NoMail]
Kinds == {"analytics", "rebuild"}

VARIABLES
  mailbox,   \* the mailbox the account is of
  version,   \* how often its mail has changed, and as last heard of from a tool
  runtime,   \* generation, cache, fetch in flight, what analytics was told
  fetches,   \* the read each caller started, if it goes on
  reader,    \* the calls
  sync,      \* the background read, if it goes on
  instance,  \* the open instance of the index, and the owner it is bound to
  index,     \* on disk: the owner marker and whose mail is in it
  rebinds

runtime_vars == <<mailbox, version, runtime, fetches, reader, sync, instance, index, rebinds>>

FreshRuntime(object) ==
  [object |-> object, gen |-> 0, cache |-> NoMail, inflight |-> NoReader, told |-> Nobody]
Shut == [open |-> FALSE, bound |-> Nobody, invalid |-> FALSE]

ARInit ==
  /\ mailbox = 1 /\ version = [now |-> 1, known |-> 1]
  /\ runtime = FreshRuntime(1)
  /\ fetches = [r \in Readers |-> NoFetch] /\ reader = [r \in Readers |-> Quiet]
  /\ sync = NoFetch /\ instance = Shut
  /\ index = [owner |-> Nobody, rows |-> {}] /\ rebinds = 0

------------------------------------------------------------------------------
(* The index. An instance works only while the marker names the owner it was    *)
(* bound to; asked for under another name it clears the index and rebinds.      *)

(* Mutant: an open instance is trusted without reading the marker.              *)
OpenIsEnough == instance.open
assertCurrentOwner == instance.open /\ ~instance.invalid /\ index.owner = instance.bound
Reclaims == instance.open /\ instance.bound # Nobody /\ ~assertCurrentOwner

(* getFts(): an instance is opened if none is, and bound to the mailbox.        *)
getFts ==
  IF Reclaims
  THEN instance' = [instance EXCEPT !.invalid = TRUE] /\ UNCHANGED index
  ELSE /\ instance' = [open |-> TRUE, bound |-> mailbox, invalid |-> FALSE]
       /\ index' = IF index.owner = mailbox THEN index ELSE [owner |-> mailbox, rows |-> {}]

(* What a transaction of an instance that is not the owner's leaves behind.     *)
StaleFuse == instance' = [instance EXCEPT !.invalid = (@ \/ instance.open)]
rebuild(rows) ==
  IF assertCurrentOwner THEN index' = [index EXCEPT !.rows = rows] /\ UNCHANGED instance
                        ELSE StaleFuse /\ UNCHANGED index

------------------------------------------------------------------------------
(* getAnalyticsEmails(): the cache, the fetch in flight, or a fetch of its own. *)

Joinable == runtime.inflight # NoReader /\ fetches[runtime.inflight].gen = runtime.gen
Waits(r, kind, on, held) ==
  reader' = [reader EXCEPT ![r] = [at |-> "waiting", kind |-> kind, on |-> on, index |-> held, got |-> NoMail]]

Ask(r, kind) ==
  LET held == IF kind = "rebuild" THEN "open" ELSE "none" IN
  /\ reader[r] = Quiet /\ fetches[r] = NoFetch
  /\ kind = "rebuild" => ~Reclaims /\ \A o \in Readers : reader[o].index = "none"
  /\ IF kind = "rebuild" THEN getFts ELSE UNCHANGED <<instance, index>>
  /\ IF runtime.cache # NoMail
     THEN /\ reader' = [reader EXCEPT ![r] =
               [at |-> "got", kind |-> kind, on |-> NoReader, index |-> held, got |-> runtime.cache]]
          /\ UNCHANGED <<fetches, runtime>>
     ELSE IF Joinable THEN Waits(r, kind, runtime.inflight, held) /\ UNCHANGED <<fetches, runtime>>
     ELSE /\ Waits(r, kind, r, held)
          /\ fetches' = [fetches EXCEPT ![r] =
               [of |-> mailbox, gen |-> runtime.gen, object |-> runtime.object, version |-> version.now]]
          /\ runtime' = [runtime EXCEPT !.inflight = r]
  /\ UNCHANGED <<mailbox, version, sync, rebinds>>

(* A rebuild asked for while the index has another owner only gets an error.    *)
AskRefused(r) ==
  /\ reader[r] = Quiet /\ Reclaims /\ getFts
  /\ UNCHANGED <<mailbox, version, runtime, fetches, reader, sync, rebinds>>

FillsCache(f) == fetches[f].object = runtime.object /\ fetches[f].gen = runtime.gen

(* A fetch comes back with what the mailbox held at its start or now, or, its   *)
(* failures swallowed, with nothing.                                            *)
FetchDone(f, seen) ==
  LET result == [of |-> fetches[f].of, version |-> seen] IN
  /\ fetches[f] # NoFetch
  /\ seen \in {0, fetches[f].version} \cup (IF fetches[f].of = mailbox THEN {version.now} ELSE {})
  /\ reader' = [r \in Readers |-> IF reader[r].at = "waiting" /\ reader[r].on = f
                                  THEN [reader[r] EXCEPT !.at = "got", !.on = NoReader, !.got = result]
                                  ELSE reader[r]]
  /\ runtime' = [runtime EXCEPT
       !.cache = IF FillsCache(f) THEN result ELSE @,
       !.told = IF FillsCache(f) THEN fetches[f].of ELSE @,
       !.inflight = IF @ = f THEN NoReader ELSE @]
  /\ fetches' = [fetches EXCEPT ![f] = NoFetch]
  /\ UNCHANGED <<mailbox, version, sync, instance, index, rebinds>>

Finish(r) ==
  /\ reader[r].at = "got"
  /\ reader' = [reader EXCEPT ![r] = Quiet]
  /\ IF reader[r].index = "open"
     THEN rebuild(IF reader[r].got.version = 0 THEN {} ELSE {reader[r].got.of})
     ELSE UNCHANGED <<instance, index>>
  /\ UNCHANGED <<mailbox, version, runtime, fetches, sync, rebinds>>

CacheExpires ==
  /\ runtime.cache # NoMail
  /\ runtime' = [runtime EXCEPT !.cache = NoMail]
  /\ UNCHANGED <<mailbox, version, fetches, reader, sync, instance, index, rebinds>>

------------------------------------------------------------------------------
(* The background sync: what it read is used only if the runtime's generation,  *)
(* the services and the mailbox are those it began with.                        *)

BeginSync ==
  /\ sync = NoFetch
  /\ sync' = [of |-> mailbox, gen |-> runtime.gen, object |-> runtime.object, version |-> version.now]
  /\ UNCHANGED <<mailbox, version, runtime, fetches, reader, instance, index, rebinds>>

StillCurrent == sync.gen = runtime.gen /\ sync.of = mailbox

upsertMany ==
  IF Reclaims THEN getFts
  ELSE /\ instance' = [open |-> TRUE, bound |-> mailbox, invalid |-> FALSE]
       /\ index' = [owner |-> mailbox, rows |-> IF index.owner = mailbox THEN index.rows \cup {sync.of} ELSE {sync.of}]

EndSync ==
  /\ sync # NoFetch
  /\ sync' = NoFetch
  /\ IF StillCurrent THEN runtime' = [runtime EXCEPT !.told = sync.of] /\ upsertMany
     ELSE UNCHANGED <<runtime, instance, index>>
  /\ UNCHANGED <<mailbox, version, fetches, reader, rebinds>>

SyncFails ==
  /\ sync # NoFetch
  /\ sync' = NoFetch
  /\ UNCHANGED <<mailbox, version, runtime, fetches, reader, instance, index, rebinds>>

------------------------------------------------------------------------------
(* What happens to the mailbox                                                  *)

(* A tool changed mail: its generation is over, whatever is being read.         *)
invalidateAnalytics ==
  /\ version.now < MaxVersions
  /\ version' = [now |-> version.now + 1, known |-> version.now + 1]
  /\ runtime' = [runtime EXCEPT !.gen = @ + 1, !.cache = NoMail, !.inflight = NoReader]
  /\ UNCHANGED <<mailbox, fetches, reader, sync, instance, index, rebinds>>

MailArrives ==
  /\ version.now < MaxVersions
  /\ version' = [version EXCEPT !.now = @ + 1]
  /\ UNCHANGED <<mailbox, runtime, fetches, reader, sync, instance, index, rebinds>>

Closes ==
  /\ instance' = Shut
  /\ reader' = [r \in Readers |-> IF reader[r].index = "open" THEN [reader[r] EXCEPT !.index = "closed"] ELSE reader[r]]
Moves == mailbox < MaxMailboxes /\ mailbox' = mailbox + 1 /\ version' = [now |-> 1, known |-> 1]

(* The account is repointed, and all that was derived from it is dropped, the   *)
(* index only by its owner.                                                     *)
resetMailbox ==
  /\ Moves
  /\ runtime' = [runtime EXCEPT !.gen = @ + 1, !.cache = NoMail, !.inflight = NoReader, !.told = Nobody]
  /\ Closes
  /\ index' = IF assertCurrentOwner THEN [index EXCEPT !.rows = {}] ELSE index
  /\ UNCHANGED <<fetches, sync, rebinds>>

(* Removed, and added again under its id for another mailbox: the new runtime   *)
(* counts its generations from the start.                                       *)
RemovedAndAdded ==
  /\ Moves
  /\ runtime' = FreshRuntime(runtime.object + 1)
  /\ Closes
  /\ index' = IF assertCurrentOwner THEN [index EXCEPT !.rows = {}] ELSE index
  /\ UNCHANGED <<fetches, sync, rebinds>>

(* Another process of the profile binds the index to a mailbox of its own.      *)
OtherProcessBinds ==
  /\ rebinds < MaxRebinds
  /\ rebinds' = rebinds + 1
  /\ index' = [owner |-> MaxMailboxes + rebinds + 1, rows |-> {MaxMailboxes + rebinds + 1}]
  /\ UNCHANGED <<mailbox, version, runtime, fetches, reader, sync, instance>>

ARNext ==
  \/ CacheExpires \/ BeginSync \/ EndSync \/ SyncFails
  \/ invalidateAnalytics \/ MailArrives \/ resetMailbox \/ RemovedAndAdded \/ OtherProcessBinds
  \/ \E r \in Readers :
       \/ \E kind \in Kinds : Ask(r, kind)
       \/ AskRefused(r) \/ Finish(r)
       \/ \E seen \in 0..MaxVersions : FetchDone(r, seen)

ARSpec == ARInit /\ [][ARNext]_runtime_vars

------------------------------------------------------------------------------
(* Properties.                                                                  *)

(* Nothing derived from a former mailbox is found under the account again,      *)
(* however late a read of it comes back: not in the cache, not in what the      *)
(* analytics were told, not in the index of another owner; and a cached mailbox *)
(* is never older than the last change a tool made in it.                       *)
DerivedBelongs ==
  /\ runtime.cache.of \in {Nobody, mailbox} /\ runtime.told \in {Nobody, mailbox}
  /\ runtime.cache.version # 0 => runtime.cache.version >= version.known
  /\ index.rows \subseteq {index.owner}
  /\ instance.open /\ assertCurrentOwner => index.owner = mailbox

==============================================================================
