------------------------------- MODULE Mailbox -------------------------------
(* The mailbox operations of SimpleIMAPService: reading with a cache, moving,   *)
(* copying, deleting, labelling and flagging mail, one at a time and in bulk,   *)
(* and emptying the trash.                                                      *)
(*                                                                              *)
(* Calls of several tools run at once on one connection; a mailbox lock gives   *)
(* one of them the selected mailbox at a time.  Other clients of the account    *)
(* change the mail between any two commands, the connection may drop with a     *)
(* command in flight, and the server, Proton Bridge, answers OK to a COPY from  *)
(* its All Mail union that it does not carry out.                               *)
EXTENDS Naturals, FiniteSets

CONSTANTS
  MailCalls,     \* tool calls
  Mail,          \* messages, numbered; a number is also the UID in All Mail
  MaxUid,        \* bound: UIDs a mailbox gives out
  MaxCache,      \* entries the cache holds (MAX_EMAIL_CACHE_SIZE)
  Budget,        \* bound: calls begun, acts of other clients and lost connections,
                 \*   all together
  CallKinds,     \* for each call, the operations it may be
  IdSets,        \* the id lists given to calls: one id, or several for bulk
  Sources,       \* the folders given with them, or NoFolder
  Targets        \* where mail is moved and copied to

None == 0
NoFolder == ""
Label == "Labels/Work"
Trash == "Trash"
All == "All Mail"
Real == {"INBOX", Label, Trash}
Folders == Real \cup {All}
Uids == 1..MaxUid
Slots == Folders \X Uids
MoveKinds == {"move", "delete"}
Relocating == MoveKinds \cup {"copy"}
Changes == Relocating \cup {"remove", "flag"}

ASSUME MailboxAssumption ==
  /\ MaxUid \in Nat /\ MaxCache \in Nat \ {0} /\ Mail \subseteq Uids /\ None \notin MailCalls
  /\ IdSets \subseteq SUBSET Uids /\ Sources \subseteq Folders \cup {NoFolder} /\ Targets \subseteq Real

VARIABLES
  box,        \* the server: the message under each UID of each real mailbox
  next,       \* the next UID of each mailbox
  mail,       \* the messages that exist, which is what All Mail holds
  seen,       \* the slots flagged \Seen
  validity,   \* UIDVALIDITY of each mailbox
  bridge,     \* [move, plus]: the capabilities MOVE and UIDPLUS
  connected,  \* isConnected
  holder,     \* the call that holds the mailbox lock, or None
  emailCache, \* a function from slots to what was fetched
  noted,      \* uidValidityMap, 0 where it has no entry
  op,         \* the calls
  reached,    \* history: for each call, the mail its target has held since it began
  alien,      \* history: slots changed by others, or by a command whose answer
              \*   was lost
  spent       \* of the budget

server_vars == <<box, next, mail, seen, validity>>
mailbox_vars == <<server_vars, bridge, connected, holder, emailCache, noted, op, reached, alien, spent>>

NoCall == [kind |-> "none", bulk |-> FALSE, ids |-> {}, src |-> NoFolder, dst |-> NoFolder, flag |-> "seen",
           pc |-> "idle", scan |-> {}, where |-> [u \in Uids |-> NoFolder], todo |-> {}, cur |-> NoFolder,
           work |-> {}, was |-> [u \in Uids |-> None], mid |-> {}, accepted |-> {},
           relocated |-> {}, plus |-> {}, won |-> {}, lost |-> {}]

At(f, u) == IF f = All THEN (IF u \in mail THEN u ELSE None) ELSE box[f][u]
Inside(f) == {At(f, u) : u \in Uids} \ {None}
Present(f, U) == {u \in U : At(f, u) # None}
Entries == DOMAIN emailCache

(* Mail 1 and 2 lie in the inbox, the others in the archive, where only All     *)
(* Mail shows them.                                                             *)
MBInit ==
  /\ box = [f \in Real |-> [u \in Uids |-> IF f = "INBOX" /\ u < 3 /\ u \in Mail THEN u ELSE None]]
  /\ next = [f \in Real |-> IF f = "INBOX" THEN 3 ELSE 1]
  /\ mail = Mail
  /\ seen = {}
  /\ validity = [f \in Folders |-> 1]
  /\ bridge \in {x \in [move : BOOLEAN, plus : BOOLEAN] : x.move \/ x.plus}
  /\ connected = TRUE
  /\ holder = None
  /\ emailCache = <<>>
  /\ noted = [f \in Folders |-> 0]
  /\ op = [c \in MailCalls |-> NoCall]
  /\ reached = [c \in MailCalls |-> {}]
  /\ alien = {}
  /\ spent = 0

------------------------------------------------------------------------------
(* The server.                                                                  *)

(* The mailbox f after M was filed there: a message that is there already is    *)
(* not filed twice, the others get the next UIDs.                               *)
Filed(f, M) ==
  LET new == M \ Inside(f)
      uid(m) == next[f] + Cardinality({k \in new : k < m})
  IN  [u \in Uids |-> IF \E m \in new : uid(m) = u
                      THEN CHOOSE m \in new : uid(m) = u
                      ELSE box[f][u]]

Room(f, M) == next[f] + Cardinality(M \ Inside(f)) <= MaxUid + 1

Arrive(M, g) ==
  reached' = [c \in MailCalls |-> IF op[c].dst = g THEN reached[c] \cup M ELSE reached[c]]

(* COPY and MOVE of the UIDs U of f to g.                                       *)
Copied(f, U, g) ==
  LET M == {At(f, u) : u \in Present(f, U)}
  IN  /\ Room(g, M)
      /\ box' = [box EXCEPT ![g] = Filed(g, M)]
      /\ next' = [next EXCEPT ![g] = @ + Cardinality(M \ Inside(g))]
      /\ Arrive(M, g)
      /\ UNCHANGED <<mail, seen, validity>>

Moved(f, U, g) ==
  LET M == {At(f, u) : u \in Present(f, U)}
  IN  /\ Room(g, M)
      /\ box' = [box EXCEPT ![g] = Filed(g, M),
                            ![f] = [u \in Uids |-> IF u \in U THEN None ELSE box[f][u]]]
      /\ next' = [next EXCEPT ![g] = @ + Cardinality(M \ Inside(g))]
      /\ seen' = seen \ ({f} \X U)
      /\ Arrive(M, g)
      /\ UNCHANGED <<mail, validity>>

(* EXPUNGE of the UIDs U of f.  Removal from a label takes only the label off;  *)
(* anywhere else a message that is in no other folder is gone for good.         *)
Expunged(f, U) ==
  LET gone == {m \in {box[f][u] : u \in Present(f, U)} :
                 f # Label /\ \A g \in Real \ {f, Label} : m \notin Inside(g)}
  IN  /\ box' = [g \in Real |-> [u \in Uids |->
                   IF (g = f /\ u \in U) \/ box[g][u] \in gone THEN None ELSE box[g][u]]]
      /\ mail' = mail \ gone
      /\ seen' = seen \ ({f} \X U)
      /\ UNCHANGED <<next, validity, reached>>

Nothing == UNCHANGED <<server_vars, reached>>

------------------------------------------------------------------------------
(* The cache.                                                                   *)

(* setCacheEntry: a full cache gives up an entry first.                         *)
WithoutSlots(cached, S) == [s \in DOMAIN cached \ S |-> cached[s]]
Kept(cached, s, e) == [t \in DOMAIN cached \cup {s} |-> IF t = s THEN e ELSE cached[t]]
Shown(f, u) == IF <<f, u>> \in seen THEN "seen" ELSE "unseen"
Fetched(f, u) == [msg |-> At(f, u), flag |-> Shown(f, u), era |-> validity[f]]

Store(cached, f, u) ==
  IF <<f, u>> \notin DOMAIN cached /\ Cardinality(DOMAIN cached) >= MaxCache
  THEN \E s \in DOMAIN cached : emailCache' = Kept(WithoutSlots(cached, {s}), <<f, u>>, Fetched(f, u))
  ELSE emailCache' = Kept(cached, <<f, u>>, Fetched(f, u))

(* checkAndUpdateUidValidity: a mailbox that was rebuilt since it was last      *)
(* opened empties the cache.                                                    *)
Checked(f) == IF noted[f] \notin {0, validity[f]} THEN <<>> ELSE emailCache
Note(f) == noted' = [noted EXCEPT ![f] = validity[f]]

Evicted(c, U) == WithoutSlots(emailCache, {op[c].cur} \X U)
Flagged(c, U) ==
  [s \in Entries |-> IF s \in {op[c].cur} \X U THEN [emailCache[s] EXCEPT !.flag = op[c].flag] ELSE emailCache[s]]

------------------------------------------------------------------------------
(* Beginning a call, and finding the folder of each id it was given without.    *)

Becomes(c, r) == op' = [op EXCEPT ![c] = r]
Throw(c) == /\ Becomes(c, [op[c] EXCEPT !.pc = "threw"])
            /\ holder' = IF holder = c THEN None ELSE holder

Request(kind, ids, src, dst, flag) ==
  [NoCall EXCEPT
     !.kind = kind, !.bulk = Cardinality(ids) > 1, !.ids = ids, !.src = src, !.dst = dst,
     !.flag = flag, !.where = [u \in Uids |-> IF u \notin ids \/ kind = "read" THEN NoFolder ELSE src],
     !.todo = ids, !.pc = CASE kind \in {"search", "list", "empty"} -> "open"
                            [] kind = "read" \/ (kind \in Changes /\ src = NoFolder) -> "find"
                            [] kind \in Changes /\ src # NoFolder -> "group"]

(* What the tools ask for: to read, move or copy, delete, unlabel or flag.      *)
Readings ==
  {Request("read", ids, src, NoFolder, "seen") : ids \in {I \in IdSets : Cardinality(I) = 1}, src \in Sources}
  \cup {Request(k, {}, src, NoFolder, "seen") : k \in {"search", "list"}, src \in Sources \ {NoFolder}}
Movings ==
  {Request(k, ids, src, dst, "seen") : k \in {"move", "copy"}, ids \in IdSets, src \in Sources, dst \in Targets}
Deletions ==
  {Request("delete", ids, src, Trash, "seen") : ids \in IdSets, src \in Sources}
  \cup {Request("empty", {}, Trash, NoFolder, "seen")}
Removals == {Request("remove", ids, Label, NoFolder, "seen") : ids \in IdSets}
Flaggings ==
  {Request("flag", ids, src, NoFolder, flag) : ids \in IdSets, src \in Sources, flag \in {"seen", "unseen"}}

Begin(c) ==
  /\ op[c].pc = "idle" /\ connected
  /\ spent < Budget /\ spent' = spent + 1
  /\ \E r \in Readings \cup Movings \cup Deletions \cup Removals \cup Flaggings :
       /\ r.kind \in CallKinds[c] /\ Becomes(c, r)
       /\ reached' = [reached EXCEPT ![c] = IF r.dst = NoFolder THEN {} ELSE Inside(r.dst)]
  /\ UNCHANGED <<server_vars, bridge, connected, holder, emailCache, noted, alien>>

(* groupEmailsByFolder and getEmailById take the first entry of the cache with  *)
(* that UID, of the given folder or, without one, of any, and otherwise open    *)
(* one mailbox after the other, All Mail last.  (An entry may also be past its  *)
(* time and count as none.)                                                     *)
Unfound(c) == {u \in op[c].ids \ op[c].lost : op[c].where[u] = NoFolder}
Hits(c, u) == {s \in Entries : s[2] = u /\ op[c].src \in {NoFolder, s[1]}}
Places(c) == IF op[c].src = NoFolder THEN Folders ELSE {op[c].src}

FoundAt(c, u, f) == Becomes(c, [op[c] EXCEPT !.where[u] = f, !.scan = {}])

Find(c) ==
  /\ op[c].pc = "find" /\ op[c].scan = {}
  /\ \E u \in Unfound(c) :
       \/ \E s \in Hits(c, u) : FoundAt(c, u, s[1])
       \/ Becomes(c, [op[c] EXCEPT !.scan = Places(c)])
  /\ UNCHANGED <<server_vars, bridge, connected, holder, emailCache, noted, reached, alien, spent>>

(* A folder that cannot be opened fails the whole lookup: an error for a call   *)
(* of one id, a failed id for a bulk call.                                      *)
NotFound(c, u) ==
  IF op[c].bulk
  THEN Becomes(c, [op[c] EXCEPT !.lost = @ \cup {u}, !.todo = @ \ {u}, !.scan = {}])
  ELSE Becomes(c, [op[c] EXCEPT !.pc = "threw", !.scan = {}])

LookIn(c, f) ==
  /\ op[c].pc = "find" /\ f \in op[c].scan
  /\ f = All => op[c].scan = {All}
  /\ holder = None
  /\ \E u \in Unfound(c) :
       IF ~connected THEN NotFound(c, u) /\ UNCHANGED <<emailCache, noted>>
       ELSE /\ Note(f)
            /\ IF At(f, u) # None
               THEN Store(Checked(f), f, u) /\ FoundAt(c, u, f)
               ELSE /\ emailCache' = Checked(f)
                    /\ IF op[c].scan = {f} THEN NotFound(c, u)
                       ELSE Becomes(c, [op[c] EXCEPT !.scan = @ \ {f}])
  /\ UNCHANGED <<server_vars, bridge, connected, holder, reached, alien, spent>>

AllFound(c) ==
  /\ op[c].pc = "find" /\ Unfound(c) = {}
  /\ Becomes(c, [op[c] EXCEPT !.pc = IF op[c].kind = "read" THEN "done" ELSE "group"])
  /\ UNCHANGED <<server_vars, bridge, connected, holder, emailCache, noted, reached, alien, spent>>

------------------------------------------------------------------------------
(* getEmails, searchSingleFolder and emptyTrash open one mailbox.  A list is    *)
(* not cached; a search does not look at UIDVALIDITY.                           *)

ListEmails(c) ==
  /\ op[c].kind = "list" /\ op[c].pc = "open" /\ holder = None /\ connected
  /\ Note(op[c].src) /\ emailCache' = Checked(op[c].src)
  /\ Becomes(c, [op[c] EXCEPT !.pc = "done"])
  /\ UNCHANGED <<server_vars, bridge, connected, holder, reached, alien, spent>>

Take(c, pc) ==
  LET U == Present(op[c].src, Uids)
  IN  IF U = {} THEN Becomes(c, [op[c] EXCEPT !.pc = "done"]) /\ UNCHANGED holder
      ELSE /\ holder' = c
           /\ Becomes(c, [op[c] EXCEPT !.cur = op[c].src, !.work = U, !.ids = U, !.pc = pc])

Search(c) ==
  /\ op[c].kind = "search" /\ op[c].pc = "open" /\ holder = None /\ connected
  /\ Take(c, "fetch")
  /\ UNCHANGED <<server_vars, bridge, connected, emailCache, noted, reached, alien, spent>>

EmptyTrash(c) ==
  /\ op[c].kind = "empty" /\ op[c].pc = "open" /\ holder = None /\ connected
  /\ Note(Trash) /\ emailCache' = Checked(Trash)
  /\ Take(c, "change")
  /\ UNCHANGED <<server_vars, bridge, connected, reached, alien, spent>>

NoConnection(c) ==
  /\ op[c].pc = "open" /\ holder = None /\ ~connected
  /\ Throw(c)
  /\ UNCHANGED <<server_vars, bridge, connected, emailCache, noted, reached, alien, spent>>

(* One hit of a search: served from the cache, or fetched and cached.           *)
Fetch(c) ==
  /\ op[c].pc = "fetch"
  /\ IF ~connected THEN Throw(c) /\ UNCHANGED emailCache
     ELSE \E u \in op[c].work :
            /\ IF op[c].work = {u}
               THEN holder' = None /\ Becomes(c, [op[c] EXCEPT !.work = {}, !.pc = "done"])
               ELSE UNCHANGED holder /\ Becomes(c, [op[c] EXCEPT !.work = @ \ {u}])
            /\ \/ <<op[c].cur, u>> \in Entries /\ UNCHANGED emailCache
               \/ At(op[c].cur, u) = None /\ UNCHANGED emailCache
               \/ At(op[c].cur, u) # None /\ Store(emailCache, op[c].cur, u)
  /\ UNCHANGED <<server_vars, bridge, connected, noted, reached, alien, spent>>

------------------------------------------------------------------------------
(* A change: for each folder take the lock, ask which ids exist, note their     *)
(* Message-IDs, give the command, and on an error repeat it id by id.           *)

IdsIn(c, f) == {u \in op[c].todo : op[c].where[u] = f}
SameLocation(c, f) == op[c].kind \in MoveKinds /\ f = op[c].dst
ByMove(c) == op[c].kind \in MoveKinds /\ op[c].cur # All

Skip(c, f) ==
  /\ op[c].pc = "group" /\ IdsIn(c, f) # {} /\ SameLocation(c, f)
  /\ Becomes(c, [op[c] EXCEPT !.won = @ \cup IdsIn(c, f), !.todo = @ \ IdsIn(c, f)])
  /\ UNCHANGED <<server_vars, bridge, connected, holder, emailCache, noted, reached, alien, spent>>

Lock(c, f) ==
  /\ op[c].pc = "group" /\ IdsIn(c, f) # {} /\ ~SameLocation(c, f)
  /\ holder = None
  /\ IF ~connected THEN Throw(c)
     ELSE /\ holder' = c
          /\ Becomes(c, [op[c] EXCEPT !.cur = f, !.work = IdsIn(c, f), !.todo = @ \ IdsIn(c, f), !.pc = "check"])
  /\ UNCHANGED <<server_vars, bridge, connected, emailCache, noted, reached, alien, spent>>

(* findExistingUidsInLockedFolder: an id that is not there has failed.          *)
Noted(c, U) == [u \in Uids |-> IF u \in U THEN At(op[c].cur, u) ELSE op[c].was[u]]
NextOf(c, there) ==
  IF there = {} THEN "leave" ELSE IF op[c].kind \in Relocating THEN "mids" ELSE "change"

FindExisting(c) ==
  /\ op[c].pc = "check"
  /\ LET there == IF connected THEN Present(op[c].cur, op[c].work) ELSE {}
     IN  IF ~op[c].bulk /\ there = {} THEN Throw(c)
         ELSE /\ Becomes(c, [op[c] EXCEPT !.work = there, !.lost = @ \cup (op[c].work \ there),
                               !.was = Noted(c, there), !.pc = NextOf(c, there)])
              /\ UNCHANGED holder
  /\ UNCHANGED <<server_vars, bridge, connected, emailCache, noted, reached, alien, spent>>

(* fetchMessageIdsForUids                                                       *)
Identify(c) ==
  /\ op[c].pc = "mids"
  /\ IF ~connected THEN Throw(c)
     ELSE /\ LET named == Present(op[c].cur, op[c].work)
             IN  Becomes(c, [op[c] EXCEPT !.mid = @ \cup named, !.was = Noted(c, named), !.pc = "change"])
          /\ UNCHANGED holder
  /\ UNCHANGED <<server_vars, bridge, connected, emailCache, noted, reached, alien, spent>>

(* requireMoveCapability                                                        *)
(* Mutant: the command is given whatever the server can do.                     *)
MayMoveAnyway == TRUE
MayMove == bridge.move

(* What a command does to the ids U.  Without the capability MOVE the client    *)
(* library would copy and then expunge, whether or not the copy worked.         *)
SetFlags(f, U, flag) ==
  /\ seen' = IF flag = "seen" THEN seen \cup ({f} \X Present(f, U)) ELSE seen \ ({f} \X U)
  /\ UNCHANGED <<box, next, mail, validity, reached>>

Command(c, U) ==
  LET f == op[c].cur
      k == op[c].kind
  IN  \/ ByMove(c) /\ bridge.move /\ Moved(f, U, op[c].dst)
      \/ ByMove(c) /\ ~bridge.move /\ Expunged(f, U)
      \/ k \in Relocating /\ ~ByMove(c) /\ Copied(f, U, op[c].dst)
      \/ k = "empty" /\ Expunged(f, U)
      \/ k = "remove" /\ op[c].pc = "change" /\ Expunged(f, U)
      \/ k = "remove" /\ op[c].pc = "each" /\ Nothing
      \/ k = "flag" /\ SetFlags(f, U, op[c].flag)

(* The slots a command changes: a purge takes a message out of every mailbox.   *)
Touched(c, U) ==
  {op[c].cur} \X U \cup
  IF op[c].kind # "empty" THEN {}
  ELSE {s \in Slots : At(s[1], s[2]) \in {At(op[c].cur, u) : u \in U} \ {None}}

(* The answers.  A command that is not rejected accepts its ids; the UID map    *)
(* of a server with UIDPLUS names those it relocated.  Flags and removals count *)
(* at once, and the cache follows.                                              *)
Rest(c, U) == IF op[c].work \subseteq U THEN "leave" ELSE op[c].pc
Outstanding(c, U) == {u \in U : op[c].kind \in Relocating \/ (op[c].kind = "remove" /\ op[c].pc = "each")}
Counted(c, U) == {u \in U : op[c].kind \notin Relocating}

Accept(c, U, done, folders) ==
  [op[c] EXCEPT !.work = @ \ U, !.pc = Rest(c, U),
     !.accepted = @ \cup Outstanding(c, U), !.won = @ \cup Counted(c, U),
     !.relocated = @ \cup done, !.plus = @ \cup folders]

Mapped(c, U, done) ==
  IF bridge.plus /\ op[c].kind \in Relocating
  THEN Accept(c, U, done, {op[c].cur}) ELSE Accept(c, U, {}, {})

(* A flag is set in the entry by the calls for one message, and else drops it.  *)
Follow(c, U) ==
  CASE ByMove(c) \/ op[c].kind \in {"remove", "empty"} -> emailCache' = Evicted(c, U)
    [] op[c].kind = "flag" -> emailCache' \in {Flagged(c, U), Evicted(c, U)}
    [] op[c].kind \in Relocating /\ ~ByMove(c) -> UNCHANGED emailCache

CommandDone(c, U) ==
  /\ connected /\ (ByMove(c) => MayMove)
  /\ Command(c, U)
  /\ Becomes(c, Mapped(c, U, Present(op[c].cur, U)))
  /\ Follow(c, U)
  /\ alien' = alien \cup (Touched(c, U) \ ({op[c].cur} \X U))
  /\ UNCHANGED <<connected, holder, spent>>

(* A COPY or MOVE that was not carried out resolves all the same: from All Mail *)
(* with OK, elsewhere with NO and no UID map.                                   *)
Ignored(c, U) ==
  /\ connected /\ op[c].kind \in Relocating /\ (ByMove(c) => MayMove)
  /\ Becomes(c, IF op[c].cur = All THEN Mapped(c, U, {}) ELSE Accept(c, U, {}, {}))
  /\ Follow(c, U)
  /\ Nothing
  /\ UNCHANGED <<connected, holder, alien, spent>>

(* An error: a bulk call falls back to one command per id, and counts an id     *)
(* that fails there as failed; a call of one id, or emptyTrash, ends.           *)
Fails(c, U) ==
  IF ~op[c].bulk THEN Throw(c)
  ELSE /\ UNCHANGED holder
       /\ Becomes(c, IF op[c].pc = "change" THEN [op[c] EXCEPT !.pc = "each"]
                     ELSE [op[c] EXCEPT !.work = @ \ U, !.lost = @ \cup U, !.pc = Rest(c, U)])

Refused(c, U) ==
  /\ Fails(c, U)
  /\ Nothing
  /\ UNCHANGED <<connected, emailCache, alien, spent>>

(* The connection goes with the command in flight: it was carried out, in part  *)
(* or not at all.  Or the deadline passes, which closes the connection and ends *)
(* the call whatever it is.                                                     *)
CutOff(c, U) ==
  /\ connected /\ spent < Budget /\ (ByMove(c) => MayMove)
  /\ \/ Nothing
     \/ Command(c, U)
     \/ op[c].kind # "copy" /\ \E D \in SUBSET U : D \notin {{}, U} /\ Command(c, D)
  /\ Fails(c, U) \/ Throw(c)
  /\ connected' = FALSE
  /\ spent' = spent + 1
  /\ alien' = alien \cup Touched(c, U)
  /\ UNCHANGED emailCache

GiveCommand(c) ==
  /\ op[c].pc \in {"change", "each"}
  /\ \E U \in IF op[c].pc = "change" THEN {op[c].work} ELSE {{u} : u \in op[c].work} :
       CommandDone(c, U) \/ Ignored(c, U) \/ Refused(c, U) \/ CutOff(c, U)
  /\ UNCHANGED <<bridge, noted>>

(* chunkedBatchOp's finalize: the ids flagged \Deleted one by one are expunged  *)
(* together; an error here ends the call.  Then the lock is released.           *)
Purging(c) == op[c].kind = "remove" /\ op[c].accepted # {}

AfterFolder(c) ==
  IF op[c].kind \in Relocating THEN "verify" ELSE IF op[c].todo = {} THEN "done" ELSE "group"

Leave(c) ==
  /\ op[c].pc = "leave"
  /\ \/ /\ Purging(c) /\ connected
        /\ Expunged(op[c].cur, op[c].accepted)
        /\ Becomes(c, [op[c] EXCEPT !.accepted = {}])
        /\ UNCHANGED holder
     \/ Purging(c) /\ Throw(c) /\ Nothing
     \/ /\ ~Purging(c)
        /\ holder' = None
        /\ Becomes(c, [op[c] EXCEPT !.pc = AfterFolder(c)])
        /\ Nothing
  /\ UNCHANGED <<bridge, connected, emailCache, noted, alien, spent>>

(* verifyRelocatedMessages: an accepted id counts when the UID map names it or, *)
(* without a map, a search of the target finds its Message-ID.  Single calls,   *)
(* deletions and copies out of All Mail are verified folder by folder, other    *)
(* bulk calls at the end.                                                       *)
ToVerify(c) ==
  IF op[c].todo = {} THEN op[c].accepted
  ELSE {u \in op[c].accepted : op[c].kind = "delete" \/ (op[c].kind = "move" /\ op[c].where[u] = All)}

(* Mutant: what the server accepted has arrived.                                *)
ConfirmedAssumed(c) == ToVerify(c)
Confirmed(c) == ToVerify(c) \cap op[c].relocated
Searched(c) == {u \in ToVerify(c) \cap op[c].mid : op[c].where[u] \notin op[c].plus}
Landed(c) == {u \in Searched(c) : op[c].was[u] \in Inside(op[c].dst)}

Verify(c) ==
  /\ op[c].pc = "verify"
  /\ Searched(c) # {} /\ connected => holder = None
  /\ \E found \in IF connected THEN SUBSET Landed(c) ELSE {{}} :
       LET yes == Confirmed(c) \cup found
       IN  IF ~op[c].bulk /\ yes = {} THEN Throw(c)
           ELSE /\ Becomes(c, [op[c] EXCEPT !.won = @ \cup yes, !.lost = @ \cup (ToVerify(c) \ yes),
                                  !.accepted = @ \ ToVerify(c),
                                  !.pc = IF op[c].todo = {} THEN "done" ELSE "group"])
                /\ UNCHANGED holder
  /\ UNCHANGED <<server_vars, bridge, connected, emailCache, noted, reached, alien, spent>>

(* Nothing is left to do: every id was skipped or not found.                    *)
End(c) ==
  /\ op[c].pc = "group" /\ op[c].todo = {}
  /\ Becomes(c, [op[c] EXCEPT !.pc = IF op[c].accepted = {} THEN "done" ELSE "verify"])
  /\ UNCHANGED <<server_vars, bridge, connected, holder, emailCache, noted, reached, alien, spent>>

------------------------------------------------------------------------------
(* Other clients, the server and the connection.                                *)

Disturbance == /\ spent < Budget /\ spent' = spent + 1
               /\ \E c \in MailCalls : op[c].pc # "idle"
Outside == UNCHANGED <<bridge, holder, noted, op>>

OtherMoves ==
  /\ Disturbance
  /\ \E f \in Folders, g \in Real, u \in Uids :
       /\ f # g /\ At(f, u) # None
       /\ IF f = All THEN Copied(f, {u}, g) ELSE Moved(f, {u}, g)
       /\ alien' = alien \cup {<<f, u>>}
  /\ UNCHANGED <<connected, emailCache>> /\ Outside

OtherFlags ==
  /\ Disturbance
  /\ \E f \in Real, u \in Uids :
       /\ At(f, u) # None
       /\ seen' = (seen \cup {<<f, u>>}) \ (seen \cap {<<f, u>>})
       /\ alien' = alien \cup {<<f, u>>}
  /\ UNCHANGED <<box, next, mail, validity, reached, connected, emailCache>> /\ Outside

(* The server rebuilds a mailbox nobody has selected: its messages get new UIDs. *)
Rebuilt ==
  /\ Disturbance
  /\ \E f \in Real, b \in [Uids -> Mail \cup {None}] :
       /\ \A c \in MailCalls : holder = c => op[c].cur # f
       /\ {b[u] : u \in Uids} \ {None} = Inside(f) /\ b # box[f]
       /\ Cardinality({u \in Uids : b[u] # None}) = Cardinality(Inside(f))
       /\ box' = [box EXCEPT ![f] = b]
       /\ next' = [next EXCEPT ![f] = MaxUid + 1]
       /\ validity' = [validity EXCEPT ![f] = @ + 1]
       /\ seen' = {s \in seen : s[1] # f}
  /\ UNCHANGED <<mail, reached, connected, emailCache, alien>> /\ Outside

Drop ==
  /\ connected /\ Disturbance
  /\ connected' = FALSE
  /\ UNCHANGED <<server_vars, emailCache, reached, alien>> /\ Outside

(* ensureConnection, by a later call: the calls on the old connection have      *)
(* failed by then.                                                              *)
ConnectAgain ==
  /\ ~connected /\ holder = None
  /\ connected' = TRUE
  /\ UNCHANGED <<server_vars, emailCache, reached, alien, spent>> /\ Outside

(* The IDLE connection reports a change of the inbox: evictInboxCacheEntries.   *)
IdleNotice ==
  /\ \E s \in Entries : s[1] = "INBOX"
  /\ emailCache' = WithoutSlots(emailCache, {"INBOX"} \X Uids)
  /\ UNCHANGED <<server_vars, connected, reached, alien, spent>> /\ Outside

Steps(c) ==
  \/ Begin(c) \/ Find(c) \/ AllFound(c) \/ ListEmails(c) \/ Search(c) \/ EmptyTrash(c) \/ NoConnection(c)
  \/ Fetch(c) \/ FindExisting(c) \/ Identify(c)
  \/ GiveCommand(c) \/ Leave(c) \/ Verify(c) \/ End(c)
  \/ \E f \in Folders : LookIn(c, f) \/ Skip(c, f) \/ Lock(c, f)

MBNext ==
  \/ \E c \in MailCalls : Steps(c)
  \/ OtherMoves \/ OtherFlags \/ Rebuilt \/ Drop \/ ConnectAgain \/ IdleNotice

MBSpec == MBInit /\ [][MBNext]_mailbox_vars

------------------------------------------------------------------------------
(* Properties.                                                                  *)

(* An id that a move, copy or deletion counts as a success has been in the      *)
(* target since that call began, an id counted as removed is out of the label,  *)
(* and a bulk call answers for each id once.                                    *)
HonestCounts ==
  \A c \in MailCalls :
    /\ op[c].kind \in Relocating =>
         \A u \in op[c].won : op[c].where[u] = op[c].dst \/ op[c].was[u] \in reached[c]
    /\ op[c].kind = "remove" /\ op[c].pc = "done" /\ validity[Label] = 1 =>
         \A u \in op[c].won : box[Label][u] = None
    /\ op[c].bulk /\ op[c].pc = "done" =>
         op[c].won \cup op[c].lost = op[c].ids /\ op[c].won \cap op[c].lost = {}

(* The cache follows the program's own changes: an entry of the mailbox as it   *)
(* stands shows what the server holds, unless someone else changed that slot or *)
(* the answer to a change was lost.                                             *)
CacheFollows ==
  \A s \in Entries :
    emailCache[s].era = validity[s[1]] /\ s \notin alien =>
      emailCache[s].msg = At(s[1], s[2]) /\ emailCache[s].flag = Shown(s[1], s[2])

(* What a call counts as moved, copied or removed is; the cache follows the     *)
(* program's own changes.                                                       *)
MailboxHolds == HonestCounts /\ CacheFollows

(* Mail is lost for good only out of the trash: no move, deletion, removal of a *)
(* label or failed command destroys a message that was elsewhere.               *)
LosesFromTrash == \A m \in mail \ mail' : m \in Inside(Trash)
LostOnlyFromTrash == [][LosesFromTrash]_mailbox_vars

(* Once a mailbox was opened under its present UIDVALIDITY, no entry from       *)
(* before it was rebuilt is served for it.                                      *)
RebuildClears ==
  \A s \in Entries : noted[s[1]] = validity[s[1]] => emailCache[s].era = validity[s[1]]

==================================================
