------------------------------- MODULE Folders -------------------------------
(* Creating, renaming and deleting mailboxes, and the cached listing of them    *)
(* (src/services/simple-imap-service.ts), among concurrent calls, lost          *)
(* connections and other clients of the same account.                           *)
EXTENDS Naturals, FiniteSets

CONSTANTS
  FolderCalls, \* the calls under way
  Wishes,      \* what each of them may do
  System,      \* paths of the special-use mailboxes, some of them under a local name
  Reserved,    \* SYSTEM_FOLDER_NAMES, the English names of such mailboxes
  Own,         \* paths of the folders and labels of the user
  Twins,       \* pairs of Own that share a leaf, one a folder and one a label
  MaxUpsets    \* how often the connection is lost, a call cut short, or another
               \*   client interferes

ASSUME FoldersAssumption == System # {} /\ System \cap Own = {} /\ MaxUpsets \in Nat

VARIABLES
  server,   \* the mailboxes there are
  cache,    \* folderCache, and
  fresh,    \* whether it is younger than FOLDER_CACHE_TTL_MS
  up,       \* whether the connection stands
  call,     \* the calls
  upsets

fo_vars == <<server, cache, fresh, up, call, upsets>>

Paths == System \cup Reserved \cup Own
NoPath == "none"

(* `path` is what a call creates, deletes or renames, `to` what it renames it    *)
(* into; `why` is what a listing is for; `did` whether the server carried the   *)
(* command out, and `answer` what the caller is told.                           *)
Idle == [op |-> "none", path |-> NoPath, to |-> NoPath, at |-> "idle", why |-> "none",
         listed |-> {}, did |-> FALSE, outcome |-> "none", answer |-> "none"]

FOInit ==
  /\ server \in {System \cup {own} : own \in Own}
  /\ cache = {} /\ fresh = FALSE /\ up = TRUE
  /\ call = [c \in FolderCalls |-> Idle]
  /\ upsets = 0

(* The name a creation or renaming would take into use.                         *)
NewName(k) == IF k.op = "rename" THEN k.to ELSE k.path
SameLeaf(a, b) == {a, b} \in Twins

Answered(k, answer) == [Idle EXCEPT !.did = k.did, !.at = "answered", !.answer = answer]

(* isNameInUse                                                                  *)
InUse(name, folders) == \E f \in folders : f = name \/ SameLeaf(f, name)

(* Mutant: a mailbox that cannot be looked up is taken for the user's.          *)
OpenWhenUnknown(k, folders) ==
  IF k.path \in folders \cap System THEN Answered(k, "protected")
  ELSE [k EXCEPT !.at = "ready", !.why = "none"]

(* What isProtectedFolder makes of a listing, none if it threw; a renaming then *)
(* asks whether its new name is reserved.                                       *)
Protects(k, folders) ==
  IF folders = {} THEN Answered(k, "error")
  ELSE IF k.path \in folders \cap System \/ (k.op = "rename" /\ k.to \in Reserved)
  THEN Answered(k, "protected")
  ELSE [k EXCEPT !.at = "ready", !.why = "none"]

(* How a call goes on with its listing.                                         *)
WithFolders(k, folders) ==
  CASE k.why = "protect" -> Protects(k, folders)
    [] k.why = "conflict" -> Answered(k, IF InUse(NewName(k), folders) THEN "exists" ELSE "error")
    [] k.why = "answer" -> [Answered(k, IF folders = {} THEN "error" ELSE "listed")
                              EXCEPT !.listed = folders]

(* getFolders: a fresh cache answers; otherwise LIST is sent, on a connection   *)
(* that may have to be made first.                                              *)
getFolders(k, why, known, young) ==
  LET asks == [k EXCEPT !.why = why]
  IN  IF known # {} /\ young THEN WithFolders(asks, known)
      ELSE [asks EXCEPT !.at = IF up THEN "listing" ELSE "connecting"]

Set(c, k) == call' = [call EXCEPT ![c] = k]

clearFolderCache == cache' = {} /\ fresh' = FALSE

------------------------------------------------------------------------------
(* createFolder and ensureFolderExists send their command at once.              *)
Create(c) ==
  /\ call[c].at = "idle"
  /\ \E op \in {"create", "ensure"} \cap Wishes[c], path \in Own :
       LET k == [Idle EXCEPT !.op = op, !.path = path]
       IN  Set(c, IF up THEN [k EXCEPT !.at = "ready"] ELSE Answered(k, "error"))
  /\ UNCHANGED <<server, cache, fresh, up, upsets>>

(* deleteFolder and renameFolder first ask whether the mailbox is protected.    *)
Change(c) ==
  /\ call[c].at = "idle"
  /\ \E path \in Paths, to \in Paths \cup {NoPath} :
       LET k == [Idle EXCEPT !.op = IF to = NoPath THEN "delete" ELSE "rename",
                             !.path = path, !.to = to]
       IN  /\ path # to /\ k.op \in Wishes[c]
           /\ Set(c, IF ~up THEN Answered(k, "error")
                     ELSE IF path \in Reserved THEN Answered(k, "protected")
                     ELSE getFolders(k, "protect", cache, fresh))
  /\ UNCHANGED <<server, cache, fresh, up, upsets>>

(* get_folders, and sync_folders, which clears the cache first.                 *)
List(c) ==
  /\ call[c].at = "idle" /\ "list" \in Wishes[c]
  /\ Set(c, getFolders([Idle EXCEPT !.op = "list"], "answer", cache, fresh))
  /\ UNCHANGED <<server, cache, fresh, up, upsets>>

syncFolders(c) ==
  /\ call[c].at = "idle" /\ "sync" \in Wishes[c]
  /\ clearFolderCache
  /\ Set(c, getFolders([Idle EXCEPT !.op = "list"], "answer", {}, FALSE))
  /\ UNCHANGED <<server, up, upsets>>

(* ensureConnection() for a listing: without one, whatever is cached is answered,  *)
(* save nothing at all.                                                         *)
ensureConnection(c) ==
  /\ call[c].at = "connecting"
  /\ \/ up' = TRUE /\ Set(c, [call[c] EXCEPT !.at = "listing"])
     \/ ~up /\ UNCHANGED up /\ Set(c, WithFolders(call[c], cache))
  /\ UNCHANGED <<server, cache, fresh, upsets>>

(* LIST is answered; each mailbox is then probed, which nothing waits for to    *)
(* succeed.                                                                     *)
Listed(c) ==
  /\ call[c].at = "listing" /\ up
  /\ Set(c, [call[c] EXCEPT !.at = "probing", !.listed = server])
  /\ UNCHANGED <<server, cache, fresh, up, upsets>>

Probed(c) ==
  /\ call[c].at = "probing"
  /\ cache' = cache \cup call[c].listed
  /\ fresh' = TRUE
  /\ Set(c, WithFolders([call[c] EXCEPT !.at = "listing", !.listed = {}], call[c].listed))
  /\ UNCHANGED <<server, up, upsets>>

(* The server carries a command out, or refuses it: a CREATE of what exists     *)
(* counts as answered (created is false); "clash" and "code" are errors that    *)
(* say that the name is in use, in words or by Proton's code; "missing" says    *)
(* that the mailbox is not there, and "no" nothing.                             *)
Carry(c) ==
  /\ call[c].at = "ready" /\ up
  /\ LET k == call[c]
         creates == k.op \in {"create", "ensure"}
         name == NewName(k)
         others == server \ {k.path}
     IN  \E result \in {"done", "already", "clash", "code", "missing", "no"} :
           /\ result = "already" <=> creates /\ name \in server
           /\ result \in {"clash", "code"} => k.op # "delete" /\ InUse(name, others)
           /\ result = "missing" => ~creates /\ k.path \notin server
           /\ result = "done" =>
                \/ creates /\ ~InUse(name, others)
                \/ k.path \in server /\ (k.op = "rename" => ~InUse(name, others))
           /\ server' = IF result # "done" THEN server
                        ELSE IF creates THEN server \cup {name}
                        ELSE IF k.op = "rename" THEN others \cup {name}
                        ELSE others
           /\ Set(c, [k EXCEPT !.at = "carried", !.did = (result = "done"), !.outcome = result])
  /\ UNCHANGED <<cache, fresh, up, upsets>>

(* What the code takes for success: createFolder asks for created = true,       *)
(* ensureFolderExists does not.                                                 *)
Succeeded(k) == k.outcome = "done" \/ (k.op = "ensure" /\ k.outcome = "already")

Deed(k) ==
  CASE k.op = "create" -> "created" [] k.op = "ensure" -> "ensured"
    [] k.op = "delete" -> "deleted" [] k.op = "rename" -> "renamed"

(* What a call is told of a command that failed.  An error that does not speak  *)
(* of the name sends createFolder and renameFolder to the listing; the error    *)
(* createFolder throws itself at "already" does.                                *)
Failed(k) ==
  CASE k.op = "ensure" -> Answered(k, IF k.outcome = "clash" THEN "ensured" ELSE "error")
    [] k.op # "ensure" /\ k.outcome = "missing" -> Answered(k, "missing")
    [] k.op \in {"create", "rename"} /\ k.outcome \in {"already", "clash", "code"} -> Answered(k, "exists")
    [] k.op \in {"create", "rename"} /\ k.outcome = "no" -> getFolders(k, "conflict", cache, fresh)
    [] k.op = "delete" /\ k.outcome = "no" -> Answered(k, "error")

Return(c) ==
  /\ call[c].at = "carried" /\ up
  /\ IF Succeeded(call[c])
     THEN clearFolderCache /\ Set(c, Answered(call[c], Deed(call[c])))
     ELSE /\ Set(c, Failed(call[c]))
          /\ UNCHANGED <<cache, fresh>>
  /\ UNCHANGED <<server, up, upsets>>

(* The connection is gone before a command, or before its answer; a listing     *)
(* that fails is not answered from the cache.                                   *)
Cut(c) ==
  /\ call[c].at \in {"ready", "carried", "listing"} /\ ~up
  /\ Set(c, IF call[c].at = "listing" THEN WithFolders(call[c], {})
            ELSE Failed([call[c] EXCEPT !.outcome = "no"]))
  /\ UNCHANGED <<server, cache, fresh, up, upsets>>

(* MailboxMutationDeadlineError, at which nothing is listed: a call cancelled or  *)
(* out of time before its command, or whose transport is closed under it.       *)
Late(c) ==
  /\ call[c].at \in {"ready", "carried"} /\ upsets < MaxUpsets
  /\ upsets' = upsets + 1
  /\ up' \in IF call[c].at = "carried" THEN {FALSE} ELSE {up, FALSE}
  /\ Set(c, Answered(call[c], "error"))
  /\ UNCHANGED <<server, cache, fresh>>

(* The caller has its answer.                                                   *)
Leaves(c) ==
  /\ call[c].at = "answered"
  /\ Set(c, Idle)
  /\ UNCHANGED <<server, cache, fresh, up, upsets>>

------------------------------------------------------------------------------
(* FOLDER_CACHE_TTL_MS passes.                                                  *)
Expire == fresh /\ fresh' = FALSE /\ UNCHANGED <<server, cache, up, call, upsets>>

Lose ==
  /\ up /\ upsets < MaxUpsets
  /\ up' = FALSE /\ upsets' = upsets + 1
  /\ UNCHANGED <<server, cache, fresh, call>>

Reconnect == ~up /\ up' = TRUE /\ UNCHANGED <<server, cache, fresh, call, upsets>>

(* Another client creates or deletes a folder or label.                         *)
Elsewhere ==
  /\ upsets < MaxUpsets /\ upsets' = upsets + 1
  /\ \E path \in Own :
       server' = IF path \in server THEN server \ {path} ELSE server \cup {path}
  /\ UNCHANGED <<cache, fresh, up, call>>

FONext ==
  \/ \E c \in FolderCalls : \/ Create(c) \/ Change(c) \/ List(c) \/ syncFolders(c) \/ Listed(c)
                      \/ ensureConnection(c) \/ Probed(c) \/ Carry(c) \/ Return(c) \/ Cut(c)
                      \/ Late(c) \/ Leaves(c)
  \/ Expire \/ Lose \/ Reconnect \/ Elsewhere

FOSpec == FOInit /\ [][FONext]_fo_vars

------------------------------------------------------------------------------
(* Properties.                                                                  *)

(* No call deletes or renames a system mailbox, under a local name either, with *)
(* whatever listing it could get while connections fail; because no listing,    *)
(* answered or kept, lacks one of them.                                         *)
SystemKept ==
  /\ System \subseteq server
  /\ cache = {} \/ System \subseteq cache
  /\ \A c \in FolderCalls : call[c].answer = "listed" => System \subseteq call[c].listed

(* A caller told of a deed is told of its own: never of a mailbox that another  *)
(* actor had created first, nor of a command that the server did not carry out. *)
DeedsOwn ==
  \A c \in FolderCalls : call[c].answer \in {"created", "deleted", "renamed"} => call[c].did

(* Concurrent calls, other clients and lost connections cost no system mailbox, *)
(* and no caller is told of a deed that was not its own.                        *)
FoldersHold == SystemKept /\ DeedsOwn

==============================================================================
