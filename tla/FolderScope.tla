----------------------------- MODULE FolderScope -----------------------------
(* The folder allowlist of a grant (src/agents/grant-manager.ts) against the    *)
(* mailboxes the handlers of the tools name to the IMAP server (src/tools/).    *)
(* The gate reads the raw arguments of a call and works out, tool by tool,      *)
(* which mailboxes its handler will use; the handler reads the same arguments   *)
(* by rules of its own.  A string is the sequence of its words, slashes and     *)
(* blanks, so that padding, prefixes and case are told apart.                   *)
EXTENDS Naturals, Sequences, FiniteSetsExt

CONSTANTS
  Spellings,   \* the strings an argument may be
  Lists,       \* the values of the `folders` of a search other than none at all
  Allowlists,  \* the nonempty lists of folders a grant may be restricted to
  Mailboxes,   \* the mailboxes of the account
  SpecialPaths, \* the paths the server may give the special-use mailbox a tool asks for
  Small        \* the words with capitals, mapped to their form in small letters

VARIABLES
  scope,     \* the grant, the account and the call
  decision,  \* how far the call is
  named      \* the mailboxes its handler has named to the server

fs_vars == <<scope, decision, named>>

(* Arguments which are no string: left out, or of another type; and no list.    *)
Absent == <<"undefined">>
Odd == <<"7">>
NoList == <<Absent>>
IsString(v) == v \notin {Absent, Odd}
Blank(s) == \A i \in DOMAIN s : s[i] = " "
Trim(s) ==
  LET solid == {i \in DOMAIN s : s[i] # " "}
  IN  IF solid = {} THEN <<>> ELSE SubSeq(s, Min(solid), Max(solid))
Padded(s) == Trim(s) # s

(* What stands for no string, or for an error, is none, padded or not.          *)
ASSUME FolderScopeAssumption == \A s \in Spellings : Trim(s) \notin {Absent, Odd, <<"error">>}

(* toLowerCase() of the two sides                                               *)
Folded(s) == [i \in DOMAIN s |-> IF s[i] \in DOMAIN Small THEN Small[s[i]] ELSE s[i]]
Same(a, b) == Folded(a) = Folded(b)
Within(folder, list) == \E entry \in list : Same(entry, folder)

Begins(s, word) == Len(s) >= 2 /\ s[1] = word /\ s[2] = "/"
LabelPath(leaf) == <<"Labels", "/">> \o leaf
Qualified(path) ==
  IF Begins(path, "Folders") \/ Begins(path, "Labels") THEN path ELSE <<"Folders", "/">> \o path

INBOX == <<"INBOX">>
Sent == <<"Sent">>
Archive == <<"Archive">>
Trash == <<"Trash">>
Spam == <<"Spam">>
Scheduled == {<<"All", " ", "Scheduled">>, <<"Scheduled">>}

------------------------------------------------------------------------------
(* The gate.  A folder it cannot work out is Absent.                            *)

readFolder(v) == IF IsString(v) /\ ~Blank(v) THEN Trim(v) ELSE Absent
readNonEmptyString(v) == IF IsString(v) /\ ~Blank(v) THEN v ELSE Absent

Flagging ==
  {"mark_email_read", "star_email", "mark_answered", "mark_forwarded", "bulk_mark_read", "bulk_star"}
Moving == {"move_email", "bulk_move_emails"}
Deleting == {"delete_email", "bulk_delete_emails"}
Labelling == {"move_to_label", "bulk_move_to_label"}
Unlabelling == {"remove_label", "bulk_remove_label"}
Mutations ==
  Flagging \cup Moving \cup Deleting \cup Labelling \cup Unlabelling \cup
  {"archive_email", "move_to_trash", "move_to_spam", "move_to_folder", "empty_trash",
   "create_folder", "delete_folder", "rename_folder", "save_draft"}

prefixed(v) == IF readNonEmptyString(v) = Absent THEN Absent ELSE LabelPath(v)
folder_or_prefixed(v) ==
  IF readFolder(v) = Absent THEN Absent ELSE Qualified(readFolder(v))
dynamic_special_use == Absent

(* Every folder a mutation touches, by the matrix of its tool.                  *)
resolveMailboxMutationFolders(tool, a) ==
  CASE tool \in Flagging -> {readFolder(a.source)}
    [] tool \in Moving \cup {"rename_folder"} -> {readFolder(a.source), readFolder(a.target)}
    [] tool = "move_to_folder" -> {readFolder(a.source), folder_or_prefixed(a.target)}
    [] tool = "archive_email" -> {readFolder(a.source), Archive}
    [] tool = "move_to_trash" -> {readFolder(a.source), Trash}
    [] tool = "move_to_spam" -> {readFolder(a.source), Spam}
    [] tool \in Deleting -> {readFolder(a.source), dynamic_special_use}
    [] tool \in Labelling -> {readFolder(a.source), prefixed(a.target)}
    [] tool \in Unlabelling -> {prefixed(a.target)}
    [] tool \in {"create_folder", "delete_folder"} -> {readFolder(a.target)}
    [] tool \in {"empty_trash", "save_draft"} -> {dynamic_special_use}

(* The tools that answer with mail.                                             *)
ById ==
  {"get_email_by_id", "download_attachment", "get_thread", "extract_action_items",
   "extract_meeting", "reply_to_email", "forward_email"}
ByDefault == {"get_emails", "sync_emails"}

DefaultFolder(v) ==
  IF v = Absent \/ (IsString(v) /\ Blank(v)) THEN INBOX ELSE readFolder(v)

Wildcard(s) == Same(s, <<"*">>) \/ Same(s, <<"all">>)

resolveSearchFolders(a) ==
  IF a.folders = NoList
  THEN {DefaultFolder(a.source)}
  ELSE LET folders == {readFolder(a.folders[i]) : i \in DOMAIN a.folders}
           scalar == readFolder(a.source)
       IN  IF \/ folders = {}
              \/ \E f \in folders : Wildcard(f)
              \/ a.source \notin {Absent, <<>>} /\ ~Within(scalar, folders)
           THEN {Absent}
           ELSE folders

resolveDirectContentFolders(tool, a) ==
  CASE tool \in ById -> {readFolder(a.source)}
    [] tool \in ByDefault -> {DefaultFolder(a.source)}
    [] tool = "search_emails" -> resolveSearchFolders(a)
    [] tool = "get_emails_by_label" -> {prefixed(a.target)}
    [] tool = "fts_search" -> IF a.source = Absent THEN {} ELSE {readFolder(a.source)}
    [] tool \in {"list_proton_scheduled", "remind_if_no_reply"} -> {}

Resolved(tool, a) ==
  IF tool \in Mutations
  THEN resolveMailboxMutationFolders(tool, a)
  ELSE resolveDirectContentFolders(tool, a)

(* Mutant: an omitted source is taken for nothing to check.                     *)
ExplicitOnly(tool, a, allow) == \A f \in Resolved(tool, a) \ {Absent} : Within(f, allow)

(* allowResolvedFolders, of a call whose folders can all be worked out.         *)
checkFolderCondition(tool, a, allow) ==
  \A f \in Resolved(tool, a) : f # Absent /\ Within(f, allow)

------------------------------------------------------------------------------
(* The handlers: the mailboxes each names to the server, among which Refused    *)
(* stands for an error before any is named.                                     *)

Refused == <<"error">>

(* What every method of SimpleIMAPService asks of a path.                       *)
validateImapPath(v) ==
  {IF IsString(v) /\ ~Blank(v) /\ ~Padded(v) THEN v ELSE Refused}

(* Without a source the service looks for the message in every mailbox.         *)
optionalSourceFolder(v) == IF v \in {Absent, <<>>} THEN Mailboxes ELSE validateImapPath(v)

(* A hint is trimmed.  What is left of it, Absent for none.                     *)
optionalFolderHint(v) == IF v = Odd THEN Refused ELSE readFolder(v)

validateRequiredTargetFolder(v) == {IF readFolder(v) = Absent THEN Refused ELSE Trim(v)}

validateLabelName(v) ==
  IF IsString(v) /\ ~Blank(v) /\ \A i \in DOMAIN v : v[i] # "/"
  THEN validateImapPath(LabelPath(v))
  ELSE {Refused}

(* No empty segment in the path given to move_to_folder.                        *)
WellSegmented(s) ==
  /\ s[1] # "/" /\ s[Len(s)] # "/"
  /\ \A i \in 2 .. Len(s) : ~(s[i - 1] = "/" /\ s[i] = "/")
FolderTarget(v) ==
  IF readFolder(v) # Absent /\ WellSegmented(Trim(v)) THEN {Qualified(Trim(v))} ELSE {Refused}

(* The handlers of src/tools/actions.ts, then deletion.ts, drafts.ts, folders.ts. *)
Acts(tool, a) ==
  optionalSourceFolder(a.source) \cup
    CASE tool \in Flagging -> {}
      [] tool \in Moving -> validateImapPath(a.target)
      [] tool = "move_to_folder" -> FolderTarget(a.target)
      [] tool = "archive_email" -> {Archive}
      [] tool = "move_to_trash" -> {Trash}
      [] tool = "move_to_spam" -> {Spam}
LabelsMail(tool, a) ==
  validateLabelName(a.target) \cup
    IF tool \in Labelling THEN optionalSourceFolder(a.source) ELSE {}
Deletes(tool, a, special) ==
  IF tool = "empty_trash" THEN {special} ELSE optionalSourceFolder(a.source) \cup {special}
save_draft(special) == {special}
Administers(tool, a) ==
  validateRequiredTargetFolder(a.target) \cup
    IF tool = "rename_folder" THEN validateRequiredTargetFolder(a.source) ELSE {}

Mutates(tool, a, special) ==
  CASE tool \in Labelling \cup Unlabelling -> LabelsMail(tool, a)
    [] tool \in Deleting \cup {"empty_trash"} -> Deletes(tool, a, special)
    [] tool = "save_draft" -> save_draft(special)
    [] tool \in {"create_folder", "delete_folder", "rename_folder"} -> Administers(tool, a)
    [] OTHER -> Acts(tool, a)

(* The handlers of restricted callers' reads ask for the provenance themselves. *)
Proven(folder, allow) == IF Within(folder, allow) THEN folder ELSE Refused

(* The folders of a search, which is told the allowlist.                        *)
validateSearchInput(a, allow) ==
  IF a.folders = NoList
  THEN {Proven(IF a.source \in {Absent, <<>>} THEN INBOX ELSE a.source, allow)}
  ELSE LET folders == {a.folders[i] : i \in DOMAIN a.folders}
       IN  IF \/ folders = {}
              \/ \E f \in folders : ~IsString(f) \/ Wildcard(f)
              \/ a.source \notin {Absent, <<>>}
                 /\ ~(IsString(a.source) /\ Within(a.source, allow) /\ Within(a.source, folders))
           THEN {Refused}
           ELSE {Proven(f, allow) : f \in folders}

(* The handlers of reading.ts, then system.ts, sending.ts and drafts.ts.        *)
get_emails(a, allow) == {Proven(IF a.source \in {Absent, <<>>} THEN INBOX ELSE a.source, allow)}
get_emails_by_label(a, allow) ==
  {IF f = Refused THEN f ELSE Proven(f, allow) : f \in validateLabelName(a.target)}
Fetches(a, allow) == {Proven(optionalFolderHint(a.source), allow)}
Extracts(a, allow) == Fetches(a, allow)
get_thread(a, allow) == Fetches(a, allow) \cup allow
download_attachment(a, allow) == Fetches(a, allow)
searchUnsafe(folder, allow) ==
  {f \in Mailboxes : Within(f, allow) /\ (Blank(folder) \/ Same(f, Trim(folder)))}
fts_search(a, allow) == searchUnsafe(IF IsString(a.source) THEN a.source ELSE <<>>, allow)
sync_emails(a) ==
  IF a.source \in {Absent, <<>>} THEN {INBOX} ELSE validateImapPath(a.source)
Replies(a, allow) == Fetches(a, allow)
list_proton_scheduled(allow) == {f \in Scheduled : Within(f, allow)}
remind_if_no_reply(a, allow) ==
  LET hint == optionalFolderHint(a.source)
  IN  {Proven(IF hint = Absent THEN Sent ELSE hint, allow)}

Reads(tool, a, allow) ==
  CASE tool = "get_emails" -> get_emails(a, allow)
    [] tool = "get_emails_by_label" -> get_emails_by_label(a, allow)
    [] tool = "get_thread" -> get_thread(a, allow)
    [] tool \in {"reply_to_email", "forward_email"} -> Replies(a, allow)
    [] tool = "download_attachment" -> download_attachment(a, allow)
    [] tool = "get_email_by_id" -> Fetches(a, allow)
    [] tool \in {"extract_action_items", "extract_meeting"} -> Extracts(a, allow)
    [] tool = "search_emails" -> validateSearchInput(a, allow)
    [] tool = "fts_search" -> fts_search(a, allow)
    [] tool = "sync_emails" -> sync_emails(a)
    [] tool = "list_proton_scheduled" -> list_proton_scheduled(allow)
    [] tool = "remind_if_no_reply" -> remind_if_no_reply(a, allow)

Names(tool, a, allow, special) ==
  LET all == IF tool \in Mutations THEN Mutates(tool, a, special) ELSE Reads(tool, a, allow)
  IN  IF Refused \in all THEN {} ELSE all

------------------------------------------------------------------------------
(* A call, with the arguments its tool has.                                     *)
Values == Spellings \cup {Absent, Odd}
NoTarget == Flagging \cup Deleting \cup ById \cup ByDefault \cup
            {"archive_email", "move_to_trash", "move_to_spam", "fts_search", "remind_if_no_reply",
             "search_emails"}
NoSource == Unlabelling \cup {"create_folder", "delete_folder", "get_emails_by_label"}
Tools ==
  Mutations \cup ById \cup ByDefault \cup
  {"search_emails", "get_emails_by_label", "fts_search", "list_proton_scheduled",
   "remind_if_no_reply"}
NoneAtAll == {"empty_trash", "save_draft", "list_proton_scheduled"}

ArgsOf(tool) ==
  [source : IF tool \in NoSource \cup NoneAtAll THEN {Absent} ELSE Values,
   target : IF tool \in NoTarget \cup NoneAtAll THEN {Absent} ELSE Values,
   folders : IF tool = "search_emails" THEN Lists \cup {NoList} ELSE {NoList}]

FSInit ==
  /\ \E tool \in Tools : \E args \in ArgsOf(tool) :
       scope \in [tool : {tool}, args : {args}, allow : Allowlists, special : SpecialPaths]
  /\ decision = "asked"
  /\ named = {}

Check ==
  /\ decision = "asked"
  /\ decision' = IF checkFolderCondition(scope.tool, scope.args, scope.allow)
                 THEN "admitted" ELSE "denied"
  /\ UNCHANGED <<scope, named>>

Handle ==
  /\ decision = "admitted"
  /\ decision' = "handled"
  /\ named' = Names(scope.tool, scope.args, scope.allow, scope.special)
  /\ UNCHANGED scope

FSNext == Check \/ Handle

FSSpec == FSInit /\ [][FSNext]_fs_vars

------------------------------------------------------------------------------
(* Whatever a call spells, leaves out or pads, wherever the server keeps its    *)
(* special mailboxes: a handler that the gate lets a restricted caller reach    *)
(* names no mailbox outside the allowlist, up to the case of letters.           *)
StaysWithin == \A f \in named : Within(f, scope.allow)

(* The tools that answer with mail would stay within it without the gate, too:  *)
(* they prove the folder of what they read themselves (sync_emails does not,    *)
(* and answers with a count).                                                   *)
ReadsProven ==
  scope.tool \notin Mutations \cup {"sync_emails"} =>
    \A f \in Names(scope.tool, scope.args, scope.allow, scope.special) : Within(f, scope.allow)

(* The gate refuses no move, and no read by id, whose folders are all spelled    *)
(* out and allowed.                                                             *)
ServesInside ==
  decision = "denied" /\ scope.tool \in Moving \cup ById =>
    \E v \in {scope.args.source} \cup (IF scope.tool \in Moving THEN {scope.args.target} ELSE {}) :
      ~IsString(v) \/ Blank(v) \/ ~Within(Trim(v), scope.allow)

FolderScopeHolds == StaysWithin /\ ReadsProven /\ ServesInside

==============================================================================
