----------------------------- MODULE MCToolCalls -----------------------------
(* A tool call on its way through the gates, the folders a restricted call may  *)
(* name, and the mail commands of calls under their deadlines: each behaviour   *)
(* is one of one of the three.                                                  *)
EXTENDS MutationDeadline, CallGate, FolderScope, TLC

CONSTANTS imap, smtp, mover, replier, sender

(* A call that only writes to the mailbox, one that sends and then writes, and  *)
(* one that only sends: the reply connects the two transports.  The first is    *)
(* neither cancelled nor late in this instance, as if background.               *)
Uses == (mover :> {imap}) @@ (replier :> {imap, smtp}) @@ (sender :> {smtp})
Callers == {mover, replier, sender}
ToolSends == (mover :> 1) @@ (replier :> 2) @@ (sender :> 1)

(* Every tool with a folder, for grants restricted to a few, among mailboxes    *)
(* with local names, nested paths and names that differ by a blank or by case.  *)
Strings ==
  {<<>>, <<" ">>, <<"INBOX">>, <<"inbox">>, <<" ", "INBOX">>, <<"Work">>, <<"Work", " ">>,
   <<" ", "Work">>, <<"Labels", "/", "Work">>, <<"Folders", "/", "Work">>, <<"Trash">>,
   <<"Archive">>, <<"*">>}
Searches ==
  {<<>>} \cup {<<a>> : a \in Strings}
  \cup {<<a, b>> : a \in {<<"INBOX">>, <<"Work">>}, b \in Strings \cup {<<"7">>}}
Grants ==
  {{<<"inbox">>}, {<<"INBOX">>, <<"Labels", "/", "Work">>},
   {<<"Folders", "/", "Work">>, <<"Trash">>, <<"INBOX">>},
   {<<"Work">>, <<"Archive">>, <<"Scheduled">>}}
Folders ==
  {<<"INBOX">>, <<"Sent">>, <<"Work">>, <<"Labels", "/", "Work">>,
   <<"Labels", "/", " ", "Work">>, <<"Folders", "/", "Work">>, <<"Papelera">>}
Trashes == {<<"Trash">>, <<"Papelera">>}
Lowercase == "INBOX" :> "inbox"

VARIABLE part
calls_vars == <<part, vars, gate_vars, fs_vars>>

(* Where a behaviour is about something else, the folders of one call.          *)
Unasked ==
  [tool |-> "empty_trash", args |-> [source |-> Absent, target |-> Absent, folders |-> NoList],
   allow |-> {INBOX}, special |-> Trash]

ToolCallsInit ==
  /\ part \in {"gates", "deadline", "folders"}
  /\ CGInit /\ Init
  /\ IF part = "folders" THEN FSInit ELSE scope = Unasked /\ decision = "asked" /\ named = {}

ToolCallsNext ==
  /\ UNCHANGED part
  /\ \/ part = "gates" /\ CGNext /\ UNCHANGED <<vars, fs_vars>>
     \/ part = "deadline" /\ Next /\ UNCHANGED <<gate_vars, fs_vars>>
     \/ part = "folders" /\ FSNext /\ UNCHANGED <<vars, gate_vars>>

ToolCallsSpec == ToolCallsInit /\ [][ToolCallsNext]_calls_vars

==============================================================================
