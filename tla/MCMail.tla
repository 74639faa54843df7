-------------------------------- MODULE MCMail --------------------------------
(* What happens to mail, one part at a time: each behaviour is one of one part,   *)
(* from its own initial states, while the rest stands still.                      *)
EXTENDS Scheduler, AccountRuntime, Reminders, Submission, Folders, Mailbox

VARIABLE part

mail_vars == <<part, vars, runtime_vars, rem_vars, sub_vars, fo_vars, mailbox_vars>>

(* One call of a mailbox may be anything, beside one that reads or empties the   *)
(* trash.                                                                        *)
Anything == {"move", "copy", "delete", "remove", "flag", "empty", "read", "search", "list"}
CallsOfMailbox == <<Anything, {"read", "empty"}>>

(* The wishes of two callers, and one name as a folder and as a label.           *)
FolderWishes == <<{"create", "ensure", "delete", "rename", "list", "sync"}, {"create", "sync"}>>

(* The queue and the pool of the other parts, which stand still, need one        *)
(* beginning only.                                                              *)
OneQueue ==
  /\ \A i \in Legacy : disk[i] = LegacyRow(NoAccount)
  /\ \A a, b \in Accounts : identity[a] = identity[b] /\ \A n \in Identities : identity[a] <= n

MailInit ==
  /\ Init /\ ARInit /\ REMInit /\ SubInit /\ FOInit /\ MBInit
  /\ part \in {"scheduled", "runtime", "reminders", "submission", "mailbox", "folders"}
  /\ part = "scheduled" \/ OneQueue
  /\ part = "submission" \/ pool = "ready"
  /\ part = "folders" \/ "Labels/Work" \in server
  /\ part = "mailbox" \/ (bridge.move /\ bridge.plus)

MailNext ==
  /\ UNCHANGED part
  /\ IF part = "scheduled" THEN Next ELSE UNCHANGED vars
  /\ IF part = "runtime" THEN ARNext ELSE UNCHANGED runtime_vars
  /\ IF part = "reminders" THEN REMNext ELSE UNCHANGED rem_vars
  /\ IF part = "submission" THEN SubNext ELSE UNCHANGED sub_vars
  /\ IF part = "folders" THEN FONext ELSE UNCHANGED fo_vars
  /\ IF part = "mailbox" THEN MBNext ELSE UNCHANGED mailbox_vars

MailSpec == MailInit /\ [][MailNext]_mail_vars

==============================================================================
