------------------------------- MODULE Reminders -------------------------------
(* Reminders to follow up on mail that got no reply: the records of one file,   *)
(* each bound to the mailbox its account had when it was made, kept in memory   *)
(* by the daemon and written whole after every change.  A write that fails is   *)
(* rolled back, except that of a quarantine, which keeps the safe memory.       *)
EXTENDS Naturals

CONSTANTS
  Owners,         \* accounts of the registry
  MailboxIds,     \* opaque identities of mailboxes, > 0
  MaxReminders,   \* bound: records ever made
  OldRows,         \* numbers of the records the first file holds without identity
  MaxTroubles     \* bound: failed writes, restarts and registry changes

ASSUME RemindersAssumption ==
  /\ Owners # {} /\ MailboxIds # {} /\ MailboxIds \subseteq Nat \ {0}
  /\ MaxReminders \in Nat

Ids == 1..MaxReminders
NoOwner == 0
Unresolved == 0   \* no mailbox identity
NoRow == [owner |-> NoOwner, mailbox |-> Unresolved, status |-> "absent"]
Made(a, m) == [owner |-> a, mailbox |-> m, status |-> "pending"]

VARIABLES
  reminders,      \* the rows in memory
  stored,         \* the rows of the file
  mailboxOf,      \* the registry: the identity of each account, if it has one
  creating,       \* the account and identity of a call that waits for its message
  overdue,        \* 0, or 1 past the deadline, or 2 a month past it
  troubles,       \* of the bound
  madeFor,        \* history: the mailbox each record was acknowledged or migrated for
  shown,          \* history: how often check_reminders answered each record
  ended,          \* history: cancelled, or replied to, and the answer said so
  excused         \* history: quarantined, cut off by a failed prune, or misread

rem_vars == <<reminders, stored, mailboxOf, creating, overdue, troubles, madeFor, shown, ended, excused>>

REMInit ==
  /\ reminders = [r \in Ids |-> IF r \in OldRows THEN Made(CHOOSE a \in Owners : TRUE, Unresolved) ELSE NoRow]
  /\ stored = reminders
  /\ mailboxOf = [a \in Owners |-> CHOOSE m \in MailboxIds : TRUE]
  /\ creating = NoRow /\ overdue = [r \in Ids |-> 0] /\ troubles = 0
  /\ madeFor = [r \in Ids |-> Unresolved] /\ shown = [r \in Ids |-> 0]
  /\ ended = {} /\ excused = {}

Trouble(hits) == troubles' = troubles + hits /\ troubles' <= MaxTroubles

------------------------------------------------------------------------------
(* Scope and the file                                                           *)

isRecordCurrent(row) == row.mailbox # Unresolved /\ row.mailbox = mailboxOf[row.owner]
InScope(rows, a) == {r \in Ids : rows[r].owner = a /\ isRecordCurrent(rows[r])}
Open(rows, a) == {r \in InScope(rows, a) : rows[r].status = "pending"}

Marked(rows, S, status) == [r \in Ids |-> IF r \in S THEN [rows[r] EXCEPT !.status = status] ELSE rows[r]]
Without(rows, S) == [r \in Ids |-> IF r \in S THEN NoRow ELSE rows[r]]

(* Mutant: a failed write leaves the change in memory.                          *)
KeepsUnsaved(new, ok) == reminders' = new /\ stored' = (IF ok THEN new ELSE stored)
persistOrRollback(new, ok) ==
  /\ reminders' = (IF ok THEN new ELSE reminders)
  /\ stored' = (IF ok THEN new ELSE stored)

Cost(ok) == IF ok THEN 0 ELSE 1

------------------------------------------------------------------------------
(* Tools and background work                                                    *)

(* remind_if_no_reply captures its account's identity, fetches the message, and *)
(* adds the reminder, if the account still is that mailbox.                     *)
Remind(a) ==
  /\ creating = NoRow /\ mailboxOf[a] # Unresolved
  /\ \E r \in Ids : reminders[r] = NoRow /\ madeFor[r] = Unresolved
  /\ creating' = Made(a, mailboxOf[a])
  /\ UNCHANGED <<reminders, stored, mailboxOf, overdue, troubles, madeFor, shown, ended, excused>>

Add(r, ok) ==
  /\ creating # NoRow
  /\ reminders[r] = NoRow /\ madeFor[r] = Unresolved /\ r \notin OldRows
  /\ creating' = NoRow
  /\ IF mailboxOf[creating.owner] = creating.mailbox
     THEN /\ Trouble(Cost(ok))
          /\ persistOrRollback([reminders EXCEPT ![r] = creating], ok)
          /\ madeFor' = IF ok THEN [madeFor EXCEPT ![r] = creating.mailbox] ELSE madeFor
     ELSE UNCHANGED <<reminders, stored, troubles, madeFor>>
  /\ UNCHANGED <<mailboxOf, overdue, shown, ended, excused>>

cancel(r, a, ok) ==
  /\ r \in Open(reminders, a)
  /\ Trouble(Cost(ok))
  /\ persistOrRollback(Marked(reminders, {r}, "cancelled"), ok)
  /\ ended' = IF ok THEN ended \cup {r} ELSE ended
  /\ UNCHANGED <<mailboxOf, creating, overdue, madeFor, shown, excused>>

(* A background sync found replies to some of the open reminders of a mailbox.  *)
detectRepliesAndCancel(a, ok) ==
  \E S \in SUBSET Open(reminders, a) \ {{}} :
    /\ Trouble(Cost(ok))
    /\ persistOrRollback(Marked(reminders, S, "cancelled"), ok)
    /\ ended' = IF ok THEN ended \cup S ELSE ended
    /\ UNCHANGED <<mailboxOf, creating, overdue, madeFor, shown, excused>>

(* check_reminders fires what is due, and saves that; then it prunes what is    *)
(* finished and a month old, and saves that; then it answers.                   *)
DueOf(a) == {r \in Open(reminders, a) : overdue[r] > 0}
Fired(a) == Marked(reminders, DueOf(a), "fired")
Finished(rows, a) == {r \in InScope(rows, a) : rows[r].status # "pending" /\ overdue[r] = 2}

(* Mutant: the reminders are answered before they are saved as fired.           *)
AnswersFirst(a) ==
  /\ DueOf(a) # {} /\ Trouble(1)
  /\ shown' = [r \in Ids |-> shown[r] + Cost(r \notin DueOf(a))]
  /\ UNCHANGED <<reminders, stored, mailboxOf, creating, overdue, madeFor, ended, excused>>
ScanFails(a) ==
  /\ DueOf(a) # {} /\ Trouble(1)
  /\ UNCHANGED <<reminders, stored, mailboxOf, creating, overdue, madeFor, shown, ended, excused>>

PruneFails(a) ==
  /\ Finished(Fired(a), a) # {} /\ Trouble(1)
  /\ reminders' = Fired(a) /\ stored' = IF DueOf(a) = {} THEN stored ELSE Fired(a)
  /\ excused' = excused \cup DueOf(a)
  /\ UNCHANGED <<mailboxOf, creating, overdue, madeFor, shown, ended>>

Check(a) ==
  LET left == Without(Fired(a), Finished(Fired(a), a)) IN
  /\ left # reminders
  /\ reminders' = left /\ stored' = left
  /\ shown' = [r \in Ids |-> shown[r] + Cost(r \notin DueOf(a))]
  /\ UNCHANGED <<mailboxOf, creating, overdue, troubles, madeFor, ended, excused>>

------------------------------------------------------------------------------
(* The registry changes; the daemon restarts                                    *)

(* The account is removed, or made another mailbox: all its rows are removed,   *)
(* from memory even if the write fails.                                         *)
RepointOwner(a, m, ok) ==
  LET theirs == {r \in Ids : reminders[r].owner = a}
      left == Without(reminders, theirs) IN
  /\ m # mailboxOf[a] /\ Trouble(1 + Cost(ok))
  /\ mailboxOf' = [mailboxOf EXCEPT ![a] = m]
  /\ reminders' = left
  /\ stored' = IF ok /\ theirs # {} THEN left ELSE stored
  /\ excused' = excused \cup theirs
  /\ UNCHANGED <<creating, overdue, madeFor, shown, ended>>

(* Load, migration of the rows without identity (owned by their account, or by  *)
(* the active one), quarantine of those whose account is another mailbox now.   *)
Unidentified(rows) == {r \in Ids : rows[r] # NoRow /\ rows[r].mailbox = Unresolved}
Identified(rows) == [r \in Ids |->
  IF r \in Unidentified(rows) THEN [rows[r] EXCEPT !.mailbox = mailboxOf[rows[r].owner]] ELSE rows[r]]
Strangers(rows) == {r \in Ids : rows[r].mailbox # Unresolved /\ ~isRecordCurrent(rows[r])}

Restart(migrates, quarantines, readable) ==
  LET rows == IF readable THEN stored ELSE [r \in Ids |-> NoRow]
      sound == IF migrates THEN Identified(rows) ELSE rows
      left == Without(sound, {r \in Ids : \E q \in Strangers(sound) : sound[r].owner = sound[q].owner}) IN
  /\ Trouble(1 + Cost(migrates) + Cost(quarantines) + Cost(readable))
  /\ reminders' = left
  /\ stored' = IF left # sound /\ quarantines THEN left ELSE IF sound # rows THEN sound ELSE stored
  /\ madeFor' = [r \in Ids |-> IF sound[r] # NoRow THEN sound[r].mailbox ELSE madeFor[r]]
  /\ excused' = excused \cup {r \in Ids : left[r] # sound[r]} \cup (IF readable THEN {} ELSE Ids)
  /\ creating' = NoRow
  /\ UNCHANGED <<mailboxOf, overdue, shown, ended>>

Later(r) ==
  /\ reminders[r] # NoRow /\ overdue[r] < 2
  /\ overdue' = [overdue EXCEPT ![r] = @ + 1]
  /\ UNCHANGED <<reminders, stored, mailboxOf, creating, troubles, madeFor, shown, ended, excused>>

REMNext ==
  \/ \E a \in Owners :
       \/ Remind(a) \/ ScanFails(a) \/ PruneFails(a) \/ Check(a)
       \/ \E ok \in BOOLEAN :
            \/ detectRepliesAndCancel(a, ok)
            \/ \E r \in Ids : cancel(r, a, ok)
            \/ \E m \in MailboxIds \cup {Unresolved} : RepointOwner(a, m, ok)
  \/ \E r \in Ids, ok \in BOOLEAN : Add(r, ok)
  \/ \E migrates, quarantines, readable \in BOOLEAN : Restart(migrates, quarantines, readable)
  \/ \E r \in Ids : Later(r)

REMSpec == REMInit /\ [][REMNext]_rem_vars

------------------------------------------------------------------------------
(* Properties.                                                                  *)

(* A reminder is answered at most once, never after its cancellation or a reply *)
(* was recorded, and only while its account is the mailbox it was made for,     *)
(* whatever writes fail, accounts are repointed and restarts come between.      *)
Surfaces ==
  \A r \in Ids : shown'[r] # shown[r] =>
    /\ shown[r] = 0 /\ r \notin ended
    /\ mailboxOf[reminders[r].owner] = madeFor[r]
SurfacesOnce == [][Surfaces]_rem_vars

(* A reminder the user was promised stays in the file as pending until it is    *)
(* answered, cancelled or replied to; except that it goes with its account's    *)
(* mailbox, with a file that could not be read, and with a prune that failed.   *)
NothingForgotten == \A r \in Ids :
  madeFor[r] # Unresolved /\ ~(stored[r].status = "pending")
    => shown[r] > 0 \/ r \in ended \cup excused

==============================================================================
