------------------------------ MODULE Delivery ------------------------------
(***************************************************************************)
(* What a scheduled email's owner may rely on, with no store, no accounts, *)
(* no process and no transport: an email is tried a bounded number of      *)
(* times, one try at a time; a try that delivered it is the last one; a    *)
(* withdrawn email is not tried again.  The scheduler of scheduler.ts is   *)
(* shown to implement this.                                                *)
(***************************************************************************)
EXTENDS Naturals

CONSTANTS
    Items,        \* the scheduled emails
    MaxTries,     \* tries an email gets
    LossyReplies  \* TRUE: a delivered try may look like a failed one

VARIABLES
    phase,      \* new, queued, parked (only the store knows it), flying, closed
    withdrawn,  \* emails cancelled or quarantined
    tries,      \* tries so far
    copies      \* copies delivered

dvars == <<phase, withdrawn, tries, copies>>

Phases == {"new", "queued", "parked", "flying", "closed"}

DInit ==
    /\ phase \in [Items -> {"new", "parked"}]
    /\ withdrawn = {}
    /\ tries = [i \in Items |-> 0]
    /\ copies = [i \in Items |-> 0]

From(i, places) == phase[i] \in places
To(i, places) == phase'[i] \in places
Untried(i) == tries'[i] = tries[i] /\ copies'[i] = copies[i]
SameSide(i) == i \in withdrawn' <=> i \in withdrawn

(* The email is accepted. *)
Submit(i) == From(i, {"new"}) /\ To(i, {"queued"}) /\ Untried(i) /\ SameSide(i)

(* The daemon forgets the email, finds it in the store again, or gives it  *)
(* up untried.                                                             *)
Park(i) == From(i, {"queued"}) /\ To(i, {"parked"}) /\ Untried(i) /\ SameSide(i)
Unpark(i) == From(i, {"parked"}) /\ To(i, {"queued"}) /\ Untried(i) /\ SameSide(i)
GiveUp(i) == From(i, {"queued", "parked"}) /\ To(i, {"closed"}) /\ Untried(i) /\ SameSide(i)

(* The email is withdrawn, perhaps while a try is out. *)
Withdraw(i) ==
    /\ \/ From(i, {"queued", "closed"}) /\ To(i, {"closed"})
       \/ From(i, {"flying"}) /\ To(i, {"flying"})
    /\ i \in withdrawn'
    /\ Untried(i)

Try(i) ==
    /\ From(i, {"queued"}) /\ To(i, {"flying"})
    /\ i \notin withdrawn /\ i \notin withdrawn'
    /\ tries[i] < MaxTries
    /\ tries'[i] = tries[i] + 1
    /\ copies'[i] = copies[i]

(* The try is over: for good, or because it failed and another is allowed. *)
Land(i) ==
    /\ From(i, {"flying"})
    /\ copies'[i] \in {copies[i], copies[i] + 1}
    /\ \/ To(i, {"closed"})
       \/ /\ To(i, {"queued"})
          /\ i \notin withdrawn
          /\ tries[i] < MaxTries
          /\ copies'[i] = copies[i] \/ LossyReplies
    /\ tries'[i] = tries[i]
    /\ SameSide(i)

Stay(i) == phase'[i] = phase[i] /\ Untried(i) /\ SameSide(i)

(* One step of the daemon may move many emails: a crash parks the queue.   *)
Move(i) == Stay(i) \/ Submit(i) \/ Park(i) \/ Unpark(i) \/ GiveUp(i)
           \/ Withdraw(i) \/ Try(i) \/ Land(i)
DNext == \A i \in Items : Move(i)

DSpec == DInit /\ [][DNext]_dvars
=============================================================================
