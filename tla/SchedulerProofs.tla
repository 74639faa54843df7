--------------------------- MODULE SchedulerProofs ---------------------------
(***************************************************************************)
(* Theorems about the scheduled-send queue of scheduler.ts, for any number *)
(* of emails, accounts, mailboxes and retries and with every fault of the  *)
(* model switched on or off.                                               *)
(***************************************************************************)
EXTENDS Scheduler, TLAPS

-----------------------------------------------------------------------------
(* Rows and the helpers that rewrite them.                                 *)

LEMMA RowFacts ==
  /\ Absent \in Row
  /\ Absent.status = "absent"
  /\ Absent.ident = NoMailbox
  /\ \A r \in Row : /\ r.status \in Statuses
                    /\ r.retries \in 0..MaxRetries
                    /\ r.owner \in Accounts \cup {NoAccount}
                    /\ r.ident \in Identities \cup {NoMailbox}
BY RetryAssumption DEF Row, Absent, Statuses

LEMMA StatusFacts ==
  /\ \A s \in {"absent", "pending", "sending", "sent", "failed", "cancelled",
               "outcome_unknown"} : s \in Statuses
  /\ Final = {"sent", "failed", "cancelled", "outcome_unknown"}
  /\ Live = {"pending", "sending"}
BY DEF Statuses, Final, Live

(* Changing the status of a row changes nothing else of it.                *)
LEMMA RestatusFacts ==
  ASSUME NEW r \in Row, NEW s \in Statuses
  PROVE  LET q == [r EXCEPT !.status = s]
         IN  /\ q \in Row /\ q.status = s
             /\ q.retries = r.retries /\ q.owner = r.owner /\ q.ident = r.ident
BY DEF Row

LEMMA PutFacts ==
  ASSUME NEW rows \in [Items -> Row], NEW i \in Items, NEW s \in Statuses
  PROVE  /\ Put(rows, i, s) \in [Items -> Row]
         /\ Put(rows, i, s)[i] = [rows[i] EXCEPT !.status = s]
         /\ \A j \in Items : j # i => Put(rows, i, s)[j] = rows[j]
<1>1. [rows[i] EXCEPT !.status = s] \in Row
  BY RestatusFacts
<1>2. QED
  BY <1>1 DEF Put

(* Pruning only ever drops rows whose status is final.                     *)
LEMMA PruningFacts ==
  ASSUME NEW rows \in [Items -> Row], NEW kept \in Prunings(rows)
  PROVE  /\ kept \in [Items -> Row]
         /\ \A i \in Items : \/ kept[i] = rows[i]
                             \/ rows[i].status \in Final /\ kept[i] = Absent
BY RowFacts DEF Prunings, History

(* A best-effort save leaves the pruned rows in memory, and in the store   *)
(* either those or what was there.                                         *)
LEMMA PersistFacts ==
  ASSUME NEW rows \in [Items -> Row], disk \in [Items -> Row], Persist(rows)
  PROVE  /\ mem' \in [Items -> Row] /\ disk' \in [Items -> Row]
         /\ \A i \in Items : \/ mem'[i] = rows[i]
                             \/ rows[i].status \in Final /\ mem'[i] = Absent
         /\ disk' = mem' \/ disk' = disk
BY PruningFacts DEF Persist, MaySave

LEMMA AfterFailureFacts ==
  ASSUME NEW r \in Row, r.retries < MaxRetries
  PROVE  /\ AfterFailure(r) \in Row
         /\ AfterFailure(r).status \in {"failed", "pending"}
         /\ AfterFailure(r).retries = r.retries + 1
         /\ AfterFailure(r).status = "pending" => r.retries + 1 < MaxRetries
         /\ AfterFailure(r).owner = r.owner /\ AfterFailure(r).ident = r.ident
<1>1. r.retries + 1 \in 0..MaxRetries
  BY RowFacts, RetryAssumption
<1> DEFINE s == IF r.retries + 1 >= MaxRetries THEN "failed" ELSE "pending"
<1>2. AfterFailure(r) = [r EXCEPT !.retries = r.retries + 1, !.status = s]
  BY DEF AfterFailure
<1>3. s \in Statuses /\ s \in {"failed", "pending"}
  BY StatusFacts
<1>4. s = "pending" => r.retries + 1 < MaxRetries
  BY <1>1, RetryAssumption
<1> HIDE DEF s
<1>5. QED
  BY <1>1, <1>2, <1>3, <1>4 DEF Row

LEMMA AfterUnknownFacts ==
  ASSUME NEW r \in Row, r.retries < MaxRetries
  PROVE  /\ AfterUnknown(r) \in Row
         /\ AfterUnknown(r).status = "outcome_unknown"
         /\ AfterUnknown(r).owner = r.owner /\ AfterUnknown(r).ident = r.ident
<1>1. r.retries + 1 \in 0..MaxRetries
  BY RowFacts, RetryAssumption
<1>2. "outcome_unknown" \in Statuses
  BY StatusFacts
<1>3. QED
  BY <1>1, <1>2 DEF AfterUnknown, Row

LEMMA RecoveredFacts ==
  ASSUME NEW r \in Row
  PROVE  /\ Recovered(r) \in Row
         /\ Recovered(r).status # "sending"
         /\ Recovered(r).status # r.status => Recovered(r).status = "outcome_unknown" /\ r.status = "sending"
         /\ Recovered(r).retries = r.retries
         /\ Recovered(r).owner = r.owner /\ Recovered(r).ident = r.ident
BY RestatusFacts, StatusFacts DEF Recovered

LEMMA QuarantineFacts ==
  ASSUME NEW rows \in [Items -> Row], NEW a \in Accounts
  PROVE  /\ Quarantined(rows, a) \in [Items -> Row]
         /\ RowsOf(rows, a) \subseteq Items
         /\ \A i \in Items :
              \/ i \notin RowsOf(rows, a) /\ Quarantined(rows, a)[i] = rows[i]
              \/ /\ rows[i].status = "sending"
                 /\ Quarantined(rows, a)[i] = [rows[i] EXCEPT !.status = "cancelled"]
              \/ /\ rows[i].status # "sending"
                 /\ Quarantined(rows, a)[i] = Absent
BY RowFacts, RestatusFacts, StatusFacts DEF Quarantined, RowsOf

LEMMA MigratedFacts ==
  ASSUME NEW r \in Row, NEW a \in Accounts,
         identity \in [Accounts -> Identities \cup {NoMailbox}]
  PROVE  /\ Migrated(r, a) \in Row
         /\ Migrated(r, a).status = r.status
         /\ Migrated(r, a).retries = r.retries
         /\ Owned(r) /\ r.ident # NoMailbox => Migrated(r, a) = r
BY DEF Migrated, Owned, Row

-----------------------------------------------------------------------------
(* The induction.  The bound on the number of tries is part of TypeOK and  *)
(* follows from the queue invariant, so both are carried together.         *)

Inductive == TypeOK /\ QueueInvariant

LEMMA InitInductive == Init => Inductive
<1> SUFFICES ASSUME Init PROVE Inductive
  OBVIOUS
<1>1. \A a : LegacyRow(a).status = "pending" /\ LegacyRow(a).retries = 0
  BY DEF LegacyRow, Absent
<1>2. \A a \in Accounts \cup {NoAccount} : LegacyRow(a) \in Row
  BY RowFacts, StatusFacts DEF LegacyRow, Row
<1>3. \A i \in Items : disk[i] \in Row /\ mem[i] = Absent
                       /\ IF i \in Legacy THEN disk[i].status = "pending" /\ disk[i].retries = 0
                          ELSE disk[i] = Absent
  BY <1>1, <1>2, RowFacts DEF Init, Empty
<1>4. TypeOK
  <2>1. disk \in [Items -> Row] /\ mem \in [Items -> Row]
    <3>1. disk = [i \in Items |-> disk[i]]
      <4>1. PICK owners \in [Legacy -> Accounts \cup {NoAccount}] :
              disk = [i \in Items |-> IF i \in Legacy THEN LegacyRow(owners[i]) ELSE Absent]
        BY DEF Init
      <4>2. QED
        BY <4>1
    <3>2. mem = [i \in Items |-> Absent]
      BY DEF Init, Empty
    <3>3. \A i \in Items : disk[i] \in Row
      BY <1>3
    <3>4. disk \in [Items -> Row]
      BY <3>1, <3>3
    <3>5. mem \in [Items -> Row]
      BY <3>2, RowFacts
    <3>6. QED
      BY <3>4, <3>5
  <2>2. identity \in [Accounts -> Identities \cup {NoMailbox}]
    BY DEF Init
  <2>3. /\ attempts \in [Items -> 0..MaxRetries] /\ wire \in [Items -> 0..MaxRetries]
        /\ meant \in [Items -> Identities \cup {NoMailbox}]
    BY RetryAssumption DEF Init
  <2>4. QED
    BY <2>1, <2>2, <2>3, LegacyAssumption DEF Init, TypeOK
<1>5. \A i \in Items : EmailSound(i)
  <2> SUFFICES ASSUME NEW i \in Items PROVE EmailSound(i)
    OBVIOUS
  <2>1. /\ pc = "down" /\ issued = Legacy /\ revoked = {}
        /\ attempts[i] = 0 /\ wire[i] = 0 /\ meant[i] = NoMailbox
    BY DEF Init
  <2>2. mem[i].status = "absent" /\ disk[i].status \in {"pending", "absent"}
        /\ (disk[i].status = "pending" => disk[i].retries = 0)
        /\ (i \notin Legacy => disk[i].status = "absent")
    BY <1>3, RowFacts
  <2>3. QED
    BY <2>1, <2>2, RetryAssumption
    DEF EmailSound, Fenced, TriesCounted, RevokedAtRest, UnissuedUntouched,
        CopiesCounted, DeliveredAtRest, RowsKeepTheirMailbox, Pending, InFlight
<1>6. QED
  BY <1>4, <1>5 DEF Inductive, QueueInvariant, Init

-----------------------------------------------------------------------------
(* Most steps try no email: they drop records, copy them between memory    *)
(* and store, give them a final status, or end an await.                   *)

(* A record that was there before, up to an owner it lacked, or one put to *)
(* rest.                                                                   *)
Descends(row, old, i) ==
    /\ \/ row.status = old.status /\ row.retries = old.retries
       \/ row.status \in Final /\ old.status # "absent"
    /\ meant[i] # NoMailbox => row.owner = old.owner /\ row.ident = old.ident

LEMMA NoNewTry ==
  ASSUME NEW i \in Items, EmailSound(i),
         attempts[i] \in Nat, wire[i] \in Nat,
         \A row \in {mem'[i], disk'[i]} :
            row.status = "absent" \/ \E old \in {mem[i], disk[i]} : Descends(row, old, i),
         mem'[i].status = "sending" => mem'[i] = mem[i] /\ InFlight(i)',
         InFlight(i)' => InFlight(i),
         wire'[i] = wire[i] \/ (InFlight(i) /\ ~InFlight(i)' /\ wire'[i] = wire[i] + 1),
         i \in revoked' => i \in revoked \/ (~Pending(i)' /\ mem'[i].status # "sending" /\ i \in issued),
         attempts'[i] = attempts[i], meant'[i] = meant[i], i \in issued' <=> i \in issued
  PROVE  EmailSound(i)'
<1>1. Final = {"sent", "failed", "cancelled", "outcome_unknown"}
  BY StatusFacts
<1>2. \A row \in {mem'[i], disk'[i]} : row.status = "pending" =>
         \E old \in {mem[i], disk[i]} : old.status = "pending" /\ row.retries = old.retries
  BY <1>1 DEF Descends
<1>3. Pending(i)' => Pending(i)
  BY <1>2 DEF Pending
<1>4. Fenced(i)'
  BY <1>3 DEF EmailSound, Fenced
<1>5. TriesCounted(i)'
  BY <1>2 DEF EmailSound, TriesCounted
<1>6. RevokedAtRest(i)'
  BY <1>3 DEF EmailSound, RevokedAtRest
<1>7. UnissuedUntouched(i)'
  <2>1. i \notin issued => mem'[i].status = "absent" /\ disk'[i].status = "absent"
    BY <1>1 DEF Descends, EmailSound, UnissuedUntouched
  <2>2. i \notin issued => ~InFlight(i)
    BY DEF EmailSound, Fenced
  <2>3. QED
    BY <2>1, <2>2 DEF EmailSound, UnissuedUntouched
<1>8. CopiesCounted(i)'
  BY DEF EmailSound, CopiesCounted
<1>9. DeliveredAtRest(i)'
  BY <1>3 DEF EmailSound, DeliveredAtRest, Fenced
<1>10. RowsKeepTheirMailbox(i)'
  <2>1. ASSUME NEW row \in {mem'[i], disk'[i]}, row.status # "absent", meant[i] # NoMailbox
        PROVE  row.owner \in Accounts /\ row.ident = meant[i]
    <3>1. PICK old \in {mem[i], disk[i]} : Descends(row, old, i)
      BY <2>1
    <3>2. old.status # "absent" /\ row.owner = old.owner /\ row.ident = old.ident
      BY <3>1, <2>1 DEF Descends
    <3>3. QED
      BY <3>2, <2>1 DEF EmailSound, RowsKeepTheirMailbox, Owned
  <2>2. QED
    BY <2>1 DEF RowsKeepTheirMailbox, Owned
<1>11. QED
  BY <1>4, <1>5, <1>6, <1>7, <1>8, <1>9, <1>10 DEF EmailSound

(* The special case of an email the step does not look at: its record may  *)
(* be pruned, or a save of the whole queue may carry it to the store.      *)
LEMMA Bystander ==
  ASSUME Inductive, NEW i \in Items,
         mem'[i] = mem[i] \/ mem'[i] = Absent,
         disk'[i] = disk[i] \/ disk'[i] = mem'[i],
         InFlight(i)' <=> InFlight(i),
         wire'[i] = wire[i], i \in revoked' <=> i \in revoked,
         attempts'[i] = attempts[i], meant'[i] = meant[i], i \in issued' <=> i \in issued
  PROVE  EmailSound(i)'
<1>1. EmailSound(i) /\ attempts[i] \in Nat /\ wire[i] \in Nat
  BY RetryAssumption DEF Inductive, QueueInvariant, TypeOK
<1>2. \A row \in {mem[i], disk[i]} : Descends(row, row, i)
  BY DEF Descends
<1>3. \A row \in {mem'[i], disk'[i]} :
         row.status = "absent" \/ \E old \in {mem[i], disk[i]} : Descends(row, old, i)
  BY <1>2, RowFacts
<1>4. mem'[i].status = "sending" => mem'[i] = mem[i] /\ InFlight(i)'
  BY <1>1, RowFacts DEF EmailSound, Fenced
<1>5. QED
  BY <1>1, <1>3, <1>4, NoNewTry

(* A step that rewrites no record, moves no history and neither begins nor *)
(* ends an await disturbs nothing but types.                               *)
LEMMA QuietStep ==
  ASSUME Inductive, TypeOK', UNCHANGED <<mem, disk>>, UNCHANGED history,
         pc' = "wait" <=> pc = "wait", cur' = cur
  PROVE  Inductive'
<1>1. \A i \in Items : EmailSound(i)'
  BY Bystander DEF InFlight, history
<1>2. QED
  BY <1>1 DEF Inductive, QueueInvariant

(* A save of the whole queue after one record was rewritten.               *)
LEMMA SaveOne ==
  ASSUME TypeOK, NEW i \in Items, NEW row \in Row, NEW rows,
         rows = [mem EXCEPT ![i] = row], Persist(rows) \/ (mem' = rows /\ Saves(rows))
  PROVE  /\ mem' \in [Items -> Row] /\ disk' \in [Items -> Row]
         /\ mem'[i] = row \/ (row.status \in Final /\ mem'[i] = Absent)
         /\ \A j \in Items : j # i => mem'[j] = mem[j] \/ mem'[j] = Absent
         /\ \A j \in Items : disk'[j] = mem'[j] \/ disk'[j] = disk[j]
<1>1. rows \in [Items -> Row] /\ rows[i] = row /\ \A j \in Items : j # i => rows[j] = mem[j]
  BY DEF TypeOK
<1>2. CASE Persist(rows)
  BY <1>1, <1>2, PersistFacts DEF TypeOK
<1>3. CASE mem' = rows /\ Saves(rows)
  BY <1>1, <1>3 DEF Saves
<1>4. QED
  BY <1>2, <1>3

LEMMA PutIsRestatus ==
  ASSUME TypeOK, NEW i \in Items, NEW s \in Statuses
  PROVE  /\ [mem[i] EXCEPT !.status = s] \in Row
         /\ Put(mem, i, s) = [mem EXCEPT ![i] = [mem[i] EXCEPT !.status = s]]
BY RestatusFacts DEF Put, TypeOK

(* What the invariant and the types say of one email.                      *)
LEMMA EmailFacts ==
  ASSUME Inductive, NEW i \in Items
  PROVE  /\ EmailSound(i)
         /\ mem[i] \in Row /\ disk[i] \in Row
         /\ mem[i].retries \in 0..MaxRetries
         /\ attempts[i] \in 0..MaxRetries /\ wire[i] \in 0..MaxRetries
         /\ attempts[i] \in Nat /\ wire[i] \in Nat
BY RowFacts, RetryAssumption DEF Inductive, QueueInvariant, TypeOK

(* An email put to rest, in memory and perhaps in the store, while it is   *)
(* awaited or not, withdrawn or not.                                       *)
LEMMA PutToRest ==
  ASSUME Inductive, NEW i \in Items,
         mem'[i] = Absent \/ (/\ mem'[i].status \in Final
                              /\ mem[i].status # "absent"
                              /\ mem'[i].owner = mem[i].owner
                              /\ mem'[i].ident = mem[i].ident),
         disk'[i] = mem'[i] \/ (disk'[i] = disk[i] /\ (i \in revoked' => i \in revoked \/ disk[i].status # "pending")),
         InFlight(i)' => InFlight(i),
         wire'[i] = wire[i] \/ (InFlight(i) /\ ~InFlight(i)' /\ wire'[i] = wire[i] + 1),
         i \in revoked' => i \in revoked \/ mem[i].status # "absent",
         attempts'[i] = attempts[i], meant'[i] = meant[i], i \in issued' <=> i \in issued
  PROVE  EmailSound(i)'
<1>1. Final = {"sent", "failed", "cancelled", "outcome_unknown"}
  BY StatusFacts
<1>2. mem'[i].status \notin {"pending", "sending"}
  BY <1>1, RowFacts
<1>3. \A row \in {mem'[i], disk'[i]} :
         row.status = "absent" \/ \E old \in {mem[i], disk[i]} : Descends(row, old, i)
  <2>1. mem'[i].status = "absent" \/ Descends(mem'[i], mem[i], i)
    BY RowFacts DEF Descends
  <2>2. disk'[i] = disk[i] => Descends(disk'[i], disk[i], i)
    BY DEF Descends
  <2>3. QED
    BY <2>1, <2>2
<1>4. i \in revoked' => i \in revoked \/ (~Pending(i)' /\ i \in issued)
  <2>1. i \notin issued => mem[i].status = "absent"
    BY EmailFacts DEF EmailSound, UnissuedUntouched
  <2>2. i \in revoked' => i \in revoked \/ ~Pending(i)'
    BY <1>2 DEF Pending
  <2>3. QED
    BY <2>1, <2>2
<1>5. QED
  <2>1. i \in revoked' => i \in revoked \/ (~Pending(i)' /\ mem'[i].status # "sending" /\ i \in issued)
    BY <1>2, <1>4
  <2>2. mem'[i].status = "sending" => mem'[i] = mem[i] /\ InFlight(i)'
    BY <1>2
  <2>3. EmailSound(i) /\ attempts[i] \in Nat /\ wire[i] \in Nat
    BY EmailFacts
  <2>4. QED
    BY <1>3, <2>1, <2>2, <2>3, NoNewTry

-----------------------------------------------------------------------------
(* One lemma per step that rewrites a record or ends an await.             *)

LEMMA ScheduleInductive ==
  ASSUME Inductive, NEW i \in Items, NEW a \in Accounts, Schedule(i, a)
  PROVE  Inductive'
<1> DEFINE row == [status |-> "pending", retries |-> 0, owner |-> a, ident |-> identity[a]]
<1>1. /\ row \in Row /\ row.status = "pending" /\ row.retries = 0
      /\ row.owner = a /\ row.ident = identity[a]
  BY RetryAssumption, StatusFacts DEF Schedule, Inductive, TypeOK, Row
<1> HIDE DEF row
<1>2. mem' = [mem EXCEPT ![i] = row] /\ Saves(mem')
  BY DEF Schedule, row
<1>3. /\ mem' \in [Items -> Row] /\ disk' = mem' /\ mem'[i] = row
      /\ \A j \in Items : j # i => mem'[j] = mem[j]
  BY <1>1, <1>2 DEF Saves, Inductive, TypeOK
<1>4. TypeOK'
  BY <1>3 DEF Schedule, Inductive, TypeOK
<1>5. ASSUME NEW j \in Items, j # i PROVE EmailSound(j)'
  <2>1. /\ InFlight(j)' <=> InFlight(j)
        /\ wire'[j] = wire[j] /\ attempts'[j] = attempts[j] /\ meant'[j] = meant[j]
        /\ revoked' = revoked /\ (j \in issued' <=> j \in issued)
    BY <1>5 DEF Schedule, InFlight, Inductive, TypeOK
  <2>2. QED
    BY <1>3, <1>5, <2>1, Bystander
<1>6. EmailSound(i)'
  <2>1. /\ i \in issued' /\ i \notin issued /\ identity[a] # NoMailbox
        /\ meant'[i] = identity[a]
        /\ UNCHANGED <<pc, cur, revoked, attempts, wire>>
    BY DEF Schedule, Inductive, TypeOK
  <2>2. attempts[i] = 0 /\ wire[i] = 0 /\ i \notin revoked /\ ~InFlight(i)
    BY <2>1, EmailFacts DEF EmailSound, UnissuedUntouched, Fenced
  <2>3. ~InFlight(i)'
    BY <2>1, <2>2 DEF InFlight
  <2>4. QED
    BY <1>1, <1>3, <2>1, <2>2, <2>3, RetryAssumption
    DEF EmailSound, Fenced, TriesCounted, RevokedAtRest, UnissuedUntouched,
        CopiesCounted, DeliveredAtRest, RowsKeepTheirMailbox, Owned
<1>7. QED
  <2>1. pc' = pc /\ cur' = cur
    BY DEF Schedule
  <2>2. QED
    BY <1>4, <1>5, <1>6, <2>1 DEF Inductive, QueueInvariant

LEMMA CancelInductive ==
  ASSUME Inductive, NEW i \in Items, CancelPending(i) \/ CancelSending(i)
  PROVE  Inductive'
<1> DEFINE row == [mem[i] EXCEPT !.status = "cancelled"]
<1>1. row \in Row /\ row.status = "cancelled" /\ row.owner = mem[i].owner /\ row.ident = mem[i].ident
  BY RestatusFacts, StatusFacts, EmailFacts
<1>2. Put(mem, i, "cancelled") = [mem EXCEPT ![i] = row]
  BY PutIsRestatus, StatusFacts DEF Inductive
<1> HIDE DEF row
<1>3. /\ mem[i].status \in {"pending", "sending"}
      /\ revoked' = revoked \cup {i}
      /\ UNCHANGED <<pc, identity, blocked, ready, todo, cur, issued, meant, attempts, wire>>
      /\ mem[i].status = "pending" => disk' = mem'
  BY DEF CancelPending, CancelSending, Saves
<1>4. /\ mem' \in [Items -> Row] /\ disk' \in [Items -> Row]
      /\ mem'[i] = row \/ mem'[i] = Absent
      /\ \A j \in Items : j # i => mem'[j] = mem[j] \/ mem'[j] = Absent
      /\ \A j \in Items : disk'[j] = mem'[j] \/ disk'[j] = disk[j]
  <2>1. LET rows == Put(mem, i, "cancelled")
        IN  Persist(rows) \/ (mem' = rows /\ Saves(rows))
    BY DEF CancelPending, CancelSending
  <2>2. QED
    BY <1>1, <1>2, <2>1, SaveOne DEF Inductive
<1>5. TypeOK'
  BY <1>3, <1>4 DEF Inductive, TypeOK
<1>6. ASSUME NEW j \in Items, j # i PROVE EmailSound(j)'
  <2>1. InFlight(j)' <=> InFlight(j)
    BY <1>3 DEF InFlight
  <2>2. QED
    BY <1>3, <1>4, <1>6, <2>1, Bystander
<1>7. EmailSound(i)'
  <2>1. InFlight(i)' <=> InFlight(i)
    BY <1>3 DEF InFlight
  <2>2. mem[i].status = "sending" => disk[i].status # "pending"
    BY EmailFacts DEF EmailSound, Fenced, Pending
  <2>3. mem'[i] = Absent \/ (/\ mem'[i].status \in Final
                             /\ mem'[i].owner = mem[i].owner
                             /\ mem'[i].ident = mem[i].ident)
    BY <1>1, <1>4, StatusFacts
  <2>4. disk'[i] = mem'[i] \/ (disk'[i] = disk[i] /\ disk[i].status # "pending")
    BY <1>3, <1>4, <2>2
  <2>5. QED
    BY <1>3, <2>1, <2>3, <2>4, PutToRest
<1>8. QED
  BY <1>3, <1>5, <1>6, <1>7 DEF Inductive, QueueInvariant

LEMMA QuarantineInductive ==
  ASSUME Inductive, NEW a \in Accounts, Quarantine(a),
         identity' \in [Accounts -> Identities \cup {NoMailbox}],
         blocked' \subseteq blocked,
         UNCHANGED <<pc, ready, todo, cur, issued, meant, attempts, wire>>
  PROVE  Inductive'
<1>1. /\ mem' \in [Items -> Row]
      /\ \A i \in Items \ RowsOf(mem, a) : mem'[i] = mem[i]
      /\ \A i \in RowsOf(mem, a) :
            mem'[i] = Absent \/ (/\ mem'[i].status = "cancelled"
                                 /\ mem'[i].owner = mem[i].owner
                                 /\ mem'[i].ident = mem[i].ident)
      /\ RowsOf(mem, a) \subseteq Items
  <2>1. mem \in [Items -> Row] /\ mem' = Quarantined(mem, a)
    BY DEF Quarantine, Inductive, TypeOK
  <2>2. ASSUME NEW i \in Items
        PROVE  [mem[i] EXCEPT !.status = "cancelled"].status = "cancelled"
               /\ [mem[i] EXCEPT !.status = "cancelled"].owner = mem[i].owner
               /\ [mem[i] EXCEPT !.status = "cancelled"].ident = mem[i].ident
    BY <2>1, RestatusFacts, StatusFacts
  <2>3. \A i \in Items \ RowsOf(mem, a) : mem'[i] = mem[i]
    BY <2>1 DEF Quarantined
  <2>4. QED
    BY ZenonT(40), <2>1, <2>2, <2>3, QuarantineFacts
<1>2. \/ disk' = mem' /\ revoked' = revoked \cup RowsOf(mem, a)
      \/ disk' = disk /\ revoked' = revoked
  BY DEF Quarantine, Saves
<1>3. \A i \in RowsOf(mem, a) : mem[i].status # "absent"
  BY DEF RowsOf
<1>4. TypeOK'
  BY <1>1, <1>2 DEF Inductive, TypeOK
<1>5. ASSUME NEW i \in Items PROVE EmailSound(i)'
  <2>1. InFlight(i)' <=> InFlight(i)
    BY DEF InFlight
  <2>2. CASE i \notin RowsOf(mem, a)
    BY <1>1, <1>2, <2>1, <2>2, Bystander
  <2>3. CASE i \in RowsOf(mem, a)
    <3>1. mem'[i] = Absent \/ (/\ mem'[i].status \in Final
                               /\ mem'[i].owner = mem[i].owner
                               /\ mem'[i].ident = mem[i].ident)
      BY <1>1, <2>3, StatusFacts
    <3>2. mem[i].status # "absent"
      BY <1>3, <2>3
    <3>3. disk'[i] = mem'[i] \/ (disk'[i] = disk[i] /\ revoked' = revoked)
      BY <1>2
    <3>4. QED
      BY <2>1, <3>1, <3>2, <3>3, PutToRest
  <2>4. QED
    BY <2>2, <2>3
<1>6. QED
  BY <1>4, <1>5 DEF Inductive, QueueInvariant

LEMMA DispatchInductive ==
  ASSUME Inductive, NEW i \in Items, Dispatch(i)
  PROVE  Inductive'
<1> DEFINE row == [mem[i] EXCEPT !.status = "sending"]
<1>1. /\ row \in Row /\ row.status = "sending" /\ row.retries = mem[i].retries
      /\ row.owner = mem[i].owner /\ row.ident = mem[i].ident
  BY RestatusFacts, StatusFacts, EmailFacts
<1>2. Put(mem, i, "sending") = [mem EXCEPT ![i] = row]
  BY PutIsRestatus, StatusFacts DEF Inductive
<1> HIDE DEF row
<1>3. /\ pc = "loop" /\ mem[i].status = "pending"
      /\ mem' = [mem EXCEPT ![i] = row] /\ disk' = mem'
      /\ pc' = "wait" /\ cur' = i /\ Owned(mem[i])
      /\ todo' = todo \ {i}
      /\ attempts' = [attempts EXCEPT ![i] = @ + 1]
      /\ UNCHANGED <<identity, blocked, ready, issued, meant, revoked, wire>>
  BY <1>2 DEF Dispatch, StillDue, Current, Saves
<1>4. /\ mem' \in [Items -> Row] /\ mem'[i] = row
      /\ \A j \in Items : j # i => mem'[j] = mem[j]
  BY <1>1, <1>3 DEF Inductive, TypeOK
<1>5. /\ attempts[i] < MaxRetries /\ mem[i].retries = attempts[i]
      /\ attempts'[i] = attempts[i] + 1 /\ attempts[i] \in Nat
  BY <1>3, EmailFacts DEF EmailSound, TriesCounted, Inductive, TypeOK
<1>6. TypeOK'
  BY <1>3, <1>4, <1>5, RetryAssumption DEF Inductive, TypeOK
<1>7. ASSUME NEW j \in Items, j # i PROVE EmailSound(j)'
  <2>1. (InFlight(j)' <=> InFlight(j)) /\ attempts'[j] = attempts[j]
    BY <1>3, <1>7 DEF InFlight, Inductive, TypeOK
  <2>2. QED
    BY <1>3, <1>4, <1>7, <2>1, Bystander
<1>8. EmailSound(i)'
  <2>1. InFlight(i)' /\ ~InFlight(i) /\ ~Pending(i)'
    BY <1>1, <1>3, <1>4 DEF InFlight, Pending
  <2>2. i \in issued /\ i \notin revoked /\ wire[i] <= attempts[i]
        /\ (~LossyReplies => wire[i] = 0)
    BY <1>3, <2>1, EmailFacts
    DEF EmailSound, UnissuedUntouched, RevokedAtRest, CopiesCounted, DeliveredAtRest, Pending
  <2>3. meant[i] # NoMailbox => Owned(row) /\ row.ident = meant[i]
    BY <1>1, <1>3, EmailFacts DEF EmailSound, RowsKeepTheirMailbox, Owned
  <2>4. Fenced(i)' /\ RevokedAtRest(i)' /\ UnissuedUntouched(i)'
    BY <1>1, <1>3, <1>4, <2>1, <2>2 DEF Fenced, RevokedAtRest, UnissuedUntouched, Owned
  <2>5. TriesCounted(i)'
    BY <1>1, <1>3, <1>4, <1>5 DEF TriesCounted
  <2>6. CopiesCounted(i)' /\ DeliveredAtRest(i)'
    BY <1>3, <1>5, <2>1, <2>2, EmailFacts DEF CopiesCounted, DeliveredAtRest
  <2>7. RowsKeepTheirMailbox(i)'
    BY <1>3, <1>4, <2>3 DEF RowsKeepTheirMailbox, Owned
  <2>8. QED
    BY <2>4, <2>5, <2>6, <2>7 DEF EmailSound
<1>9. QED
  BY <1>3, <1>6, <1>7, <1>8 DEF Inductive, QueueInvariant

(* What every outcome of a send shares: the await ends, and what happened  *)
(* to the message is decided.                                              *)
LEMMA AwaitEnds ==
  ASSUME Inductive, pc = "wait", NEW c, c = cur, Back, PerhapsDelivered(c)
  PROVE  /\ c \in Items /\ InFlight(c) /\ ~InFlight(c)'
         /\ \A j \in Items : j # c => ~InFlight(j) /\ ~InFlight(j)'
         /\ wire' \in [Items -> 0..MaxRetries]
         /\ wire'[c] = wire[c] \/ wire'[c] = wire[c] + 1
         /\ \A j \in Items : j # c => wire'[j] = wire[j]
<1>1. c \in Items /\ InFlight(c)
  BY DEF Inductive, QueueInvariant, InFlight
<1>2. wire[c] < attempts[c] /\ attempts[c] \in 0..MaxRetries /\ wire[c] \in 0..MaxRetries
  BY <1>1, EmailFacts DEF EmailSound, CopiesCounted
<1>3. wire \in [Items -> 0..MaxRetries] /\ wire[c] + 1 \in 0..MaxRetries
  BY <1>2, RetryAssumption DEF Inductive, TypeOK
<1>4. wire' = wire \/ wire' = [wire EXCEPT ![c] = @ + 1]
  BY DEF PerhapsDelivered
<1>5. \A j \in Items : ~InFlight(j)' /\ (j # c => ~InFlight(j))
  BY DEF Back, InFlight
<1>6. QED
  BY <1>1, <1>3, <1>4, <1>5

LEMMA ResumeCancelledInductive ==
  ASSUME Inductive, NEW c, c = cur, ResumeCancelled
  PROVE  Inductive'
<1>1. /\ pc = "wait" /\ Back /\ PerhapsDelivered(c) /\ mem[c].status # "sending"
      /\ UNCHANGED <<mem, disk, blocked, ready, revoked>>
      /\ pc' = "loop" /\ cur' = NoItem /\ UNCHANGED <<identity, todo, issued, meant, attempts>>
  BY DEF ResumeCancelled, Back
<1>2. TypeOK'
  BY <1>1, AwaitEnds DEF Inductive, TypeOK
<1>3. ASSUME NEW j \in Items, j # c PROVE EmailSound(j)'
  BY <1>1, <1>3, AwaitEnds, Bystander
<1>4. EmailSound(c)'
  <2>1. \A row \in {mem'[c], disk'[c]} : \E old \in {mem[c], disk[c]} : Descends(row, old, c)
    BY <1>1 DEF Descends
  <2>2. c \in Items /\ EmailSound(c) /\ attempts[c] \in Nat /\ wire[c] \in Nat
    BY <1>1, AwaitEnds, EmailFacts
  <2>3. QED
    BY <1>1, <2>1, <2>2, AwaitEnds, NoNewTry
<1>5. QED
  BY <1>1, <1>2, <1>3, <1>4 DEF Inductive, QueueInvariant

LEMMA ResumeAtRestInductive ==
  ASSUME Inductive, NEW c, c = cur, ResumeSent \/ ResumeUnknown
  PROVE  Inductive'
<1>1. /\ pc = "wait" /\ Back /\ PerhapsDelivered(c) /\ mem[c].status = "sending"
      /\ blocked' \subseteq blocked
      /\ UNCHANGED <<ready, revoked>>
      /\ pc' = "loop" /\ cur' = NoItem /\ UNCHANGED <<identity, todo, issued, meant, attempts>>
  BY DEF ResumeSent, ResumeUnknown, Delivered, PerhapsDelivered, Back
<1>2. c \in Items /\ mem[c].retries < MaxRetries
  <2>1. c \in Items
    BY <1>1, AwaitEnds
  <2>2. QED
    BY <1>1, <2>1, EmailFacts, RetryAssumption DEF EmailSound, TriesCounted
<1>3. PICK row \in Row :
         /\ Persist([mem EXCEPT ![c] = row])
         /\ row.status \in Final /\ row.owner = mem[c].owner /\ row.ident = mem[c].ident
  <2>1. CASE ResumeSent
    <3>1. /\ [mem[c] EXCEPT !.status = "sent"] \in Row
          /\ Put(mem, c, "sent") = [mem EXCEPT ![c] = [mem[c] EXCEPT !.status = "sent"]]
      BY <1>2, PutIsRestatus, StatusFacts DEF Inductive
    <3>2. Persist(Put(mem, c, "sent"))
      BY <2>1 DEF ResumeSent
    <3>3. LET row == [mem[c] EXCEPT !.status = "sent"]
          IN  row.status = "sent" /\ row.owner = mem[c].owner /\ row.ident = mem[c].ident
      BY <1>2, EmailFacts, RestatusFacts, StatusFacts
    <3>4. "sent" \in Final
      BY StatusFacts
    <3>5. QED
      BY <3>1, <3>2, <3>3, <3>4
  <2>2. CASE ResumeUnknown
    <3>1. Persist([mem EXCEPT ![c] = AfterUnknown(mem[c])])
      BY <2>2, <1>2 DEF ResumeUnknown, Inductive, TypeOK
    <3>2. QED
      BY <1>2, <3>1, EmailFacts, AfterUnknownFacts, StatusFacts
  <2>3. QED
    BY <2>1, <2>2
<1>4. /\ mem' \in [Items -> Row] /\ disk' \in [Items -> Row]
      /\ mem'[c] = row \/ mem'[c] = Absent
      /\ \A j \in Items : j # c => mem'[j] = mem[j] \/ mem'[j] = Absent
      /\ \A j \in Items : disk'[j] = mem'[j] \/ disk'[j] = disk[j]
  BY <1>2, <1>3, SaveOne DEF Inductive
<1>5. TypeOK'
  BY <1>1, <1>4, AwaitEnds DEF Inductive, TypeOK
<1>6. ASSUME NEW j \in Items, j # c PROVE EmailSound(j)'
  BY <1>1, <1>4, <1>6, AwaitEnds, Bystander
<1>7. EmailSound(c)'
  BY <1>1, <1>2, <1>3, <1>4, AwaitEnds, PutToRest
<1>8. QED
  BY <1>1, <1>5, <1>6, <1>7 DEF Inductive, QueueInvariant

LEMMA ResumeFailedInductive ==
  ASSUME Inductive, NEW c, c = cur, ResumeFailed
  PROVE  Inductive'
<1>1. /\ pc = "wait" /\ Back /\ PerhapsDelivered(c) /\ mem[c].status = "sending"
      /\ ~LossyReplies => wire' = wire
      /\ blocked' \in {blocked, blocked \cup {mem[c].owner}}
      /\ ready' = ready \ {c}
      /\ UNCHANGED revoked
      /\ pc' = "loop" /\ cur' = NoItem /\ UNCHANGED <<identity, todo, issued, meant, attempts>>
  BY DEF ResumeFailed, NotDelivered, PerhapsDelivered, Back
<1>2. c \in Items
  BY <1>1, AwaitEnds
<1>3. /\ mem[c].retries + 1 = attempts[c] /\ mem[c].retries < MaxRetries
      /\ c \notin revoked /\ c \in issued /\ wire[c] < attempts[c]
      /\ disk[c].status # "pending"
      /\ ~LossyReplies => wire[c] = 0
  BY <1>1, <1>2, AwaitEnds, EmailFacts, RetryAssumption
  DEF EmailSound, TriesCounted, RevokedAtRest, Fenced, CopiesCounted, DeliveredAtRest, Pending
<1> DEFINE row == AfterFailure(mem[c])
<1>4. /\ row \in Row /\ row.status \in {"failed", "pending"}
      /\ row.status = "pending" => row.retries = attempts[c] /\ attempts[c] < MaxRetries
      /\ row.owner = mem[c].owner /\ row.ident = mem[c].ident
  BY <1>2, <1>3, EmailFacts, AfterFailureFacts
<1>5. Persist([mem EXCEPT ![c] = row])
  BY <1>2 DEF ResumeFailed, Inductive, TypeOK
<1> HIDE DEF row
<1>6. /\ mem' \in [Items -> Row] /\ disk' \in [Items -> Row]
      /\ mem'[c] = row \/ mem'[c] = Absent
      /\ \A j \in Items : j # c => mem'[j] = mem[j] \/ mem'[j] = Absent
      /\ \A j \in Items : disk'[j] = mem'[j] \/ disk'[j] = disk[j]
  BY <1>2, <1>4, <1>5, SaveOne DEF Inductive
<1>7. TypeOK'
  <2>1. mem[c].owner \in Accounts
    BY <1>1, <1>2, EmailFacts DEF EmailSound, Fenced, Owned
  <2>2. QED
    BY <1>1, <1>6, <2>1, AwaitEnds DEF Inductive, TypeOK
<1>8. ASSUME NEW j \in Items, j # c PROVE EmailSound(j)'
  BY <1>1, <1>6, <1>8, AwaitEnds, Bystander
<1>9. EmailSound(c)'
  <2>1. ~InFlight(c)' /\ wire'[c] <= attempts'[c]
    BY <1>1, <1>2, <1>3, AwaitEnds, EmailFacts
  <2>2. ~LossyReplies => wire'[c] = 0
    BY <1>1, <1>3
  <2>3. \A copy \in {mem'[c], disk'[c]} : copy = row \/ copy.status = "absent" \/ copy = disk[c]
    BY <1>2, <1>6, RowFacts
  <2>4. mem'[c].status # "sending"
    BY <1>4, <1>6, RowFacts
  <2>5. meant[c] # NoMailbox => \A copy \in {row, disk[c]} :
           copy.status # "absent" => Owned(copy) /\ copy.ident = meant[c]
    BY <1>1, <1>2, <1>4, EmailFacts DEF EmailSound, RowsKeepTheirMailbox, Owned
  <2>6. Fenced(c)' /\ RevokedAtRest(c)' /\ UnissuedUntouched(c)'
    BY <1>1, <1>3, <2>1, <2>4 DEF Fenced, RevokedAtRest, UnissuedUntouched
  <2>7. TriesCounted(c)'
    BY <1>1, <1>3, <1>4, <2>3, <2>4 DEF TriesCounted
  <2>8. CopiesCounted(c)' /\ DeliveredAtRest(c)'
    BY <2>1, <2>2 DEF CopiesCounted, DeliveredAtRest
  <2>9. RowsKeepTheirMailbox(c)'
    BY <1>1, <2>3, <2>5 DEF RowsKeepTheirMailbox, Owned
  <2>10. QED
    BY <2>6, <2>7, <2>8, <2>9 DEF EmailSound
<1>10. QED
  BY <1>1, <1>7, <1>8, <1>9 DEF Inductive, QueueInvariant

LEMMA LoopEndsInductive ==
  ASSUME Inductive, LoopEnds
  PROVE  Inductive'
<1>1. /\ pc = "loop" /\ pc' = "idle" /\ Persist(mem)
      /\ UNCHANGED <<identity, blocked, ready, todo, cur, history>>
  BY DEF LoopEnds
<1>2. /\ mem' \in [Items -> Row] /\ disk' \in [Items -> Row]
      /\ \A j \in Items : mem'[j] = mem[j] \/ mem'[j] = Absent
      /\ disk' = mem' \/ disk' = disk
  BY <1>1, PersistFacts DEF Inductive, TypeOK
<1>3. TypeOK'
  BY <1>1, <1>2 DEF Inductive, TypeOK, history
<1>4. ASSUME NEW j \in Items PROVE EmailSound(j)'
  <2>1. ~InFlight(j) /\ ~InFlight(j)'
    BY <1>1 DEF InFlight
  <2>2. QED
    BY <1>1, <1>2, <2>1, Bystander DEF history
<1>5. QED
  BY <1>1, <1>3, <1>4 DEF Inductive, QueueInvariant

(* The process goes: the queue is forgotten, and stop() may have saved it. *)
LEMMA HaltInductive ==
  ASSUME Inductive, pc # "down", Halt,
         disk' \in [Items -> Row],
         \A j \in Items : disk'[j] \in {disk[j], mem[j], Absent}
  PROVE  Inductive'
<1>1. /\ pc' = "down" /\ mem' = Empty /\ cur' = NoItem
      /\ blocked' = {} /\ todo' = {}
      /\ IF pc = "wait" THEN PerhapsDelivered(cur) ELSE wire' = wire
      /\ UNCHANGED <<identity, ready, issued, meant, revoked, attempts>>
  BY DEF Halt
<1>2. mem' \in [Items -> Row] /\ \A j \in Items : mem'[j].status = "absent"
  BY <1>1, RowFacts DEF Empty
<1>3. \A j \in Items : ~InFlight(j)'
  BY <1>1 DEF InFlight
<1>4. /\ wire' \in [Items -> 0..MaxRetries]
      /\ \A j \in Items : wire'[j] = wire[j] \/ (InFlight(j) /\ wire'[j] = wire[j] + 1)
  <2>1. CASE pc # "wait"
    BY <1>1, <2>1 DEF Inductive, TypeOK
  <2>2. CASE pc = "wait"
    <3>1. wire' = wire \/ wire' = [wire EXCEPT ![cur] = @ + 1]
      BY <1>1, <2>2 DEF PerhapsDelivered
    <3>2. cur \in Items /\ InFlight(cur)
      BY <2>2 DEF Inductive, QueueInvariant, InFlight
    <3>3. wire[cur] < attempts[cur] /\ attempts[cur] \in 0..MaxRetries /\ wire[cur] \in 0..MaxRetries
      BY <3>2, EmailFacts DEF EmailSound, CopiesCounted
    <3>4. wire \in [Items -> 0..MaxRetries] /\ wire[cur] + 1 \in 0..MaxRetries
      BY <3>3, RetryAssumption DEF Inductive, TypeOK
    <3>5. QED
      BY <3>1, <3>2, <3>4
  <2>3. QED
    BY <2>1, <2>2
<1>5. TypeOK'
  BY <1>1, <1>2, <1>4 DEF Inductive, TypeOK
<1>6. ASSUME NEW j \in Items PROVE EmailSound(j)'
  <2>1. \A row \in {mem'[j], disk'[j]} :
           row.status = "absent" \/ \E old \in {mem[j], disk[j]} : Descends(row, old, j)
    BY <1>2, RowFacts DEF Descends
  <2>2. EmailSound(j) /\ attempts[j] \in Nat /\ wire[j] \in Nat
    BY EmailFacts
  <2>3. QED
    BY <1>1, <1>2, <1>3, <1>4, <2>1, <2>2, NoNewTry
<1>7. QED
  BY <1>1, <1>5, <1>6 DEF Inductive, QueueInvariant

LEMMA LoadInductive ==
  ASSUME Inductive, Load
  PROVE  Inductive'
<1> DEFINE rows == [i \in Items |-> Recovered(disk[i])]
<1>1. rows \in [Items -> Row]
  BY RecoveredFacts DEF Inductive, TypeOK
<1>2. \A j \in Items : rows[j] = Recovered(disk[j])
  OBVIOUS
<1>3. /\ pc = "down" /\ pc' = "migrate" /\ mem' \in Prunings(rows)
      /\ disk' = mem' \/ disk' = disk
      /\ UNCHANGED <<identity, blocked, ready, todo, cur, history>>
  BY DEF Load, MaySave
<1> HIDE DEF rows
<1>4. /\ mem' \in [Items -> Row] /\ disk' \in [Items -> Row]
      /\ \A j \in Items : mem'[j] = rows[j] \/ mem'[j] = Absent
  BY <1>1, <1>3, PruningFacts DEF Inductive, TypeOK
<1>5. TypeOK'
  BY <1>3, <1>4 DEF Inductive, TypeOK, history
<1>6. ASSUME NEW j \in Items PROVE EmailSound(j)'
  <2>1. Recovered(disk[j]).status # "sending"
    BY RecoveredFacts, EmailFacts
  <2>2. Descends(Recovered(disk[j]), disk[j], j) /\ Descends(disk[j], disk[j], j)
    <3>1. LET r == Recovered(disk[j])
          IN  /\ r.status # disk[j].status => r.status = "outcome_unknown" /\ disk[j].status = "sending"
              /\ r.retries = disk[j].retries /\ r.owner = disk[j].owner /\ r.ident = disk[j].ident
      BY RecoveredFacts, EmailFacts
    <3>2. QED
      BY <3>1, StatusFacts DEF Descends
  <2>3. mem'[j] = Recovered(disk[j]) \/ mem'[j].status = "absent"
    BY <1>2, <1>4, RowFacts
  <2>4. \A row \in {mem'[j], disk'[j]} :
           row.status = "absent" \/ \E old \in {mem[j], disk[j]} : Descends(row, old, j)
    BY <1>3, <2>2, <2>3
  <2>5. ~InFlight(j) /\ ~InFlight(j)' /\ mem'[j].status # "sending"
    BY <1>3, <2>1, <2>3 DEF InFlight
  <2>6. UNCHANGED history /\ EmailSound(j) /\ attempts[j] \in Nat /\ wire[j] \in Nat
    BY <1>3, EmailFacts
  <2>7. QED
    BY <2>4, <2>5, <2>6, NoNewTry DEF history
<1>7. QED
  BY <1>3, <1>5, <1>6 DEF Inductive, QueueInvariant

LEMMA MigrateInductive ==
  ASSUME Inductive, NEW a \in Accounts, Migrate(a)
  PROVE  Inductive'
<1> DEFINE rows == [i \in Items |-> Migrated(mem[i], a)]
<1>1. rows \in [Items -> Row] /\ \A j \in Items : rows[j] = Migrated(mem[j], a)
  BY MigratedFacts DEF Inductive, TypeOK
<1>2. /\ pc = "migrate" /\ pc' = "purge"
      /\ mem' \in {rows, mem}
      /\ disk' = mem' \/ disk' = disk
      /\ UNCHANGED <<identity, blocked, ready, todo, cur, history>>
  BY DEF Migrate, Saves
<1> HIDE DEF rows
<1>3. mem' \in [Items -> Row] /\ disk' \in [Items -> Row]
  BY <1>1, <1>2 DEF Inductive, TypeOK
<1>4. TypeOK'
  BY <1>2, <1>3 DEF Inductive, TypeOK, history
<1>5. ASSUME NEW j \in Items PROVE EmailSound(j)'
  <2>1. ~InFlight(j) /\ ~InFlight(j)'
    BY <1>2 DEF InFlight
  <2>2. EmailSound(j) /\ mem[j].status # "sending" /\ attempts[j] \in Nat /\ wire[j] \in Nat
    BY <2>1, EmailFacts DEF EmailSound, Fenced
  <2>3. /\ Migrated(mem[j], a).status = mem[j].status
        /\ Migrated(mem[j], a).retries = mem[j].retries
        /\ Owned(mem[j]) /\ mem[j].ident # NoMailbox => Migrated(mem[j], a) = mem[j]
        /\ mem[j].status = "absent" => Migrated(mem[j], a) = mem[j]
    BY MigratedFacts, EmailFacts DEF Inductive, TypeOK, Migrated
  <2>4. meant[j] # NoMailbox => Migrated(mem[j], a) = mem[j]
    BY <2>2, <2>3 DEF EmailSound, RowsKeepTheirMailbox
  <2>5. Descends(Migrated(mem[j], a), mem[j], j) /\ Descends(mem[j], mem[j], j)
        /\ Descends(disk[j], disk[j], j)
    BY <2>3, <2>4 DEF Descends
  <2>6. mem'[j] = Migrated(mem[j], a) \/ mem'[j] = mem[j]
    BY <1>1, <1>2
  <2>7. \A row \in {mem'[j], disk'[j]} :
           row.status = "absent" \/ \E old \in {mem[j], disk[j]} : Descends(row, old, j)
    BY <1>2, <2>5, <2>6
  <2>8. mem'[j].status # "sending"
    BY <2>2, <2>3, <2>6
  <2>9. QED
    BY <1>2, <2>1, <2>2, <2>7, <2>8, NoNewTry DEF history
<1>6. QED
  BY <1>2, <1>4, <1>5 DEF Inductive, QueueInvariant

-----------------------------------------------------------------------------
(* The induction step: every disjunct of Next, the quiet ones first.       *)
LEMMA StepInductive == Inductive /\ [Next]_vars => Inductive'
<1> SUFFICES ASSUME Inductive, [Next]_vars PROVE Inductive'
  OBVIOUS
<1>1. ASSUME NEW a \in Accounts, NEW k \in Identities \cup {NoMailbox}, RepointOffline(a, k) PROVE Inductive'
  <2>1. TypeOK' /\ (pc' = "wait" <=> pc = "wait") /\ cur' = cur /\ UNCHANGED <<mem, disk>> /\ UNCHANGED history
    BY <1>1 DEF RepointOffline, history, Inductive, TypeOK
  <2>2. QED
    BY <2>1, QuietStep
<1>2. ASSUME NEW i \in Items, ComesDue(i) PROVE Inductive'
  <2>1. TypeOK' /\ (pc' = "wait" <=> pc = "wait") /\ cur' = cur /\ UNCHANGED <<mem, disk>> /\ UNCHANGED history
    BY <1>2 DEF ComesDue, history, Inductive, TypeOK
  <2>2. QED
    BY <2>1, QuietStep
<1>3. ASSUME NEW a \in Accounts, BackoffElapses(a) PROVE Inductive'
  <2>1. TypeOK' /\ (pc' = "wait" <=> pc = "wait") /\ cur' = cur /\ UNCHANGED <<mem, disk>> /\ UNCHANGED history
    BY <1>3 DEF BackoffElapses, history, Inductive, TypeOK
  <2>2. QED
    BY <2>1, QuietStep
<1>4. ASSUME Tick PROVE Inductive'
  <2>1. TypeOK' /\ (pc' = "wait" <=> pc = "wait") /\ cur' = cur /\ UNCHANGED <<mem, disk>> /\ UNCHANGED history
    BY <1>4 DEF Tick, Due, history, Inductive, TypeOK
  <2>2. QED
    BY <2>1, QuietStep
<1>5. ASSUME NEW i \in Items, Defer(i) PROVE Inductive'
  <2>1. TypeOK' /\ (pc' = "wait" <=> pc = "wait") /\ cur' = cur /\ UNCHANGED <<mem, disk>> /\ UNCHANGED history
    BY <1>5 DEF Defer, history, Inductive, TypeOK
  <2>2. QED
    BY <2>1, QuietStep
<1>6. ASSUME NEW i \in Items, FenceFails(i) PROVE Inductive'
  <2>1. TypeOK' /\ (pc' = "wait" <=> pc = "wait") /\ cur' = cur /\ UNCHANGED <<mem, disk>> /\ UNCHANGED history
    BY <1>6 DEF FenceFails, history, Inductive, TypeOK
  <2>2. QED
    BY <2>1, QuietStep
<1>7. ASSUME LoadFails PROVE Inductive'
  <2>1. TypeOK' /\ (pc' = "wait" <=> pc = "wait") /\ cur' = cur /\ UNCHANGED <<mem, disk>> /\ UNCHANGED history
    BY <1>7 DEF LoadFails, history, Inductive, TypeOK
  <2>2. QED
    BY <2>1, QuietStep
<1>8. ASSUME PurgeDone PROVE Inductive'
  <2>1. TypeOK' /\ (pc' = "wait" <=> pc = "wait") /\ cur' = cur /\ UNCHANGED <<mem, disk>> /\ UNCHANGED history
    BY <1>8 DEF PurgeDone, history, Inductive, TypeOK
  <2>2. QED
    BY <2>1, QuietStep
<1>9. CASE UNCHANGED vars
  <2>1. TypeOK' /\ (pc' = "wait" <=> pc = "wait") /\ cur' = cur /\ UNCHANGED <<mem, disk>> /\ UNCHANGED history
    BY <1>9 DEF vars, history, Inductive, TypeOK
  <2>2. QED
    BY <2>1, QuietStep
<1>10. ASSUME NEW a \in Accounts, NEW k \in Identities \cup {NoMailbox}, Repoint(a, k) PROVE Inductive'
  <2>1. /\ Quarantine(a) /\ blocked' \subseteq blocked
        /\ identity' \in [Accounts -> Identities \cup {NoMailbox}]
        /\ UNCHANGED <<pc, ready, todo, cur, issued, meant, attempts, wire>>
    BY <1>10 DEF Repoint, Inductive, TypeOK
  <2>2. QED
    BY <2>1, QuarantineInductive
<1>11. ASSUME NEW a \in Accounts, Purge(a) PROVE Inductive'
  <2>1. /\ Quarantine(a) /\ blocked' \subseteq blocked
        /\ identity' \in [Accounts -> Identities \cup {NoMailbox}]
        /\ UNCHANGED <<pc, ready, todo, cur, issued, meant, attempts, wire>>
    BY <1>11 DEF Purge, Inductive, TypeOK
  <2>2. QED
    BY <2>1, QuarantineInductive
<1>12. ASSUME Crash PROVE Inductive'
  BY <1>12, HaltInductive DEF Crash, Inductive, TypeOK
<1>13. ASSUME Stop PROVE Inductive'
  <2>1. PICK rows \in Prunings(mem) : MaySave(rows)
    BY <1>13 DEF Stop
  <2>2. /\ disk' = rows \/ disk' = disk
        /\ rows \in [Items -> Row] /\ \A j \in Items : rows[j] \in {mem[j], Absent}
    BY <2>1, PruningFacts DEF MaySave, Inductive, TypeOK
  <2>3. pc # "down" /\ Halt
    BY <1>13 DEF Stop, Serving
  <2>4. QED
    BY <2>2, <2>3, HaltInductive DEF Inductive, TypeOK
<1>14. QED
  <2>1. ASSUME Calls PROVE Inductive'
    BY <2>1, <1>1, <1>10, ScheduleInductive, CancelInductive DEF Calls
  <2>2. ASSUME Time PROVE Inductive'
    BY <2>2, <1>2, <1>3 DEF Time
  <2>3. ASSUME ProcessDue PROVE Inductive'
    <3>1. \A c : c = cur /\ (ResumeCancelled \/ ResumeSent \/ ResumeUnknown \/ ResumeFailed) => Inductive'
      BY ResumeCancelledInductive, ResumeAtRestInductive, ResumeFailedInductive
    <3>2. QED
      BY <2>3, <3>1, <1>4, <1>5, <1>6, DispatchInductive, LoopEndsInductive DEF ProcessDue
  <2>4. ASSUME Boot PROVE Inductive'
    BY <2>4, <1>7, <1>8, <1>11, LoadInductive, MigrateInductive DEF Boot
  <2>5. QED
    BY <2>1, <2>2, <2>3, <2>4, <1>9, <1>12, <1>13 DEF Next

LEMMA SpecInductive == Spec => []Inductive
BY InitInductive, StepInductive, PTL DEF Spec

-----------------------------------------------------------------------------
(* Type correctness of the queue, its store and its history: in particular *)
(* retryCount and the tries over all restarts stay within MAX_RETRIES.     *)
THEOREM TypeCorrect == Spec => []TypeOK
<1>1. Inductive => TypeOK
  BY DEF Inductive
<1>2. QED
  BY <1>1, SpecInductive, PTL

(* Queue, store, await and history agree about every email, for any number *)
(* of emails and accounts and under every fault of the model.              *)
THEOREM QueueIsSound == Spec => []QueueInvariant
<1>1. Inductive => QueueInvariant
  BY DEF Inductive
<1>2. QED
  BY <1>1, SpecInductive, PTL

(* MAX_RETRIES bounds the sends of one email over all restarts.            *)
THEOREM TriesStayRecorded == Spec => []TriesRecorded
<1>1. Inductive => TriesRecorded
  BY DEF Inductive, QueueInvariant, EmailSound, TriesCounted, TriesRecorded
<1>2. QED
  BY <1>1, SpecInductive, PTL

(* When a failed reply means an undelivered message, no recipient gets a   *)
(* scheduled email twice, whatever crashes, failed writes and aborted      *)
(* transports do.                                                          *)
THEOREM NeverTwice ==
  ASSUME ~LossyReplies
  PROVE  Spec => []AtMostOnce
<1>1. Inductive => AtMostOnce
  BY DEF Inductive, QueueInvariant, EmailSound, DeliveredAtRest, AtMostOnce
<1>2. QED
  BY <1>1, SpecInductive, PTL

(* An email that is out, or may have been delivered, is pending nowhere.   *)
THEOREM FenceIsHeld ==
  ASSUME ~LossyReplies
  PROVE  Spec => []FenceHolds
<1>1. Inductive => FenceHolds
  BY DEF Inductive, QueueInvariant, EmailSound, DeliveredAtRest, Fenced, InFlight,
         Pending, FenceHolds
<1>2. QED
  BY <1>1, SpecInductive, PTL

-----------------------------------------------------------------------------
(* Only the dispatch of an email tries it.                                 *)
LEMMA OnlyDispatchTries ==
  ASSUME TypeOK, [Next]_vars, NEW i \in Items, attempts'[i] # attempts[i]
  PROVE  Dispatch(i)
<1>1. ASSUME attempts' = attempts PROVE FALSE
  BY <1>1
<1>2. ASSUME NEW j \in Items, Dispatch(j) PROVE Dispatch(i)
  <2>1. attempts' = [attempts EXCEPT ![j] = @ + 1]
    BY <1>2 DEF Dispatch
  <2>2. j = i
    BY <2>1 DEF TypeOK
  <2>3. QED
    BY <1>2, <2>2
<1>3. CASE Calls
  BY <1>1, <1>3 DEF Calls, CancelPending, CancelSending, Schedule, Repoint, RepointOffline, history
<1>4. CASE Time
  BY <1>1, <1>4 DEF Time, ComesDue, BackoffElapses, history
<1>5. CASE ProcessDue
  BY <1>1, <1>2, <1>5
  DEF ProcessDue, Tick, LoopEnds, Defer, FenceFails, ResumeCancelled, ResumeSent,
      ResumeFailed, ResumeUnknown, Back, history
<1>6. CASE Boot
  BY <1>1, <1>6 DEF Boot, Load, LoadFails, PurgeDone, Migrate, Purge, history
<1>7. CASE Crash \/ Stop
  BY <1>1, <1>7 DEF Crash, Stop, Halt
<1>8. CASE UNCHANGED vars
  BY <1>1, <1>8 DEF vars
<1>9. QED
  BY <1>3, <1>4, <1>5, <1>6, <1>7, <1>8 DEF Next

(* A cancelled or quarantined email is never handed to SMTP again, and a   *)
(* message only ever to the mailbox it was scheduled for.                  *)
THEOREM EveryEmailIsSentAsMeant == Spec => SentAsMeant
<1>1. Inductive /\ [Next]_vars =>
        [\A i \in Items :
           attempts'[i] # attempts[i] =>
             /\ i \notin revoked
             /\ meant[i] # NoMailbox => identity[mem[i].owner] = meant[i]]_vars
  <2> SUFFICES ASSUME Inductive, [Next]_vars, NEW i \in Items, attempts'[i] # attempts[i]
               PROVE  /\ i \notin revoked
                      /\ meant[i] # NoMailbox => identity[mem[i].owner] = meant[i]
    OBVIOUS
  <2>1. mem[i].status = "pending" /\ mem[i].ident = identity[mem[i].owner]
    BY OnlyDispatchTries DEF Inductive, Dispatch, StillDue, Current
  <2>2. i \notin revoked
    BY <2>1 DEF Inductive, QueueInvariant, EmailSound, RevokedAtRest, Pending
  <2>3. meant[i] # NoMailbox => identity[mem[i].owner] = meant[i]
    BY <2>1 DEF Inductive, QueueInvariant, EmailSound, RowsKeepTheirMailbox
  <2> QED
    BY <2>2, <2>3
<1>2. QED
  BY <1>1, SpecInductive, PTL DEF Spec, SentAsMeant

(* What the store owes the recipient of every email, in one statement.     *)
THEOREM QueueIsHonest ==
  ASSUME ~LossyReplies
  PROVE  Spec => []QueueHolds
<1>1. AtMostOnce /\ FenceHolds /\ TriesRecorded => QueueHolds
  BY DEF QueueHolds
<1>2. QED
  BY <1>1, NeverTwice, FenceIsHeld, TriesStayRecorded, PTL

-----------------------------------------------------------------------------
(* Step simulation: what each step of the daemon is for one email.         *)

(* Memory and store agree on what is over: nothing settled waits in the store,  *)
(* and nothing that waits or is out is missing there.                           *)
Recorded(i) ==
    /\ mem[i].status \in Final => disk[i].status # "pending"
    /\ mem[i].status \in Live => disk[i].status # "absent"

(* What one step can do to one email.  In all of them but the first try and the *)
(* first entry the counts and the origin stay.                                  *)
Uncounted(i) == attempts'[i] = attempts[i] /\ (i \in issued' <=> i \in issued)
Unrevoked(i) == i \in revoked' <=> i \in revoked
StaysUp == pc' = "down" <=> pc = "down"
AtRest(s) == s \in Final \cup {"absent"}

Keeps(i) ==
    /\ \/ mem'[i].status = mem[i].status
       \/ mem[i].status \in Final /\ mem'[i].status = "absent"
    /\ disk'[i].status \in {disk[i].status, mem'[i].status}
    /\ InFlight(i)' <=> InFlight(i)
    /\ wire'[i] = wire[i] /\ Uncounted(i) /\ Unrevoked(i) /\ StaysUp

Enters(i) ==
    /\ i \notin issued /\ i \in issued'
    /\ mem'[i].status = "pending" /\ disk'[i].status = "pending"
    /\ ~InFlight(i) /\ ~InFlight(i)'
    /\ wire'[i] = wire[i] /\ attempts'[i] = attempts[i] /\ Unrevoked(i) /\ StaysUp

(* A cancel settles it, a quarantine drops it or, if it is out, cancels it.     *)
Withdrawn(i) ==
    /\ mem[i].status # "absent"
    /\ disk'[i].status \in {disk[i].status, mem'[i].status}
    /\ InFlight(i)' <=> InFlight(i)
    /\ wire'[i] = wire[i] /\ Uncounted(i) /\ StaysUp
    /\ i \in revoked => i \in revoked'
Cancelled(i) ==
    /\ mem[i].status \in Live
    /\ mem'[i].status \in Final \/ (mem[i].status = "sending" /\ mem'[i].status = "absent")
    /\ mem[i].status = "pending" => disk'[i].status = mem'[i].status
Quarantining == \E a \in Accounts : Purge(a) \/ \E k \in Identities \cup {NoMailbox} : Repoint(a, k)
Dropped(i) ==
    /\ Quarantining
    /\ mem'[i].status = "absent" \/ (mem[i].status = "sending" /\ mem'[i].status \in Final)

Flies(i) ==
    /\ mem[i].status = "pending" /\ i \notin revoked
    /\ mem'[i].status = "sending" /\ disk'[i].status = "sending"
    /\ ~InFlight(i) /\ InFlight(i)'
    /\ attempts[i] < MaxRetries /\ attempts'[i] = attempts[i] + 1
    /\ wire'[i] = wire[i] /\ Unrevoked(i) /\ StaysUp /\ (i \in issued' <=> i \in issued)

Lands(i) ==
    /\ InFlight(i) /\ ~InFlight(i)'
    /\ \/ AtRest(mem'[i].status) /\ (mem[i].status # "sending" => mem'[i] = mem[i])
       \/ /\ mem[i].status = "sending" /\ mem'[i].status = "pending"
          /\ wire'[i] = wire[i] \/ LossyReplies
    /\ disk'[i].status \in {disk[i].status, mem'[i].status}
    /\ wire'[i] \in {wire[i], wire[i] + 1}
    /\ Uncounted(i) /\ Unrevoked(i) /\ StaysUp

Halts(i) ==
    /\ pc # "down" /\ pc' = "down" /\ mem'[i].status = "absent"
    /\ \/ disk'[i].status \in {disk[i].status, mem[i].status}
       \/ mem[i].status \in Final /\ disk'[i].status = "absent"
    /\ ~InFlight(i)'
    /\ wire'[i] = wire[i] \/ (InFlight(i) /\ wire'[i] = wire[i] + 1)
    /\ Uncounted(i) /\ Unrevoked(i)

Loads(i) ==
    /\ pc = "down" /\ pc' # "down" /\ ~InFlight(i) /\ ~InFlight(i)'
    /\ \/ /\ mem'[i].status # "sending"
          /\ mem'[i].status = "pending" <=> disk[i].status = "pending"
          /\ disk'[i].status \in {disk[i].status, mem'[i].status}
       \/ ReadFaults /\ mem'[i] = mem[i] /\ disk'[i] = disk[i]
    /\ wire'[i] = wire[i] /\ Uncounted(i) /\ Unrevoked(i)

EmailSteps(i) ==
    \/ Keeps(i) \/ Enters(i) \/ (Withdrawn(i) /\ (Cancelled(i) \/ Dropped(i)))
    \/ Flies(i) \/ Lands(i) \/ Halts(i) \/ Loads(i)

LEMMA StepRecords ==
  ASSUME Inductive, NEW i \in Items, Recorded(i), EmailSteps(i)
  PROVE  Recorded(i)'
<1> USE StatusFacts DEF Recorded, Live
<1>1. /\ mem[i].status = "sending" => InFlight(i)
      /\ InFlight(i) => disk[i].status # "pending" /\ mem[i].status # "pending"
  BY EmailFacts DEF EmailSound, Fenced, Pending
<1>2. CASE Keeps(i)
  BY <1>2 DEF Keeps
<1>3. CASE Enters(i)
  BY <1>3 DEF Enters
<1>4. CASE Withdrawn(i) /\ Cancelled(i)
  BY <1>1, <1>4 DEF Withdrawn, Cancelled
<1>5. CASE Withdrawn(i) /\ Dropped(i)
  BY <1>1, <1>5 DEF Withdrawn, Dropped
<1>6. CASE Flies(i)
  BY <1>6 DEF Flies
<1>7. CASE Lands(i)
  BY <1>1, <1>7 DEF Lands, AtRest
<1>8. CASE Halts(i)
  BY <1>8 DEF Halts
<1>9. CASE Loads(i)
  BY <1>9 DEF Loads
<1>10. QED
  BY <1>2, <1>3, <1>4, <1>5, <1>6, <1>7, <1>8, <1>9 DEF EmailSteps

(* The step is one of Delivery's, for the email it is about.                    *)
LEMMA StepDelivers ==
  ASSUME Inductive, Inductive', NEW i \in Items, Recorded(i), EmailSteps(i)
  PROVE  Promise!Move(i)
<1> USE StatusFacts
<1>1. /\ EmailSound(i) /\ EmailSound(i)'
      /\ attempts[i] \in Nat /\ wire[i] \in Nat
  BY EmailFacts DEF Inductive, QueueInvariant
<1>2. /\ mem[i].status = "sending" => InFlight(i)
      /\ InFlight(i) => ~Pending(i) /\ i \in issued
      /\ InFlight(i)' => ~Pending(i)' /\ i \in issued'
      /\ i \in revoked' => ~Pending(i)'
      /\ i \notin issued => mem[i].status = "absent" /\ disk[i].status = "absent"
      /\ i \notin issued' => mem'[i].status = "absent" /\ disk'[i].status = "absent"
      /\ mem'[i].status = "pending" => attempts'[i] < MaxRetries
  BY <1>1 DEF EmailSound, Fenced, RevokedAtRest, UnissuedUntouched, TriesCounted
<1>3. /\ Phase(i) = (IF i \notin issued THEN "new" ELSE IF InFlight(i) THEN "flying"
                     ELSE IF mem[i].status = "pending" THEN "queued"
                     ELSE IF disk[i].status = "pending" THEN "parked" ELSE "closed")
      /\ Phase(i)' = (IF i \notin issued' THEN "new" ELSE IF InFlight(i)' THEN "flying"
                     ELSE IF mem'[i].status = "pending" THEN "queued"
                     ELSE IF disk'[i].status = "pending" THEN "parked" ELSE "closed")
  BY DEF Phase, InFlight
<1>4. /\ \A ps : Promise!From(i, ps) <=> Phase(i) \in ps
      /\ \A ps : Promise!To(i, ps) <=> Phase(i)' \in ps
  BY DEF Promise!From, Promise!To
<1>5. Promise!Stay(i) <=> (Phase(i)' = Phase(i) /\ Promise!Untried(i) /\ Promise!SameSide(i))
  BY DEF Promise!Stay
<1> USE DEF Promise!Move, Promise!Untried, Promise!SameSide, Uncounted, Unrevoked, Pending, Live
<1>6. CASE Keeps(i)
  BY <1>2, <1>3, <1>4, <1>5, <1>6 DEF Keeps, Recorded, Promise!Park, Promise!GiveUp
<1>7. CASE Enters(i)
  BY <1>2, <1>3, <1>4, <1>7 DEF Enters, Promise!Submit
<1>8. CASE Withdrawn(i) /\ (Cancelled(i) \/ Dropped(i))
  <2>1. mem[i].status \in Live \cup Final
    BY <1>8, EmailFacts, RowFacts DEF Withdrawn, Statuses
  <2>2. /\ mem'[i].status # "pending" /\ i \in issued /\ i \in issued' /\ (InFlight(i)' <=> InFlight(i))
        /\ ~Pending(i)' => Phase(i)' \in {"closed", "flying"}
    BY <1>2, <1>3, <1>8 DEF Withdrawn, Cancelled, Dropped
  <2>3. CASE i \in revoked'
    <3>1. InFlight(i) \/ Phase(i) \in {"queued", "closed"}
      BY <1>2, <1>3, <2>1 DEF Recorded
    <3>2. QED
      BY <1>2, <1>3, <1>4, <1>8, <2>2, <2>3, <3>1 DEF Withdrawn, Promise!Withdraw
  <2>4. CASE i \notin revoked'
    BY <1>2, <1>3, <1>4, <1>5, <1>8, <2>1, <2>2, <2>4
    DEF Withdrawn, Recorded, Cancelled, Dropped, Promise!Park, Promise!GiveUp
  <2>5. QED
    BY <2>3, <2>4
<1>9. CASE Flies(i)
  BY <1>2, <1>3, <1>4, <1>9 DEF Flies, Promise!Try
<1>10. CASE Lands(i)
  BY <1>2, <1>3, <1>4, <1>10 DEF Lands, AtRest, Promise!Land
<1>11. CASE Halts(i)
  BY <1>2, <1>3, <1>4, <1>5, <1>11 DEF Halts, Promise!Land, Promise!Park, Promise!GiveUp
<1>12. CASE Loads(i)
  BY <1>2, <1>3, <1>4, <1>5, <1>12 DEF Loads, Promise!Unpark, Promise!GiveUp, Promise!Park
<1>13. QED
  BY <1>6, <1>7, <1>8, <1>9, <1>10, <1>11, <1>12 DEF EmailSteps

(* A step that rewrites no record and moves no history.                         *)
LEMMA QuietKeeps ==
  ASSUME UNCHANGED <<mem, disk, cur>>, UNCHANGED history, pc' = "wait" <=> pc = "wait", StaysUp,
         NEW i \in Items
  PROVE  Keeps(i)
BY DEF Keeps, InFlight, history, Uncounted, Unrevoked

(* What a save of the whole queue does to the emails a step is not about.       *)
LEMMA Elsewhere ==
  ASSUME Inductive, NEW i \in Items, NEW j \in Items, j # i,
         mem'[j] = mem[j] \/ (mem[j].status \in Final /\ mem'[j] = Absent),
         disk'[j] = mem'[j] \/ disk'[j] = disk[j],
         InFlight(j)' <=> InFlight(j), StaysUp,
         wire'[j] = wire[j], Unrevoked(j), Uncounted(j)
  PROVE  Keeps(j)
BY RowFacts DEF Keeps

(* As SaveOne, and of the others only settled ones are pruned.                  *)
LEMMA SavesOne ==
  ASSUME TypeOK, NEW i \in Items, NEW row \in Row, NEW rows,
         rows = [mem EXCEPT ![i] = row], Persist(rows) \/ (mem' = rows /\ Saves(rows))
  PROVE  /\ mem'[i] = row \/ (row.status \in Final /\ mem'[i] = Absent)
         /\ \A j \in Items : j # i => mem'[j] = mem[j] \/ (mem[j].status \in Final /\ mem'[j] = Absent)
         /\ \A j \in Items : disk'[j] = mem'[j] \/ disk'[j] = disk[j]
<1>1. rows \in [Items -> Row] /\ rows[i] = row /\ \A j \in Items : j # i => rows[j] = mem[j]
  BY DEF TypeOK
<1>2. CASE Persist(rows)
  BY <1>1, <1>2, PersistFacts DEF TypeOK
<1>3. CASE mem' = rows /\ Saves(rows)
  BY <1>1, <1>3 DEF Saves
<1>4. QED
  BY <1>2, <1>3

LEMMA ScheduleSteps ==
  ASSUME Inductive, NEW i \in Items, NEW a \in Accounts, Schedule(i, a), NEW j \in Items
  PROVE  EmailSteps(j)
<1> DEFINE row == [status |-> "pending", retries |-> 0, owner |-> a, ident |-> identity[a]]
<1>1. row \in Row /\ row.status = "pending"
  BY RetryAssumption, StatusFacts DEF Schedule, Inductive, TypeOK, Row
<1> HIDE DEF row
<1>2. mem' = [mem EXCEPT ![i] = row] /\ Saves(mem')
  BY DEF Schedule, row
<1>3. disk' = mem' /\ mem'[i] = row /\ \A k \in Items : k # i => mem'[k] = mem[k]
  BY <1>1, <1>2 DEF Saves, Inductive, TypeOK
<1>4. /\ pc' = pc /\ cur' = cur /\ wire' = wire /\ attempts' = attempts /\ revoked' = revoked
      /\ issued' = issued \cup {i} /\ i \notin issued
  BY DEF Schedule
<1>5. CASE j = i
  <2>1. ~InFlight(i) /\ ~InFlight(i)'
    BY <1>4, EmailFacts DEF EmailSound, Fenced, InFlight
  <2>2. QED
    BY <1>1, <1>3, <1>4, <1>5, <2>1 DEF EmailSteps, Enters, Unrevoked, StaysUp
<1>6. CASE j # i
  BY <1>3, <1>4, <1>6 DEF EmailSteps, Keeps, InFlight, Unrevoked, Uncounted, StaysUp
<1>7. QED
  BY <1>5, <1>6

LEMMA CancelSteps ==
  ASSUME Inductive, NEW i \in Items, CancelPending(i) \/ CancelSending(i), NEW j \in Items
  PROVE  EmailSteps(j)
<1> DEFINE row == [mem[i] EXCEPT !.status = "cancelled"]
<1>1. row \in Row /\ row.status = "cancelled" /\ row.status \in Final
  BY RestatusFacts, StatusFacts, EmailFacts
<1>2. Put(mem, i, "cancelled") = [mem EXCEPT ![i] = row]
  BY PutIsRestatus, StatusFacts DEF Inductive
<1> HIDE DEF row
<1>3. /\ mem[i].status \in {"pending", "sending"}
      /\ revoked' = revoked \cup {i}
      /\ UNCHANGED <<pc, identity, blocked, ready, todo, cur, issued, meant, attempts, wire>>
      /\ mem[i].status = "pending" => mem' = Put(mem, i, "cancelled") /\ disk' = mem'
  BY DEF CancelPending, CancelSending, Saves
<1>4. /\ mem'[i] = row \/ mem'[i] = Absent
      /\ \A k \in Items : k # i => mem'[k] = mem[k] \/ (mem[k].status \in Final /\ mem'[k] = Absent)
      /\ \A k \in Items : disk'[k] = mem'[k] \/ disk'[k] = disk[k]
  <2>1. LET rows == Put(mem, i, "cancelled")
        IN  Persist(rows) \/ (mem' = rows /\ Saves(rows))
    BY DEF CancelPending, CancelSending
  <2>2. QED
    BY <1>1, <1>2, <2>1, SavesOne DEF Inductive
<1>5. mem[i].status = "pending" => mem'[i] = row
  BY <1>1, <1>2, <1>3 DEF Inductive, TypeOK
<1>6. CASE j = i
  <2>1. Withdrawn(i)
    BY <1>3, <1>4 DEF Withdrawn, InFlight, Uncounted, StaysUp
  <2>2. Cancelled(i)
    BY <1>1, <1>3, <1>4, <1>5, RowFacts, StatusFacts DEF Cancelled
  <2>3. QED
    BY <1>6, <2>1, <2>2 DEF EmailSteps
<1>7. CASE j # i
  BY <1>3, <1>4, <1>7, Elsewhere DEF EmailSteps, InFlight, Unrevoked, Uncounted, StaysUp
<1>8. QED
  BY <1>6, <1>7

LEMMA QuarantineSteps ==
  ASSUME Inductive, Quarantining, NEW j \in Items
  PROVE  EmailSteps(j)
<1>1. PICK a \in Accounts : Quarantine(a) /\ UNCHANGED <<pc, cur, issued, attempts, wire>>
  BY DEF Quarantining, Purge, Repoint
<1>2. mem \in [Items -> Row] /\ mem' = Quarantined(mem, a)
  BY <1>1 DEF Quarantine, Inductive, TypeOK
<1>3. \/ disk' = mem' /\ revoked' = revoked \cup RowsOf(mem, a)
      \/ disk' = disk /\ revoked' = revoked
  BY <1>1 DEF Quarantine, Saves
<1>4. CASE j \notin RowsOf(mem, a)
  <2>1. mem'[j] = mem[j]
    BY <1>2, <1>4 DEF Quarantined
  <2>2. QED
    BY <1>1, <1>3, <1>4, <2>1 DEF EmailSteps, Keeps, InFlight, Unrevoked, Uncounted, StaysUp
<1>5. CASE j \in RowsOf(mem, a)
  <2>1. mem[j].status # "absent"
    BY <1>5 DEF RowsOf
  <2>2. mem'[j].status = "absent" \/ (mem[j].status = "sending" /\ mem'[j].status = "cancelled")
    <3>1. CASE mem[j].status = "sending"
      <4>1. mem'[j] = [mem[j] EXCEPT !.status = "cancelled"]
        BY <1>2, <1>5, <3>1 DEF Quarantined
      <4>2. QED
        BY <4>1, <3>1, <1>2, RestatusFacts, StatusFacts
    <3>2. CASE mem[j].status # "sending"
      BY <1>2, <1>5, <3>2, RowFacts DEF Quarantined
    <3>3. QED
      BY <3>1, <3>2
  <2>3. Withdrawn(j)
    BY <1>1, <1>3, <2>1 DEF Withdrawn, InFlight, Uncounted, StaysUp
  <2>4. Dropped(j)
    BY <2>2, StatusFacts DEF Dropped
  <2>5. QED
    BY <2>3, <2>4 DEF EmailSteps
<1>6. QED
  BY <1>4, <1>5

LEMMA DispatchSteps ==
  ASSUME Inductive, NEW i \in Items, Dispatch(i), NEW j \in Items
  PROVE  EmailSteps(j)
<1> DEFINE row == [mem[i] EXCEPT !.status = "sending"]
<1>1. row \in Row /\ row.status = "sending"
  BY RestatusFacts, StatusFacts, EmailFacts
<1>2. Put(mem, i, "sending") = [mem EXCEPT ![i] = row]
  BY PutIsRestatus, StatusFacts DEF Inductive
<1> HIDE DEF row
<1>3. /\ pc = "loop" /\ mem[i].status = "pending"
      /\ mem' = [mem EXCEPT ![i] = row] /\ disk' = mem'
      /\ pc' = "wait" /\ cur' = i
      /\ attempts' = [attempts EXCEPT ![i] = @ + 1]
      /\ UNCHANGED <<issued, revoked, wire>>
  BY <1>2 DEF Dispatch, StillDue, Saves
<1>4. mem'[i] = row /\ \A k \in Items : k # i => mem'[k] = mem[k] /\ attempts'[k] = attempts[k]
  BY <1>1, <1>3 DEF Inductive, TypeOK
<1>5. ~InFlight(j) /\ (j = i <=> InFlight(j)')
  BY <1>3 DEF InFlight
<1>6. CASE j = i
  <2>1. i \notin revoked /\ attempts[i] < MaxRetries
    BY <1>3, EmailFacts DEF EmailSound, RevokedAtRest, TriesCounted, Pending
  <2>2. attempts'[i] = attempts[i] + 1
    BY <1>3 DEF Inductive, TypeOK
  <2>3. QED
    BY <1>1, <1>3, <1>4, <1>5, <1>6, <2>1, <2>2 DEF EmailSteps, Flies, Unrevoked, StaysUp
<1>7. CASE j # i
  BY <1>3, <1>4, <1>5, <1>7 DEF EmailSteps, Keeps, Unrevoked, Uncounted, StaysUp
<1>8. QED
  BY <1>6, <1>7

(* The end of an await: its email lands, of the others only history is pruned.  *)
LEMMA ResumeSteps ==
  ASSUME Inductive, Resume, NEW c, c = cur, NEW j \in Items
  PROVE  EmailSteps(j)
<1>1. /\ pc = "wait" /\ Back /\ PerhapsDelivered(c)
      /\ pc' = "loop" /\ UNCHANGED <<issued, attempts, revoked>>
  BY DEF Resume, ResumeCancelled, ResumeSent, ResumeFailed, ResumeUnknown, Back, Delivered,
         NotDelivered, PerhapsDelivered
<1>2. /\ c \in Items /\ InFlight(c) /\ ~InFlight(c)'
      /\ \A k \in Items : k # c => ~InFlight(k) /\ ~InFlight(k)'
      /\ wire'[c] \in {wire[c], wire[c] + 1}
      /\ \A k \in Items : k # c => wire'[k] = wire[k]
  BY <1>1, AwaitEnds
<1>3. CASE ResumeCancelled
  <2>1. UNCHANGED <<mem, disk>> /\ mem[c].status # "sending"
    BY <1>3 DEF ResumeCancelled
  <2>2. AtRest(mem[c].status)
    BY <1>2, <2>1, EmailFacts, RowFacts DEF EmailSound, Fenced, Pending, AtRest, Statuses, Live
  <2>3. CASE j = c
    BY <1>1, <1>2, <2>1, <2>2, <2>3 DEF EmailSteps, Lands, Uncounted, Unrevoked, StaysUp
  <2>4. CASE j # c
    BY <1>1, <1>2, <2>1, <2>4 DEF EmailSteps, Keeps, Uncounted, Unrevoked, StaysUp
  <2>5. QED
    BY <2>3, <2>4
<1>4. CASE ~ResumeCancelled
  <2>1. mem[c].status = "sending" /\ mem[c].retries < MaxRetries
    <3>1. mem[c].status = "sending"
      BY <1>4 DEF Resume, ResumeSent, ResumeFailed, ResumeUnknown
    <3>2. QED
      BY <1>2, <3>1, EmailFacts, RetryAssumption DEF EmailSound, TriesCounted
  <2>2. PICK row \in Row :
          /\ Persist([mem EXCEPT ![c] = row])
          /\ row.status \in Final \/ (row.status = "pending" /\ (wire'[c] = wire[c] \/ LossyReplies))
    <3>1. CASE ResumeSent
      <4>1. /\ [mem[c] EXCEPT !.status = "sent"] \in Row
            /\ Put(mem, c, "sent") = [mem EXCEPT ![c] = [mem[c] EXCEPT !.status = "sent"]]
        BY <1>2, PutIsRestatus, StatusFacts DEF Inductive
      <4>2. Persist(Put(mem, c, "sent"))
        BY <3>1 DEF ResumeSent
      <4>3. [mem[c] EXCEPT !.status = "sent"].status \in Final
        BY <1>2, EmailFacts, RestatusFacts, StatusFacts
      <4>4. QED
        BY <4>1, <4>2, <4>3
    <3>2. CASE ResumeUnknown
      <4>1. Persist([mem EXCEPT ![c] = AfterUnknown(mem[c])])
        BY <3>2, <1>2 DEF ResumeUnknown, Inductive, TypeOK
      <4>2. QED
        BY <1>2, <2>1, <4>1, EmailFacts, AfterUnknownFacts, StatusFacts
    <3>3. CASE ResumeFailed
      <4>1. Persist([mem EXCEPT ![c] = AfterFailure(mem[c])])
        BY <3>3, <1>2 DEF ResumeFailed, Inductive, TypeOK
      <4>2. wire'[c] = wire[c] \/ LossyReplies
        BY <3>3 DEF ResumeFailed, NotDelivered
      <4>3. QED
        BY <1>2, <2>1, <4>1, <4>2, EmailFacts, AfterFailureFacts, StatusFacts
    <3>4. QED
      BY <1>4, <3>1, <3>2, <3>3 DEF Resume
  <2>3. /\ mem'[c] = row \/ (row.status \in Final /\ mem'[c] = Absent)
        /\ \A k \in Items : k # c => mem'[k] = mem[k] \/ (mem[k].status \in Final /\ mem'[k] = Absent)
        /\ \A k \in Items : disk'[k] = mem'[k] \/ disk'[k] = disk[k]
    BY <1>2, <2>2, SavesOne DEF Inductive
  <2>4. CASE j = c
    BY <1>1, <1>2, <2>1, <2>2, <2>3, <2>4, RowFacts DEF EmailSteps, Lands, AtRest, Uncounted, Unrevoked, StaysUp
  <2>5. CASE j # c
    BY <1>1, <1>2, <2>3, <2>5, Elsewhere DEF EmailSteps, Uncounted, Unrevoked, StaysUp
  <2>6. QED
    BY <2>4, <2>5
<1>5. QED
  BY <1>3, <1>4

LEMMA LoopEndsSteps ==
  ASSUME Inductive, LoopEnds, NEW j \in Items
  PROVE  EmailSteps(j)
<1>1. /\ pc = "loop" /\ pc' = "idle" /\ Persist(mem) /\ UNCHANGED history
  BY DEF LoopEnds
<1>2. /\ mem'[j] = mem[j] \/ (mem[j].status \in Final /\ mem'[j] = Absent)
      /\ disk' = mem' \/ disk' = disk
  BY <1>1, PersistFacts DEF Inductive, TypeOK
<1>3. QED
  BY <1>1, <1>2, RowFacts DEF EmailSteps, Keeps, InFlight, history, Uncounted, Unrevoked, StaysUp

LEMMA HaltSteps ==
  ASSUME Inductive, Crash \/ Stop, NEW j \in Items
  PROVE  EmailSteps(j)
<1>1. /\ pc # "down" /\ pc' = "down" /\ mem' = Empty
      /\ IF pc = "wait" THEN PerhapsDelivered(cur) ELSE wire' = wire
      /\ UNCHANGED <<issued, revoked, attempts>>
  BY DEF Crash, Stop, Halt, Serving
<1>2. disk'[j] \in {disk[j], mem[j]} \/ (mem[j].status \in Final /\ disk'[j] = Absent)
  <2>1. CASE Crash
    BY <2>1 DEF Crash
  <2>2. CASE Stop
    <3>1. PICK rows \in Prunings(mem) : MaySave(rows)
      BY <2>2 DEF Stop
    <3>2. disk' = rows \/ disk' = disk
      BY <3>1 DEF MaySave
    <3>3. rows[j] = mem[j] \/ (mem[j].status \in Final /\ rows[j] = Absent)
      BY PruningFacts DEF Inductive, TypeOK
    <3>4. QED
      BY <3>2, <3>3
  <2>3. QED
    BY <2>1, <2>2
<1>3. wire'[j] = wire[j] \/ (InFlight(j) /\ wire'[j] = wire[j] + 1)
  <2>1. wire' = wire \/ (pc = "wait" /\ wire' = [wire EXCEPT ![cur] = @ + 1])
    BY <1>1 DEF PerhapsDelivered
  <2>2. QED
    BY <2>1 DEF Inductive, TypeOK, InFlight
<1>4. QED
  BY <1>1, <1>2, <1>3, RowFacts DEF EmailSteps, Halts, Empty, InFlight, Uncounted, Unrevoked

LEMMA LoadSteps ==
  ASSUME Inductive, Load \/ LoadFails, NEW j \in Items
  PROVE  EmailSteps(j)
<1>1. /\ pc = "down" /\ pc' \in {"migrate", "boot"} /\ UNCHANGED history
  BY DEF Load, LoadFails
<1>2. CASE Load
  <2> DEFINE rows == [i \in Items |-> Recovered(disk[i])]
  <2>1. rows \in [Items -> Row]
    BY RecoveredFacts DEF Inductive, TypeOK
  <2>2. rows[j] = Recovered(disk[j])
    OBVIOUS
  <2>3. mem' \in Prunings(rows) /\ (disk' = mem' \/ disk' = disk)
    BY <1>2 DEF Load, MaySave
  <2> HIDE DEF rows
  <2>4. mem'[j] = rows[j] \/ (rows[j].status \in Final /\ mem'[j] = Absent)
    BY <2>1, <2>3, PruningFacts
  <2>5. /\ rows[j].status # "sending"
        /\ rows[j].status # disk[j].status => rows[j].status = "outcome_unknown" /\ disk[j].status = "sending"
    BY <2>2, RecoveredFacts, EmailFacts
  <2>6. QED
    BY <1>1, <2>3, <2>4, <2>5, RowFacts, StatusFacts
    DEF EmailSteps, Loads, InFlight, history, Uncounted, Unrevoked
<1>3. CASE LoadFails
  BY <1>1, <1>3 DEF LoadFails, EmailSteps, Loads, InFlight, history, Uncounted, Unrevoked
<1>4. QED
  BY <1>2, <1>3

LEMMA MigrateSteps ==
  ASSUME Inductive, NEW a \in Accounts, Migrate(a), NEW j \in Items
  PROVE  EmailSteps(j)
<1> DEFINE rows == [i \in Items |-> Migrated(mem[i], a)]
<1>1. rows[j] = Migrated(mem[j], a)
  OBVIOUS
<1>2. /\ pc = "migrate" /\ pc' = "purge" /\ mem' \in {rows, mem} /\ (disk' = mem' \/ disk' = disk)
      /\ UNCHANGED history
  BY DEF Migrate, Saves
<1> HIDE DEF rows
<1>3. Migrated(mem[j], a).status = mem[j].status
  BY MigratedFacts, EmailFacts DEF Inductive, TypeOK
<1>4. QED
  BY <1>1, <1>2, <1>3 DEF EmailSteps, Keeps, InFlight, history, Uncounted, Unrevoked, StaysUp

LEMMA StepSteps ==
  ASSUME Inductive, [Next]_vars, NEW j \in Items
  PROVE  EmailSteps(j)
<1>1. ASSUME UNCHANGED <<mem, disk, cur>>, UNCHANGED history, pc' = "wait" <=> pc = "wait", StaysUp
      PROVE  EmailSteps(j)
  BY <1>1, QuietKeeps DEF EmailSteps
<1>2. CASE Calls
  <2>1. ASSUME NEW a \in Accounts, NEW k \in Identities \cup {NoMailbox}, RepointOffline(a, k)
        PROVE  EmailSteps(j)
    BY <1>1, <2>1 DEF RepointOffline, history, StaysUp
  <2>2. QED
    BY <1>2, <2>1, ScheduleSteps, CancelSteps, QuarantineSteps DEF Calls, Quarantining
<1>3. CASE Time
  BY <1>1, <1>3 DEF Time, ComesDue, BackoffElapses, StaysUp
<1>4. CASE ProcessDue
  <2>1. CASE Tick
    BY <1>1, <2>1 DEF Tick, StaysUp
  <2>2. ASSUME NEW i \in Items, Defer(i) \/ FenceFails(i) PROVE EmailSteps(j)
    BY <1>1, <2>2 DEF Defer, FenceFails, StaysUp
  <2>3. QED
    BY <1>4, <2>1, <2>2, LoopEndsSteps, DispatchSteps, ResumeSteps DEF ProcessDue, Resume
<1>5. CASE Boot
  <2>1. CASE PurgeDone
    BY <1>1, <2>1 DEF PurgeDone, StaysUp
  <2>2. QED
    BY <1>5, <2>1, LoadSteps, MigrateSteps, QuarantineSteps DEF Boot, Quarantining
<1>6. CASE Crash \/ Stop
  BY <1>6, HaltSteps
<1>7. CASE UNCHANGED vars
  BY <1>1, <1>7 DEF vars, history, StaysUp
<1>8. QED
  BY <1>2, <1>3, <1>4, <1>5, <1>6, <1>7 DEF Next

LEMMA StartsRecorded == Init => \A i \in Items : Recorded(i)
<1> SUFFICES ASSUME Init, NEW i \in Items PROVE Recorded(i)
  OBVIOUS
<1>1. mem[i].status = "absent"
  BY RowFacts DEF Init, Empty
<1>2. QED
  BY <1>1, StatusFacts DEF Recorded, Live

LEMMA AlwaysRecorded == Spec => [](Inductive /\ \A i \in Items : Recorded(i))
<1>1. Init => Inductive /\ \A i \in Items : Recorded(i)
  BY InitInductive, StartsRecorded
<1>2. (Inductive /\ \A i \in Items : Recorded(i)) /\ [Next]_vars
        => (Inductive /\ \A i \in Items : Recorded(i))'
  BY StepInductive, StepSteps, StepRecords
<1>3. QED
  BY <1>1, <1>2, PTL DEF Spec

(* The scheduler implements Delivery: through crashes, failed writes, unreadable *)
(* stores, repoints and aborted transports every step of the daemon is, for each *)
(* email, one that its owner was promised, or none.                              *)
THEOREM PromiseIsKept == Spec => KeepsPromise
<1>1. Init => Promise!DInit
  <2> SUFFICES ASSUME Init PROVE Promise!DInit
    OBVIOUS
  <2>1. \A i \in Items : Phase(i) \in {"new", "parked"}
    <3> SUFFICES ASSUME NEW i \in Items PROVE Phase(i) \in {"new", "parked"}
      OBVIOUS
    <3>1. mem[i].status = "absent" /\ pc = "down" /\ issued = Legacy
      BY RowFacts DEF Init, Empty
    <3>2. i \in Legacy => disk[i].status = "pending"
      <4>1. \A a : LegacyRow(a).status = "pending"
        BY DEF LegacyRow, Absent
      <4>2. QED
        BY <4>1 DEF Init
    <3>3. QED
      BY <3>1, <3>2 DEF Phase
  <2>2. QED
    BY <2>1 DEF Init, Promise!DInit
<1>2. (Inductive /\ \A i \in Items : Recorded(i)) /\ (Inductive /\ \A i \in Items : Recorded(i))'
        /\ [Next]_vars => [Promise!DNext]_Promise!dvars
  BY StepSteps, StepDelivers DEF Promise!DNext
<1>3. QED
  BY <1>1, <1>2, AlwaysRecorded, PTL DEF Spec, KeepsPromise, Promise!DSpec

-----------------------------------------------------------------------------
(* While nobody edits the registry.                                        *)

(* No record names a mailbox its account is not.                           *)
Agrees(row) == Owned(row) /\ row.ident # NoMailbox => row.ident = identity[row.owner]
Agreed(i) == Agrees(mem[i]) /\ Agrees(disk[i])

LEMMA NobodyQuarantines ==
  ASSUME Inductive, \A i \in Items : Agreed(i), CalmNext
  PROVE  ~Quarantining
<1>1. ASSUME NEW a \in Accounts, Purge(a) PROVE FALSE
  <2>1. a \in StaleOwners
    BY <1>1 DEF Purge
  <2>2. PICK i \in Items : Stale(mem[i])
    BY <2>1 DEF StaleOwners
  <2>3. QED
    BY <2>2 DEF Agreed, Agrees, Stale
<1>2. ASSUME NEW a \in Accounts, NEW k \in Identities \cup {NoMailbox}, Repoint(a, k) PROVE FALSE
  <2>1. identity' = identity /\ identity' = [identity EXCEPT ![a] = k] /\ k # identity[a]
    BY <1>2 DEF Repoint, CalmNext
  <2>2. QED
    BY <2>1 DEF Inductive, TypeOK
<1>3. QED
  BY <1>1, <1>2 DEF Quarantining

LEMMA AgreesAlone ==
  ASSUME Inductive, \A j \in Items : Agreed(j), identity' = identity,
         NEW i \in Items, NEW row \in Row, Agrees(row), NEW rows,
         rows = [mem EXCEPT ![i] = row], Persist(rows) \/ (mem' = rows /\ Saves(rows))
  PROVE  \A j \in Items : Agreed(j)'
<1>1. /\ mem'[i] = row \/ mem'[i] = Absent
      /\ \A j \in Items : j # i => mem'[j] = mem[j] \/ mem'[j] = Absent
      /\ \A j \in Items : disk'[j] = mem'[j] \/ disk'[j] = disk[j]
  BY SavesOne DEF Inductive
<1>2. QED
  BY <1>1, RowFacts DEF Agreed, Agrees, Owned

LEMMA AgreesTogether ==
  ASSUME \A j \in Items : Agreed(j), identity' = identity,
         \A j \in Items : Agrees(mem'[j]) \/ mem'[j] \in {mem[j], Absent},
         \A j \in Items : disk'[j] \in {mem'[j], mem[j], disk[j], Absent}
  PROVE  \A j \in Items : Agreed(j)'
BY RowFacts DEF Agreed, Agrees, Owned

LEMMA StaysAgreed ==
  ASSUME Inductive, \A j \in Items : Agreed(j), [CalmNext]_vars
  PROVE  \A j \in Items : Agreed(j)'
<1>1. identity' = identity
  BY DEF CalmNext, vars
<1>2. CASE UNCHANGED <<mem, disk>>
  BY <1>1, <1>2 DEF Agreed, Agrees, Owned
<1>3. ASSUME NEW i \in Items, NEW a \in Accounts, Schedule(i, a) PROVE \A j \in Items : Agreed(j)'
  <2> DEFINE row == [status |-> "pending", retries |-> 0, owner |-> a, ident |-> identity[a]]
  <2>1. row \in Row /\ row.owner = a /\ row.ident = identity[a]
    BY <1>3, RetryAssumption, StatusFacts DEF Schedule, Inductive, TypeOK, Row
  <2> HIDE DEF row
  <2>2. mem' = [mem EXCEPT ![i] = row] /\ Saves(mem')
    BY <1>3 DEF Schedule, row
  <2>3. QED
    BY <1>1, <2>1, <2>2, AgreesAlone DEF Agrees
<1>4. ASSUME NEW i \in Items, NEW s \in Statuses,
             Persist(Put(mem, i, s)) \/ (mem' = Put(mem, i, s) /\ Saves(mem'))
      PROVE  \A j \in Items : Agreed(j)'
  <2> DEFINE row == [mem[i] EXCEPT !.status = s]
  <2>1. row \in Row /\ row.owner = mem[i].owner /\ row.ident = mem[i].ident
    BY RestatusFacts, EmailFacts
  <2>2. Put(mem, i, s) = [mem EXCEPT ![i] = row]
    BY PutIsRestatus DEF Inductive
  <2> HIDE DEF row
  <2>3. Agrees(row)
    BY <2>1 DEF Agreed, Agrees, Owned
  <2>4. QED
    BY <1>1, <1>4, <2>1, <2>2, <2>3, AgreesAlone
<1>5. ASSUME NEW c, c = cur, ResumeFailed \/ ResumeUnknown PROVE \A j \in Items : Agreed(j)'
  <2>1. pc = "wait" /\ Back /\ PerhapsDelivered(c) /\ mem[c].status = "sending"
    BY <1>5 DEF ResumeFailed, ResumeUnknown, NotDelivered, PerhapsDelivered
  <2>2. c \in Items
    BY <1>5, <2>1, AwaitEnds
  <2>3. mem[c].retries < MaxRetries
    BY <2>1, <2>2, EmailFacts, RetryAssumption DEF EmailSound, TriesCounted
  <2>4. PICK row \in Row :
          /\ Persist([mem EXCEPT ![c] = row]) /\ row.owner = mem[c].owner /\ row.ident = mem[c].ident
    <3>1. CASE ResumeUnknown
      <4>1. Persist([mem EXCEPT ![c] = AfterUnknown(mem[c])])
        BY <1>5, <3>1, <2>2 DEF ResumeUnknown, Inductive, TypeOK
      <4>2. QED
        BY <2>2, <2>3, <4>1, EmailFacts, AfterUnknownFacts
    <3>2. CASE ResumeFailed
      <4>1. Persist([mem EXCEPT ![c] = AfterFailure(mem[c])])
        BY <1>5, <3>2, <2>2 DEF ResumeFailed, Inductive, TypeOK
      <4>2. QED
        BY <2>2, <2>3, <4>1, EmailFacts, AfterFailureFacts
    <3>3. QED
      BY <1>5, <3>1, <3>2
  <2>5. Agrees(row)
    BY <2>2, <2>4 DEF Agreed, Agrees, Owned
  <2>6. QED
    BY <1>1, <2>2, <2>4, <2>5, AgreesAlone
<1>6. ASSUME LoopEnds PROVE \A j \in Items : Agreed(j)'
  <2>1. Persist(mem)
    BY <1>6 DEF LoopEnds
  <2>2. /\ \A j \in Items : mem'[j] = mem[j] \/ mem'[j] = Absent
        /\ disk' = mem' \/ disk' = disk
    BY <2>1, PersistFacts DEF Inductive, TypeOK
  <2>3. QED
    BY <1>1, <2>2, AgreesTogether
<1>7. ASSUME Crash \/ Stop PROVE \A j \in Items : Agreed(j)'
  <2>1. \A j \in Items : mem'[j] = Absent
    BY <1>7 DEF Crash, Stop, Halt, Empty
  <2>2. \A j \in Items : disk'[j] \in {disk[j], mem[j], Absent}
    <3>1. CASE Crash
      BY <3>1 DEF Crash
    <3>2. CASE Stop
      <4>1. PICK rows \in Prunings(mem) : MaySave(rows)
        BY <3>2 DEF Stop
      <4>2. disk' = rows \/ disk' = disk
        BY <4>1 DEF MaySave
      <4>3. \A j \in Items : rows[j] \in {mem[j], Absent}
        BY PruningFacts DEF Inductive, TypeOK
      <4>4. QED
        BY <4>2, <4>3
    <3>3. QED
      BY <1>7, <3>1, <3>2
  <2>3. QED
    BY <1>1, <2>1, <2>2, AgreesTogether
<1>8. ASSUME Load PROVE \A j \in Items : Agreed(j)'
  <2> DEFINE rows == [i \in Items |-> Recovered(disk[i])]
  <2>1. rows \in [Items -> Row] /\ \A j \in Items : rows[j] = Recovered(disk[j])
    BY RecoveredFacts DEF Inductive, TypeOK
  <2>2. mem' \in Prunings(rows) /\ (disk' = mem' \/ disk' = disk)
    BY <1>8 DEF Load, MaySave
  <2> HIDE DEF rows
  <2>3. \A j \in Items : mem'[j] = rows[j] \/ mem'[j] = Absent
    BY <2>1, <2>2, PruningFacts
  <2>4. \A j \in Items : rows[j].owner = disk[j].owner /\ rows[j].ident = disk[j].ident
    BY <2>1, RecoveredFacts, EmailFacts
  <2>5. \A j \in Items : Agrees(rows[j])
    BY <2>4 DEF Agreed, Agrees, Owned
  <2>6. QED
    BY <1>1, <2>2, <2>3, <2>5, AgreesTogether
<1>9. ASSUME NEW a \in Accounts, Migrate(a) PROVE \A j \in Items : Agreed(j)'
  <2> DEFINE rows == [i \in Items |-> Migrated(mem[i], a)]
  <2>1. \A j \in Items : rows[j] = Migrated(mem[j], a)
    OBVIOUS
  <2>2. mem' \in {rows, mem} /\ (disk' = mem' \/ disk' = disk)
    BY <1>9 DEF Migrate, Saves
  <2> HIDE DEF rows
  <2>3. \A j \in Items : rows[j] = mem[j] \/ Agrees(rows[j])
    <3> SUFFICES ASSUME NEW j \in Items, Migrated(mem[j], a) # mem[j] PROVE Agrees(Migrated(mem[j], a))
      BY <2>1
    <3>1. PICK o : Migrated(mem[j], a) = [mem[j] EXCEPT !.owner = o, !.ident = identity[o]]
      BY DEF Migrated
    <3>2. Migrated(mem[j], a).owner = o /\ Migrated(mem[j], a).ident = identity[o]
      BY <3>1, EmailFacts DEF Row
    <3>3. QED
      BY <3>2 DEF Agrees
  <2>4. QED
    BY <1>1, <2>2, <2>3, AgreesTogether
<1>10. CASE CalmNext
  <2>1. Next /\ ~Quarantining
    BY <1>10, NobodyQuarantines DEF CalmNext
  <2>2. CASE Calls
    <3>1. ASSUME NEW i \in Items, CancelPending(i) \/ CancelSending(i) PROVE \A j \in Items : Agreed(j)'
      BY <3>1, <1>4, StatusFacts DEF CancelPending, CancelSending
    <3>2. ASSUME NEW a \in Accounts, NEW k \in Identities \cup {NoMailbox}, RepointOffline(a, k)
          PROVE  \A j \in Items : Agreed(j)'
      BY <3>2, <1>2 DEF RepointOffline
    <3>3. QED
      BY <2>1, <2>2, <3>1, <3>2, <1>3 DEF Calls, Quarantining
  <2>3. CASE Time
    BY <2>3, <1>2 DEF Time, ComesDue, BackoffElapses
  <2>4. CASE ProcessDue
    <3>1. ASSUME NEW i \in Items, Dispatch(i) PROVE \A j \in Items : Agreed(j)'
      BY <3>1, <1>4, StatusFacts DEF Dispatch
    <3>2. CASE ResumeSent
      <4>1. cur \in Items
        BY <3>2 DEF ResumeSent, Inductive, QueueInvariant
      <4>2. QED
        BY <3>2, <4>1, <1>4, StatusFacts DEF ResumeSent
    <3>3. CASE Tick \/ ResumeCancelled
      BY <3>3, <1>2 DEF Tick, ResumeCancelled
    <3>4. ASSUME NEW i \in Items, Defer(i) \/ FenceFails(i) PROVE \A j \in Items : Agreed(j)'
      BY <3>4, <1>2 DEF Defer, FenceFails
    <3>5. QED
      BY <2>4, <3>1, <3>2, <3>3, <3>4, <1>5, <1>6 DEF ProcessDue
  <2>5. CASE Boot
    <3>1. CASE LoadFails \/ PurgeDone
      BY <3>1, <1>2 DEF LoadFails, PurgeDone
    <3>2. QED
      BY <2>1, <2>5, <3>1, <1>8, <1>9 DEF Boot, Quarantining
  <2>6. QED
    BY <2>1, <2>2, <2>3, <2>4, <2>5, <1>7 DEF Next
<1>11. QED
  BY <1>2, <1>10 DEF vars

(* While no daemon runs nothing happens to the file, until one reads it.   *)
LEMMA RestsOnDisk ==
  ASSUME [CalmNext]_vars, pc = "down", ~ReadFaults, ~Quarantining
  PROVE  (UNCHANGED <<pc, disk>>) \/ Load
BY DEF CalmNext, vars, Next, Calls, Time, ProcessDue, Boot, Crash, Stop, Serving, Quarantining,
       Schedule, CancelPending, CancelSending, RepointOffline, ComesDue, BackoffElapses, Tick, LoopEnds,
       Defer, Dispatch, FenceFails, ResumeCancelled, ResumeSent, ResumeFailed, ResumeUnknown,
       LoadFails, PurgeDone, Migrate

(* An email that waits goes away only with its mailbox, and one that is out is  *)
(* on record, whatever crashes and failed writes do: as long as nobody edits    *)
(* the registry and the store can be read.                                      *)
THEOREM NothingIsLost == ~ReadFaults => (CalmSpec => NothingLost)
<1> SUFFICES ASSUME ~ReadFaults PROVE CalmSpec => NothingLost
  OBVIOUS
<1> DEFINE Calm == Inductive /\ (\A i \in Items : Recorded(i)) /\ (\A i \in Items : Agreed(i))
<1>1. Init => Calm
  <2>1. Init => \A i \in Items : Agreed(i)
    <3> SUFFICES ASSUME Init, NEW i \in Items PROVE Agreed(i)
      OBVIOUS
    <3>1. \A a : LegacyRow(a).ident = NoMailbox
      BY DEF LegacyRow, Absent
    <3>2. mem[i].ident = NoMailbox /\ disk[i].ident = NoMailbox
      BY <3>1, RowFacts DEF Init, Empty
    <3>3. QED
      BY <3>2 DEF Agreed, Agrees
  <2>2. QED
    BY <2>1, InitInductive, StartsRecorded
<1>2. [CalmNext]_vars => [Next]_vars
  BY DEF CalmNext
<1>3. Calm /\ [CalmNext]_vars => Calm'
  BY <1>2, StepInductive, StepSteps, StepRecords, StaysAgreed
<1>4. ASSUME Calm, [CalmNext]_vars, NEW i \in Items, Known(i)'.status = "absent"
      PROVE  Known(i).status # "pending" /\ (Known(i).status = "sending" => pc' # "down")
  <2>1. EmailSteps(i) /\ Recorded(i)
    BY <1>2, <1>4, StepSteps
  <2>2. ~Quarantining \/ UNCHANGED vars
    BY <1>4, NobodyQuarantines
  <2>3. CASE UNCHANGED vars
    BY <1>4, <2>3 DEF vars, Known
  <2>4. CASE ~Quarantining /\ pc = "down"
    <3>1. CASE UNCHANGED <<pc, disk>>
      BY <1>4, <2>4, <3>1 DEF Known
    <3>2. CASE Load
      BY <1>4, <2>1, <2>4, <3>2
      DEF Load, Known, EmailSteps, Keeps, Enters, Withdrawn, Flies, Lands, Halts, Loads, StaysUp, InFlight
    <3>3. QED
      BY <1>4, <2>4, <3>1, <3>2, RestsOnDisk
  <2>5. CASE ~Quarantining /\ pc # "down"
    <3>1. InFlight(i) => mem[i].status # "pending"
      BY <1>4, EmailFacts DEF EmailSound, Fenced, Pending
    <3>2. QED
      BY <1>4, <2>1, <2>5, <3>1, StatusFacts
      DEF Known, EmailSteps, Keeps, Enters, Withdrawn, Cancelled, Dropped, Flies, Lands, Halts, Loads,
          StaysUp, Recorded, Live
  <2>6. QED
    BY <2>2, <2>3, <2>4, <2>5
<1>5. Calm /\ [CalmNext]_vars =>
        [\A i \in Items : Known(i)'.status = "absent" =>
           /\ Known(i).status = "pending" =>
                 /\ Owned(Known(i))
                 /\ identity'[Known(i).owner] # Known(i).ident
           /\ Known(i).status = "sending" => pc' # "down"]_vars
  BY <1>4
<1> HIDE DEF Calm
<1>6. QED
  BY <1>1, <1>3, <1>5, PTL DEF CalmSpec, NothingLost
=============================================================================
