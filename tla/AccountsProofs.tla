--------------------------- MODULE AccountsProofs ---------------------------
(* The accounts of a daemon, for every set of ids, mailboxes and passwords,     *)
(* any number of requests and readers.  Three invariants, each resting on the   *)
(* one before: of the registry and its rebuilds; of the pairs of services, the  *)
(* connects that are due and the passwords; of the readers of mail.             *)
EXTENDS Accounts, SequenceTheorems, TLAPS

DiskSet == [box : [Ids -> Boxes \cup {NoBox}], chosen : Ids, marked : BOOLEAN]
SnapshotSet == [from : Nat, disk : DiskSet, unhydrated : BOOLEAN]
RebuildSet == [version : Nat, by : Requests]
Places == {"idle", "saving", "written", "scrubbing", "rebuilding", "resolved", "failed", "answered",
           "clearing", "resetting"}
RequestSet == [at : Places,
               kind : {"none", "edit", "delete", "activate", "reset", "uncleared"}, id : Ids]
SpecSet == [box : Boxes \cup {NoBox}, key : Keys \cup {NoKey}]
RuntimeSet == [generation : Nat, derived : SUBSET Boxes, instance : Nat]

------------------------------------------------------------------------------
(* The registry and its rebuilds                                                *)

RegistryTyped ==
  /\ disk \in DiskSet /\ keychain \in [Ids -> Keys \cup {NoKey}]
  /\ request \in [Requests -> RequestSet]
  /\ newest \in Nat /\ written \in Nat /\ applied \in Nat
  /\ queue \in Seq(RebuildSet) /\ snapshot \in Seq(SnapshotSet)
  /\ suspended \in BOOLEAN

(* What has been read is no newer than what was saved, and belongs to the head   *)
(* of the queue; unless a newer rebuild was asked for, it is no older than what   *)
(* was applied, and read without passwords if these are suspended.               *)
SnapshotSound ==
  snapshot # <<>> =>
    /\ queue # <<>> /\ snapshot[1].from <= written
    /\ Head1.version = newest =>
         snapshot[1].from >= applied /\ (suspended => snapshot[1].unhydrated)

RegistrySound ==
  /\ RegistryTyped /\ applied <= written
  /\ \A i \in DOMAIN queue : queue[i].version <= newest
  /\ SnapshotSound

------------------------------------------------------------------------------
(* The pairs of services                                                        *)

PairsTyped ==
  /\ services \in [Ids -> Seq(Service)] /\ live \in [Ids -> Nat]
  /\ epoch \in [Ids -> Nat] /\ tail \in [Ids -> Seq(Task)]
  /\ active \in Ids

Dead(s) == s.client = Off /\ s.config = NoKey /\ s.key = NoKey /\ ~s.idle /\ s.attempt.by = "none"

(* Of the services of an id only the last can be alive, and an IDLE loop means    *)
(* that it is connected with its password.                                       *)
LiveIsLast(a) == live[a] \in {0, Len(services[a])}
OthersDead(a) == \A i \in DOMAIN services[a] : i # live[a] => Dead(services[a][i])
IdleKeyed(a) == \A i \in DOMAIN services[a] :
  services[a][i].idle => services[a][i].config = services[a][i].key /\ services[a][i].key # NoKey

(* Tasks: only the first has begun, and none is of a later epoch; a connect that  *)
(* waits before a refresh of the current services is out of date; services that  *)
(* will be or are being closed have no IDLE loop; and a connect that is current   *)
(* and still its services' own attempt uses their password.                      *)
TasksSound(a) == \A k \in DOMAIN tail[a] :
  /\ tail[a][k].of \in DOMAIN services[a] /\ tail[a][k].epoch <= epoch[a]
  /\ k > 1 => tail[a][k].at = "queued"
RefreshOutdates(a) == \A k \in DOMAIN tail[a] : \A l \in DOMAIN tail[a] :
  l < k /\ tail[a][k].kind = "refresh" /\ tail[a][k].of = live[a] /\ tail[a][l].kind = "connect"
    => tail[a][l].epoch < epoch[a]
ClosedNotIdle(a) == \A k \in DOMAIN tail[a] :
  tail[a][k].kind = "refresh" \/ tail[a][k].at = "closing" => ~services[a][tail[a][k].of].idle
AttemptIsCurrent(a) ==
  LET task == tail[a][1]
      s == services[a][task.of]
  IN  (/\ tail[a] # <<>> /\ task.kind = "connect" /\ task.at = "running"
       /\ task.of = live[a] /\ task.epoch = epoch[a] /\ s.attempt.by = "task")
        => s.config = s.key /\ s.attempt.key = s.key

Keyless(a) == suspended /\ live[a] # 0 => Current(a).key = NoKey

PairSound(a) ==
  /\ LiveIsLast(a) /\ OthersDead(a) /\ IdleKeyed(a)
  /\ TasksSound(a) /\ RefreshOutdates(a) /\ ClosedNotIdle(a) /\ AttemptIsCurrent(a) /\ Keyless(a)

PairsSound == PairsTyped /\ \A a \in Ids : PairSound(a)

------------------------------------------------------------------------------
(* The readers of mail                                                          *)

ReadersTyped == runtime \in [Ids -> RuntimeSet] /\ jobs \subseteq Work /\ misserved \in BOOLEAN

(* A reader has mail only of the mailbox its services are for; and what a fill    *)
(* has that started in the current generation is of the current mailbox.         *)
ReaderSound(j) ==
  LET r == runtime[j.id] IN
  /\ j.of \in DOMAIN services[j.id]
  /\ j.got # NoBox => j.got = services[j.id][j.of].box
  /\ j.instance <= r.instance /\ (j.instance = r.instance => j.generation <= r.generation)
  /\ j.kind = "fill" /\ j.got # NoBox /\ j.instance = r.instance /\ j.generation = r.generation
       => OfMailbox(j.id, j.got)

ReadersSound ==
  /\ ReadersTyped /\ ~misserved
  /\ \A j \in jobs : ReaderSound(j)
  /\ \A a \in Ids : \A box \in runtime[a].derived : OfMailbox(a, box)

------------------------------------------------------------------------------
LEMMA TailFacts ==
  ASSUME NEW S, NEW s \in Seq(S), s # <<>>
  PROVE  /\ Len(s) \in Nat \ {0} /\ DOMAIN s = 1..Len(s) /\ Head(s) = s[1] /\ s[1] \in S
         /\ Tail(s) \in Seq(S) /\ Len(Tail(s)) = Len(s) - 1 /\ DOMAIN Tail(s) = 1..(Len(s) - 1)
         /\ \A k \in DOMAIN Tail(s) : k + 1 \in DOMAIN s /\ Tail(s)[k] = s[k + 1]
<1>1. Len(s) \in Nat \ {0} /\ DOMAIN s = 1..Len(s) /\ s[1] \in S
  BY EmptySeq, LenProperties, ElementOfSeq
<1>2. Tail(s) \in Seq(S) /\ Len(Tail(s)) = Len(s) - 1 /\ \A i \in 1..Len(Tail(s)) : Tail(s)[i] = s[i + 1]
  BY HeadTailProperties
<1>3. DOMAIN Tail(s) = 1..(Len(s) - 1)
  BY <1>2, LenProperties
<1>4. Head(s) = s[1]
  OBVIOUS
<1> QED
  BY <1>1, <1>2, <1>3, <1>4

LEMMA AppendFacts ==
  ASSUME NEW S, NEW s \in Seq(S), NEW e \in S
  PROVE  /\ Len(s) \in Nat /\ DOMAIN s = 1..Len(s)
         /\ Append(s, e) \in Seq(S) /\ Append(s, e) # <<>>
         /\ Len(Append(s, e)) = Len(s) + 1 /\ DOMAIN Append(s, e) = 1..(Len(s) + 1)
         /\ Append(s, e)[Len(s) + 1] = e
         /\ \A k \in DOMAIN s : Append(s, e)[k] = s[k]
<1>1. Len(s) \in Nat /\ DOMAIN s = 1..Len(s)
  BY LenProperties
<1>2. /\ Append(s, e) \in Seq(S) /\ Append(s, e) # <<>> /\ Len(Append(s, e)) = Len(s) + 1
      /\ \A k \in 1..Len(s) : Append(s, e)[k] = s[k]
      /\ Append(s, e)[Len(s) + 1] = e
  BY AppendProperties
<1>3. DOMAIN Append(s, e) = 1..(Len(s) + 1)
  BY <1>2, LenProperties
<1> QED
  BY <1>1, <1>2, <1>3

------------------------------------------------------------------------------
(* The registry and its rebuilds                                                *)

LEMMA ListedDisk ==
  ASSUME NEW d \in DiskSet, NEW a \in Ids, NEW box \in Boxes \cup {NoBox}, NEW b \in Ids
  PROVE  /\ [d EXCEPT !.box[a] = box] \in DiskSet
         /\ [d EXCEPT !.box[a] = box, !.chosen = b] \in DiskSet /\ [d EXCEPT !.chosen = b] \in DiskSet
BY DEF DiskSet

LEMMA DefaultsTyped ==
  ASSUME NEW box \in Boxes, NEW marked \in BOOLEAN PROVE Defaults(box, marked) \in DiskSet
BY NamesAssumption DEF Defaults, DiskSet

LEMMA RequestTyped == ASSUME RegistryTyped, NEW r \in Requests PROVE request[r] \in RequestSet /\ request[r].id \in Ids
BY DEF RegistryTyped, RequestSet

LEMMA MovesOn ==
  ASSUME RegistryTyped, NEW r \in Requests, NEW at \in Places, request' = [request EXCEPT ![r].at = at]
  PROVE  request' \in [Requests -> RequestSet]
BY DEF RegistryTyped, RequestSet

LEMMA QueueTyped ==
  ASSUME RegistrySound
  PROVE  \A i \in DOMAIN queue : queue[i] \in RebuildSet /\ queue[i].version \in Nat /\ queue[i].by \in Requests
<1>1. queue \in Seq(RebuildSet)
  BY DEF RegistrySound, RegistryTyped
<1>2. DOMAIN queue = 1..Len(queue)
  BY <1>1, LenProperties
<1>3. \A i \in 1..Len(queue) : queue[i] \in RebuildSet
  BY <1>1, ElementOfSeq
<1> QED
  BY <1>2, <1>3 DEF RebuildSet

LEMMA SnapshotTyped ==
  ASSUME RegistrySound, snapshot # <<>>
  PROVE  snapshot[1] \in SnapshotSet /\ snapshot[1].from \in Nat /\ snapshot[1].unhydrated \in BOOLEAN
         /\ snapshot[1].disk \in DiskSet /\ snapshot[1].disk.chosen \in Ids
<1>1. snapshot[1] \in SnapshotSet
  BY TailFacts DEF RegistrySound, RegistryTyped
<1> QED
  BY <1>1 DEF SnapshotSet, DiskSet

(* What a mutation does to the registry and the keychain keeps the invariant.    *)
LEMMA EditsKeep ==
  ASSUME RegistrySound, UNCHANGED rebuild, disk' \in DiskSet, keychain' \in [Ids -> Keys \cup {NoKey}],
         request' \in [Requests -> RequestSet], written' \in {written, written + 1}
  PROVE  RegistrySound' /\ applied' = applied
<1>1. /\ newest' = newest /\ queue' = queue /\ snapshot' = snapshot /\ suspended' = suspended /\ applied' = applied
      /\ written' \in Nat /\ written' >= written
  BY DEF rebuild, RegistrySound, RegistryTyped
<1>2. RegistryTyped'
  BY <1>1 DEF RegistrySound, RegistryTyped
<1>3. snapshot # <<>> => snapshot[1].from \in Nat
  BY SnapshotTyped
<1>4. SnapshotSound' /\ applied' <= written'
  BY <1>1, <1>3 DEF RegistrySound, RegistryTyped, SnapshotSound, Head1
<1> QED
  BY <1>1, <1>2, <1>4 DEF RegistrySound

(* Whoever asks for a rebuild puts it behind the others.                         *)
LEMMA EnqueueKeeps ==
  ASSUME RegistrySound, NEW r \in Requests, Enqueue(r)
  PROVE  /\ newest' = newest + 1 /\ newest' \in Nat /\ queue' \in Seq(RebuildSet) /\ queue' # <<>>
         /\ \A i \in DOMAIN queue' : queue'[i].version <= newest'
         /\ queue # <<>> => Head1' = Head1 /\ Head1.version # newest'
<1> DEFINE entry == [version |-> newest + 1, by |-> r]
<1>1. newest \in Nat /\ queue \in Seq(RebuildSet) /\ \A i \in DOMAIN queue : queue[i].version <= newest
  BY DEF RegistrySound, RegistryTyped
<1>2. newest' = newest + 1 /\ queue' = Append(queue, entry)
  BY DEF Enqueue
<1>3. entry \in RebuildSet /\ entry.version = newest + 1
  BY <1>1 DEF RebuildSet
<1> HIDE DEF entry
<1>4. /\ queue' \in Seq(RebuildSet) /\ queue' # <<>>
      /\ DOMAIN queue = 1..Len(queue) /\ Len(queue) \in Nat /\ DOMAIN queue' = 1..(Len(queue) + 1)
      /\ queue'[Len(queue) + 1] = entry /\ \A i \in DOMAIN queue : queue'[i] = queue[i]
  BY <1>1, <1>2, <1>3, AppendFacts
<1>5. \A i \in DOMAIN queue : queue[i].version \in Nat
  BY QueueTyped
<1>6. \A i \in DOMAIN queue' : queue'[i].version <= newest'
  BY <1>1, <1>2, <1>3, <1>4, <1>5
<1>7. ASSUME queue # <<>> PROVE Head1' = Head1 /\ Head1.version # newest'
  <2>1. Head(queue) = queue[1] /\ 1 \in DOMAIN queue /\ Head(queue') = queue'[1]
    BY <1>1, <1>4, <1>7, TailFacts
  <2> QED
    BY <1>1, <1>2, <1>4, <1>5, <2>1 DEF Head1
<1> QED
  BY <1>1, <1>2, <1>4, <1>6, <1>7

(* A rebuild that is done leaves the queue.                                      *)
LEMMA DequeueKeeps ==
  ASSUME RegistrySound, queue # <<>>
  PROVE  /\ Head1 \in RebuildSet /\ Head1.by \in Requests /\ Head1.version <= newest
         /\ Tail(queue) \in Seq(RebuildSet) /\ \A i \in DOMAIN Tail(queue) : Tail(queue)[i].version <= newest
<1>1. queue \in Seq(RebuildSet) /\ \A i \in DOMAIN queue : queue[i].version <= newest
  BY DEF RegistrySound, RegistryTyped
<1>2. Head1 = queue[1] /\ Head1 \in RebuildSet /\ 1 \in DOMAIN queue
  BY <1>1, TailFacts DEF Head1
<1> QED
  BY <1>1, <1>2, TailFacts DEF RebuildSet

LEMMA RegistryInit == Init => RegistrySound
<1> SUFFICES ASSUME Init PROVE RegistrySound
  OBVIOUS
<1>1. disk \in DiskSet /\ keychain \in [Ids -> Keys \cup {NoKey}]
  BY NamesAssumption DEF Init, DiskSet
<1>2. request \in [Requests -> RequestSet]
  BY NamesAssumption DEF Init, NoRequest, RequestSet, Places
<1>3. newest = 0 /\ queue = <<>> /\ snapshot = <<>> /\ suspended = FALSE /\ written = 0 /\ applied = 0
  BY DEF Init
<1>4. queue \in Seq(RebuildSet) /\ snapshot \in Seq(SnapshotSet) /\ DOMAIN queue = {}
  BY <1>3
<1>5. suspended \in BOOLEAN
  BY <1>3
<1>6. RegistryTyped
  BY <1>1, <1>2, <1>3, <1>4, <1>5 DEF RegistryTyped
<1> QED
  BY <1>3, <1>4, <1>6 DEF RegistrySound, SnapshotSound

LEMMA RegistryStep == RegistrySound /\ [Next]_vars => RegistrySound' /\ applied' >= applied
<1> SUFFICES ASSUME RegistrySound, [Next]_vars PROVE RegistrySound' /\ applied' >= applied
  OBVIOUS
<1>t. RegistryTyped /\ applied \in Nat /\ written \in Nat /\ newest \in Nat /\ applied <= written
  BY DEF RegistrySound, RegistryTyped
<1> DEFINE kept == disk' \in DiskSet /\ keychain' \in [Ids -> Keys \cup {NoKey}]
                   /\ request' \in [Requests -> RequestSet] /\ written' \in {written, written + 1}
<1>e. ASSUME UNCHANGED rebuild, kept PROVE RegistrySound' /\ applied' >= applied
  BY <1>t, <1>e, EditsKeep
<1>1. ASSUME NEW r \in Requests, NEW a \in Ids, NEW key \in Keys, SaveSecret(r, a, key)
      PROVE  UNCHANGED rebuild /\ kept
  BY <1>1, <1>t DEF SaveSecret, RegistryTyped, RequestSet, Places
<1>2. ASSUME NEW r \in Requests, NEW box \in Boxes, Commit(r, box) PROVE UNCHANGED rebuild /\ kept
  BY <1>2, <1>t, RequestTyped, MovesOn, ListedDisk DEF Places, Commit, At, RegistryTyped
<1>3. ASSUME NEW r \in Requests, NEW a \in Ids, Delete(r, a) PROVE UNCHANGED rebuild /\ kept
  <2>1. PICK next \in Ids : disk' = [disk EXCEPT !.box[a] = NoBox, !.chosen = next]
    BY <1>3 DEF Delete, Fallback, Listed
  <2>2. disk' \in DiskSet
    BY <1>t, <2>1, ListedDisk DEF RegistryTyped
  <2>3. /\ UNCHANGED <<keychain, rebuild>> /\ written' = written + 1
        /\ request' = [request EXCEPT ![r] = [at |-> "scrubbing", kind |-> "delete", id |-> a]]
    BY <1>3 DEF Delete
  <2> QED
    BY <1>t, <2>2, <2>3 DEF RegistryTyped, RequestSet, Places
<1>4. ASSUME NEW r \in Requests, NEW a \in Ids, Activate(r, a) PROVE UNCHANGED rebuild /\ kept
  BY <1>4, <1>t, ListedDisk DEF Activate, RegistryTyped, RequestSet, Places
<1>5. ASSUME NEW r \in Requests, Scrub(r) PROVE UNCHANGED rebuild /\ kept
  BY <1>5, <1>t, RequestTyped, MovesOn DEF Places, Scrub, At, RegistryTyped
<1>6. ASSUME NEW r \in Requests, NEW left \in SUBSET Ids, EraseSecrets(r, left) PROVE UNCHANGED rebuild /\ kept
  <2>1. PICK kind \in {"reset", "uncleared"} :
          request' = [request EXCEPT ![r] = [at |-> "clearing", kind |-> kind, id |-> Primary]]
    BY <1>6 DEF EraseSecrets
  <2>2. request' \in [Requests -> RequestSet]
    BY <1>t, <2>1, NamesAssumption DEF RegistryTyped, RequestSet, Places
  <2>3. keychain' \in [Ids -> Keys \cup {NoKey}] /\ UNCHANGED <<disk, written, rebuild>>
    BY <1>6, <1>t DEF EraseSecrets, RegistryTyped
  <2> QED
    BY <1>t, <2>2, <2>3 DEF RegistryTyped
<1>7. ASSUME NEW r \in Requests, Answer(r) \/ (\E a \in Ids : Warm(r, a)) PROVE UNCHANGED rebuild /\ kept
  BY <1>7, <1>t, MovesOn DEF Places, Answer, Warm, At, RegistryTyped, store
<1>8. ASSUME UNCHANGED <<store, request, rebuild>> PROVE RegistrySound' /\ applied' >= applied
  <2>1. UNCHANGED rebuild /\ kept
    BY <1>8, <1>t DEF store, RegistryTyped
  <2> QED
    BY <1>e, <2>1
<1>9. ASSUME NEW r \in Requests, Enqueue(r), request' \in [Requests -> RequestSet], disk' \in DiskSet,
             written' \in {written, written + 1}, UNCHANGED <<keychain, snapshot, suspended, applied>>
      PROVE  RegistrySound' /\ applied' >= applied
  <2>1. RegistryTyped' /\ applied' <= written'
    BY <1>9, <1>t, EnqueueKeeps DEF RegistryTyped
  <2>2. SnapshotSound'
    BY <1>9, <1>t, EnqueueKeeps, SnapshotTyped DEF RegistrySound, SnapshotSound
  <2> QED
    BY <1>9, <1>t, <2>1, <2>2, EnqueueKeeps DEF RegistrySound
<1>10. ASSUME NEW r \in Requests, AskRebuild(r) PROVE RegistrySound' /\ applied' >= applied
  BY <1>9, <1>10, <1>t, MovesOn DEF Places, AskRebuild, At, RegistryTyped, store
<1>11. ASSUME NEW r \in Requests, NEW box \in Boxes, Reset(r, box) PROVE RegistrySound' /\ applied' >= applied
  BY <1>9, <1>11, <1>t, MovesOn, DefaultsTyped DEF Places, Reset, At
<1>12. ASSUME NEW r \in Requests, NEW box \in Boxes, ResetUncleared(r, box) PROVE RegistrySound' /\ applied' >= applied
  <2>1. /\ written' = written + 1 /\ newest' = newest + 1
        /\ applied' = written' /\ UNCHANGED <<keychain, queue, snapshot>>
        /\ request' = [request EXCEPT ![r].at = "answered"]
    BY <1>12 DEF ResetUncleared, At, Apply
  <2>2. RegistryTyped' /\ applied' <= written'
    <3>1. request' \in [Requests -> RequestSet]
      BY <1>t, <2>1, MovesOn DEF Places
    <3>2. suspended' = TRUE /\ disk' = Defaults(box, TRUE)
      BY <1>12 DEF ResetUncleared
    <3>3. suspended' \in BOOLEAN /\ disk' \in DiskSet
      BY <3>2, DefaultsTyped
    <3> QED
      BY <1>t, <2>1, <3>1, <3>3 DEF RegistryTyped
  <2>3. SnapshotSound'
    <3>1. queue # <<>> => Head1.version # newest' /\ Head1' = Head1
      BY <1>t, <2>1, DequeueKeeps DEF Head1, RebuildSet
    <3> QED
      BY <1>t, <2>1, <3>1, SnapshotTyped DEF RegistrySound, SnapshotSound
  <2>4. \A i \in DOMAIN queue' : queue'[i].version <= newest'
    BY <1>t, <2>1, QueueTyped DEF RegistrySound
  <2> QED
    BY <1>t, <2>1, <2>2, <2>3, <2>4 DEF RegistrySound
<1>13. CASE SkipRebuild \/ RebuildFails
  <2>1. /\ queue # <<>> /\ queue' = Tail(queue) /\ snapshot' = <<>>
        /\ UNCHANGED <<store, newest, suspended, applied>>
        /\ \E at \in {"resolved", "failed"} : request' = [request EXCEPT ![Head1.by].at = at]
    BY <1>13 DEF SkipRebuild, RebuildFails, Resolved, RegistrySound, SnapshotSound
  <2>2. request' \in [Requests -> RequestSet]
    <3>1. Head1.by \in Requests
      BY <2>1, DequeueKeeps
    <3> QED
      BY <1>t, <2>1, <3>1, MovesOn DEF Places
  <2> QED
    BY <1>t, <2>1, <2>2, DequeueKeeps DEF RegistrySound, RegistryTyped, SnapshotSound, store
<1>14. CASE ReadAccounts
  <2> DEFINE read == [from |-> written, disk |-> disk, unhydrated |-> suspended \/ disk.marked]
  <2>1. queue # <<>> /\ snapshot' = <<read>> /\ UNCHANGED <<store, request, newest, queue, suspended, applied>>
    BY <1>14 DEF ReadAccounts
  <2>2. /\ (suspended \/ disk.marked) \in BOOLEAN /\ read \in SnapshotSet /\ read.from = written
        /\ (suspended => read.unhydrated)
    BY <1>t DEF RegistryTyped, SnapshotSet, DiskSet
  <2> HIDE DEF read
  <2>3. snapshot' \in Seq(SnapshotSet) /\ snapshot'[1] = read
    BY <2>1, <2>2
  <2>4. RegistryTyped' /\ SnapshotSound'
    BY <1>t, <2>1, <2>2, <2>3 DEF RegistryTyped, SnapshotSound, store
  <2> QED
    BY <1>t, <2>1, <2>4 DEF RegistrySound, store
<1>15. CASE FinishRebuild
  <2>1. /\ snapshot # <<>> /\ queue # <<>> /\ queue' = Tail(queue) /\ snapshot' = <<>>
        /\ UNCHANGED <<store, newest, suspended>>
        /\ request' = [request EXCEPT ![Head1.by].at = "resolved"]
        /\ applied' = applied \/ (applied' = snapshot[1].from /\ Head1.version = newest)
    BY <1>15 DEF FinishRebuild, Resolved, Apply, StillNewest, RegistrySound, SnapshotSound
  <2>2. applied' \in Nat /\ applied' <= written /\ applied' >= applied
    BY <1>t, <2>1, SnapshotTyped DEF RegistrySound, SnapshotSound
  <2>3. request' \in [Requests -> RequestSet]
    <3>1. Head1.by \in Requests
      BY <2>1, DequeueKeeps
    <3> QED
      BY <1>t, <2>1, <3>1, MovesOn DEF Places
  <2> QED
    BY <1>t, <2>1, <2>2, <2>3, DequeueKeeps DEF RegistrySound, RegistryTyped, SnapshotSound, store
<1>16. CASE Edits
  BY <1>16, <1>e, <1>1, <1>2, <1>3, <1>4, <1>5, <1>6, <1>11, <1>12 DEF Edits
<1>17. CASE Endpoints
  BY <1>17, <1>e, <1>7, <1>10 DEF Endpoints
<1>18. CASE Connects \/ Network \/ Readers
  BY <1>18, <1>8 DEF Connects, BeginConnect, BeginRefresh, CleanUp, EndConnect, Network, Drop, Reconnected,
                     Readers, Start, StartFill, Reconnect, Read, ReadFails, Return, Keep
<1>19. CASE UNCHANGED vars
  BY <1>19, <1>8 DEF vars
<1> HIDE DEF kept
<1> QED
  BY <1>13, <1>14, <1>15, <1>16, <1>17, <1>18, <1>19 DEF Next, Rebuilds

(* The manager never goes back to an older configuration than the one it has     *)
(* applied, however many rebuilds are asked for and however slow each read is.   *)
THEOREM RegistryNeverGoesBack == Spec => NewestRegistryWins
<1>1. RegistrySound /\ [Next]_vars => [applied' >= applied]_applied
  BY RegistryStep
<1>2. RegistrySound /\ [Next]_vars => RegistrySound'
  BY RegistryStep
<1> QED
  BY RegistryInit, <1>1, <1>2, PTL DEF Spec, NewestRegistryWins

------------------------------------------------------------------------------
(* The pairs of services                                                        *)

(* What each step does to a pair of services.                                    *)
LEMMA Attempts ==
  /\ NoAttempt \in Attempt /\ NoAttempt.by = "none"
  /\ \A t \in Attempt : t.by \in {"none", "task", "tool"} /\ t.key \in Keys \cup {NoKey}
                       /\ (t.by = "tool" => t.key \in Keys)
BY DEF NoAttempt, Attempt

LEMMA FreshFacts ==
  ASSUME NEW box \in Boxes, NEW key \in Keys \cup {NoKey}
  PROVE  /\ Fresh(box, key) \in Service /\ Fresh(box, key).box = box /\ Fresh(box, key).key = key
         /\ ~Fresh(box, key).idle /\ Fresh(box, key).attempt.by = "none"
BY Attempts DEF Fresh, Service

LEMMA StopIdleFacts ==
  ASSUME NEW s \in Service
  PROVE  /\ StopIdle(s) \in Service /\ ~StopIdle(s).idle
         /\ StopIdle(s).box = s.box /\ StopIdle(s).key = s.key /\ StopIdle(s).client = s.client
         /\ StopIdle(s).config = s.config /\ StopIdle(s).attempt = s.attempt
BY DEF StopIdle, Service

LEMMA DisconnectFacts ==
  ASSUME NEW s \in Service
  PROVE  /\ Disconnect(s) \in Service /\ Disconnect(s).idle = s.idle
         /\ Disconnect(s).box = s.box /\ Disconnect(s).key = s.key /\ Disconnect(s).client = Off
         /\ Disconnect(s).config = s.config /\ Disconnect(s).attempt.by = "none"
BY Attempts DEF Disconnect, Service

LEMMA WipeFacts ==
  ASSUME NEW s \in Service
  PROVE  /\ WipeImap(s) \in Service /\ WipeImap(s).idle = s.idle
         /\ WipeImap(s).box = s.box /\ WipeImap(s).key = s.key /\ WipeImap(s).client = s.client
         /\ WipeImap(s).config = NoKey /\ WipeImap(s).attempt = s.attempt
BY DEF WipeImap, Service

LEMMA RetireFacts ==
  ASSUME NEW s \in Service
  PROVE  /\ Retire(s) \in Service /\ Dead(Retire(s)) /\ Retire(s).box = s.box
<1> DEFINE w == WipeImap(Disconnect(StopIdle(s)))
<1>1. w \in Service /\ ~w.idle /\ w.box = s.box /\ w.client = Off /\ w.config = NoKey /\ w.attempt.by = "none"
  BY StopIdleFacts, DisconnectFacts, WipeFacts
<1>2. Retire(s) = [w EXCEPT !.retired = TRUE, !.key = NoKey]
  BY DEF Retire
<1> HIDE DEF w
<1> QED
  BY <1>1, <1>2 DEF Service, Dead

LEMMA ConnectingFacts ==
  ASSUME NEW s \in Service, NEW by \in {"task", "tool"}, NEW key \in Keys \cup {NoKey},
         by = "tool" => key # NoKey
  PROVE  /\ Connecting(s, by, key) \in Service /\ Connecting(s, by, key).idle = s.idle
         /\ Connecting(s, by, key).box = s.box /\ Connecting(s, by, key).key = s.key
         /\ Connecting(s, by, key).config = key /\ Connecting(s, by, key).attempt.by = by
         /\ Connecting(s, by, key).attempt.key = key
<1>1. [by |-> by, key |-> key] \in Attempt
  BY DEF Attempt
<1> QED
  BY <1>1 DEF Connecting, Service

LEMMA LandedFacts ==
  ASSUME NEW s \in Service, NEW ok \in BOOLEAN, s.attempt.by = "task" /\ ok => s.attempt.key # NoKey
  PROVE  /\ Landed(s, ok) \in Service /\ Landed(s, ok).idle = s.idle
         /\ Landed(s, ok).box = s.box /\ Landed(s, ok).key = s.key /\ Landed(s, ok).config = s.config
         /\ Landed(s, ok).attempt.by # "task"
BY Attempts DEF Landed, Service

(* A service that is put in the place of another, and the tasks of its account.  *)
LEMMA ServeFacts ==
  ASSUME PairsTyped, NEW a \in Ids, NEW i \in DOMAIN services[a], NEW s \in Service, Serve(a, i, s)
  PROVE  /\ services' \in [Ids -> Seq(Service)] /\ DOMAIN services'[a] = DOMAIN services[a]
         /\ Len(services'[a]) = Len(services[a]) /\ services'[a][i] = s
         /\ \A k \in DOMAIN services[a] : k # i => services'[a][k] = services[a][k]
         /\ \A b \in Ids : b # a => services'[b] = services[b]
<1>1. services[a] \in Seq(Service) /\ DOMAIN services[a] = 1..Len(services[a])
  BY LenProperties DEF PairsTyped
<1> DEFINE changed == [services[a] EXCEPT ![i] = s]
<1>2. /\ changed \in Seq(Service) /\ Len(changed) = Len(services[a])
      /\ \A k \in 1..Len(services[a]) : changed[k] = IF k = i THEN s ELSE services[a][k]
  BY <1>1, ExceptSeq
<1>3. DOMAIN changed = 1..Len(services[a])
  BY <1>2, LenProperties
<1>4. services' = [services EXCEPT ![a] = changed]
  BY DEF Serve
<1> HIDE DEF changed
<1> QED
  BY <1>1, <1>2, <1>3, <1>4 DEF PairsTyped

LEMMA ServiceTyped ==
  ASSUME PairsTyped, NEW a \in Ids
  PROVE  /\ services[a] \in Seq(Service) /\ Len(services[a]) \in Nat /\ DOMAIN services[a] = 1..Len(services[a])
         /\ \A i \in DOMAIN services[a] : services[a][i] \in Service
BY LenProperties, ElementOfSeq DEF PairsTyped

LEMMA TasksTyped ==
  ASSUME PairsTyped, NEW a \in Ids
  PROVE  /\ tail[a] \in Seq(Task) /\ Len(tail[a]) \in Nat /\ DOMAIN tail[a] = 1..Len(tail[a])
         /\ \A k \in DOMAIN tail[a] : tail[a][k] \in Task /\ tail[a][k].of \in Nat /\ tail[a][k].epoch \in Nat
         /\ tail[a] # <<>> => Head(tail[a]) = tail[a][1] /\ 1 \in DOMAIN tail[a]
<1>1. tail[a] \in Seq(Task) /\ Len(tail[a]) \in Nat /\ DOMAIN tail[a] = 1..Len(tail[a])
  BY LenProperties DEF PairsTyped
<1>2. \A k \in 1..Len(tail[a]) : tail[a][k] \in Task
  BY <1>1, ElementOfSeq
<1> QED
  BY <1>1, <1>2, TailFacts DEF Task

LEMMA FinishFacts ==
  ASSUME PairsTyped, NEW a \in Ids, tail[a] # <<>>, FinishTask(a)
  PROVE  /\ tail' \in [Ids -> Seq(Task)] /\ epoch' \in [Ids -> Nat]
         /\ DOMAIN tail'[a] = 1..(Len(tail[a]) - 1)
         /\ \A k \in DOMAIN tail'[a] : k + 1 \in DOMAIN tail[a] /\ tail'[a][k] = tail[a][k + 1]
         /\ epoch'[a] = epoch[a] \/ DOMAIN tail'[a] = {}
         /\ \A b \in Ids : b # a => tail'[b] = tail[b] /\ epoch'[b] = epoch[b]
<1>1. tail[a] \in Seq(Task) /\ Len(tail[a]) \in Nat
  BY TasksTyped
<1>2. /\ Tail(tail[a]) \in Seq(Task) /\ DOMAIN Tail(tail[a]) = 1..(Len(tail[a]) - 1)
      /\ \A k \in DOMAIN Tail(tail[a]) : k + 1 \in DOMAIN tail[a] /\ Tail(tail[a])[k] = tail[a][k + 1]
  BY <1>1, TailFacts
<1>3. PICK e \in {0, epoch[a]} : epoch' = [epoch EXCEPT ![a] = e] /\ (e # epoch[a] => Tail(tail[a]) = <<>>)
  BY DEF FinishTask
<1>4. tail' = [tail EXCEPT ![a] = Tail(tail[a])]
  BY DEF FinishTask
<1>5. Tail(tail[a]) = <<>> => DOMAIN Tail(tail[a]) = {}
  BY <1>1
<1> QED
  BY <1>2, <1>3, <1>4, <1>5 DEF PairsTyped

LEMMA MarkFacts ==
  ASSUME PairsTyped, NEW a \in Ids, tail[a] # <<>>, NEW at \in {"queued", "running", "closing"},
         tail' = [tail EXCEPT ![a][1].at = at]
  PROVE  /\ tail' \in [Ids -> Seq(Task)] /\ DOMAIN tail'[a] = DOMAIN tail[a]
         /\ tail'[a][1].at = at /\ tail'[a][1].kind = tail[a][1].kind /\ tail'[a][1].of = tail[a][1].of
         /\ tail'[a][1].epoch = tail[a][1].epoch
         /\ \A k \in DOMAIN tail[a] : k # 1 => tail'[a][k] = tail[a][k]
         /\ \A b \in Ids : b # a => tail'[b] = tail[b]
<1>1. tail[a] \in Seq(Task) /\ DOMAIN tail[a] = 1..Len(tail[a]) /\ 1 \in DOMAIN tail[a] /\ tail[a][1] \in Task
  BY TasksTyped
<1> DEFINE marked == [tail[a][1] EXCEPT !.at = at]
           changed == [tail[a] EXCEPT ![1] = marked]
<1>2. /\ marked \in Task /\ marked.at = at /\ marked.kind = tail[a][1].kind /\ marked.of = tail[a][1].of
      /\ marked.epoch = tail[a][1].epoch
  BY <1>1 DEF Task
<1> HIDE DEF marked
<1>3. /\ changed \in Seq(Task) /\ Len(changed) = Len(tail[a])
      /\ \A k \in 1..Len(tail[a]) : changed[k] = IF k = 1 THEN marked ELSE tail[a][k]
  BY <1>1, <1>2, ExceptSeq
<1>4. DOMAIN changed = 1..Len(tail[a])
  BY <1>3, LenProperties
<1>5. tail' = [tail EXCEPT ![a] = changed]
  BY DEF marked
<1> HIDE DEF changed
<1> QED
  BY <1>1, <1>2, <1>3, <1>4, <1>5 DEF PairsTyped

(* A step of one account's pair leaves the others alone.                         *)
LEMMA OnlyOne ==
  ASSUME PairsSound, NEW a \in Ids, UNCHANGED <<live, active, suspended>>,
         services' \in [Ids -> Seq(Service)], tail' \in [Ids -> Seq(Task)], epoch' \in [Ids -> Nat],
         \A b \in Ids : b # a => services'[b] = services[b] /\ tail'[b] = tail[b] /\ epoch'[b] = epoch[b],
         PairSound(a)'
  PROVE  PairsSound'
<1>1. PairsTyped'
  BY DEF PairsSound, PairsTyped
<1>2. ASSUME NEW b \in Ids, b # a PROVE PairSound(b)'
  <2>1. services'[b] = services[b] /\ tail'[b] = tail[b] /\ epoch'[b] = epoch[b] /\ live'[b] = live[b] /\ PairSound(b)
    BY <1>2 DEF PairsSound
  <2>2. LiveIsLast(b)' /\ OthersDead(b)' /\ IdleKeyed(b)'
    BY <2>1 DEF PairSound, LiveIsLast, OthersDead, IdleKeyed
  <2>3. TasksSound(b)' /\ RefreshOutdates(b)' /\ ClosedNotIdle(b)'
    BY <2>1 DEF PairSound, TasksSound, RefreshOutdates, ClosedNotIdle
  <2>4. AttemptIsCurrent(b)' /\ Keyless(b)'
    BY <2>1 DEF PairSound, AttemptIsCurrent, Keyless, Current
  <2> QED
    BY <2>2, <2>3, <2>4 DEF PairSound
<1> QED
  BY <1>1, <1>2 DEF PairsSound

(* What a pair may become without its tasks.                                     *)
LEMMA ServeKeeps ==
  ASSUME PairsSound, NEW a \in Ids, NEW i \in DOMAIN services[a], NEW s \in Service, Serve(a, i, s),
         UNCHANGED <<live, suspended>>,
         i # live[a] => Dead(s),
         s.idle => s.config = s.key /\ s.key # NoKey,
         s.key \in {NoKey, services[a][i].key}
  PROVE  LiveIsLast(a)' /\ OthersDead(a)' /\ IdleKeyed(a)' /\ Keyless(a)'
<1>1. /\ DOMAIN services'[a] = DOMAIN services[a] /\ Len(services'[a]) = Len(services[a]) /\ services'[a][i] = s
      /\ \A k \in DOMAIN services[a] : k # i => services'[a][k] = services[a][k]
  BY ServeFacts DEF PairsSound
<1>2. LiveIsLast(a) /\ OthersDead(a) /\ IdleKeyed(a) /\ Keyless(a)
  BY DEF PairsSound, PairSound
<1>3. LiveIsLast(a)' /\ OthersDead(a)' /\ IdleKeyed(a)'
  BY <1>1, <1>2 DEF LiveIsLast, OthersDead, IdleKeyed
<1>4. live[a] # 0 => live[a] \in DOMAIN services[a]
  BY <1>2, ServiceTyped DEF LiveIsLast, PairsSound
<1>5. Keyless(a)'
  BY <1>1, <1>2, <1>4 DEF Keyless, Current
<1> QED
  BY <1>3, <1>5

(* The first task is done: those behind it move up.                              *)
LEMMA FinishKeeps ==
  ASSUME PairsSound, NEW a \in Ids, tail[a] # <<>>, FinishTask(a), live' = live,
         DOMAIN services'[a] = DOMAIN services[a],
         \A k \in DOMAIN tail[a] :
           k > 1 /\ tail[a][k].kind = "refresh" => ~services'[a][tail[a][k].of].idle
  PROVE  TasksSound(a)' /\ RefreshOutdates(a)' /\ ClosedNotIdle(a)' /\ AttemptIsCurrent(a)'
<1>1. /\ DOMAIN tail'[a] = 1..(Len(tail[a]) - 1) /\ Len(tail[a]) \in Nat /\ DOMAIN tail[a] = 1..Len(tail[a])
      /\ \A k \in DOMAIN tail'[a] : k + 1 \in DOMAIN tail[a] /\ tail'[a][k] = tail[a][k + 1]
      /\ epoch'[a] = epoch[a] \/ DOMAIN tail'[a] = {}
      /\ tail' \in [Ids -> Seq(Task)]
  BY FinishFacts, TasksTyped DEF PairsSound
<1>2. TasksSound(a) /\ RefreshOutdates(a) /\ ClosedNotIdle(a)
  BY DEF PairsSound, PairSound
<1>3. \A k \in DOMAIN tail'[a] : tail'[a][k].at = "queued"
  BY <1>1, <1>2 DEF TasksSound
<1>4. TasksSound(a)'
  BY <1>1, <1>2, <1>3 DEF TasksSound
<1>5. RefreshOutdates(a)'
  <2> SUFFICES ASSUME NEW k \in DOMAIN tail'[a], NEW l \in DOMAIN tail'[a], l < k, tail'[a][k].kind = "refresh",
                      tail'[a][k].of = live[a], tail'[a][l].kind = "connect"
               PROVE  tail'[a][l].epoch < epoch'[a]
    BY DEF RefreshOutdates
  <2>1. k + 1 \in DOMAIN tail[a] /\ l + 1 \in DOMAIN tail[a] /\ l + 1 < k + 1 /\ epoch'[a] = epoch[a]
        /\ tail'[a][k] = tail[a][k + 1] /\ tail'[a][l] = tail[a][l + 1]
    BY <1>1
  <2> QED
    BY <1>2, <2>1 DEF RefreshOutdates
<1>6. ClosedNotIdle(a)'
  <2> SUFFICES ASSUME NEW k \in DOMAIN tail'[a], tail'[a][k].kind = "refresh" PROVE ~services'[a][tail'[a][k].of].idle
    BY <1>3 DEF ClosedNotIdle
  <2>1. k + 1 \in DOMAIN tail[a] /\ k + 1 > 1 /\ tail'[a][k] = tail[a][k + 1]
    BY <1>1
  <2> QED
    BY <2>1
<1>7. AttemptIsCurrent(a)'
  <2>1. tail'[a] # <<>> => tail'[a][1].at = "queued"
    <3>1. tail'[a] # <<>> => 1 \in DOMAIN tail'[a]
      BY <1>1, EmptySeq, LenProperties
    <3> QED
      BY <1>3, <3>1
  <2> QED
    BY <2>1 DEF AttemptIsCurrent
<1> QED
  BY <1>4, <1>5, <1>6, <1>7

(* The first task begins, or goes over to closing.                               *)
LEMMA MarkKeeps ==
  ASSUME PairsSound, NEW a \in Ids, tail[a] # <<>>, NEW at \in {"running", "closing"},
         tail' = [tail EXCEPT ![a][1].at = at], UNCHANGED <<live, epoch>>,
         DOMAIN services'[a] = DOMAIN services[a],
         \A k \in DOMAIN tail[a] :
           (k > 1 /\ tail[a][k].kind = "refresh") \/ (k = 1 /\ (at = "closing" \/ tail[a][1].kind = "refresh"))
             => ~services'[a][tail[a][k].of].idle
  PROVE  TasksSound(a)' /\ RefreshOutdates(a)' /\ ClosedNotIdle(a)'
<1>1. /\ DOMAIN tail'[a] = DOMAIN tail[a] /\ DOMAIN tail[a] = 1..Len(tail[a]) /\ Len(tail[a]) \in Nat
      /\ tail'[a][1].at = at /\ tail'[a][1].kind = tail[a][1].kind /\ tail'[a][1].of = tail[a][1].of
      /\ tail'[a][1].epoch = tail[a][1].epoch
      /\ \A k \in DOMAIN tail[a] : k # 1 => tail'[a][k] = tail[a][k]
  BY MarkFacts, TasksTyped DEF PairsSound
<1>2. TasksSound(a) /\ RefreshOutdates(a) /\ ClosedNotIdle(a)
  BY DEF PairsSound, PairSound
<1>3. \A k \in DOMAIN tail[a] : /\ tail'[a][k].kind = tail[a][k].kind /\ tail'[a][k].of = tail[a][k].of
                                /\ tail'[a][k].epoch = tail[a][k].epoch
                                /\ k > 1 => tail'[a][k].at = "queued"
  BY <1>1, <1>2 DEF TasksSound
<1>4. TasksSound(a)' /\ RefreshOutdates(a)'
  BY <1>1, <1>2, <1>3 DEF TasksSound, RefreshOutdates
<1>5. ClosedNotIdle(a)'
  BY <1>1, <1>3 DEF ClosedNotIdle
<1> QED
  BY <1>4, <1>5

(* What is known of the first task and its services.                             *)
LEMMA HeadFacts ==
  ASSUME PairsSound, NEW a \in Ids, tail[a] # <<>>
  PROVE  /\ Head(tail[a]) = tail[a][1] /\ tail[a][1].of \in DOMAIN services[a]
         /\ services[a][tail[a][1].of] \in Service /\ tail[a][1] \in Task
         /\ services[a][tail[a][1].of].idle =>
              /\ services[a][tail[a][1].of].config = services[a][tail[a][1].of].key
              /\ services[a][tail[a][1].of].key # NoKey
         /\ tail[a][1].of # live[a] => Dead(services[a][tail[a][1].of])
         /\ tail[a][1].kind = "refresh" \/ tail[a][1].at = "closing" => ~services[a][tail[a][1].of].idle
         /\ \A k \in DOMAIN tail[a] : tail[a][k].kind = "refresh" => ~services[a][tail[a][k].of].idle
<1>1. Head(tail[a]) = tail[a][1] /\ 1 \in DOMAIN tail[a] /\ tail[a][1] \in Task
  BY TasksTyped DEF PairsSound
<1>2. tail[a][1].of \in DOMAIN services[a]
  BY <1>1 DEF PairsSound, PairSound, TasksSound
<1>3. services[a][tail[a][1].of] \in Service
  BY <1>2, ServiceTyped DEF PairsSound
<1> QED
  BY <1>1, <1>2, <1>3 DEF PairsSound, PairSound, IdleKeyed, OthersDead, ClosedNotIdle

(* The first task is done with its services, which are now s.                    *)
LEMMA DoneKeeps ==
  ASSUME PairsSound, NEW a \in Ids, tail[a] # <<>>, NEW s \in Service, Serve(a, tail[a][1].of, s), FinishTask(a),
         UNCHANGED <<live, active, suspended>>,
         tail[a][1].of # live[a] => Dead(s),
         s.idle => s.config = s.key /\ s.key # NoKey,
         s.key \in {NoKey, services[a][tail[a][1].of].key},
         s.idle => services[a][tail[a][1].of].idle
                   \/ \A k \in DOMAIN tail[a] : tail[a][k].kind = "refresh" => tail[a][k].of # tail[a][1].of
  PROVE  PairsSound'
<1> DEFINE i == tail[a][1].of
<1>1. i \in DOMAIN services[a]
  BY HeadFacts
<1>2. /\ services' \in [Ids -> Seq(Service)] /\ DOMAIN services'[a] = DOMAIN services[a] /\ services'[a][i] = s
      /\ \A k \in DOMAIN services[a] : k # i => services'[a][k] = services[a][k]
      /\ \A b \in Ids : b # a => services'[b] = services[b]
  BY <1>1, ServeFacts DEF PairsSound
<1>3. LiveIsLast(a)' /\ OthersDead(a)' /\ IdleKeyed(a)' /\ Keyless(a)'
  BY <1>1, ServeKeeps
<1>4. \A k \in DOMAIN tail[a] : tail[a][k].of \in DOMAIN services[a]
  BY DEF PairsSound, PairSound, TasksSound
<1>5. \A k \in DOMAIN tail[a] : tail[a][k].kind = "refresh" => ~services'[a][tail[a][k].of].idle
  BY <1>2, <1>4, HeadFacts
<1>6. TasksSound(a)' /\ RefreshOutdates(a)' /\ ClosedNotIdle(a)' /\ AttemptIsCurrent(a)'
  BY <1>2, <1>5, FinishKeeps
<1> QED
  BY <1>2, <1>3, <1>6, FinishFacts, OnlyOne DEF PairsSound, PairSound

(* It has begun, or closes its services, which are now s.                        *)
LEMMA GoesOnKeeps ==
  ASSUME PairsSound, NEW a \in Ids, tail[a] # <<>>, NEW s \in Service, Serve(a, tail[a][1].of, s),
         NEW at \in {"running", "closing"}, tail' = [tail EXCEPT ![a][1].at = at],
         UNCHANGED <<epoch, live, active, suspended>>,
         tail[a][1].of # live[a] => Dead(s),
         s.idle => s.config = s.key /\ s.key # NoKey /\ services[a][tail[a][1].of].idle,
         s.key \in {NoKey, services[a][tail[a][1].of].key},
         at = "closing" => ~s.idle,
         at = "running" => s.config = s.key /\ s.attempt.key = s.key
  PROVE  PairsSound'
<1> DEFINE i == tail[a][1].of
<1>1. i \in DOMAIN services[a]
  BY HeadFacts
<1>2. /\ services' \in [Ids -> Seq(Service)] /\ DOMAIN services'[a] = DOMAIN services[a] /\ services'[a][i] = s
      /\ \A k \in DOMAIN services[a] : k # i => services'[a][k] = services[a][k]
      /\ \A b \in Ids : b # a => services'[b] = services[b]
  BY <1>1, ServeFacts DEF PairsSound
<1>3. LiveIsLast(a)' /\ OthersDead(a)' /\ IdleKeyed(a)' /\ Keyless(a)'
  BY <1>1, ServeKeeps
<1>4. \A k \in DOMAIN tail[a] : tail[a][k].of \in DOMAIN services[a]
  BY DEF PairsSound, PairSound, TasksSound
<1>5. \A k \in DOMAIN tail[a] : tail[a][k].kind = "refresh" => ~services'[a][tail[a][k].of].idle
  BY <1>2, <1>4, HeadFacts
<1>6. TasksSound(a)' /\ RefreshOutdates(a)' /\ ClosedNotIdle(a)'
  <2>1. at = "closing" => ~services'[a][tail[a][1].of].idle
    BY <1>2
  <2> QED
    BY <1>2, <1>5, <2>1, MarkKeeps
<1>7. /\ tail' \in [Ids -> Seq(Task)] /\ tail'[a][1].of = i /\ tail'[a][1].at = at
      /\ \A b \in Ids : b # a => tail'[b] = tail[b]
  BY MarkFacts DEF PairsSound
<1>8. AttemptIsCurrent(a)'
  BY <1>2, <1>7 DEF AttemptIsCurrent
<1>9. epoch' \in [Ids -> Nat] /\ \A b \in Ids : b # a => epoch'[b] = epoch[b]
  BY DEF PairsSound, PairsTyped
<1> QED
  BY <1>2, <1>3, <1>6, <1>7, <1>8, <1>9, OnlyOne DEF PairSound

LEMMA BeginConnectKeeps == ASSUME PairsSound, NEW a \in Ids, BeginConnect(a), UNCHANGED suspended PROVE PairsSound'
<1> DEFINE task == tail[a][1]
           s == services[a][task.of]
           new == Connecting(s, "task", s.key)
<1>1. tail[a] # <<>> /\ UNCHANGED <<live, active>>
  BY DEF BeginConnect
<1>2. \/ /\ IsCurrent(a, task) /\ Serve(a, task.of, new)
         /\ tail' = [tail EXCEPT ![a][1].at = "running"] /\ epoch' = epoch
      \/ FinishTask(a) /\ services' = services
  BY <1>1, HeadFacts DEF BeginConnect
<1>3. CASE FinishTask(a) /\ services' = services
  <2>1. TasksSound(a)' /\ RefreshOutdates(a)' /\ ClosedNotIdle(a)' /\ AttemptIsCurrent(a)'
    BY <1>1, <1>3, FinishKeeps, HeadFacts
  <2>2. PairSound(a)'
    BY <1>1, <1>3, <2>1 DEF PairsSound, PairSound, LiveIsLast, OthersDead, IdleKeyed, Keyless, Current, Dead
  <2> QED
    BY <1>1, <1>3, <2>2, FinishFacts, OnlyOne DEF PairsSound, PairsTyped
<1>4. CASE /\ IsCurrent(a, task) /\ Serve(a, task.of, new)
           /\ tail' = [tail EXCEPT ![a][1].at = "running"] /\ epoch' = epoch
  <2>1. s \in Service /\ s.key \in Keys \cup {NoKey} /\ (s.idle => s.key # NoKey)
    BY <1>1, HeadFacts DEF Service
  <2>2. /\ new \in Service /\ new.idle = s.idle /\ new.key = s.key /\ new.config = s.key /\ new.attempt.key = s.key
    BY SMTT(20), <2>1, ConnectingFacts
  <2>3. task.of = live[a]
    BY <1>4 DEF IsCurrent
  <2> HIDE DEF new
  <2> QED
    BY <1>1, <1>4, <2>1, <2>2, <2>3, GoesOnKeeps
<1> QED
  BY <1>2, <1>3, <1>4

(* A connect ends: only that which is current and was not overtaken starts the   *)
(* IDLE loop, and it logged in with the password that the account has.           *)
LEMMA EndConnectKeeps ==
  ASSUME PairsSound, NEW a \in Ids, NEW ok \in BOOLEAN, EndConnect(a, ok), UNCHANGED suspended PROVE PairsSound'
<1> DEFINE task == tail[a][1]
           s == services[a][task.of]
           landed == Landed(s, ok)
           connected == ok /\ s.attempt.by = "task"
<1>1. /\ tail[a] # <<>> /\ UNCHANGED <<live, active>> /\ Head(tail[a]) = task
      /\ task.kind = "connect" /\ task.at = "running" /\ (ok => s.attempt.key # NoKey)
  BY HeadFacts DEF EndConnect, CanLogIn
<1>2. \/ IsCurrent(a, task) /\ Serve(a, task.of, [landed EXCEPT !.idle = @ \/ connected]) /\ FinishTask(a)
      \/ ~StillLive(a, task) /\ Serve(a, task.of, Retire(landed)) /\ FinishTask(a)
      \/ /\ StillLive(a, task) /\ Serve(a, task.of, Disconnect(StopIdle(landed)))
         /\ tail' = [tail EXCEPT ![a][1].at = "closing"] /\ epoch' = epoch
  BY <1>1 DEF EndConnect
<1>3. /\ s \in Service /\ landed \in Service /\ landed.idle = s.idle /\ landed.key = s.key /\ landed.config = s.config
      /\ landed.box = s.box
  BY <1>1, HeadFacts, LandedFacts
<1>4. CASE ~StillLive(a, task) /\ Serve(a, task.of, Retire(landed)) /\ FinishTask(a)
  <2>1. Retire(landed) \in Service /\ Dead(Retire(landed))
    BY <1>3, RetireFacts
  <2> QED
    BY <1>1, <1>4, <2>1, DoneKeeps DEF Dead
<1>5. CASE /\ StillLive(a, task) /\ Serve(a, task.of, Disconnect(StopIdle(landed)))
           /\ tail' = [tail EXCEPT ![a][1].at = "closing"] /\ epoch' = epoch
  <2> DEFINE new == Disconnect(StopIdle(landed))
  <2>1. new \in Service /\ ~new.idle /\ new.key = s.key
    BY SMTT(20), <1>3, StopIdleFacts, DisconnectFacts
  <2>2. task.of = live[a]
    BY <1>5 DEF StillLive
  <2> HIDE DEF new
  <2> QED
    BY <1>1, <1>5, <2>1, <2>2, GoesOnKeeps DEF new
<1>6. CASE IsCurrent(a, task) /\ Serve(a, task.of, [landed EXCEPT !.idle = @ \/ connected]) /\ FinishTask(a)
  <2> DEFINE idle == s.idle \/ connected
             new == [landed EXCEPT !.idle = idle]
  <2>1. connected \in BOOLEAN /\ s.idle \in BOOLEAN
    BY <1>3 DEF Service
  <2>2. idle \in BOOLEAN /\ [landed EXCEPT !.idle = @ \/ connected] = new
    BY <1>3, <2>1
  <2>3. task.of = live[a] /\ task.epoch = epoch[a]
    BY <1>6 DEF IsCurrent
  <2>4. connected => s.config = s.key /\ s.key # NoKey
    BY <1>1, <2>3 DEF PairsSound, PairSound, AttemptIsCurrent
  <2>5. idle => s.config = s.key /\ s.key # NoKey
    BY <1>1, <2>4, HeadFacts
  <2>6. \A k \in DOMAIN tail[a] : tail[a][k].kind = "refresh" => tail[a][k].of # task.of
    <3>1. 1 \in DOMAIN tail[a] /\ \A k \in DOMAIN tail[a] : k # 1 => 1 < k
      BY <1>1, TasksTyped DEF PairsSound
    <3>2. epoch[a] \in Nat
      BY DEF PairsSound, PairsTyped
    <3> QED
      BY <1>1, <2>3, <3>1, <3>2 DEF PairsSound, PairSound, RefreshOutdates
  <2> HIDE DEF idle, landed
  <2>7. new \in Service /\ new.idle = idle /\ new.key = s.key /\ new.config = s.config
    BY <1>3, <2>2 DEF Service
  <2> HIDE DEF new
  <2> QED
    BY <1>1, <1>6, <2>2, <2>3, <2>5, <2>6, <2>7, DoneKeeps
<1> QED
  BY <1>2, <1>4, <1>5, <1>6

LEMMA BeginRefreshKeeps == ASSUME PairsSound, NEW a \in Ids, BeginRefresh(a), UNCHANGED suspended PROVE PairsSound'
<1> DEFINE task == tail[a][1]
           s == services[a][task.of]
<1>1. tail[a] # <<>> /\ UNCHANGED <<live, active>> /\ task.kind = "refresh"
  BY HeadFacts DEF BeginRefresh
<1>2. \/ /\ StillLive(a, task) /\ Serve(a, task.of, Disconnect(s))
         /\ tail' = [tail EXCEPT ![a][1].at = "closing"] /\ epoch' = epoch
      \/ Serve(a, task.of, Retire(s)) /\ FinishTask(a)
  BY <1>1, HeadFacts DEF BeginRefresh
<1>3. s \in Service /\ ~s.idle
  BY <1>1, HeadFacts
<1>4. Retire(s) \in Service /\ Dead(Retire(s))
  BY <1>3, RetireFacts
<1>5. Disconnect(s) \in Service /\ ~Disconnect(s).idle /\ Disconnect(s).key = s.key
  BY <1>3, DisconnectFacts
<1>6. CASE Serve(a, task.of, Retire(s)) /\ FinishTask(a)
  BY <1>1, <1>4, <1>6, DoneKeeps DEF Dead
<1>7. CASE /\ StillLive(a, task) /\ Serve(a, task.of, Disconnect(s))
           /\ tail' = [tail EXCEPT ![a][1].at = "closing"] /\ epoch' = epoch
  <2>1. task.of = live[a]
    BY <1>7 DEF StillLive
  <2> QED
    BY <1>1, <1>5, <1>7, <2>1, GoesOnKeeps
<1> QED
  BY <1>2, <1>6, <1>7

LEMMA CleanUpKeeps == ASSUME PairsSound, NEW a \in Ids, CleanUp(a), UNCHANGED suspended PROVE PairsSound'
<1> DEFINE task == tail[a][1]
           s == services[a][task.of]
<1>1. /\ tail[a] # <<>> /\ UNCHANGED <<live, active>> /\ task.at = "closing"
      /\ Serve(a, task.of, WipeImap(s)) /\ FinishTask(a)
  BY HeadFacts DEF CleanUp
<1>2. s \in Service /\ ~s.idle /\ (task.of # live[a] => Dead(s))
  BY <1>1, HeadFacts
<1>3. WipeImap(s) \in Service /\ ~WipeImap(s).idle /\ WipeImap(s).key = s.key /\ (Dead(s) => Dead(WipeImap(s)))
  BY <1>2, WipeFacts DEF Dead
<1> QED
  BY <1>1, <1>2, <1>3, DoneKeeps

(* Its client comes and goes, but its passwords and the IDLE loop stay.          *)
LEMMA ClientKeeps ==
  ASSUME PairsSound, NEW a \in Ids, NEW i \in DOMAIN services[a], NEW s \in Service, Serve(a, i, s),
         UNCHANGED <<live, active, tail, epoch, suspended>>,
         i # live[a] => Dead(s),
         s.idle = services[a][i].idle, s.config = services[a][i].config, s.key = services[a][i].key,
         s.attempt = services[a][i].attempt \/ s.attempt.by # "task"
  PROVE  PairsSound'
<1>1. /\ services' \in [Ids -> Seq(Service)] /\ DOMAIN services'[a] = DOMAIN services[a] /\ services'[a][i] = s
      /\ \A k \in DOMAIN services[a] : k # i => services'[a][k] = services[a][k]
      /\ \A b \in Ids : b # a => services'[b] = services[b]
  BY ServeFacts DEF PairsSound
<1>2. LiveIsLast(a)' /\ OthersDead(a)' /\ IdleKeyed(a)' /\ Keyless(a)'
  <2>1. s.idle => s.config = s.key /\ s.key # NoKey
    BY DEF PairsSound, PairSound, IdleKeyed
  <2> QED
    BY <2>1, ServeKeeps
<1>3. TasksSound(a)' /\ RefreshOutdates(a)'
  BY <1>1 DEF PairsSound, PairSound, TasksSound, RefreshOutdates
<1>4. \A k \in DOMAIN tail[a] : tail[a][k].of \in DOMAIN services[a]
  BY DEF PairsSound, PairSound, TasksSound
<1>5. ClosedNotIdle(a)'
  BY <1>1, <1>4 DEF PairsSound, PairSound, ClosedNotIdle
<1>6. AttemptIsCurrent(a)'
  <2>1. tail[a] # <<>> => tail[a][1].of \in DOMAIN services[a]
    BY HeadFacts
  <2>2. CASE tail[a][1].of = i
    BY <1>1, <2>2 DEF PairsSound, PairSound, AttemptIsCurrent
  <2>3. CASE tail[a][1].of # i
    BY <1>1, <2>1, <2>3 DEF PairsSound, PairSound, AttemptIsCurrent
  <2> QED
    BY <2>2, <2>3
<1> QED
  BY <1>1, <1>2, <1>3, <1>5, <1>6, OnlyOne DEF PairsSound, PairsTyped, PairSound

LEMMA NetworkKeeps == ASSUME PairsSound, Network, UNCHANGED suspended PROVE PairsSound'
<1>1. ASSUME NEW a \in Ids, NEW i \in DOMAIN services[a], Drop(a, i) PROVE PairsSound'
  <2> DEFINE s == services[a][i]
             new == [s EXCEPT !.client = Off]
  <2>1. s \in Service /\ (i # live[a] => Dead(s))
    BY ServiceTyped DEF PairsSound, PairSound, OthersDead
  <2>2. /\ new \in Service /\ new.idle = s.idle /\ new.config = s.config /\ new.key = s.key /\ new.attempt = s.attempt
        /\ (Dead(s) => Dead(new))
    BY <2>1 DEF Service, Dead
  <2>3. Serve(a, i, new) /\ UNCHANGED <<live, active, tail, epoch>>
    BY <1>1 DEF Drop
  <2> HIDE DEF new
  <2> QED
    BY <2>1, <2>2, <2>3, ClientKeeps
<1>2. ASSUME NEW a \in Ids, NEW i \in DOMAIN services[a], NEW ok \in BOOLEAN, Reconnected(a, i, ok) PROVE PairsSound'
  <2> DEFINE s == services[a][i]
             client == IF ok THEN s.attempt.key ELSE Off
             new == [s EXCEPT !.attempt = NoAttempt, !.client = client]
  <2>1. s \in Service /\ (i # live[a] => Dead(s)) /\ s.attempt.by = "tool"
    BY <1>2, ServiceTyped DEF PairsSound, PairSound, OthersDead, Reconnected
  <2>2. /\ Serve(a, i, new) /\ UNCHANGED <<live, active, tail, epoch>> /\ i = live[a]
    BY <1>2, <2>1 DEF Reconnected, Dead
  <2>3. client \in Keys \cup {Off}
    BY <2>1, Attempts DEF Service
  <2> HIDE DEF client
  <2>4. /\ new.idle = s.idle /\ new.config = s.config /\ new.key = s.key /\ new.attempt.by = "none"
        /\ new \in Service
    BY <2>1, <2>3, Attempts DEF Service
  <2> QED
    BY <2>2, <2>4, ClientKeeps
<1> QED
  BY <1>1, <1>2 DEF Network

LEMMA ReconnectKeeps ==
  ASSUME PairsSound, NEW j, j.id \in Ids, j.of \in DOMAIN services[j.id], Reconnect(j), UNCHANGED suspended
  PROVE  PairsSound'
<1> DEFINE s == services[j.id][j.of]
           new == Connecting(s, "tool", s.config)
<1>1. s \in Service /\ (j.of # live[j.id] => Dead(s))
  BY ServiceTyped DEF PairsSound, PairSound, OthersDead
<1>2. s.config \in Keys \cup {NoKey} /\ s.config # NoKey /\ Serve(j.id, j.of, new)
      /\ UNCHANGED <<live, active, tail, epoch>> /\ j.of = live[j.id]
  BY <1>1 DEF Service, Reconnect, Dead
<1>3. /\ new \in Service /\ new.idle = s.idle /\ new.config = s.config /\ new.key = s.key /\ new.attempt.by = "tool"
  BY SMTT(20), <1>1, <1>2, ConnectingFacts
<1> HIDE DEF new
<1> QED
  BY <1>2, <1>3, ClientKeeps

(* A connect is put behind the tasks there are.                                  *)
LEMMA QueuedKeeps ==
  ASSUME PairsSound, NEW a \in Ids, a \in Live, UNCHANGED <<services, live, epoch, active, suspended>>,
         tail' = [tail EXCEPT ![a] = Append(@, ConnectTask(a))]
  PROVE  PairsSound'
<1> DEFINE task == ConnectTask(a)
           n == Len(tail[a]) + 1
<1>1. live[a] \in Nat /\ epoch[a] \in Nat /\ live[a] \in DOMAIN services[a]
  BY ServiceTyped DEF PairsSound, PairsTyped, PairSound, LiveIsLast, Live
<1>2. task \in Task /\ task.kind = "connect" /\ task.of = live[a] /\ task.epoch = epoch[a] /\ task.at = "queued"
  BY <1>1 DEF ConnectTask, Task
<1> HIDE DEF task
<1>3. tail[a] \in Seq(Task)
  BY TasksTyped DEF PairsSound
<1>4. /\ tail'[a] \in Seq(Task) /\ Len(tail[a]) \in Nat /\ DOMAIN tail[a] = 1..Len(tail[a]) /\ DOMAIN tail'[a] = 1..n
      /\ tail'[a][n] = task /\ \A k \in DOMAIN tail[a] : tail'[a][k] = tail[a][k]
  BY <1>2, <1>3, AppendFacts DEF PairsSound, PairsTyped, task
<1>5. TasksSound(a) /\ RefreshOutdates(a) /\ ClosedNotIdle(a) /\ AttemptIsCurrent(a) /\ PairSound(a)
  BY DEF PairsSound, PairSound
<1>6. TasksSound(a)' /\ RefreshOutdates(a)' /\ ClosedNotIdle(a)'
  <2>1. \A k \in DOMAIN tail'[a] : \/ k \in DOMAIN tail[a] /\ tail'[a][k] = tail[a][k]
                                   \/ k = n /\ tail'[a][k] = task
    BY <1>4
  <2>2. TasksSound(a)' /\ ClosedNotIdle(a)'
    BY <1>1, <1>2, <1>4, <1>5, <2>1 DEF TasksSound, ClosedNotIdle
  <2>3. RefreshOutdates(a)'
    BY <1>2, <1>4, <1>5, <2>1 DEF RefreshOutdates
  <2> QED
    BY <2>2, <2>3
<1>7. AttemptIsCurrent(a)'
  <2>1. CASE tail[a] = <<>>
    <3>1. tail'[a][1].at = "queued"
      BY <1>2, <1>4, <2>1
    <3> QED
      BY <3>1 DEF AttemptIsCurrent
  <2>2. CASE tail[a] # <<>>
    <3>1. 1 \in DOMAIN tail[a]
      BY <2>2, TasksTyped DEF PairsSound
    <3> QED
      BY <1>4, <1>5, <2>2, <3>1 DEF AttemptIsCurrent
  <2> QED
    BY <2>1, <2>2
<1>8. LiveIsLast(a)' /\ OthersDead(a)' /\ IdleKeyed(a)' /\ Keyless(a)'
  BY <1>5 DEF PairSound, LiveIsLast, OthersDead, IdleKeyed, Keyless, Current
<1>9. tail' \in [Ids -> Seq(Task)] /\ \A b \in Ids : b # a => tail'[b] = tail[b]
  BY <1>4 DEF PairsSound, PairsTyped
<1> QED
  BY <1>6, <1>7, <1>8, <1>9, OnlyOne DEF PairSound, PairsSound, PairsTyped

(* What reconciling makes of one pair: another one, none, one with another       *)
(* password, or the same.                                                        *)
Retired(a) == IF a \in Live THEN [services[a] EXCEPT ![live[a]] = Retire(@)] ELSE services[a]

Replaces(a, spec) ==
  /\ Repointed(a, spec) \/ Added(a, spec)
  /\ services'[a] = Append(Retired(a), Fresh(spec.box, spec.key)) /\ live'[a] = Len(services'[a])
  /\ tail'[a] = tail[a] /\ epoch'[a] \in {epoch[a], epoch[a] + 1}
Removes(a, spec) ==
  /\ Removed(a, spec)
  /\ services'[a] = Retired(a) /\ live'[a] = 0
  /\ tail'[a] = tail[a] /\ (epoch'[a] = epoch[a] + 1 \/ (epoch'[a] = 0 /\ tail[a] = <<>>))
Rotates(a, spec) ==
  /\ Rotated(a, spec)
  /\ services'[a] = [services[a] EXCEPT ![live[a]] = [StopIdle(@) EXCEPT !.key = spec.key]] /\ live'[a] = live[a]
  /\ tail'[a] = Append(tail[a], RefreshTask(live[a])) /\ epoch'[a] = epoch[a] + 1
Leaves(a, spec) ==
  /\ ~Repointed(a, spec) /\ ~Removed(a, spec)
  /\ services'[a] = services[a] /\ live'[a] = live[a] /\ tail'[a] = tail[a] /\ epoch'[a] = epoch[a]
  /\ a \in Live => Current(a).key = spec.key

LEMMA LiveFacts ==
  ASSUME PairsSound, NEW a \in Ids
  PROVE  /\ a \in Live <=> live[a] # 0
         /\ a \in Live => /\ live[a] = Len(services[a]) /\ live[a] \in DOMAIN services[a] /\ Current(a) \in Service
                          /\ Current(a).box \in Boxes /\ Current(a).key \in Keys \cup {NoKey}
<1>1. (a \in Live <=> live[a] # 0) /\ (a \in Live => live[a] = Len(services[a]))
  BY DEF PairsSound, PairSound, LiveIsLast, Live
<1>2. a \in Live => live[a] \in DOMAIN services[a]
  BY <1>1, ServiceTyped DEF PairsSound
<1>3. a \in Live => Current(a) \in Service
  BY <1>2, ServiceTyped DEF PairsSound, Current
<1> QED
  BY <1>1, <1>2, <1>3 DEF Service

LEMMA Reconciles ==
  ASSUME PairsSound, NEW specs \in [Ids -> SpecSet], NEW chosen, NEW from, Apply(specs, chosen, from), NEW a \in Ids
  PROVE  \/ Replaces(a, specs[a]) \/ Removes(a, specs[a]) \/ Rotates(a, specs[a]) \/ Leaves(a, specs[a])
<1> DEFINE spec == specs[a]
<1>1. /\ services'[a] = Reconciled(a, spec) /\ epoch'[a] = NextEpoch(a, spec)
      /\ live'[a] = (IF spec.box # NoBox THEN Len(services'[a]) ELSE 0)
      /\ tail'[a] = (IF Rotated(a, spec) THEN Append(tail[a], RefreshTask(live[a])) ELSE tail[a])
  BY DEF Apply
<1>2. a \in Live => live[a] = Len(services[a]) /\ Current(a).box # NoBox
  BY LiveFacts, NamesAssumption
<1>3. CASE Repointed(a, spec) \/ Added(a, spec)
  <2>1. ~Removed(a, spec) /\ ~Rotated(a, spec) /\ spec.box # NoBox
    BY <1>3 DEF Repointed, Added, Removed, Rotated
  <2>2. services'[a] = Append(Retired(a), Fresh(spec.box, spec.key))
    BY <1>1, <1>3 DEF Reconciled, Retired
  <2> QED
    BY <1>1, <1>3, <2>1, <2>2 DEF Replaces, NextEpoch
<1>4. CASE Removed(a, spec)
  <2>1. ~Repointed(a, spec) /\ ~Added(a, spec) /\ ~Rotated(a, spec) /\ spec.box = NoBox
    BY <1>2, <1>4 DEF Repointed, Added, Removed, Rotated
  <2>2. services'[a] = Retired(a)
    BY <1>1, <1>4, <2>1 DEF Reconciled, Retired
  <2> QED
    BY <1>1, <1>4, <2>1, <2>2 DEF Removes, NextEpoch
<1>5. CASE Rotated(a, spec)
  <2>1. ~Repointed(a, spec) /\ ~Added(a, spec) /\ ~Removed(a, spec) /\ spec.box # NoBox
    BY <1>2, <1>5 DEF Repointed, Added, Removed, Rotated
  <2>2. services'[a] = [services[a] EXCEPT ![live[a]] = [StopIdle(@) EXCEPT !.key = spec.key]]
    BY <1>1, <1>5, <2>1 DEF Reconciled
  <2>3. Len(services'[a]) = live[a]
    <3>1. services[a] \in Seq(Service) /\ live[a] \in 1..Len(services[a]) /\ Current(a) \in Service
      BY <1>5, LiveFacts, ServiceTyped DEF Rotated, PairsSound
    <3>2. spec.key \in Keys \cup {NoKey}
      BY DEF SpecSet
    <3>3. [StopIdle(Current(a)) EXCEPT !.key = spec.key] \in Service
      BY <3>1, <3>2, StopIdleFacts DEF Service
    <3> QED
      BY <1>2, <1>5, <2>2, <3>1, <3>3, ExceptSeq DEF Rotated, Current
  <2> QED
    BY <1>1, <1>5, <2>1, <2>2, <2>3 DEF Rotates, NextEpoch
<1>6. CASE ~Repointed(a, spec) /\ ~Added(a, spec) /\ ~Removed(a, spec) /\ ~Rotated(a, spec)
  <2>1. services'[a] = services[a] /\ tail'[a] = tail[a] /\ epoch'[a] = epoch[a]
    BY <1>1, <1>6 DEF Reconciled, NextEpoch
  <2>2. a \in Live => spec.box # NoBox /\ Current(a).key = spec.key
    BY <1>6 DEF Repointed, Removed, Rotated
  <2>3. a \notin Live => spec.box = NoBox /\ live[a] = 0
    BY <1>6, LiveFacts DEF Added
  <2> QED
    BY <1>1, <1>2, <1>6, <2>1, <2>2, <2>3 DEF Leaves
<1> QED
  BY <1>3, <1>4, <1>5, <1>6

LEMMA RetiredFacts ==
  ASSUME PairsSound, NEW a \in Ids
  PROVE  /\ Retired(a) \in Seq(Service) /\ Len(Retired(a)) = Len(services[a]) /\ DOMAIN Retired(a) = DOMAIN services[a]
         /\ \A i \in DOMAIN services[a] : Dead(Retired(a)[i]) /\ Retired(a)[i].box = services[a][i].box
<1>1. services[a] \in Seq(Service) /\ DOMAIN services[a] = 1..Len(services[a])
  BY ServiceTyped DEF PairsSound
<1>2. \A i \in DOMAIN services[a] : i # live[a] => Dead(services[a][i])
  BY DEF PairsSound, PairSound, OthersDead
<1>3. CASE a \in Live
  <2> DEFINE dead == Retire(services[a][live[a]])
  <2>1. live[a] \in 1..Len(services[a]) /\ services[a][live[a]] \in Service
    BY <1>1, <1>3, LiveFacts DEF Current
  <2>2. dead \in Service /\ Dead(dead) /\ dead.box = services[a][live[a]].box
    BY <2>1, RetireFacts
  <2>3. Retired(a) = [services[a] EXCEPT ![live[a]] = dead]
    BY <1>3 DEF Retired
  <2> HIDE DEF dead
  <2>4. /\ Retired(a) \in Seq(Service) /\ Len(Retired(a)) = Len(services[a])
        /\ \A i \in 1..Len(services[a]) : Retired(a)[i] = IF i = live[a] THEN dead ELSE services[a][i]
    BY <1>1, <2>1, <2>2, <2>3, ExceptSeq
  <2>5. DOMAIN Retired(a) = 1..Len(services[a])
    BY <2>4, LenProperties
  <2> QED
    BY <1>1, <1>2, <2>2, <2>4, <2>5
<1>4. CASE a \notin Live
  <2>1. Retired(a) = services[a] /\ live[a] = 0
    BY <1>4, LiveFacts DEF Retired
  <2> QED
    BY <1>1, <1>2, <2>1
<1> QED
  BY <1>3, <1>4

LEMMA ReplacesKeeps ==
  ASSUME PairsSound, NEW a \in Ids, NEW spec \in SpecSet, Replaces(a, spec), suspended' => spec.key = NoKey
  PROVE  /\ PairSound(a)' /\ services'[a] \in Seq(Service) /\ live'[a] \in Nat /\ epoch'[a] \in Nat
         /\ tail'[a] \in Seq(Task) /\ live'[a] \in DOMAIN services'[a] /\ services'[a][live'[a]].box = spec.box
         /\ \A i \in DOMAIN services[a] : i \in DOMAIN services'[a] /\ services'[a][i].box = services[a][i].box
<1> DEFINE n == Len(services[a])
           fresh == Fresh(spec.box, spec.key)
<1>1. spec.box \in Boxes /\ spec.key \in Keys \cup {NoKey}
  BY DEF SpecSet, Replaces, Repointed, Added
<1>2. /\ fresh \in Service /\ fresh.box = spec.box /\ fresh.key = spec.key /\ ~fresh.idle
  BY <1>1, FreshFacts
<1>3. services'[a] = Append(Retired(a), fresh) /\ live'[a] = Len(services'[a]) /\ tail'[a] = tail[a]
      /\ epoch'[a] \in {epoch[a], epoch[a] + 1}
  BY DEF Replaces
<1> HIDE DEF fresh
<1>4. /\ Retired(a) \in Seq(Service) /\ Len(Retired(a)) = n /\ DOMAIN Retired(a) = DOMAIN services[a]
      /\ \A i \in DOMAIN services[a] : Dead(Retired(a)[i]) /\ Retired(a)[i].box = services[a][i].box
  BY RetiredFacts
<1>5. n \in Nat /\ DOMAIN services[a] = 1..n
  BY ServiceTyped DEF PairsSound
<1>6. /\ services'[a] \in Seq(Service) /\ Len(services'[a]) = n + 1 /\ DOMAIN services'[a] = 1..(n + 1)
      /\ services'[a][n + 1] = fresh /\ \A i \in 1..n : services'[a][i] = Retired(a)[i]
  BY <1>2, <1>3, <1>4, <1>5, AppendFacts
<1> HIDE DEF n
<1>7. live'[a] = n + 1 /\ epoch[a] \in Nat /\ epoch'[a] \in Nat /\ epoch'[a] >= epoch[a]
  BY <1>3, <1>6 DEF PairsSound, PairsTyped
<1>8. \A i \in 1..n : Dead(services'[a][i]) /\ services'[a][i].box = services[a][i].box
  BY <1>4, <1>5, <1>6
<1>9. LiveIsLast(a)' /\ OthersDead(a)' /\ IdleKeyed(a)' /\ Keyless(a)'
  <2>1. LiveIsLast(a)' /\ OthersDead(a)'
    BY <1>3, <1>5, <1>6, <1>7, <1>8 DEF LiveIsLast, OthersDead
  <2>2. \A i \in DOMAIN services'[a] : ~services'[a][i].idle
    BY <1>2, <1>5, <1>6, <1>8 DEF Dead
  <2>3. Keyless(a)'
    BY <1>2, <1>6, <1>7 DEF Keyless, Current
  <2> QED
    BY <2>1, <2>2, <2>3 DEF IdleKeyed
<1>10. /\ \A k \in DOMAIN tail[a] : tail[a][k].of \in 1..n /\ tail[a][k].of # n + 1 /\ tail[a][k].epoch <= epoch'[a]
       /\ tail[a] # <<>> => 1 \in DOMAIN tail[a]
  BY SMTT(20), <1>5, <1>7, TasksTyped DEF PairsSound, PairSound, TasksSound
<1>11. TasksSound(a)' /\ RefreshOutdates(a)' /\ ClosedNotIdle(a)' /\ AttemptIsCurrent(a)'
  <2>1. TasksSound(a)'
    BY <1>3, <1>5, <1>6, <1>10 DEF PairsSound, PairSound, TasksSound
  <2>2. RefreshOutdates(a)' /\ AttemptIsCurrent(a)'
    BY <1>3, <1>7, <1>10 DEF RefreshOutdates, AttemptIsCurrent
  <2>3. ClosedNotIdle(a)'
    BY <1>3, <1>8, <1>10 DEF ClosedNotIdle, Dead
  <2> QED
    BY <2>1, <2>2, <2>3
<1>12. tail'[a] \in Seq(Task)
  BY <1>3, TasksTyped DEF PairsSound
<1> QED
  BY <1>2, <1>5, <1>6, <1>7, <1>8, <1>9, <1>11, <1>12 DEF PairSound

LEMMA RemovesKeeps ==
  ASSUME PairsSound, NEW a \in Ids, NEW spec \in SpecSet, Removes(a, spec)
  PROVE  /\ PairSound(a)' /\ services'[a] \in Seq(Service) /\ live'[a] \in Nat /\ epoch'[a] \in Nat
         /\ tail'[a] \in Seq(Task) /\ live'[a] = 0
         /\ \A i \in DOMAIN services[a] : i \in DOMAIN services'[a] /\ services'[a][i].box = services[a][i].box
<1>1. services'[a] = Retired(a) /\ live'[a] = 0 /\ tail'[a] = tail[a]
      /\ (epoch'[a] = epoch[a] + 1 \/ (epoch'[a] = 0 /\ tail[a] = <<>>))
  BY DEF Removes
<1>2. /\ Retired(a) \in Seq(Service) /\ DOMAIN Retired(a) = DOMAIN services[a]
      /\ \A i \in DOMAIN services[a] : Dead(Retired(a)[i]) /\ Retired(a)[i].box = services[a][i].box
  BY RetiredFacts
<1>3. epoch[a] \in Nat /\ epoch'[a] \in Nat /\ tail[a] \in Seq(Task)
  BY <1>1, TasksTyped DEF PairsSound, PairsTyped
<1>4. /\ \A k \in DOMAIN tail[a] : /\ tail[a][k].of \in DOMAIN services[a] /\ tail[a][k].of # 0
                                   /\ tail[a][k].epoch <= epoch'[a]
      /\ tail[a] # <<>> => 1 \in DOMAIN tail[a]
  <2>1. \A k \in DOMAIN tail[a] : tail[a][k].of \in DOMAIN services[a] /\ tail[a][k].epoch <= epoch[a]
    BY DEF PairsSound, PairSound, TasksSound
  <2>2. DOMAIN services[a] = 1..Len(services[a]) /\ Len(services[a]) \in Nat
    BY ServiceTyped DEF PairsSound
  <2>3. \A k \in DOMAIN tail[a] : tail[a][k].epoch \in Nat
    BY TasksTyped DEF PairsSound
  <2>4. tail[a] = <<>> => DOMAIN tail[a] = {}
    OBVIOUS
  <2>5. tail[a] # <<>> => 1 \in DOMAIN tail[a]
    BY TasksTyped DEF PairsSound
  <2> QED
    BY <1>1, <1>3, <2>1, <2>2, <2>3, <2>4, <2>5
<1>5. LiveIsLast(a)' /\ OthersDead(a)' /\ IdleKeyed(a)' /\ Keyless(a)'
  BY <1>1, <1>2 DEF LiveIsLast, OthersDead, IdleKeyed, Keyless, Dead
<1>6. TasksSound(a)'
  BY <1>1, <1>2, <1>4 DEF PairsSound, PairSound, TasksSound
<1>7. RefreshOutdates(a)' /\ AttemptIsCurrent(a)'
  BY <1>1, <1>4 DEF RefreshOutdates, AttemptIsCurrent
<1>8. ClosedNotIdle(a)'
  BY <1>1, <1>2, <1>4 DEF ClosedNotIdle, Dead
<1> QED
  BY <1>1, <1>2, <1>3, <1>5, <1>6, <1>7, <1>8 DEF PairSound

LEMMA RotatesKeeps ==
  ASSUME PairsSound, NEW a \in Ids, NEW spec \in SpecSet, Rotates(a, spec), suspended' => spec.key = NoKey
  PROVE  /\ PairSound(a)' /\ services'[a] \in Seq(Service) /\ live'[a] \in Nat /\ epoch'[a] \in Nat
         /\ tail'[a] \in Seq(Task) /\ live'[a] = live[a] /\ a \in Live
         /\ \A i \in DOMAIN services[a] : i \in DOMAIN services'[a] /\ services'[a][i].box = services[a][i].box
<1> DEFINE i == live[a]
           n == Len(tail[a]) + 1
           s == [StopIdle(services[a][i]) EXCEPT !.key = spec.key]
           task == RefreshTask(i)
<1>1. services'[a] = [services[a] EXCEPT ![i] = s] /\ live'[a] = i /\ tail'[a] = Append(tail[a], task)
      /\ epoch'[a] = epoch[a] + 1 /\ a \in Live
  BY DEF Rotates, Rotated
<1>2. services[a] \in Seq(Service) /\ DOMAIN services[a] = 1..Len(services[a]) /\ i \in 1..Len(services[a])
      /\ i = Len(services[a]) /\ services[a][i] \in Service
  BY <1>1, LiveFacts, ServiceTyped DEF PairsSound
<1>3. s \in Service /\ ~s.idle /\ s.box = services[a][i].box /\ s.key = spec.key
  <2>1. spec.key \in Keys \cup {NoKey}
    BY DEF SpecSet
  <2>2. StopIdle(services[a][i]) \in Service /\ ~StopIdle(services[a][i]).idle
        /\ StopIdle(services[a][i]).box = services[a][i].box
    BY <1>2, StopIdleFacts
  <2> QED
    BY <2>1, <2>2 DEF Service
<1> HIDE DEF s
<1>4. /\ services'[a] \in Seq(Service) /\ Len(services'[a]) = Len(services[a])
      /\ \A k \in 1..Len(services[a]) : services'[a][k] = IF k = i THEN s ELSE services[a][k]
  BY <1>1, <1>2, <1>3, ExceptSeq
<1>5. DOMAIN services'[a] = DOMAIN services[a]
  BY <1>2, <1>4, LenProperties
<1>6. task \in Task /\ task.kind = "refresh" /\ task.of = i /\ task.epoch = 0 /\ task.at = "queued"
  BY <1>2 DEF RefreshTask, Task
<1> HIDE DEF task
<1>7. /\ tail'[a] \in Seq(Task) /\ Len(tail[a]) \in Nat /\ DOMAIN tail[a] = 1..Len(tail[a]) /\ DOMAIN tail'[a] = 1..n
      /\ tail'[a][n] = task /\ \A k \in DOMAIN tail[a] : tail'[a][k] = tail[a][k]
  BY <1>1, <1>6, TasksTyped, AppendFacts DEF PairsSound
<1>8. epoch[a] \in Nat /\ epoch'[a] \in Nat
  BY <1>1 DEF PairsSound, PairsTyped
<1>9. LiveIsLast(a)' /\ OthersDead(a)' /\ IdleKeyed(a)' /\ Keyless(a)'
  <2>1. LiveIsLast(a)' /\ OthersDead(a)' /\ IdleKeyed(a)'
    BY <1>1, <1>2, <1>3, <1>4, <1>5 DEF PairsSound, PairSound, LiveIsLast, OthersDead, IdleKeyed
  <2>2. Keyless(a)'
    BY <1>1, <1>2, <1>3, <1>4 DEF Keyless, Current
  <2> QED
    BY <2>1, <2>2
<1>10. \A k \in DOMAIN tail'[a] : \/ k \in DOMAIN tail[a] /\ tail'[a][k] = tail[a][k]
                                  \/ k = n /\ tail'[a][k] = task
  BY <1>7
<1>11. \A k \in DOMAIN tail[a] : /\ tail[a][k].of \in DOMAIN services[a] /\ tail[a][k].epoch \in Nat
                                 /\ tail[a][k].epoch <= epoch[a] /\ (k > 1 => tail[a][k].at = "queued")
  BY TasksTyped DEF PairsSound, PairSound, TasksSound
<1>12. \A k \in DOMAIN services[a] : services'[a][k].idle => services[a][k].idle /\ k # i
  BY <1>2, <1>3, <1>4
<1>13. TasksSound(a)'
  BY <1>1, <1>2, <1>5, <1>6, <1>8, <1>10, <1>11 DEF TasksSound
<1>14. RefreshOutdates(a)'
  BY <1>1, <1>6, <1>7, <1>8, <1>10, <1>11 DEF RefreshOutdates
<1>15. ClosedNotIdle(a)'
  BY <1>2, <1>6, <1>10, <1>11, <1>12 DEF PairsSound, PairSound, ClosedNotIdle
<1>16. AttemptIsCurrent(a)'
  <2>1. 1 \in DOMAIN tail'[a] /\ tail'[a][1].epoch \in Nat /\ tail'[a][1].epoch <= epoch[a]
    BY <1>6, <1>7, <1>8, <1>10, <1>11
  <2> QED
    BY <1>1, <1>8, <2>1 DEF AttemptIsCurrent
<1>17. \A k \in DOMAIN services[a] : services'[a][k].box = services[a][k].box
  BY <1>2, <1>3, <1>4
<1> QED
  BY <1>1, <1>2, <1>4, <1>5, <1>7, <1>8, <1>9, <1>13, <1>14, <1>15, <1>16, <1>17 DEF PairSound

LEMMA LeavesKeeps ==
  ASSUME PairsSound, NEW a \in Ids, NEW spec \in SpecSet, Leaves(a, spec), suspended' => spec.key = NoKey
  PROVE  /\ PairSound(a)' /\ services'[a] \in Seq(Service) /\ live'[a] \in Nat /\ epoch'[a] \in Nat
         /\ tail'[a] \in Seq(Task)
<1>1. services'[a] = services[a] /\ live'[a] = live[a] /\ tail'[a] = tail[a] /\ epoch'[a] = epoch[a]
      /\ (a \in Live => Current(a).key = spec.key) /\ PairSound(a)
  BY DEF Leaves, PairsSound
<1>2. LiveIsLast(a)' /\ OthersDead(a)' /\ IdleKeyed(a)'
  BY <1>1 DEF PairSound, LiveIsLast, OthersDead, IdleKeyed
<1>3. TasksSound(a)' /\ RefreshOutdates(a)' /\ ClosedNotIdle(a)'
  BY <1>1 DEF PairSound, TasksSound, RefreshOutdates, ClosedNotIdle
<1>4. AttemptIsCurrent(a)'
  BY <1>1 DEF PairSound, AttemptIsCurrent
<1>5. Keyless(a)'
  BY <1>1, LiveFacts DEF Keyless, Current
<1>6. services[a] \in Seq(Service) /\ live[a] \in Nat /\ epoch[a] \in Nat /\ tail[a] \in Seq(Task)
  BY ServiceTyped, TasksTyped DEF PairsSound, PairsTyped
<1> QED
  BY <1>1, <1>2, <1>3, <1>4, <1>5, <1>6 DEF PairSound

LEMMA ApplyKeeps ==
  ASSUME PairsSound, NEW specs \in [Ids -> SpecSet], NEW chosen, NEW from, Apply(specs, chosen, from),
         suspended' => \A a \in Ids : specs[a].key = NoKey, chosen \in Ids
  PROVE  PairsSound'
<1>1. ASSUME NEW a \in Ids
      PROVE  /\ PairSound(a)' /\ services'[a] \in Seq(Service) /\ live'[a] \in Nat /\ epoch'[a] \in Nat
             /\ tail'[a] \in Seq(Task)
  <2>1. specs[a] \in SpecSet /\ (suspended' => specs[a].key = NoKey)
    OBVIOUS
  <2> QED
    BY <2>1, Reconciles, ReplacesKeeps, RemovesKeeps, RotatesKeeps, LeavesKeeps
<1>2. /\ services' = [a \in Ids |-> services'[a]] /\ live' = [a \in Ids |-> live'[a]]
      /\ epoch' = [a \in Ids |-> epoch'[a]] /\ tail' = [a \in Ids |-> tail'[a]]
  BY DEF Apply
<1>3. active' \in Ids
  BY DEF Apply, Fallback
<1>4. PairsTyped'
  BY <1>1, <1>2, <1>3 DEF PairsTyped
<1> QED
  BY <1>1, <1>4 DEF PairsSound

LEMMA PairsInit == Init => PairsSound
<1> SUFFICES ASSUME Init PROVE PairsSound
  OBVIOUS
<1>1. PICK accounts \in SUBSET Ids, box \in Boxes, key \in Keys :
        /\ live = [a \in Ids |-> IF a \in accounts THEN 1 ELSE 0]
        /\ services = [a \in Ids |-> IF a \in accounts THEN <<Fresh(box, key)>> ELSE <<>>]
  BY ZenonT(40) DEF Init
<1>2. Fresh(box, key) \in Service /\ ~Fresh(box, key).idle
  BY FreshFacts
<1>3. tail = [a \in Ids |-> <<>>] /\ epoch = [a \in Ids |-> 0] /\ active \in Ids /\ suspended = FALSE
  BY NamesAssumption DEF Init
<1>4. PairsTyped
  BY <1>1, <1>2, <1>3 DEF PairsTyped
<1>5. ASSUME NEW a \in Ids PROVE PairSound(a)
  <2>1. tail[a] = <<>> /\ DOMAIN tail[a] = {}
    BY <1>3
  <2>2. CASE a \in accounts
    <3>1. services[a] = <<Fresh(box, key)>> /\ live[a] = 1
      BY <1>1, <2>2
    <3>2. Len(services[a]) = 1 /\ DOMAIN services[a] = {1} /\ services[a][1] = Fresh(box, key)
      BY <3>1
    <3> QED
      BY <1>2, <1>3, <2>1, <3>1, <3>2 DEF PairSound, LiveIsLast, OthersDead, IdleKeyed, TasksSound, RefreshOutdates,
                                          ClosedNotIdle, AttemptIsCurrent, Keyless
  <2>3. CASE a \notin accounts
    <3>1. services[a] = <<>> /\ live[a] = 0
      BY <1>1, <2>3
    <3>2. DOMAIN services[a] = {}
      BY <3>1
    <3> QED
      BY <1>3, <2>1, <3>1, <3>2 DEF PairSound, LiveIsLast, OthersDead, IdleKeyed, TasksSound, RefreshOutdates,
                                    ClosedNotIdle, AttemptIsCurrent, Keyless
  <2> QED
    BY <2>2, <2>3
<1> QED
  BY <1>4, <1>5 DEF PairsSound

(* What a rebuild applies has no passwords when these are suspended.             *)
LEMMA SpecsFacts ==
  ASSUME NEW d \in DiskSet, NEW plain \in BOOLEAN, RegistryTyped
  PROVE  Specs(d, plain) \in [Ids -> SpecSet] /\ (plain => \A a \in Ids : Specs(d, plain)[a].key = NoKey)
BY DEF Specs, SpecSet, DiskSet, RegistryTyped

LEMMA FinishRebuildApplies ==
  ASSUME RegistrySound, FinishRebuild
  PROVE  /\ suspended' = suspended
         /\ \/ UNCHANGED <<services, live, epoch, tail, active, runtime, applied>>
            \/ \E specs \in [Ids -> SpecSet] : \E chosen \in Ids : \E from \in Nat :
                 /\ suspended => \A a \in Ids : specs[a].key = NoKey
                 /\ Apply(specs, chosen, from)
<1> DEFINE read == snapshot[1]
           specs == Specs(read.disk, read.unhydrated)
<1>1. /\ snapshot # <<>> /\ suspended' = suspended
      /\ \/ UNCHANGED <<services, live, epoch, tail, active, runtime, applied>>
         \/ Head1.version = newest /\ Apply(specs, read.disk.chosen, read.from)
  BY DEF FinishRebuild, StillNewest
<1>2. read.unhydrated \in BOOLEAN /\ read.disk \in DiskSet /\ read.disk.chosen \in Ids /\ read.from \in Nat
  BY <1>1, SnapshotTyped
<1>3. specs \in [Ids -> SpecSet] /\ (read.unhydrated => \A a \in Ids : specs[a].key = NoKey)
  BY <1>2, SpecsFacts DEF RegistrySound
<1>4. Head1.version = newest /\ suspended => read.unhydrated
  BY <1>1 DEF RegistrySound, SnapshotSound
<1> HIDE DEF specs
<1> QED
  BY <1>1, <1>2, <1>3, <1>4

LEMMA ResetUnclearedApplies ==
  ASSUME NEW r, NEW box \in Boxes, ResetUncleared(r, box)
  PROVE  \E specs \in [Ids -> SpecSet] : \E chosen \in Ids :
           (\A a \in Ids : specs[a].key = NoKey) /\ Apply(specs, chosen, written')
<1> DEFINE specs == [a \in Ids |-> [box |-> disk'.box[a], key |-> NoKey]]
<1>1. Apply(specs, Primary, written') /\ disk' = Defaults(box, TRUE)
  BY DEF ResetUncleared
<1>2. \A a \in Ids : disk'.box[a] \in Boxes \cup {NoBox}
  <2>1. disk' \in DiskSet
    BY <1>1, DefaultsTyped
  <2> QED
    BY <2>1 DEF DiskSet
<1>3. specs \in [Ids -> SpecSet] /\ \A a \in Ids : specs[a].key = NoKey
  BY <1>2 DEF SpecSet
<1> HIDE DEF specs
<1> QED
  BY <1>1, <1>3, NamesAssumption

LEMMA PairsStep == RegistrySound /\ PairsSound /\ ReadersSound /\ [Next]_vars => PairsSound'
<1> SUFFICES ASSUME RegistrySound, PairsSound, ReadersSound, [Next]_vars PROVE PairsSound'
  OBVIOUS
<1>1. ASSUME UNCHANGED <<pairs, suspended>> PROVE PairsSound'
  <2>1. \A a \in Ids : PairSound(a)'
    <3> TAKE a \in Ids
    <3>1. UNCHANGED <<services, live, epoch, tail, suspended>> /\ PairSound(a)
      BY <1>1 DEF pairs, PairsSound
    <3> QED
      BY <3>1 DEF PairSound, LiveIsLast, OthersDead, IdleKeyed, TasksSound, RefreshOutdates,
                  ClosedNotIdle, AttemptIsCurrent, Keyless, Current
  <2> QED
    BY <1>1, <2>1 DEF pairs, PairsSound, PairsTyped
<1>2. CASE Edits
  <2>1. ASSUME NEW r \in Requests, NEW box \in Boxes, ResetUncleared(r, box) PROVE PairsSound'
    <3>1. PICK specs \in [Ids -> SpecSet], chosen \in Ids :
            (\A a \in Ids : specs[a].key = NoKey) /\ Apply(specs, chosen, written')
      BY <2>1, ResetUnclearedApplies
    <3> QED
      BY <3>1, ApplyKeeps
  <2>2. (\E r \in Requests, box \in Boxes : ResetUncleared(r, box)) \/ UNCHANGED <<pairs, suspended>>
    BY <1>2 DEF Edits, SaveSecret, Commit, Delete, Scrub, Activate, EraseSecrets, Reset, rebuild
  <2> QED
    BY <1>1, <2>1, <2>2
<1>3. CASE Endpoints
  <2>1. ASSUME NEW r \in Requests, Answer(r) PROVE PairsSound'
    <3>1. UNCHANGED <<services, live, epoch, active, suspended>>
      BY <2>1 DEF Answer, rebuild
    <3>2. CASE request[r].id \in Live /\ tail' = [tail EXCEPT ![request[r].id] = Append(@, ConnectTask(request[r].id))]
      <4>1. request[r].id \in Ids
        BY RequestTyped DEF RegistrySound
      <4> QED
        BY <3>1, <3>2, <4>1, QueuedKeeps
    <3>3. CASE tail' = tail
      BY <1>1, <3>1, <3>3 DEF pairs
    <3> QED
      BY <2>1, <3>2, <3>3 DEF Answer
  <2>2. ASSUME NEW r \in Requests, NEW a \in Ids, Warm(r, a) PROVE PairsSound'
    BY <2>2, QueuedKeeps DEF Warm, rebuild
  <2>3. ASSUME NEW r \in Requests, AskRebuild(r) PROVE PairsSound'
    BY <1>1, <2>3 DEF AskRebuild
  <2> QED
    BY <1>3, <2>1, <2>2, <2>3 DEF Endpoints
<1>4. CASE FinishRebuild
  <2>1. suspended' = suspended
    BY <1>4, FinishRebuildApplies
  <2>2. ASSUME UNCHANGED <<services, live, epoch, tail, active>> PROVE PairsSound'
    BY <1>1, <2>1, <2>2 DEF pairs
  <2>3. ASSUME NEW specs \in [Ids -> SpecSet], NEW chosen \in Ids, NEW from \in Nat,
               suspended => \A a \in Ids : specs[a].key = NoKey, Apply(specs, chosen, from)
        PROVE  PairsSound'
    BY <2>1, <2>3, ApplyKeeps
  <2> QED
    BY <1>4, <2>2, <2>3, FinishRebuildApplies
<1>5. CASE SkipRebuild \/ ReadAccounts \/ RebuildFails
  BY <1>1, <1>5 DEF SkipRebuild, ReadAccounts, RebuildFails
<1>6. CASE Connects
  <2>1. suspended' = suspended
    BY <1>6 DEF Connects, BeginConnect, BeginRefresh, CleanUp, EndConnect, rebuild
  <2> QED
    BY <1>6, <2>1, BeginConnectKeeps, BeginRefreshKeeps, CleanUpKeeps, EndConnectKeeps DEF Connects
<1>7. CASE Network
  <2>1. suspended' = suspended
    BY <1>7 DEF Network, Drop, Reconnected, rebuild
  <2> QED
    BY <1>7, <2>1, NetworkKeeps
<1>8. CASE Readers
  <2>1. ASSUME NEW j \in jobs, Reconnect(j) PROVE PairsSound'
    <3>1. j.id \in Ids /\ j.of \in DOMAIN services[j.id]
      BY DEF ReadersSound, ReadersTyped, ReaderSound, Work
    <3> QED
      BY <2>1, <3>1, ReconnectKeeps DEF Reconnect, rebuild
  <2>2. (\E j \in jobs : Reconnect(j)) \/ UNCHANGED <<pairs, suspended>>
    BY <1>8 DEF Readers, Start, StartFill, Read, ReadFails, Return, Keep, rebuild
  <2> QED
    BY <1>1, <2>1, <2>2
<1>9. CASE UNCHANGED vars
  BY <1>1, <1>9 DEF vars, rebuild
<1> QED
  BY <1>2, <1>3, <1>4, <1>5, <1>6, <1>7, <1>8, <1>9 DEF Next, Rebuilds

------------------------------------------------------------------------------
(* The readers of mail                                                          *)

LEMMA ReadersInit == Init => ReadersSound
<1> SUFFICES ASSUME Init PROVE ReadersSound
  OBVIOUS
<1>1. runtime = [a \in Ids |-> NewRuntime] /\ jobs = {} /\ misserved = FALSE
  BY DEF Init
<1>2. NewRuntime \in RuntimeSet /\ NewRuntime.derived = {}
  BY DEF NewRuntime, RuntimeSet
<1>3. misserved \in BOOLEAN /\ ~misserved
  BY <1>1
<1> QED
  BY <1>1, <1>2, <1>3 DEF ReadersSound, ReadersTyped

(* A service keeps its mailbox whatever a connection does.                       *)
SameBoxes ==
  /\ live' = live
  /\ \A a \in Ids : /\ DOMAIN services'[a] = DOMAIN services[a]
                    /\ \A i \in DOMAIN services[a] : services'[a][i].box = services[a][i].box

LEMMA ServesSameBox ==
  ASSUME PairsTyped, NEW a \in Ids, NEW i \in DOMAIN services[a], NEW s \in Service, Serve(a, i, s),
         s.box = services[a][i].box, live' = live
  PROVE  SameBoxes
<1>1. /\ DOMAIN services'[a] = DOMAIN services[a] /\ services'[a][i] = s
      /\ \A k \in DOMAIN services[a] : k # i => services'[a][k] = services[a][k]
      /\ \A b \in Ids : b # a => services'[b] = services[b]
  BY ServeFacts
<1> QED
  BY <1>1 DEF SameBoxes

LEMMA ConnectsSameBox == ASSUME PairsSound, Connects PROVE SameBoxes
<1> USE DEF PairsSound
<1>1. ASSUME NEW a \in Ids, tail[a] # <<>>, NEW s \in Service, Serve(a, tail[a][1].of, s),
             s.box = services[a][tail[a][1].of].box, live' = live
      PROVE  SameBoxes
  BY <1>1, HeadFacts, ServesSameBox
<1>2. ASSUME UNCHANGED <<services, live>> PROVE SameBoxes
  BY <1>2 DEF SameBoxes
<1>3. ASSUME NEW a \in Ids, BeginConnect(a) PROVE SameBoxes
  <2> DEFINE s == services[a][tail[a][1].of]
             new == Connecting(s, "task", s.key)
  <2>1. tail[a] # <<>> /\ live' = live /\ (services' = services \/ Serve(a, tail[a][1].of, new))
    BY <1>3, HeadFacts DEF BeginConnect
  <2>2. s \in Service /\ s.key \in Keys \cup {NoKey}
    BY <2>1, HeadFacts DEF Service
  <2>3. new \in Service /\ new.box = s.box
    BY <2>2, ConnectingFacts
  <2> HIDE DEF new
  <2> QED
    BY <1>1, <1>2, <2>1, <2>3
<1>4. ASSUME NEW a \in Ids, BeginRefresh(a) PROVE SameBoxes
  <2> DEFINE s == services[a][tail[a][1].of]
  <2>1. tail[a] # <<>> /\ live' = live
        /\ (Serve(a, tail[a][1].of, Disconnect(s)) \/ Serve(a, tail[a][1].of, Retire(s)))
    BY <1>4, HeadFacts DEF BeginRefresh
  <2>2. s \in Service
    BY <2>1, HeadFacts
  <2>3. Disconnect(s) \in Service /\ Disconnect(s).box = s.box /\ Retire(s) \in Service /\ Retire(s).box = s.box
    BY <2>2, DisconnectFacts, RetireFacts
  <2> QED
    BY <1>1, <2>1, <2>3
<1>5. ASSUME NEW a \in Ids, CleanUp(a) PROVE SameBoxes
  <2> DEFINE s == services[a][tail[a][1].of]
  <2>1. tail[a] # <<>> /\ live' = live /\ Serve(a, tail[a][1].of, WipeImap(s))
    BY <1>5, HeadFacts DEF CleanUp
  <2>2. WipeImap(s) \in Service /\ WipeImap(s).box = s.box
    BY <2>1, HeadFacts, WipeFacts
  <2> QED
    BY <1>1, <2>1, <2>2
<1>6. ASSUME NEW a \in Ids, NEW ok \in BOOLEAN, EndConnect(a, ok) PROVE SameBoxes
  <2> DEFINE s == services[a][tail[a][1].of]
             landed == Landed(s, ok)
             idle == s.idle \/ (ok /\ s.attempt.by = "task")
             begun == [landed EXCEPT !.idle = idle]
  <2>1. tail[a] # <<>> /\ live' = live /\ (ok => s.attempt.key # NoKey) /\ Head(tail[a]) = tail[a][1]
    BY <1>6, HeadFacts DEF EndConnect, CanLogIn
  <2>2. s \in Service /\ landed \in Service /\ landed.box = s.box /\ landed.idle = s.idle
    BY <2>1, HeadFacts, LandedFacts
  <2>3. idle \in BOOLEAN /\ [landed EXCEPT !.idle = @ \/ (ok /\ s.attempt.by = "task")] = begun
    BY <2>2 DEF Service
  <2>4. \/ Serve(a, tail[a][1].of, begun) \/ Serve(a, tail[a][1].of, Retire(landed))
        \/ Serve(a, tail[a][1].of, Disconnect(StopIdle(landed)))
    BY <1>6, <2>1, <2>3 DEF EndConnect
  <2> HIDE DEF landed, idle
  <2>5. begun \in Service /\ begun.box = s.box
    BY <2>2, <2>3 DEF Service
  <2>6. Retire(landed) \in Service /\ Retire(landed).box = s.box
    BY <2>2, RetireFacts
  <2>7. Disconnect(StopIdle(landed)) \in Service /\ Disconnect(StopIdle(landed)).box = s.box
    BY <2>2, StopIdleFacts, DisconnectFacts
  <2> HIDE DEF begun
  <2> QED
    BY <1>1, <2>1, <2>4, <2>5, <2>6, <2>7
<1> QED
  BY <1>3, <1>4, <1>5, <1>6 DEF Connects

LEMMA NetworkSameBox == ASSUME PairsSound, Network PROVE SameBoxes
<1>1. ASSUME NEW a \in Ids, NEW i \in DOMAIN services[a], Drop(a, i) PROVE SameBoxes
  <2> DEFINE new == [services[a][i] EXCEPT !.client = Off]
  <2>1. services[a][i] \in Service
    BY ServiceTyped DEF PairsSound
  <2>2. new \in Service /\ new.box = services[a][i].box
    BY <2>1 DEF Service
  <2>3. Serve(a, i, new) /\ live' = live
    BY <1>1 DEF Drop
  <2> HIDE DEF new
  <2> QED
    BY <2>2, <2>3, ServesSameBox DEF PairsSound
<1>2. ASSUME NEW a \in Ids, NEW i \in DOMAIN services[a], NEW ok \in BOOLEAN, Reconnected(a, i, ok) PROVE SameBoxes
  <2> DEFINE s == services[a][i]
             client == IF ok THEN s.attempt.key ELSE Off
             new == [s EXCEPT !.attempt = NoAttempt, !.client = client]
  <2>1. s \in Service /\ s.attempt.by = "tool"
    BY <1>2, ServiceTyped DEF PairsSound, Reconnected
  <2>2. client \in Keys \cup {Off}
    BY <2>1, Attempts DEF Service
  <2>3. Serve(a, i, new) /\ live' = live
    BY <1>2 DEF Reconnected
  <2> HIDE DEF client
  <2>4. new \in Service /\ new.box = s.box
    BY <2>1, <2>2, Attempts DEF Service
  <2> HIDE DEF new
  <2> QED
    BY <2>3, <2>4, ServesSameBox DEF PairsSound
<1> QED
  BY <1>1, <1>2 DEF Network

LEMMA ReconnectSameBox ==
  ASSUME PairsSound, NEW j, j.id \in Ids, j.of \in DOMAIN services[j.id], Reconnect(j)
  PROVE  SameBoxes
<1> DEFINE s == services[j.id][j.of]
           new == Connecting(s, "tool", s.config)
<1>1. s \in Service
  BY ServiceTyped DEF PairsSound
<1>2. s.config \in Keys \cup {NoKey} /\ s.config # NoKey /\ Serve(j.id, j.of, new) /\ live' = live
  BY <1>1 DEF Service, Reconnect
<1>3. new \in Service /\ new.box = s.box
  BY <1>1, <1>2, ConnectingFacts
<1> HIDE DEF new
<1> QED
  BY <1>2, <1>3, ServesSameBox DEF PairsSound

LEMMA WorkTyped ==
  ASSUME ReadersSound, NEW j \in jobs
  PROVE  /\ j \in Work /\ j.id \in Ids /\ j.of \in DOMAIN services[j.id] /\ runtime[j.id] \in RuntimeSet
         /\ runtime[j.id].generation \in Nat /\ runtime[j.id].instance \in Nat
         /\ j.generation \in Nat /\ j.instance \in Nat
BY DEF ReadersSound, ReadersTyped, ReaderSound, Work, RuntimeSet

LEMMA SameBoxesKeep ==
  ASSUME PairsSound, ReadersSound, SameBoxes, UNCHANGED <<runtime, jobs, misserved>> PROVE ReadersSound'
<1>1. \A a \in Ids : \A box : OfMailbox(a, box)' <=> OfMailbox(a, box)
  <2> TAKE a \in Ids
  <2> TAKE box
  <2>1. live' = live /\ (a \in Live => services'[a][live[a]].box = services[a][live[a]].box)
    BY LiveFacts DEF SameBoxes
  <2> QED
    BY <2>1 DEF OfMailbox, Live, Current
<1>2. \A j \in jobs : ReaderSound(j)'
  <2> TAKE j \in jobs
  <2>1. j.id \in Ids /\ j.of \in DOMAIN services[j.id] /\ ReaderSound(j)
    BY WorkTyped DEF ReadersSound
  <2>2. j.of \in DOMAIN services'[j.id] /\ services'[j.id][j.of].box = services[j.id][j.of].box
    BY <2>1 DEF SameBoxes
  <2> QED
    BY <1>1, <2>1, <2>2 DEF ReaderSound
<1>3. ReadersTyped'
  BY DEF ReadersSound, ReadersTyped
<1> QED
  BY <1>1, <1>2, <1>3 DEF ReadersSound

(* A rebuild makes what readers have of a former mailbox out of date.            *)
LEMMA ApplyKeepsReaders ==
  ASSUME PairsSound, ReadersSound, NEW specs \in [Ids -> SpecSet], NEW chosen, NEW from, Apply(specs, chosen, from),
         UNCHANGED <<jobs, misserved>>, suspended' => \A a \in Ids : specs[a].key = NoKey
  PROVE  ReadersSound'
<1>1. ASSUME NEW a \in Ids
      PROVE  /\ \A i \in DOMAIN services[a] : i \in DOMAIN services'[a] /\ services'[a][i].box = services[a][i].box
             /\ runtime'[a] \in RuntimeSet
             /\ \/ /\ runtime'[a].derived = {}
                   /\ \/ runtime'[a].instance = runtime[a].instance + 1
                      \/ /\ runtime'[a].instance = runtime[a].instance
                         /\ runtime'[a].generation = runtime[a].generation + 1
                      \/ a \notin Live /\ runtime'[a] = runtime[a]
                \/ runtime'[a] = runtime[a] /\ \A box : OfMailbox(a, box) => OfMailbox(a, box)'
  <2> DEFINE spec == specs[a]
  <2>1. spec \in SpecSet /\ (suspended' => spec.key = NoKey) /\ runtime[a] \in RuntimeSet
    BY DEF ReadersSound, ReadersTyped
  <2>2. runtime'[a] = Derived(a, spec)
    BY DEF Apply
  <2>3. a \notin Live => runtime[a].derived = {}
    BY DEF ReadersSound, OfMailbox
  <2>4. CASE Replaces(a, spec)
    <3>1. CASE Repointed(a, spec)
      <4>1. ~Removed(a, spec)
        BY <3>1 DEF Repointed, Removed
      <4>2. runtime'[a] = [runtime[a] EXCEPT !.generation = @ + 1, !.derived = {}]
        BY <2>2, <3>1, <4>1 DEF Derived
      <4>3. PICK g \in Nat : g = runtime[a].generation + 1
        BY <2>1 DEF RuntimeSet
      <4>4. runtime'[a] = [runtime[a] EXCEPT !.generation = g, !.derived = {}]
        BY <2>1, <4>2, <4>3 DEF RuntimeSet
      <4>5. /\ runtime'[a] \in RuntimeSet /\ runtime'[a].derived = {} /\ runtime'[a].generation = g
            /\ runtime'[a].instance = runtime[a].instance
        BY <2>1, <4>4 DEF RuntimeSet
      <4> QED
        BY <2>1, <2>4, <4>3, <4>5, ReplacesKeeps
    <3>2. CASE Added(a, spec)
      <4>1. ~Removed(a, spec) /\ ~Repointed(a, spec) /\ a \notin Live
        BY <3>2 DEF Repointed, Removed, Added
      <4>2. runtime'[a] = runtime[a]
        BY <2>2, <4>1 DEF Derived
      <4> QED
        BY <2>1, <2>3, <2>4, <4>1, <4>2, ReplacesKeeps
    <3> QED
      BY <2>4, <3>1, <3>2 DEF Replaces
  <2>5. CASE Removes(a, spec)
    <3>1. runtime'[a] = [NewRuntime EXCEPT !.instance = runtime[a].instance + 1]
      BY <2>2, <2>5 DEF Removes, Derived
    <3>2. PICK n \in Nat : n = runtime[a].instance + 1
      BY <2>1 DEF RuntimeSet
    <3>3. runtime'[a] = [generation |-> 0, derived |-> {}, instance |-> n]
      BY <3>1, <3>2 DEF NewRuntime
    <3> QED
      BY <2>1, <2>5, <3>2, <3>3, RemovesKeeps DEF RuntimeSet
  <2>6. CASE Rotates(a, spec)
    <3>1. ~Removed(a, spec) /\ ~Repointed(a, spec)
      BY <2>6, LiveFacts, NamesAssumption DEF Rotates, Rotated, Repointed, Removed
    <3>2. runtime'[a] = runtime[a]
      BY <2>2, <3>1 DEF Derived
    <3>3. live'[a] = live[a] /\ a \in Live
          /\ \A i \in DOMAIN services[a] : i \in DOMAIN services'[a] /\ services'[a][i].box = services[a][i].box
      BY <2>1, <2>6, RotatesKeeps
    <3>4. \A box : OfMailbox(a, box) => OfMailbox(a, box)'
      BY <3>3, LiveFacts DEF OfMailbox, Live, Current
    <3> QED
      BY <2>1, <3>2, <3>3, <3>4
  <2>7. CASE Leaves(a, spec)
    <3>1. services'[a] = services[a] /\ live'[a] = live[a]
      BY <2>7 DEF Leaves
    <3>2. \A box : OfMailbox(a, box) => OfMailbox(a, box)'
      BY <3>1 DEF OfMailbox, Live, Current
    <3>3. runtime'[a] = runtime[a]
      BY <2>2, <2>7 DEF Derived, Leaves
    <3> QED
      BY <2>1, <3>1, <3>2, <3>3
  <2> QED
    BY <2>4, <2>5, <2>6, <2>7, Reconciles
<1>2. runtime' = [a \in Ids |-> runtime'[a]]
  BY DEF Apply
<1>3. ReadersTyped'
  BY <1>1, <1>2 DEF ReadersSound, ReadersTyped
<1>4. \A a \in Ids : \A box \in runtime'[a].derived : OfMailbox(a, box)'
  BY <1>1 DEF ReadersSound
<1>5. ASSUME NEW j \in jobs PROVE ReaderSound(j)'
  <2> DEFINE r == runtime[j.id]
             next == runtime'[j.id]
  <2>1. /\ j.id \in Ids /\ j.of \in DOMAIN services[j.id] /\ r.generation \in Nat /\ r.instance \in Nat
        /\ j.generation \in Nat /\ j.instance \in Nat /\ ReaderSound(j)
    BY WorkTyped DEF ReadersSound
  <2>2. j.of \in DOMAIN services'[j.id] /\ services'[j.id][j.of].box = services[j.id][j.of].box
    BY <1>1, <2>1
  <2>3. j.got # NoBox => j.got = services'[j.id][j.of].box
    BY <2>1, <2>2 DEF ReaderSound
  <2>4. j.instance <= r.instance /\ (j.instance = r.instance => j.generation <= r.generation)
    BY <2>1 DEF ReaderSound
  <2>5. CASE next.instance = r.instance + 1
    BY <2>1, <2>2, <2>3, <2>4, <2>5 DEF ReaderSound
  <2>6. CASE next.instance = r.instance /\ next.generation = r.generation + 1
    BY <2>1, <2>2, <2>3, <2>4, <2>6 DEF ReaderSound
  <2>7. CASE next = r /\ j.id \notin Live
    BY <2>1, <2>2, <2>3, <2>4, <2>7 DEF ReaderSound, OfMailbox
  <2>8. CASE next = r /\ \A box : OfMailbox(j.id, box) => OfMailbox(j.id, box)'
    BY <2>1, <2>2, <2>3, <2>4, <2>8 DEF ReaderSound
  <2> QED
    BY <1>1, <2>1, <2>5, <2>6, <2>7, <2>8
<1> QED
  BY <1>3, <1>4, <1>5 DEF ReadersSound

(* A reader that does nothing to the services keeps to what is known of it.      *)
LEMMA JobsKeep ==
  ASSUME ReadersSound, UNCHANGED <<services, live, runtime, misserved>>, jobs' \subseteq Work,
         \A j \in jobs' : j \notin jobs => ReaderSound(j)
  PROVE  ReadersSound'
<1>1. ASSUME NEW j \in jobs' PROVE ReaderSound(j)'
  <2>1. ReaderSound(j)
    BY DEF ReadersSound
  <2> QED
    BY <2>1 DEF ReaderSound, OfMailbox, Live, Current
<1>2. \A a \in Ids : \A box : OfMailbox(a, box)' <=> OfMailbox(a, box)
  BY DEF OfMailbox, Live, Current
<1> QED
  BY <1>1, <1>2 DEF ReadersSound, ReadersTyped

(* Nobody reads from services that are not the current ones.                     *)
LEMMA ReadsCurrent ==
  ASSUME PairsSound, NEW a \in Ids, NEW i \in DOMAIN services[a], services[a][i].client # Off
  PROVE  live[a] = i /\ a \in Live /\ OfMailbox(a, services[a][i].box) /\ services[a][i].box \in Boxes
<1>1. live[a] = i
  BY DEF PairsSound, PairSound, OthersDead, Dead
<1>2. i # 0 /\ services[a][i] \in Service
  BY ServiceTyped DEF PairsSound
<1> QED
  BY <1>1, <1>2 DEF OfMailbox, Live, Current, Service

LEMMA JobFacts ==
  ASSUME PairsSound, ReadersSound, NEW kind \in {"call", "sync", "fill"}, NEW a \in Ids, NEW i \in DOMAIN services[a]
  PROVE  Job(kind, a, i) \in Work /\ ReaderSound(Job(kind, a, i))
<1>1. runtime[a] \in RuntimeSet /\ i \in Nat \ {0}
  BY ServiceTyped DEF ReadersSound, ReadersTyped, PairsSound
<1> QED
  BY <1>1, NamesAssumption DEF Job, Work, ReaderSound, RuntimeSet

LEMMA ReadersKeep == ASSUME PairsSound, ReadersSound, Readers PROVE ReadersSound'
<1> USE DEF pairs
<1>1. ASSUME NEW kind \in {"call", "sync"}, NEW a \in Ids, Start(kind, a) PROVE ReadersSound'
  <2>1. live[a] \in DOMAIN services[a] /\ jobs' = jobs \cup {Job(kind, a, live[a])}
        /\ UNCHANGED <<services, live, runtime, misserved>>
    BY <1>1, LiveFacts DEF Start
  <2>2. Job(kind, a, live[a]) \in Work /\ ReaderSound(Job(kind, a, live[a]))
    BY <2>1, JobFacts
  <2>3. jobs \subseteq Work
    BY DEF ReadersSound, ReadersTyped
  <2> QED
    BY <2>1, <2>2, <2>3, JobsKeep
<1>2. ASSUME NEW j \in jobs, StartFill(j) PROVE ReadersSound'
  <2>1. jobs' = (jobs \ {j}) \cup {Job("fill", j.id, j.of)} /\ UNCHANGED <<services, live, runtime, misserved>>
    BY <1>2 DEF StartFill
  <2>2. Job("fill", j.id, j.of) \in Work /\ ReaderSound(Job("fill", j.id, j.of))
    BY WorkTyped, JobFacts
  <2>3. jobs \subseteq Work
    BY DEF ReadersSound, ReadersTyped
  <2> QED
    BY <2>1, <2>2, <2>3, JobsKeep
<1>3. ASSUME NEW j \in jobs, Reconnect(j) PROVE ReadersSound'
  <2>1. j.id \in Ids /\ j.of \in DOMAIN services[j.id]
    BY WorkTyped
  <2>2. UNCHANGED <<runtime, jobs, misserved>>
    BY <1>3 DEF Reconnect
  <2> QED
    BY <1>3, <2>1, <2>2, ReconnectSameBox, SameBoxesKeep
<1>4. ASSUME NEW j \in jobs, Read(j) PROVE ReadersSound'
  <2> DEFINE got == services[j.id][j.of].box
             read == [j EXCEPT !.at = "read", !.got = got]
  <2>1. /\ services[j.id][j.of].client # Off /\ jobs' = (jobs \ {j}) \cup {read}
        /\ UNCHANGED <<services, live, runtime, misserved>>
    BY <1>4 DEF Read
  <2>2. j \in Work /\ j.id \in Ids /\ j.of \in DOMAIN services[j.id] /\ ReaderSound(j)
    BY WorkTyped DEF ReadersSound
  <2>3. got \in Boxes /\ OfMailbox(j.id, got)
    BY <2>1, <2>2, ReadsCurrent
  <2>4. /\ read \in Work /\ read.id = j.id /\ read.of = j.of /\ read.got = got /\ read.kind = j.kind
        /\ read.generation = j.generation /\ read.instance = j.instance
    BY <2>2, <2>3 DEF Work
  <2> HIDE DEF read
  <2>5. ReaderSound(read)
    BY <2>2, <2>3, <2>4 DEF ReaderSound
  <2>6. jobs \subseteq Work
    BY DEF ReadersSound, ReadersTyped
  <2> QED
    BY <2>1, <2>4, <2>5, <2>6, JobsKeep
<1>5. ASSUME NEW j \in jobs, ReadFails(j) PROVE ReadersSound'
  <2> DEFINE read == [j EXCEPT !.at = "read"]
  <2>1. /\ jobs' \subseteq jobs \cup {read} /\ UNCHANGED <<services, live, runtime, misserved>>
    BY <1>5 DEF ReadFails
  <2>2. j \in Work /\ ReaderSound(j)
    BY WorkTyped DEF ReadersSound
  <2>3. /\ read \in Work /\ read.id = j.id /\ read.of = j.of /\ read.got = j.got /\ read.kind = j.kind
        /\ read.generation = j.generation /\ read.instance = j.instance
    BY <2>2 DEF Work
  <2> HIDE DEF read
  <2>4. ReaderSound(read)
    BY <2>2, <2>3 DEF ReaderSound
  <2>5. jobs \subseteq Work
    BY DEF ReadersSound, ReadersTyped
  <2> QED
    BY <2>1, <2>3, <2>4, <2>5, JobsKeep
<1>6. ASSUME NEW j \in jobs, Return(j) PROVE ReadersSound'
  <2>1. jobs' = jobs \ {j} /\ UNCHANGED <<services, live, runtime>>
        /\ misserved' = (misserved \/ (Answerable(j) /\ j.got # NoBox /\ ~OfMailbox(j.id, j.got)))
    BY <1>6 DEF Return
  <2>2. j.id \in Ids /\ j.of \in DOMAIN services[j.id] /\ ReaderSound(j) /\ ~misserved
    BY WorkTyped DEF ReadersSound
  <2>3. j.of # 0
    BY <2>2, ServiceTyped DEF PairsSound
  <2>4. Answerable(j) /\ j.got # NoBox => OfMailbox(j.id, j.got)
    BY <2>2, <2>3 DEF Answerable, OnRoute, ReaderSound, OfMailbox, Live, Current
  <2>5. misserved' = misserved
    BY <2>1, <2>2, <2>4 DEF ReadersSound, ReadersTyped
  <2>6. jobs' \subseteq Work /\ \A k \in jobs' : k \in jobs
    BY <2>1 DEF ReadersSound, ReadersTyped
  <2> QED
    BY <2>1, <2>5, <2>6, JobsKeep
<1>7. ASSUME NEW j \in jobs, Keep(j) PROVE ReadersSound'
  <2> DEFINE call == [j EXCEPT !.kind = "call"]
             kept == [runtime EXCEPT ![j.id].derived = @ \cup {j.got}]
  <2>1. /\ jobs' \subseteq jobs \cup {call} /\ UNCHANGED <<services, live, misserved>>
        /\ j.kind \in {"fill", "sync"}
        /\ \/ /\ j.got # NoBox /\ SameGeneration(j) /\ (j.kind = "sync" => OnRoute(j)) /\ runtime' = kept
           \/ runtime' = runtime
    BY <1>7 DEF Keep
  <2>2. /\ j \in Work /\ j.id \in Ids /\ j.of \in DOMAIN services[j.id] /\ ReaderSound(j)
        /\ runtime[j.id] \in RuntimeSet
    BY WorkTyped DEF ReadersSound
  <2>3. /\ call \in Work /\ call.id = j.id /\ call.of = j.of /\ call.got = j.got /\ call.kind = "call"
        /\ call.generation = j.generation /\ call.instance = j.instance
    BY <2>2 DEF Work
  <2> HIDE DEF call
  <2>4. ReaderSound(call)
    BY <2>2, <2>3 DEF ReaderSound
  <2>5. jobs' \subseteq Work /\ \A k \in jobs' : ReaderSound(k)
    BY <2>1, <2>3, <2>4 DEF ReadersSound, ReadersTyped
  <2>6. CASE runtime' = runtime
    BY <2>1, <2>5, <2>6, JobsKeep
  <2>7. CASE j.got # NoBox /\ SameGeneration(j) /\ (j.kind = "sync" => OnRoute(j)) /\ runtime' = kept
    <3>1. OfMailbox(j.id, j.got)
      <4>1. CASE j.kind = "sync"
        <5>1. j.of # 0 /\ live[j.id] = j.of
          BY <2>2, <2>7, <4>1, ServiceTyped DEF PairsSound, OnRoute
        <5> QED
          BY <2>2, <2>7, <5>1 DEF ReaderSound, OfMailbox, Live, Current
      <4>2. CASE j.kind = "fill"
        BY <2>2, <2>7, <4>2 DEF SameGeneration, ReaderSound
      <4> QED
        BY <2>1, <4>1, <4>2
    <3>2. j.got \in Boxes
      BY <2>2, <2>7 DEF Work
    <3>3. /\ runtime' \in [Ids -> RuntimeSet]
          /\ \A a \in Ids : /\ runtime'[a].generation = runtime[a].generation
                            /\ runtime'[a].instance = runtime[a].instance
                            /\ runtime'[a].derived \subseteq runtime[a].derived \cup (IF a = j.id THEN {j.got} ELSE {})
      BY <2>2, <2>7, <3>2 DEF ReadersSound, ReadersTyped, RuntimeSet
    <3>4. \A a \in Ids : \A box : OfMailbox(a, box)' <=> OfMailbox(a, box)
      BY <2>1 DEF OfMailbox, Live, Current
    <3>5. \A k \in jobs' : ReaderSound(k)'
      <4> TAKE k \in jobs'
      <4>1. ReaderSound(k) /\ k.id \in Ids
        BY <2>5 DEF Work
      <4> QED
        BY <2>1, <3>3, <3>4, <4>1 DEF ReaderSound
    <3>6. \A a \in Ids : \A box \in runtime'[a].derived : OfMailbox(a, box)'
      BY <3>1, <3>3, <3>4 DEF ReadersSound
    <3> QED
      BY <2>1, <2>5, <3>3, <3>5, <3>6 DEF ReadersSound, ReadersTyped
  <2> QED
    BY <2>1, <2>6, <2>7
<1> QED
  BY <1>1, <1>2, <1>3, <1>4, <1>5, <1>6, <1>7 DEF Readers

LEMMA ReadersStep == RegistrySound /\ PairsSound /\ ReadersSound /\ [Next]_vars => ReadersSound'
<1> SUFFICES ASSUME RegistrySound, PairsSound, ReadersSound, [Next]_vars PROVE ReadersSound'
  OBVIOUS
<1>1. ASSUME UNCHANGED <<services, live, runtime, jobs, misserved>> PROVE ReadersSound'
  <2>1. SameBoxes
    BY <1>1 DEF SameBoxes
  <2> QED
    BY <1>1, <2>1, SameBoxesKeep
<1>2. CASE Edits
  <2>1. ASSUME NEW r \in Requests, NEW box \in Boxes, ResetUncleared(r, box) PROVE ReadersSound'
    <3>1. PICK specs \in [Ids -> SpecSet], chosen \in Ids :
            (\A a \in Ids : specs[a].key = NoKey) /\ Apply(specs, chosen, written')
      BY <2>1, ResetUnclearedApplies
    <3>2. UNCHANGED <<jobs, misserved>>
      BY <2>1 DEF ResetUncleared
    <3> QED
      BY <3>1, <3>2, ApplyKeepsReaders
  <2>2. (\E r \in Requests, box \in Boxes : ResetUncleared(r, box))
        \/ UNCHANGED <<services, live, runtime, jobs, misserved>>
    BY ZenonT(40), <1>2 DEF Edits, SaveSecret, Commit, Delete, Scrub, Activate, EraseSecrets, Reset, pairs
  <2> QED
    BY <1>1, <2>1, <2>2
<1>3. CASE FinishRebuild
  <2>1. UNCHANGED <<jobs, misserved>> /\ suspended' = suspended
    BY <1>3 DEF FinishRebuild
  <2>2. ASSUME NEW specs \in [Ids -> SpecSet], NEW chosen \in Ids, NEW from \in Nat,
               suspended => \A a \in Ids : specs[a].key = NoKey, Apply(specs, chosen, from)
        PROVE  ReadersSound'
    BY <2>1, <2>2, ApplyKeepsReaders
  <2> QED
    BY <1>1, <1>3, <2>1, <2>2, FinishRebuildApplies
<1>4. CASE Endpoints \/ SkipRebuild \/ ReadAccounts \/ RebuildFails \/ UNCHANGED vars
  BY <1>1, <1>4 DEF Endpoints, AskRebuild, Answer, Warm, SkipRebuild, ReadAccounts, RebuildFails, pairs, vars
<1>5. CASE Connects
  <2>1. UNCHANGED <<runtime, jobs, misserved>>
    BY <1>5 DEF Connects, BeginConnect, BeginRefresh, CleanUp, EndConnect
  <2> QED
    BY <1>5, <2>1, ConnectsSameBox, SameBoxesKeep
<1>6. CASE Network
  <2>1. UNCHANGED <<runtime, jobs, misserved>>
    BY <1>6 DEF Network, Drop, Reconnected
  <2> QED
    BY <1>6, <2>1, NetworkSameBox, SameBoxesKeep
<1>7. CASE Readers
  BY <1>7, ReadersKeep
<1> QED
  BY <1>2, <1>3, <1>4, <1>5, <1>6, <1>7 DEF Next, Rebuilds

------------------------------------------------------------------------------
LEMMA AccountsInvariance == Spec => [](RegistrySound /\ PairsSound /\ ReadersSound)
<1>1. RegistrySound /\ PairsSound /\ ReadersSound /\ [Next]_vars => (RegistrySound /\ PairsSound /\ ReadersSound)'
  BY RegistryStep, PairsStep, ReadersStep
<1> QED
  BY RegistryInit, PairsInit, ReadersInit, <1>1, PTL DEF Spec

(* No services but an account's current ones do anything, and those only with    *)
(* its current password, of which a partial reset leaves none: for any accounts, *)
(* edits, rebuilds, connects and reconnects in any order.                        *)
THEOREM OnlyCurrentServicesServe == Spec => []ServicesHold
<1>1. PairsSound => ServicesHold
  <2> SUFFICES ASSUME PairsSound PROVE ServicesHold
    OBVIOUS
  <2>1. RetiredStayDead
    BY DEF PairsSound, PairSound, OthersDead, Dead, RetiredStayDead
  <2>2. IdleIsCurrent
    BY DEF PairsSound, PairSound, OthersDead, Dead, IdleKeyed, IdleIsCurrent
  <2>3. SuspendedHoldNoSecret
    <3> SUFFICES ASSUME suspended, NEW a \in Live PROVE Current(a).key = NoKey /\ ~Current(a).idle
      BY DEF SuspendedHoldNoSecret
    <3>1. a \in Ids /\ live[a] # 0
      BY DEF Live
    <3>2. live[a] \in DOMAIN services[a] /\ Current(a).key = NoKey
      BY <3>1, LiveFacts DEF PairsSound, PairSound, Keyless
    <3> QED
      BY <3>1, <3>2 DEF PairsSound, PairSound, IdleKeyed, Current
  <2> QED
    BY <2>1, <2>2, <2>3 DEF ServicesHold
<1> QED
  BY AccountsInvariance, <1>1, PTL

(* What is derived from mail and what is answered is of the mailbox that the id  *)
(* names now, however long a reader takes and however often ids are repointed,   *)
(* removed and made again meanwhile.                                             *)
THEOREM MailStaysWithItsMailbox == Spec => []OwnMailboxOnly
<1>1. ReadersSound => OwnMailboxOnly
  BY DEF ReadersSound, OwnMailboxOnly
<1> QED
  BY AccountsInvariance, <1>1, PTL

=============================================================================
