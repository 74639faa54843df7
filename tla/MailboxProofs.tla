----------------------------- MODULE MailboxProofs -----------------------------
(* Proofs about the mailbox operations of SimpleIMAPService, for any number of   *)
(* calls, messages and UIDs.  MailboxInv is inductive.  It relates four things:  *)
(*  - the server: a UID that was given out stands for one message until the      *)
(*    mailbox is rebuilt, and the target of a call has held what arrives in it;  *)
(*  - each call by itself (MailShape): every id it was given is in one place,    *)
(*    still to be grouped, at work, accepted, won or lost;                       *)
(*  - each call and the server (CallStands): the ids it works on in the mailbox  *)
(*    it holds are those it noted, the ids it counts have arrived or are off;    *)
(*  - the cache and the server (EntryStands).                                    *)
EXTENDS Mailbox, FiniteSetTheorems, TLAPS

------------------------------------------------------------------------------
(* The mailbox: what the server does                                            *)

Boxes == [Real -> [Uids -> Mail \cup {None}]]
Allotted(f, u) == f = All \/ u < next[f]

ServerTyped ==
  /\ box \in Boxes /\ next \in [Real -> Nat] /\ mail \subseteq Mail /\ validity \in [Folders -> Nat \ {0}]
  /\ reached \in [MailCalls -> SUBSET Mail]
  /\ \A f \in Real : \A u \in Uids : ~(u < next[f]) => box[f][u] = None

(* A number that was given out is not given to another message, until the       *)
(* mailbox is rebuilt; what arrives in a target is remembered.                  *)
ServerMoves ==
  /\ ServerTyped'
  /\ \A f \in Real : \A u \in Uids : u < next[f] => u < next'[f]
  /\ \A f \in Folders : validity[f] <= validity'[f]
  /\ \A f \in Folders : \A u \in Uids :
       validity'[f] = validity[f] /\ Allotted(f, u) => (At(f, u))' \in {At(f, u), None}
  /\ \A d \in MailCalls : op[d].pc # "idle" =>
       /\ reached[d] \subseteq reached'[d]
       /\ \A g \in Real : op[d].dst = g => (Inside(g))' \subseteq Inside(g) \cup reached'[d]

(* Outside the slots T nothing is seen to change.                               *)
SameOutside(T) ==
  \A f \in Folders : \A u \in Uids :
    <<f, u>> \notin T /\ validity'[f] = validity[f] /\ Allotted(f, u) =>
      (At(f, u))' = At(f, u) /\ (Shown(f, u))' = Shown(f, u)

Effect(T) == ServerMoves /\ SameOutside(T)

LEMMA FolderFacts ==
  /\ All \notin Real /\ Folders = Real \cup {All} /\ Trash \in Real /\ Label \in Real /\ Label # Trash
  /\ NoFolder \notin Folders /\ Real \subseteq Folders
BY DEF All, Real, Trash, Label, Folders, NoFolder

LEMMA NumberFacts ==
  /\ Mail \subseteq Uids /\ Uids \subseteq Nat /\ MaxUid \in Nat
  /\ None \notin Mail /\ None \notin Uids /\ IsFiniteSet(Uids) /\ IsFiniteSet(Mail)
<1>1. Mail \subseteq Uids /\ MaxUid \in Nat
  BY MailboxAssumption
<1>2. Uids \subseteq Nat /\ None \notin Uids
  BY <1>1 DEF None, Uids
<1>3. IsFiniteSet(1..MaxUid)
  BY <1>1, FS_Interval
<1>4. IsFiniteSet(Mail)
  BY <1>1, <1>3, FS_Subset DEF Uids
<1> QED
  BY <1>1, <1>2, <1>3, <1>4 DEF Uids

LEMMA AtTyped ==
  ASSUME ServerTyped, NEW f \in Folders, NEW u \in Uids
  PROVE  /\ At(f, u) \in Mail \cup {None}
         /\ At(f, u) # None => Allotted(f, u)
<1>1. CASE f = All
  BY <1>1 DEF ServerTyped, At, Allotted
<1>2. CASE f \in Real
  <2>1. At(f, u) = box[f][u]
    BY <1>2, FolderFacts DEF At
  <2>2. box[f] \in [Uids -> Mail \cup {None}] /\ (~(u < next[f]) => box[f][u] = None)
    BY <1>2 DEF ServerTyped, Boxes
  <2> QED
    BY <2>1, <2>2 DEF Allotted
<1> QED
  BY <1>1, <1>2, FolderFacts

(* What is filed gets numbers that were not given out, and no others are used.  *)
LEMMA FiledFacts ==
  ASSUME ServerTyped, NEW g \in Real, NEW M \in SUBSET Mail
  PROVE  /\ Filed(g, M) \in [Uids -> Mail \cup {None}]
         /\ Cardinality(M \ Inside(g)) \in Nat
         /\ \A u \in Uids : u < next[g] => Filed(g, M)[u] = box[g][u]
         /\ \A u \in Uids : ~(u < next[g] + Cardinality(M \ Inside(g))) => Filed(g, M)[u] = None
         /\ \A u \in Uids : Filed(g, M)[u] \in {box[g][u]} \cup M
<1> DEFINE new == M \ Inside(g)
           uid(m) == next[g] + Cardinality({k \in new : k < m})
<1>1. IsFiniteSet(new) /\ Cardinality(new) \in Nat
  BY FS_Subset, FS_CardinalityType, NumberFacts
<1>2. next[g] \in Nat /\ box[g] \in [Uids -> Mail \cup {None}]
  BY DEF ServerTyped, Boxes
<1>3. \A m \in new : /\ Cardinality({k \in new : k < m}) \in Nat
                     /\ Cardinality({k \in new : k < m}) < Cardinality(new)
  <2> TAKE m \in new
  <2> DEFINE less == {k \in new : k < m}
  <2>1. m \in Nat
    BY NumberFacts
  <2>2. less \subseteq new /\ m \notin less
    BY <2>1
  <2>3. IsFiniteSet(less) /\ Cardinality(less) <= Cardinality(new) /\ Cardinality(less) # Cardinality(new)
    BY <1>1, <2>2, FS_Subset
  <2>4. Cardinality(less) \in Nat
    BY <2>3, FS_CardinalityType
  <2> QED
    BY <1>1, <2>3, <2>4
<1>4. \A m \in new : uid(m) \in Nat /\ ~(uid(m) < next[g]) /\ uid(m) < next[g] + Cardinality(new)
  <2> TAKE m \in new
  <2> DEFINE before == Cardinality({k \in new : k < m})
  <2>1. before \in Nat /\ before < Cardinality(new)
    BY <1>3
  <2>2. uid(m) = next[g] + before
    OBVIOUS
  <2> HIDE DEF uid, before
  <2> QED
    BY <1>1, <1>2, <2>1, <2>2
<1>5. Filed(g, M) = [u \in Uids |-> IF \E m \in new : uid(m) = u
                                    THEN CHOOSE m \in new : uid(m) = u ELSE box[g][u]]
  BY DEF Filed
<1> HIDE DEF uid
<1>6. \A u \in Uids : \/ /\ \E m \in new : uid(m) = u
                         /\ Filed(g, M)[u] \in new
                      \/ /\ ~\E m \in new : uid(m) = u
                         /\ Filed(g, M)[u] = box[g][u]
  BY <1>5
<1>7. new \subseteq Mail
  OBVIOUS
<1>8. \A u \in Uids : ~(u < next[g]) => box[g][u] = None
  BY DEF ServerTyped
<1> HIDE DEF new
<1>9. Filed(g, M) \in [Uids -> Mail \cup {None}]
  <2>1. \A u \in Uids : Filed(g, M)[u] \in Mail \cup {None}
    BY <1>2, <1>6, <1>7
  <2> QED
    BY <1>5, <2>1
<1>10. \A u \in Uids : u < next[g] => Filed(g, M)[u] = box[g][u]
  BY <1>4, <1>6
<1>11. \A u \in Uids : ~(u < next[g] + Cardinality(new)) => Filed(g, M)[u] = None
  BY <1>1, <1>2, <1>4, <1>6, <1>8 DEF Uids
<1>12. \A u \in Uids : Filed(g, M)[u] \in {box[g][u]} \cup M
  BY <1>6 DEF new
<1> QED
  BY <1>1, <1>9, <1>10, <1>11, <1>12 DEF new

(* What is filed in g, from anywhere, has arrived there.                        *)
LEMMA ArriveFacts ==
  ASSUME NEW g \in Real, NEW M, Arrive(M, g),
         \A h \in Real : (Inside(h))' \subseteq Inside(h) \cup (IF h = g THEN M ELSE {})
  PROVE  \A d \in MailCalls :
           /\ reached[d] \subseteq reached'[d]
           /\ op[d].dst = g => M \subseteq reached'[d]
           /\ \A h \in Real : op[d].dst = h => (Inside(h))' \subseteq Inside(h) \cup reached'[d]
<1> TAKE d \in MailCalls
<1>1. reached'[d] = IF op[d].dst = g THEN reached[d] \cup M ELSE reached[d]
  BY DEF Arrive
<1> QED
  BY <1>1

LEMMA MovesIf ==
  ASSUME ServerTyped', validity \in [Folders -> Nat \ {0}],
         \A f \in Real : \A u \in Uids : u < next[f] => u < next'[f],
         validity' = validity,
         \A f \in Folders : \A u \in Uids : Allotted(f, u) => (At(f, u))' \in {At(f, u), None},
         \A d \in MailCalls :
           /\ reached[d] \subseteq reached'[d]
           /\ \A h \in Real : op[d].dst = h => (Inside(h))' \subseteq Inside(h) \cup reached'[d]
  PROVE  ServerMoves
<1>1. \A f \in Folders : validity[f] <= validity'[f]
  OBVIOUS
<1> QED
  BY <1>1 DEF ServerMoves

LEMMA CopiedEffect ==
  ASSUME ServerTyped, NEW f \in Folders, NEW U \in SUBSET Uids, NEW g \in Real, Copied(f, U, g)
  PROVE  /\ Effect({}) /\ mail' = mail /\ validity' = validity
         /\ \A d \in MailCalls : op[d].dst = g => \A u \in Present(f, U) : At(f, u) \in reached'[d]
<1> DEFINE M == {At(f, u) : u \in Present(f, U)}
<1>1. M \in SUBSET Mail
  BY AtTyped DEF Present
<1>2. /\ box' = [box EXCEPT ![g] = Filed(g, M)]
      /\ next' = [next EXCEPT ![g] = @ + Cardinality(M \ Inside(g))]
      /\ Arrive(M, g) /\ UNCHANGED <<mail, seen, validity>>
  BY DEF Copied
<1>3. \A u \in Present(f, U) : At(f, u) \in M
  OBVIOUS
<1> HIDE DEF M
<1>4. /\ \A h \in Real \ {g} : box'[h] = box[h] /\ next'[h] = next[h]
      /\ box'[g] = Filed(g, M) /\ next'[g] = next[g] + Cardinality(M \ Inside(g))
      /\ box' \in Boxes /\ next' \in [Real -> Nat]
  BY <1>1, <1>2, FiledFacts DEF ServerTyped, Boxes
<1>5. ServerTyped'
  <2>1. \A h \in Real : \A u \in Uids : ~(u < next'[h]) => box'[h][u] = None
    BY <1>1, <1>4, FiledFacts DEF ServerTyped
  <2>2. reached' \in [MailCalls -> SUBSET Mail]
    BY <1>1, <1>2 DEF ServerTyped, Arrive
  <2> QED
    BY <1>2, <1>4, <2>1, <2>2 DEF ServerTyped
<1>6. \A h \in Real : \A u \in Uids : /\ u < next[h] => u < next'[h] /\ box'[h][u] = box[h][u]
                                      /\ box'[h][u] \in {box[h][u]} \cup (IF h = g THEN M ELSE {})
  <2>1. \A u \in Uids : u < next[g] => u < next[g] + Cardinality(M \ Inside(g))
    <3> DEFINE n == Cardinality(M \ Inside(g))
    <3>1. n \in Nat /\ next[g] \in Nat /\ Uids \subseteq Nat
      BY <1>1, FiledFacts, NumberFacts DEF ServerTyped
    <3> HIDE DEF n
    <3>2. \A u \in Uids : u < next[g] => u < next[g] + n
      BY <3>1
    <3> QED
      BY <3>2 DEF n
  <2>2. \A u \in Uids : /\ u < next[g] => box'[g][u] = box[g][u]
                        /\ box'[g][u] \in {box[g][u]} \cup M
    BY <1>1, <1>4, FiledFacts
  <2> TAKE h \in Real
  <2>3. CASE h = g
    BY <1>4, <2>1, <2>2, <2>3
  <2>4. CASE h # g
    BY <1>4, <2>4
  <2> QED
    BY <2>3, <2>4
<1>7. \A h \in Folders : \A u \in Uids : Allotted(h, u) => (At(h, u))' = At(h, u)
  BY <1>2, <1>6, FolderFacts DEF At, Allotted
<1>8. \A h \in Real : (Inside(h))' \subseteq Inside(h) \cup (IF h = g THEN M ELSE {})
  <2> TAKE h \in Real
  <2>1. \A u \in Uids : At(h, u) = box[h][u] /\ (At(h, u))' = box'[h][u]
    BY FolderFacts DEF At
  <2> QED
    BY <1>6, <2>1 DEF Inside
<1>9. SameOutside({})
  BY <1>2, <1>7 DEF SameOutside, Shown
<1>10. ServerMoves
  BY <1>2, <1>5, <1>6, <1>7, <1>8, ArriveFacts, MovesIf DEF ServerTyped
<1> QED
  BY <1>2, <1>3, <1>8, <1>9, <1>10, ArriveFacts DEF Effect

LEMMA MovedEffect ==
  ASSUME ServerTyped, NEW f \in Real, NEW U \in SUBSET Uids, NEW g \in Real, f # g, Moved(f, U, g)
  PROVE  /\ Effect({f} \X U) /\ mail' = mail /\ validity' = validity
         /\ \A d \in MailCalls : op[d].dst = g => \A u \in Present(f, U) : At(f, u) \in reached'[d]
<1> DEFINE M == {At(f, u) : u \in Present(f, U)}
           left == [u \in Uids |-> IF u \in U THEN None ELSE box[f][u]]
<1>1. M \in SUBSET Mail
  BY AtTyped, FolderFacts DEF Present
<1>2. /\ box' = [box EXCEPT ![g] = Filed(g, M), ![f] = left]
      /\ next' = [next EXCEPT ![g] = @ + Cardinality(M \ Inside(g))]
      /\ Arrive(M, g) /\ UNCHANGED <<mail, validity>> /\ seen' = seen \ ({f} \X U)
  BY DEF Moved
<1>3. \A u \in Present(f, U) : At(f, u) \in M
  OBVIOUS
<1>4. left \in [Uids -> Mail \cup {None}] /\ \A u \in Uids : left[u] = IF u \in U THEN None ELSE box[f][u]
  BY DEF ServerTyped, Boxes
<1> HIDE DEF M, left
<1>5. /\ \A h \in Real \ {f, g} : box'[h] = box[h]
      /\ \A h \in Real \ {g} : next'[h] = next[h]
      /\ box'[g] = Filed(g, M) /\ box'[f] = left /\ next'[g] = next[g] + Cardinality(M \ Inside(g))
      /\ box' \in Boxes /\ next' \in [Real -> Nat]
  <2> DEFINE filed == Filed(g, M)
             n == Cardinality(M \ Inside(g))
  <2>1. filed \in [Uids -> Mail \cup {None}] /\ n \in Nat
    BY <1>1, FiledFacts
  <2>2. box' = [box EXCEPT ![g] = filed, ![f] = left] /\ next' = [next EXCEPT ![g] = @ + n]
    BY <1>2
  <2>3. box \in [Real -> [Uids -> Mail \cup {None}]] /\ next \in [Real -> Nat]
    BY DEF ServerTyped, Boxes
  <2> HIDE DEF filed, n
  <2>4. /\ \A h \in Real \ {f, g} : box'[h] = box[h]
        /\ box'[g] = filed /\ box'[f] = left /\ box' \in [Real -> [Uids -> Mail \cup {None}]]
    BY <1>4, <2>1, <2>2, <2>3
  <2>5. /\ \A h \in Real \ {g} : next'[h] = next[h]
        /\ next'[g] = next[g] + n /\ next' \in [Real -> Nat]
    BY <2>1, <2>2, <2>3
  <2> QED
    BY <2>4, <2>5 DEF filed, n, Boxes
<1>6. ServerTyped'
  <2>1. \A h \in Real : \A u \in Uids : ~(u < next'[h]) => box'[h][u] = None
    BY <1>1, <1>4, <1>5, FiledFacts DEF ServerTyped
  <2>2. reached' \in [MailCalls -> SUBSET Mail]
    BY <1>1, <1>2 DEF ServerTyped, Arrive
  <2> QED
    BY <1>2, <1>5, <2>1, <2>2 DEF ServerTyped
<1>7. \A h \in Real : \A u \in Uids :
        /\ u < next[h] => u < next'[h] /\ (box'[h][u] = IF h = f /\ u \in U THEN None ELSE box[h][u])
        /\ box'[h][u] \in {box[h][u], None} \cup (IF h = g THEN M ELSE {})
  <2>1. \A u \in Uids : u < next[g] => u < next[g] + Cardinality(M \ Inside(g))
    <3> DEFINE n == Cardinality(M \ Inside(g))
    <3>1. n \in Nat /\ next[g] \in Nat /\ Uids \subseteq Nat
      BY <1>1, FiledFacts, NumberFacts DEF ServerTyped
    <3> HIDE DEF n
    <3>2. \A u \in Uids : u < next[g] => u < next[g] + n
      BY <3>1
    <3> QED
      BY <3>2 DEF n
  <2>2. \A u \in Uids : /\ u < next[g] => box'[g][u] = box[g][u]
                        /\ box'[g][u] \in {box[g][u]} \cup M
    BY <1>1, <1>5, FiledFacts
  <2> TAKE h \in Real
  <2>3. CASE h = g
    BY <1>5, <2>1, <2>2, <2>3
  <2>4. CASE h = f
    BY <1>4, <1>5, <2>4
  <2>5. CASE h \notin {f, g}
    BY <1>5, <2>5
  <2> QED
    BY <2>3, <2>4, <2>5
<1>8. \A h \in Folders : \A u \in Uids : Allotted(h, u) =>
        (At(h, u))' = IF h = f /\ u \in U THEN None ELSE At(h, u)
  <2> TAKE h \in Folders
  <2>1. CASE h = All
    BY <1>2, <2>1, FolderFacts DEF At
  <2>2. CASE h \in Real
    <3>1. \A u \in Uids : At(h, u) = box[h][u] /\ (At(h, u))' = box'[h][u]
      BY <2>2, FolderFacts DEF At
    <3>2. \A u \in Uids : Allotted(h, u) => u < next[h]
      BY <2>2, FolderFacts DEF Allotted
    <3> QED
      BY <1>7, <2>2, <3>1, <3>2
  <2> QED
    BY <2>1, <2>2, FolderFacts
<1>9. \A h \in Real : (Inside(h))' \subseteq Inside(h) \cup (IF h = g THEN M ELSE {})
  <2> TAKE h \in Real
  <2>1. \A u \in Uids : At(h, u) = box[h][u] /\ (At(h, u))' = box'[h][u]
    BY FolderFacts DEF At
  <2> QED
    BY <1>7, <2>1 DEF Inside
<1>10. SameOutside({f} \X U)
  BY <1>2, <1>8 DEF SameOutside, Shown
<1>11. ServerMoves
  BY <1>2, <1>6, <1>7, <1>8, <1>9, ArriveFacts, MovesIf DEF ServerTyped
<1> QED
  BY <1>2, <1>3, <1>9, <1>10, <1>11, ArriveFacts DEF Effect

Purged(f, U) == {s \in Slots : At(s[1], s[2]) \in {At(f, u) : u \in U} \ {None}}

LEMMA ExpungedEffect ==
  ASSUME ServerTyped, NEW f \in {Label, Trash}, NEW U \in SUBSET Uids, Expunged(f, U)
  PROVE  /\ Effect(({f} \X U) \cup (IF f = Label THEN {} ELSE Purged(f, U)))
         /\ UNCHANGED <<next, validity, reached>>
         /\ \A u \in U : box'[f][u] = None
         /\ \A m \in mail \ mail' : m \in Inside(Trash)
<1> DEFINE gone == {m \in {box[f][u] : u \in Present(f, U)} :
                      f # Label /\ \A g \in Real \ {f, Label} : m \notin Inside(g)}
           T == ({f} \X U) \cup (IF f = Label THEN {} ELSE Purged(f, U))
<1>1. f \in Real /\ \A u \in Uids : At(f, u) = box[f][u]
  BY FolderFacts DEF At
<1>2. /\ box' = [g \in Real |-> [u \in Uids |->
                    IF (g = f /\ u \in U) \/ box[g][u] \in gone THEN None ELSE box[g][u]]]
      /\ mail' = mail \ gone /\ seen' = seen \ ({f} \X U) /\ UNCHANGED <<next, validity, reached>>
  BY DEF Expunged
<1>3. /\ f = Label => gone = {}
      /\ \A m \in gone : m # None /\ \E u \in U : m = At(f, u)
  BY <1>1 DEF Present
<1> HIDE DEF gone
<1>4. \A g \in Real : \A u \in Uids :
        box'[g][u] = IF (g = f /\ u \in U) \/ box[g][u] \in gone THEN None ELSE box[g][u]
  BY <1>2
<1>5. ServerTyped'
  <2>1. \A g \in Real : \A u \in Uids : box'[g][u] \in Mail \cup {None}
    BY <1>4 DEF ServerTyped, Boxes
  <2>2. \A g \in Real : box'[g] \in [Uids -> Mail \cup {None}]
    BY <1>2, <2>1
  <2>3. box' \in Boxes
    BY <1>2, <2>2 DEF Boxes
  <2> QED
    BY <1>2, <1>4, <2>3 DEF ServerTyped
<1>6. \A g \in Folders : \A u \in Uids : (At(g, u))' \in {At(g, u), None}
  BY <1>2, <1>4, FolderFacts DEF At
<1>7. \A g \in Real : (Inside(g))' \subseteq Inside(g)
  BY <1>6, FolderFacts DEF Inside
<1>8. ServerMoves
  BY <1>2, <1>5, <1>6, <1>7 DEF ServerMoves, ServerTyped
<1>9. SameOutside(T)
  <2> SUFFICES ASSUME NEW g \in Folders, NEW u \in Uids, <<g, u>> \notin T
               PROVE  (At(g, u))' = At(g, u) /\ (Shown(g, u))' = Shown(g, u)
    BY DEF SameOutside
  <2>1. ~(g = f /\ u \in U)
    OBVIOUS
  <2>2. At(g, u) \notin gone
    BY <1>3 DEF Purged, Slots
  <2>3. (At(g, u))' = At(g, u)
    BY <1>2, <1>4, <2>1, <2>2, FolderFacts DEF At
  <2> QED
    BY <1>2, <2>1, <2>3 DEF Shown
<1>10. \A m \in mail \ mail' : m \in Inside(Trash)
  BY <1>2, <1>3, NumberFacts DEF Inside
<1> QED
  BY <1>2, <1>4, <1>1, <1>8, <1>9, <1>10 DEF Effect

LEMMA SetFlagsEffect ==
  ASSUME ServerTyped, NEW f \in Folders, NEW U \in SUBSET Uids, NEW flag \in {"seen", "unseen"},
         SetFlags(f, U, flag)
  PROVE  /\ Effect({f} \X U) /\ mail' = mail /\ UNCHANGED <<box, next, validity, reached>>
         /\ \A u \in Present(f, U) : (Shown(f, u))' = flag
<1>1. UNCHANGED <<box, next, mail, validity, reached>>
  BY DEF SetFlags
<1>2. \A g \in Folders : \A u \in Uids : (At(g, u))' = At(g, u)
  BY <1>1 DEF At
<1>3. ServerMoves
  BY <1>1, <1>2 DEF ServerMoves, ServerTyped, Inside, At
<1>4. \A g \in Folders : \A u \in Uids : <<g, u>> \notin {f} \X U => (<<g, u>> \in seen' <=> <<g, u>> \in seen)
  <2> TAKE g \in Folders
  <2> TAKE u \in Uids
  <2>1. CASE flag = "seen"
    BY <2>1 DEF SetFlags, Present
  <2>2. CASE flag = "unseen"
    BY <2>2 DEF SetFlags
  <2> QED
    BY <2>1, <2>2
<1>5. \A u \in Present(f, U) : (Shown(f, u))' = flag
  BY DEF SetFlags, Shown, Present
<1> QED
  BY <1>1, <1>2, <1>3, <1>4, <1>5 DEF Effect, SameOutside, Shown

LEMMA NothingEffect ==
  ASSUME ServerTyped, UNCHANGED <<server_vars, reached>>
  PROVE  Effect({}) /\ mail' = mail
BY DEF Effect, ServerMoves, ServerTyped, SameOutside, Shown, At, Inside, Allotted, server_vars

------------------------------------------------------------------------------
(* The calls                                                                    *)

AnyKind == {"none", "read", "search", "list", "empty", "move", "delete", "copy", "remove", "flag"}
AnyPc == {"idle", "find", "open", "fetch", "group", "check", "mids", "change", "each", "leave",
          "verify", "done", "threw"}
IdSet == SUBSET Uids
FolderSet == SUBSET Folders
Place == Folders \cup {NoFolder}
Target == Real \cup {NoFolder}
Flags == {"seen", "unseen"}
WhereSet == [Uids -> Place]
WasSet == [Uids -> Mail \cup {None}]

MailOps ==
  [kind : AnyKind, bulk : BOOLEAN, ids : IdSet, src : Place, dst : Target, flag : Flags,
   pc : AnyPc, scan : FolderSet, where : WhereSet, todo : IdSet, cur : Place,
   work : IdSet, was : WasSet, mid : IdSet, accepted : IdSet,
   relocated : IdSet, plus : FolderSet, won : IdSet, lost : IdSet]

Holding == {"fetch", "check", "mids", "change", "each", "leave"}

(* Every id of a change is in one place: still to be grouped, at work, accepted, *)
(* won or lost; only a removal counts what it has accepted as won.              *)
Partition(r) ==
  /\ r.ids = r.todo \cup r.work \cup r.accepted \cup r.won \cup r.lost
  /\ r.todo \cap (r.work \cup r.accepted \cup r.won \cup r.lost) = {}
  /\ r.work \cap (r.accepted \cup r.won \cup r.lost) = {}
  /\ r.lost \cap (r.accepted \cup r.won) = {}
  /\ r.kind = "remove" => r.accepted \subseteq r.won
  /\ r.kind # "remove" => r.accepted \cap r.won = {}
  /\ r.relocated \subseteq r.accepted \cup r.won \cup r.lost

ChangeShape(r) ==
  r.kind \in Changes =>
    /\ Partition(r) /\ r.pc \notin {"open", "fetch"}
    /\ r.pc \in {"find", "group", "verify", "done", "leave"} => r.work = {}
    /\ r.pc = "done" => r.todo = {} /\ r.accepted = {}
    /\ r.kind \in Relocating => r.dst \in Real

OtherShape(r) ==
  r.kind \notin Changes =>
    /\ ~r.bulk /\ r.accepted = {} /\ r.pc \notin {"group", "check", "mids", "each", "verify"}
    /\ r.pc \in {"change", "leave"} => r.kind = "empty"
    /\ r.pc = "find" => r.kind = "read"

PlaceShape(r) ==
  /\ r.pc \in Holding => r.cur \in Folders /\ (r.kind \in MoveKinds => r.cur # r.dst)
  /\ r.pc = "open" => r.src \in Folders
  /\ r.pc \in {"mids", "verify"} => r.kind \in Relocating
  /\ r.kind = "flag" => r.accepted = {}
  /\ r.pc = "find" => r.won = {} /\ r.accepted = {}

RemoveShape(r) ==
  r.kind = "remove" =>
    /\ r.pc # "find" /\ \A u \in r.ids : r.where[u] = Label
    /\ r.pc \in Holding => r.cur = Label
    /\ r.pc \in {"group", "check", "change", "done"} => r.accepted = {}

EmptyShape(r) ==
  r.kind = "empty" =>
    /\ r.pc \in {"open", "change", "leave", "done", "threw"}
    /\ r.src = Trash /\ r.todo = {}
    /\ r.pc \in Holding => r.cur = Trash

MailShape(r) ==
  /\ r \in MailOps /\ (r.kind = "none" <=> r.pc = "idle")
  /\ ChangeShape(r) /\ OtherShape(r) /\ PlaceShape(r) /\ RemoveShape(r) /\ EmptyShape(r)

(* What holds between a call and the server: what it counts has arrived, what   *)
(* it works on is what it noted, and what it took off a label is off.           *)
Arrived(c) ==
  op[c].kind \in Relocating =>
    /\ \A u \in op[c].won : op[c].where[u] = op[c].dst \/ op[c].was[u] \in reached[c]
    /\ \A u \in op[c].relocated : op[c].was[u] \in reached[c]
    /\ Inside(op[c].dst) \subseteq reached[c]

AtWork(c) ==
  op[c].pc \in {"mids", "change", "each"} =>
    \A u \in op[c].work :
      /\ Allotted(op[c].cur, u)
      /\ op[c].kind \in Relocating => At(op[c].cur, u) \in {None, op[c].was[u]}

TakenOff(c) ==
  op[c].kind = "remove" =>
    /\ \A u \in op[c].won :
         u < next[Label] /\ (validity[Label] = 1 /\ u \notin op[c].accepted => box[Label][u] = None)
    /\ op[c].pc \in Holding => \A u \in op[c].accepted : <<Label, u>> \notin Entries

CallStands(c) ==
  /\ op[c].pc \in Holding => holder = c
  /\ Arrived(c) /\ AtWork(c) /\ TakenOff(c)

EntrySet == [msg : Mail, flag : Flags, era : Nat]
EntryStands(s) ==
  /\ s \in Slots /\ emailCache[s] \in EntrySet /\ emailCache[s].era <= validity[s[1]]
  /\ emailCache[s].era = validity[s[1]] =>
       /\ Allotted(s[1], s[2])
       /\ s \notin alien =>
            emailCache[s].msg = At(s[1], s[2]) /\ emailCache[s].flag = Shown(s[1], s[2])

MailboxInv ==
  /\ ServerTyped /\ op \in [MailCalls -> MailOps]
  /\ \A c \in MailCalls : MailShape(op[c]) /\ CallStands(c)
  /\ \A s \in Entries : EntryStands(s)

------------------------------------------------------------------------------
(* Every request, and every change of a call, leaves it well-formed           *)

(* What the tools ask for.                                                      *)
Askable(kind, ids, src, dst, flag) ==
  /\ kind \in AnyKind \ {"none"} /\ ids \subseteq Uids /\ src \in Place /\ dst \in Target /\ flag \in Flags
  /\ kind \in Relocating => dst \in Real
  /\ kind \notin Changes => ~(Cardinality(ids) > 1)
  /\ kind \in {"search", "list", "empty"} => src \in Folders
  /\ kind = "remove" => src = Label
  /\ kind = "empty" => src = Trash /\ ids = {}

LEMMA RequestShape ==
  ASSUME NEW kind, NEW ids, NEW src, NEW dst, NEW flag, Askable(kind, ids, src, dst, flag)
  PROVE  /\ MailShape(Request(kind, ids, src, dst, flag))
         /\ Request(kind, ids, src, dst, flag).dst = dst
         /\ Request(kind, ids, src, dst, flag).pc \in {"open", "find", "group"}
         /\ Request(kind, ids, src, dst, flag).won = {}
         /\ Request(kind, ids, src, dst, flag).relocated = {}
<1> DEFINE many == Cardinality(ids) > 1
           there == [u \in Uids |-> IF u \notin ids \/ kind = "read" THEN NoFolder ELSE src]
           at == CASE kind \in {"search", "list", "empty"} -> "open"
                   [] kind = "read" \/ (kind \in Changes /\ src = NoFolder) -> "find"
                   [] kind \in Changes /\ src # NoFolder -> "group"
           r == Request(kind, ids, src, dst, flag)
<1>0. /\ kind \in AnyKind \ {"none"} /\ ids \in SUBSET Uids /\ src \in Place /\ dst \in Target /\ flag \in Flags
      /\ kind \in Relocating => dst \in Real
      /\ kind \notin Changes => ~many
      /\ kind \in {"search", "list", "empty"} => src \in Folders
      /\ kind = "remove" => src = Label
      /\ kind = "empty" => src = Trash /\ ids = {}
  BY DEF Askable
<1>1. many \in BOOLEAN /\ (kind \notin Changes => ~many)
  <2>1. many \in BOOLEAN
    OBVIOUS
  <2> QED
    BY <1>0, <2>1
<1>2. there \in WhereSet /\ \A u \in ids : kind # "read" => there[u] = src
  BY <1>0 DEF WhereSet, Place
<1>3. /\ at \in {"open", "find", "group"}
      /\ kind \in {"search", "list", "empty"} => at = "open"
      /\ kind = "read" => at = "find"
      /\ kind \in Changes => at \in {"find", "group"}
      /\ kind = "remove" => at = "group"
  BY <1>0, FolderFacts DEF AnyKind, Changes, Relocating, MoveKinds
<1>4. r = [NoCall EXCEPT
     !.kind = kind, !.bulk = many, !.ids = ids, !.src = src, !.dst = dst,
     !.flag = flag, !.where = there, !.todo = ids, !.pc = at]
  BY DEF Request
<1> HIDE DEF many, there, at, r
<1>5. r = [kind |-> kind, bulk |-> many, ids |-> ids, src |-> src, dst |-> dst, flag |-> flag,
           pc |-> at, scan |-> {}, where |-> there, todo |-> ids, cur |-> NoFolder,
           work |-> {}, was |-> [u \in Uids |-> None], mid |-> {}, accepted |-> {},
           relocated |-> {}, plus |-> {}, won |-> {}, lost |-> {}]
  BY <1>4 DEF NoCall
<1>6. [u \in Uids |-> None] \in WasSet
  BY DEF WasSet
<1>7. r \in MailOps
  BY <1>0, <1>1, <1>2, <1>3, <1>5, <1>6 DEF MailOps, IdSet, FolderSet, Place, AnyPc
<1>8. /\ r.kind = kind /\ r.bulk = many /\ r.ids = ids /\ r.src = src /\ r.dst = dst /\ r.pc = at
      /\ r.where = there /\ r.todo = ids /\ r.work = {} /\ r.accepted = {} /\ r.won = {} /\ r.lost = {}
      /\ r.relocated = {}
  BY <1>5
<1>9. Partition(r) /\ ChangeShape(r) /\ OtherShape(r)
  BY <1>0, <1>1, <1>3, <1>8 DEF Partition, ChangeShape, OtherShape, AnyKind, Changes, Relocating, MoveKinds
<1>10. PlaceShape(r) /\ RemoveShape(r) /\ EmptyShape(r)
  BY <1>0, <1>2, <1>3, <1>8 DEF PlaceShape, RemoveShape, EmptyShape, Holding, AnyKind, Changes, Relocating, MoveKinds
<1> QED
  BY <1>0, <1>3, <1>7, <1>8, <1>9, <1>10 DEF MailShape, r, AnyKind

LEMMA ThrewShape ==
  ASSUME NEW r, MailShape(r), r.pc # "idle"
  PROVE  MailShape([r EXCEPT !.pc = "threw"])
<1> DEFINE n == [r EXCEPT !.pc = "threw"]
<1>1. r \in MailOps
  BY DEF MailShape
<1>2. n \in MailOps /\ n.pc = "threw"
  BY <1>1 DEF MailOps, AnyPc
<1>3. /\ n.kind = r.kind /\ n.bulk = r.bulk /\ n.ids = r.ids /\ n.src = r.src /\ n.dst = r.dst
      /\ n.where = r.where /\ n.todo = r.todo /\ n.work = r.work /\ n.accepted = r.accepted
      /\ n.won = r.won /\ n.lost = r.lost /\ n.relocated = r.relocated
  BY <1>1 DEF MailOps
<1> HIDE DEF n
<1>4. Partition(r) => Partition(n)
  BY <1>3 DEF Partition
<1>5. ChangeShape(n) /\ OtherShape(n)
  BY <1>2, <1>3, <1>4 DEF MailShape, ChangeShape, OtherShape
<1>6. PlaceShape(n) /\ RemoveShape(n) /\ EmptyShape(n)
  BY <1>2, <1>3 DEF MailShape, PlaceShape, RemoveShape, EmptyShape, Holding
<1>7. n.kind = "none" <=> n.pc = "idle"
  BY <1>2, <1>3 DEF MailShape
<1> QED
  BY <1>2, <1>5, <1>6, <1>7 DEF MailShape, n

LEMMA FoundShape ==
  ASSUME NEW r, MailShape(r), NEW u \in Uids, NEW f \in Folders, r.pc = "find"
  PROVE  MailShape([r EXCEPT !.where[u] = f, !.scan = {}])
<1> DEFINE n == [r EXCEPT !.where[u] = f, !.scan = {}]
<1>1. r \in MailOps
  BY DEF MailShape
<1>2. n \in MailOps
  BY <1>1 DEF MailOps, AnyPc, IdSet, FolderSet, Place, WhereSet
<1>3. n.where = [r.where EXCEPT ![u] = f]
  BY <1>1 DEF MailOps
<1>4. /\ n.kind = r.kind /\ n.bulk = r.bulk /\ n.ids = r.ids /\ n.src = r.src /\ n.dst = r.dst
      /\ n.pc = r.pc /\ n.todo = r.todo /\ n.cur = r.cur /\ n.work = r.work
      /\ n.accepted = r.accepted /\ n.won = r.won /\ n.lost = r.lost /\ n.relocated = r.relocated
  BY <1>1 DEF MailOps
<1> HIDE DEF n
<1>5. (n.kind = "none" <=> n.pc = "idle") /\ (n.kind \in Changes => Partition(n))
  BY <1>1, <1>3, <1>4 DEF MailOps, IdSet, MailShape, ChangeShape, OtherShape, Partition
<1>6. ChangeShape(n) /\ OtherShape(n)
  BY <1>3, <1>4, <1>5 DEF MailShape, ChangeShape, OtherShape, PlaceShape, Changes, Relocating, MoveKinds
<1>7. PlaceShape(n)
  BY <1>3, <1>4 DEF MailShape, ChangeShape, OtherShape, PlaceShape, Changes, Relocating, MoveKinds, Holding
<1>8. RemoveShape(n) /\ EmptyShape(n)
  BY <1>3, <1>4 DEF MailShape, ChangeShape, OtherShape, PlaceShape, RemoveShape, EmptyShape, Changes, Relocating, MoveKinds, Holding
<1> QED
  BY <1>2, <1>5, <1>6, <1>7, <1>8 DEF MailShape, n

LEMMA ScanShape ==
  ASSUME NEW r, MailShape(r), NEW S \in SUBSET Folders
  PROVE  MailShape([r EXCEPT !.scan = S])
<1> DEFINE n == [r EXCEPT !.scan = S]
<1>1. r \in MailOps
  BY DEF MailShape
<1>2. n \in MailOps
  BY <1>1 DEF MailOps, AnyPc, IdSet, FolderSet, Place
<1>3. n.scan = S
  BY <1>1 DEF MailOps
<1>4. /\ n.kind = r.kind /\ n.bulk = r.bulk /\ n.ids = r.ids /\ n.src = r.src /\ n.dst = r.dst
      /\ n.pc = r.pc /\ n.where = r.where /\ n.todo = r.todo /\ n.cur = r.cur /\ n.work = r.work
      /\ n.accepted = r.accepted /\ n.won = r.won /\ n.lost = r.lost /\ n.relocated = r.relocated
  BY <1>1 DEF MailOps
<1> HIDE DEF n
<1>5. (n.kind = "none" <=> n.pc = "idle") /\ (n.kind \in Changes => Partition(n))
  BY <1>1, <1>3, <1>4 DEF MailOps, IdSet, MailShape, ChangeShape, OtherShape, Partition
<1>6. ChangeShape(n) /\ OtherShape(n)
  BY <1>3, <1>4, <1>5 DEF MailShape, ChangeShape, OtherShape, PlaceShape, Changes, Relocating, MoveKinds
<1>7. PlaceShape(n)
  BY <1>3, <1>4 DEF MailShape, ChangeShape, OtherShape, PlaceShape, Changes, Relocating, MoveKinds, Holding
<1>8. RemoveShape(n) /\ EmptyShape(n)
  BY <1>3, <1>4 DEF MailShape, ChangeShape, OtherShape, PlaceShape, RemoveShape, EmptyShape, Changes, Relocating, MoveKinds, Holding
<1> QED
  BY <1>2, <1>5, <1>6, <1>7, <1>8 DEF MailShape, n

LEMMA LostShape ==
  ASSUME NEW r, MailShape(r), NEW u \in r.todo, r.pc = "find"
  PROVE  MailShape([r EXCEPT !.lost = @ \cup {u}, !.todo = @ \ {u}, !.scan = {}])
<1> DEFINE n == [r EXCEPT !.lost = @ \cup {u}, !.todo = @ \ {u}, !.scan = {}]
<1>1. r \in MailOps
  BY DEF MailShape
<1>2. n \in MailOps
  BY <1>1 DEF MailOps, AnyPc, IdSet, FolderSet, Place
<1>3. n.lost = r.lost \cup {u} /\ n.todo = r.todo \ {u}
  BY <1>1 DEF MailOps
<1>4. /\ n.kind = r.kind /\ n.bulk = r.bulk /\ n.ids = r.ids /\ n.src = r.src /\ n.dst = r.dst
      /\ n.pc = r.pc /\ n.where = r.where /\ n.cur = r.cur /\ n.work = r.work
      /\ n.accepted = r.accepted /\ n.won = r.won /\ n.relocated = r.relocated
  BY <1>1 DEF MailOps
<1> HIDE DEF n
<1>5. (n.kind = "none" <=> n.pc = "idle") /\ (n.kind \in Changes => Partition(n))
  BY <1>1, <1>3, <1>4 DEF MailOps, IdSet, MailShape, ChangeShape, OtherShape, Partition
<1>6. ChangeShape(n) /\ OtherShape(n)
  BY <1>3, <1>4, <1>5 DEF MailShape, ChangeShape, OtherShape, PlaceShape, Changes, Relocating, MoveKinds
<1>7. PlaceShape(n)
  BY <1>3, <1>4 DEF MailShape, ChangeShape, OtherShape, PlaceShape, Changes, Relocating, MoveKinds, Holding
<1>8. RemoveShape(n) /\ EmptyShape(n)
  BY <1>3, <1>4 DEF MailShape, ChangeShape, OtherShape, PlaceShape, RemoveShape, EmptyShape, Changes, Relocating, MoveKinds, Holding
<1> QED
  BY <1>2, <1>5, <1>6, <1>7, <1>8 DEF MailShape, n

LEMMA DoneShape ==
  ASSUME NEW r, MailShape(r), r.kind \notin Changes, r.pc # "idle"
  PROVE  MailShape([r EXCEPT !.pc = "done"])
<1> DEFINE n == [r EXCEPT !.pc = "done"]
<1>1. r \in MailOps
  BY DEF MailShape
<1>2. n \in MailOps
  BY <1>1 DEF MailOps, AnyPc, IdSet, FolderSet, Place
<1>3. n.pc = "done"
  BY <1>1 DEF MailOps
<1>4. /\ n.kind = r.kind /\ n.bulk = r.bulk /\ n.ids = r.ids /\ n.src = r.src /\ n.dst = r.dst
      /\ n.where = r.where /\ n.todo = r.todo /\ n.cur = r.cur /\ n.work = r.work
      /\ n.accepted = r.accepted /\ n.won = r.won /\ n.lost = r.lost /\ n.relocated = r.relocated
  BY <1>1 DEF MailOps
<1> HIDE DEF n
<1>5. (n.kind = "none" <=> n.pc = "idle") /\ (n.kind \in Changes => Partition(n))
  BY <1>1, <1>3, <1>4 DEF MailOps, IdSet, MailShape, ChangeShape, OtherShape, Partition
<1>6. ChangeShape(n) /\ OtherShape(n)
  BY <1>3, <1>4, <1>5 DEF MailShape, ChangeShape, OtherShape, PlaceShape, Changes, Relocating, MoveKinds
<1>7. PlaceShape(n)
  BY <1>3, <1>4 DEF MailShape, ChangeShape, OtherShape, PlaceShape, Changes, Relocating, MoveKinds, Holding
<1>8. RemoveShape(n) /\ EmptyShape(n)
  BY <1>3, <1>4 DEF MailShape, ChangeShape, OtherShape, PlaceShape, RemoveShape, EmptyShape, Changes, Relocating, MoveKinds, Holding
<1> QED
  BY <1>2, <1>5, <1>6, <1>7, <1>8 DEF MailShape, n

LEMMA GroupShape ==
  ASSUME NEW r, MailShape(r), r.pc = "find", r.kind # "read", r.kind \in Changes
  PROVE  MailShape([r EXCEPT !.pc = "group"])
<1> DEFINE n == [r EXCEPT !.pc = "group"]
<1>1. r \in MailOps
  BY DEF MailShape
<1>2. n \in MailOps
  BY <1>1 DEF MailOps, AnyPc, IdSet, FolderSet, Place
<1>3. n.pc = "group"
  BY <1>1 DEF MailOps
<1>4. /\ n.kind = r.kind /\ n.bulk = r.bulk /\ n.ids = r.ids /\ n.src = r.src /\ n.dst = r.dst
      /\ n.where = r.where /\ n.todo = r.todo /\ n.cur = r.cur /\ n.work = r.work
      /\ n.accepted = r.accepted /\ n.won = r.won /\ n.lost = r.lost /\ n.relocated = r.relocated
  BY <1>1 DEF MailOps
<1> HIDE DEF n
<1>5. (n.kind = "none" <=> n.pc = "idle") /\ (n.kind \in Changes => Partition(n))
  BY <1>1, <1>3, <1>4 DEF MailOps, IdSet, MailShape, ChangeShape, OtherShape, Partition
<1>6. ChangeShape(n) /\ OtherShape(n)
  BY <1>3, <1>4, <1>5 DEF MailShape, ChangeShape, OtherShape, PlaceShape, Changes, Relocating, MoveKinds
<1>7. PlaceShape(n)
  BY <1>3, <1>4 DEF MailShape, ChangeShape, OtherShape, PlaceShape, Changes, Relocating, MoveKinds, Holding
<1>8. RemoveShape(n) /\ EmptyShape(n)
  BY <1>3, <1>4 DEF MailShape, ChangeShape, OtherShape, PlaceShape, RemoveShape, EmptyShape, Changes, Relocating, MoveKinds, Holding
<1> QED
  BY <1>2, <1>5, <1>6, <1>7, <1>8 DEF MailShape, n

LEMMA TakeShape ==
  ASSUME NEW r, MailShape(r), NEW U \in SUBSET Uids, NEW pc, r.pc = "open", (r.kind = "search" /\ pc = "fetch") \/ (r.kind = "empty" /\ pc = "change")
  PROVE  MailShape([r EXCEPT !.cur = r.src, !.work = U, !.ids = U, !.pc = pc])
<1> DEFINE n == [r EXCEPT !.cur = r.src, !.work = U, !.ids = U, !.pc = pc]
<1>1. r \in MailOps
  BY DEF MailShape
<1>2. n \in MailOps
  BY <1>1 DEF MailOps, AnyPc, IdSet, FolderSet, Place
<1>3. n.cur = r.src /\ n.work = U /\ n.ids = U /\ n.pc = pc
  BY <1>1 DEF MailOps
<1>4. /\ n.kind = r.kind /\ n.bulk = r.bulk /\ n.src = r.src /\ n.dst = r.dst /\ n.where = r.where
      /\ n.todo = r.todo /\ n.accepted = r.accepted /\ n.won = r.won /\ n.lost = r.lost
      /\ n.relocated = r.relocated
  BY <1>1 DEF MailOps
<1> HIDE DEF n
<1>5. (n.kind = "none" <=> n.pc = "idle") /\ (n.kind \in Changes => Partition(n))
  BY <1>1, <1>3, <1>4 DEF MailOps, IdSet, MailShape, ChangeShape, OtherShape, Partition
<1>6. ChangeShape(n) /\ OtherShape(n)
  BY <1>3, <1>4, <1>5 DEF MailShape, ChangeShape, OtherShape, PlaceShape, Changes, Relocating, MoveKinds
<1>7. PlaceShape(n)
  BY <1>3, <1>4 DEF MailShape, ChangeShape, OtherShape, PlaceShape, Changes, Relocating, MoveKinds, Holding
<1>8. RemoveShape(n) /\ EmptyShape(n)
  BY <1>3, <1>4 DEF MailShape, ChangeShape, OtherShape, PlaceShape, RemoveShape, EmptyShape, Changes, Relocating, MoveKinds, Holding
<1> QED
  BY <1>2, <1>5, <1>6, <1>7, <1>8 DEF MailShape, n

LEMMA FetchShape ==
  ASSUME NEW r, MailShape(r), NEW W \in SUBSET Uids, r.kind \notin Changes
  PROVE  MailShape([r EXCEPT !.work = W])
<1> DEFINE n == [r EXCEPT !.work = W]
<1>1. r \in MailOps
  BY DEF MailShape
<1>2. n \in MailOps
  BY <1>1 DEF MailOps, AnyPc, IdSet, FolderSet, Place
<1>3. n.work = W
  BY <1>1 DEF MailOps
<1>4. /\ n.kind = r.kind /\ n.bulk = r.bulk /\ n.ids = r.ids /\ n.src = r.src /\ n.dst = r.dst
      /\ n.pc = r.pc /\ n.where = r.where /\ n.todo = r.todo /\ n.cur = r.cur
      /\ n.accepted = r.accepted /\ n.won = r.won /\ n.lost = r.lost /\ n.relocated = r.relocated
  BY <1>1 DEF MailOps
<1> HIDE DEF n
<1>5. (n.kind = "none" <=> n.pc = "idle") /\ (n.kind \in Changes => Partition(n))
  BY <1>1, <1>3, <1>4 DEF MailOps, IdSet, MailShape, ChangeShape, OtherShape, Partition
<1>6. ChangeShape(n) /\ OtherShape(n)
  BY <1>3, <1>4, <1>5 DEF MailShape, ChangeShape, OtherShape, PlaceShape, Changes, Relocating, MoveKinds
<1>7. PlaceShape(n)
  BY <1>3, <1>4 DEF MailShape, ChangeShape, OtherShape, PlaceShape, Changes, Relocating, MoveKinds, Holding
<1>8. RemoveShape(n) /\ EmptyShape(n)
  BY <1>3, <1>4 DEF MailShape, ChangeShape, OtherShape, PlaceShape, RemoveShape, EmptyShape, Changes, Relocating, MoveKinds, Holding
<1> QED
  BY <1>2, <1>5, <1>6, <1>7, <1>8 DEF MailShape, n

LEMMA SkipShape ==
  ASSUME NEW r, MailShape(r), NEW W \in SUBSET r.todo, r.pc = "group"
  PROVE  MailShape([r EXCEPT !.won = @ \cup W, !.todo = @ \ W])
<1> DEFINE n == [r EXCEPT !.won = @ \cup W, !.todo = @ \ W]
<1>1. r \in MailOps
  BY DEF MailShape
<1>2. n \in MailOps
  BY <1>1 DEF MailOps, AnyPc, IdSet, FolderSet, Place
<1>3. n.won = r.won \cup W /\ n.todo = r.todo \ W
  BY <1>1 DEF MailOps
<1>4. /\ n.kind = r.kind /\ n.bulk = r.bulk /\ n.ids = r.ids /\ n.src = r.src /\ n.dst = r.dst
      /\ n.pc = r.pc /\ n.where = r.where /\ n.cur = r.cur /\ n.work = r.work
      /\ n.accepted = r.accepted /\ n.lost = r.lost /\ n.relocated = r.relocated
  BY <1>1 DEF MailOps
<1> HIDE DEF n
<1>5. (n.kind = "none" <=> n.pc = "idle") /\ (n.kind \in Changes => Partition(n))
  BY <1>1, <1>3, <1>4 DEF MailOps, IdSet, MailShape, ChangeShape, OtherShape, Partition
<1>6. ChangeShape(n) /\ OtherShape(n)
  BY <1>3, <1>4, <1>5 DEF MailShape, ChangeShape, OtherShape, PlaceShape, Changes, Relocating, MoveKinds
<1>7. PlaceShape(n)
  BY <1>3, <1>4 DEF MailShape, ChangeShape, OtherShape, PlaceShape, Changes, Relocating, MoveKinds, Holding
<1>8. RemoveShape(n) /\ EmptyShape(n)
  BY <1>3, <1>4 DEF MailShape, ChangeShape, OtherShape, PlaceShape, RemoveShape, EmptyShape, Changes, Relocating, MoveKinds, Holding
<1> QED
  BY <1>2, <1>5, <1>6, <1>7, <1>8 DEF MailShape, n

LEMMA LockShape ==
  ASSUME NEW r, MailShape(r), NEW W \in SUBSET r.todo, NEW f \in Folders, r.pc = "group", r.kind \in MoveKinds => f # r.dst, r.kind = "remove" => f = Label
  PROVE  MailShape([r EXCEPT !.cur = f, !.work = W, !.todo = @ \ W, !.pc = "check"])
<1> DEFINE n == [r EXCEPT !.cur = f, !.work = W, !.todo = @ \ W, !.pc = "check"]
<1>1. r \in MailOps
  BY DEF MailShape
<1>2. n \in MailOps
  BY <1>1 DEF MailOps, AnyPc, IdSet, FolderSet, Place
<1>3. n.cur = f /\ n.work = W /\ n.todo = r.todo \ W /\ n.pc = "check"
  BY <1>1 DEF MailOps
<1>4. /\ n.kind = r.kind /\ n.bulk = r.bulk /\ n.ids = r.ids /\ n.src = r.src /\ n.dst = r.dst
      /\ n.where = r.where /\ n.accepted = r.accepted /\ n.won = r.won /\ n.lost = r.lost
      /\ n.relocated = r.relocated
  BY <1>1 DEF MailOps
<1> HIDE DEF n
<1>5. (n.kind = "none" <=> n.pc = "idle") /\ (n.kind \in Changes => Partition(n))
  BY <1>1, <1>3, <1>4 DEF MailOps, IdSet, MailShape, ChangeShape, OtherShape, Partition
<1>6. ChangeShape(n) /\ OtherShape(n)
  BY <1>3, <1>4, <1>5 DEF MailShape, ChangeShape, OtherShape, PlaceShape, Changes, Relocating, MoveKinds
<1>7. PlaceShape(n)
  BY <1>3, <1>4 DEF MailShape, ChangeShape, OtherShape, PlaceShape, Changes, Relocating, MoveKinds, Holding
<1>8. RemoveShape(n) /\ EmptyShape(n)
  BY <1>3, <1>4 DEF MailShape, ChangeShape, OtherShape, PlaceShape, RemoveShape, EmptyShape, Changes, Relocating, MoveKinds, Holding
<1> QED
  BY <1>2, <1>5, <1>6, <1>7, <1>8 DEF MailShape, n

LEMMA CheckedShape ==
  ASSUME NEW r, MailShape(r), NEW W \in SUBSET r.work, NEW was \in WasSet, NEW pc, r.pc = "check", pc = IF W = {} THEN "leave" ELSE IF r.kind \in Relocating THEN "mids" ELSE "change"
  PROVE  MailShape([r EXCEPT !.work = W, !.lost = @ \cup (r.work \ W), !.was = was, !.pc = pc])
<1> DEFINE n == [r EXCEPT !.work = W, !.lost = @ \cup (r.work \ W), !.was = was, !.pc = pc]
<1>1. r \in MailOps
  BY DEF MailShape
<1>2. n \in MailOps
  BY <1>1 DEF MailOps, AnyPc, IdSet, FolderSet, Place
<1>3. n.work = W /\ n.lost = r.lost \cup (r.work \ W) /\ n.pc = pc
  BY <1>1 DEF MailOps
<1>4. /\ n.kind = r.kind /\ n.bulk = r.bulk /\ n.ids = r.ids /\ n.src = r.src /\ n.dst = r.dst
      /\ n.where = r.where /\ n.todo = r.todo /\ n.cur = r.cur /\ n.accepted = r.accepted
      /\ n.won = r.won /\ n.relocated = r.relocated
  BY <1>1 DEF MailOps
<1> HIDE DEF n
<1>5. (n.kind = "none" <=> n.pc = "idle") /\ (n.kind \in Changes => Partition(n))
  BY <1>1, <1>3, <1>4 DEF MailOps, IdSet, MailShape, ChangeShape, OtherShape, Partition
<1>6. ChangeShape(n) /\ OtherShape(n)
  BY <1>3, <1>4, <1>5 DEF MailShape, ChangeShape, OtherShape, PlaceShape, Changes, Relocating, MoveKinds
<1>7. PlaceShape(n)
  BY <1>3, <1>4 DEF MailShape, ChangeShape, OtherShape, PlaceShape, Changes, Relocating, MoveKinds, Holding
<1>8. RemoveShape(n) /\ EmptyShape(n)
  BY <1>3, <1>4 DEF MailShape, ChangeShape, OtherShape, PlaceShape, RemoveShape, EmptyShape, Changes, Relocating, MoveKinds, Holding
<1> QED
  BY <1>2, <1>5, <1>6, <1>7, <1>8 DEF MailShape, n

LEMMA NamedShape ==
  ASSUME NEW r, MailShape(r), NEW W \in SUBSET r.work, NEW was \in WasSet, r.pc = "mids"
  PROVE  MailShape([r EXCEPT !.mid = @ \cup W, !.was = was, !.pc = "change"])
<1> DEFINE n == [r EXCEPT !.mid = @ \cup W, !.was = was, !.pc = "change"]
<1>1. r \in MailOps
  BY DEF MailShape
<1>2. n \in MailOps
  BY <1>1 DEF MailOps, AnyPc, IdSet, FolderSet, Place
<1>3. n.pc = "change"
  BY <1>1 DEF MailOps
<1>4. /\ n.kind = r.kind /\ n.bulk = r.bulk /\ n.ids = r.ids /\ n.src = r.src /\ n.dst = r.dst
      /\ n.where = r.where /\ n.todo = r.todo /\ n.cur = r.cur /\ n.work = r.work
      /\ n.accepted = r.accepted /\ n.won = r.won /\ n.lost = r.lost /\ n.relocated = r.relocated
  BY <1>1 DEF MailOps
<1> HIDE DEF n
<1>5. (n.kind = "none" <=> n.pc = "idle") /\ (n.kind \in Changes => Partition(n))
  BY <1>1, <1>3, <1>4 DEF MailOps, IdSet, MailShape, ChangeShape, OtherShape, Partition
<1>6. ChangeShape(n) /\ OtherShape(n)
  BY <1>3, <1>4, <1>5 DEF MailShape, ChangeShape, OtherShape, PlaceShape, Changes, Relocating, MoveKinds
<1>7. PlaceShape(n)
  BY <1>3, <1>4 DEF MailShape, ChangeShape, OtherShape, PlaceShape, Changes, Relocating, MoveKinds, Holding
<1>8. RemoveShape(n) /\ EmptyShape(n)
  BY <1>3, <1>4 DEF MailShape, ChangeShape, OtherShape, PlaceShape, RemoveShape, EmptyShape, Changes, Relocating, MoveKinds, Holding
<1> QED
  BY <1>2, <1>5, <1>6, <1>7, <1>8 DEF MailShape, n

LEMMA AcceptShape ==
  ASSUME NEW r, MailShape(r), NEW U \in SUBSET r.work, NEW n \in MailOps,
         r.pc \in {"change", "each"}, n.pc = IF r.work \subseteq U THEN "leave" ELSE r.pc,
         r.pc = "change" => n.pc = "leave",
         n.work = r.work \ U, n.relocated \subseteq r.relocated \cup U,
         n.accepted = r.accepted \cup IF r.kind \in Relocating \/ (r.kind = "remove" /\ r.pc = "each") THEN U ELSE {},
         n.won = r.won \cup IF r.kind \in Relocating THEN {} ELSE U,
         n.kind = r.kind, n.bulk = r.bulk, n.ids = r.ids, n.src = r.src, n.dst = r.dst,
         n.where = r.where, n.todo = r.todo, n.cur = r.cur, n.lost = r.lost
  PROVE  MailShape(n)
<1>1. r \in MailOps
  BY DEF MailShape
<1>5. (n.kind = "none" <=> n.pc = "idle") /\ (n.kind \in Changes => Partition(n))
  BY <1>1 DEF MailOps, IdSet, MailShape, ChangeShape, OtherShape, Partition, Relocating, MoveKinds
<1>6. ChangeShape(n) /\ OtherShape(n)
  BY <1>5 DEF MailShape, ChangeShape, OtherShape, PlaceShape, Changes, Relocating, MoveKinds
<1>7. PlaceShape(n)
  BY DEF MailShape, ChangeShape, OtherShape, PlaceShape, Changes, Relocating, MoveKinds, Holding
<1>8. RemoveShape(n) /\ EmptyShape(n)
  BY DEF MailShape, ChangeShape, OtherShape, PlaceShape, RemoveShape, EmptyShape, Changes, Relocating, MoveKinds, Holding
<1> QED
  BY <1>5, <1>6, <1>7, <1>8 DEF MailShape

LEMMA EachShape ==
  ASSUME NEW r, MailShape(r), r.pc = "change", r.bulk
  PROVE  MailShape([r EXCEPT !.pc = "each"])
<1> DEFINE n == [r EXCEPT !.pc = "each"]
<1>1. r \in MailOps
  BY DEF MailShape
<1>2. n \in MailOps
  BY <1>1 DEF MailOps, AnyPc, IdSet, FolderSet, Place
<1>3. n.pc = "each"
  BY <1>1 DEF MailOps
<1>4. /\ n.kind = r.kind /\ n.bulk = r.bulk /\ n.ids = r.ids /\ n.src = r.src /\ n.dst = r.dst
      /\ n.where = r.where /\ n.todo = r.todo /\ n.cur = r.cur /\ n.work = r.work
      /\ n.accepted = r.accepted /\ n.won = r.won /\ n.lost = r.lost /\ n.relocated = r.relocated
  BY <1>1 DEF MailOps
<1> HIDE DEF n
<1>5. (n.kind = "none" <=> n.pc = "idle") /\ (n.kind \in Changes => Partition(n))
  BY <1>1, <1>3, <1>4 DEF MailOps, IdSet, MailShape, ChangeShape, OtherShape, Partition
<1>6. ChangeShape(n) /\ OtherShape(n)
  BY <1>3, <1>4, <1>5 DEF MailShape, ChangeShape, OtherShape, PlaceShape, Changes, Relocating, MoveKinds
<1>7. PlaceShape(n)
  BY <1>3, <1>4 DEF MailShape, ChangeShape, OtherShape, PlaceShape, Changes, Relocating, MoveKinds, Holding
<1>8. RemoveShape(n) /\ EmptyShape(n)
  BY <1>3, <1>4 DEF MailShape, ChangeShape, OtherShape, PlaceShape, RemoveShape, EmptyShape, Changes, Relocating, MoveKinds, Holding
<1> QED
  BY <1>2, <1>5, <1>6, <1>7, <1>8 DEF MailShape, n

LEMMA FailedShape ==
  ASSUME NEW r, MailShape(r), NEW U \in SUBSET r.work, NEW n \in MailOps,
         r.pc = "each", n.pc = IF r.work \subseteq U THEN "leave" ELSE r.pc,
         n.work = r.work \ U, n.lost = r.lost \cup U,
         n.kind = r.kind, n.bulk = r.bulk, n.ids = r.ids, n.src = r.src, n.dst = r.dst,
         n.where = r.where, n.todo = r.todo, n.cur = r.cur, n.accepted = r.accepted, n.won = r.won,
         n.relocated = r.relocated
  PROVE  MailShape(n)
<1>1. r \in MailOps
  BY DEF MailShape
<1>5. (n.kind = "none" <=> n.pc = "idle") /\ (n.kind \in Changes => Partition(n))
  BY <1>1 DEF MailOps, IdSet, MailShape, ChangeShape, OtherShape, Partition
<1>6. ChangeShape(n) /\ OtherShape(n)
  BY <1>5 DEF MailShape, ChangeShape, OtherShape, PlaceShape, Changes, Relocating, MoveKinds
<1>7. PlaceShape(n)
  BY DEF MailShape, ChangeShape, OtherShape, PlaceShape, Changes, Relocating, MoveKinds, Holding
<1>8. RemoveShape(n) /\ EmptyShape(n)
  BY DEF MailShape, ChangeShape, OtherShape, PlaceShape, RemoveShape, EmptyShape, Changes, Relocating, MoveKinds, Holding
<1> QED
  BY <1>5, <1>6, <1>7, <1>8 DEF MailShape

LEMMA PurgedShape ==
  ASSUME NEW r, MailShape(r), r.pc = "leave", r.kind = "remove"
  PROVE  MailShape([r EXCEPT !.accepted = {}])
<1> DEFINE n == [r EXCEPT !.accepted = {}]
<1>1. r \in MailOps
  BY DEF MailShape
<1>2. n \in MailOps
  BY <1>1 DEF MailOps, AnyPc, IdSet, FolderSet, Place
<1>3. n.accepted = {}
  BY <1>1 DEF MailOps
<1>4. /\ n.kind = r.kind /\ n.bulk = r.bulk /\ n.ids = r.ids /\ n.src = r.src /\ n.dst = r.dst
      /\ n.pc = r.pc /\ n.where = r.where /\ n.todo = r.todo /\ n.cur = r.cur /\ n.work = r.work
      /\ n.won = r.won /\ n.lost = r.lost /\ n.relocated = r.relocated
  BY <1>1 DEF MailOps
<1> HIDE DEF n
<1>5. (n.kind = "none" <=> n.pc = "idle") /\ (n.kind \in Changes => Partition(n))
  BY <1>1, <1>3, <1>4 DEF MailOps, IdSet, MailShape, ChangeShape, OtherShape, Partition
<1>6. ChangeShape(n) /\ OtherShape(n)
  BY <1>3, <1>4, <1>5 DEF MailShape, ChangeShape, OtherShape, PlaceShape, Changes, Relocating, MoveKinds
<1>7. PlaceShape(n)
  BY <1>3, <1>4 DEF MailShape, ChangeShape, OtherShape, PlaceShape, Changes, Relocating, MoveKinds, Holding
<1>8. RemoveShape(n) /\ EmptyShape(n)
  BY <1>3, <1>4 DEF MailShape, ChangeShape, OtherShape, PlaceShape, RemoveShape, EmptyShape, Changes, Relocating, MoveKinds, Holding
<1> QED
  BY <1>2, <1>5, <1>6, <1>7, <1>8 DEF MailShape, n

LEMMA LeftShape ==
  ASSUME NEW r, MailShape(r), NEW pc, r.pc = "leave", r.kind = "remove" => r.accepted = {}, 
         (r.kind \in Relocating /\ pc = "verify") \/ (r.kind \notin Relocating /\ r.todo = {} /\ pc = "done")
           \/ (r.kind \notin Relocating /\ r.todo # {} /\ pc = "group")
  PROVE  MailShape([r EXCEPT !.pc = pc])
<1> DEFINE n == [r EXCEPT !.pc = pc]
<1>1. r \in MailOps
  BY DEF MailShape
<1>2. n \in MailOps
  BY <1>1 DEF MailOps, AnyPc, IdSet, FolderSet, Place
<1>3. n.pc = pc
  BY <1>1 DEF MailOps
<1>4. /\ n.kind = r.kind /\ n.bulk = r.bulk /\ n.ids = r.ids /\ n.src = r.src /\ n.dst = r.dst
      /\ n.where = r.where /\ n.todo = r.todo /\ n.cur = r.cur /\ n.work = r.work
      /\ n.accepted = r.accepted /\ n.won = r.won /\ n.lost = r.lost /\ n.relocated = r.relocated
  BY <1>1 DEF MailOps
<1> HIDE DEF n
<1>5. (n.kind = "none" <=> n.pc = "idle") /\ (n.kind \in Changes => Partition(n))
  BY <1>1, <1>3, <1>4 DEF MailOps, IdSet, MailShape, ChangeShape, OtherShape, Partition, EmptyShape
<1>6. ChangeShape(n) /\ OtherShape(n)
  BY <1>3, <1>4, <1>5 DEF MailShape, ChangeShape, OtherShape, PlaceShape, Changes, Relocating, MoveKinds, EmptyShape
<1>7. PlaceShape(n)
  BY <1>3, <1>4 DEF MailShape, ChangeShape, OtherShape, PlaceShape, Changes, Relocating, MoveKinds, Holding, EmptyShape
<1>8. RemoveShape(n) /\ EmptyShape(n)
  BY <1>3, <1>4 DEF MailShape, ChangeShape, OtherShape, PlaceShape, RemoveShape, EmptyShape, Changes, Relocating, MoveKinds, Holding, EmptyShape
<1> QED
  BY <1>2, <1>5, <1>6, <1>7, <1>8 DEF MailShape, n

LEMMA VerifiedShape ==
  ASSUME NEW r, MailShape(r), NEW V \in SUBSET r.accepted, NEW yes \in SUBSET V, NEW pc, r.pc = "verify", r.todo = {} => V = r.accepted, pc = IF r.todo = {} THEN "done" ELSE "group"
  PROVE  MailShape([r EXCEPT !.won = @ \cup yes, !.lost = @ \cup (V \ yes), !.accepted = @ \ V, !.pc = pc])
<1> DEFINE n == [r EXCEPT !.won = @ \cup yes, !.lost = @ \cup (V \ yes), !.accepted = @ \ V, !.pc = pc]
<1>1. r \in MailOps
  BY DEF MailShape
<1>0. yes \in IdSet /\ V \in IdSet /\ r.kind \in Relocating
  BY <1>1 DEF MailOps, IdSet, MailShape, PlaceShape
<1>2. n \in MailOps
  BY <1>1, <1>0 DEF MailOps, AnyPc, IdSet, FolderSet, Place
<1>3. n.won = r.won \cup yes /\ n.lost = r.lost \cup (V \ yes) /\ n.accepted = r.accepted \ V /\ n.pc = pc
  BY <1>1 DEF MailOps
<1>4. /\ n.kind = r.kind /\ n.bulk = r.bulk /\ n.ids = r.ids /\ n.src = r.src /\ n.dst = r.dst
      /\ n.where = r.where /\ n.todo = r.todo /\ n.cur = r.cur /\ n.work = r.work
      /\ n.relocated = r.relocated
  BY <1>1 DEF MailOps
<1> HIDE DEF n
<1>5. (n.kind = "none" <=> n.pc = "idle") /\ (n.kind \in Changes => Partition(n))
  BY <1>1, <1>3, <1>4, <1>0 DEF MailOps, IdSet, MailShape, ChangeShape, OtherShape, Partition, Relocating, MoveKinds
<1>6. ChangeShape(n) /\ OtherShape(n)
  BY <1>3, <1>4, <1>5 DEF MailShape, ChangeShape, OtherShape, PlaceShape, Changes, Relocating, MoveKinds
<1>7. PlaceShape(n)
  BY <1>3, <1>4 DEF MailShape, ChangeShape, OtherShape, PlaceShape, Changes, Relocating, MoveKinds, Holding
<1>8. RemoveShape(n) /\ EmptyShape(n)
  BY <1>3, <1>4 DEF MailShape, ChangeShape, OtherShape, PlaceShape, RemoveShape, EmptyShape, Changes, Relocating, MoveKinds, Holding
<1> QED
  BY <1>2, <1>5, <1>6, <1>7, <1>8 DEF MailShape, n

LEMMA EndShape ==
  ASSUME NEW r, MailShape(r), NEW pc, r.pc = "group", r.todo = {}, pc = IF r.accepted = {} THEN "done" ELSE "verify"
  PROVE  MailShape([r EXCEPT !.pc = pc])
<1> DEFINE n == [r EXCEPT !.pc = pc]
<1>1. r \in MailOps
  BY DEF MailShape
<1>2. n \in MailOps
  BY <1>1 DEF MailOps, AnyPc, IdSet, FolderSet, Place
<1>3. n.pc = pc
  BY <1>1 DEF MailOps
<1>4. /\ n.kind = r.kind /\ n.bulk = r.bulk /\ n.ids = r.ids /\ n.src = r.src /\ n.dst = r.dst
      /\ n.where = r.where /\ n.todo = r.todo /\ n.cur = r.cur /\ n.work = r.work
      /\ n.accepted = r.accepted /\ n.won = r.won /\ n.lost = r.lost /\ n.relocated = r.relocated
  BY <1>1 DEF MailOps
<1> HIDE DEF n
<1>5. (n.kind = "none" <=> n.pc = "idle") /\ (n.kind \in Changes => Partition(n))
  BY <1>1, <1>3, <1>4 DEF MailOps, IdSet, MailShape, ChangeShape, OtherShape, Partition, RemoveShape
<1>6. ChangeShape(n) /\ OtherShape(n)
  BY <1>3, <1>4, <1>5 DEF MailShape, ChangeShape, OtherShape, PlaceShape, Changes, Relocating, MoveKinds, RemoveShape
<1>7. PlaceShape(n)
  BY <1>3, <1>4 DEF MailShape, ChangeShape, OtherShape, PlaceShape, Changes, Relocating, MoveKinds, Holding, RemoveShape
<1>8. RemoveShape(n) /\ EmptyShape(n)
  BY <1>3, <1>4 DEF MailShape, ChangeShape, OtherShape, PlaceShape, RemoveShape, EmptyShape, Changes, Relocating, MoveKinds, Holding, RemoveShape
<1> QED
  BY <1>2, <1>5, <1>6, <1>7, <1>8 DEF MailShape, n

------------------------------------------------------------------------------
(* What stands while others take a step                                       *)

Working == {"mids", "change", "each"}

LEMMA ArrivedKept ==
  ASSUME ServerMoves, NEW c \in MailCalls, MailShape(op[c]), Arrived(c),
         op'[c].kind = op[c].kind, op'[c].dst = op[c].dst,
         op'[c].won = op[c].won, op'[c].relocated = op[c].relocated,
         \A u \in op[c].won : op'[c].where[u] = op[c].where[u],
         \A u \in op[c].won \cup op[c].relocated : op'[c].was[u] = op[c].was[u]
  PROVE  Arrived(c)'
<1> SUFFICES ASSUME op[c].kind \in Relocating
             PROVE  /\ \A u \in op[c].won : op'[c].where[u] = op[c].dst \/ op'[c].was[u] \in reached'[c]
                    /\ \A u \in op[c].relocated : op'[c].was[u] \in reached'[c]
                    /\ (Inside(op[c].dst))' \subseteq reached'[c]
  BY DEF Arrived
<1>1. op[c].pc # "idle" /\ op[c].dst \in Real
  BY DEF MailShape, ChangeShape, Changes, Relocating, MoveKinds
<1>2. reached[c] \subseteq reached'[c] /\ (Inside(op[c].dst))' \subseteq Inside(op[c].dst) \cup reached'[c]
  BY <1>1 DEF ServerMoves
<1>3. /\ \A u \in op[c].won : op[c].where[u] = op[c].dst \/ op[c].was[u] \in reached[c]
      /\ \A u \in op[c].relocated : op[c].was[u] \in reached[c]
      /\ Inside(op[c].dst) \subseteq reached[c]
  BY DEF Arrived
<1> QED
  BY <1>2, <1>3

LEMMA AtWorkKept ==
  ASSUME ServerMoves, NEW c \in MailCalls, MailShape(op[c]), AtWork(c),
         op'[c].pc \in Working =>
           /\ op[c].pc \in Working /\ op'[c].kind = op[c].kind /\ op'[c].cur = op[c].cur
           /\ op'[c].work \subseteq op[c].work /\ op'[c].was = op[c].was
           /\ validity'[op[c].cur] = validity[op[c].cur]
  PROVE  AtWork(c)'
<1> SUFFICES ASSUME op'[c].pc \in Working, NEW u \in op'[c].work
             PROVE  /\ (Allotted(op[c].cur, u))'
                    /\ op[c].kind \in Relocating => (At(op[c].cur, u))' \in {None, op[c].was[u]}
  BY DEF AtWork, Working
<1> DEFINE f == op[c].cur
<1>1. f \in Folders /\ op[c].work \subseteq Uids
  BY DEF MailShape, PlaceShape, Working, Holding, MailOps, IdSet
<1>2. u \in Uids /\ Allotted(f, u) /\ (op[c].kind \in Relocating => At(f, u) \in {None, op[c].was[u]})
  BY <1>1 DEF AtWork, Working
<1>3. (At(f, u))' \in {At(f, u), None}
  BY <1>1, <1>2 DEF ServerMoves
<1>4. (Allotted(f, u))'
  BY <1>1, <1>2, FolderFacts DEF ServerMoves, Allotted
<1> QED
  BY <1>2, <1>3, <1>4

LEMMA TakenOffKept ==
  ASSUME ServerTyped, ServerMoves, NEW c \in MailCalls, MailShape(op[c]), TakenOff(c),
         op'[c].kind = op[c].kind, op'[c].won = op[c].won, op'[c].accepted = op[c].accepted,
         op[c].kind = "remove" /\ op'[c].pc \in Holding =>
           op[c].accepted = {} \/ (op[c].pc \in Holding /\ Entries' \subseteq Entries)
  PROVE  TakenOff(c)'
<1> SUFFICES ASSUME op[c].kind = "remove"
             PROVE  /\ \A u \in op[c].won :
                         /\ u < next'[Label]
                         /\ validity'[Label] = 1 /\ u \notin op[c].accepted => box'[Label][u] = None
                    /\ op'[c].pc \in Holding => \A u \in op[c].accepted : <<Label, u>> \notin Entries'
  BY DEF TakenOff
<1>1. op[c].won \subseteq Uids /\ Label \in Real /\ Label \in Folders
  BY FolderFacts DEF MailShape, MailOps, IdSet
<1>2. \A u \in op[c].won :
        /\ u < next'[Label]
        /\ validity'[Label] = 1 /\ u \notin op[c].accepted => box'[Label][u] = None
  <2> TAKE u \in op[c].won
  <2>1. u < next[Label] /\ (validity[Label] = 1 /\ u \notin op[c].accepted => box[Label][u] = None)
    BY DEF TakenOff
  <2>2. u < next'[Label]
    BY <1>1, <2>1 DEF ServerMoves
  <2>3. ASSUME validity'[Label] = 1, u \notin op[c].accepted
        PROVE  box'[Label][u] = None
    <3>1. validity[Label] = 1
      <4>1. validity[Label] \in Nat \ {0} /\ validity[Label] <= validity'[Label]
        BY <1>1 DEF ServerTyped, ServerMoves
      <4> QED
        BY <2>3, <4>1
    <3>2. (At(Label, u))' \in {At(Label, u), None}
      BY <1>1, <2>1, <2>3, <3>1 DEF ServerMoves, Allotted
    <3>3. At(Label, u) = box[Label][u] /\ (At(Label, u))' = box'[Label][u]
      BY <1>1, FolderFacts DEF At
    <3> QED
      BY <2>1, <2>3, <3>1, <3>2, <3>3
  <2> QED
    BY <2>2, <2>3
<1>3. op'[c].pc \in Holding => \A u \in op[c].accepted : <<Label, u>> \notin Entries'
  BY DEF TakenOff
<1> QED
  BY <1>2, <1>3

(* A call that takes no step stands, as long as nobody takes its mailbox away.  *)
LEMMA CallKept ==
  ASSUME ServerTyped, ServerMoves, NEW c \in MailCalls, MailShape(op[c]), CallStands(c), op'[c] = op[c],
         op[c].pc \in Holding =>
           holder' = c /\ Entries' \subseteq Entries /\ validity'[op[c].cur] = validity[op[c].cur]
  PROVE  CallStands(c)'
<1>1. Arrived(c)'
  BY ArrivedKept DEF CallStands
<1>2. AtWork(c)'
  BY AtWorkKept DEF CallStands, Working, Holding
<1>3. TakenOff(c)'
  BY TakenOffKept DEF CallStands
<1> QED
  BY <1>1, <1>2, <1>3 DEF CallStands

(* The step of one call, on the mailbox it holds or on one that nobody holds.   *)
StepOf(c) ==
  /\ ServerMoves
  /\ \A d \in MailCalls \ {c} : op'[d] = op[d]
  /\ holder \in {None, c} \/ (holder' = holder /\ Entries' \subseteq Entries)
  /\ \A f \in Folders : validity'[f] = validity[f]

LEMMA StepKept ==
  ASSUME MailboxInv, NEW c \in MailCalls, StepOf(c), op' = [op EXCEPT ![c] = op'[c]],
         ServerTyped', MailShape(op'[c]), CallStands(c)', \A s \in Entries' : EntryStands(s)'
  PROVE  MailboxInv'
<1>1. op' \in [MailCalls -> MailOps]
  BY DEF MailboxInv, MailShape
<1>2. \A d \in MailCalls \ {c} : MailShape(op'[d]) /\ CallStands(d)'
  <2> TAKE d \in MailCalls \ {c}
  <2>1. MailShape(op[d]) /\ CallStands(d) /\ op'[d] = op[d] /\ ServerTyped
    BY DEF MailboxInv, StepOf
  <2>2. op[d].pc \in Holding =>
          holder' = d /\ Entries' \subseteq Entries /\ validity'[op[d].cur] = validity[op[d].cur]
    <3> HAVE op[d].pc \in Holding
    <3>1. holder = d /\ d # None /\ op[d].cur \in Folders
      BY <2>1, MailboxAssumption DEF CallStands, MailShape, PlaceShape
    <3> QED
      BY <3>1 DEF StepOf
  <2> QED
    BY <2>1, <2>2, CallKept DEF StepOf
<1> QED
  BY <1>1, <1>2 DEF MailboxInv

(* A step of nobody's call.                                                     *)
LEMMA OutsideKept ==
  ASSUME MailboxInv, ServerMoves, op' = op, holder' = holder, Entries' \subseteq Entries,
         \A c \in MailCalls : op[c].pc \in Holding => validity'[op[c].cur] = validity[op[c].cur],
         \A s \in Entries' : EntryStands(s)'
  PROVE  MailboxInv'
<1>1. \A d \in MailCalls : MailShape(op'[d]) /\ CallStands(d)'
  <2> TAKE d \in MailCalls
  <2>1. MailShape(op[d]) /\ CallStands(d) /\ ServerTyped
    BY DEF MailboxInv
  <2>2. op[d].pc \in Holding => holder' = d
    BY <2>1 DEF CallStands
  <2> QED
    BY <2>1, <2>2, CallKept
<1> QED
  BY <1>1 DEF MailboxInv, ServerMoves

(* An entry stands while neither it nor its slot changes, or the slot counts as *)
(* changed by others.                                                           *)
LEMMA EntryKept ==
  ASSUME NEW T, ServerTyped, Effect(T), NEW s \in Entries, EntryStands(s), emailCache'[s] = emailCache[s],
         alien \subseteq alien', s \in T => s \in alien'
  PROVE  EntryStands(s)'
<1>1. PICK f \in Folders, u \in Uids : s = <<f, u>>
  BY DEF EntryStands, Slots
<1>2. s \in Slots /\ s[1] = f /\ s[2] = u
  BY <1>1 DEF Slots
<1> DEFINE e == emailCache[s]
<1>3. e \in EntrySet /\ e.era <= validity[f] /\ (e.era = validity[f] => Allotted(f, u))
  BY <1>2 DEF EntryStands
<1>4. validity[f] \in Nat /\ validity'[f] \in Nat /\ validity[f] <= validity'[f] /\ e.era \in Nat
  BY <1>3 DEF ServerTyped, Effect, ServerMoves, EntrySet
<1>5. e.era <= validity'[f] /\ (e.era = validity'[f] => e.era = validity[f])
  BY <1>3, <1>4
<1>6. e.era = validity'[f] => (Allotted(f, u))'
  BY <1>3, <1>5, FolderFacts DEF Effect, ServerMoves, Allotted
<1>7. ASSUME e.era = validity'[f], s \notin alien'
      PROVE  e.msg = (At(f, u))' /\ e.flag = (Shown(f, u))'
  <2>1. e.msg = At(f, u) /\ e.flag = Shown(f, u)
    BY <1>2, <1>5, <1>7 DEF EntryStands
  <2>2. (At(f, u))' = At(f, u) /\ (Shown(f, u))' = Shown(f, u)
    BY <1>1, <1>3, <1>5, <1>7 DEF Effect, SameOutside
  <2> QED
    BY <2>1, <2>2
<1> QED
  BY <1>2, <1>3, <1>5, <1>6, <1>7 DEF EntryStands

------------------------------------------------------------------------------
(* Steps that leave the server alone                                          *)

LEMMA BecomesFacts ==
  ASSUME MailboxInv, NEW c \in MailCalls, NEW n, Becomes(c, n)
  PROVE  op'[c] = n /\ op' = [op EXCEPT ![c] = op'[c]] /\ \A d \in MailCalls \ {c} : op'[d] = op[d]
BY DEF MailboxInv, Becomes

LEMMA SilentServer ==
  ASSUME MailboxInv, UNCHANGED <<server_vars, reached>>
  PROVE  Effect({}) /\ ServerMoves /\ ServerTyped' /\ validity' = validity
<1>1. Effect({})
  BY NothingEffect DEF MailboxInv
<1> QED
  BY <1>1 DEF Effect, ServerMoves, server_vars

LEMMA SameEntries ==
  ASSUME MailboxInv, UNCHANGED <<server_vars, reached>>, alien \subseteq alien',
         \A s \in Entries' : s \in Entries /\ emailCache'[s] = emailCache[s]
  PROVE  \A s \in Entries' : EntryStands(s)'
<1> TAKE s \in Entries'
<1>1. Effect({}) /\ ServerTyped /\ s \in Entries /\ EntryStands(s) /\ emailCache'[s] = emailCache[s]
  BY SilentServer DEF MailboxInv
<1> QED
  BY <1>1, EntryKept

LEMMA CheckedEntries ==
  ASSUME NEW f, NEW s \in DOMAIN Checked(f)
  PROVE  s \in Entries /\ Checked(f)[s] = emailCache[s]
<1>1. DOMAIN <<>> = {}
  OBVIOUS
<1> QED
  BY <1>1 DEF Checked, Entries

LEMMA WithoutEntries ==
  ASSUME NEW cached, NEW S, NEW s \in DOMAIN WithoutSlots(cached, S)
  PROVE  s \in DOMAIN cached /\ s \notin S /\ WithoutSlots(cached, S)[s] = cached[s]
BY DEF WithoutSlots

(* What is stored shows what the server holds.                                  *)
LEMMA StoredEntries ==
  ASSUME MailboxInv, UNCHANGED <<server_vars, reached, alien>>, NEW cached, NEW f \in Folders, NEW u \in Uids,
         At(f, u) # None, Store(cached, f, u),
         \A s \in DOMAIN cached : s \in Entries /\ cached[s] = emailCache[s]
  PROVE  \A s \in Entries' : EntryStands(s)'
<1>1. \A s \in Entries' : \/ s = <<f, u>> /\ emailCache'[s] = Fetched(f, u)
                          \/ s \in Entries /\ emailCache'[s] = emailCache[s]
  <2> SUFFICES ASSUME NEW base, emailCache' = Kept(base, <<f, u>>, Fetched(f, u)),
                      \A s \in DOMAIN base : s \in Entries /\ base[s] = emailCache[s]
               PROVE  \A s \in Entries' : \/ s = <<f, u>> /\ emailCache'[s] = Fetched(f, u)
                                          \/ s \in Entries /\ emailCache'[s] = emailCache[s]
    <3>1. \A t : \A s \in DOMAIN WithoutSlots(cached, {t}) :
            s \in Entries /\ WithoutSlots(cached, {t})[s] = emailCache[s]
      BY WithoutEntries
    <3> QED
      BY <3>1 DEF Store
  <2> QED
    BY DEF Kept, Entries
<1> TAKE s \in Entries'
<1>2. CASE s \in Entries /\ emailCache'[s] = emailCache[s]
  <2>1. Effect({}) /\ ServerTyped /\ EntryStands(s)
    BY <1>2, SilentServer DEF MailboxInv
  <2> QED
    BY <1>2, <2>1, EntryKept
<1>3. CASE s = <<f, u>> /\ emailCache'[s] = Fetched(f, u)
  <2>1. s \in Slots /\ s[1] = f /\ s[2] = u
    BY <1>3 DEF Slots
  <2>2. ServerTyped /\ At(f, u) \in Mail /\ Allotted(f, u)
    BY AtTyped DEF MailboxInv
  <2>3. (At(f, u))' = At(f, u) /\ (Shown(f, u))' = Shown(f, u) /\ ((Allotted(f, u))' <=> Allotted(f, u))
        /\ validity' = validity
    BY DEF server_vars, At, Shown, Allotted
  <2>4. Shown(f, u) \in Flags
    BY DEF Shown, Flags
  <2>5. validity[f] \in Nat
    BY <2>2 DEF ServerTyped
  <2>6. /\ Fetched(f, u).msg = At(f, u) /\ Fetched(f, u).flag = Shown(f, u) /\ Fetched(f, u).era = validity[f]
        /\ Fetched(f, u) \in EntrySet
    BY <2>2, <2>4, <2>5 DEF Fetched, EntrySet
  <2> QED
    BY <1>3, <2>1, <2>2, <2>3, <2>5, <2>6 DEF EntryStands
<1> QED
  BY <1>1, <1>2, <1>3

(* A call goes on while the server stands still.                                *)
LEMMA SilentStep ==
  ASSUME MailboxInv, NEW c \in MailCalls, NEW n, Becomes(c, n), MailShape(n),
         UNCHANGED <<server_vars, reached>>,
         holder \in {None, c} \/ (holder' = holder /\ Entries' \subseteq Entries),
         CallStands(c)', \A s \in Entries' : EntryStands(s)'
  PROVE  MailboxInv'
<1>1. StepOf(c) /\ ServerTyped'
  BY BecomesFacts, SilentServer DEF StepOf
<1> QED
  BY <1>1, BecomesFacts, StepKept

GoesOn(r, n) ==
  /\ n.kind = r.kind /\ n.dst = r.dst /\ n.won = r.won /\ n.relocated = r.relocated /\ n.accepted = r.accepted
  /\ \A u \in r.won : n.where[u] = r.where[u]
  /\ n.was = r.was
  /\ n.pc \in Working => r.pc \in Working /\ n.cur = r.cur /\ n.work \subseteq r.work

LEMMA StandsOn ==
  ASSUME MailboxInv, NEW c \in MailCalls, NEW n, Becomes(c, n), GoesOn(op[c], n), ServerMoves,
         op[c].pc \in Working => validity'[op[c].cur] = validity[op[c].cur],
         n.pc \in Holding => holder' = c /\ (op[c].accepted = {} \/ (op[c].pc \in Holding /\ Entries' \subseteq Entries))
  PROVE  CallStands(c)'
<1>1. op'[c] = n /\ MailShape(op[c]) /\ CallStands(c) /\ ServerTyped
  BY BecomesFacts DEF MailboxInv
<1>2. Arrived(c)'
  BY <1>1, ArrivedKept DEF CallStands, GoesOn
<1>3. AtWork(c)'
  BY <1>1, AtWorkKept DEF CallStands, GoesOn
<1>4. TakenOff(c)'
  BY <1>1, TakenOffKept DEF CallStands, GoesOn
<1> QED
  BY <1>1, <1>2, <1>3, <1>4 DEF CallStands

LEMMA SilentGoesOn ==
  ASSUME MailboxInv, NEW c \in MailCalls, NEW n, Becomes(c, n), MailShape(n), GoesOn(op[c], n),
         UNCHANGED <<server_vars, reached>>,
         holder \in {None, c} \/ (holder' = holder /\ Entries' \subseteq Entries),
         n.pc \in Holding => holder' = c /\ (op[c].accepted = {} \/ (op[c].pc \in Holding /\ Entries' \subseteq Entries)),
         \A s \in Entries' : EntryStands(s)'
  PROVE  MailboxInv'
<1>1. ServerMoves /\ validity' = validity
  BY SilentServer
<1>2. CallStands(c)'
  BY <1>1, StandsOn
<1> QED
  BY <1>2, SilentStep

------------------------------------------------------------------------------
(* Ending and beginning a call                                                *)

LEMMA ThrewKeeps ==
  ASSUME MailboxInv, NEW c \in MailCalls, Throw(c), op[c].pc # "idle",
         UNCHANGED <<server_vars, reached, emailCache>>, alien \subseteq alien'
  PROVE  MailboxInv'
<1> DEFINE n == [op[c] EXCEPT !.pc = "threw"]
<1>1. MailShape(op[c]) /\ Becomes(c, n) /\ holder' = IF holder = c THEN None ELSE holder
  BY DEF MailboxInv, Throw
<1>2. MailShape(n)
  BY <1>1, ThrewShape
<1>3. GoesOn(op[c], n) /\ n.pc \notin Holding
  BY <1>1 DEF MailShape, MailOps, GoesOn, Working, Holding
<1>4. \A s \in Entries' : s \in Entries /\ emailCache'[s] = emailCache[s]
  BY DEF Entries
<1>5. \A s \in Entries' : EntryStands(s)'
  BY <1>4, SameEntries
<1> HIDE DEF n
<1> QED
  BY <1>1, <1>2, <1>3, <1>4, <1>5, SilentGoesOn

LEMMA BeginKeeps ==
  ASSUME MailboxInv, NEW c \in MailCalls, Begin(c)
  PROVE  MailboxInv'
<1>1. PICK r \in Readings \cup Movings \cup Deletions \cup Removals \cup Flaggings :
        /\ Becomes(c, r)
        /\ reached' = [reached EXCEPT ![c] = IF r.dst = NoFolder THEN {} ELSE Inside(r.dst)]
  BY DEF Begin
<1>2. op[c].pc = "idle" /\ UNCHANGED <<server_vars, holder, emailCache, alien>>
  BY DEF Begin
<1>3. /\ MailShape(r) /\ r.won = {} /\ r.relocated = {} /\ r.pc \in {"open", "find", "group"}
  <2> SUFFICES \E k, ids, src, dst, flag : Askable(k, ids, src, dst, flag) /\ r = Request(k, ids, src, dst, flag)
    BY RequestShape
  <2>1. /\ \A I \in IdSets : I \subseteq Uids
        /\ \A f \in Sources : f \in Place /\ (f # NoFolder => f \in Folders)
        /\ \A g \in Targets : g \in Target /\ g \in Real
    BY MailboxAssumption DEF Place, Target
  <2>2. NoFolder \in Target /\ Trash \in Target /\ Trash \in Real /\ Label \in Place /\ Trash \in Place
        /\ {"seen", "unseen"} = Flags /\ {} \subseteq Uids /\ ~(Cardinality({}) > 1)
    <3>1. ~(Cardinality({}) > 1)
      BY FS_EmptySet
    <3> QED
      BY <3>1, FolderFacts DEF Place, Target, Flags
  <2>3. CASE r \in Readings
    <3>1. CASE \E k \in {"search", "list"}, src \in Sources \ {NoFolder} : r = Request(k, {}, src, NoFolder, "seen")
      <4>1. PICK k \in {"search", "list"}, src \in Sources \ {NoFolder} : r = Request(k, {}, src, NoFolder, "seen")
        BY <3>1
      <4>2. Askable(k, {}, src, NoFolder, "seen")
        BY <2>1, <2>2 DEF Askable, AnyKind, Changes, Relocating, MoveKinds
      <4> QED
        BY <4>1, <4>2
    <3>2. CASE \E ids \in {I \in IdSets : Cardinality(I) = 1}, src \in Sources :
                 r = Request("read", ids, src, NoFolder, "seen")
      <4>1. PICK ids \in {I \in IdSets : Cardinality(I) = 1}, src \in Sources :
              r = Request("read", ids, src, NoFolder, "seen")
        BY <3>2
      <4>2. ~(Cardinality(ids) > 1)
        OBVIOUS
      <4>3. Askable("read", ids, src, NoFolder, "seen")
        BY <2>1, <2>2, <4>2 DEF Askable, AnyKind, Changes, Relocating, MoveKinds
      <4> QED
        BY <4>1, <4>3
    <3> QED
      BY <2>3, <3>1, <3>2 DEF Readings
  <2>4. CASE r \in Movings
    <3>1. PICK k \in {"move", "copy"}, ids \in IdSets, src \in Sources, dst \in Targets :
            r = Request(k, ids, src, dst, "seen")
      BY <2>4 DEF Movings
    <3>2. Askable(k, ids, src, dst, "seen")
      BY <2>1, <2>2 DEF Askable, AnyKind, Changes, Relocating, MoveKinds
    <3> QED
      BY <3>1, <3>2
  <2>5. CASE r \in Deletions
    <3>1. ASSUME NEW ids \in IdSets, NEW src \in Sources PROVE Askable("delete", ids, src, Trash, "seen")
      BY <2>1, <2>2 DEF Askable, AnyKind, Changes, Relocating, MoveKinds
    <3>2. Askable("empty", {}, Trash, NoFolder, "seen")
      BY <2>1, <2>2, FolderFacts DEF Askable, AnyKind, Changes, Relocating, MoveKinds
    <3> QED
      BY <2>5, <3>1, <3>2 DEF Deletions
  <2>6. CASE r \in Removals
    <3>1. ASSUME NEW ids \in IdSets PROVE Askable("remove", ids, Label, NoFolder, "seen")
      BY <2>1, <2>2 DEF Askable, AnyKind, Changes, Relocating, MoveKinds
    <3> QED
      BY <2>6, <3>1 DEF Removals
  <2>7. CASE r \in Flaggings
    <3>1. PICK ids \in IdSets, src \in Sources, flag \in {"seen", "unseen"} :
            r = Request("flag", ids, src, NoFolder, flag)
      BY <2>7 DEF Flaggings
    <3>2. Askable("flag", ids, src, NoFolder, flag)
      BY <2>1, <2>2 DEF Askable, AnyKind, Changes, Relocating, MoveKinds
    <3> QED
      BY <3>1, <3>2
  <2> QED
    BY <1>1, <2>3, <2>4, <2>5, <2>6, <2>7
<1>4. op'[c] = r /\ op' = [op EXCEPT ![c] = op'[c]] /\ \A d \in MailCalls \ {c} : op'[d] = op[d]
  BY <1>1, BecomesFacts
<1>5. ServerMoves /\ ServerTyped' /\ validity' = validity
  <2>1. \A f \in Folders : \A u \in Uids : (At(f, u))' = At(f, u)
    BY <1>2 DEF server_vars, At
  <2>2. \A f \in Folders : (Inside(f))' = Inside(f)
    BY <2>1 DEF Inside
  <2>3. ServerTyped
    BY DEF MailboxInv
  <2>4. \A d \in MailCalls : op[d].pc # "idle" => reached'[d] = reached[d]
    BY <1>1, <1>2, <2>3 DEF ServerTyped
  <2>5. reached' \in [MailCalls -> SUBSET Mail]
    <3>1. Inside(r.dst) \subseteq Mail \/ r.dst = NoFolder
      <4>1. r.dst \in Real \cup {NoFolder}
        BY <1>3 DEF MailShape, MailOps, Target
      <4> QED
        BY <2>3, <4>1, AtTyped, FolderFacts DEF Inside
    <3> QED
      BY <1>1, <2>3, <3>1 DEF ServerTyped
  <2>6. ServerTyped'
    BY <1>2, <2>3, <2>5 DEF ServerTyped, server_vars
  <2> QED
    <3>1. validity' = validity /\ next' = next
      BY <1>2 DEF server_vars
    <3>2. \A f \in Folders : validity[f] <= validity'[f]
      BY <2>3, <3>1 DEF ServerTyped
    <3> QED
      BY <2>1, <2>2, <2>4, <2>6, <3>1, <3>2, FolderFacts DEF ServerMoves
<1>6. CallStands(c)'
  <2>1. Arrived(c)'
    <3> SUFFICES ASSUME r.kind \in Relocating PROVE (Inside(r.dst))' \subseteq reached'[c]
      BY <1>3, <1>4 DEF Arrived
    <3>1. r.dst \in Real /\ r.dst # NoFolder
      BY <1>3, FolderFacts DEF MailShape, ChangeShape, Changes
    <3>2. (Inside(r.dst))' = Inside(r.dst)
      BY <1>2 DEF server_vars, Inside, At
    <3> QED
      BY <1>1, <3>1, <3>2 DEF MailboxInv, ServerTyped
  <2>2. AtWork(c)' /\ TakenOff(c)'
    BY <1>3, <1>4 DEF AtWork, TakenOff, Holding
  <2> QED
    BY <1>3, <1>4, <2>1, <2>2 DEF CallStands, Holding
<1>7. \A s \in Entries' : EntryStands(s)'
  BY <1>2 DEF MailboxInv, EntryStands, Entries, server_vars, Allotted, At, Shown
<1> QED
  BY <1>2, <1>3, <1>4, <1>5, <1>6, <1>7, StepKept DEF StepOf, Entries

------------------------------------------------------------------------------
(* Finding the folder of each id                                              *)

LEMMA UnfoundTodo ==
  ASSUME NEW c \in MailCalls, MailShape(op[c]), op[c].pc = "find", op[c].bulk, NEW u \in Unfound(c)
  PROVE  u \in op[c].todo
BY DEF MailShape, OtherShape, ChangeShape, PlaceShape, Partition, Unfound

LEMMA UnfoundUid ==
  ASSUME NEW c \in MailCalls, MailShape(op[c]), NEW u \in Unfound(c)
  PROVE  u \in Uids
BY DEF MailShape, MailOps, IdSet, Unfound

(* A call that still looks for the folders of its ids has nothing counted yet.  *)
LEMMA FindGoesOn ==
  ASSUME NEW r, MailShape(r), r.pc = "find", NEW n, n.pc \notin Holding,
         n.kind = r.kind, n.dst = r.dst, n.won = r.won, n.relocated = r.relocated, n.accepted = r.accepted, n.was = r.was
  PROVE  GoesOn(r, n)
BY DEF GoesOn, MailShape, PlaceShape, Working, Holding

LEMMA FoundKeeps ==
  ASSUME MailboxInv, NEW c \in MailCalls, op[c].pc = "find", NEW u \in Uids, NEW f \in Folders, FoundAt(c, u, f),
         UNCHANGED <<server_vars, reached, holder>>,
         holder \in {None, c} \/ Entries' \subseteq Entries, \A s \in Entries' : EntryStands(s)'
  PROVE  MailboxInv'
<1> DEFINE n == [op[c] EXCEPT !.where[u] = f, !.scan = {}]
<1>1. MailShape(op[c]) /\ Becomes(c, n)
  BY DEF MailboxInv, FoundAt
<1>2. MailShape(n)
  BY <1>1, FoundShape
<1>3. /\ n.pc = "find" /\ n.kind = op[c].kind /\ n.dst = op[c].dst /\ n.won = op[c].won
      /\ n.relocated = op[c].relocated /\ n.accepted = op[c].accepted /\ n.was = op[c].was
  BY <1>1 DEF MailShape, MailOps
<1> HIDE DEF n
<1>4. n.pc \notin Holding
  BY <1>3 DEF Holding
<1>5. GoesOn(op[c], n)
  BY <1>1, <1>3, <1>4, FindGoesOn
<1> QED
  BY <1>1, <1>2, <1>4, <1>5, SilentGoesOn

LEMMA ScanKeeps ==
  ASSUME MailboxInv, NEW c \in MailCalls, op[c].pc = "find", NEW S \in SUBSET Folders,
         Becomes(c, [op[c] EXCEPT !.scan = S]), UNCHANGED <<server_vars, reached, holder>>,
         holder \in {None, c} \/ Entries' \subseteq Entries, \A s \in Entries' : EntryStands(s)'
  PROVE  MailboxInv'
<1> DEFINE n == [op[c] EXCEPT !.scan = S]
<1>1. MailShape(op[c]) /\ Becomes(c, n)
  BY DEF MailboxInv
<1>2. MailShape(n)
  BY <1>1, ScanShape
<1>3. /\ n.pc = "find" /\ n.kind = op[c].kind /\ n.dst = op[c].dst /\ n.won = op[c].won
      /\ n.relocated = op[c].relocated /\ n.accepted = op[c].accepted /\ n.was = op[c].was
  BY <1>1 DEF MailShape, MailOps
<1> HIDE DEF n
<1>4. n.pc \notin Holding
  BY <1>3 DEF Holding
<1>5. GoesOn(op[c], n)
  BY <1>1, <1>3, <1>4, FindGoesOn
<1> QED
  BY <1>1, <1>2, <1>4, <1>5, SilentGoesOn

LEMMA NotFoundKeeps ==
  ASSUME MailboxInv, NEW c \in MailCalls, op[c].pc = "find", NEW u \in Unfound(c), NotFound(c, u),
         UNCHANGED <<server_vars, reached, holder>>,
         holder \in {None, c} \/ Entries' \subseteq Entries, \A s \in Entries' : EntryStands(s)'
  PROVE  MailboxInv'
<1>1. MailShape(op[c])
  BY DEF MailboxInv
<1> SUFFICES ASSUME NEW n, Becomes(c, n), MailShape(n), n.pc \in {"find", "threw"},
                    n.kind = op[c].kind, n.dst = op[c].dst, n.won = op[c].won,
                    n.relocated = op[c].relocated, n.accepted = op[c].accepted, n.was = op[c].was
             PROVE  MailboxInv'
  <2>1. CASE op[c].bulk
    <3> DEFINE n == [op[c] EXCEPT !.lost = @ \cup {u}, !.todo = @ \ {u}, !.scan = {}]
    <3>1. Becomes(c, n)
      BY <2>1 DEF NotFound
    <3>2. MailShape(n)
      BY <1>1, <2>1, UnfoundTodo, LostShape
    <3>3. /\ n.pc = "find" /\ n.kind = op[c].kind /\ n.dst = op[c].dst /\ n.won = op[c].won
          /\ n.relocated = op[c].relocated /\ n.accepted = op[c].accepted /\ n.was = op[c].was
      BY <1>1 DEF MailShape, MailOps
    <3> HIDE DEF n
    <3> QED
      BY <3>1, <3>2, <3>3
  <2>2. CASE ~op[c].bulk
    <3> DEFINE m == [op[c] EXCEPT !.scan = {}]
               n == [op[c] EXCEPT !.pc = "threw", !.scan = {}]
    <3>1. Becomes(c, n)
      BY <2>2 DEF NotFound
    <3>2. n = [m EXCEPT !.pc = "threw"] /\ m.pc = "find"
      BY <1>1 DEF MailShape, MailOps
    <3>3. MailShape(m)
      BY <1>1, ScanShape
    <3>4. /\ n.pc = "threw" /\ n.kind = op[c].kind /\ n.dst = op[c].dst /\ n.won = op[c].won
          /\ n.relocated = op[c].relocated /\ n.accepted = op[c].accepted /\ n.was = op[c].was
      BY <1>1 DEF MailShape, MailOps
    <3> HIDE DEF n, m
    <3>5. MailShape(n)
      BY <3>2, <3>3, ThrewShape
    <3> QED
      BY <3>1, <3>4, <3>5
  <2> QED
    BY <2>1, <2>2
<1>2. n.pc \notin Holding
  BY DEF Holding
<1>3. GoesOn(op[c], n)
  BY <1>1, <1>2, FindGoesOn
<1> QED
  BY <1>2, <1>3, SilentGoesOn

LEMMA FindKeeps ==
  ASSUME MailboxInv, NEW c \in MailCalls, Find(c)
  PROVE  MailboxInv'
<1>1. op[c].pc = "find" /\ UNCHANGED <<server_vars, reached, holder, emailCache, alien>> /\ MailShape(op[c])
  BY DEF Find, MailboxInv
<1>2. \A s \in Entries' : s \in Entries /\ emailCache'[s] = emailCache[s]
  BY <1>1 DEF Entries
<1>3. Entries' \subseteq Entries /\ \A s \in Entries' : EntryStands(s)'
  BY <1>1, <1>2, SameEntries
<1>4. PICK u \in Unfound(c) : \/ \E s \in Hits(c, u) : FoundAt(c, u, s[1])
                              \/ Becomes(c, [op[c] EXCEPT !.scan = Places(c)])
  BY DEF Find
<1>5. u \in Uids
  BY <1>1, UnfoundUid
<1>6. ASSUME NEW s \in Hits(c, u), FoundAt(c, u, s[1]) PROVE MailboxInv'
  <2>1. s[1] \in Folders
    BY DEF Hits, MailboxInv, EntryStands, Slots
  <2> QED
    BY <1>1, <1>3, <1>5, <1>6, <2>1, FoundKeeps
<1>7. ASSUME Becomes(c, [op[c] EXCEPT !.scan = Places(c)]) PROVE MailboxInv'
  <2>1. Places(c) \subseteq Folders
    BY <1>1 DEF Places, MailShape, MailOps, Place
  <2> QED
    BY <1>1, <1>3, <1>7, <2>1, ScanKeeps
<1> QED
  BY <1>4, <1>6, <1>7

LEMMA LookInKeeps ==
  ASSUME MailboxInv, NEW c \in MailCalls, NEW f \in Folders, LookIn(c, f)
  PROVE  MailboxInv'
<1>1. /\ op[c].pc = "find" /\ holder = None /\ UNCHANGED <<server_vars, reached, holder, alien>>
      /\ MailShape(op[c])
  BY DEF LookIn, MailboxInv
<1>2. PICK u \in Unfound(c) :
        IF ~connected THEN NotFound(c, u) /\ UNCHANGED <<emailCache, noted>>
        ELSE /\ Note(f)
             /\ IF At(f, u) # None
                THEN Store(Checked(f), f, u) /\ FoundAt(c, u, f)
                ELSE /\ emailCache' = Checked(f)
                     /\ IF op[c].scan = {f} THEN NotFound(c, u)
                        ELSE Becomes(c, [op[c] EXCEPT !.scan = @ \ {f}])
  BY DEF LookIn
<1>3. u \in Uids
  BY <1>1, UnfoundUid
<1>4. CASE emailCache' \in {emailCache, Checked(f)}
           /\ (NotFound(c, u) \/ Becomes(c, [op[c] EXCEPT !.scan = @ \ {f}]))
  <2>1. \A s \in Entries' : s \in Entries /\ emailCache'[s] = emailCache[s]
    BY <1>4, CheckedEntries DEF Entries
  <2>2. \A s \in Entries' : EntryStands(s)'
    BY <1>1, <2>1, SameEntries
  <2>3. op[c].scan \ {f} \in SUBSET Folders
    BY <1>1 DEF MailShape, MailOps, FolderSet
  <2> QED
    BY <1>1, <1>4, <2>2, <2>3, NotFoundKeeps, ScanKeeps
<1>5. CASE At(f, u) # None /\ Store(Checked(f), f, u) /\ FoundAt(c, u, f)
  <2>1. \A s \in DOMAIN Checked(f) : s \in Entries /\ Checked(f)[s] = emailCache[s]
    BY CheckedEntries
  <2>2. \A s \in Entries' : EntryStands(s)'
    BY <1>1, <1>3, <1>5, <2>1, StoredEntries
  <2> QED
    BY <1>1, <1>3, <1>5, <2>2, FoundKeeps
<1> QED
  BY <1>2, <1>4, <1>5

------------------------------------------------------------------------------
(* Reading, searching and emptying the trash                                  *)

(* A call that only moves on, to where it needs no mailbox.                     *)
LEMMA MovesOnKeeps ==
  ASSUME MailboxInv, NEW c \in MailCalls, NEW pc, pc \notin Holding, Becomes(c, [op[c] EXCEPT !.pc = pc]),
         MailShape([op[c] EXCEPT !.pc = pc]), UNCHANGED <<server_vars, reached>>,
         holder \in {None, c} \/ (holder' = holder /\ Entries' \subseteq Entries),
         \A s \in Entries' : EntryStands(s)'
  PROVE  MailboxInv'
<1> DEFINE n == [op[c] EXCEPT !.pc = pc]
<1>1. op[c] \in MailOps
  BY DEF MailboxInv, MailShape
<1>2. GoesOn(op[c], n) /\ n.pc \notin Holding
  BY <1>1 DEF MailOps, GoesOn, Working, Holding
<1> HIDE DEF n
<1> QED
  BY <1>2, SilentGoesOn DEF n

LEMMA AllFoundKeeps ==
  ASSUME MailboxInv, NEW c \in MailCalls, AllFound(c)
  PROVE  MailboxInv'
<1>1. op[c].pc = "find" /\ UNCHANGED <<server_vars, reached, holder, emailCache, alien>> /\ MailShape(op[c])
  BY DEF AllFound, MailboxInv
<1>2. \A s \in Entries' : s \in Entries /\ emailCache'[s] = emailCache[s]
  BY <1>1 DEF Entries
<1>3. Entries' \subseteq Entries /\ \A s \in Entries' : EntryStands(s)'
  BY <1>1, <1>2, SameEntries
<1>4. CASE op[c].kind = "read"
  <2>1. Becomes(c, [op[c] EXCEPT !.pc = "done"]) /\ op[c].kind \notin Changes
    BY <1>4 DEF AllFound, Changes, Relocating, MoveKinds
  <2>2. MailShape([op[c] EXCEPT !.pc = "done"])
    BY <1>1, <2>1, DoneShape
  <2> QED
    BY <1>1, <1>3, <2>1, <2>2, MovesOnKeeps DEF Holding
<1>5. CASE op[c].kind # "read"
  <2>1. Becomes(c, [op[c] EXCEPT !.pc = "group"]) /\ op[c].kind \in Changes
    BY <1>1, <1>5 DEF AllFound, MailShape, OtherShape
  <2>2. MailShape([op[c] EXCEPT !.pc = "group"])
    BY <1>1, <1>5, <2>1, GroupShape
  <2> QED
    BY <1>1, <1>3, <2>1, <2>2, MovesOnKeeps DEF Holding
<1> QED
  BY <1>4, <1>5

LEMMA ListKeeps ==
  ASSUME MailboxInv, NEW c \in MailCalls, ListEmails(c)
  PROVE  MailboxInv'
<1>1. /\ op[c].kind = "list" /\ op[c].pc = "open" /\ holder = None /\ emailCache' = Checked(op[c].src)
      /\ Becomes(c, [op[c] EXCEPT !.pc = "done"]) /\ UNCHANGED <<server_vars, reached, holder, alien>>
      /\ MailShape(op[c])
  BY DEF ListEmails, MailboxInv
<1>2. \A s \in Entries' : s \in Entries /\ emailCache'[s] = emailCache[s]
  BY <1>1, CheckedEntries DEF Entries
<1>3. \A s \in Entries' : EntryStands(s)'
  BY <1>1, <1>2, SameEntries
<1>4. MailShape([op[c] EXCEPT !.pc = "done"])
  BY <1>1, DoneShape DEF Changes, Relocating, MoveKinds
<1> QED
  BY <1>1, <1>3, <1>4, MovesOnKeeps DEF Holding

LEMMA PresentFacts ==
  ASSUME ServerTyped, NEW f \in Folders, NEW U \in SUBSET Uids
  PROVE  /\ Present(f, U) \in SUBSET U /\ Present(f, U) \in SUBSET Uids
         /\ \A u \in Present(f, U) : At(f, u) \in Mail /\ Allotted(f, u)
BY AtTyped DEF Present

LEMMA TakeKeeps ==
  ASSUME MailboxInv, NEW c \in MailCalls, NEW pc, op[c].pc = "open", holder = None, Take(c, pc),
         (op[c].kind = "search" /\ pc = "fetch") \/ (op[c].kind = "empty" /\ pc = "change"),
         UNCHANGED <<server_vars, reached, alien>>,
         \A s \in Entries' : s \in Entries /\ emailCache'[s] = emailCache[s]
  PROVE  MailboxInv'
<1> DEFINE U == Present(op[c].src, Uids)
           n == [op[c] EXCEPT !.cur = op[c].src, !.work = U, !.ids = U, !.pc = pc]
<1>1. \A s \in Entries' : EntryStands(s)'
  BY SameEntries
<1>2. MailShape(op[c]) /\ ServerTyped /\ op[c].src \in Folders
  BY DEF MailboxInv, MailShape, PlaceShape
<1>3. CASE U = {}
  <2>1. Becomes(c, [op[c] EXCEPT !.pc = "done"]) /\ UNCHANGED holder
    BY <1>3 DEF Take
  <2>2. MailShape([op[c] EXCEPT !.pc = "done"])
    BY <1>2, DoneShape DEF Changes, Relocating, MoveKinds
  <2> QED
    BY <1>1, <2>1, <2>2, MovesOnKeeps DEF Holding
<1>4. CASE U # {}
  <2>1. Becomes(c, n) /\ holder' = c
    BY <1>4 DEF Take
  <2>2. U \in SUBSET Uids /\ \A u \in U : Allotted(op[c].src, u)
    BY <1>2, PresentFacts
  <2>3. MailShape(n)
    BY <1>2, <2>2, TakeShape
  <2>4. n.kind = op[c].kind /\ n.cur = op[c].src /\ n.work = U /\ op[c].kind \notin Relocating \cup {"remove"}
    BY <1>2 DEF MailShape, MailOps, Relocating, MoveKinds
  <2> HIDE DEF n, U
  <2>5. op'[c] = n
    BY <2>1, BecomesFacts
  <2>6. \A u \in U : (Allotted(op[c].cur, u))'
    BY <2>2, <2>4, <2>5 DEF Allotted, server_vars
  <2>7. CallStands(c)'
    BY <2>1, <2>4, <2>5, <2>6 DEF CallStands, Arrived, AtWork, TakenOff
  <2> QED
    BY <1>1, <2>1, <2>3, <2>7, SilentStep
<1> QED
  BY <1>3, <1>4

LEMMA SearchKeeps ==
  ASSUME MailboxInv, NEW c \in MailCalls, Search(c)
  PROVE  MailboxInv'
<1>1. \A s \in Entries' : s \in Entries /\ emailCache'[s] = emailCache[s]
  BY DEF Search, Entries
<1> QED
  BY <1>1, TakeKeeps DEF Search

LEMMA EmptyTrashKeeps ==
  ASSUME MailboxInv, NEW c \in MailCalls, EmptyTrash(c)
  PROVE  MailboxInv'
<1>1. \A s \in Entries' : s \in Entries /\ emailCache'[s] = emailCache[s]
  BY CheckedEntries DEF EmptyTrash, Entries
<1> QED
  BY <1>1, TakeKeeps DEF EmptyTrash

LEMMA NoConnectionKeeps ==
  ASSUME MailboxInv, NEW c \in MailCalls, NoConnection(c)
  PROVE  MailboxInv'
BY ThrewKeeps DEF NoConnection

LEMMA FetchKeeps ==
  ASSUME MailboxInv, NEW c \in MailCalls, Fetch(c)
  PROVE  MailboxInv'
<1>1. op[c].pc = "fetch" /\ UNCHANGED <<server_vars, reached, alien>>
  BY DEF Fetch
<1>2. MailShape(op[c]) /\ holder = c /\ op[c].cur \in Folders /\ op[c].work \subseteq Uids /\ op[c].kind \notin Changes
  BY <1>1 DEF MailboxInv, CallStands, MailShape, PlaceShape, ChangeShape, MailOps, IdSet, Holding
<1>3. CASE ~connected
  BY <1>1, <1>3, ThrewKeeps DEF Fetch
<1>4. CASE connected
  <2> DEFINE f == op[c].cur
  <2>1. PICK u \in op[c].work :
          /\ IF op[c].work = {u}
             THEN holder' = None /\ Becomes(c, [op[c] EXCEPT !.work = {}, !.pc = "done"])
             ELSE UNCHANGED holder /\ Becomes(c, [op[c] EXCEPT !.work = @ \ {u}])
          /\ \/ <<f, u>> \in Entries /\ UNCHANGED emailCache
             \/ At(f, u) = None /\ UNCHANGED emailCache
             \/ At(f, u) # None /\ Store(emailCache, f, u)
    BY <1>4 DEF Fetch
  <2>2. \A s \in Entries' : EntryStands(s)'
    <3>1. CASE UNCHANGED emailCache
      <4>1. \A s \in Entries' : s \in Entries /\ emailCache'[s] = emailCache[s]
        BY <3>1 DEF Entries
      <4> QED
        BY <1>1, <4>1, SameEntries
    <3>2. CASE At(f, u) # None /\ Store(emailCache, f, u)
      BY <1>1, <1>2, <3>2, StoredEntries DEF Entries
    <3> QED
      BY <2>1, <3>1, <3>2
  <2> SUFFICES ASSUME NEW n, Becomes(c, n), MailShape(n), GoesOn(op[c], n), n.kind \notin Changes,
                      n.pc \in Holding => holder' = c
               PROVE  MailboxInv'
    <3>1. CASE op[c].work = {u}
      <4> DEFINE m == [op[c] EXCEPT !.work = {}]
                 n == [op[c] EXCEPT !.work = {}, !.pc = "done"]
      <4>1. MailShape(m) /\ n = [m EXCEPT !.pc = "done"] /\ m.kind \notin Changes /\ m.pc = "fetch"
        BY <1>1, <1>2, FetchShape DEF MailShape, MailOps
      <4>2. GoesOn(op[c], n) /\ n.kind = op[c].kind /\ n.pc \notin Holding
        BY <1>1, <1>2 DEF MailShape, MailOps, GoesOn, Working, Holding
      <4>3. Becomes(c, n)
        BY <2>1, <3>1
      <4> HIDE DEF m, n
      <4>4. MailShape(n)
        BY <4>1, DoneShape
      <4> QED
        BY <1>2, <4>2, <4>3, <4>4
    <3>2. CASE op[c].work # {u}
      <4> DEFINE n == [op[c] EXCEPT !.work = @ \ {u}]
      <4>1. MailShape(n)
        BY <1>2, FetchShape
      <4>2. GoesOn(op[c], n) /\ n.kind = op[c].kind
        BY <1>1, <1>2 DEF MailShape, MailOps, GoesOn, Working
      <4>3. Becomes(c, n) /\ holder' = c
        BY <1>2, <2>1, <3>2
      <4> HIDE DEF n
      <4> QED
        BY <1>2, <4>1, <4>2, <4>3
    <3> QED
      BY <3>1, <3>2
  <2>3. op[c].accepted = {}
    BY <1>2 DEF MailShape, OtherShape
  <2> QED
    BY <1>1, <1>2, <2>2, <2>3, SilentGoesOn
<1> QED
  BY <1>3, <1>4

------------------------------------------------------------------------------
(* Locking a folder and noting what is in it                                  *)

LEMMA SilentCache ==
  ASSUME MailboxInv, UNCHANGED <<server_vars, reached, emailCache>>, alien \subseteq alien'
  PROVE  Entries' \subseteq Entries /\ \A s \in Entries' : EntryStands(s)'
<1>1. \A s \in Entries' : s \in Entries /\ emailCache'[s] = emailCache[s]
  BY DEF Entries
<1> QED
  BY <1>1, SameEntries

LEMMA SkipKeeps ==
  ASSUME MailboxInv, NEW c \in MailCalls, NEW f \in Folders, Skip(c, f)
  PROVE  MailboxInv'
<1> DEFINE W == IdsIn(c, f)
           n == [op[c] EXCEPT !.won = @ \cup W, !.todo = @ \ W]
<1>1. /\ op[c].pc = "group" /\ Becomes(c, n) /\ UNCHANGED <<server_vars, reached, holder, emailCache, alien>>
      /\ MailShape(op[c]) /\ SameLocation(c, f)
  BY DEF Skip, MailboxInv
<1>2. W \in SUBSET op[c].todo /\ \A u \in W : op[c].where[u] = f
  BY DEF IdsIn
<1>3. MailShape(n)
  BY <1>1, <1>2, SkipShape
<1>4. /\ n.pc = "group" /\ n.kind = op[c].kind /\ n.dst = op[c].dst /\ n.won = op[c].won \cup W
      /\ n.relocated = op[c].relocated /\ n.was = op[c].was /\ n.where = op[c].where
  BY <1>1 DEF MailShape, MailOps
<1> HIDE DEF n, W
<1>5. op'[c] = n /\ op[c].kind \in MoveKinds /\ f = op[c].dst
  BY <1>1, BecomesFacts DEF SameLocation
<1>6. Arrived(c)'
  <2>1. Arrived(c) /\ op[c].kind \in Relocating /\ op[c].dst \in Real
    BY <1>1, <1>5 DEF MailboxInv, CallStands, Relocating, MailShape, ChangeShape, Changes
  <2>2. (Inside(op[c].dst))' = Inside(op'[c].dst)
    BY <1>1 DEF Inside, At, server_vars
  <2> QED
    BY <1>1, <1>2, <1>4, <1>5, <2>1, <2>2 DEF Arrived
<1>7. CallStands(c)'
  BY <1>4, <1>5, <1>6 DEF CallStands, AtWork, TakenOff, Holding, MoveKinds
<1> QED
  BY <1>1, <1>3, <1>7, SilentCache, SilentStep

LEMMA LockKeeps ==
  ASSUME MailboxInv, NEW c \in MailCalls, NEW f \in Folders, Lock(c, f)
  PROVE  MailboxInv'
<1> DEFINE W == IdsIn(c, f)
           n == [op[c] EXCEPT !.cur = f, !.work = W, !.todo = @ \ W, !.pc = "check"]
<1>1. /\ op[c].pc = "group" /\ holder = None /\ UNCHANGED <<server_vars, reached, emailCache, alien>>
      /\ MailShape(op[c]) /\ ~SameLocation(c, f) /\ W # {}
  BY DEF Lock, MailboxInv
<1>2. W \in SUBSET op[c].todo /\ \A u \in W : op[c].where[u] = f
  BY DEF IdsIn
<1>3. CASE ~connected
  BY <1>1, <1>3, ThrewKeeps DEF Lock
<1>4. CASE connected
  <2>1. holder' = c /\ Becomes(c, n)
    BY <1>4 DEF Lock
  <2>2. op[c].kind \in Changes
    BY <1>1 DEF MailShape, OtherShape
  <2>3. op[c].kind = "remove" => f = Label
    <3> HAVE op[c].kind = "remove"
    <3>1. PICK u \in W : u \in op[c].todo /\ op[c].where[u] = f
      BY <1>1, <1>2
    <3> QED
      BY <1>1, <2>2, <3>1 DEF MailShape, ChangeShape, Partition, RemoveShape
  <2>4. MailShape(n)
    BY <1>1, <1>2, <2>3, LockShape DEF SameLocation
  <2>5. GoesOn(op[c], n) /\ n.pc = "check"
    BY <1>1 DEF GoesOn, MailShape, MailOps, Working
  <2> HIDE DEF n
  <2>6. op[c].kind = "remove" => op[c].accepted = {}
    BY <1>1 DEF MailShape, RemoveShape
  <2>7. Entries' \subseteq Entries /\ \A s \in Entries' : EntryStands(s)'
    BY <1>1, SilentCache
  <2>8. op'[c] = n /\ ServerMoves /\ MailShape(op[c]) /\ CallStands(c) /\ ServerTyped
    BY <1>1, <2>1, BecomesFacts, SilentServer DEF MailboxInv
  <2>9. Arrived(c)' /\ AtWork(c)' /\ TakenOff(c)'
    BY <2>5, <2>6, <2>8, ArrivedKept, AtWorkKept, TakenOffKept DEF CallStands, GoesOn, Working
  <2> QED
    BY <1>1, <2>1, <2>4, <2>5, <2>7, <2>8, <2>9, SilentStep DEF CallStands
<1> QED
  BY <1>3, <1>4

(* What a call has noted of the ids it works on.                                *)
LEMMA NotedFacts ==
  ASSUME ServerTyped, NEW c \in MailCalls, MailShape(op[c]), op[c].pc \in Holding, NEW U \in SUBSET op[c].work
  PROVE  /\ Noted(c, U) \in WasSet /\ op[c].cur \in Folders /\ op[c].work \subseteq Uids
         /\ \A u \in U : Noted(c, U)[u] = At(op[c].cur, u)
         /\ \A u \in Uids \ U : Noted(c, U)[u] = op[c].was[u]
<1>1. op[c].cur \in Folders /\ op[c].work \subseteq Uids /\ op[c].was \in WasSet
  BY DEF MailShape, PlaceShape, MailOps, IdSet
<1>2. \A u \in Uids : At(op[c].cur, u) \in Mail \cup {None} /\ op[c].was[u] \in Mail \cup {None}
  BY <1>1, AtTyped DEF WasSet
<1> QED
  BY <1>1, <1>2 DEF Noted, WasSet

(* The ids a call works on are not among those it counts.                       *)
LEMMA WorkApart ==
  ASSUME NEW r, MailShape(r), r.kind \in Changes
  PROVE  r.work \cap (r.won \cup r.accepted \cup r.relocated) = {}
BY DEF MailShape, ChangeShape, Partition

(* A call that notes what it works on.                                          *)
LEMMA NotesKeeps ==
  ASSUME MailboxInv, NEW c \in MailCalls, op[c].pc \in Holding, op[c].kind \in Changes,
         NEW U \in SUBSET op[c].work, NEW n, Becomes(c, n), MailShape(n), n.work \subseteq op[c].work,
         n.kind = op[c].kind, n.dst = op[c].dst, n.won = op[c].won, n.relocated = op[c].relocated,
         n.accepted = op[c].accepted, n.where = op[c].where, n.cur = op[c].cur, n.was = Noted(c, U), holder' = holder,
         n.pc \in Working =>
           \A u \in n.work : /\ Allotted(op[c].cur, u)
                             /\ u \in U \/ (op[c].kind \in Relocating => At(op[c].cur, u) \in {None, op[c].was[u]}),
         UNCHANGED <<server_vars, reached, emailCache, alien>>
  PROVE  MailboxInv'
<1>1. MailShape(op[c]) /\ CallStands(c) /\ ServerTyped /\ op'[c] = n /\ ServerMoves /\ holder = c
  BY BecomesFacts, SilentServer DEF MailboxInv, CallStands
<1>2. /\ op[c].work \subseteq Uids
      /\ \A u \in U : n.was[u] = At(op[c].cur, u)
      /\ \A u \in Uids \ U : n.was[u] = op[c].was[u]
  BY <1>1, NotedFacts
<1>3. \A u \in op[c].won \cup op[c].relocated : n.was[u] = op[c].was[u]
  <2>1. op[c].won \cup op[c].relocated \subseteq Uids
    BY <1>1 DEF MailShape, MailOps, IdSet
  <2> QED
    BY <1>1, <1>2, <2>1, WorkApart
<1>4. Entries' \subseteq Entries /\ \A s \in Entries' : EntryStands(s)'
  BY SilentCache
<1>5. Arrived(c)' /\ TakenOff(c)'
  BY <1>1, <1>3, <1>4, ArrivedKept, TakenOffKept DEF CallStands
<1>6. AtWork(c)'
  <2> SUFFICES ASSUME n.pc \in Working, NEW u \in n.work
               PROVE  /\ (Allotted(op[c].cur, u))'
                      /\ op[c].kind \in Relocating => (At(op[c].cur, u))' \in {None, n.was[u]}
    BY <1>1 DEF AtWork, Working
  <2>1. \A f : (At(f, u))' = At(f, u) /\ ((Allotted(f, u))' <=> Allotted(f, u))
    BY DEF At, Allotted, server_vars
  <2>2. u \in Uids /\ op'[c].cur = op[c].cur
    BY <1>1, <1>2
  <2>3. (At(op[c].cur, u))' = At(op[c].cur, u) /\ ((Allotted(op[c].cur, u))' <=> Allotted(op[c].cur, u))
    BY <2>2 DEF At, Allotted, server_vars
  <2> QED
    BY <1>2, <2>2, <2>3
<1> QED
  BY <1>1, <1>4, <1>5, <1>6, SilentStep DEF CallStands

LEMMA FindExistingKeeps ==
  ASSUME MailboxInv, NEW c \in MailCalls, FindExisting(c)
  PROVE  MailboxInv'
<1> DEFINE there == IF connected THEN Present(op[c].cur, op[c].work) ELSE {}
           pc == NextOf(c, there)
           was == Noted(c, there)
           n == [op[c] EXCEPT !.work = there, !.lost = @ \cup (op[c].work \ there), !.was = was, !.pc = pc]
<1>1. op[c].pc = "check" /\ UNCHANGED <<server_vars, reached, emailCache, alien>> /\ MailShape(op[c]) /\ ServerTyped
  BY DEF FindExisting, MailboxInv
<1>2. op[c].cur \in Folders /\ op[c].work \subseteq Uids /\ op[c].pc \in Holding /\ op[c].kind \in Changes
  BY <1>1 DEF MailShape, PlaceShape, OtherShape, MailOps, IdSet, Holding
<1>3. there \in SUBSET op[c].work /\ \A u \in there : Allotted(op[c].cur, u)
  BY <1>1, <1>2, PresentFacts
<1>4. CASE ~op[c].bulk /\ there = {}
  BY <1>1, <1>4, ThrewKeeps DEF FindExisting
<1>5. CASE ~(~op[c].bulk /\ there = {})
  <2>1. Becomes(c, n) /\ UNCHANGED holder
    BY <1>5 DEF FindExisting
  <2> HIDE DEF there
  <2>2. was \in WasSet
    BY <1>1, <1>2, <1>3, NotedFacts
  <2>3. pc = IF there = {} THEN "leave" ELSE IF op[c].kind \in Relocating THEN "mids" ELSE "change"
    BY DEF NextOf
  <2> HIDE DEF pc, was
  <2>4. MailShape(n)
    BY <1>1, <1>3, <2>2, <2>3, CheckedShape
  <2>5. /\ n.work = there /\ n.kind = op[c].kind /\ n.dst = op[c].dst /\ n.won = op[c].won
        /\ n.relocated = op[c].relocated /\ n.accepted = op[c].accepted /\ n.where = op[c].where
        /\ n.cur = op[c].cur /\ n.was = was
    BY <1>1 DEF MailShape, MailOps
  <2> HIDE DEF n
  <2> QED
    BY <1>1, <1>2, <1>3, <2>1, <2>4, <2>5, NotesKeeps DEF was
<1> QED
  BY <1>4, <1>5

LEMMA IdentifyKeeps ==
  ASSUME MailboxInv, NEW c \in MailCalls, Identify(c)
  PROVE  MailboxInv'
<1> DEFINE named == Present(op[c].cur, op[c].work)
           was == Noted(c, named)
           n == [op[c] EXCEPT !.mid = @ \cup named, !.was = was, !.pc = "change"]
<1>1. op[c].pc = "mids" /\ UNCHANGED <<server_vars, reached, emailCache, alien>> /\ MailShape(op[c]) /\ ServerTyped
      /\ CallStands(c)
  BY DEF Identify, MailboxInv
<1>2. op[c].cur \in Folders /\ op[c].work \subseteq Uids /\ op[c].pc \in Holding /\ op[c].kind \in Changes
  BY <1>1 DEF MailShape, PlaceShape, OtherShape, MailOps, IdSet, Holding
<1>3. named \in SUBSET op[c].work
  BY <1>1, <1>2, PresentFacts
<1>4. CASE ~connected
  BY <1>1, <1>4, ThrewKeeps DEF Identify
<1>5. CASE connected
  <2>1. Becomes(c, n) /\ UNCHANGED holder
    BY <1>5 DEF Identify
  <2> HIDE DEF named
  <2>2. was \in WasSet
    BY <1>1, <1>2, <1>3, NotedFacts
  <2> HIDE DEF was
  <2>4. MailShape(n)
    BY <1>1, <1>3, <2>2, NamedShape
  <2>5. /\ n.work = op[c].work /\ n.kind = op[c].kind /\ n.dst = op[c].dst /\ n.won = op[c].won
        /\ n.relocated = op[c].relocated /\ n.accepted = op[c].accepted /\ n.where = op[c].where
        /\ n.cur = op[c].cur /\ n.was = was
    BY <1>1 DEF MailShape, MailOps
  <2> HIDE DEF n
  <2>6. \A u \in n.work : /\ Allotted(op[c].cur, u)
                          /\ op[c].kind \in Relocating => At(op[c].cur, u) \in {None, op[c].was[u]}
    BY <1>1, <2>5 DEF CallStands, AtWork
  <2> QED
    BY <1>1, <1>2, <1>3, <2>1, <2>4, <2>5, <2>6, NotesKeeps DEF was
<1> QED
  BY <1>4, <1>5

------------------------------------------------------------------------------
(* Leaving a folder and verifying                                             *)

LEMMA EndKeeps ==
  ASSUME MailboxInv, NEW c \in MailCalls, End(c)
  PROVE  MailboxInv'
<1> DEFINE pc == IF op[c].accepted = {} THEN "done" ELSE "verify"
<1>1. /\ op[c].pc = "group" /\ op[c].todo = {} /\ Becomes(c, [op[c] EXCEPT !.pc = pc])
      /\ UNCHANGED <<server_vars, reached, holder, emailCache, alien>> /\ MailShape(op[c])
  BY DEF End, MailboxInv
<1>2. MailShape([op[c] EXCEPT !.pc = pc])
  BY <1>1, EndShape
<1>3. pc \notin Holding
  BY DEF Holding
<1> HIDE DEF pc
<1> QED
  BY <1>1, <1>2, <1>3, SilentCache, MovesOnKeeps

LEMMA VerifyKeeps ==
  ASSUME MailboxInv, NEW c \in MailCalls, Verify(c)
  PROVE  MailboxInv'
<1> DEFINE V == ToVerify(c)
           pc == IF op[c].todo = {} THEN "done" ELSE "group"
<1>1. op[c].pc = "verify" /\ UNCHANGED <<server_vars, reached, emailCache, alien>> /\ MailShape(op[c]) /\ CallStands(c)
  BY DEF Verify, MailboxInv
<1>2. /\ op[c].kind \in Relocating /\ V \in SUBSET op[c].accepted /\ (op[c].todo = {} => V = op[c].accepted)
      /\ op[c].accepted \subseteq Uids
  BY <1>1 DEF MailShape, PlaceShape, ToVerify, MailOps, IdSet
<1>3. PICK found \in (IF connected THEN SUBSET Landed(c) ELSE {{}}) :
        LET yes == Confirmed(c) \cup found
        IN  IF ~op[c].bulk /\ yes = {} THEN Throw(c)
            ELSE /\ Becomes(c, [op[c] EXCEPT !.won = @ \cup yes, !.lost = @ \cup (V \ yes),
                                   !.accepted = @ \ V, !.pc = pc])
                 /\ UNCHANGED holder
  BY DEF Verify
<1> DEFINE yes == Confirmed(c) \cup found
           n == [op[c] EXCEPT !.won = @ \cup yes, !.lost = @ \cup (V \ yes), !.accepted = @ \ V, !.pc = pc]
<1>4. CASE Throw(c)
  BY <1>1, <1>4, ThrewKeeps
<1>5. CASE Becomes(c, n) /\ UNCHANGED holder
  <2>1. yes \in SUBSET V /\ \A u \in yes : op[c].was[u] \in reached[c]
    <3>1. found \subseteq Landed(c)
      BY <1>3
    <3>2. \A u \in Landed(c) : u \in V /\ op[c].was[u] \in Inside(op[c].dst)
      BY DEF Landed, Searched
    <3>3. \A u \in Confirmed(c) : u \in V /\ u \in op[c].relocated
      BY DEF Confirmed
    <3> QED
      BY <1>1, <1>2, <3>1, <3>2, <3>3 DEF CallStands, Arrived
  <2> HIDE DEF yes, V
  <2>2. MailShape(n) /\ pc \notin Holding
    BY <1>1, <1>2, <2>1, VerifiedShape DEF Holding
  <2>3. /\ n.pc = pc /\ n.kind = op[c].kind /\ n.dst = op[c].dst /\ n.won = op[c].won \cup yes
        /\ n.relocated = op[c].relocated /\ n.was = op[c].was /\ n.where = op[c].where
    BY <1>1 DEF MailShape, MailOps
  <2> HIDE DEF n, pc
  <2>4. op'[c] = n
    BY <1>5, BecomesFacts
  <2>5. Arrived(c)'
    <3>1. (Inside(op[c].dst))' = Inside(op'[c].dst)
      BY <1>1 DEF Inside, At, server_vars
    <3> QED
      BY <1>1, <1>2, <2>1, <2>3, <2>4, <3>1 DEF Arrived, CallStands
  <2>6. CallStands(c)'
    BY <1>2, <2>2, <2>3, <2>4, <2>5 DEF CallStands, AtWork, TakenOff, Holding, Relocating, MoveKinds
  <2> QED
    BY <1>1, <1>5, <2>2, <2>6, SilentCache, SilentStep
<1> QED
  BY <1>3, <1>4, <1>5

(* The entries stand when they are no more than before and no slot changes that *)
(* is not counted as changed by others.                                         *)
LEMMA FewerEntries ==
  ASSUME NEW T, MailboxInv, Effect(T), alien \subseteq alien',
         \A s \in Entries' : s \in Entries /\ emailCache'[s] = emailCache[s] /\ (s \in T => s \in alien')
  PROVE  \A s \in Entries' : EntryStands(s)'
<1> TAKE s \in Entries'
<1>1. ServerTyped /\ s \in Entries /\ EntryStands(s) /\ emailCache'[s] = emailCache[s]
  BY DEF MailboxInv
<1> QED
  BY <1>1, EntryKept

LEMMA LeaveKeeps ==
  ASSUME MailboxInv, NEW c \in MailCalls, Leave(c)
  PROVE  MailboxInv'
<1>1. op[c].pc = "leave" /\ UNCHANGED <<emailCache, alien>> /\ MailShape(op[c]) /\ CallStands(c) /\ ServerTyped
  BY DEF Leave, MailboxInv
<1>2. op[c].pc \in Holding /\ holder = c
  BY <1>1 DEF Holding, CallStands
<1>3. CASE Purging(c) /\ Throw(c) /\ Nothing
  BY <1>1, <1>3, ThrewKeeps DEF Nothing
<1>4. CASE /\ ~Purging(c) /\ holder' = None /\ Nothing
           /\ Becomes(c, [op[c] EXCEPT !.pc = AfterFolder(c)])
  <2> DEFINE pc == AfterFolder(c)
  <2>1. MailShape([op[c] EXCEPT !.pc = pc]) /\ pc \notin Holding
    BY <1>1, <1>4, LeftShape DEF AfterFolder, Purging, Holding
  <2> HIDE DEF pc
  <2> QED
    BY <1>1, <1>2, <1>4, <2>1, SilentCache, MovesOnKeeps DEF Nothing, pc
<1>5. CASE /\ Purging(c) /\ connected /\ Expunged(op[c].cur, op[c].accepted)
           /\ Becomes(c, [op[c] EXCEPT !.accepted = {}]) /\ UNCHANGED holder
  <2> DEFINE U == op[c].accepted
             n == [op[c] EXCEPT !.accepted = {}]
  <2>1. op[c].kind = "remove" /\ op[c].cur = Label /\ U \in SUBSET Uids
    BY <1>1, <1>2, <1>5 DEF Purging, MailShape, RemoveShape, MailOps, IdSet
  <2>2. Effect({Label} \X U) /\ UNCHANGED <<next, validity>> /\ \A u \in U : box'[Label][u] = None
    <3>1. Expunged(Label, U)
      BY <1>5, <2>1
    <3>2. ({Label} \X U) \cup {} = {Label} \X U
      OBVIOUS
    <3> QED
      BY <1>1, <2>1, <3>1, <3>2, ExpungedEffect
  <2>3. MailShape(n)
    BY <1>1, <2>1, PurgedShape
  <2>4. /\ n.kind = op[c].kind /\ n.pc = "leave" /\ n.won = op[c].won /\ n.accepted = {}
    BY <1>1 DEF MailShape, MailOps
  <2>5. Becomes(c, n) /\ UNCHANGED holder
    BY <1>5
  <2> HIDE DEF n
  <2>6. op'[c] = n /\ ServerMoves /\ UNCHANGED <<holder, validity, next>>
    BY <2>2, <2>5, BecomesFacts DEF Effect
  <2>7. TakenOff(c)'
    <3> SUFFICES ASSUME NEW u \in op[c].won
                 PROVE  u < next'[Label] /\ (validity'[Label] = 1 => box'[Label][u] = None)
      BY <2>4, <2>6 DEF TakenOff
    <3>1. u \in Uids /\ u < next[Label] /\ (validity[Label] = 1 /\ u \notin U => box[Label][u] = None)
      BY <1>1, <2>1 DEF CallStands, TakenOff, MailShape, MailOps, IdSet
    <3>2. (At(Label, u))' \in {At(Label, u), None}
      BY <2>6, <3>1, FolderFacts DEF ServerMoves, Allotted
    <3>3. At(Label, u) = box[Label][u] /\ (At(Label, u))' = box'[Label][u]
      BY FolderFacts DEF At
    <3> QED
      BY <2>2, <2>6, <3>1, <3>2, <3>3
  <2>8. CallStands(c)'
    BY <1>1, <1>2, <2>1, <2>4, <2>6, <2>7 DEF CallStands, Arrived, AtWork, Relocating, MoveKinds
  <2>9. \A s \in Entries' : EntryStands(s)'
    <3>1. \A u \in U : <<Label, u>> \notin Entries
      BY <1>1, <1>2, <2>1 DEF CallStands, TakenOff
    <3>2. \A s \in Entries' : s \in Entries /\ emailCache'[s] = emailCache[s] /\ s \notin {Label} \X U
      BY <1>1, <3>1 DEF Entries
    <3> HIDE DEF U
    <3> QED
      BY <1>1, <2>2, <3>2, FewerEntries
  <2>10. StepOf(c) /\ ServerTyped'
    BY <1>2, <2>5, <2>6, BecomesFacts DEF StepOf, ServerMoves
  <2> QED
    BY <2>3, <2>5, <2>6, <2>8, <2>9, <2>10, BecomesFacts, StepKept
<1> QED
  BY <1>3, <1>4, <1>5 DEF Leave

------------------------------------------------------------------------------
(* What a command does                                                        *)

(* The slots in which a command may be seen.                                    *)
Changed(c, U) == IF op[c].kind \in Relocating /\ ~ByMove(c) THEN {} ELSE Touched(c, U)

(* A call that gives a command to the ids U of those it works on.               *)
Commanding(c, U) ==
  /\ c \in MailCalls /\ op[c].pc \in {"change", "each"}
  /\ U \subseteq op[c].work /\ (op[c].pc = "change" => U = op[c].work)

LEMMA CommandingFacts ==
  ASSUME MailboxInv, NEW c, NEW U, Commanding(c, U)
  PROVE  /\ ServerTyped /\ MailShape(op[c]) /\ op[c] \in MailOps /\ CallStands(c) /\ holder = c
         /\ op[c].pc \in Holding /\ op[c].pc \in Working /\ op[c].cur \in Folders
         /\ op[c].work \in SUBSET Uids /\ U \in SUBSET Uids
         /\ \A u \in U : Allotted(op[c].cur, u)
         /\ op[c].kind \in Relocating =>
              /\ op[c].dst \in Real
              /\ \A u \in Present(op[c].cur, U) : op[c].was[u] = At(op[c].cur, u)
         /\ op[c].kind = "remove" => op[c].cur = Label
         /\ op[c].kind = "empty" => op[c].cur = Trash
         /\ op[c].kind \in MoveKinds => op[c].cur # op[c].dst
<1>1. ServerTyped /\ MailShape(op[c]) /\ op[c] \in MailOps /\ CallStands(c) /\ op[c].pc \in Holding /\ op[c].pc \in Working
  BY DEF MailboxInv, MailShape, Commanding, Holding, Working
<1>2. holder = c /\ op[c].cur \in Folders /\ op[c].work \in SUBSET Uids /\ U \in SUBSET Uids
  BY <1>1 DEF CallStands, MailShape, PlaceShape, MailOps, IdSet, Commanding
<1>3. \A u \in U : /\ Allotted(op[c].cur, u)
                   /\ op[c].kind \in Relocating => At(op[c].cur, u) \in {None, op[c].was[u]}
  BY <1>1 DEF CallStands, AtWork, Working, Commanding
<1>4. /\ op[c].kind \in Relocating => op[c].dst \in Real
      /\ op[c].kind = "remove" => op[c].cur = Label
      /\ op[c].kind = "empty" => op[c].cur = Trash
      /\ op[c].kind \in MoveKinds => op[c].cur # op[c].dst
  BY <1>1 DEF MailShape, ChangeShape, PlaceShape, RemoveShape, EmptyShape, Changes
<1> QED
  BY <1>1, <1>2, <1>3, <1>4 DEF Present

LEMMA EffectGrows ==
  ASSUME NEW T, NEW T2, Effect(T), T \subseteq T2
  PROVE  Effect(T2)
BY DEF Effect, SameOutside

LEMMA CommandEffect ==
  ASSUME MailboxInv, NEW c, NEW U, Commanding(c, U), NEW D \in SUBSET U, Command(c, D), ByMove(c) => MayMove
  PROVE  /\ Effect(Changed(c, U)) /\ validity' = validity
         /\ op[c].kind \in Changes \cup {"empty"}
         /\ op[c].kind \in Relocating => \A u \in Present(op[c].cur, D) : op[c].was[u] \in reached'[c]
         /\ op[c].kind = "flag" =>
              \A h \in Folders : \A u \in Present(h, D) : h = op[c].cur => (Shown(h, u))' = op[c].flag
         /\ op[c].kind = "flag" => UNCHANGED <<box, mail, next>>
         /\ op[c].kind = "remove" /\ op[c].pc = "change" => \A u \in D : box'[Label][u] = None
         /\ \A m \in mail \ mail' : m \in Inside(Trash)
<1> DEFINE f == op[c].cur
           k == op[c].kind
           g == op[c].dst
<1>1. /\ ServerTyped /\ c \in MailCalls /\ f \in Folders /\ D \in SUBSET Uids /\ U \in SUBSET Uids
      /\ k \in Relocating => g \in Real /\ \A u \in Present(f, D) : op[c].was[u] = At(f, u)
      /\ k = "remove" => f = Label
      /\ k = "empty" => f = Trash
      /\ k \in MoveKinds => f # g
  BY CommandingFacts DEF Commanding, Present
<1>2. {f} \X D \subseteq Touched(c, U)
  BY DEF Touched
<1>3. CASE ByMove(c) /\ Moved(f, D, g)
  <2>1. f \in Real /\ k \in MoveKinds /\ k \in Relocating
    BY <1>1, <1>3, FolderFacts DEF ByMove, Relocating
  <2>2. /\ Effect({f} \X D) /\ mail' = mail /\ validity' = validity
        /\ \A d \in MailCalls : op[d].dst = g => \A u \in Present(f, D) : At(f, u) \in reached'[d]
    BY <1>1, <1>3, <2>1, MovedEffect
  <2>3. Effect(Changed(c, U))
    BY <1>2, <1>3, <2>2, EffectGrows DEF Changed
  <2> QED
    BY <1>1, <2>1, <2>2, <2>3 DEF Changes, Relocating, MoveKinds
<1>4. CASE k \in Relocating /\ ~ByMove(c) /\ Copied(f, D, g)
  <2>1. /\ Effect({}) /\ mail' = mail /\ validity' = validity
        /\ \A d \in MailCalls : op[d].dst = g => \A u \in Present(f, D) : At(f, u) \in reached'[d]
    BY <1>1, <1>4, CopiedEffect
  <2> QED
    BY <1>1, <1>4, <2>1 DEF Changed, Changes, Relocating, MoveKinds
<1>5. CASE k = "empty" /\ Expunged(f, D)
  <2>1. /\ Effect(({f} \X D) \cup Purged(f, D)) /\ validity' = validity
        /\ \A m \in mail \ mail' : m \in Inside(Trash)
    BY <1>1, <1>5, ExpungedEffect, FolderFacts
  <2>2. Purged(f, D) \subseteq Touched(c, U)
    BY <1>5 DEF Purged, Touched
  <2>3. Effect(Changed(c, U))
    BY <1>2, <1>5, <2>1, <2>2, EffectGrows DEF Changed, Relocating, MoveKinds
  <2> QED
    BY <1>5, <2>1, <2>3 DEF Relocating, MoveKinds
<1>6. CASE k = "remove" /\ op[c].pc = "change" /\ Expunged(f, D)
  <2>1. ({f} \X D) \cup {} = {f} \X D
    OBVIOUS
  <2>2. /\ Effect({f} \X D) /\ validity' = validity /\ \A u \in D : box'[f][u] = None
        /\ \A m \in mail \ mail' : m \in Inside(Trash)
    BY <1>1, <1>6, <2>1, ExpungedEffect
  <2>3. Effect(Changed(c, U))
    BY <1>2, <1>6, <2>2, EffectGrows DEF Changed, Relocating, MoveKinds
  <2> QED
    BY <1>1, <1>6, <2>2, <2>3 DEF Changes, Relocating, MoveKinds
<1>7. CASE k = "remove" /\ op[c].pc = "each" /\ Nothing
  <2>1. Effect({}) /\ mail' = mail /\ validity' = validity
    BY <1>1, <1>7, NothingEffect DEF Nothing, server_vars
  <2>2. Effect(Changed(c, U))
    BY <2>1, EffectGrows
  <2> QED
    BY <1>7, <2>1, <2>2 DEF Changes, Relocating, MoveKinds
<1>8. CASE k = "flag" /\ SetFlags(f, D, op[c].flag)
  <2>1. op[c].flag \in {"seen", "unseen"}
    BY CommandingFacts DEF MailOps, Flags
  <2>2. /\ Effect({f} \X D) /\ mail' = mail /\ UNCHANGED <<box, next, validity, reached>>
        /\ \A h \in Folders : \A u \in Present(h, D) : h = f => (Shown(h, u))' = op[c].flag
    <3>1. PICK h \in Folders, v \in {"seen", "unseen"} : h = f /\ v = op[c].flag
      BY <1>1, <2>1
    <3>2. SetFlags(h, D, v)
      BY <1>8, <3>1
    <3>3. /\ Effect({h} \X D) /\ mail' = mail /\ UNCHANGED <<box, next, validity, reached>>
          /\ \A u \in Present(h, D) : (Shown(h, u))' = v
      BY <1>1, <3>2, SetFlagsEffect
    <3> QED
      BY <3>1, <3>3
  <2>3. Effect(Changed(c, U))
    BY <1>2, <1>8, <2>2, EffectGrows DEF Changed, Relocating, MoveKinds
  <2> QED
    BY <1>8, <2>2, <2>3 DEF Changes, Relocating, MoveKinds
<1> QED
  BY <1>3, <1>4, <1>5, <1>6, <1>7, <1>8 DEF Command, MayMove

------------------------------------------------------------------------------
(* What an answer makes of a call                                             *)

(* A call r that has had the ids U accepted, with those of S named in a UID map. *)
Answers(r, n, U, S) ==
  /\ MailShape(n) /\ n.pc \in {"leave", r.pc}
  /\ n.kind = r.kind /\ n.dst = r.dst /\ n.where = r.where /\ n.cur = r.cur /\ n.was = r.was
  /\ n.work \subseteq r.work
  /\ r.kind \in Relocating => n.won = r.won /\ n.relocated \subseteq r.relocated \cup S
  /\ r.kind \notin Relocating => n.won = r.won \cup U
  /\ r.kind = "remove" => n.accepted = IF r.pc = "each" THEN r.accepted \cup U ELSE r.accepted

LEMMA AcceptAnswers ==
  ASSUME MailboxInv, NEW c, NEW U, Commanding(c, U), NEW S \in SUBSET U, NEW F \in SUBSET Folders
  PROVE  Answers(op[c], Accept(c, U, S, F), U, S)
<1>1. PICK r, pc, A, V : r = op[c] /\ pc = Rest(c, U) /\ A = Outstanding(c, U) /\ V = Counted(c, U)
  OBVIOUS
<1> DEFINE n == [r EXCEPT !.work = @ \ U, !.pc = pc, !.accepted = @ \cup A, !.won = @ \cup V,
                          !.relocated = @ \cup S, !.plus = @ \cup F]
<1>2. MailShape(r) /\ r \in MailOps /\ U \in SUBSET r.work
  BY <1>1, CommandingFacts DEF Commanding
<1>3. /\ r.pc \in {"change", "each"} /\ pc = (IF r.work \subseteq U THEN "leave" ELSE r.pc)
      /\ (r.pc = "change" => pc = "leave")
  BY <1>1 DEF Rest, Commanding
<1>4. /\ A = (IF r.kind \in Relocating \/ (r.kind = "remove" /\ r.pc = "each") THEN U ELSE {})
      /\ V = (IF r.kind \in Relocating THEN {} ELSE U)
  BY <1>1 DEF Outstanding, Counted
<1>5. Accept(c, U, S, F) = n
  BY ONLY <1>1 DEF Accept
<1>6. /\ r.work \ U \in IdSet /\ r.accepted \cup A \in IdSet /\ r.won \cup V \in IdSet
      /\ r.relocated \cup S \in IdSet /\ r.plus \cup F \in FolderSet /\ pc \in AnyPc
  BY <1>2, <1>3, <1>4 DEF MailOps, IdSet, FolderSet, AnyPc
<1>7. n \in MailOps
  BY <1>2, <1>6 DEF MailOps
<1>8. /\ n.work = r.work \ U /\ n.pc = pc /\ n.accepted = r.accepted \cup A /\ n.won = r.won \cup V
      /\ n.relocated = r.relocated \cup S
  BY <1>2 DEF MailOps
<1>9. /\ n.kind = r.kind /\ n.bulk = r.bulk /\ n.ids = r.ids /\ n.src = r.src /\ n.dst = r.dst /\ n.was = r.was
      /\ n.where = r.where /\ n.todo = r.todo /\ n.cur = r.cur /\ n.lost = r.lost
  BY <1>2 DEF MailOps
<1> HIDE DEF n
<1>10. MailShape(n)
  BY <1>2, <1>3, <1>4, <1>7, <1>8, <1>9, AcceptShape
<1>11. Answers(r, n, U, S)
  BY <1>3, <1>4, <1>8, <1>9, <1>10 DEF Answers, Relocating, MoveKinds
<1> QED
  BY <1>1, <1>5, <1>11

LEMMA MappedAnswers ==
  ASSUME MailboxInv, NEW c, NEW U, Commanding(c, U), NEW S \in SUBSET U
  PROVE  Answers(op[c], Mapped(c, U, S), U, S)
<1>1. CASE bridge.plus /\ op[c].kind \in Relocating
  <2>1. {op[c].cur} \in SUBSET Folders
    BY CommandingFacts
  <2>2. Answers(op[c], Accept(c, U, S, {op[c].cur}), U, S)
    BY <2>1, AcceptAnswers
  <2> QED
    BY <1>1, <2>2 DEF Mapped
<1>2. CASE ~(bridge.plus /\ op[c].kind \in Relocating)
  <2>1. Answers(op[c], Accept(c, U, {}, {}), U, {})
    BY AcceptAnswers
  <2>2. Answers(op[c], Accept(c, U, {}, {}), U, S)
    BY <2>1 DEF Answers
  <2>3. Mapped(c, U, S) = Accept(c, U, {}, {})
    BY <1>2 DEF Mapped
  <2> QED
    BY <2>2, <2>3
<1> QED
  BY <1>1, <1>2

(* Such a call stands when what the map names has arrived, and what a removal   *)
(* accepted is off, or marked and out of the cache.                             *)
LEMMA AnswersStand ==
  ASSUME MailboxInv, NEW c, NEW U, NEW S, Commanding(c, U), NEW n, Becomes(c, n), Answers(op[c], n, U, S),
         ServerMoves, validity' = validity, holder' = holder, Entries' \subseteq Entries,
         op[c].kind \in Relocating => \A u \in S : op[c].was[u] \in reached'[c],
         op[c].kind = "remove" /\ op[c].pc = "change" => \A u \in U : box'[Label][u] = None,
         op[c].kind = "remove" => \A u \in U : <<Label, u>> \notin Entries'
  PROVE  CallStands(c)'
<1>1. /\ op'[c] = n /\ c \in MailCalls /\ ServerTyped /\ MailShape(op[c]) /\ CallStands(c) /\ holder' = c
      /\ op[c].pc \in Holding /\ op[c].pc \in Working
  BY CommandingFacts, BecomesFacts DEF Commanding
<1>2. Arrived(c)'
  <2> SUFFICES ASSUME op[c].kind \in Relocating
               PROVE  /\ \A u \in op[c].won : op[c].where[u] = op[c].dst \/ op[c].was[u] \in reached'[c]
                      /\ \A u \in op[c].relocated \cup S : op[c].was[u] \in reached'[c]
                      /\ (Inside(op[c].dst))' \subseteq reached'[c]
    BY <1>1 DEF Arrived, Answers
  <2>1. op[c].pc # "idle" /\ op[c].dst \in Real /\ op'[c].dst = op[c].dst
    BY <1>1 DEF MailShape, ChangeShape, Changes, Answers, Working
  <2>2. reached[c] \subseteq reached'[c] /\ (Inside(op[c].dst))' \subseteq Inside(op[c].dst) \cup reached'[c]
    BY <1>1, <2>1 DEF ServerMoves
  <2>3. /\ \A u \in op[c].won : op[c].where[u] = op[c].dst \/ op[c].was[u] \in reached[c]
        /\ \A u \in op[c].relocated : op[c].was[u] \in reached[c]
        /\ Inside(op[c].dst) \subseteq reached[c]
    BY <1>1 DEF CallStands, Arrived
  <2> QED
    BY <2>2, <2>3
<1>3. AtWork(c)'
  BY <1>1, AtWorkKept DEF CallStands, Answers
<1>4. TakenOff(c)'
  <2> SUFFICES ASSUME op[c].kind = "remove"
               PROVE  /\ \A u \in op[c].won \cup U :
                           /\ u < next'[Label]
                           /\ validity[Label] = 1 /\ u \notin n.accepted => box'[Label][u] = None
                      /\ \A u \in op[c].accepted \cup U : <<Label, u>> \notin Entries'
    BY <1>1 DEF TakenOff, Answers, Relocating, MoveKinds
  <2>1. /\ op[c].won \subseteq Uids /\ op[c].cur = Label /\ U \subseteq Uids /\ \A u \in U : u < next[Label]
        /\ n.accepted = (IF op[c].pc = "each" THEN op[c].accepted \cup U ELSE op[c].accepted)
    BY <1>1, CommandingFacts, FolderFacts DEF MailOps, IdSet, Allotted, Answers
  <2>2. /\ \A u \in op[c].won : u < next[Label] /\ (validity[Label] = 1 /\ u \notin op[c].accepted => box[Label][u] = None)
        /\ \A u \in op[c].accepted : <<Label, u>> \notin Entries
    BY <1>1 DEF CallStands, TakenOff
  <2>3. \A u \in op[c].won \cup U : u < next'[Label]
    BY <2>1, <2>2, FolderFacts DEF ServerMoves
  <2>4. \A u \in op[c].won : validity[Label] = 1 /\ u \notin n.accepted => box'[Label][u] = None
    <3> TAKE u \in op[c].won
    <3>1. u \in Uids /\ (At(Label, u))' \in {At(Label, u), None}
      BY <2>1, <2>2, FolderFacts DEF ServerMoves, Allotted
    <3>2. At(Label, u) = box[Label][u] /\ (At(Label, u))' = box'[Label][u]
      BY FolderFacts DEF At
    <3> QED
      BY <2>1, <2>2, <3>1, <3>2
  <2>5. \A u \in U : u \notin n.accepted => box'[Label][u] = None
    BY <2>1 DEF Commanding
  <2> QED
    BY <2>2, <2>3, <2>4, <2>5
<1> QED
  BY <1>1, <1>2, <1>3, <1>4 DEF CallStands, Answers

------------------------------------------------------------------------------
(* Commands that fail                                                         *)

(* A command that fails: the call falls back to single ids, counts the id as    *)
(* lost, or ends.                                                               *)
LEMMA FailsStands ==
  ASSUME MailboxInv, NEW c, NEW U, Commanding(c, U), Fails(c, U) \/ Throw(c),
         ServerMoves, validity' = validity, Entries' \subseteq Entries
  PROVE  MailShape(op'[c]) /\ CallStands(c)' /\ \E n : Becomes(c, n)
<1>1. /\ c \in MailCalls /\ MailShape(op[c]) /\ op[c] \in MailOps /\ holder = c /\ op[c].pc \in Holding
      /\ op[c].pc \in Working /\ op[c].pc \in {"change", "each"} /\ U \in SUBSET op[c].work
  BY CommandingFacts DEF Commanding
<1>2. SUFFICES ASSUME NEW n, Becomes(c, n), MailShape(n), GoesOn(op[c], n), n.pc \in Holding => holder' = holder
               PROVE  MailShape(op'[c]) /\ CallStands(c)' /\ \E m : Becomes(c, m)
  <2>1. CASE Throw(c)
    <3> DEFINE n == [op[c] EXCEPT !.pc = "threw"]
    <3>1. Becomes(c, n)
      BY <2>1 DEF Throw
    <3>2. MailShape(n)
      BY <1>1, ThrewShape DEF Holding
    <3>3. GoesOn(op[c], n) /\ n.pc \notin Holding
      BY <1>1 DEF MailOps, GoesOn, Working, Holding
    <3> HIDE DEF n
    <3> QED
      BY <1>2, <3>1, <3>2, <3>3
  <2>2. CASE op[c].bulk /\ op[c].pc = "change" /\ UNCHANGED holder /\ Becomes(c, [op[c] EXCEPT !.pc = "each"])
    <3> DEFINE n == [op[c] EXCEPT !.pc = "each"]
    <3>1. Becomes(c, n)
      BY <2>2
    <3>2. MailShape(n)
      BY <1>1, <2>2, EachShape
    <3>3. GoesOn(op[c], n)
      BY <1>1 DEF MailOps, GoesOn
    <3> HIDE DEF n
    <3> QED
      BY <1>2, <2>2, <3>1, <3>2, <3>3
  <2>3. CASE /\ op[c].bulk /\ op[c].pc = "each" /\ UNCHANGED holder
             /\ Becomes(c, [op[c] EXCEPT !.work = @ \ U, !.lost = @ \cup U, !.pc = Rest(c, U)])
    <3>1. PICK pc : pc = Rest(c, U)
      OBVIOUS
    <3>2. pc = IF op[c].work \subseteq U THEN "leave" ELSE op[c].pc
      BY <3>1 DEF Rest
    <3> DEFINE n == [op[c] EXCEPT !.work = @ \ U, !.lost = @ \cup U, !.pc = pc]
    <3>3. Becomes(c, n)
      BY ONLY <2>3, <3>1
    <3>4. n \in MailOps /\ n.work = op[c].work \ U /\ n.lost = op[c].lost \cup U /\ n.pc = pc
      BY <1>1, <2>3, <3>2 DEF MailOps, IdSet, AnyPc
    <3>5. /\ n.kind = op[c].kind /\ n.bulk = op[c].bulk /\ n.ids = op[c].ids /\ n.src = op[c].src /\ n.dst = op[c].dst
          /\ n.where = op[c].where /\ n.todo = op[c].todo /\ n.cur = op[c].cur /\ n.accepted = op[c].accepted
          /\ n.won = op[c].won /\ n.relocated = op[c].relocated /\ n.was = op[c].was
      BY <1>1 DEF MailOps
    <3> HIDE DEF n
    <3>6. MailShape(n)
      BY <1>1, <2>3, <3>2, <3>4, <3>5, FailedShape
    <3>7. GoesOn(op[c], n)
      BY <1>1, <3>4, <3>5 DEF GoesOn
    <3> QED
      BY <1>2, <2>3, <3>3, <3>6, <3>7
  <2> QED
    BY <1>1, <2>1, <2>2, <2>3 DEF Fails
<1>3. CallStands(c)'
  BY <1>1, <1>2, StandsOn
<1> QED
  BY <1>1, <1>2, <1>3, BecomesFacts

LEMMA FailedKeeps ==
  ASSUME MailboxInv, NEW c, NEW U, Commanding(c, U), Fails(c, U) \/ Throw(c),
         NEW T, Effect(T), validity' = validity, UNCHANGED emailCache, alien \subseteq alien', T \subseteq alien'
  PROVE  MailboxInv'
<1>1. ServerMoves /\ ServerTyped' /\ Entries' = Entries
  BY DEF Effect, ServerMoves, Entries
<1>2. c \in MailCalls /\ holder = c
  BY CommandingFacts DEF Commanding
<1>3. PICK n : Becomes(c, n)
  BY <1>1, FailsStands
<1>4. /\ MailShape(op'[c]) /\ CallStands(c)'
      /\ op' = [op EXCEPT ![c] = op'[c]] /\ \A d \in MailCalls \ {c} : op'[d] = op[d]
  BY <1>1, <1>2, <1>3, FailsStands, BecomesFacts
<1>5. \A s \in Entries' : s \in Entries /\ emailCache'[s] = emailCache[s] /\ (s \in T => s \in alien')
  BY <1>1
<1>6. \A s \in Entries' : EntryStands(s)'
  BY <1>5, FewerEntries
<1>7. StepOf(c)
  BY <1>1, <1>2, <1>4 DEF StepOf
<1> QED
  BY <1>1, <1>2, <1>4, <1>6, <1>7, StepKept

LEMMA RefusedKeeps ==
  ASSUME MailboxInv, NEW c, NEW U, Commanding(c, U), Refused(c, U)
  PROVE  MailboxInv'
<1>1. /\ Fails(c, U) /\ UNCHANGED <<server_vars, reached>> /\ UNCHANGED emailCache /\ alien \subseteq alien'
  BY DEF Refused, Nothing
<1>2. Effect({}) /\ validity' = validity
  BY <1>1, SilentServer
<1> QED
  BY <1>1, <1>2, FailedKeeps

LEMMA CutOffKeeps ==
  ASSUME MailboxInv, NEW c, NEW U, Commanding(c, U), CutOff(c, U)
  PROVE  MailboxInv'
<1>1. /\ Fails(c, U) \/ Throw(c)
      /\ ByMove(c) => MayMove
      /\ UNCHANGED emailCache /\ alien' = alien \cup Touched(c, U)
  BY DEF CutOff
<1>2. \/ Nothing
      \/ \E D \in SUBSET U : Command(c, D)
  BY DEF CutOff
<1>3. Effect(Changed(c, U)) /\ validity' = validity
  <2>1. CASE Nothing
    <3>1. Effect({}) /\ validity' = validity
      BY <2>1, SilentServer DEF Nothing
    <3> QED
      BY <3>1, EffectGrows
  <2>2. CASE \E D \in SUBSET U : Command(c, D)
    BY <1>1, <2>2, CommandEffect
  <2> QED
    BY <1>2, <2>1, <2>2
<1>4. Changed(c, U) \subseteq alien'
  BY <1>1 DEF Changed
<1> QED
  BY <1>1, <1>3, <1>4, FailedKeeps

------------------------------------------------------------------------------
(* Commands that are answered                                                 *)

LEMMA EvictedEntries ==
  ASSUME MailboxInv, NEW c, NEW U, NEW T, Effect(T), T \ ({op[c].cur} \X U) \subseteq alien',
         alien \subseteq alien', emailCache' = Evicted(c, U)
  PROVE  /\ Entries' \subseteq Entries /\ \A s \in Entries' : EntryStands(s)'
         /\ \A u \in U : <<op[c].cur, u>> \notin Entries'
<1>1. PICK S : S = {op[c].cur} \X U
  OBVIOUS
<1>2. \A s \in Entries' : s \in Entries /\ s \notin S /\ emailCache'[s] = emailCache[s]
  <2>1. emailCache' = WithoutSlots(emailCache, S)
    BY <1>1 DEF Evicted
  <2> QED
    BY <2>1 DEF WithoutSlots, Entries
<1>3. \A s \in Entries' : s \in Entries /\ emailCache'[s] = emailCache[s] /\ (s \in T => s \in alien')
  BY <1>1, <1>2
<1>4. \A s \in Entries' : EntryStands(s)'
  BY <1>3, FewerEntries
<1> QED
  BY <1>1, <1>2, <1>4

LEMMA FlaggedEntries ==
  ASSUME MailboxInv, NEW c, NEW U \in SUBSET Uids, NEW f \in Folders, f = op[c].cur,
         Effect({f} \X U), alien \subseteq alien', UNCHANGED <<box, mail, next, validity>>,
         op[c].flag \in Flags, \A u \in Present(f, U) : (Shown(f, u))' = op[c].flag,
         emailCache' = Flagged(c, U)
  PROVE  Entries' \subseteq Entries /\ \A s \in Entries' : EntryStands(s)'
<1>1. PICK flag \in Flags : flag = op[c].flag
  OBVIOUS
<1>2. emailCache' = [s \in Entries |-> IF s \in {f} \X U THEN [emailCache[s] EXCEPT !.flag = flag] ELSE emailCache[s]]
  BY <1>1 DEF Flagged
<1>3. Entries' = Entries
  BY <1>2 DEF Entries
<1>4. ASSUME NEW s \in Entries
      PROVE  EntryStands(s)'
  <2>0. ServerTyped /\ EntryStands(s)
    BY DEF MailboxInv
  <2>1. CASE s \notin {f} \X U
    <3>1. emailCache'[s] = emailCache[s]
      BY <1>2, <2>1
    <3> QED
      BY <2>0, <2>1, <3>1, EntryKept
  <2>2. CASE s \in {f} \X U
    <3>1. PICK u \in U : s = <<f, u>>
      BY <2>2
    <3>2. s \in Slots /\ s[1] = f /\ s[2] = u /\ u \in Uids
      BY <3>1 DEF Slots
    <3> DEFINE e == emailCache[s]
               n == emailCache'[s]
    <3>3. /\ e \in EntrySet /\ e.era <= validity[f]
          /\ e.era = validity[f] =>
               Allotted(f, u) /\ (s \notin alien => e.msg = At(f, u) /\ e.flag = Shown(f, u))
      BY <2>0, <3>2 DEF EntryStands
    <3>4. n = [e EXCEPT !.flag = flag]
      BY <1>2, <2>2
    <3> HIDE DEF n
    <3>5. n \in EntrySet /\ n.era = e.era /\ n.msg = e.msg /\ n.flag = flag
      BY <3>3, <3>4 DEF EntrySet
    <3>6. (At(f, u))' = At(f, u) /\ ((Allotted(f, u))' <=> Allotted(f, u)) /\ validity' = validity
      BY DEF At, Allotted
    <3>7. ASSUME n.era = validity[f], s \notin alien'
          PROVE  n.msg = (At(f, u))' /\ n.flag = (Shown(f, u))'
      <4>1. e.msg = At(f, u)
        BY <3>3, <3>5, <3>7
      <4>2. At(f, u) # None
        BY <3>3, <4>1, NumberFacts DEF EntrySet
      <4>3. (Shown(f, u))' = flag
        BY <1>1, <3>1, <4>2 DEF Present
      <4> QED
        BY <3>5, <3>6, <4>1, <4>3
    <3>8. n = emailCache'[s]
      BY DEF n
    <3> HIDE DEF e
    <3> QED
      BY <3>2, <3>3, <3>5, <3>6, <3>7, <3>8 DEF EntryStands
  <2> QED
    BY <2>1, <2>2
<1> QED
  BY <1>3, <1>4

(* After an answer the cache has followed the change.                           *)
LEMMA FollowEntries ==
  ASSUME MailboxInv, NEW c, NEW U, Commanding(c, U), NEW T, Effect(T), T \ ({op[c].cur} \X U) \subseteq alien',
         alien \subseteq alien', validity' = validity, Follow(c, U), op[c].kind \in Changes \cup {"empty"},
         op[c].kind \in Relocating /\ ~ByMove(c) => T = {},
         op[c].kind = "flag" =>
           /\ T = {op[c].cur} \X U /\ UNCHANGED <<box, mail, next>>
           /\ \A h \in Folders : \A u \in Present(h, U) : h = op[c].cur => (Shown(h, u))' = op[c].flag
  PROVE  /\ Entries' \subseteq Entries /\ \A s \in Entries' : EntryStands(s)'
         /\ op[c].kind = "remove" => \A u \in U : <<Label, u>> \notin Entries'
<1>1. CASE emailCache' = Evicted(c, U)
  <2>1. op[c].kind = "remove" => op[c].cur = Label
    BY CommandingFacts
  <2> QED
    BY <1>1, <2>1, EvictedEntries
<1>2. CASE op[c].kind = "flag" /\ emailCache' = Flagged(c, U)
  <2>1. PICK f \in Folders : f = op[c].cur
    BY CommandingFacts
  <2>2. U \in SUBSET Uids /\ op[c].flag \in Flags
    BY CommandingFacts DEF MailOps
  <2>3. Effect({f} \X U) /\ UNCHANGED <<box, mail, next, validity>> /\ \A u \in Present(f, U) : (Shown(f, u))' = op[c].flag
    BY <1>2, <2>1
  <2> QED
    BY <1>2, <2>1, <2>2, <2>3, FlaggedEntries
<1>3. CASE op[c].kind \in Relocating /\ ~ByMove(c) /\ UNCHANGED emailCache
  <2>1. \A s \in Entries' : s \in Entries /\ emailCache'[s] = emailCache[s] /\ (s \in {} => s \in alien')
    BY <1>3 DEF Entries
  <2>2. Effect({})
    BY <1>3
  <2>3. \A s \in Entries' : EntryStands(s)'
    BY <2>1, <2>2, FewerEntries
  <2> QED
    BY <1>3, <2>1, <2>3 DEF Relocating, MoveKinds
<1> QED
  BY <1>1, <1>2, <1>3 DEF Follow, Changes, Relocating, MoveKinds

(* A command that was answered without an error.                                *)
LEMMA AnsweredKeeps ==
  ASSUME MailboxInv, NEW c, NEW U, Commanding(c, U), NEW n, NEW S, Becomes(c, n), Answers(op[c], n, U, S),
         NEW T, Effect(T), validity' = validity, holder' = holder,
         Entries' \subseteq Entries, \A s \in Entries' : EntryStands(s)',
         op[c].kind = "remove" => \A u \in U : <<Label, u>> \notin Entries',
         op[c].kind \in Relocating => \A u \in S : op[c].was[u] \in reached'[c],
         op[c].kind = "remove" /\ op[c].pc = "change" => \A u \in U : box'[Label][u] = None
  PROVE  MailboxInv'
<1>1. c \in MailCalls /\ holder = c /\ ServerMoves /\ ServerTyped'
  BY CommandingFacts DEF Commanding, Effect, ServerMoves
<1>2. CallStands(c)'
  BY <1>1, AnswersStand
<1>3. op'[c] = n /\ op' = [op EXCEPT ![c] = op'[c]] /\ \A d \in MailCalls \ {c} : op'[d] = op[d]
  BY <1>1, BecomesFacts
<1>4. MailShape(op'[c]) /\ StepOf(c)
  BY <1>1, <1>3 DEF Answers, StepOf
<1> QED
  BY <1>1, <1>2, <1>3, <1>4, StepKept

LEMMA CommandDoneKeeps ==
  ASSUME MailboxInv, NEW c, NEW U, Commanding(c, U), CommandDone(c, U)
  PROVE  MailboxInv'
<1>1. /\ Command(c, U) /\ (ByMove(c) => MayMove) /\ Follow(c, U) /\ holder' = holder
      /\ alien' = alien \cup (Touched(c, U) \ ({op[c].cur} \X U))
      /\ Becomes(c, Mapped(c, U, Present(op[c].cur, U)))
  BY DEF CommandDone
<1>2. /\ Effect(Changed(c, U)) /\ validity' = validity
      /\ op[c].kind \in Changes \cup {"empty"}
      /\ op[c].kind \in Relocating => \A u \in Present(op[c].cur, U) : op[c].was[u] \in reached'[c]
      /\ op[c].kind = "flag" =>
           \A h \in Folders : \A u \in Present(h, U) : h = op[c].cur => (Shown(h, u))' = op[c].flag
      /\ op[c].kind = "flag" => UNCHANGED <<box, mail, next>>
      /\ op[c].kind = "remove" /\ op[c].pc = "change" => \A u \in U : box'[Label][u] = None
  BY <1>1, CommandEffect
<1>3. /\ Changed(c, U) \ ({op[c].cur} \X U) \subseteq alien' /\ alien \subseteq alien'
      /\ op[c].kind \in Relocating /\ ~ByMove(c) => Changed(c, U) = {}
      /\ op[c].kind = "flag" => Changed(c, U) = {op[c].cur} \X U
  BY <1>1 DEF Changed, Touched, Relocating, MoveKinds
<1>4. /\ Entries' \subseteq Entries /\ \A s \in Entries' : EntryStands(s)'
      /\ op[c].kind = "remove" => \A u \in U : <<Label, u>> \notin Entries'
  BY <1>1, <1>2, <1>3, FollowEntries
<1>5. Answers(op[c], Mapped(c, U, Present(op[c].cur, U)), U, Present(op[c].cur, U))
  BY MappedAnswers DEF Present
<1> QED
  BY <1>1, <1>2, <1>4, <1>5, AnsweredKeeps

LEMMA IgnoredKeeps ==
  ASSUME MailboxInv, NEW c, NEW U, Commanding(c, U), Ignored(c, U)
  PROVE  MailboxInv'
<1>1. /\ op[c].kind \in Relocating /\ Follow(c, U) /\ UNCHANGED <<server_vars, reached>>
      /\ holder' = holder /\ alien' = alien
      /\ Becomes(c, IF op[c].cur = All THEN Mapped(c, U, {}) ELSE Accept(c, U, {}, {}))
  BY DEF Ignored, Nothing
<1>2. Effect({}) /\ validity' = validity
  BY <1>1, SilentServer
<1>3. op[c].kind \in Changes /\ op[c].kind # "flag" /\ op[c].kind # "remove"
  BY <1>1 DEF Changes, Relocating, MoveKinds
<1>4. Entries' \subseteq Entries /\ \A s \in Entries' : EntryStands(s)'
  BY <1>1, <1>2, <1>3, FollowEntries
<1>5. PICK n : Becomes(c, n) /\ Answers(op[c], n, U, {})
  <2>1. Answers(op[c], Mapped(c, U, {}), U, {}) /\ Answers(op[c], Accept(c, U, {}, {}), U, {})
    BY MappedAnswers, AcceptAnswers
  <2> QED
    BY <1>1, <2>1
<1>6. \A u \in {} : op[c].was[u] \in reached'[c]
  OBVIOUS
<1>7. op[c].kind = "remove" => \A u \in U : <<Label, u>> \notin Entries'
  BY <1>3
<1>8. PICK S : S = {}
  OBVIOUS
<1>9. Answers(op[c], n, U, S) /\ Effect(S) /\ \A u \in S : op[c].was[u] \in reached'[c]
  BY <1>2, <1>5, <1>6, <1>8
<1> QED
  BY <1>1, <1>2, <1>3, <1>4, <1>5, <1>7, <1>9, AnsweredKeeps

LEMMA GiveCommandKeeps ==
  ASSUME MailboxInv, NEW c \in MailCalls, GiveCommand(c)
  PROVE  MailboxInv'
<1>1. PICK U \in (IF op[c].pc = "change" THEN {op[c].work} ELSE {{u} : u \in op[c].work}) :
        CommandDone(c, U) \/ Ignored(c, U) \/ Refused(c, U) \/ CutOff(c, U)
  BY DEF GiveCommand
<1>2. Commanding(c, U)
  BY DEF GiveCommand, Commanding
<1> QED
  BY <1>1, <1>2, CommandDoneKeeps, IgnoredKeeps, RefusedKeeps, CutOffKeeps

------------------------------------------------------------------------------
(* Steps of nobody's call, and the theorems                                   *)

LEMMA OthersKeep ==
  ASSUME MailboxInv, NEW T, Effect(T), validity' = validity, UNCHANGED <<emailCache, op, holder>>,
         alien \subseteq alien', T \subseteq alien'
  PROVE  MailboxInv'
<1>1. \A s \in Entries' : s \in Entries /\ emailCache'[s] = emailCache[s] /\ (s \in T => s \in alien')
  BY DEF Entries
<1>2. ServerMoves /\ Entries' \subseteq Entries
  BY <1>1 DEF Effect
<1>3. \A s \in Entries' : EntryStands(s)'
  BY <1>1, FewerEntries
<1> QED
  BY <1>2, <1>3, OutsideKept

LEMMA OtherMovesKeeps ==
  ASSUME MailboxInv, OtherMoves
  PROVE  MailboxInv' /\ mail' = mail
<1>1. PICK f \in Folders, g \in Real, u \in Uids :
        /\ f # g /\ (IF f = All THEN Copied(f, {u}, g) ELSE Moved(f, {u}, g))
        /\ alien' = alien \cup {<<f, u>>}
  BY DEF OtherMoves
<1>2. UNCHANGED <<emailCache, op, holder>> /\ ServerTyped
  BY DEF OtherMoves, Outside, MailboxInv
<1>3. Effect({f} \X {u}) /\ validity' = validity /\ mail' = mail
  <2>1. CASE f = All
    <3>1. Effect({}) /\ validity' = validity /\ mail' = mail
      BY <1>1, <1>2, <2>1, CopiedEffect
    <3> QED
      BY <3>1, EffectGrows
  <2>2. CASE f # All
    <3>1. f \in Real /\ Moved(f, {u}, g)
      BY <1>1, <2>2, FolderFacts
    <3> QED
      BY <1>1, <1>2, <3>1, MovedEffect
  <2> QED
    BY <2>1, <2>2
<1>4. {f} \X {u} \subseteq alien'
  BY <1>1
<1> QED
  BY <1>1, <1>2, <1>3, <1>4, OthersKeep

LEMMA OtherFlagsKeeps ==
  ASSUME MailboxInv, OtherFlags
  PROVE  MailboxInv' /\ mail' = mail
<1>1. PICK f \in Real, u \in Uids :
        /\ seen' = (seen \cup {<<f, u>>}) \ (seen \cap {<<f, u>>})
        /\ alien' = alien \cup {<<f, u>>}
  BY DEF OtherFlags
<1>2. UNCHANGED <<box, next, mail, validity, reached, emailCache, op, holder>> /\ ServerTyped
  BY DEF OtherFlags, Outside, MailboxInv
<1>3. Effect({<<f, u>>})
  <2>1. \A g \in Folders : \A v \in Uids : (At(g, v))' = At(g, v)
    BY <1>2 DEF At
  <2>2. ServerMoves
    BY <1>2, <2>1 DEF ServerMoves, ServerTyped, Inside, At
  <2> QED
    BY <1>1, <2>1, <2>2 DEF Effect, SameOutside, Shown
<1> QED
  BY <1>1, <1>2, <1>3, OthersKeep

LEMMA RebuiltKeeps ==
  ASSUME MailboxInv, Rebuilt
  PROVE  MailboxInv' /\ mail' = mail
<1>1. PICK f \in Real, b \in [Uids -> Mail \cup {None}] :
        /\ \A c \in MailCalls : holder = c => op[c].cur # f
        /\ {b[u] : u \in Uids} \ {None} = Inside(f)
        /\ box' = [box EXCEPT ![f] = b]
        /\ next' = [next EXCEPT ![f] = MaxUid + 1]
        /\ validity' = [validity EXCEPT ![f] = @ + 1]
        /\ seen' = {s \in seen : s[1] # f}
  BY DEF Rebuilt
<1>2. UNCHANGED <<mail, reached, emailCache, alien, op, holder>> /\ ServerTyped
  BY DEF Rebuilt, Outside, MailboxInv
<1>3. /\ box' \in Boxes /\ box'[f] = b /\ \A h \in Real \ {f} : box'[h] = box[h]
      /\ next' \in [Real -> Nat] /\ next'[f] = MaxUid + 1 /\ \A h \in Real \ {f} : next'[h] = next[h]
  BY <1>1, <1>2, NumberFacts DEF ServerTyped, Boxes
<1>4. /\ validity' \in [Folders -> Nat \ {0}] /\ validity'[f] = validity[f] + 1 /\ validity[f] \in Nat
      /\ \A h \in Folders \ {f} : validity'[h] = validity[h]
  BY <1>1, <1>2, FolderFacts DEF ServerTyped
<1>5. \A u \in Uids : u < MaxUid + 1
  BY NumberFacts DEF Uids
<1>6. ServerTyped'
  <2>1. \A h \in Real : \A u \in Uids : ~(u < next'[h]) => box'[h][u] = None
    BY <1>2, <1>3, <1>5 DEF ServerTyped
  <2> QED
    BY <1>2, <1>3, <1>4, <2>1 DEF ServerTyped
<1>7. \A h \in Folders : validity[h] <= validity'[h] /\ (validity'[h] = validity[h] => h # f)
  <2> TAKE h \in Folders
  <2>1. validity[h] \in Nat
    BY <1>2 DEF ServerTyped
  <2> QED
    BY <1>4, <2>1
<1>8. \A h \in Folders : h # f => \A u \in Uids : (At(h, u))' = At(h, u) /\ (Shown(h, u))' = Shown(h, u)
  <2> TAKE h \in Folders
  <2> HAVE h # f
  <2> TAKE u \in Uids
  <2>1. <<h, u>> \in seen' <=> <<h, u>> \in seen
    BY <1>1
  <2>2. (At(h, u))' = At(h, u)
    BY <1>2, <1>3, FolderFacts DEF At
  <2> QED
    BY <2>1, <2>2 DEF Shown
<1>9. \A h \in Real : (Inside(h))' = Inside(h)
  <2> TAKE h \in Real
  <2>1. CASE h = f
    <3>1. \A u \in Uids : (At(h, u))' = b[u]
      BY <1>3, <2>1, FolderFacts DEF At
    <3> QED
      BY <1>1, <2>1, <3>1 DEF Inside
  <2>2. CASE h # f
    BY <1>8, <2>2, FolderFacts DEF Inside
  <2> QED
    BY <2>1, <2>2
<1>10. ServerMoves
  <2>1. \A h \in Real : \A u \in Uids : u < next[h] => u < next'[h]
    BY <1>3, <1>5
  <2> QED
    BY <1>2, <1>6, <1>7, <1>8, <1>9, <2>1 DEF ServerMoves
<1>11. Effect({})
  BY <1>7, <1>8, <1>10 DEF Effect, SameOutside
<1>12. \A s \in Entries' : EntryStands(s)'
  <2>1. \A s \in Entries' : s \in Entries /\ emailCache'[s] = emailCache[s] /\ (s \in {} => s \in alien')
    BY <1>2 DEF Entries
  <2> QED
    BY <1>2, <1>11, <2>1, FewerEntries
<1>13. \A c \in MailCalls : op[c].pc \in Holding => validity'[op[c].cur] = validity[op[c].cur]
  <2> TAKE c \in MailCalls
  <2> HAVE op[c].pc \in Holding
  <2>1. holder = c /\ op[c].cur \in Folders
    BY DEF MailboxInv, CallStands, MailShape, PlaceShape
  <2> QED
    BY <1>1, <1>4, <2>1
<1> QED
  BY <1>2, <1>10, <1>12, <1>13, OutsideKept DEF Entries

LEMMA QuietKeeps ==
  ASSUME MailboxInv, UNCHANGED <<server_vars, reached, op, holder, alien>>,
         \A s \in Entries' : s \in Entries /\ emailCache'[s] = emailCache[s]
  PROVE  MailboxInv'
<1>1. ServerMoves /\ validity' = validity
  BY SilentServer
<1>2. \A s \in Entries' : EntryStands(s)'
  BY SameEntries
<1> QED
  BY <1>1, <1>2, OutsideKept

LEMMA ConnectionKeeps ==
  ASSUME MailboxInv, Drop \/ ConnectAgain \/ IdleNotice
  PROVE  MailboxInv' /\ mail' = mail
<1>1. UNCHANGED <<server_vars, reached, op, holder, alien>>
  BY DEF Drop, ConnectAgain, IdleNotice, Outside
<1>2. \A s \in Entries' : s \in Entries /\ emailCache'[s] = emailCache[s]
  <2>1. CASE emailCache' = emailCache
    BY <2>1 DEF Entries
  <2>2. CASE emailCache' = WithoutSlots(emailCache, {"INBOX"} \X Uids)
    BY <2>2 DEF Entries, WithoutSlots
  <2> QED
    BY <2>1, <2>2 DEF Drop, ConnectAgain, IdleNotice
<1> QED
  BY <1>1, <1>2, QuietKeeps DEF server_vars

(* What loses a message: nothing but an expunge out of the trash.               *)
LEMMA LostFromTrash ==
  ASSUME MailboxInv, NEW c \in MailCalls, GiveCommand(c) \/ Leave(c)
  PROVE  LosesFromTrash
<1>1. ASSUME UNCHANGED <<server_vars, reached>>
      PROVE  LosesFromTrash
  BY <1>1 DEF server_vars, LosesFromTrash
<1>2. ASSUME NEW U, Commanding(c, U), NEW D \in SUBSET U, Command(c, D), ByMove(c) => MayMove
      PROVE  LosesFromTrash
  BY <1>2, CommandEffect DEF LosesFromTrash
<1>3. CASE GiveCommand(c)
  <2>1. PICK U \in (IF op[c].pc = "change" THEN {op[c].work} ELSE {{u} : u \in op[c].work}) :
          CommandDone(c, U) \/ Ignored(c, U) \/ Refused(c, U) \/ CutOff(c, U)
    BY <1>3 DEF GiveCommand
  <2>2. Commanding(c, U)
    BY <1>3 DEF GiveCommand, Commanding
  <2>3. \/ Nothing
        \/ (ByMove(c) => MayMove) /\ \E D \in SUBSET U : Command(c, D)
    BY <2>1 DEF CommandDone, Ignored, Refused, CutOff
  <2> QED
    BY <1>1, <1>2, <2>2, <2>3 DEF Nothing
<1>4. CASE Leave(c)
  <2>1. CASE Nothing
    BY <1>1, <2>1 DEF Nothing
  <2>2. CASE Purging(c) /\ Expunged(op[c].cur, op[c].accepted)
    <3>1. op[c].cur = Label /\ op[c].accepted \in SUBSET Uids /\ ServerTyped
      BY <1>4, <2>2 DEF Purging, Leave, MailboxInv, MailShape, RemoveShape, MailOps, IdSet, Holding
    <3>2. Expunged(Label, op[c].accepted)
      BY <2>2, <3>1
    <3> QED
      BY <3>1, <3>2, ExpungedEffect DEF LosesFromTrash
  <2> QED
    BY <1>4, <2>1, <2>2 DEF Leave
<1> QED
  BY <1>3, <1>4

(* The steps of a call, all together.                                           *)
LEMMA StepsKeep ==
  ASSUME MailboxInv, NEW c \in MailCalls, Steps(c)
  PROVE  MailboxInv' /\ LosesFromTrash
<1>1. CASE GiveCommand(c)
  BY <1>1, GiveCommandKeeps, LostFromTrash
<1>2. CASE Leave(c)
  BY <1>2, LeaveKeeps, LostFromTrash
<1>3. CASE Begin(c) \/ Find(c) \/ AllFound(c) \/ ListEmails(c) \/ Search(c) \/ EmptyTrash(c) \/ NoConnection(c)
  <2>1. mail' = mail
    BY <1>3 DEF Begin, Find, AllFound, ListEmails, Search, EmptyTrash, NoConnection, server_vars
  <2> QED
    BY <1>3, <2>1, BeginKeeps, FindKeeps, AllFoundKeeps, ListKeeps, SearchKeeps, EmptyTrashKeeps, NoConnectionKeeps
       DEF LosesFromTrash
<1>4. CASE Fetch(c) \/ FindExisting(c) \/ Identify(c) \/ Verify(c) \/ End(c)
  <2>1. mail' = mail
    BY <1>4 DEF Fetch, FindExisting, Identify, Verify, End, server_vars
  <2> QED
    BY <1>4, <2>1, FetchKeeps, FindExistingKeeps, IdentifyKeeps, VerifyKeeps, EndKeeps DEF LosesFromTrash
<1>5. CASE \E f \in Folders : LookIn(c, f) \/ Skip(c, f) \/ Lock(c, f)
  <2>1. PICK f \in Folders : LookIn(c, f) \/ Skip(c, f) \/ Lock(c, f)
    BY <1>5
  <2>2. mail' = mail
    BY <2>1 DEF LookIn, Skip, Lock, server_vars
  <2> QED
    BY <2>1, <2>2, LookInKeeps, SkipKeeps, LockKeeps DEF LosesFromTrash
<1> QED
  BY <1>1, <1>2, <1>3, <1>4, <1>5 DEF Steps

LEMMA MailboxStart ==
  ASSUME MBInit
  PROVE  MailboxInv
<1>1. MailShape(NoCall)
  <2>1. [u \in Uids |-> None] \in WasSet /\ [u \in Uids |-> NoFolder] \in WhereSet
    BY DEF WasSet, WhereSet, Place
  <2>2. NoCall \in MailOps
    BY <2>1 DEF NoCall, MailOps, AnyKind, IdSet, Place, Target, Flags, AnyPc, FolderSet
  <2> QED
    BY <2>2 DEF MailShape, NoCall, ChangeShape, OtherShape, PlaceShape, RemoveShape, EmptyShape,
                Changes, Relocating, MoveKinds, Holding
<1>2. op \in [MailCalls -> MailOps] /\ \A c \in MailCalls : op[c] = NoCall
  BY <1>1 DEF MBInit, MailShape
<1>3. \A c \in MailCalls : CallStands(c)
  BY <1>2 DEF CallStands, Arrived, AtWork, TakenOff, NoCall, Holding, Relocating, MoveKinds
<1>4. Entries = {}
  <2>1. DOMAIN <<>> = {}
    OBVIOUS
  <2> QED
    BY <2>1 DEF MBInit, Entries
<1>5. ServerTyped
  <2>1. \A f \in Real : \A u \in Uids : /\ box[f][u] \in Mail \cup {None}
                                        /\ ~(u < next[f]) => box[f][u] = None
    BY NumberFacts DEF MBInit
  <2>2. \A f \in Real : box[f] \in [Uids -> Mail \cup {None}]
    BY <2>1 DEF MBInit
  <2>3. box \in Boxes
    BY <2>2 DEF MBInit, Boxes
  <2> QED
    BY <2>1, <2>3 DEF MBInit, ServerTyped
<1> QED
  BY <1>1, <1>2, <1>3, <1>4, <1>5 DEF MailboxInv

LEMMA MailboxStep ==
  ASSUME MailboxInv, [MBNext]_mailbox_vars
  PROVE  MailboxInv' /\ LosesFromTrash
<1>1. CASE \E c \in MailCalls : Steps(c)
  BY <1>1, StepsKeep
<1>2. CASE OtherMoves \/ OtherFlags \/ Rebuilt \/ Drop \/ ConnectAgain \/ IdleNotice
  BY <1>2, OtherMovesKeeps, OtherFlagsKeeps, RebuiltKeeps, ConnectionKeeps DEF LosesFromTrash
<1>3. CASE UNCHANGED mailbox_vars
  <2>1. UNCHANGED <<server_vars, reached, op, holder, alien, emailCache, mail>>
    BY <1>3 DEF mailbox_vars, server_vars
  <2>2. \A s \in Entries' : s \in Entries /\ emailCache'[s] = emailCache[s]
    BY <2>1 DEF Entries
  <2> QED
    BY <2>1, <2>2, QuietKeeps DEF LosesFromTrash
<1> QED
  BY <1>1, <1>2, <1>3 DEF MBNext

LEMMA MailboxHeld ==
  ASSUME MailboxInv
  PROVE  MailboxHolds
<1>1. HonestCounts
  <2> SUFFICES ASSUME NEW c \in MailCalls
               PROVE  /\ op[c].kind \in Relocating =>
                           \A u \in op[c].won : op[c].where[u] = op[c].dst \/ op[c].was[u] \in reached[c]
                      /\ op[c].kind = "remove" /\ op[c].pc = "done" /\ validity[Label] = 1 =>
                           \A u \in op[c].won : box[Label][u] = None
                      /\ op[c].bulk /\ op[c].pc = "done" =>
                           op[c].won \cup op[c].lost = op[c].ids /\ op[c].won \cap op[c].lost = {}
    BY DEF HonestCounts
  <2>1. MailShape(op[c]) /\ CallStands(c)
    BY DEF MailboxInv
  <2>2. op[c].kind = "remove" /\ op[c].pc = "done" => op[c].accepted = {}
    BY <2>1 DEF MailShape, RemoveShape
  <2>3. op[c].bulk /\ op[c].pc = "done" =>
          op[c].won \cup op[c].lost = op[c].ids /\ op[c].won \cap op[c].lost = {}
    BY <2>1 DEF MailShape, ChangeShape, OtherShape, Partition
  <2> QED
    BY <2>1, <2>2, <2>3 DEF CallStands, Arrived, TakenOff
<1>2. CacheFollows
  BY DEF MailboxInv, EntryStands, CacheFollows
<1> QED
  BY <1>1, <1>2 DEF MailboxHolds

THEOREM MailboxIsSound == MBSpec => []MailboxHolds
<1>1. MBSpec => []MailboxInv
  BY MailboxStart, MailboxStep, PTL DEF MBSpec
<1> QED
  BY <1>1, MailboxHeld, PTL

THEOREM MailIsLostFromTrashOnly == MBSpec => LostOnlyFromTrash
<1>1. MBSpec => []MailboxInv
  BY MailboxStart, MailboxStep, PTL DEF MBSpec
<1>2. MailboxInv /\ [MBNext]_mailbox_vars => [LosesFromTrash]_mailbox_vars
  BY MailboxStep
<1> QED
  BY <1>1, <1>2, PTL DEF MBSpec, LostOnlyFromTrash

===============================================================================
