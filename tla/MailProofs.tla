------------------------------ MODULE MailProofs ------------------------------
(* Proofs about the connections of one SimpleIMAPService, and about what MCMail  *)
(* checks beside the queue and the mailbox operations: the pools a send goes     *)
(* through, what is derived from a mailbox, the folders and the reminders.       *)
(*                                                                               *)
(* The connections have two inductive invariants: of the primary client, that    *)
(* only the newest attempt goes on, that every attempt dials a socket of its own *)
(* and that only the client is open; and of the rejections, that whoever was     *)
(* rejected is not dialling and cannot before the failure is cleared.            *)
EXTENDS ImapConnection, AccountRuntime, Folders, Reminders, Submission, TLAPS


------------------------------------------------------------------------------
(* Sockets                                                                      *)

LEMMA SocketKinds ==
  /\ Primary \subseteq Sockets /\ ForIdle \subseteq Sockets
  /\ Primary \cap ForIdle = {} /\ None \notin Sockets /\ 1 \in Primary
  /\ None \notin Primary /\ None \notin ForIdle
BY SocketsAssumption DEF Primary, ForIdle, Sockets, None

LEMMA FreshIsUnused ==
  ASSUME NEW kind, Unused(kind) # {}
  PROVE  /\ Fresh(kind) \in kind /\ sock[Fresh(kind)] = "closed" /\ Fresh(kind) # client
         /\ \A c \in Callers : op[c].sock # Fresh(kind)
<1>1. Fresh(kind) \in Unused(kind)
  BY DEF Fresh
<1> QED
  BY <1>1 DEF Unused, Referenced

------------------------------------------------------------------------------
(* The primary client                                                           *)

OpKinds == {"none", "read", "mutation", "account"}
OpSet == [pc : {"idle", "retire", "dial", "again"}, kind : OpKinds, sock : Primary \cup {None}]
LoopSet == [pc : {"none", "top", "reap", "dial", "idle", "fail", "failed", "sleep", "end", "over"},
            mine : ForIdle \cup {None}, on : ForIdle \cup {None}, auth : BOOLEAN]

PrimaryShapes ==
  /\ client \in Primary \cup {None} /\ isConnected \in BOOLEAN
  /\ connectionGeneration \in Callers \cup {None}
  /\ op \in [Callers -> OpSet]
  /\ sock \in [Sockets -> {"connecting", "open", "closed"}]

IdleShapes == idleClient \in ForIdle \cup {None} /\ loop \in [Loops -> LoopSet]

(* What a caller's attempt dials is nobody else's, and not open yet.             *)
Attempt(c) ==
  /\ op[c].sock # None <=> op[c].pc = "dial"
  /\ op[c].pc = "dial" => sock[op[c].sock] # "open"
  /\ op[c].pc = "retire" /\ connectionGeneration = c => client = None
  /\ \A d \in Callers : op[c].sock = op[d].sock /\ op[c].sock # None => c = d

Attempts == \A c \in Callers : Attempt(c)
OneOpen == \A s \in Primary : sock[s] = "open" => s = client

PrimaryInv == PrimaryShapes /\ Attempts /\ OneOpen /\ Accounted

LEMMA InitPrimary == Init => PrimaryInv /\ IdleShapes
<1> SUFFICES ASSUME Init PROVE PrimaryInv /\ IdleShapes
  OBVIOUS
<1>1. NoOp \in OpSet /\ NoOp.sock = None /\ NoOp.pc = "idle"
  BY DEF NoOp, OpSet, OpKinds
<1>2. PrimaryShapes
  BY <1>1, SocketKinds DEF Init, PrimaryShapes
<1>3. IdleShapes
  BY DEF Init, IdleShapes, LoopSet, NoLoop
<1>4. Attempts
  BY <1>1 DEF Init, Attempts, Attempt
<1>5. OneOpen
  BY SocketKinds DEF Init, OneOpen
<1>6. Accounted
  BY SocketKinds DEF Init, Accounted, Live, None
<1> QED
  BY <1>2, <1>3, <1>4, <1>5, <1>6 DEF PrimaryInv

(* A caller dials while there is no client: the new socket is the client.        *)
LEMMA DiallingKeeps ==
  ASSUME PrimaryInv, NEW c \in Callers, NEW kind \in OpKinds, Dialling(c, kind),
         client = None, op[c].pc # "dial", connectionGeneration' = c, isConnected' = isConnected
  PROVE  PrimaryInv'
<1> DEFINE F == Fresh(Primary)
           o == [pc |-> "dial", kind |-> kind, sock |-> F]
<1>1. /\ F \in Primary /\ F \in Sockets /\ F # None /\ F # client
      /\ \A d \in Callers : op[d].sock # F
  BY FreshIsUnused, SocketKinds DEF Dialling
<1>2. /\ sock' = [sock EXCEPT ![F] = "connecting"]
      /\ client' = F /\ op' = [op EXCEPT ![c] = o]
  BY DEF Dialling, OpBecomes
<1>3. o \in OpSet /\ o.sock = F /\ o.pc = "dial"
  BY <1>1 DEF OpSet
<1>4. isConnected = FALSE /\ op[c].sock = None
  BY DEF PrimaryInv, PrimaryShapes, Accounted, Attempts, Attempt
<1> HIDE DEF F, o
<1>5. PrimaryShapes'
  BY <1>1, <1>2, <1>3 DEF PrimaryInv, PrimaryShapes
<1>6. /\ op'[c] = o /\ \A d \in Callers : d # c => op'[d] = op[d]
      /\ sock'[F] = "connecting" /\ \A s \in Sockets : s # F => sock'[s] = sock[s]
  BY <1>1, <1>2 DEF PrimaryInv, PrimaryShapes
<1>7. Attempts'
  <2> SUFFICES ASSUME NEW d \in Callers PROVE Attempt(d)'
    BY DEF Attempts
  <2>1. CASE d = c
    BY <1>1, <1>3, <1>6, <2>1 DEF Attempt
  <2>2. CASE d # c
    <3>1. Attempt(d) /\ op'[d] = op[d] /\ op[d] \in OpSet
      BY <1>6, <2>2 DEF PrimaryInv, PrimaryShapes, Attempts
    <3>2. op[d].pc = "dial" => sock'[op[d].sock] = sock[op[d].sock]
      BY <1>1, <1>6, <3>1, SocketKinds DEF Attempt, OpSet
    <3>3. \A e \in Callers : op'[d].sock = op'[e].sock /\ op'[d].sock # None => d = e
      BY <1>1, <1>3, <1>6, <2>2, <3>1 DEF Attempt
    <3> QED
      BY <2>2, <3>1, <3>2, <3>3 DEF Attempt
  <2> QED
    BY <2>1, <2>2
<1>8. \A s \in Primary : sock'[s] # "open"
  BY <1>6, SocketKinds DEF PrimaryInv, OneOpen
<1>9. OneOpen'
  BY <1>8 DEF OneOpen
<1>10. Accounted'
  <2>1. ASSUME NEW s \in Primary, Live(s)' PROVE s = client' \/ \E d \in Callers : op'[d].sock = s
    <3>1. CASE s = F
      BY <1>2, <3>1
    <3>2. CASE s # F
      <4>1. Live(s) /\ s # None
        BY <1>6, <2>1, <3>2, SocketKinds DEF Live
      <4>2. PICK d \in Callers : op[d].sock = s
        BY <4>1 DEF PrimaryInv, Accounted
      <4> QED
        BY <1>4, <1>6, <4>1, <4>2
    <3> QED
      BY <3>1, <3>2
  <2>2. isConnected' <=> client' # None /\ sock'[client'] = "open"
    BY <1>1, <1>2, <1>4, <1>6
  <2> QED
    BY <2>1, <2>2 DEF Accounted
<1> QED
  BY <1>5, <1>7, <1>9, <1>10 DEF PrimaryInv

(* The client, if any, is detached and closed, and one caller's attempt, which   *)
(* is not dialling, becomes another that is not.                                 *)
LEMMA DetachingKeeps ==
  ASSUME PrimaryInv, client' = None, isConnected' = FALSE,
         connectionGeneration' \in Callers \cup {None},
         sock' \in [Sockets -> {"connecting", "open", "closed"}],
         \A s \in Primary : sock'[s] = IF s = client THEN "closed" ELSE sock[s],
         op' \in [Callers -> OpSet],
         \A d \in Callers : \/ op'[d] = op[d]
                            \/ op[d].pc # "dial" /\ op'[d].pc # "dial" /\ op'[d].sock = None
  PROVE  PrimaryInv'
<1>1. PrimaryShapes'
  BY DEF PrimaryInv, PrimaryShapes
<1>2. ASSUME NEW d \in Callers
      PROVE  /\ op'[d].pc = "dial" <=> op[d].pc = "dial"
             /\ op'[d].sock = op[d].sock
             /\ op[d].sock # None <=> op[d].pc = "dial"
             /\ op[d] \in OpSet
  BY DEF PrimaryInv, PrimaryShapes, Attempts, Attempt
<1>3. Attempts'
  <2> SUFFICES ASSUME NEW d \in Callers PROVE Attempt(d)'
    BY DEF Attempts
  <2>1. op'[d].pc = "dial" => sock'[op'[d].sock] # "open"
    <3> SUFFICES ASSUME op[d].pc = "dial" PROVE sock'[op[d].sock] # "open"
      BY <1>2
    <3>1. op[d].sock \in Primary /\ sock[op[d].sock] # "open"
      BY <1>2 DEF OpSet, PrimaryInv, Attempts, Attempt
    <3> QED
      BY <3>1
  <2>2. \A e \in Callers : op'[d].sock = op'[e].sock /\ op'[d].sock # None => d = e
    BY <1>2 DEF PrimaryInv, Attempts, Attempt
  <2> QED
    BY <1>2, <2>1, <2>2 DEF Attempt
<1>4. OneOpen'
  BY DEF OneOpen, PrimaryInv
<1>5. Accounted'
  <2>1. ASSUME NEW s \in Primary, Live(s)' PROVE \E d \in Callers : op'[d].sock = s
    <3>1. s # client /\ Live(s)
      BY <2>1 DEF Live
    <3> QED
      BY <1>2, <3>1 DEF PrimaryInv, Accounted
  <2> QED
    BY <2>1 DEF Accounted
<1> QED
  BY <1>1, <1>3, <1>4, <1>5 DEF PrimaryInv

LEMMA ConnectKeeps ==
  ASSUME PrimaryInv, NEW c \in Callers, NEW kind \in OpKinds, Connect(c, kind),
         op[c].pc \in {"idle", "again"}
  PROVE  PrimaryInv'
<1>1. CASE client = None
  BY <1>1, DiallingKeeps DEF Connect
<1>2. CASE client # None
  <2> DEFINE o == [pc |-> "retire", kind |-> kind, sock |-> None]
  <2>1. /\ connectionGeneration' = c /\ client' = None /\ isConnected' = FALSE
        /\ sock' = Closed(client) /\ op' = [op EXCEPT ![c] = o]
    BY <1>2 DEF Connect, OpBecomes
  <2>2. o \in OpSet /\ o.pc = "retire" /\ o.sock = None
    BY DEF OpSet
  <2> HIDE DEF o
  <2>3. sock' \in [Sockets -> {"connecting", "open", "closed"}]
    BY <2>1 DEF Closed, PrimaryInv, PrimaryShapes
  <2>4. \A s \in Primary : sock'[s] = IF s = client THEN "closed" ELSE sock[s]
    BY <2>1, SocketKinds DEF Closed
  <2>5. op' \in [Callers -> OpSet]
    BY <2>1, <2>2 DEF PrimaryInv, PrimaryShapes
  <2>6. \A d \in Callers : \/ op'[d] = op[d]
                           \/ op[d].pc # "dial" /\ op'[d].pc # "dial" /\ op'[d].sock = None
    BY <2>1, <2>2 DEF PrimaryInv, PrimaryShapes
  <2> QED
    BY <2>1, <2>3, <2>4, <2>5, <2>6, DetachingKeeps
<1> QED
  BY <1>1, <1>2

(* An attempt ends: its socket is closed, or is the client and may open.         *)
LEMMA EndingKeeps ==
  ASSUME PrimaryInv, NEW c \in Callers, NEW become \in {"open", "closed"},
         op[c].pc = "dial", op' = [op EXCEPT ![c] = NoOp],
         UNCHANGED <<client, connectionGeneration>>,
         sock' \in [Sockets -> {"connecting", "open", "closed"}],
         \A s \in Primary : sock'[s] = IF s = op[c].sock THEN become ELSE sock[s],
         isConnected' \in BOOLEAN,
         become = "open" => client = op[c].sock,
         client = op[c].sock => (isConnected' <=> become = "open"),
         client # op[c].sock => isConnected' = isConnected
  PROVE  PrimaryInv'
<1> DEFINE k == op[c].sock
<1>1. NoOp \in OpSet /\ NoOp.sock = None /\ NoOp.pc = "idle"
  BY DEF NoOp, OpSet, OpKinds
<1>2. /\ op \in [Callers -> OpSet] /\ op'[c] = NoOp
      /\ \A d \in Callers : d # c => op'[d] = op[d]
  BY DEF PrimaryInv, PrimaryShapes
<1>3. k \in Primary /\ k # None /\ \A d \in Callers : d # c => op[d].sock # k
  BY <1>2, SocketKinds DEF PrimaryInv, Attempts, Attempt, OpSet
<1>4. client \in Primary \cup {None}
  BY DEF PrimaryInv, PrimaryShapes
<1> HIDE DEF k
<1>5. PrimaryShapes'
  BY <1>1 DEF PrimaryInv, PrimaryShapes
<1>6. Attempts'
  <2> SUFFICES ASSUME NEW d \in Callers PROVE Attempt(d)'
    BY DEF Attempts
  <2>1. CASE d = c
    BY <1>1, <1>2, <2>1 DEF Attempt
  <2>2. CASE d # c
    <3>1. Attempt(d) /\ op'[d] = op[d] /\ op[d] \in OpSet
      BY <1>2, <2>2 DEF PrimaryInv, Attempts
    <3>2. op[d].pc = "dial" => op[d].sock \in Primary /\ op[d].sock # k
      BY <1>3, <2>2, <3>1 DEF Attempt, OpSet
    <3>3. op[d].pc = "dial" => sock'[op[d].sock] # "open"
      BY <3>1, <3>2 DEF Attempt, k
    <3>4. \A e \in Callers : op'[d].sock = op'[e].sock /\ op'[d].sock # None => d = e
      BY <1>1, <1>2, <3>1 DEF Attempt
    <3> QED
      BY <3>1, <3>3, <3>4 DEF Attempt
  <2> QED
    BY <2>1, <2>2
<1>7. OneOpen'
  BY DEF OneOpen, PrimaryInv, k
<1>8. Accounted'
  <2>1. ASSUME NEW s \in Primary, Live(s)' PROVE s = client' \/ \E d \in Callers : op'[d].sock = s
    <3>1. CASE s = k
      <4>1. become = "open"
        BY <2>1, <3>1 DEF Live, k
      <4> QED
        BY <3>1, <4>1 DEF k
    <3>2. CASE s # k
      <4>1. Live(s)
        BY <2>1, <3>2 DEF Live, k
      <4>2. s = client \/ \E d \in Callers : op[d].sock = s
        BY <4>1 DEF PrimaryInv, Accounted
      <4> QED
        BY <1>2, <3>2, <4>2 DEF k
    <3> QED
      BY <3>1, <3>2
  <2>2. isConnected' <=> client' # None /\ sock'[client'] = "open"
    <3>1. CASE client = k
      BY <1>3, <3>1 DEF k
    <3>2. CASE client # k
      <4>1. client # None => sock'[client] = sock[client]
        BY <1>4, <3>2 DEF k
      <4> QED
        BY <3>2, <4>1 DEF k, PrimaryInv, Accounted
    <3> QED
      BY <3>1, <3>2
  <2> QED
    BY <2>1, <2>2 DEF Accounted
<1> QED
  BY <1>5, <1>6, <1>7, <1>8 DEF PrimaryInv

(* Nothing of the primary connection changes but perhaps sockets that close.     *)
LEMMA ApartKeeps ==
  ASSUME PrimaryInv, UNCHANGED <<client, isConnected, connectionGeneration, op>>,
         sock' \in [Sockets -> {"connecting", "open", "closed"}],
         \A s \in Primary : sock'[s] = sock[s]
  PROVE  PrimaryInv'
<1>1. PrimaryShapes'
  BY DEF PrimaryInv, PrimaryShapes
<1>2. Attempts'
  <2> SUFFICES ASSUME NEW d \in Callers PROVE Attempt(d)'
    BY DEF Attempts
  <2>1. Attempt(d) /\ op[d] \in OpSet
    BY DEF PrimaryInv, PrimaryShapes, Attempts
  <2>2. op[d].pc = "dial" => sock'[op[d].sock] # "open"
    BY <2>1 DEF Attempt, OpSet
  <2> QED
    BY <2>1, <2>2 DEF Attempt
<1>3. OneOpen'
  BY DEF PrimaryInv, OneOpen
<1>4. Accounted'
  BY DEF PrimaryInv, PrimaryShapes, Accounted, Live
<1> QED
  BY <1>1, <1>2, <1>3, <1>4 DEF PrimaryInv


------------------------------------------------------------------------------
(* The steps of the callers                                                     *)

LEMMA CallKeeps ==
  ASSUME PrimaryInv, NEW c \in Callers, NEW kind \in {"read", "mutation"}, Call(c, kind)
  PROVE  PrimaryInv'
  BY ConnectKeeps DEF Call, OpKinds

LEMMA AgainKeeps ==
  ASSUME PrimaryInv, NEW c \in Callers, Again(c)
  PROVE  PrimaryInv'
  BY ConnectKeeps DEF Again, OpKinds

LEMMA FinishedAreIdle ==
  ASSUME PrimaryInv, NEW c \in Callers, Finishes(c)
  PROVE  op' = [op EXCEPT ![c] = NoOp] /\ op' \in [Callers -> OpSet] /\ op'[c] = NoOp
         /\ NoOp.sock = None /\ NoOp.pc = "idle"
         /\ \A d \in Callers : d # c => op'[d] = op[d]
  BY DEF Finishes, OpBecomes, PrimaryInv, PrimaryShapes, NoOp, OpSet, OpKinds

LEMMA RetiredKeeps ==
  ASSUME PrimaryInv, NEW c \in Callers, Retired(c)
  PROVE  PrimaryInv'
<1>1. /\ op[c].pc = "retire" /\ op[c] \in OpSet /\ op[c].sock = None
      /\ isConnected' = isConnected /\ connectionGeneration' = connectionGeneration
  BY DEF Retired, PrimaryInv, PrimaryShapes, Attempts, Attempt
<1>2. CASE Superseded(c)
  <2>1. Finishes(c) /\ client' = client /\ sock' = sock
    BY <1>2 DEF Retired
  <2>2. PrimaryShapes'
    BY <1>1, <2>1, FinishedAreIdle DEF PrimaryInv, PrimaryShapes
  <2>3. ASSUME NEW d \in Callers
        PROVE  op'[d].sock = op[d].sock /\ (d = c \/ op'[d] = op[d])
    BY <1>1, <2>1, FinishedAreIdle
  <2>4. Attempts'
    <3> SUFFICES ASSUME NEW d \in Callers PROVE Attempt(d)'
      BY DEF Attempts
    <3>1. Attempt(d)
      BY DEF PrimaryInv, Attempts
    <3>2. CASE d = c
      BY <2>1, <2>3, <3>2, FinishedAreIdle DEF Attempt
    <3>3. CASE d # c
      BY <1>1, <2>1, <2>3, <3>1, <3>3 DEF Attempt
    <3> QED
      BY <3>2, <3>3
  <2>5. OneOpen' /\ Accounted'
    BY <1>1, <2>1, <2>3 DEF PrimaryInv, OneOpen, Accounted, Live
  <2> QED
    BY <2>2, <2>4, <2>5 DEF PrimaryInv
<1>3. CASE ~Superseded(c)
  <2>1. connectionGeneration = c /\ Dialling(c, op[c].kind)
    BY <1>3 DEF Retired, Superseded
  <2>2. client = None
    BY <1>1, <2>1 DEF PrimaryInv, Attempts, Attempt
  <2> QED
    BY <1>1, <2>1, <2>2, DiallingKeeps DEF OpSet
<1> QED
  BY <1>2, <1>3

LEMMA ConnectedKeeps ==
  ASSUME PrimaryInv, NEW c \in Callers, Connected(c)
  PROVE  PrimaryInv'
<1>1. /\ op[c].pc = "dial" /\ sock[op[c].sock] = "connecting"
      /\ op' = [op EXCEPT ![c] = NoOp] /\ UNCHANGED <<client, connectionGeneration>>
  BY FinishedAreIdle DEF Connected
<1>2. op[c].sock \in Primary /\ op[c].sock \in Sockets /\ op[c].sock # None
  BY <1>1, SocketKinds DEF PrimaryInv, PrimaryShapes, Attempts, Attempt, OpSet
<1>3. sock \in [Sockets -> {"connecting", "open", "closed"}] /\ isConnected \in BOOLEAN
  BY DEF PrimaryInv, PrimaryShapes
<1>4. CASE Owns(c)
  <2>1. /\ sock' = [sock EXCEPT ![op[c].sock] = "open"] /\ isConnected' = TRUE
        /\ client = op[c].sock
    BY <1>4 DEF Connected, Owns
  <2>2. \A s \in Primary : sock'[s] = IF s = op[c].sock THEN "open" ELSE sock[s]
    BY <1>3, <2>1, SocketKinds
  <2>3. sock' \in [Sockets -> {"connecting", "open", "closed"}]
    BY <1>3, <2>1
  <2> QED
    BY <1>1, <2>1, <2>2, <2>3, EndingKeeps
<1>5. CASE ~Owns(c)
  <2>1. sock' = Closed(op[c].sock) /\ isConnected' = isConnected
    BY <1>5 DEF Connected
  <2>2. \A s \in Primary : sock'[s] = IF s = op[c].sock THEN "closed" ELSE sock[s]
    BY <2>1, SocketKinds DEF Closed
  <2>3. sock' \in [Sockets -> {"connecting", "open", "closed"}]
    BY <1>3, <2>1 DEF Closed
  <2>4. client = op[c].sock => ~isConnected
    BY <1>1 DEF PrimaryInv, Accounted
  <2> QED
    BY <1>1, <1>3, <2>1, <2>2, <2>3, <2>4, EndingKeeps
<1> QED
  BY <1>4, <1>5

LEMMA ConnectFailsKeeps ==
  ASSUME PrimaryInv, NEW c \in Callers, ConnectFails(c)
  PROVE  PrimaryInv'
<1>1. /\ op[c].pc = "dial" /\ op' = [op EXCEPT ![c] = NoOp]
      /\ UNCHANGED <<client, connectionGeneration>>
      /\ sock' = Closed(op[c].sock)
      /\ isConnected' = IF Owns(c) THEN FALSE ELSE isConnected
  BY FinishedAreIdle DEF ConnectFails
<1>2. sock \in [Sockets -> {"connecting", "open", "closed"}] /\ isConnected \in BOOLEAN
  BY DEF PrimaryInv, PrimaryShapes
<1>3. \A s \in Primary : sock'[s] = IF s = op[c].sock THEN "closed" ELSE sock[s]
  BY <1>1, SocketKinds DEF Closed
<1>4. sock' \in [Sockets -> {"connecting", "open", "closed"}]
  BY <1>1, <1>2 DEF Closed
<1>5. sock[op[c].sock] # "open"
  BY <1>1 DEF PrimaryInv, Attempts, Attempt
<1>6. client = op[c].sock => ~isConnected
  BY <1>5 DEF PrimaryInv, Accounted
<1>7. Owns(c) => client = op[c].sock
  BY DEF Owns
<1> QED
  BY <1>1, <1>2, <1>3, <1>4, <1>6, <1>7, EndingKeeps

LEMMA AbortKeeps == ASSUME PrimaryInv, Abort PROVE PrimaryInv'
<1>1. /\ client' = None /\ isConnected' = FALSE /\ connectionGeneration' = None /\ op' = op
      /\ sock' = IF client = None THEN sock ELSE Closed(client)
  BY DEF Abort, Detached
<1>2. sock' \in [Sockets -> {"connecting", "open", "closed"}]
  BY <1>1 DEF Closed, PrimaryInv, PrimaryShapes
<1>3. \A s \in Primary : sock'[s] = IF s = client THEN "closed" ELSE sock[s]
  BY <1>1, SocketKinds DEF Closed
<1>4. op' \in [Callers -> OpSet]
  BY <1>1 DEF PrimaryInv, PrimaryShapes
<1> QED
  BY <1>1, <1>2, <1>3, <1>4, DetachingKeeps

LEMMA RefreshKeeps ==
  ASSUME PrimaryInv, IdleShapes, NEW c \in Callers, Refresh(c)
  PROVE  PrimaryInv'
<1> DEFINE o == [NoOp EXCEPT !.pc = "again"]
<1>1. /\ client' = None /\ isConnected' = FALSE /\ connectionGeneration' = None
      /\ op[c].pc = "idle" /\ op' = [op EXCEPT ![c] = o]
      /\ sock' = [s \in Sockets |-> IF s \in {client, idleClient} THEN "closed" ELSE sock[s]]
  BY DEF Refresh, Detached, OpBecomes
<1>2. o \in OpSet /\ o.pc = "again" /\ o.sock = None
  BY DEF NoOp, OpSet, OpKinds
<1> HIDE DEF o
<1>3. sock' \in [Sockets -> {"connecting", "open", "closed"}]
  BY <1>1 DEF PrimaryInv, PrimaryShapes
<1>4. \A s \in Primary : sock'[s] = IF s = client THEN "closed" ELSE sock[s]
  BY <1>1, SocketKinds DEF IdleShapes
<1>5. op' \in [Callers -> OpSet]
  BY <1>1, <1>2 DEF PrimaryInv, PrimaryShapes
<1>6. \A d \in Callers : \/ op'[d] = op[d]
                         \/ op[d].pc # "dial" /\ op'[d].pc # "dial" /\ op'[d].sock = None
  BY <1>1, <1>2 DEF PrimaryInv, PrimaryShapes
<1> QED
  BY <1>1, <1>3, <1>4, <1>5, <1>6, DetachingKeeps

LEMMA LostKeeps == ASSUME PrimaryInv, NEW s \in Sockets, Lost(s) PROVE PrimaryInv'
<1>1. /\ sock[s] = "open" /\ sock' = Closed(s)
      /\ isConnected' = IF s = client THEN FALSE ELSE isConnected
      /\ UNCHANGED <<client, connectionGeneration, op>>
  BY DEF Lost
<1>2. /\ sock' \in [Sockets -> {"connecting", "open", "closed"}]
      /\ \A t \in Sockets : sock'[t] = IF t = s THEN "closed" ELSE sock[t]
  BY <1>1 DEF Closed, PrimaryInv, PrimaryShapes
<1>3. PrimaryShapes'
  BY <1>1, <1>2 DEF PrimaryInv, PrimaryShapes
<1>4. Attempts'
  <2> SUFFICES ASSUME NEW d \in Callers PROVE Attempt(d)'
    BY DEF Attempts
  <2>1. Attempt(d) /\ op[d] \in OpSet
    BY DEF PrimaryInv, PrimaryShapes, Attempts
  <2>2. op[d].pc = "dial" => sock'[op[d].sock] # "open"
    BY <1>2, <2>1, SocketKinds DEF Attempt, OpSet
  <2> QED
    BY <1>1, <2>1, <2>2 DEF Attempt
<1>5. OneOpen'
  BY <1>1, <1>2, SocketKinds DEF PrimaryInv, OneOpen
<1>6. Accounted'
  <2>1. \A t \in Primary : Live(t)' => Live(t)
    BY <1>2, SocketKinds DEF Live
  <2>2. client # None => client \in Sockets
    BY SocketKinds DEF PrimaryInv, PrimaryShapes
  <2> QED
    BY <1>1, <1>2, <2>1, <2>2 DEF PrimaryInv, Accounted
<1> QED
  BY <1>3, <1>4, <1>5, <1>6 DEF PrimaryInv

------------------------------------------------------------------------------
(* The steps of the IDLE loops touch none of it.                                *)

LEMMA LoopsApartKeep ==
  ASSUME PrimaryInv, IdleShapes, NEW i \in Loops, LoopStep(i) \/ CycleEnds(i)
  PROVE  PrimaryInv'
<1>1. UNCHANGED <<client, isConnected, connectionGeneration, op>>
  BY DEF LoopStep, CycleEnds, Top, AfterReap, Watch, CycleFails, Fail, LoopFailed, Wake, End,
         Main, main_vars
<1>2. \/ sock' = sock
      \/ \E s \in ForIdle \cup {None}, to \in {"connecting", "open"} : sock' = [sock EXCEPT ![s] = to]
      \/ \E s \in ForIdle \cup {None} : sock' = Closed(s)
  <2>1. loop[i].mine \in ForIdle \cup {None} /\ idleClient \in ForIdle \cup {None}
    BY DEF IdleShapes, LoopSet
  <2>2. CASE Top(i) \/ AfterReap(i)
    <3>1. NewClient(i) => Fresh(ForIdle) \in ForIdle
      BY FreshIsUnused DEF NewClient
    <3> QED
      BY <2>1, <2>2, <3>1 DEF Top, AfterReap, NewClient, Reaped
  <2>3. CASE Watch(i)
    BY <2>1, <2>3 DEF Watch
  <2>4. CASE CycleFails(i)
    BY <2>1, <2>4 DEF CycleFails
  <2>5. CASE Fail(i) \/ End(i)
    BY <2>1, <2>5 DEF Fail, End, Reaped
  <2>6. CASE LoopFailed(i) \/ Wake(i) \/ CycleEnds(i)
    BY <2>6 DEF LoopFailed, Wake, CycleEnds
  <2> QED
    BY <2>2, <2>3, <2>4, <2>5, <2>6 DEF LoopStep
<1>3. sock \in [Sockets -> {"connecting", "open", "closed"}]
  BY DEF PrimaryInv, PrimaryShapes
<1>4. /\ sock' \in [Sockets -> {"connecting", "open", "closed"}]
      /\ \A s \in Primary : sock'[s] = sock[s]
  BY <1>2, <1>3, SocketKinds DEF Closed
<1> QED
  BY <1>1, <1>4, ApartKeeps

LEMMA WeatherKeeps == ASSUME PrimaryInv, Weather PROVE PrimaryInv'
  BY ApartKeeps DEF Weather, main_vars, PrimaryInv, PrimaryShapes

------------------------------------------------------------------------------
(* The shapes of the loops                                                      *)

LEMMA StartShapes ==
  ASSUME IdleShapes, StartIdle
  PROVE  IdleShapes' /\ \A i \in Loops : loop'[i] = loop[i] \/ rejected' = NoneRejected
<1>1. CASE UNCHANGED <<idle_vars, idleAuthFailure, rejected>>
  BY <1>1 DEF idle_vars, IdleShapes
<1>2. CASE ~UNCHANGED <<idle_vars, idleAuthFailure, rejected>>
  <2> DEFINE l == [NoLoop EXCEPT !.pc = "top"]
  <2>1. l \in LoopSet
    BY DEF NoLoop, LoopSet
  <2>2. loop' = [loop EXCEPT ![idleGen + 1] = l] /\ idleClient' = idleClient /\ rejected' = NoneRejected
    BY <1>2 DEF StartIdle, SetLoop
  <2> HIDE DEF l
  <2> QED
    BY <2>1, <2>2 DEF IdleShapes
<1> QED
  BY <1>1, <1>2

LEMMA LoopShapes ==
  ASSUME IdleShapes, NEW i \in Loops, LoopStep(i) \/ CycleEnds(i)
  PROVE  IdleShapes' /\ \A j \in Loops : j # i => loop'[j] = loop[j]
<1>1. loop[i] \in LoopSet /\ idleClient \in ForIdle \cup {None} /\ NoLoop \in LoopSet
  BY DEF IdleShapes, NoLoop, LoopSet
<1>2. ASSUME NEW l \in LoopSet, SetLoop(i, l), idleClient' \in ForIdle \cup {None}
      PROVE  IdleShapes' /\ \A j \in Loops : j # i => loop'[j] = loop[j]
  BY <1>2 DEF SetLoop, IdleShapes
<1>3. ASSUME NewClient(i) PROVE IdleShapes' /\ \A j \in Loops : j # i => loop'[j] = loop[j]
  <2> DEFINE F == Fresh(ForIdle)
             l == [loop[i] EXCEPT !.pc = "dial", !.mine = F, !.on = None]
  <2>1. F \in ForIdle /\ idleClient' = F /\ SetLoop(i, l)
    BY <1>3, FreshIsUnused DEF NewClient
  <2> HIDE DEF F
  <2>2. l \in LoopSet
    BY <1>1, <2>1 DEF LoopSet
  <2> HIDE DEF l
  <2> QED
    BY <1>2, <2>1, <2>2
<1>4. CASE Top(i)
  <2>1. CASE SetLoop(i, [NoLoop EXCEPT !.pc = "end"]) /\ idleClient' = idleClient
    <3>1. [NoLoop EXCEPT !.pc = "end"] \in LoopSet
      BY DEF NoLoop, LoopSet
    <3> QED
      BY <1>1, <1>2, <2>1, <3>1
  <2>2. CASE SetLoop(i, [NoLoop EXCEPT !.pc = "reap"]) /\ idleClient' = None
    <3>1. [NoLoop EXCEPT !.pc = "reap"] \in LoopSet
      BY DEF NoLoop, LoopSet
    <3> QED
      BY <1>1, <1>2, <2>2, <3>1
  <2> QED
    BY <1>3, <1>4, <2>1, <2>2 DEF Top, Reaped
<1>5. CASE AfterReap(i)
  BY <1>3, <1>5 DEF AfterReap
<1>6. CASE Watch(i)
  <2> DEFINE l == [loop[i] EXCEPT !.pc = IF idleClient = None THEN "fail" ELSE "idle", !.on = idleClient]
  <2>1. l \in LoopSet /\ SetLoop(i, l) /\ idleClient' = idleClient
    BY <1>1, <1>6 DEF Watch, LoopSet
  <2> HIDE DEF l
  <2> QED
    BY <1>1, <1>2, <2>1
<1>7. CASE CycleEnds(i)
  <2> DEFINE l == [loop[i] EXCEPT !.pc = "sleep"]
  <2>1. l \in LoopSet /\ SetLoop(i, l) /\ idleClient' = idleClient
    BY <1>1, <1>7 DEF CycleEnds, LoopSet
  <2> HIDE DEF l
  <2> QED
    BY <1>1, <1>2, <2>1
<1>8. CASE CycleFails(i)
  <2> DEFINE auth == loop[i].pc = "dial" /\ login = "bad" /\ sock[loop[i].mine] = "connecting"
             l == [loop[i] EXCEPT !.pc = "fail", !.auth = auth]
  <2>1. SetLoop(i, l) /\ idleClient' = idleClient
    BY <1>8 DEF CycleFails
  <2>2. auth \in BOOLEAN
    OBVIOUS
  <2> HIDE DEF auth
  <2>3. l \in LoopSet
    BY <1>1, <2>2 DEF LoopSet
  <2> HIDE DEF l
  <2> QED
    BY <1>1, <1>2, <2>1, <2>3
<1>9. CASE Fail(i)
  <2> DEFINE l == [loop[i] EXCEPT !.pc = "failed", !.mine = None, !.on = None]
  <2>1. l \in LoopSet
    BY <1>1 DEF LoopSet
  <2>2. SetLoop(i, l) /\ idleClient' = None
    BY <1>9 DEF Fail, Reaped
  <2> HIDE DEF l
  <2> QED
    BY <1>2, <2>1, <2>2
<1>10. CASE LoopFailed(i)
  <2>1. [NoLoop EXCEPT !.pc = "end"] \in LoopSet /\ [NoLoop EXCEPT !.pc = Retry] \in LoopSet
    BY DEF NoLoop, LoopSet, Retry
  <2> QED
    BY <1>1, <1>2, <1>10, <2>1 DEF LoopFailed
<1>11. CASE Wake(i)
  <2> DEFINE l == [loop[i] EXCEPT !.pc = "top", !.on = None]
  <2>1. l \in LoopSet /\ SetLoop(i, l) /\ idleClient' = idleClient
    BY <1>1, <1>11 DEF Wake, LoopSet
  <2> HIDE DEF l
  <2> QED
    BY <1>1, <1>2, <2>1
<1>12. CASE End(i)
  <2>1. [NoLoop EXCEPT !.pc = "over"] \in LoopSet
    BY DEF NoLoop, LoopSet
  <2> QED
    BY <1>1, <1>2, <1>12, <2>1 DEF End, Reaped
<1> QED
  BY <1>4, <1>5, <1>6, <1>7, <1>8, <1>9, <1>10, <1>11, <1>12 DEF LoopStep

------------------------------------------------------------------------------
(* Rejected logins                                                              *)

Pending(c) == op[c].pc \in {"retire", "dial"} /\ op[c].kind # "account"
GivenUp(i) == \/ loop[i].pc \in {"fail", "failed"} /\ loop[i].auth
              \/ loop[i].pc \in {"end", "over"}

CallerSpared(c) ==
  /\ rejected[<<"call", c>>] <= 1
  /\ rejected[<<"call", c>>] # 0 => idleAuthFailure /\ ~Pending(c)
LoopSpared(i) ==
  /\ rejected[<<"idle", i>>] <= 1
  /\ rejected[<<"idle", i>>] # 0 => GivenUp(i)

SparedInv ==
  /\ rejected \in [Whoever -> Nat] /\ idleAuthFailure \in BOOLEAN
  /\ \A c \in Callers : CallerSpared(c)
  /\ \A i \in Loops : LoopSpared(i)

LEMMA ClearedIsSpared ==
  ASSUME rejected = NoneRejected, idleAuthFailure \in BOOLEAN
  PROVE  SparedInv
BY DEF SparedInv, CallerSpared, LoopSpared, NoneRejected, Whoever

LEMMA ClearedKeeps ==
  ASSUME rejected' = NoneRejected, idleAuthFailure' \in BOOLEAN
  PROVE  SparedInv'
BY DEF SparedInv, CallerSpared, LoopSpared, NoneRejected, Whoever

(* Nobody is rejected, nor cleared.                                             *)
LEMMA SameRejections ==
  ASSUME SparedInv, rejected' = rejected, idleAuthFailure' \in BOOLEAN,
         idleAuthFailure => idleAuthFailure',
         \A c \in Callers : Pending(c)' => Pending(c) \/ ~idleAuthFailure,
         \A i \in Loops : GivenUp(i) => GivenUp(i)'
  PROVE  SparedInv'
<1>1. ASSUME NEW c \in Callers PROVE CallerSpared(c)'
  BY DEF SparedInv, CallerSpared
<1>2. ASSUME NEW i \in Loops PROVE LoopSpared(i)'
  BY DEF SparedInv, LoopSpared
<1> QED
  BY <1>1, <1>2 DEF SparedInv

(* One caller or loop that was not is rejected.                                 *)
LEMMA OneRejection ==
  ASSUME SparedInv, NEW w \in Whoever, rejected[w] = 0,
         rejected' = [rejected EXCEPT ![w] = @ + 1], idleAuthFailure' \in BOOLEAN,
         idleAuthFailure => idleAuthFailure',
         \A c \in Callers : Pending(c)' => Pending(c),
         \A i \in Loops : GivenUp(i) => GivenUp(i)',
         \A c \in Callers : w = <<"call", c>> => idleAuthFailure' /\ ~Pending(c)',
         \A i \in Loops : w = <<"idle", i>> => GivenUp(i)'
  PROVE  SparedInv'
<1>1. rejected \in [Whoever -> Nat]
  BY DEF SparedInv
<1>2. rejected' \in [Whoever -> Nat] /\ rejected'[w] = 1
      /\ \A v \in Whoever : v # w => rejected'[v] = rejected[v]
  BY <1>1
<1>3. ASSUME NEW c \in Callers PROVE CallerSpared(c)'
  <2>1. <<"call", c>> \in Whoever
    BY DEF Whoever
  <2>2. CASE w = <<"call", c>>
    BY <1>2, <2>2 DEF CallerSpared
  <2>3. CASE w # <<"call", c>>
    BY <1>2, <2>1, <2>3 DEF CallerSpared, SparedInv
  <2> QED
    BY <2>2, <2>3
<1>4. ASSUME NEW i \in Loops PROVE LoopSpared(i)'
  <2>1. <<"idle", i>> \in Whoever
    BY DEF Whoever
  <2>2. CASE w = <<"idle", i>>
    BY <1>2, <2>2 DEF LoopSpared
  <2>3. CASE w # <<"idle", i>>
    BY <1>2, <2>1, <2>3 DEF LoopSpared, SparedInv
  <2> QED
    BY <2>2, <2>3
<1> QED
  BY <1>2, <1>3, <1>4 DEF SparedInv

ConnInv == PrimaryInv /\ IdleShapes /\ SparedInv

LEMMA CallerSpares ==
  ASSUME ConnInv, NEW c \in Callers,
         (\E kind \in {"read", "mutation"} : Call(c, kind)) \/ Retired(c) \/ Again(c) \/ Refresh(c)
  PROVE  IdleShapes' /\ SparedInv'
<1>1. /\ op \in [Callers -> OpSet] /\ loop' = loop /\ rejected' = rejected
      /\ idleAuthFailure' = idleAuthFailure /\ idleAuthFailure \in BOOLEAN
      /\ idleClient' \in {idleClient, None}
  BY DEF ConnInv, PrimaryInv, PrimaryShapes, SparedInv, Call, Retired, Again, Refresh, StopIdle, idle_vars
<1>2. IdleShapes'
  BY <1>1 DEF ConnInv, IdleShapes
<1>3. \A i \in Loops : GivenUp(i) => GivenUp(i)'
  BY <1>1 DEF GivenUp
<1>4. ASSUME NEW kind \in {"read", "mutation"}, Call(c, kind),
             NEW d \in Callers, Pending(d)'
      PROVE  Pending(d) \/ ~idleAuthFailure
  BY <1>4 DEF Call, MayLogIn
<1>5. ASSUME Retired(c), NEW d \in Callers, Pending(d)' PROVE Pending(d)
  <2>1. d # c => op'[d] = op[d]
    BY <1>1, <1>5 DEF Retired, Finishes, OpBecomes, Dialling
  <2>2. op[c].pc = "retire"
    BY <1>5 DEF Retired
  <2>3. op'[c] = NoOp \/ op'[c].kind = op[c].kind
    BY <1>1, <1>5 DEF Retired, Finishes, OpBecomes, Dialling
  <2> QED
    BY <1>5, <2>1, <2>2, <2>3 DEF Pending, NoOp
<1>6. ASSUME Again(c), NEW d \in Callers, Pending(d)' PROVE Pending(d)
  <2>1. d # c => op'[d] = op[d]
    BY <1>1, <1>6 DEF Again, Connect, Dialling, OpBecomes
  <2>2. op'[c].kind = "account"
    BY <1>1, <1>6 DEF Again, Connect, Dialling, OpBecomes
  <2> QED
    BY <1>6, <2>1, <2>2 DEF Pending
<1>7. ASSUME Refresh(c), NEW d \in Callers, Pending(d)' PROVE Pending(d)
  <2>1. op' = [op EXCEPT ![c] = [NoOp EXCEPT !.pc = "again"]]
    BY <1>7 DEF Refresh, OpBecomes
  <2>2. op'[c].pc = "again"
    BY <1>1, <2>1 DEF NoOp
  <2> QED
    BY <1>1, <1>7, <2>1, <2>2 DEF Pending
<1>8. \A d \in Callers : Pending(d)' => Pending(d) \/ ~idleAuthFailure
  BY <1>4, <1>5, <1>6, <1>7
<1> QED
  BY <1>1, <1>2, <1>3, <1>8, SameRejections DEF ConnInv

LEMMA ConnectedSpares ==
  ASSUME ConnInv, NEW c \in Callers, Connected(c)
  PROVE  IdleShapes' /\ SparedInv'
<1>1. StartIdle \/ UNCHANGED <<idle_vars, idleAuthFailure, rejected>>
  BY DEF Connected
<1>2. IdleShapes' /\ \A i \in Loops : loop'[i] = loop[i] \/ rejected' = NoneRejected
  BY <1>1, StartShapes DEF ConnInv, IdleShapes, idle_vars
<1>3. \A d \in Callers : Pending(d)' => Pending(d)
  BY FinishedAreIdle DEF Connected, Pending, ConnInv
<1>4. /\ idleAuthFailure' \in BOOLEAN
      /\ rejected' = NoneRejected \/ (rejected' = rejected /\ idleAuthFailure' = idleAuthFailure)
  BY <1>1 DEF StartIdle, ConnInv, SparedInv
<1>5. CASE rejected' = NoneRejected
  BY <1>2, <1>4, <1>5, ClearedKeeps DEF ConnInv, SparedInv
<1>6. CASE rejected' # NoneRejected
  <2>1. \A i \in Loops : GivenUp(i) => GivenUp(i)'
    BY <1>2, <1>6 DEF GivenUp
  <2> QED
    BY <1>2, <1>3, <1>4, <1>6, <2>1, SameRejections DEF ConnInv
<1> QED
  BY <1>5, <1>6

LEMMA ConnectFailsSpares ==
  ASSUME ConnInv, NEW c \in Callers, ConnectFails(c)
  PROVE  IdleShapes' /\ SparedInv'
<1>1. /\ idleClient' = idleClient /\ loop' = loop /\ op[c].pc = "dial"
      /\ op'[c] = NoOp /\ NoOp.pc = "idle"
      /\ \A d \in Callers : d # c => op'[d] = op[d]
  BY FinishedAreIdle DEF ConnectFails, idle_vars, ConnInv
<1>2. IdleShapes' /\ \A i \in Loops : GivenUp(i) => GivenUp(i)'
  BY <1>1 DEF ConnInv, IdleShapes, GivenUp
<1>3. \A d \in Callers : Pending(d)' => Pending(d) /\ d # c
  BY <1>1 DEF Pending
<1>4. CASE /\ op[c].kind # "account" /\ idleAuthFailure' = TRUE
           /\ rejected' = [rejected EXCEPT ![<<"call", c>>] = @ + 1]
  <2>1. <<"call", c>> \in Whoever
    BY DEF Whoever
  <2>2. rejected[<<"call", c>>] = 0
    BY <1>1, <1>4 DEF ConnInv, SparedInv, CallerSpared, Pending
  <2>3. \A d \in Callers : <<"call", c>> = <<"call", d>> => idleAuthFailure' /\ ~Pending(d)'
    BY <1>3, <1>4
  <2> QED
    BY <1>2, <1>3, <1>4, <2>1, <2>2, <2>3, OneRejection DEF ConnInv
<1>5. CASE UNCHANGED <<idleAuthFailure, rejected>>
  BY <1>2, <1>3, <1>5, SameRejections DEF ConnInv, SparedInv
<1> QED
  BY <1>4, <1>5 DEF ConnectFails

LEMMA LoopSpares ==
  ASSUME ConnInv, NEW i \in Loops, LoopStep(i) \/ CycleEnds(i)
  PROVE  SparedInv'
<1>1. IdleShapes' /\ \A j \in Loops : j # i => loop'[j] = loop[j]
  BY LoopShapes DEF ConnInv
<1>2. op' = op /\ loop[i] \in LoopSet /\ loop \in [Loops -> LoopSet]
  BY DEF LoopStep, CycleEnds, Top, AfterReap, Watch, CycleFails, Fail, LoopFailed, Wake, End,
         Main, main_vars, ConnInv, IdleShapes
<1>3. \A c \in Callers : Pending(c)' => Pending(c)
  BY <1>2 DEF Pending
<1>4. CASE Watch(i)
  BY <1>4, ClearedKeeps DEF Watch
<1>5. CASE CycleFails(i)
  <2> DEFINE auth == loop[i].pc = "dial" /\ login = "bad" /\ sock[loop[i].mine] = "connecting"
  <2>1. /\ loop[i].pc \in {"dial", "idle"} /\ idleAuthFailure' = idleAuthFailure
        /\ rejected' = IF auth THEN [rejected EXCEPT ![<<"idle", i>>] = @ + 1] ELSE rejected
        /\ loop' = [loop EXCEPT ![i] = [loop[i] EXCEPT !.pc = "fail", !.auth = auth]]
    BY <1>5 DEF CycleFails, SetLoop
  <2>2. loop'[i].pc = "fail" /\ loop'[i].auth = auth
    BY <1>2, <2>1 DEF LoopSet
  <2> HIDE DEF auth
  <2>3. \A j \in Loops : GivenUp(j) => GivenUp(j)'
    BY <1>1, <2>1 DEF GivenUp
  <2>4. CASE auth
    <3>1. <<"idle", i>> \in Whoever
      BY DEF Whoever
    <3>2. rejected[<<"idle", i>>] = 0
      BY <2>1 DEF ConnInv, SparedInv, LoopSpared, GivenUp
    <3>3. \A j \in Loops : <<"idle", i>> = <<"idle", j>> => GivenUp(j)'
      BY <2>2, <2>4 DEF GivenUp
    <3>4. \A c \in Callers : <<"idle", i>> # <<"call", c>>
      OBVIOUS
    <3> QED
      BY <1>3, <2>1, <2>3, <2>4, <3>1, <3>2, <3>3, <3>4, OneRejection DEF ConnInv, SparedInv
  <2>5. CASE ~auth
    BY <1>3, <2>1, <2>3, <2>5, SameRejections DEF ConnInv, SparedInv
  <2> QED
    BY <2>4, <2>5
<1>6. CASE ~Watch(i) /\ ~CycleFails(i)
  <2>1. rejected' = rejected /\ idleAuthFailure' \in BOOLEAN /\ (idleAuthFailure => idleAuthFailure')
    BY <1>6 DEF LoopStep, CycleEnds, Top, AfterReap, Fail, LoopFailed, Wake, End, ConnInv, SparedInv
  <2>2. GivenUp(i) => GivenUp(i)'
    <3>1. CASE Top(i) \/ AfterReap(i) \/ Wake(i) \/ CycleEnds(i)
      BY <3>1 DEF Top, AfterReap, Wake, CycleEnds, GivenUp
    <3>2. CASE Fail(i)
      <4>1. loop'[i] = [loop[i] EXCEPT !.pc = "failed", !.mine = None, !.on = None]
        BY <1>2, <3>2 DEF Fail, SetLoop
      <4> QED
        BY <1>2, <3>2, <4>1 DEF Fail, GivenUp, LoopSet
    <3>3. CASE LoopFailed(i)
      <4>1. loop[i].pc = "failed" /\ (loop[i].auth => loop'[i] = [NoLoop EXCEPT !.pc = "end"])
        BY <1>2, <3>3 DEF LoopFailed, SetLoop
      <4> QED
        BY <4>1 DEF GivenUp, NoLoop
    <3>4. CASE End(i)
      <4>1. loop'[i] = [NoLoop EXCEPT !.pc = "over"]
        BY <1>2, <3>4 DEF End, SetLoop
      <4> QED
        BY <4>1 DEF GivenUp, NoLoop
    <3> QED
      BY <1>6, <3>1, <3>2, <3>3, <3>4 DEF LoopStep
  <2>3. \A j \in Loops : GivenUp(j) => GivenUp(j)'
    BY <1>1, <2>2 DEF GivenUp
  <2> QED
    BY <1>3, <2>1, <2>3, SameRejections DEF ConnInv
<1> QED
  BY <1>4, <1>5, <1>6

LEMMA OutsideSpares ==
  ASSUME ConnInv, Abort \/ Weather \/ (\E s \in Sockets : Lost(s)) \/ UNCHANGED vars
  PROVE  IdleShapes' /\ SparedInv'
<1>1. /\ op' = op /\ loop' = loop /\ idleClient' = idleClient /\ idleAuthFailure' = idleAuthFailure
      /\ rejected' \in {rejected, NoneRejected}
  BY DEF Abort, Weather, Lost, main_vars, idle_vars, vars
<1>2. IdleShapes' /\ \A i \in Loops : GivenUp(i) => GivenUp(i)'
  BY <1>1 DEF ConnInv, IdleShapes, GivenUp
<1>3. idleAuthFailure' \in BOOLEAN /\ \A c \in Callers : Pending(c)' => Pending(c)
  BY <1>1 DEF ConnInv, SparedInv, Pending
<1>4. CASE rejected' = rejected
  BY <1>1, <1>2, <1>3, <1>4, SameRejections DEF ConnInv
<1>5. CASE rejected' = NoneRejected
  BY <1>2, <1>3, <1>5, ClearedKeeps
<1> QED
  BY <1>1, <1>4, <1>5

------------------------------------------------------------------------------
(* For any callers, loops and sockets, through connects that overtake each other,*)
(* aborts, refreshes, losses, outages and changes of the password: no primary    *)
(* socket leaks, and nobody presents a rejected password twice (connect,         *)
(* ensureConnection and runIdleLoop).                                            *)
THEOREM ConnectionsAreSound == Spec => []ConnectionsHold
<1>1. Init => ConnInv
  BY InitPrimary, ClearedIsSpared DEF Init, ConnInv
<1>2. ConnInv /\ [Next]_vars => ConnInv'
  <2> SUFFICES ASSUME ConnInv, [Next]_vars PROVE ConnInv'
    OBVIOUS
  <2> USE DEF ConnInv
  <2>1. ASSUME NEW c \in Callers, NEW kind \in {"read", "mutation"}, Call(c, kind) PROVE ConnInv'
    BY <2>1, CallKeeps, CallerSpares
  <2>2. ASSUME NEW c \in Callers, Retired(c) \/ Again(c) \/ Refresh(c) PROVE ConnInv'
    BY <2>2, RetiredKeeps, AgainKeeps, RefreshKeeps, CallerSpares
  <2>3. ASSUME NEW c \in Callers, Connected(c) \/ ConnectFails(c) PROVE ConnInv'
    BY <2>3, ConnectedKeeps, ConnectedSpares, ConnectFailsKeeps, ConnectFailsSpares
  <2>4. ASSUME NEW i \in Loops, LoopStep(i) \/ CycleEnds(i) PROVE ConnInv'
    BY <2>4, LoopsApartKeep, LoopShapes, LoopSpares
  <2>5. ASSUME NEW s \in Sockets, Lost(s) PROVE ConnInv'
    BY <2>5, LostKeeps, OutsideSpares
  <2>6. CASE Abort
    BY <2>6, AbortKeeps, OutsideSpares
  <2>7. CASE Weather
    BY <2>7, WeatherKeeps, OutsideSpares
  <2>8. CASE UNCHANGED vars
    <3>1. PrimaryInv'
      BY <2>8, ApartKeeps DEF vars, main_vars, PrimaryInv, PrimaryShapes
    <3> QED
      BY <2>8, <3>1, OutsideSpares
  <2> QED
    BY <2>1, <2>2, <2>3, <2>4, <2>5, <2>6, <2>7, <2>8 DEF Next, OpStep
<1>3. ConnInv => ConnectionsHold
  <2> SUFFICES ASSUME ConnInv, NEW w \in Whoever PROVE rejected[w] <= 1
    BY DEF ConnectionsHold, LockoutSpared, ConnInv, PrimaryInv
  <2>1. CASE \E c \in Callers : w = <<"call", c>>
    BY <2>1 DEF ConnInv, SparedInv, CallerSpared
  <2>2. CASE \E i \in Loops : w = <<"idle", i>>
    BY <2>2 DEF ConnInv, SparedInv, LoopSpared
  <2> QED
    BY <2>1, <2>2 DEF Whoever
<1> QED
  BY <1>1, <1>2, <1>3, PTL DEF Spec

------------------------------------------------------------------------------
(* Sends through pools that are retired under them                              *)

Stages == {"idle", "ready", "refused", "dispatched", "confirmed", "rejected",
           "ambiguous", "failed", "flagging", "sent"}
SendRow == [at : Stages, gen : Nat, source : SourceFolders \cup {Unnamed},
            restricted : BOOLEAN, cut : BOOLEAN]

SubTypeOK ==
  /\ generation \in Nat /\ wiped \in BOOLEAN
  /\ sockets \in [Sends -> {"none", "connecting", "open", "lost"}]
  /\ sends \in [Sends -> SendRow]
  /\ flagged \subseteq Sends \X (SourceFolders \cup {Unnamed})

(* No send is of a pool that is still to come, and none is of the last pool of   *)
(* an account that was retired: it has none.                                     *)
PoolsPast ==
  /\ generation > 0 /\ (wiped => pool = "none")
  /\ \A s \in Sends : sends[s].gen <= generation /\ (wiped => sends[s].gen < generation)

(* A socket belongs to a send that is under way: to one of the pool there is,    *)
(* as long as it can carry anything, and otherwise to one of a retired pool.     *)
SocketsOwned == \A s \in Sends :
  /\ sockets[s] # "none" => sends[s].at = "dispatched"
  /\ sockets[s] \in {"connecting", "open"} => sends[s].gen = generation
  /\ sockets[s] = "lost" => sends[s].gen < generation

(* What a send has come to, and what that says of it.                            *)
SendSound(s) ==
  /\ sends[s].at \in {"confirmed", "flagging", "sent"} => s \in accepted
  /\ sends[s].at \in {"idle", "ready", "refused", "dispatched", "failed"} => ~sends[s].cut
  /\ sends[s].cut => sends[s].gen < generation
  /\ sends[s].restricted => sends[s].source \in Allowed
SendsSound == \A s \in Sends : SendSound(s)

(* Marks are of sends that have ended.                                           *)
MarksEnded == \A mark \in flagged :
  mark[1] \in accepted /\ sends[mark[1]].at = "sent" /\ mark[2] = sends[mark[1]].source

SubInv == SubTypeOK /\ PoolsPast /\ SocketsOwned /\ SendsSound /\ MarksEnded

LEMMA SubInitHolds == SubInit => SubInv
<1> SUFFICES ASSUME SubInit PROVE SubInv
  OBVIOUS
<1>1. NotBegun \in SendRow
  BY DEF NotBegun, SendRow, Stages
<1>2. SubTypeOK
  BY <1>1 DEF SubInit, SubTypeOK
<1>3. PoolsPast /\ SocketsOwned
  BY DEF SubInit, PoolsPast, SocketsOwned, NotBegun
<1>4. SendsSound /\ MarksEnded
  BY DEF SubInit, SendsSound, SendSound, MarksEnded, NotBegun
<1> QED
  BY <1>2, <1>3, <1>4 DEF SubInv

(* A send that has not begun to be dispatched: it is refused, fails at the       *)
(* backoff, or is dispatched on the pool there is.                               *)
LEMMA sendEmailKeeps ==
  ASSUME SubInv, NEW s \in Sends, sends[s].at \in {"idle", "ready"}, sendEmail(s)
  PROVE  SubInv'
<1> USE DEF SubInv, SubTypeOK, SendRow, Stages
<1>1. PICK at \in {"dispatched", "failed", "refused"}, gen \in {sends[s].gen, generation} :
        /\ sends' = [sends EXCEPT ![s].at = at, ![s].gen = gen]
        /\ gen = generation => gen = sends[s].gen \/ pool = "ready"
  BY DEF sendEmail, Declined, Answer
<1>2. sockets[s] = "none" /\ ~sends[s].cut
  BY DEF SocketsOwned, SendsSound, SendSound
<1>3. UNCHANGED <<generation, pool, sockets, wiped, accepted, flagged>>
  BY DEF sendEmail
<1>4. SubTypeOK'
  BY ZenonT(40), <1>1, <1>3
<1>5. PoolsPast'
  BY <1>1, <1>3 DEF PoolsPast
<1>6. SocketsOwned'
  BY <1>1, <1>2, <1>3 DEF SocketsOwned
<1>7. SendsSound'
  BY <1>1, <1>2, <1>3 DEF SendsSound, SendSound
<1>8. MarksEnded'
  BY <1>1, <1>3 DEF MarksEnded
<1> QED
  BY <1>4, <1>5, <1>6, <1>7, <1>8

LEMMA ReadOriginalKeeps ==
  ASSUME SubInv, NEW s \in Sends, NEW hint \in SourceFolders \cup {Unnamed}, NEW restricted \in BOOLEAN,
         ReadOriginal(s, hint, restricted)
  PROVE  SubInv'
<1> USE DEF SubInv, SubTypeOK, SendRow, Stages
<1>1. PICK found \in SourceFolders \cup {Unnamed} :
        sends' = [sends EXCEPT ![s] = IF found = Unnamed \/ (restricted /\ ~FromAllowed(hint, found))
                                      THEN [NotBegun EXCEPT !.at = "refused"]
                                      ELSE [NotBegun EXCEPT !.at = "ready", !.source = found, !.restricted = restricted]]
  BY ZenonT(40) DEF ReadOriginal
<1>2. /\ sends' \in [Sends -> SendRow]
      /\ sends'[s].at \in {"ready", "refused"} /\ sends'[s].gen = 0 /\ ~sends'[s].cut
      /\ sends'[s].restricted => sends'[s].source \in Allowed
      /\ \A t \in Sends \ {s} : sends'[t] = sends[t]
  BY <1>1 DEF NotBegun, FromAllowed
<1>3. sends[s].at = "idle" /\ UNCHANGED <<generation, pool, sockets, wiped, accepted, flagged>>
  BY DEF ReadOriginal
<1>4. SubTypeOK'
  BY <1>2, <1>3
<1>5. PoolsPast'
  BY <1>2, <1>3 DEF PoolsPast
<1>6. SocketsOwned'
  BY <1>2, <1>3 DEF SocketsOwned
<1>7. SendsSound'
  BY <1>2, <1>3 DEF SendsSound, SendSound
<1>8. MarksEnded'
  BY <1>2, <1>3 DEF MarksEnded
<1> QED
  BY <1>4, <1>5, <1>6, <1>7, <1>8

(* The steps of a connection and of the end of a send, which move that one.      *)
LEMMA ConnectionKeeps ==
  ASSUME SubInv, NEW s \in Sends,
         openTrackedSocket(s) \/ Connects(s) \/ Transmits(s) \/ Confirms(s) \/ Breaks(s)
  PROVE  SubInv'
<1> USE DEF SubInv, SubTypeOK, SendRow, Stages, OwnGeneration, Answer, SendsSound, SendSound
<1>1. CASE openTrackedSocket(s)
  BY <1>1 DEF openTrackedSocket, PoolsPast, SocketsOwned, MarksEnded
<1>2. CASE Connects(s)
  BY <1>2 DEF Connects, PoolsPast, SocketsOwned, MarksEnded
<1>3. CASE Transmits(s)
  BY <1>3 DEF Transmits, PoolsPast, SocketsOwned, MarksEnded
<1>4. CASE Confirms(s)
  BY <1>4 DEF Confirms, PoolsPast, SocketsOwned, MarksEnded
<1>5. CASE Breaks(s)
  <2>1. PICK cut \in BOOLEAN :
          sends' = [sends EXCEPT ![s].at = "rejected", ![s].cut = cut] /\ (cut => sockets[s] = "lost")
    <3> DEFINE cut == sockets[s] = "lost"
    <3>1. sends' = [sends EXCEPT ![s].at = "rejected", ![s].cut = cut]
      BY <1>5 DEF Breaks
    <3>2. cut \in BOOLEAN /\ (cut => sockets[s] = "lost")
      BY Zenon
    <3> HIDE DEF cut
    <3> QED
      BY <3>1, <3>2
  <2>2. /\ sends[s].at = "dispatched" /\ sockets' = [sockets EXCEPT ![s] = "none"]
        /\ UNCHANGED <<generation, pool, wiped, accepted, flagged>>
    BY <1>5 DEF Breaks
  <2>3. SubTypeOK' /\ PoolsPast'
    BY ZenonT(40), <2>1, <2>2 DEF PoolsPast
  <2>4. SocketsOwned' /\ SendsSound' /\ MarksEnded'
    BY <2>1, <2>2 DEF SocketsOwned, MarksEnded
  <2> QED
    BY <2>3, <2>4
<1> QED
  BY <1>1, <1>2, <1>3, <1>4, <1>5

LEMMA EndsKeeps == ASSUME SubInv, NEW s \in Sends, Ends(s) PROVE SubInv'
<1> USE DEF SubInv, SubTypeOK, SendRow, Stages
<1>1. PICK at \in {"ambiguous", "sent", "flagging", "failed"} :
        /\ sends' = [sends EXCEPT ![s].at = at]
        /\ at \in {"sent", "flagging"} => sends[s].at = "confirmed"
        /\ at = "failed" => sends[s].gen = generation
  BY DEF Ends, Answer, StillItsPool
<1>2. /\ sends[s].at \in {"confirmed", "rejected"}
      /\ UNCHANGED <<generation, pool, sockets, wiped, accepted, flagged>>
  BY DEF Ends
<1>3. SubTypeOK'
  BY <1>1, <1>2
<1>4. PoolsPast' /\ SocketsOwned'
  BY <1>1, <1>2 DEF PoolsPast, SocketsOwned
<1>5. SendsSound'
  BY <1>1, <1>2 DEF SendsSound, SendSound
<1>6. MarksEnded'
  BY <1>1, <1>2 DEF MarksEnded
<1> QED
  BY <1>3, <1>4, <1>5, <1>6

LEMMA FlagsKeeps == ASSUME SubInv, NEW s \in Sends, Flags(s) PROVE SubInv'
<1> USE DEF SubInv, SubTypeOK, SendRow, Stages
<1>1. /\ sends[s].at = "flagging" /\ sends' = [sends EXCEPT ![s].at = "sent"]
      /\ flagged' \subseteq flagged \cup {<<s, sends[s].source>>}
      /\ UNCHANGED <<generation, pool, sockets, wiped, accepted>>
  BY DEF Flags, FlagIn, Answer
<1>2. SubTypeOK'
  BY <1>1
<1>3. PoolsPast' /\ SocketsOwned'
  BY <1>1 DEF PoolsPast, SocketsOwned
<1>4. SendsSound'
  BY <1>1 DEF SendsSound, SendSound
<1>5. MarksEnded'
  BY <1>1 DEF MarksEnded, SendsSound, SendSound
<1> QED
  BY <1>2, <1>3, <1>4, <1>5

(* The pool goes: whatever was under way is of an older one now.                 *)
LEMMA RetirementKeeps ==
  ASSUME SubInv, abortActiveMutationTransport \/ reinitialize \/ Retires
  PROVE  SubInv'
<1> USE DEF SubInv, SubTypeOK, SendRow, Stages
<1>1. /\ generation' = generation + 1
      /\ sockets' = [s \in Sends |-> IF sockets[s] \in {"connecting", "open"} THEN "lost" ELSE sockets[s]]
      /\ UNCHANGED <<sends, accepted, flagged>>
      /\ wiped' \in BOOLEAN /\ (wiped' => pool' = "none")
  <2>1. CASE abortActiveMutationTransport
    BY <2>1 DEF abortActiveMutationTransport, hardRetireTransport, PoolsPast
  <2>2. CASE reinitialize
    BY <2>2 DEF reinitialize, hardRetireTransport
  <2>3. CASE Retires
    BY <2>3 DEF Retires, hardRetireTransport
  <2> QED
    BY <2>1, <2>2, <2>3
<1>2. SubTypeOK'
  BY <1>1
<1>3. PoolsPast'
  BY <1>1 DEF PoolsPast
<1>4. SocketsOwned'
  BY <1>1 DEF PoolsPast, SocketsOwned
<1>5. SendsSound' /\ MarksEnded'
  BY <1>1 DEF SendsSound, SendSound, MarksEnded
<1> QED
  BY <1>2, <1>3, <1>4, <1>5

(* A retired pool sends nothing, an answer says no more than is known, and marks *)
(* are put on the message that was replied to: for any number of sends, folders  *)
(* and retirements.                                                              *)
THEOREM SubmissionIsSound == SubSpec => []SubmissionHolds
<1>1. SubInv /\ [SubNext]_sub_vars => SubInv'
  <2> SUFFICES ASSUME SubInv, [SubNext]_sub_vars PROVE SubInv'
    OBVIOUS
  <2>1. ASSUME NEW s \in Sends, NEW hint \in SourceFolders \cup {Unnamed}, NEW restricted \in BOOLEAN,
               ReadOriginal(s, hint, restricted)
        PROVE  SubInv'
    BY <2>1, ReadOriginalKeeps
  <2>2. ASSUME NEW s \in Sends, send_email(s) \/ reply_to_email(s) PROVE SubInv'
    BY <2>2, sendEmailKeeps DEF send_email, reply_to_email
  <2>3. ASSUME NEW s \in Sends,
               openTrackedSocket(s) \/ Connects(s) \/ Transmits(s) \/ Confirms(s) \/ Breaks(s)
        PROVE  SubInv'
    BY <2>3, ConnectionKeeps
  <2>4. ASSUME NEW s \in Sends, Ends(s) \/ Flags(s) PROVE SubInv'
    BY <2>4, EndsKeeps, FlagsKeeps
  <2>5. CASE abortActiveMutationTransport \/ reinitialize \/ Retires
    BY <2>5, RetirementKeeps
  <2>6. ASSUME BackoffEnds \/ (\E f \in SourceFolders : MovedAway(f)) \/ UNCHANGED sub_vars PROVE SubInv'
    BY <2>6 DEF BackoffEnds, MovedAway, sub_vars, SubInv, SubTypeOK, PoolsPast, SocketsOwned,
                SendsSound, SendSound, MarksEnded
  <2> QED
    BY <2>1, <2>2, <2>3, <2>4, <2>5, <2>6 DEF SubNext
<1>2. SubInv => SubmissionHolds
  <2> SUFFICES ASSUME SubInv PROVE SubmissionHolds
    OBVIOUS
  <2> USE DEF SubInv, SubTypeOK
  <2>1. RetiredIsPowerless
    BY DEF RetiredIsPowerless, SocketsOwned, PoolsPast, SendRow
  <2>2. AnswersHonest
    BY DEF AnswersHonest, SendsSound, SendSound
  <2>3. MarksTheSource
    BY DEF MarksTheSource, MarksEnded, SendsSound, SendSound
  <2> QED
    BY <2>1, <2>2, <2>3 DEF SubmissionHolds
<1> QED
  BY SubInitHolds, <1>1, <1>2, PTL DEF SubSpec

------------------------------------------------------------------------------
(* What is derived from a mailbox that the account leaves                        *)

MailSet == [of : Nat, version : Nat]
FetchSet == [of : Nat, gen : Nat, object : Nat, version : Nat]
ReaderSet == [at : {"idle", "waiting", "got"}, kind : Kinds, on : Readers \cup {NoReader},
              index : {"none", "open", "closed"}, got : MailSet]
InstanceSet == [open : BOOLEAN, bound : Nat, invalid : BOOLEAN]
IndexSet == [owner : Nat, rows : SUBSET Nat]
RuntimeSet == [object : Nat, gen : Nat, cache : MailSet, inflight : Readers \cup {NoReader}, told : Nat]

ARTypeOK ==
  /\ mailbox \in Nat \ {0} /\ version \in [now : Nat, known : Nat]
  /\ runtime \in RuntimeSet /\ runtime.object > 0
  /\ fetches \in [Readers -> FetchSet]
  /\ reader \in [Readers -> ReaderSet]
  /\ sync \in FetchSet
  /\ instance \in InstanceSet /\ index \in IndexSet /\ rebinds \in Nat

(* A fetch is of the runtime there is, and of its generation, only if it reads   *)
(* the mailbox there is, at a time when the last change of a tool was made; no   *)
(* fetch is of a runtime or generation to come.                                  *)
FetchSound(fetch) ==
  /\ fetch.object <= runtime.object
  /\ fetch.object = runtime.object =>
       /\ fetch.gen <= runtime.gen
       /\ fetch.gen = runtime.gen => fetch.of = mailbox /\ fetch.version >= version.known
FetchesSound == \A r \in Readers : FetchSound(fetches[r])

(* Joined is only a fetch that is going on and fills the cache.                  *)
JoinableIsCurrent == runtime.inflight # NoReader =>
  /\ fetches[runtime.inflight].object = runtime.object
  /\ fetches[runtime.inflight].gen = runtime.gen

(* Whoever holds the index open gets mail of the mailbox it is open for, or none *)
(* at all.                                                                       *)
IndexReaders == \A r \in Readers : reader[r].index = "open" =>
  /\ reader[r].at = "waiting" => reader[r].on \in Readers /\ fetches[reader[r].on].of = mailbox
  /\ reader[r].at = "got" => reader[r].got.version = 0 \/ reader[r].got.of = mailbox
IndexBound == instance.open => instance.bound = mailbox

CacheBelongs ==
  /\ runtime.cache.of \in {Nobody, mailbox} /\ runtime.told \in {Nobody, mailbox}
  /\ runtime.cache # NoMail => runtime.cache.of = mailbox
  /\ runtime.cache.version # 0 => runtime.cache.version >= version.known

ARInv ==
  /\ ARTypeOK /\ version.known <= version.now /\ FetchesSound /\ JoinableIsCurrent
  /\ IndexReaders /\ IndexBound /\ CacheBelongs /\ index.rows \subseteq {index.owner}

(* The records that stand for nothing, and what is to be known of them.          *)
LEMMA Nothings ==
  /\ NoMail \in MailSet /\ NoMail.of = 0 /\ NoMail.version = 0
  /\ NoFetch \in FetchSet /\ NoFetch.of = 0 /\ NoFetch.gen = 0 /\ NoFetch.object = 0
  /\ Quiet \in ReaderSet /\ Quiet.at = "idle" /\ Quiet.index = "none"
  /\ Shut \in InstanceSet /\ ~Shut.open
  /\ Nobody = 0 /\ NoReader = 0
BY DEF NoMail, NoFetch, Quiet, Shut, Nobody, NoReader, MailSet, FetchSet, ReaderSet, InstanceSet, Kinds

LEMMA ARInitHolds == ARInit => ARInv
<1> SUFFICES ASSUME ARInit PROVE ARInv
  OBVIOUS
<1> USE Nothings DEF ARInit, FreshRuntime
<1>1. ARTypeOK
  BY RuntimeBoundsAssumption DEF ARTypeOK, RuntimeSet, IndexSet
<1>2. FetchesSound /\ JoinableIsCurrent /\ IndexReaders /\ IndexBound /\ CacheBelongs
  BY DEF FetchesSound, FetchSound, JoinableIsCurrent, IndexReaders, IndexBound, CacheBelongs
<1> QED
  BY <1>1, <1>2 DEF ARInv

(* An instance that turns out to be a former owner's stays bound as it was.      *)
LEMMA InvalidStaysBound ==
  ASSUME instance \in InstanceSet, NEW invalid \in BOOLEAN, instance' = [instance EXCEPT !.invalid = invalid]
  PROVE  instance' \in InstanceSet /\ instance'.open = instance.open /\ instance'.bound = instance.bound
BY DEF InstanceSet

(* The index is opened, or refused, for the mailbox there is.                    *)
LEMMA getFtsBinds ==
  ASSUME ARInv, getFts
  PROVE  /\ instance' \in InstanceSet /\ index' \in IndexSet
         /\ instance'.open => instance'.bound = mailbox
         /\ index'.rows \subseteq {index'.owner}
<1>1. CASE Reclaims
  BY <1>1, InvalidStaysBound DEF getFts, ARInv, ARTypeOK, IndexBound
<1>2. CASE ~Reclaims
  <2>1. instance' = [open |-> TRUE, bound |-> mailbox, invalid |-> FALSE]
    BY <1>2 DEF getFts
  <2>2. index' = index \/ index' = [owner |-> mailbox, rows |-> {}]
    BY <1>2 DEF getFts
  <2> QED
    BY <2>1, <2>2 DEF ARInv, ARTypeOK, InstanceSet, IndexSet
<1> QED
  BY <1>1, <1>2

(* A reader begins to wait for a fetch of the mailbox there is, its own or one   *)
(* it joins, or finds the cache filled.                                          *)
LEMMA AskKeeps == ASSUME ARInv, NEW r \in Readers, NEW kind \in Kinds, Ask(r, kind) PROVE ARInv'
<1> DEFINE held == IF kind = "rebuild" THEN "open" ELSE "none"
<1> USE Nothings DEF ARInv, ARTypeOK
<1>1. /\ instance' \in InstanceSet /\ index' \in IndexSet
      /\ instance'.open => instance'.bound = mailbox
      /\ index'.rows \subseteq {index'.owner}
  <2>1. CASE kind = "rebuild"
    BY <2>1, getFtsBinds DEF Ask
  <2>2. CASE kind # "rebuild"
    BY <2>2 DEF Ask, IndexBound
  <2> QED
    BY <2>1, <2>2
<1>2. reader[r] = Quiet /\ fetches[r] = NoFetch /\ UNCHANGED <<mailbox, version, sync, rebinds>>
  BY DEF Ask
<1>3. held \in {"none", "open"}
  OBVIOUS
<1>4. CASE runtime.cache # NoMail
  <2>1. /\ UNCHANGED <<fetches, runtime>>
        /\ reader' = [reader EXCEPT ![r] =
               [at |-> "got", kind |-> kind, on |-> NoReader, index |-> held, got |-> runtime.cache]]
    BY <1>4 DEF Ask
  <2>2. ARTypeOK'
    BY <1>1, <1>2, <1>3, <2>1 DEF RuntimeSet, ReaderSet
  <2>3. IndexReaders'
    BY <1>2, <1>4, <2>1 DEF IndexReaders, CacheBelongs, ReaderSet
  <2> QED
    BY <1>1, <1>2, <2>1, <2>2, <2>3 DEF FetchesSound, FetchSound, JoinableIsCurrent, IndexBound, CacheBelongs
<1>5. CASE runtime.cache = NoMail /\ Joinable
  <2>1. /\ UNCHANGED <<fetches, runtime>> /\ runtime.inflight \in Readers
        /\ reader' = [reader EXCEPT ![r] =
               [at |-> "waiting", kind |-> kind, on |-> runtime.inflight, index |-> held, got |-> NoMail]]
    BY <1>5 DEF Ask, Waits, Joinable, RuntimeSet
  <2>2. fetches[runtime.inflight].of = mailbox
    BY <1>5, <2>1 DEF Joinable, JoinableIsCurrent, FetchesSound, FetchSound
  <2>3. ARTypeOK'
    BY <1>1, <1>2, <1>3, <2>1 DEF RuntimeSet, ReaderSet
  <2>4. IndexReaders'
    BY <1>2, <2>1, <2>2 DEF IndexReaders, ReaderSet
  <2> QED
    BY <1>1, <1>2, <2>1, <2>3, <2>4 DEF FetchesSound, FetchSound, JoinableIsCurrent, IndexBound, CacheBelongs
<1>6. CASE runtime.cache = NoMail /\ ~Joinable
  <2>1. /\ reader' = [reader EXCEPT ![r] =
               [at |-> "waiting", kind |-> kind, on |-> r, index |-> held, got |-> NoMail]]
        /\ fetches' = [fetches EXCEPT ![r] =
               [of |-> mailbox, gen |-> runtime.gen, object |-> runtime.object, version |-> version.now]]
        /\ runtime' = [runtime EXCEPT !.inflight = r]
    BY <1>6 DEF Ask, Waits
  <2>2. ARTypeOK'
    BY <1>1, <1>2, <1>3, <2>1 DEF RuntimeSet, ReaderSet, FetchSet
  <2>3. IndexReaders'
    BY <1>2, <2>1 DEF IndexReaders, ReaderSet
  <2>4. FetchesSound' /\ JoinableIsCurrent'
    BY <1>2, <2>1 DEF FetchesSound, FetchSound, JoinableIsCurrent, RuntimeSet, FetchSet
  <2> QED
    BY <1>1, <1>2, <2>1, <2>2, <2>3, <2>4 DEF IndexBound, CacheBelongs, RuntimeSet
<1> QED
  BY <1>4, <1>5, <1>6

(* A fetch that fills the cache is of the mailbox there is, and no older than    *)
(* what a tool changed last; whoever waited for it with the index open gets mail *)
(* of that mailbox.                                                              *)
LEMMA FetchDoneKeeps ==
  ASSUME ARInv, NEW f \in Readers, NEW seen \in 0..MaxVersions, FetchDone(f, seen)
  PROVE  ARInv'
<1> DEFINE result == [of |-> fetches[f].of, version |-> seen]
<1> USE Nothings DEF ARInv, ARTypeOK
<1>1. /\ fetches[f] # NoFetch /\ fetches' = [fetches EXCEPT ![f] = NoFetch]
      /\ seen \in {0, fetches[f].version} \cup (IF fetches[f].of = mailbox THEN {version.now} ELSE {})
      /\ reader' = [r \in Readers |-> IF reader[r].at = "waiting" /\ reader[r].on = f
                                      THEN [reader[r] EXCEPT !.at = "got", !.on = NoReader, !.got = result]
                                      ELSE reader[r]]
      /\ UNCHANGED <<mailbox, version, sync, instance, index, rebinds>>
  BY DEF FetchDone
<1>2. runtime' = [runtime EXCEPT !.cache = IF FillsCache(f) THEN result ELSE @,
                                 !.told = IF FillsCache(f) THEN fetches[f].of ELSE @,
                                 !.inflight = IF @ = f THEN NoReader ELSE @]
  BY DEF FetchDone
<1>3. result \in MailSet
  BY <1>1 DEF FetchSet, MailSet
<1>4. NoFetch \in FetchSet /\ FetchSound(NoFetch)
  BY DEF FetchSet, FetchSound, RuntimeSet
<1>5. /\ runtime' \in RuntimeSet /\ runtime'.object = runtime.object /\ runtime'.gen = runtime.gen
      /\ runtime'.inflight = IF runtime.inflight = f THEN NoReader ELSE runtime.inflight
      /\ IF FillsCache(f) THEN runtime'.cache = result /\ runtime'.told = fetches[f].of
                          ELSE runtime'.cache = runtime.cache /\ runtime'.told = runtime.told
  <2>1. PICK filled \in MailSet, told \in Nat, inflight \in Readers \cup {NoReader} :
          /\ runtime' = [runtime EXCEPT !.cache = filled, !.told = told, !.inflight = inflight]
          /\ inflight = IF runtime.inflight = f THEN NoReader ELSE runtime.inflight
          /\ IF FillsCache(f) THEN filled = result /\ told = fetches[f].of
                              ELSE filled = runtime.cache /\ told = runtime.told
    <3>1. runtime.cache \in MailSet /\ runtime.told \in Nat /\ fetches[f].of \in Nat
          /\ (IF runtime.inflight = f THEN NoReader ELSE runtime.inflight) \in Readers \cup {NoReader}
      BY DEF RuntimeSet, FetchSet
    <3> QED
      BY <1>2, <1>3, <3>1
  <2> QED
    BY <2>1 DEF RuntimeSet
<1>6. ASSUME NEW r \in Readers PROVE reader'[r] \in ReaderSet /\ (reader'[r].index = "open" =>
        /\ reader'[r].at = "waiting" => reader'[r].on \in Readers /\ reader'[r].on # f /\ fetches[reader'[r].on].of = mailbox
        /\ reader'[r].at = "got" => reader'[r].got.version = 0 \/ reader'[r].got.of = mailbox)
  <2>1. result.of = fetches[f].of
    OBVIOUS
  <2> HIDE DEF result
  <2>2. CASE reader[r].at = "waiting" /\ reader[r].on = f
    BY ZenonT(40), <1>1, <1>3, <2>1, <2>2 DEF IndexReaders, ReaderSet
  <2>3. CASE ~(reader[r].at = "waiting" /\ reader[r].on = f)
    BY <1>1, <2>3 DEF IndexReaders
  <2> QED
    BY <2>2, <2>3
<1>7. ARTypeOK'
  BY <1>1, <1>4, <1>5, <1>6
<1>8. FetchesSound' /\ JoinableIsCurrent' /\ IndexReaders'
  <2>1. FetchesSound'
    <3> SUFFICES ASSUME NEW q \in Readers PROVE FetchSound(fetches[q])'
      BY DEF FetchesSound
    <3>1. fetches'[q] = NoFetch \/ fetches'[q] = fetches[q]
      BY <1>1
    <3>2. FetchSound(NoFetch) /\ FetchSound(fetches[q])
      BY <1>4 DEF FetchesSound
    <3> QED
      BY <1>1, <1>5, <3>1, <3>2 DEF FetchSound
  <2>2. JoinableIsCurrent'
    BY <1>1, <1>5 DEF JoinableIsCurrent, RuntimeSet
  <2>3. IndexReaders'
    BY <1>1, <1>6 DEF IndexReaders
  <2> QED
    BY <2>1, <2>2, <2>3
<1>9. CacheBelongs'
  <2>1. CASE FillsCache(f)
    <3>1. fetches[f].of = mailbox /\ fetches[f].version >= version.known
      BY <2>1 DEF FillsCache, FetchesSound, FetchSound
    <3>2. result.of = mailbox /\ result.version = seen /\ (seen = 0 \/ seen >= version.known)
      BY <1>1, <3>1
    <3> HIDE DEF result
    <3> QED
      BY <1>1, <1>5, <2>1, <3>1, <3>2 DEF CacheBelongs
  <2>2. CASE ~FillsCache(f)
    BY <1>1, <1>5, <2>2 DEF CacheBelongs
  <2> QED
    BY <2>1, <2>2
<1> QED
  BY <1>1, <1>7, <1>8, <1>9 DEF IndexBound

(* What is written to the index at the end of a rebuild is of its owner.         *)
LEMMA FinishKeeps == ASSUME ARInv, NEW r \in Readers, Finish(r) PROVE ARInv'
<1> USE Nothings DEF ARInv, ARTypeOK
<1>1. /\ reader[r].at = "got" /\ reader' = [reader EXCEPT ![r] = Quiet]
      /\ UNCHANGED <<mailbox, version, runtime, fetches, sync, rebinds>>
  BY DEF Finish
<1>2. /\ instance' \in InstanceSet /\ index' \in IndexSet
      /\ instance'.open => instance'.bound = mailbox
      /\ index'.rows \subseteq {index'.owner}
  <2>1. CASE reader[r].index = "open" /\ assertCurrentOwner
    <3>1. index.owner = mailbox
      BY <2>1 DEF assertCurrentOwner, IndexBound
    <3>2. reader[r].got.version = 0 \/ reader[r].got.of = mailbox
      BY <1>1, <2>1 DEF IndexReaders
    <3>3. PICK rows \in {{}, {mailbox}} : instance' = instance /\ index' = [index EXCEPT !.rows = rows]
      BY <2>1, <3>2 DEF Finish, rebuild
    <3> QED
      BY <3>1, <3>3 DEF IndexBound, IndexSet
  <2>2. CASE reader[r].index = "open" /\ ~assertCurrentOwner
    <3> DEFINE invalid == instance.invalid \/ instance.open
    <3>1. instance' = [instance EXCEPT !.invalid = invalid] /\ index' = index
      BY <2>2 DEF Finish, rebuild, StaleFuse
    <3>2. invalid \in BOOLEAN
      BY Zenon
    <3> HIDE DEF invalid
    <3> QED
      BY <3>1, <3>2, InvalidStaysBound DEF IndexBound
  <2>3. CASE reader[r].index # "open"
    BY <2>3 DEF Finish, IndexBound
  <2> QED
    BY <2>1, <2>2, <2>3
<1>3. ARTypeOK' /\ IndexReaders'
  BY <1>1, <1>2 DEF ReaderSet, IndexReaders
<1> QED
  BY <1>1, <1>2, <1>3 DEF FetchesSound, FetchSound, JoinableIsCurrent, IndexBound, CacheBelongs

(* What the background read is used for is of the mailbox there is.              *)
LEMMA EndSyncKeeps == ASSUME ARInv, EndSync PROVE ARInv'
<1> USE Nothings DEF ARInv, ARTypeOK
<1>1. sync' = NoFetch /\ UNCHANGED <<mailbox, version, fetches, reader, rebinds>>
  BY DEF EndSync
<1>2. CASE StillCurrent
  <2>1. runtime' = [runtime EXCEPT !.told = mailbox] /\ upsertMany /\ sync.of = mailbox
    BY <1>2 DEF EndSync, StillCurrent
  <2>2. /\ instance' \in InstanceSet /\ index' \in IndexSet
        /\ instance'.open => instance'.bound = mailbox
        /\ index'.rows \subseteq {index'.owner}
    <3>1. CASE Reclaims
      BY <2>1, <3>1, getFtsBinds DEF upsertMany
    <3>2. CASE ~Reclaims
      <4>1. instance' = [open |-> TRUE, bound |-> mailbox, invalid |-> FALSE]
        BY <2>1, <3>2 DEF upsertMany
      <4>2. PICK rows \in SUBSET {mailbox} : index' = [owner |-> mailbox, rows |-> rows]
        BY <2>1, <3>2 DEF upsertMany, IndexSet
      <4> QED
        BY <4>1, <4>2 DEF InstanceSet, IndexSet
    <3> QED
      BY <3>1, <3>2
  <2>3. /\ runtime' \in RuntimeSet /\ runtime'.told = mailbox
        /\ runtime'.object = runtime.object /\ runtime'.gen = runtime.gen
        /\ runtime'.cache = runtime.cache /\ runtime'.inflight = runtime.inflight
    BY <2>1 DEF RuntimeSet
  <2>4. NoFetch \in FetchSet
    BY DEF FetchSet
  <2> QED
    BY <1>1, <2>2, <2>3, <2>4
    DEF FetchesSound, FetchSound, JoinableIsCurrent, IndexReaders, IndexBound, CacheBelongs
<1>3. CASE ~StillCurrent
  <2>1. UNCHANGED <<runtime, instance, index>> /\ NoFetch \in FetchSet
    BY <1>3 DEF EndSync, FetchSet
  <2> QED
    BY <1>1, <2>1 DEF FetchesSound, FetchSound, JoinableIsCurrent, IndexReaders, IndexBound, CacheBelongs
<1> QED
  BY <1>2, <1>3

(* Another mailbox: no fetch under way is of the new runtime or generation, and  *)
(* nobody holds the index open any more.                                         *)
LEMMA MailboxMovesKeeps == ASSUME ARInv, resetMailbox \/ RemovedAndAdded PROVE ARInv'
<1> USE Nothings DEF ARInv, ARTypeOK
<1>1. /\ mailbox' = mailbox + 1 /\ version' = [now |-> 1, known |-> 1]
      /\ instance' = Shut /\ UNCHANGED <<fetches, sync, rebinds>>
      /\ reader' = [r \in Readers |-> IF reader[r].index = "open" THEN [reader[r] EXCEPT !.index = "closed"] ELSE reader[r]]
      /\ index' \in IndexSet /\ index'.rows \subseteq {index'.owner}
  BY DEF resetMailbox, RemovedAndAdded, Moves, Closes, IndexSet
<1>2. /\ runtime' \in RuntimeSet /\ runtime'.object > 0
      /\ runtime'.cache = NoMail /\ runtime'.inflight = NoReader /\ runtime'.told = Nobody
      /\ \/ runtime'.object = runtime.object /\ runtime'.gen = runtime.gen + 1
         \/ runtime'.object = runtime.object + 1
  <2>1. CASE resetMailbox
    <3>1. PICK gen \in Nat : gen = runtime.gen + 1
      BY DEF RuntimeSet
    <3>2. runtime' = [runtime EXCEPT !.gen = gen, !.cache = NoMail, !.inflight = NoReader, !.told = Nobody]
      BY <2>1, <3>1 DEF resetMailbox
    <3> QED
      BY <3>1, <3>2 DEF RuntimeSet
  <2>2. CASE RemovedAndAdded
    <3>1. PICK object \in Nat : object = runtime.object + 1
      BY DEF RuntimeSet
    <3>2. runtime' = [object |-> object, gen |-> 0, cache |-> NoMail, inflight |-> NoReader, told |-> Nobody]
      BY <2>2, <3>1 DEF RemovedAndAdded, FreshRuntime
    <3> QED
      BY <3>1, <3>2 DEF RuntimeSet
  <2> QED
    BY <2>1, <2>2
<1>3. ARTypeOK'
  BY <1>1, <1>2 DEF ReaderSet
<1>4. FetchesSound' /\ JoinableIsCurrent'
  BY <1>1, <1>2 DEF FetchesSound, FetchSound, JoinableIsCurrent, RuntimeSet, FetchSet
<1>5. IndexReaders' /\ IndexBound' /\ CacheBelongs'
  BY <1>1, <1>2 DEF IndexReaders, IndexBound, CacheBelongs, ReaderSet
<1> QED
  BY <1>1, <1>3, <1>4, <1>5

LEMMA invalidateKeeps == ASSUME ARInv, invalidateAnalytics \/ CacheExpires \/ MailArrives PROVE ARInv'
<1> USE Nothings DEF ARInv, ARTypeOK
<1>1. CASE invalidateAnalytics
  <2>1. /\ version' = [now |-> version.now + 1, known |-> version.now + 1]
        /\ UNCHANGED <<mailbox, fetches, reader, sync, instance, index, rebinds>>
    BY <1>1 DEF invalidateAnalytics
  <2>2. /\ runtime' \in RuntimeSet /\ runtime'.object = runtime.object /\ runtime'.gen = runtime.gen + 1
        /\ runtime'.cache = NoMail /\ runtime'.inflight = NoReader /\ runtime'.told = runtime.told
    <3>1. PICK gen \in Nat : gen = runtime.gen + 1
      BY DEF RuntimeSet
    <3>2. runtime' = [runtime EXCEPT !.gen = gen, !.cache = NoMail, !.inflight = NoReader]
      BY <1>1, <3>1 DEF invalidateAnalytics
    <3> QED
      BY <3>1, <3>2 DEF RuntimeSet
  <2> QED
    BY <2>1, <2>2
    DEF FetchesSound, FetchSound, JoinableIsCurrent, IndexReaders, IndexBound, CacheBelongs, RuntimeSet,
        FetchSet
<1>2. CASE CacheExpires
  <2>1. UNCHANGED <<mailbox, version, fetches, reader, sync, instance, index, rebinds>>
    BY <1>2 DEF CacheExpires
  <2>2. /\ runtime' \in RuntimeSet /\ runtime'.object = runtime.object /\ runtime'.gen = runtime.gen
        /\ runtime'.cache = NoMail /\ runtime'.inflight = runtime.inflight /\ runtime'.told = runtime.told
    BY <1>2 DEF CacheExpires, RuntimeSet
  <2> QED
    BY <2>1, <2>2 DEF FetchesSound, FetchSound, JoinableIsCurrent, IndexReaders, IndexBound, CacheBelongs
<1>3. CASE MailArrives
  BY <1>3 DEF MailArrives, FetchesSound, FetchSound, JoinableIsCurrent, IndexReaders, IndexBound, CacheBelongs
<1> QED
  BY <1>1, <1>2, <1>3

(* However late a read comes back, nothing derived from a former mailbox is      *)
(* found under the account again: for any number of readers, mailboxes and       *)
(* changes of mail.                                                              *)
THEOREM DerivedStaysOwn == ARSpec => []DerivedBelongs
<1>1. ARInv /\ [ARNext]_runtime_vars => ARInv'
  <2> SUFFICES ASSUME ARInv, [ARNext]_runtime_vars PROVE ARInv'
    OBVIOUS
  <2>1. ASSUME NEW r \in Readers, NEW kind \in Kinds, Ask(r, kind) PROVE ARInv'
    BY <2>1, AskKeeps
  <2>2. ASSUME NEW r \in Readers, Finish(r) PROVE ARInv'
    BY <2>2, FinishKeeps
  <2>3. ASSUME NEW r \in Readers, NEW seen \in 0..MaxVersions, FetchDone(r, seen) PROVE ARInv'
    BY <2>3, FetchDoneKeeps
  <2>4. ASSUME NEW r \in Readers, AskRefused(r) PROVE ARInv'
    BY <2>4, getFtsBinds
   
   DEF AskRefused, ARInv, ARTypeOK, FetchesSound, FetchSound, JoinableIsCurrent, IndexReaders, IndexBound,
       CacheBelongs
  <2>5. CASE EndSync
    BY <2>5, EndSyncKeeps
  <2>6. CASE resetMailbox \/ RemovedAndAdded
    BY <2>6, MailboxMovesKeeps
  <2>7. CASE invalidateAnalytics \/ CacheExpires \/ MailArrives
    BY <2>7, invalidateKeeps
  <2>8. CASE BeginSync \/ SyncFails \/ UNCHANGED runtime_vars
    <3>1. sync' \in FetchSet /\ UNCHANGED <<mailbox, version, runtime, fetches, reader, instance, index, rebinds>>
      BY <2>8, Nothings DEF BeginSync, SyncFails, runtime_vars, ARInv, ARTypeOK, FetchSet, RuntimeSet
    <3> QED
      BY <3>1 DEF ARInv, ARTypeOK, FetchesSound, FetchSound, JoinableIsCurrent, IndexReaders, IndexBound, CacheBelongs
  <2>9. CASE OtherProcessBinds
    <3>1. /\ UNCHANGED <<mailbox, version, runtime, fetches, reader, sync, instance>>
          /\ rebinds' = rebinds + 1
          /\ index' = [owner |-> MaxMailboxes + rebinds + 1, rows |-> {MaxMailboxes + rebinds + 1}]
      BY <2>9 DEF OtherProcessBinds
    <3>2. rebinds' \in Nat /\ MaxMailboxes + rebinds + 1 \in Nat
      BY <3>1, RuntimeBoundsAssumption DEF ARInv, ARTypeOK
    <3>3. index' \in IndexSet /\ index'.rows \subseteq {index'.owner}
      BY <3>1, <3>2 DEF IndexSet
    <3> QED
      BY <3>1, <3>2, <3>3
      DEF ARInv, ARTypeOK, FetchesSound, FetchSound, JoinableIsCurrent, IndexReaders, IndexBound, CacheBelongs
  <2> QED
    BY <2>1, <2>2, <2>3, <2>4, <2>5, <2>6, <2>7, <2>8, <2>9 DEF ARNext
<1>2. ARInv => DerivedBelongs
  BY DEF ARInv, CacheBelongs, IndexBound, DerivedBelongs, assertCurrentOwner
<1> QED
  BY ARInitHolds, <1>1, <1>2, PTL DEF ARSpec

------------------------------------------------------------------------------
(* The reminders                                                                 *)

RowSet == [owner : Owners \cup {NoOwner}, mailbox : MailboxIds \cup {Unresolved},
           status : {"absent", "pending", "fired", "cancelled"}]

REMTypeOK ==
  /\ reminders \in [Ids -> RowSet] /\ stored \in [Ids -> RowSet]
  /\ mailboxOf \in [Owners -> MailboxIds \cup {Unresolved}]
  /\ madeFor \in [Ids -> MailboxIds \cup {Unresolved}] /\ shown \in [Ids -> Nat]
  /\ creating \in RowSet

(* A row, of the memory or of the file, has an account and the mailbox it was    *)
(* acknowledged for; while it has none yet, nothing was done with it; and if it  *)
(* is pending, it was neither answered nor ended.                                *)
Sound(row, made, times, over) ==
  /\ row # NoRow => /\ row.owner \in Owners /\ made = row.mailbox
                    /\ row.mailbox = Unresolved => row.status = "pending"
  /\ row.status = "pending" => times = 0 /\ ~over
AllSound(rows) == \A r \in Ids : Sound(rows[r], madeFor[r], shown[r], r \in ended)

(* A number that was answered or ended is not given away again.                  *)
OnceMade == \A r \in Ids : shown[r] > 0 \/ r \in ended => madeFor[r] # Unresolved

(* Memory and file disagree only on what is excused.                             *)
FileAgrees == \A r \in Ids : r \notin excused => reminders[r] = stored[r]

CreatesPending ==
  creating # NoRow => creating.owner \in Owners /\ creating.mailbox # Unresolved /\ creating.status = "pending"

REMInv ==
  /\ REMTypeOK /\ AllSound(reminders) /\ AllSound(stored) /\ OnceMade /\ FileAgrees
  /\ CreatesPending /\ NothingForgotten

LEMMA RowFacts ==
  /\ NoRow \in RowSet /\ NoRow.status = "absent"
  /\ \A a \in Owners, m \in MailboxIds \cup {Unresolved} :
       /\ Made(a, m) \in RowSet /\ Made(a, m) # NoRow
       /\ Made(a, m).owner = a /\ Made(a, m).mailbox = m /\ Made(a, m).status = "pending"
BY DEF NoRow, Made, RowSet, NoOwner, Unresolved

LEMMA REMInitHolds == REMInit => REMInv
<1> SUFFICES ASSUME REMInit PROVE REMInv
  OBVIOUS
<1>1. (CHOOSE a \in Owners : TRUE) \in Owners /\ (CHOOSE m \in MailboxIds : TRUE) \in MailboxIds
  BY RemindersAssumption
<1>2. \A r \in Ids : reminders[r] \in {NoRow, Made(CHOOSE a \in Owners : TRUE, Unresolved)}
  BY DEF REMInit
<1>3. REMTypeOK
  BY <1>1, RowFacts DEF REMInit, REMTypeOK
<1>4. AllSound(reminders) /\ AllSound(stored)
  BY <1>1, <1>2, RowFacts DEF REMInit, AllSound, Sound
<1>5. OnceMade /\ FileAgrees /\ CreatesPending /\ NothingForgotten
  BY DEF REMInit, OnceMade, FileAgrees, CreatesPending, NothingForgotten
<1> QED
  BY <1>3, <1>4, <1>5 DEF REMInv

(* What is open has an identity, and is neither answered nor ended.              *)
LEMMA OpenIsUnanswered ==
  ASSUME REMInv, NEW a, NEW r \in Open(reminders, a)
  PROVE  /\ r \in Ids /\ reminders[r].status = "pending" /\ reminders[r] # NoRow
         /\ reminders[r].owner = a /\ reminders[r].mailbox = mailboxOf[a]
         /\ reminders[r].owner \in Owners
         /\ reminders[r].mailbox # Unresolved /\ madeFor[r] = reminders[r].mailbox
         /\ shown[r] = 0 /\ r \notin ended
BY RowFacts DEF REMInv, AllSound, Sound, Open, InScope, isRecordCurrent

(* A change of the memory that is saved, or taken back when that fails.          *)
LEMMA cancelKeeps ==
  ASSUME REMInv, NEW a, NEW S \in SUBSET Open(reminders, a), NEW ok \in BOOLEAN,
         persistOrRollback(Marked(reminders, S, "cancelled"), ok),
         ended' = (IF ok THEN ended \cup S ELSE ended),
         UNCHANGED <<mailboxOf, creating, madeFor, shown, excused>>
  PROVE  REMInv'
<1> USE DEF REMInv
<1>1. CASE ok
  <2>1. /\ reminders' = Marked(reminders, S, "cancelled") /\ stored' = reminders'
        /\ ended' = ended \cup S
    BY <1>1 DEF persistOrRollback
  <2>2. ASSUME NEW r \in S
        PROVE  /\ reminders'[r] \in RowSet /\ reminders'[r] # NoRow /\ reminders'[r].status = "cancelled"
               /\ reminders'[r].mailbox = reminders[r].mailbox /\ reminders'[r].owner \in Owners
    BY SMTT(20), <2>1, <2>2, OpenIsUnanswered, RowFacts DEF Marked, REMTypeOK, RowSet
  <2>3. \A r \in Ids \ S : reminders'[r] = reminders[r] /\ (r \in ended' <=> r \in ended)
    BY <2>1 DEF Marked
  <2>4. \A r \in S : r \in ended' /\ madeFor[r] # Unresolved /\ madeFor[r] = reminders[r].mailbox
    BY <2>1, OpenIsUnanswered
  <2>5. REMTypeOK'
    <3>1. reminders' = [r \in Ids |-> reminders'[r]]
      BY <2>1 DEF Marked
    <3> QED
      BY <2>1, <2>2, <2>3, <3>1 DEF REMTypeOK
  <2>6. AllSound(reminders)' /\ AllSound(stored)' /\ OnceMade'
    BY <2>1, <2>2, <2>3, <2>4 DEF AllSound, Sound, OnceMade
  <2>7. FileAgrees' /\ CreatesPending' /\ NothingForgotten'
    BY <2>1, <2>3, <2>4 DEF FileAgrees, CreatesPending, NothingForgotten
  <2> QED
    BY <2>5, <2>6, <2>7
<1>2. CASE ~ok
  BY <1>2 DEF persistOrRollback, REMTypeOK, AllSound, OnceMade, FileAgrees, CreatesPending, NothingForgotten
<1> QED
  BY <1>1, <1>2

LEMMA AddKeeps == ASSUME REMInv, NEW r \in Ids, NEW ok \in BOOLEAN, Add(r, ok) PROVE REMInv'
<1> USE DEF REMInv
<1>1. /\ creating # NoRow /\ reminders[r] = NoRow /\ madeFor[r] = Unresolved
      /\ creating' = NoRow /\ UNCHANGED <<mailboxOf, shown, ended, excused>>
  BY DEF Add
<1>2. CASE /\ reminders' = [reminders EXCEPT ![r] = creating] /\ stored' = reminders'
           /\ madeFor' = [madeFor EXCEPT ![r] = creating.mailbox]
  <2>1. /\ creating \in RowSet /\ creating.owner \in Owners
        /\ creating.mailbox # Unresolved /\ creating.status = "pending"
    BY <1>1 DEF REMTypeOK, CreatesPending
  <2>2. REMTypeOK'
    BY <1>1, <1>2, <2>1, RowFacts DEF REMTypeOK, RowSet
  <2>3. shown[r] = 0 /\ r \notin ended
    BY <1>1 DEF OnceMade, REMTypeOK
  <2>4. AllSound(reminders)' /\ AllSound(stored)' /\ OnceMade'
    BY <1>1, <1>2, <2>1, <2>3 DEF AllSound, Sound, OnceMade, REMTypeOK
  <2>5. FileAgrees' /\ CreatesPending' /\ NothingForgotten'
    BY <1>1, <1>2, <2>1, <2>3 DEF FileAgrees, CreatesPending, NothingForgotten, REMTypeOK
  <2> QED
    BY <2>2, <2>4, <2>5
<1>3. CASE UNCHANGED <<reminders, stored, madeFor>>
  BY <1>1, <1>3, RowFacts DEF REMTypeOK, AllSound, OnceMade, FileAgrees, CreatesPending, NothingForgotten
<1>4. \/ /\ reminders' = [reminders EXCEPT ![r] = creating] /\ stored' = reminders'
         /\ madeFor' = [madeFor EXCEPT ![r] = creating.mailbox]
      \/ UNCHANGED <<reminders, stored, madeFor>>
  BY DEF Add, persistOrRollback
<1> QED
  BY <1>2, <1>3, <1>4

(* What firing makes of the rows of the memory.                                  *)
LEMMA FiredRows ==
  ASSUME REMInv, NEW a
  PROVE  /\ DueOf(a) \subseteq Open(reminders, a) /\ DueOf(a) \subseteq Ids
         /\ Fired(a) \in [Ids -> RowSet]
         /\ \A r \in DueOf(a) : Fired(a)[r] # NoRow /\ Fired(a)[r].status = "fired"
                              /\ Fired(a)[r].mailbox = reminders[r].mailbox /\ Fired(a)[r].owner \in Owners
         /\ \A r \in Ids \ DueOf(a) : Fired(a)[r] = reminders[r]
<1>1. DueOf(a) \subseteq Open(reminders, a) /\ DueOf(a) \subseteq Ids
  BY DEF DueOf, Open, InScope
<1>2. ASSUME NEW r \in DueOf(a)
      PROVE  /\ Fired(a)[r] \in RowSet /\ Fired(a)[r] # NoRow /\ Fired(a)[r].status = "fired"
             /\ Fired(a)[r].mailbox = reminders[r].mailbox /\ Fired(a)[r].owner \in Owners
  <2>1. r \in Ids /\ reminders[r] \in RowSet /\ reminders[r].owner \in Owners
    BY <1>1, OpenIsUnanswered DEF REMInv, REMTypeOK
  <2>2. Fired(a)[r] = [reminders[r] EXCEPT !.status = "fired"]
    BY <2>1 DEF Fired, Marked
  <2> QED
    BY <2>1, <2>2, RowFacts DEF RowSet
<1>3. \A r \in Ids \ DueOf(a) : Fired(a)[r] = reminders[r]
  BY DEF Fired, Marked
<1>4. Fired(a) = [r \in Ids |-> Fired(a)[r]]
  BY DEF Fired, Marked
<1> QED
  BY <1>1, <1>2, <1>3, <1>4 DEF REMInv, REMTypeOK

LEMMA PruneFailsKeeps == ASSUME REMInv, NEW a, PruneFails(a) PROVE REMInv'
<1> USE DEF REMInv
<1>1. /\ reminders' = Fired(a) /\ excused' = excused \cup DueOf(a)
      /\ stored' = (IF DueOf(a) = {} THEN stored ELSE Fired(a))
      /\ UNCHANGED <<mailboxOf, creating, madeFor, shown, ended>>
  BY DEF PruneFails
<1>2. /\ reminders' \in [Ids -> RowSet]
      /\ \A r \in DueOf(a) : reminders'[r] # NoRow /\ reminders'[r].status = "fired"
                             /\ reminders'[r].mailbox = reminders[r].mailbox /\ reminders'[r].owner \in Owners
                             /\ madeFor[r] = reminders[r].mailbox /\ madeFor[r] # Unresolved
      /\ \A r \in Ids \ DueOf(a) : reminders'[r] = reminders[r]
  BY <1>1, FiredRows, OpenIsUnanswered
<1>3. (stored' = stored /\ DueOf(a) = {}) \/ stored' = reminders'
  BY <1>1
<1>4. REMTypeOK'
  BY <1>1, <1>2, <1>3 DEF REMTypeOK
<1>5. AllSound(reminders)'
  BY <1>1, <1>2 DEF AllSound, Sound
<1>6. AllSound(stored)'
  BY <1>1, <1>3, <1>5 DEF AllSound
<1>7. OnceMade' /\ CreatesPending'
  BY <1>1 DEF OnceMade, CreatesPending
<1>8. FileAgrees' /\ NothingForgotten'
  BY <1>1, <1>2, <1>3 DEF FileAgrees, NothingForgotten
<1> QED
  BY <1>4, <1>5, <1>6, <1>7, <1>8

(* check_reminders answers what it has saved as fired.                           *)
LEMMA CheckKeeps == ASSUME REMInv, NEW a, Check(a) PROVE REMInv' /\ Surfaces
<1> USE DEF REMInv
<1> DEFINE gone == Finished(Fired(a), a)
<1>1. /\ reminders' = Without(Fired(a), gone) /\ stored' = reminders'
      /\ shown' = [r \in Ids |-> shown[r] + Cost(r \notin DueOf(a))]
      /\ UNCHANGED <<mailboxOf, creating, madeFor, ended, excused>>
  BY DEF Check
<1>2. \A r \in gone : r \in Ids /\ Fired(a)[r].status # "pending"
  BY DEF Finished, InScope
<1>3. \A r \in Ids : reminders'[r] = IF r \in gone THEN NoRow ELSE Fired(a)[r]
  BY <1>1 DEF Without
<1> HIDE DEF gone
<1>4. \A r \in Ids : shown'[r] = IF r \in DueOf(a) THEN shown[r] + 1 ELSE shown[r]
  BY <1>1 DEF Cost, REMTypeOK
<1>5. ASSUME NEW r \in DueOf(a)
      PROVE  /\ r \in Ids /\ shown'[r] = 1 /\ r \notin ended
             /\ madeFor[r] = reminders[r].mailbox /\ madeFor[r] # Unresolved /\ shown[r] = 0
             /\ mailboxOf[reminders[r].owner] = madeFor[r]
             /\ reminders'[r] = NoRow \/ (reminders'[r] = Fired(a)[r] /\ reminders'[r].status = "fired"
                                          /\ reminders'[r].owner \in Owners
                                          /\ reminders'[r].mailbox = madeFor[r])
  BY <1>3, <1>4, FiredRows, OpenIsUnanswered
<1>6. ASSUME NEW r \in Ids, r \notin DueOf(a)
      PROVE  /\ shown'[r] = shown[r]
             /\ \/ reminders'[r] = reminders[r]
                \/ reminders'[r] = NoRow /\ reminders[r].status # "pending"
  BY <1>2, <1>3, <1>4, <1>6, FiredRows
<1>7. REMTypeOK'
  <2>1. reminders' = [r \in Ids |-> reminders'[r]] /\ shown' = [r \in Ids |-> shown'[r]]
    BY <1>1 DEF Without
  <2>2. \A r \in Ids : reminders'[r] \in RowSet /\ shown'[r] \in Nat
    BY <1>3, <1>4, RowFacts, FiredRows DEF REMTypeOK
  <2> QED
    BY <1>1, <2>1, <2>2 DEF REMTypeOK
<1>8. AllSound(reminders)' /\ AllSound(stored)'
  <2> SUFFICES ASSUME NEW r \in Ids PROVE Sound(reminders[r], madeFor[r], shown[r], r \in ended)'
    BY <1>1 DEF AllSound
  <2>1. CASE r \in DueOf(a)
    BY <1>1, <1>5, <2>1, RowFacts DEF Sound
  <2>2. CASE r \notin DueOf(a)
    BY <1>1, <1>6, <2>2, RowFacts DEF AllSound, Sound
  <2> QED
    BY <2>1, <2>2
<1>9. OnceMade'
  BY <1>1, <1>5, <1>6 DEF OnceMade
<1>10. FileAgrees' /\ CreatesPending'
  BY <1>1 DEF FileAgrees, CreatesPending
<1>11. NothingForgotten'
  <2> SUFFICES ASSUME NEW r \in Ids, madeFor[r] # Unresolved, stored'[r].status # "pending",
                      r \notin ended \cup excused
               PROVE  shown'[r] > 0
    BY <1>1 DEF NothingForgotten
  <2>1. CASE r \in DueOf(a)
    BY <1>5, <2>1
  <2>2. CASE r \notin DueOf(a)
    <3>1. reminders[r].status # "pending" /\ reminders[r] = stored[r]
      BY <1>1, <1>6, <2>2 DEF FileAgrees
    <3> QED
      BY <1>6, <2>2, <3>1 DEF NothingForgotten
  <2> QED
    BY <2>1, <2>2
<1>12. Surfaces
  BY <1>5, <1>6 DEF Surfaces
<1> QED
  BY <1>7, <1>8, <1>9, <1>10, <1>11, <1>12

LEMMA RepointOwnerKeeps ==
  ASSUME REMInv, NEW a \in Owners, NEW m \in MailboxIds \cup {Unresolved}, NEW ok \in BOOLEAN, RepointOwner(a, m, ok)
  PROVE  REMInv'
<1> USE DEF REMInv
<1> DEFINE theirs == {r \in Ids : reminders[r].owner = a}
<1>1. /\ mailboxOf' = [mailboxOf EXCEPT ![a] = m]
      /\ reminders' = Without(reminders, theirs)
      /\ stored' = reminders' \/ stored' = stored
      /\ excused' = excused \cup theirs
      /\ UNCHANGED <<creating, madeFor, shown, ended>>
  BY DEF RepointOwner
<1> HIDE DEF theirs
<1>2. /\ reminders' \in [Ids -> RowSet]
      /\ \A r \in Ids : \/ reminders'[r] = NoRow /\ r \in theirs
                        \/ reminders'[r] = reminders[r] /\ r \notin theirs
  BY <1>1, RowFacts DEF Without, REMTypeOK
<1>3. REMTypeOK'
  BY <1>1, <1>2 DEF REMTypeOK
<1>4. AllSound(reminders)'
  BY <1>1, <1>2, RowFacts DEF AllSound, Sound
<1>5. AllSound(stored)'
  BY <1>1, <1>4 DEF AllSound
<1>6. OnceMade' /\ CreatesPending'
  BY <1>1 DEF OnceMade, CreatesPending
<1>7. FileAgrees' /\ NothingForgotten'
  BY <1>1, <1>2 DEF FileAgrees, NothingForgotten
<1> QED
  BY <1>3, <1>4, <1>5, <1>6, <1>7

(* A restart reads the rows of the file, gives an identity to those without and  *)
(* drops those of accounts that are another mailbox now.                         *)
LEMMA RestartKeeps ==
  ASSUME REMInv, NEW migrates \in BOOLEAN, NEW quarantines \in BOOLEAN, NEW readable \in BOOLEAN,
         Restart(migrates, quarantines, readable)
  PROVE  REMInv'
<1> USE DEF REMInv
<1> DEFINE rows == IF readable THEN stored ELSE [r \in Ids |-> NoRow]
           sound == IF migrates THEN Identified(rows) ELSE rows
           left == Without(sound, {r \in Ids : \E q \in Strangers(sound) : sound[r].owner = sound[q].owner})
<1>1. /\ reminders' = left
      /\ stored' = IF left # sound /\ quarantines THEN left ELSE IF sound # rows THEN sound ELSE stored
      /\ madeFor' = [r \in Ids |-> IF sound[r] # NoRow THEN sound[r].mailbox ELSE madeFor[r]]
      /\ excused' = excused \cup {r \in Ids : left[r] # sound[r]} \cup (IF readable THEN {} ELSE Ids)
      /\ creating' = NoRow /\ UNCHANGED <<mailboxOf, shown, ended>>
  BY DEF Restart
<1>2. rows \in [Ids -> RowSet] /\ AllSound(rows) /\ (readable => rows = stored)
      /\ (~readable => \A r \in Ids : rows[r] = NoRow)
  BY RowFacts DEF REMTypeOK, AllSound, Sound
<1> HIDE DEF rows
<1>3. /\ sound \in [Ids -> RowSet]
      /\ \A r \in Ids : \/ sound[r] = rows[r]
                        \/ /\ rows[r] # NoRow /\ rows[r].mailbox = Unresolved
                           /\ sound[r] # NoRow /\ sound[r].status = rows[r].status
                           /\ sound[r].owner \in Owners
                           /\ sound[r].mailbox \in MailboxIds \cup {Unresolved}
  <2>1. CASE ~migrates
    BY <1>2, <2>1
  <2>2. CASE migrates
    <3>1. sound = Identified(rows)
      BY <2>2
    <3>2. ASSUME NEW r \in Ids, r \in Unidentified(rows)
          PROVE  /\ rows[r] # NoRow /\ rows[r].mailbox = Unresolved /\ rows[r].status = "pending"
                 /\ sound[r] \in RowSet /\ sound[r].status = rows[r].status /\ sound[r] # NoRow
                 /\ sound[r].owner \in Owners
      <4>1. /\ rows[r] # NoRow /\ rows[r].owner \in Owners
            /\ rows[r].mailbox = Unresolved /\ rows[r].status = "pending"
        BY <1>2, <3>2 DEF Unidentified, AllSound, Sound
      <4>2. sound[r] = [rows[r] EXCEPT !.mailbox = mailboxOf[rows[r].owner]]
        BY <3>1, <3>2 DEF Identified
      <4>3. mailboxOf[rows[r].owner] \in MailboxIds \cup {Unresolved}
        BY <4>1 DEF REMTypeOK
      <4> QED
        BY <1>2, <4>1, <4>2, <4>3, RowFacts DEF RowSet
    <3>3. \A r \in Ids : r \notin Unidentified(rows) => sound[r] = rows[r]
      BY <3>1 DEF Identified
    <3>4. sound = [r \in Ids |-> sound[r]]
      BY <3>1 DEF Identified
    <3> QED
      BY <1>2, <3>2, <3>3, <3>4 DEF RowSet
  <2> QED
    BY <2>1, <2>2
<1> HIDE DEF sound
<1>4. left \in [Ids -> RowSet] /\ \A r \in Ids : left[r] = sound[r] \/ left[r] = NoRow
  BY <1>3, RowFacts DEF Without
<1> HIDE DEF left
<1>5. /\ stored' = left \/ stored' = sound \/ (stored' = stored /\ sound = rows)
      /\ stored' = left \/ \A r \in Ids : left[r] = sound[r] \/ r \in excused'
  BY <1>1
<1>6. ASSUME NEW r \in Ids
      PROVE  /\ madeFor'[r] = (IF sound[r] # NoRow THEN sound[r].mailbox ELSE madeFor[r])
             /\ rows[r] # NoRow => madeFor[r] = rows[r].mailbox
             /\ rows[r].status = "pending" => shown[r] = 0 /\ r \notin ended
             /\ sound[r] # NoRow /\ sound[r].mailbox = Unresolved => sound[r].status = "pending"
             /\ sound[r].status = rows[r].status /\ (sound[r] # NoRow => sound[r].owner \in Owners)
  BY <1>1, <1>2, <1>3 DEF AllSound, Sound
<1>7. \A r \in Ids : /\ Sound(sound[r], madeFor'[r], shown[r], r \in ended)
                     /\ Sound(left[r], madeFor'[r], shown[r], r \in ended)
  BY <1>4, <1>6, RowFacts DEF Sound
<1>8. REMTypeOK'
  <2>1. \A r \in Ids : madeFor'[r] \in MailboxIds \cup {Unresolved}
    BY <1>3, <1>6 DEF REMTypeOK, RowSet
  <2> QED
    BY <1>1, <1>3, <1>4, <1>5, <2>1, RowFacts DEF REMTypeOK
<1>9. AllSound(reminders)' /\ AllSound(stored)'
  <2>1. CASE stored' = left \/ stored' = sound
    BY <1>1, <1>7, <2>1 DEF AllSound
  <2>2. CASE stored' = stored /\ sound = rows
    <3>1. \A r \in Ids : madeFor'[r] = madeFor[r]
      BY <1>6, <2>2
    <3> QED
      BY <1>1, <1>7, <2>2, <3>1 DEF AllSound
  <2> QED
    BY <1>5, <2>1, <2>2
<1>10. OnceMade' /\ CreatesPending'
  <2>1. ASSUME NEW r \in Ids, madeFor[r] # Unresolved PROVE madeFor'[r] # Unresolved
    BY <1>3, <1>6, <2>1
  <2> QED
    BY <1>1, <2>1 DEF OnceMade, CreatesPending
<1>11. ASSUME NEW r \in Ids, r \notin excused'
       PROVE  reminders'[r] = stored'[r] /\ stored'[r] = sound[r] /\ rows[r] = stored[r]
  BY <1>1, <1>2, <1>5, <1>11
<1>12. FileAgrees'
  BY <1>11 DEF FileAgrees
<1>13. NothingForgotten'
  <2> SUFFICES ASSUME NEW r \in Ids, madeFor'[r] # Unresolved, stored'[r].status # "pending",
                      r \notin ended \cup excused'
               PROVE  shown[r] > 0
    BY <1>1 DEF NothingForgotten
  <2>1. stored[r].status # "pending" /\ r \notin excused
    BY <1>1, <1>6, <1>11
  <2>2. madeFor[r] # Unresolved
    BY <1>2, <1>3, <1>6, <1>11, <2>1 DEF AllSound, Sound
  <2> QED
    BY <2>1, <2>2 DEF NothingForgotten
<1> QED
  BY <1>8, <1>9, <1>10, <1>12, <1>13

(* Every step keeps the invariant, and what it answers may be answered.          *)
LEMMA REMNextKeeps == REMInv /\ [REMNext]_rem_vars => REMInv' /\ Surfaces
<1> SUFFICES ASSUME REMInv, [REMNext]_rem_vars PROVE REMInv' /\ Surfaces
  OBVIOUS
<1>1. ASSUME NEW a \in Owners, Remind(a) \/ ScanFails(a) PROVE REMInv' /\ Surfaces
  <2>1. creating' \in RowSet /\ CreatesPending'
    BY <1>1, RowFacts DEF Remind, ScanFails, REMInv, REMTypeOK, CreatesPending
  <2>2. UNCHANGED <<reminders, stored, mailboxOf, madeFor, shown, ended, excused>>
    BY <1>1 DEF Remind, ScanFails
  <2> QED
    BY <2>1, <2>2 DEF REMInv, REMTypeOK, AllSound, OnceMade, FileAgrees, NothingForgotten, Surfaces
<1>2. ASSUME NEW a \in Owners, PruneFails(a) PROVE REMInv' /\ Surfaces
  BY <1>2, PruneFailsKeeps DEF PruneFails, Surfaces
<1>3. ASSUME NEW a \in Owners, Check(a) PROVE REMInv' /\ Surfaces
  BY <1>3, CheckKeeps
<1>4. ASSUME NEW a \in Owners, NEW ok \in BOOLEAN, detectRepliesAndCancel(a, ok) PROVE REMInv' /\ Surfaces
  <2>1. PICK S \in SUBSET Open(reminders, a) :
          /\ persistOrRollback(Marked(reminders, S, "cancelled"), ok)
          /\ ended' = (IF ok THEN ended \cup S ELSE ended)
          /\ UNCHANGED <<mailboxOf, creating, madeFor, shown, excused>>
    BY <1>4 DEF detectRepliesAndCancel
  <2>2. REMInv'
    BY <2>1, cancelKeeps
  <2> QED
    BY <2>1, <2>2 DEF Surfaces
<1>5. ASSUME NEW a \in Owners, NEW ok \in BOOLEAN, NEW r \in Ids, cancel(r, a, ok) PROVE REMInv' /\ Surfaces
  <2>1. /\ {r} \in SUBSET Open(reminders, a)
        /\ persistOrRollback(Marked(reminders, {r}, "cancelled"), ok)
        /\ ended' = (IF ok THEN ended \cup {r} ELSE ended)
        /\ UNCHANGED <<mailboxOf, creating, madeFor, shown, excused>>
    BY <1>5 DEF cancel
  <2>2. REMInv'
    BY <2>1, cancelKeeps
  <2> QED
    BY <2>1, <2>2 DEF Surfaces
<1>6. ASSUME NEW a \in Owners, NEW m \in MailboxIds \cup {Unresolved}, NEW ok \in BOOLEAN, RepointOwner(a, m, ok)
      PROVE  REMInv' /\ Surfaces
  BY <1>6, RepointOwnerKeeps DEF RepointOwner, Surfaces
<1>7. ASSUME NEW r \in Ids, NEW ok \in BOOLEAN, Add(r, ok) PROVE REMInv' /\ Surfaces
  BY <1>7, AddKeeps DEF Add, Surfaces
<1>8. ASSUME NEW migrates \in BOOLEAN, NEW quarantines \in BOOLEAN, NEW readable \in BOOLEAN,
             Restart(migrates, quarantines, readable)
      PROVE  REMInv' /\ Surfaces
  <2>1. shown' = shown
    BY <1>8 DEF Restart
  <2> QED
    BY <1>8, <2>1, RestartKeeps DEF Surfaces
<1>9. ASSUME (\E r \in Ids : Later(r)) \/ UNCHANGED rem_vars PROVE REMInv' /\ Surfaces
  BY <1>9 DEF Later, rem_vars, REMInv, REMTypeOK, AllSound, OnceMade, FileAgrees, CreatesPending,
              NothingForgotten, Surfaces
<1> QED
  BY <1>1, <1>2, <1>3, <1>4, <1>5, <1>6, <1>7, <1>8, <1>9 DEF REMNext

(* A promised reminder stays in the file as pending until it is answered or      *)
(* ended: for any number of accounts, mailboxes, reminders and troubles.         *)
THEOREM RemindersAreKept == REMSpec => []NothingForgotten
<1>1. REMInv => NothingForgotten
  BY DEF REMInv
<1> QED
  BY <1>1, REMInitHolds, REMNextKeeps, PTL DEF REMSpec

(* A reminder is answered at most once, not after it was cancelled or replied    *)
(* to, and only while its account is the mailbox it was made for.                *)
THEOREM RemindersSurfaceOnce == REMSpec => SurfacesOnce
BY REMInitHolds, REMNextKeeps, PTL DEF REMSpec, SurfacesOnce

------------------------------------------------------------------------------
(* Mailboxes created, renamed and deleted                                       *)

Deeds == {"create", "ensure", "delete", "rename"}
OwnDeeds == {"created", "deleted", "renamed"}
FolderAnswers ==
  OwnDeeds \cup {"none", "ensured", "protected", "error", "exists", "missing", "listed"}
Names == Paths \cup {NoPath}
FolderRow ==
  [op : Deeds \cup {"none", "list"}, path : Names, to : Names,
   at : {"idle", "connecting", "listing", "probing", "ready", "carried", "answered"},
   why : {"none", "protect", "conflict", "answer"}, listed : SUBSET Names, did : BOOLEAN,
   outcome : {"none", "done", "already", "clash", "code", "missing", "no"}, answer : FolderAnswers]

Asking == {"connecting", "listing", "probing"}
Commanded == {"ready", "carried"}

(* A command that changes a mailbox is about one of the user's; a listing is    *)
(* complete as far as the system's go; and success was the call's own.          *)
CallSound(k) ==
  /\ k \in FolderRow
  /\ k.at \in Commanded =>
       k.op \in Deeds /\ (k.op \in {"delete", "rename"} => k.path \notin System)
  /\ k.at \in Asking =>
       k.why # "none" /\ (k.why = "protect" => k.op \in {"delete", "rename"})
  /\ k.at = "probing" => System \subseteq k.listed
  /\ k.at = "carried" =>
       /\ k.outcome = "done" => k.did
       /\ k.outcome # "none" /\ (k.op = "delete" => k.outcome \in {"done", "missing", "no"})
  /\ k.answer # "none" => k.at = "answered"
  /\ k.answer = "listed" => System \subseteq k.listed
  /\ k.answer \in OwnDeeds => k.did

Whole(folders) == folders \subseteq Names /\ (folders = {} \/ System \subseteq folders)

FoldersSound ==
  /\ server \subseteq Names /\ System \subseteq server
  /\ Whole(cache)
  /\ call \in [FolderCalls -> FolderRow]
  /\ \A c \in FolderCalls : CallSound(call[c])

LEMMA IdleRow == Idle \in FolderRow /\ CallSound(Idle)
BY DEF Idle, FolderRow, CallSound, FolderAnswers, OwnDeeds, Deeds, Names, Commanded, Asking

LEMMA AnsweredRow ==
  ASSUME NEW k \in FolderRow, NEW a \in FolderAnswers
  PROVE  LET x == Answered(k, a)
         IN  /\ x \in FolderRow /\ x.at = "answered" /\ x.answer = a /\ x.did = k.did
BY DEF Answered, Idle, FolderRow, Deeds, Names

LEMMA AnsweredSound ==
  ASSUME NEW k \in FolderRow, NEW a \in FolderAnswers, a # "listed", a \in OwnDeeds => k.did
  PROVE  CallSound(Answered(k, a))
BY AnsweredRow DEF CallSound, Commanded, Asking

LEMMA ListedSound ==
  ASSUME NEW k \in FolderRow, NEW folders \in SUBSET Names, System \subseteq folders
  PROVE  CallSound([Answered(k, "listed") EXCEPT !.listed = folders])
<1> DEFINE x == Answered(k, "listed")
           y == [x EXCEPT !.listed = folders]
<1>1. x \in FolderRow /\ x.at = "answered" /\ x.answer = "listed"
  BY AnsweredRow DEF FolderAnswers
<1> HIDE DEF x
<1>2. y \in FolderRow /\ y.at = "answered" /\ y.answer = "listed" /\ y.listed = folders
  BY <1>1 DEF FolderRow
<1> HIDE DEF y
<1>3. CallSound(y)
  BY <1>2 DEF CallSound, Commanded, Asking, OwnDeeds
<1> QED
  BY <1>3 DEF x, y

LEMMA ReadySound ==
  ASSUME NEW k, CallSound(k), k.at # "answered", k.op \in Deeds, k.op \in {"delete", "rename"} => k.path \notin System
  PROVE  CallSound([k EXCEPT !.at = "ready"]) /\ CallSound([k EXCEPT !.at = "ready", !.why = "none"])
<1>1. [k EXCEPT !.at = "ready"] \in FolderRow /\ [k EXCEPT !.at = "ready", !.why = "none"] \in FolderRow
  BY DEF FolderRow, CallSound
<1> QED
  BY <1>1 DEF CallSound, Commanded, Asking, FolderRow

LEMMA AsksSound ==
  ASSUME NEW k, CallSound(k), k.at # "answered", NEW at \in {"connecting", "listing"}, k.why # "none",
         k.why = "protect" => k.op \in {"delete", "rename"}
  PROVE  CallSound([k EXCEPT !.at = at])
<1>1. [k EXCEPT !.at = at] \in FolderRow
  BY DEF FolderRow, CallSound
<1> QED
  BY <1>1 DEF CallSound, Commanded, Asking, FolderRow

LEMMA WhySound ==
  ASSUME NEW k, CallSound(k), k.at # "answered", k.at \notin Asking, NEW why \in {"protect", "conflict", "answer"}
  PROVE  LET x == [k EXCEPT !.why = why]
         IN  CallSound(x) /\ x.why = why /\ x.op = k.op /\ x.path = k.path /\ x.at = k.at
<1>1. [k EXCEPT !.why = why] \in FolderRow
  BY DEF FolderRow, CallSound
<1> QED
  BY <1>1 DEF CallSound, Commanded, Asking, FolderRow

(* A call goes on soundly with any whole listing, and with none.                *)
LEMMA WithFoldersSound ==
  ASSUME NEW k, CallSound(k), k.at # "answered", k.why # "none", k.why = "protect" => k.op \in {"delete", "rename"},
         NEW folders, Whole(folders)
  PROVE  CallSound(WithFolders(k, folders))
<1>1. k \in FolderRow /\ k.why \in {"protect", "conflict", "answer"}
  BY DEF CallSound, FolderRow
<1>2. CASE k.why = "protect"
  <2>1. WithFolders(k, folders) = Protects(k, folders)
    BY <1>2 DEF WithFolders
  <2>2. CASE folders = {} \/ k.path \in folders \cap System \/ (k.op = "rename" /\ k.to \in Reserved)
    <3>1. PICK a \in {"error", "protected"} : Protects(k, folders) = Answered(k, a)
      BY <2>2 DEF Protects
    <3> QED
      BY <1>1, <2>1, <3>1, AnsweredSound DEF FolderAnswers, OwnDeeds
  <2>3. CASE ~(folders = {} \/ k.path \in folders \cap System \/ (k.op = "rename" /\ k.to \in Reserved))
    <3>1. Protects(k, folders) = [k EXCEPT !.at = "ready", !.why = "none"]
      BY <2>3 DEF Protects
    <3>2. k.path \notin System /\ k.op \in Deeds
      BY <1>2, <2>3 DEF Whole, Deeds
    <3>3. CallSound([k EXCEPT !.at = "ready", !.why = "none"])
      BY <3>2, ReadySound
    <3> QED
      BY <2>1, <3>1, <3>3
  <2> QED
    BY <2>2, <2>3
<1>3. CASE k.why = "conflict"
  <2>1. PICK a \in {"exists", "error"} : WithFolders(k, folders) = Answered(k, a)
    BY <1>3 DEF WithFolders
  <2> QED
    BY <1>1, <2>1, AnsweredSound DEF FolderAnswers, OwnDeeds
<1>4. CASE k.why = "answer" /\ folders # {}
  <2>1. WithFolders(k, folders) = [Answered(k, "listed") EXCEPT !.listed = folders]
    BY <1>4 DEF WithFolders
  <2> QED
    BY <1>1, <1>4, <2>1, ListedSound DEF Whole
<1>5. CASE k.why = "answer" /\ folders = {}
  <2> DEFINE x == Answered(k, "error")
  <2>1. WithFolders(k, folders) = [x EXCEPT !.listed = folders]
    BY <1>5 DEF WithFolders
  <2>2. x \in FolderRow /\ x.at = "answered" /\ x.answer = "error"
    BY <1>1, AnsweredRow DEF FolderAnswers
  <2> HIDE DEF x
  <2>3. [x EXCEPT !.listed = folders] \in FolderRow
    BY <2>2 DEF FolderRow, Whole
  <2>4. CallSound([x EXCEPT !.listed = folders])
    BY <2>2, <2>3 DEF CallSound, Commanded, Asking, OwnDeeds, FolderRow
  <2> QED
    BY <2>1, <2>4
<1> QED
  BY <1>1, <1>2, <1>3, <1>4, <1>5

LEMMA GetFoldersSound ==
  ASSUME NEW k, CallSound(k), k.at # "answered", k.at \notin Asking, NEW why \in {"protect", "conflict", "answer"},
         why = "protect" => k.op \in {"delete", "rename"}, NEW known, NEW young, Whole(known)
  PROVE  CallSound(getFolders(k, why, known, young))
<1> DEFINE asks == [k EXCEPT !.why = why]
<1>1. CallSound(asks) /\ asks.why = why /\ asks.op = k.op /\ asks.at = k.at
  BY WhySound
<1>2. \/ getFolders(k, why, known, young) = WithFolders(asks, known)
      \/ getFolders(k, why, known, young) = [asks EXCEPT !.at = "listing"]
      \/ getFolders(k, why, known, young) = [asks EXCEPT !.at = "connecting"]
  BY DEF getFolders
<1> HIDE DEF asks
<1>3. CallSound(WithFolders(asks, known))
  BY <1>1, WithFoldersSound
<1>4. CallSound([asks EXCEPT !.at = "listing"]) /\ CallSound([asks EXCEPT !.at = "connecting"])
  BY <1>1, AsksSound
<1> QED
  BY <1>2, <1>3, <1>4

LEMMA FailedSound ==
  ASSUME NEW k, CallSound(k), k.at \in Commanded, k.outcome \notin {"none", "done"},
         k.op = "delete" => k.outcome \in {"missing", "no"}, Whole(cache)
  PROVE  CallSound(Failed(k))
<1>1. k \in FolderRow /\ k.op \in Deeds /\ k.outcome \in {"already", "clash", "code", "missing", "no"}
  BY DEF CallSound, FolderRow
<1>2. CASE k.op = "ensure"
  <2>1. PICK a \in {"ensured", "error"} : Failed(k) = Answered(k, a)
    BY <1>2 DEF Failed
  <2> QED
    BY <1>1, <2>1, AnsweredSound DEF FolderAnswers, OwnDeeds
<1>3. CASE k.op # "ensure" /\ k.outcome = "missing"
  <2>1. Failed(k) = Answered(k, "missing")
    BY <1>1, <1>3 DEF Failed, Deeds
  <2> QED
    BY <1>1, <2>1, AnsweredSound DEF FolderAnswers, OwnDeeds
<1>4. CASE k.op \in {"create", "rename"} /\ k.outcome \in {"already", "clash", "code"}
  <2>1. Failed(k) = Answered(k, "exists")
    BY <1>1, <1>4 DEF Failed, Deeds
  <2> QED
    BY <1>1, <2>1, AnsweredSound DEF FolderAnswers, OwnDeeds
<1>5. CASE k.op \in {"create", "rename"} /\ k.outcome = "no"
  <2>1. Failed(k) = getFolders(k, "conflict", cache, fresh)
    BY <1>1, <1>5 DEF Failed, Deeds
  <2>2. k.at \notin Asking /\ k.at # "answered"
    BY DEF Asking, Commanded
  <2> QED
    BY <2>1, <2>2, GetFoldersSound
<1>6. CASE k.op = "delete" /\ k.outcome = "no"
  <2>1. Failed(k) = Answered(k, "error")
    BY <1>1, <1>6 DEF Failed, Deeds
  <2> QED
    BY <1>1, <2>1, AnsweredSound DEF FolderAnswers, OwnDeeds
<1> QED
  BY <1>1, <1>2, <1>3, <1>4, <1>5, <1>6 DEF Deeds

(* One call is changed, the others stay sound.                                  *)
LEMMA SetSound ==
  ASSUME FoldersSound, NEW c \in FolderCalls, NEW k, CallSound(k), Set(c, k)
  PROVE  call' \in [FolderCalls -> FolderRow] /\ \A d \in FolderCalls : CallSound(call'[d])
<1>1. call' = [call EXCEPT ![c] = k] /\ k \in FolderRow
  BY DEF Set, CallSound
<1> QED
  BY <1>1 DEF FoldersSound

(* A step that changes one call, in the terms of what it makes of it.           *)
LEMMA StepOfOne ==
  ASSUME FoldersSound, NEW c \in FolderCalls, NEW k, CallSound(k), Set(c, k),
         server' \subseteq Names /\ System \subseteq server', Whole(cache')
  PROVE  FoldersSound'
BY SetSound DEF FoldersSound, CallSound, Whole

LEMMA ResetSound == Whole({})
BY DEF Whole

LEMMA CreateSound == ASSUME FoldersSound, NEW c \in FolderCalls, Create(c) PROVE FoldersSound'
<1>1. PICK deed \in {"create", "ensure"}, path \in Own :
        LET k == [Idle EXCEPT !.op = deed, !.path = path]
        IN  Set(c, IF up THEN [k EXCEPT !.at = "ready"] ELSE Answered(k, "error"))
  BY DEF Create
<1> DEFINE k == [Idle EXCEPT !.op = deed, !.path = path]
<1>2. k \in FolderRow /\ k.op = deed /\ k.path = path /\ k.at = "idle" /\ k.answer = "none"
  BY DEF Idle, FolderRow, FolderAnswers, Deeds, Paths, Names
<1>3. Set(c, [k EXCEPT !.at = "ready"]) \/ Set(c, Answered(k, "error"))
  BY <1>1
<1> HIDE DEF k
<1>4. CallSound(k)
  BY <1>2 DEF CallSound, Commanded, Asking, OwnDeeds
<1>5. CallSound([k EXCEPT !.at = "ready"])
  BY <1>2, <1>4, ReadySound DEF Deeds
<1>6. CallSound(Answered(k, "error"))
  BY <1>2, AnsweredSound DEF FolderAnswers, OwnDeeds
<1>7. server' \subseteq Names /\ System \subseteq server' /\ Whole(cache')
  BY DEF Create, FoldersSound
<1> QED
  BY <1>3, <1>5, <1>6, <1>7, StepOfOne

LEMMA ChangeSound == ASSUME FoldersSound, NEW c \in FolderCalls, Change(c) PROVE FoldersSound'
<1>1. PICK path \in Paths, to \in Paths \cup {NoPath} :
        LET k == [Idle EXCEPT !.op = IF to = NoPath THEN "delete" ELSE "rename",
                              !.path = path, !.to = to]
        IN  Set(c, IF ~up THEN Answered(k, "error")
                   ELSE IF path \in Reserved THEN Answered(k, "protected")
                   ELSE getFolders(k, "protect", cache, fresh))
  BY DEF Change
<1> DEFINE deed == IF to = NoPath THEN "delete" ELSE "rename"
           k == [Idle EXCEPT !.op = deed, !.path = path, !.to = to]
<1>2. deed \in {"delete", "rename"}
  OBVIOUS
<1>3. \/ Set(c, Answered(k, "error")) \/ Set(c, Answered(k, "protected"))
      \/ Set(c, getFolders(k, "protect", cache, fresh))
  BY <1>1
<1> HIDE DEF deed
<1>8. k \in FolderRow /\ k.op = deed /\ k.at = "idle" /\ k.answer = "none"
  BY <1>2 DEF Idle, FolderRow, FolderAnswers, Deeds, Names
<1> HIDE DEF k
<1>4. CallSound(k)
  BY <1>8 DEF CallSound, Commanded, Asking, OwnDeeds
<1>5. CallSound(Answered(k, "error")) /\ CallSound(Answered(k, "protected"))
  BY <1>8, AnsweredSound DEF FolderAnswers, OwnDeeds
<1>6. CallSound(getFolders(k, "protect", cache, fresh))
  BY <1>2, <1>4, <1>8, GetFoldersSound DEF Asking, FoldersSound
<1>7. server' \subseteq Names /\ System \subseteq server' /\ Whole(cache')
  BY DEF Change, FoldersSound
<1> QED
  BY <1>3, <1>5, <1>6, <1>7, StepOfOne

LEMMA ListSound ==
  ASSUME FoldersSound, NEW c \in FolderCalls, List(c) \/ syncFolders(c) PROVE FoldersSound'
<1> DEFINE k == [Idle EXCEPT !.op = "list"]
<1>1. k \in FolderRow /\ k.op = "list" /\ k.at = "idle" /\ k.answer = "none"
  BY DEF Idle, FolderRow, FolderAnswers, Names
<1>2. \/ Set(c, getFolders(k, "answer", cache, fresh)) /\ UNCHANGED <<server, cache>>
      \/ Set(c, getFolders(k, "answer", {}, FALSE)) /\ UNCHANGED server /\ cache' = {}
  BY DEF List, syncFolders, clearFolderCache
<1> HIDE DEF k
<1>3. CallSound(k)
  BY <1>1 DEF CallSound, Commanded, Asking, OwnDeeds
<1>4. Whole(cache) /\ server \subseteq Names /\ System \subseteq server
  BY DEF FoldersSound
<1>5. CallSound(getFolders(k, "answer", cache, fresh))
  BY <1>1, <1>3, <1>4, GetFoldersSound DEF Asking
<1>6. CASE Set(c, getFolders(k, "answer", cache, fresh)) /\ UNCHANGED <<server, cache>>
  BY <1>4, <1>5, <1>6, StepOfOne
<1>7. CASE Set(c, getFolders(k, "answer", {}, FALSE)) /\ UNCHANGED server /\ cache' = {}
  <2>1. \A young : CallSound(getFolders(k, "answer", {}, young))
    BY <1>1, <1>3, ResetSound, GetFoldersSound DEF Asking
  <2>2. CallSound(getFolders(k, "answer", {}, FALSE))
    BY <2>1, Zenon
  <2> QED
    BY <1>4, <1>7, <2>2, ResetSound, StepOfOne
<1> QED
  BY <1>2, <1>6, <1>7

LEMMA ListingSound ==
  ASSUME FoldersSound, NEW c \in FolderCalls, ensureConnection(c) \/ Listed(c) \/ Probed(c)
  PROVE  FoldersSound'
<1> DEFINE k == call[c]
<1>1. CallSound(k) /\ k \in FolderRow /\ Whole(cache) /\ server \subseteq Names /\ System \subseteq server
  BY DEF FoldersSound
<1>2. k.at \in Asking /\ k.at # "answered" /\ k.why # "none" /\ (k.why = "protect" => k.op \in {"delete", "rename"})
  BY <1>1 DEF ensureConnection, Listed, Probed, Asking, CallSound
<1>3. CASE ensureConnection(c)
  <2>1. Set(c, [k EXCEPT !.at = "listing"]) \/ Set(c, WithFolders(k, cache))
    BY <1>3 DEF ensureConnection
  <2>2. CallSound([k EXCEPT !.at = "listing"]) /\ CallSound(WithFolders(k, cache))
    BY <1>1, <1>2, AsksSound, WithFoldersSound
  <2>3. UNCHANGED <<server, cache>>
    BY <1>3 DEF ensureConnection
  <2> QED
    BY <1>1, <2>1, <2>2, <2>3, StepOfOne
<1>4. CASE Listed(c)
  <2> DEFINE x == [k EXCEPT !.at = "probing", !.listed = server]
  <2>1. x \in FolderRow
    BY <1>1 DEF FolderRow
  <2>2. CallSound(x)
    BY <1>1, <1>2, <2>1 DEF CallSound, Commanded, Asking, FolderRow
  <2>3. Set(c, x) /\ UNCHANGED <<server, cache>>
    BY <1>4 DEF Listed
  <2> QED
    BY <1>1, <2>2, <2>3, StepOfOne
<1>5. CASE Probed(c)
  <2> DEFINE x == [k EXCEPT !.at = "listing", !.listed = {}]
  <2>1. k.at = "probing" /\ System \subseteq k.listed /\ k.listed \subseteq Names
    BY <1>1, <1>5 DEF Probed, CallSound, FolderRow
  <2>2. /\ Set(c, WithFolders(x, k.listed))
        /\ cache' = cache \cup k.listed /\ UNCHANGED server
    BY <1>5 DEF Probed
  <2>3. x \in FolderRow
    BY <1>1 DEF FolderRow
  <2>4. CallSound(x) /\ x.why = k.why /\ x.op = k.op /\ x.at = "listing"
    BY <1>1, <1>2, <2>1, <2>3, FoldersAssumption DEF CallSound, Commanded, Asking, FolderRow, OwnDeeds
  <2>5. Whole(k.listed) /\ Whole(cache')
    BY <1>1, <2>1, <2>2 DEF Whole
  <2> HIDE DEF x
  <2>6. CallSound(WithFolders(x, k.listed))
    BY <1>2, <2>4, <2>5, WithFoldersSound
  <2> QED
    BY <1>1, <2>2, <2>5, <2>6, StepOfOne
<1> QED
  BY <1>3, <1>4, <1>5

LEMMA CarrySound == ASSUME FoldersSound, NEW c \in FolderCalls, Carry(c) PROVE FoldersSound'
<1> DEFINE k == call[c]
           creates == k.op \in {"create", "ensure"}
           others == server \ {k.path}
<1>1. CallSound(k) /\ k \in FolderRow /\ Whole(cache) /\ server \subseteq Names /\ System \subseteq server
  BY DEF FoldersSound
<1>2. PICK result \in {"done", "already", "clash", "code", "missing", "no"} :
        /\ result = "already" <=> creates /\ NewName(k) \in server
        /\ result \in {"clash", "code"} => k.op # "delete" /\ InUse(NewName(k), others)
        /\ result = "missing" => ~creates /\ k.path \notin server
        /\ result = "done" =>
             \/ creates /\ ~InUse(NewName(k), others)
             \/ k.path \in server /\ (k.op = "rename" => ~InUse(NewName(k), others))
        /\ server' = IF result # "done" THEN server
                     ELSE IF creates THEN server \cup {NewName(k)}
                     ELSE IF k.op = "rename" THEN others \cup {NewName(k)}
                     ELSE others
        /\ Set(c, [k EXCEPT !.at = "carried", !.did = (result = "done"), !.outcome = result])
  BY DEF Carry
<1>3. k.at = "ready" /\ cache' = cache
  BY DEF Carry
<1> DEFINE did == result = "done"
           x == [k EXCEPT !.at = "carried", !.did = did, !.outcome = result]
<1>4. did \in BOOLEAN
  BY Zenon
<1>5. (result = "done" => did) /\ (result # "none")
  OBVIOUS
<1> HIDE DEF did
<1>6. x \in FolderRow
  BY <1>1, <1>4 DEF FolderRow
<1>7. k.op \in Deeds /\ k.answer = "none" /\ (k.op \in {"delete", "rename"} => k.path \notin System)
  BY <1>1, <1>3 DEF CallSound, Commanded
<1>8. k.op = "delete" => result \in {"done", "missing", "no"}
  BY <1>2
<1>9. CallSound(x)
  BY <1>1, <1>5, <1>6, <1>7, <1>8 DEF CallSound, Commanded, Asking, FolderRow, OwnDeeds
<1>10. k.path \in Names /\ NewName(k) \in Names
  BY <1>1 DEF FolderRow, NewName
<1>11. server' \subseteq Names /\ System \subseteq server'
  <2>1. ~creates => System \subseteq others
    BY <1>1, <1>7 DEF Deeds
  <2> QED
    BY <1>1, <1>2, <1>10, <2>1
<1>12. Set(c, x)
  BY <1>2 DEF did
<1> QED
  BY <1>1, <1>3, <1>9, <1>11, <1>12, StepOfOne

LEMMA ReturnSound == ASSUME FoldersSound, NEW c \in FolderCalls, Return(c) PROVE FoldersSound'
<1> DEFINE k == call[c]
<1>1. CallSound(k) /\ k \in FolderRow /\ Whole(cache) /\ server \subseteq Names /\ System \subseteq server
  BY DEF FoldersSound
<1>2. k.at = "carried" /\ k.outcome # "none" /\ server' = server /\ (k.op = "delete" => k.outcome \in {"done", "missing", "no"})
  BY <1>1 DEF Return, CallSound
<1>3. k.op \in Deeds
  BY <1>1, <1>2 DEF CallSound, Commanded
<1>4. CASE Succeeded(k)
  <2>1. Set(c, Answered(k, Deed(k))) /\ cache' = {}
    BY <1>4 DEF Return, clearFolderCache
  <2>2. Deed(k) \in OwnDeeds \cup {"ensured"} /\ (Deed(k) \in OwnDeeds => k.op # "ensure")
    BY <1>3 DEF Deed, Deeds, OwnDeeds
  <2>3. Deed(k) \in OwnDeeds => k.did
    BY <1>1, <1>2, <1>4, <2>2 DEF Succeeded, CallSound
  <2>4. CallSound(Answered(k, Deed(k)))
    BY <1>1, <2>2, <2>3, AnsweredSound DEF FolderAnswers, OwnDeeds
  <2> QED
    BY <1>1, <1>2, <2>1, <2>4, ResetSound, StepOfOne
<1>5. CASE ~Succeeded(k)
  <2>1. Set(c, Failed(k)) /\ cache' = cache
    BY <1>5 DEF Return
  <2>2. k.outcome \notin {"none", "done"}
    BY <1>2, <1>5 DEF Succeeded
  <2>3. CallSound(Failed(k))
    BY <1>1, <1>2, <2>2, FailedSound DEF Commanded
  <2> QED
    BY <1>1, <1>2, <2>1, <2>3, StepOfOne
<1> QED
  BY <1>4, <1>5

LEMMA CutSound == ASSUME FoldersSound, NEW c \in FolderCalls, Cut(c) PROVE FoldersSound'
<1> DEFINE k == call[c]
<1>1. CallSound(k) /\ k \in FolderRow /\ Whole(cache) /\ server \subseteq Names /\ System \subseteq server
  BY DEF FoldersSound
<1>2. UNCHANGED <<server, cache>>
  BY DEF Cut
<1>3. CASE k.at = "listing"
  <2>1. Set(c, WithFolders(k, {}))
    BY <1>3 DEF Cut
  <2>2. CallSound(WithFolders(k, {}))
    BY <1>1, <1>3, ResetSound, WithFoldersSound DEF CallSound, Asking
  <2> QED
    BY <1>1, <1>2, <2>1, <2>2, StepOfOne
<1>4. CASE k.at # "listing"
  <2> DEFINE x == [k EXCEPT !.outcome = "no"]
  <2>1. Set(c, Failed(x)) /\ k.at \in Commanded
    BY <1>4 DEF Cut, Commanded
  <2>2. x \in FolderRow /\ x.outcome = "no" /\ x.at = k.at
    BY <1>1 DEF FolderRow
  <2>3. CallSound(x)
    BY <1>1, <2>1, <2>2 DEF CallSound, Commanded, Asking, FolderRow
  <2> HIDE DEF x
  <2>4. CallSound(Failed(x))
    BY <1>1, <2>1, <2>2, <2>3, FailedSound
  <2> QED
    BY <1>1, <1>2, <2>1, <2>4, StepOfOne
<1> QED
  BY <1>3, <1>4

LEMMA LateSound == ASSUME FoldersSound, NEW c \in FolderCalls, Late(c) \/ Leaves(c) PROVE FoldersSound'
<1>1. CallSound(call[c]) /\ call[c] \in FolderRow /\ Whole(cache) /\ server \subseteq Names /\ System \subseteq server
  BY DEF FoldersSound
<1>2. (Set(c, Answered(call[c], "error")) \/ Set(c, Idle)) /\ UNCHANGED <<server, cache>>
  BY DEF Late, Leaves
<1>3. CallSound(Answered(call[c], "error")) /\ CallSound(Idle)
  BY <1>1, IdleRow, AnsweredSound DEF FolderAnswers, OwnDeeds
<1> QED
  BY <1>1, <1>2, <1>3, StepOfOne

LEMMA AroundSound == ASSUME FoldersSound, Expire \/ Lose \/ Reconnect \/ Elsewhere PROVE FoldersSound'
<1>1. call' = call /\ cache' = cache
  BY DEF Expire, Lose, Reconnect, Elsewhere
<1>2. server' \subseteq Names /\ System \subseteq server'
  <2>1. CASE Elsewhere
    BY <2>1, FoldersAssumption DEF Elsewhere, FoldersSound, Names, Paths
  <2>2. CASE Expire \/ Lose \/ Reconnect
    BY <2>2 DEF Expire, Lose, Reconnect, FoldersSound
  <2> QED
    BY <2>1, <2>2
<1> QED
  BY <1>1, <1>2 DEF FoldersSound, Whole

LEMMA FoldersInit == FOInit => FoldersSound
<1> SUFFICES ASSUME FOInit PROVE FoldersSound
  OBVIOUS
<1>1. server \subseteq Names /\ System \subseteq server /\ Whole(cache)
  BY DEF FOInit, Names, Paths, Whole
<1>2. call = [c \in FolderCalls |-> Idle]
  BY DEF FOInit
<1> QED
  BY <1>1, <1>2, IdleRow DEF FoldersSound

LEMMA FoldersStep == FoldersSound /\ [FONext]_fo_vars => FoldersSound'
<1> SUFFICES ASSUME FoldersSound, [FONext]_fo_vars PROVE FoldersSound'
  OBVIOUS
<1>1. CASE UNCHANGED fo_vars
  BY <1>1 DEF FoldersSound, fo_vars, Whole
<1>2. CASE FONext
  BY <1>2, CreateSound, ChangeSound, ListSound, ListingSound, CarrySound, ReturnSound,
     CutSound, LateSound, AroundSound DEF FONext
<1> QED
  BY <1>1, <1>2

(* No call costs a system mailbox, and no caller is told of another's deed.     *)
THEOREM FoldersAreSound == FOSpec => []FoldersHold
<1>1. FoldersSound => FoldersHold
  BY FoldersAssumption DEF FoldersSound, CallSound, Whole, FoldersHold, SystemKept, DeedsOwn, OwnDeeds
<1> QED
  BY <1>1, FoldersInit, FoldersStep, PTL DEF FOSpec


===============================================================================
