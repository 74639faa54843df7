---------------------------- MODULE ImapConnection ----------------------------
(* The connections of one SimpleIMAPService: the primary connection, which tool *)
(* calls and the account manager make, retire, abort and find lost, and the     *)
(* background IDLE loop, which keeps a connection of its own to hear of changes *)
(* in the inbox.                                                                *)
(*                                                                              *)
(* Attempts to connect overlap: each waits for the client it replaces to log    *)
(* out and then for the network, and a newer attempt, a disconnect or an abort  *)
(* may come in between; the generation number tells a stale attempt.            *)
EXTENDS Naturals, FiniteSets

CONSTANTS
  Callers,      \* tool calls, and the connection task of the account manager
  MaxSockets,   \* bound: sockets of either kind that exist at a time
  MaxLoops,     \* bound: IDLE loops started
  MaxChanges    \* bound: refreshes, aborts, losses, outages, password changes

None == 0
Primary == 1..MaxSockets
ForIdle == MaxSockets + 1 .. 2 * MaxSockets
Sockets == Primary \cup ForIdle
Loops == 1..MaxLoops
Whoever == ({"call"} \X Callers) \cup ({"idle"} \X Loops)  \* logs in
NoneRejected == [w \in Whoever |-> 0]

ASSUME CallersAssumption == None \notin Callers
ASSUME SocketsAssumption == MaxSockets \in Nat \ {0}
ASSUME LoopsAssumption == MaxLoops \in Nat

VARIABLES
  client, isConnected,
  connectionGeneration,  \* whose attempt is the newest
  idleAuthFailure,  \* set by a rejected login, makes every call fail at once
  mutationReconnect,\* the caller whose reconnect other mutations wait for
  op,          \* the callers' attempts to connect
  idleActive, idleGen, idleClient,
  loop,        \* the IDLE loops; a loop's number is its generation
  sock,        \* every socket: connecting, open, closed
  login,       \* what a login meets: "good", "bad" (a rejected password), "down"
  rejected,    \* history: how often each caller and loop was rejected since the failure was last cleared
  changes      \* of the bound

main_vars == <<client, isConnected, connectionGeneration, mutationReconnect, op>>
idle_vars == <<idleActive, idleGen, idleClient, loop>>
vars == <<main_vars, idle_vars, idleAuthFailure, sock, login, rejected, changes>>

NoOp == [pc |-> "idle", kind |-> "none", sock |-> None]
NoLoop == [pc |-> "none", mine |-> None, on |-> None, auth |-> FALSE]

(* The service has connected once and its first loop is starting.               *)
Init ==
  /\ client = 1 /\ isConnected = TRUE /\ connectionGeneration = None
  /\ idleAuthFailure = FALSE /\ mutationReconnect = None
  /\ op = [c \in Callers |-> NoOp]
  /\ idleActive = TRUE /\ idleGen = 1 /\ idleClient = None
  /\ loop = [i \in Loops |-> IF i = 1 THEN [NoLoop EXCEPT !.pc = "top"] ELSE NoLoop]
  /\ sock = [s \in Sockets |-> IF s = 1 THEN "open" ELSE "closed"]
  /\ login = "good" /\ rejected = NoneRejected /\ changes = 0

Referenced == {client, idleClient} \cup {op[c].sock : c \in Callers}
              \cup {loop[i].mine : i \in Loops} \cup {loop[i].on : i \in Loops}
Unused(kind) == {s \in kind : sock[s] = "closed" /\ s \notin Referenced}
Fresh(kind) == CHOOSE s \in Unused(kind) : TRUE
Live(s) == s # None /\ sock[s] \in {"connecting", "open"}
Closed(s) == [t \in Sockets |-> IF t = s THEN "closed" ELSE sock[t]]
OpBecomes(c, r) == op' = [op EXCEPT ![c] = r]
SetLoop(i, r) == loop' = [loop EXCEPT ![i] = r]
WorldChanges == changes < MaxChanges /\ changes' = changes + 1

------------------------------------------------------------------------------
(* connect: the client it replaces is detached and logged out, which takes a    *)
(* while; with none to replace the new one is made at once.                     *)

Dialling(c, kind) ==
  /\ Unused(Primary) # {}
  /\ sock' = [sock EXCEPT ![Fresh(Primary)] = "connecting"]
  /\ client' = Fresh(Primary)
  /\ OpBecomes(c, [pc |-> "dial", kind |-> kind, sock |-> Fresh(Primary)])

Connect(c, kind) ==
  /\ connectionGeneration' = c
  /\ IF client = None
     THEN Dialling(c, kind) /\ UNCHANGED isConnected
     ELSE /\ sock' = Closed(client)
          /\ client' = None /\ isConnected' = FALSE
          /\ OpBecomes(c, [pc |-> "retire", kind |-> kind, sock |-> None])

(* ensureConnection: a call fails at once after a rejected login, needs nothing *)
(* while connected, and reconnects otherwise.  Mutations share one reconnect.   *)
MayLogIn == ~idleAuthFailure

Call(c, kind) ==
  /\ op[c].pc = "idle" /\ kind \in {"read", "mutation"}
  /\ MayLogIn /\ ~(isConnected /\ client # None)
  /\ kind = "mutation" => mutationReconnect = None
  /\ Connect(c, kind)
  /\ mutationReconnect' = IF kind = "mutation" THEN c ELSE mutationReconnect
  /\ UNCHANGED <<idle_vars, idleAuthFailure, login, rejected, changes>>

Finishes(c) ==
  /\ OpBecomes(c, NoOp)
  /\ mutationReconnect' = IF mutationReconnect = c THEN None ELSE mutationReconnect

(* The predecessor has logged out.  A newer attempt may own the service now.    *)
(* Mutant: the attempt goes on as if it were alone.                             *)
SupersededNever(c) == FALSE
Superseded(c) == connectionGeneration # c

Retired(c) ==
  /\ op[c].pc = "retire"
  /\ IF Superseded(c) THEN Finishes(c) /\ UNCHANGED <<client, sock>>
     ELSE Dialling(c, op[c].kind) /\ UNCHANGED mutationReconnect
  /\ UNCHANGED <<isConnected, connectionGeneration, idle_vars, idleAuthFailure, login, rejected, changes>>

(* client.connect() succeeds.  The manager then starts IDLE.                    *)
Owns(c) == ~Superseded(c) /\ client = op[c].sock

StartIdle ==
  IF idleActive \/ idleGen = MaxLoops THEN UNCHANGED <<idle_vars, idleAuthFailure, rejected>>
  ELSE /\ idleAuthFailure' = FALSE /\ rejected' = NoneRejected
       /\ idleActive' = TRUE /\ idleGen' = idleGen + 1
       /\ SetLoop(idleGen + 1, [NoLoop EXCEPT !.pc = "top"])
       /\ UNCHANGED idleClient

Connected(c) ==
  /\ op[c].pc = "dial" /\ sock[op[c].sock] = "connecting" /\ login = "good"
  /\ Finishes(c)
  /\ IF Owns(c)
     THEN /\ sock' = [sock EXCEPT ![op[c].sock] = "open"]
          /\ isConnected' = TRUE
          /\ IF op[c].kind = "account" THEN StartIdle
             ELSE UNCHANGED <<idle_vars, idleAuthFailure, rejected>>
     ELSE /\ sock' = Closed(op[c].sock)
          /\ UNCHANGED <<isConnected, idle_vars, idleAuthFailure, rejected>>
  /\ UNCHANGED <<client, connectionGeneration, login, changes>>

(* client.connect() fails: the password is rejected, nobody answers, or the     *)
(* client was closed under it.  ensureConnection remembers a rejected login.    *)
ConnectFails(c) ==
  /\ op[c].pc = "dial" /\ (login # "good" \/ sock[op[c].sock] = "closed")
  /\ Finishes(c)
  /\ sock' = Closed(op[c].sock)
  /\ isConnected' = IF Owns(c) THEN FALSE ELSE isConnected
  /\ IF op[c].kind # "account" /\ login = "bad" /\ sock[op[c].sock] = "connecting"
     THEN idleAuthFailure' = TRUE /\ rejected' = [rejected EXCEPT ![<<"call", c>>] = @ + 1]
     ELSE UNCHANGED <<idleAuthFailure, rejected>>
  /\ UNCHANGED <<client, connectionGeneration, idle_vars, login, changes>>

(* disconnect, and abortPrimaryMutationTransport after a missed deadline.       *)
Detached ==
  /\ connectionGeneration' = None
  /\ client' = None /\ isConnected' = FALSE

Abort ==
  /\ WorldChanges
  /\ Detached
  /\ sock' = IF client = None THEN sock ELSE Closed(client)
  /\ UNCHANGED <<mutationReconnect, op, idle_vars, idleAuthFailure, login, rejected>>

(* The manager refreshes the connection: stopIdle and disconnect, then connect. *)
StopIdle == idleActive' = FALSE /\ idleClient' = None

Refresh(c) ==
  /\ op[c].pc = "idle" /\ WorldChanges
  /\ StopIdle /\ UNCHANGED <<idleGen, loop>>
  /\ Detached
  /\ sock' = [s \in Sockets |-> IF s \in {client, idleClient} THEN "closed" ELSE sock[s]]
  /\ OpBecomes(c, [NoOp EXCEPT !.pc = "again"])
  /\ UNCHANGED <<mutationReconnect, idleAuthFailure, login, rejected>>

Again(c) ==
  /\ op[c].pc = "again"
  /\ Connect(c, "account")
  /\ UNCHANGED <<mutationReconnect, idle_vars, idleAuthFailure, login, rejected, changes>>

(* The server closes an open socket: the close handler of the primary client    *)
(* marks the connection lost if that client still is the current one.           *)
Lost(s) ==
  /\ sock[s] = "open" /\ WorldChanges
  /\ sock' = Closed(s)
  /\ isConnected' = IF s = client THEN FALSE ELSE isConnected
  /\ UNCHANGED <<client, connectionGeneration, mutationReconnect, op, idle_vars, idleAuthFailure, login, rejected>>

------------------------------------------------------------------------------
(* runIdleLoop                                                                  *)

Reaped == idleClient' = None /\ sock' = IF idleClient = None THEN sock ELSE Closed(idleClient)
Main == UNCHANGED <<main_vars, login, changes>>
Current(i) == idleActive /\ idleGen = i

NewClient(i) ==
  /\ Unused(ForIdle) # {}
  /\ sock' = [sock EXCEPT ![Fresh(ForIdle)] = "connecting"]
  /\ idleClient' = Fresh(ForIdle)
  /\ SetLoop(i, [loop[i] EXCEPT !.pc = "dial", !.mine = Fresh(ForIdle), !.on = None])

(* The head of the loop reaps the client of the cycle before, which takes a     *)
(* while if there is one, and makes a new one.                                  *)
Top(i) ==
  /\ loop[i].pc = "top"
  /\ IF ~Current(i) THEN SetLoop(i, [NoLoop EXCEPT !.pc = "end"]) /\ UNCHANGED <<idleClient, sock>>
     ELSE IF idleClient = None THEN NewClient(i)
     ELSE Reaped /\ SetLoop(i, [NoLoop EXCEPT !.pc = "reap"])
  /\ UNCHANGED <<idleActive, idleGen, idleAuthFailure, rejected>> /\ Main

AfterReap(i) ==
  /\ loop[i].pc = "reap"
  /\ NewClient(i)
  /\ UNCHANGED <<idleActive, idleGen, idleAuthFailure, rejected>> /\ Main

(* Connected: the failure is cleared, and the loop waits on whatever client the *)
(* service holds by now.                                                        *)
Watch(i) ==
  /\ loop[i].pc = "dial" /\ sock[loop[i].mine] = "connecting" /\ login = "good"
  /\ sock' = [sock EXCEPT ![loop[i].mine] = "open"]
  /\ idleAuthFailure' = FALSE /\ rejected' = NoneRejected
  /\ SetLoop(i, [loop[i] EXCEPT !.pc = IF idleClient = None THEN "fail" ELSE "idle", !.on = idleClient])
  /\ UNCHANGED <<idleActive, idleGen, idleClient>> /\ Main

(* idle() returns when the inbox changes or the server ends it, and fails on a  *)
(* closed client; connect() fails on a rejected login or an outage.             *)
CycleEnds(i) ==
  /\ loop[i].pc = "idle" /\ sock[loop[i].on] = "open"
  /\ SetLoop(i, [loop[i] EXCEPT !.pc = "sleep"])
  /\ UNCHANGED <<idleActive, idleGen, idleClient, idleAuthFailure, sock, rejected>> /\ Main

CycleFails(i) ==
  /\ \/ loop[i].pc = "idle" /\ sock[loop[i].on] # "open"
     \/ loop[i].pc = "dial" /\ (login # "good" \/ sock[loop[i].mine] = "closed")
  /\ LET auth == loop[i].pc = "dial" /\ login = "bad" /\ sock[loop[i].mine] = "connecting"
     IN  /\ SetLoop(i, [loop[i] EXCEPT !.pc = "fail", !.auth = auth])
         /\ rejected' = IF auth THEN [rejected EXCEPT ![<<"idle", i>>] = @ + 1] ELSE rejected
  /\ sock' = IF loop[i].pc = "dial" THEN Closed(loop[i].mine) ELSE sock
  /\ UNCHANGED <<idleActive, idleGen, idleClient, idleAuthFailure>> /\ Main

(* The catch block reaps the client and then decides: a rejected login stops    *)
(* the loop for good, anything else waits for the next step of the backoff.     *)
(* Mutant: the loop leaves on any failure, and nobody can start it again.       *)
NoRetry == "end"
Retry == "sleep"
Fail(i) ==
  /\ loop[i].pc = "fail"
  /\ Reaped
  /\ SetLoop(i, [loop[i] EXCEPT !.pc = "failed", !.mine = None, !.on = None])
  /\ UNCHANGED <<idleActive, idleGen, idleAuthFailure, rejected>> /\ Main

LoopFailed(i) ==
  /\ loop[i].pc = "failed"
  /\ IF loop[i].auth
     THEN /\ idleAuthFailure' = TRUE /\ idleActive' = FALSE
          /\ SetLoop(i, [NoLoop EXCEPT !.pc = "end"])
     ELSE /\ SetLoop(i, [NoLoop EXCEPT !.pc = Retry])
          /\ UNCHANGED <<idleAuthFailure, idleActive>>
  /\ UNCHANGED <<idleGen, idleClient, sock, rejected>> /\ Main

Wake(i) ==
  /\ loop[i].pc = "sleep"
  /\ SetLoop(i, [loop[i] EXCEPT !.pc = "top", !.on = None])
  /\ UNCHANGED <<idleActive, idleGen, idleClient, idleAuthFailure, sock, rejected>> /\ Main

End(i) ==
  /\ loop[i].pc = "end"
  /\ Reaped
  /\ SetLoop(i, [NoLoop EXCEPT !.pc = "over"])
  /\ UNCHANGED <<idleActive, idleGen, idleAuthFailure, rejected>> /\ Main

(* Bridge stops or starts, or its password changes.                             *)
Weather ==
  /\ WorldChanges
  /\ login' \in {"good", "bad", "down"} \ {login}
  /\ rejected' = IF login' = "down" \/ login = "down" THEN rejected ELSE NoneRejected
  /\ UNCHANGED <<main_vars, idle_vars, idleAuthFailure, sock>>

OpStep(c) == Retired(c) \/ Connected(c) \/ ConnectFails(c) \/ Again(c)
LoopStep(i) == \/ Top(i) \/ AfterReap(i) \/ Watch(i) \/ CycleFails(i)
               \/ Fail(i) \/ LoopFailed(i) \/ Wake(i) \/ End(i)

Next ==
  \/ \E c \in Callers : OpStep(c) \/ Refresh(c) \/ \E kind \in {"read", "mutation"} : Call(c, kind)
  \/ \E i \in Loops : LoopStep(i) \/ CycleEnds(i)
  \/ \E s \in Sockets : Lost(s)
  \/ Abort \/ Weather

(* Logging out and dialling end, by an answer or a timeout; so do the sleeps.   *)
Fairness == (\A c \in Callers : WF_vars(OpStep(c))) /\ (\A i \in Loops : WF_vars(LoopStep(i)))

Spec == Init /\ [][Next]_vars /\ Fairness

------------------------------------------------------------------------------
(* Properties.                                                                  *)

TypeOK ==
  /\ client \in Sockets \cup {None} /\ idleClient \in Sockets \cup {None}
  /\ isConnected \in BOOLEAN /\ idleActive \in BOOLEAN /\ idleAuthFailure \in BOOLEAN
  /\ connectionGeneration \in Callers \cup {None} /\ idleGen \in 0..MaxLoops
  /\ sock \in [Sockets -> {"connecting", "open", "closed"}]
  /\ login \in {"good", "bad", "down"} /\ rejected \in [Whoever -> Nat] /\ changes \in 0..MaxChanges

(* No primary socket leaks, and the flag tells the truth: a live socket made    *)
(* for the primary connection is the service's client or is still being         *)
(* dialled; and isConnected holds exactly when the client's session is open.    *)
Accounted ==
  /\ \A s \in Primary : Live(s) => s = client \/ \E c \in Callers : op[c].sock = s
  /\ isConnected <=> client # None /\ sock[client] = "open"

(* A bad password is not hammered: between one clearing of the failure and the  *)
(* next no caller and no IDLE loop is rejected twice, whatever the others learn  *)
(* meanwhile.  (The account manager's own attempts follow a change of settings.)  *)
LockoutSpared == \A w \in Whoever : rejected[w] <= 1

(* Through connects that overtake each other and passwords that change, no      *)
(* socket is lost track of and no account is locked out.                        *)
ConnectionsHold == Accounted /\ LockoutSpared

(* Once Bridge answers and takes the password, push notification comes back     *)
(* unless it was stopped: some loop waits on an open session again and again,   *)
(* although a superseded loop may still reap the client of its successor.       *)
IdleRecovers ==
  <>[](login = "good")
    => []<>(idleActive => \E i \in Loops : loop[i].pc = "idle" /\ sock[loop[i].on] = "open")

(* A stop and a start never leave two loops on one client: a loop waits only on *)
(* the client it made, and only it reaps that client.                           *)
LoopsApart ==
  \A i \in Loops : loop[i].pc = "idle" => loop[i].on = loop[i].mine

==============================================================================
