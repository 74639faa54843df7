--------------------------- MODULE SettingsAccess ----------------------------
(* The gates of the settings server on the network: the exchange of the token   *)
(* of a process for a browser session, the sessions' expiry and cap, the page's *)
(* token for changes, and the sliding windows that limit each client.           *)
EXTENDS Naturals, Sequences, FiniteSets

CONSTANTS
  Browsers,
  LIMIT, WINDOW,    \* requests a client may make, and the ticks they are counted for
  MAX_BUCKETS,      \* clients the limiter follows
  TTL, MAX_SESSIONS,
  MaxNow,           \* bounds: ticks, sessions issued, and processes
  MaxIssued, MaxProcesses

ASSUME AccessAssumption ==
  LIMIT \in Nat \ {0} /\ WINDOW \in Nat \ {0} /\ TTL \in Nat /\ MaxNow \in Nat /\ MaxProcesses \in Nat

VARIABLES
  now, serving,     \* the clock, and the number of the process
  browserSessions,  \* the table: ids in the order of issue, with each one's expiry
  cookie,           \* the session each browser holds
  shell,            \* the process whose token the browser's page has
  windows,          \* the limiter: the requests counted for each client
  admitted,         \* history: the requests each client was let through with
  forgotten,        \* history: clients the limiter lost at its cap
  issue,            \* history: who each session was issued by, and when
  misled            \* history: a change was made that should not have been

access_vars ==
  <<now, serving, browserSessions, cookie, shell, windows, admitted, forgotten, issue, misled>>
NoCookie == 0

SAInit ==
  /\ now = 1 /\ serving = 1 /\ browserSessions = {} /\ issue = <<>>
  /\ cookie = [b \in Browsers |-> NoCookie] /\ shell = [b \in Browsers |-> 0]
  /\ windows = [b \in Browsers |-> {}] /\ admitted = [b \in Browsers |-> {}]
  /\ forgotten = {} /\ misled = FALSE

------------------------------------------------------------------------------
(* The limiter.  A request is the tick it came at and a number that tells it    *)
(* from the client's others.                                                    *)

WithinWindow(requests) == {q \in requests : q[1] + WINDOW > now}
Tracked(table) == {b \in Browsers : table[b] # {}}

(* Requests that are all out of the window leave the table, but only when it is *)
(* full, or by the clock.                                                       *)
Evicted == [b \in Browsers |-> IF WithinWindow(windows[b]) = {} THEN {} ELSE windows[b]]

(* The client heard of longest ago makes room for a new one.                    *)
HeardBefore(p, o) == \A r \in p : \E q \in o : r[1] <= q[1]
Oldest(table) ==
  {o \in Tracked(table) : \A p \in Tracked(table) : HeardBefore(table[o], table[p])}
WithRoom(b) ==
  IF windows[b] # {} \/ Cardinality(Tracked(windows)) < MAX_BUCKETS THEN {windows}
  ELSE IF Cardinality(Tracked(Evicted)) < MAX_BUCKETS THEN {Evicted}
  ELSE {[Evicted EXCEPT ![o] = {}] : o \in Oldest(Evicted)}

TooMany(b) == Cardinality(WithinWindow(windows[b])) >= LIMIT

NewRequest(b) ==
  LET seen == windows[b] \cup admitted[b]
  IN  <<now, CHOOSE n \in 0..Cardinality(seen) : <<now, n>> \notin seen>>

check(b) ==
  IF TooMany(b)
  THEN /\ windows' = [windows EXCEPT ![b] = WithinWindow(@)]
       /\ UNCHANGED <<admitted, forgotten>>
  ELSE \E table \in WithRoom(b) :
         /\ windows' = [table EXCEPT ![b] = WithinWindow(windows[b]) \cup {NewRequest(b)}]
         /\ forgotten' = forgotten \cup {o \in Browsers : table[o] = {} /\ WithinWindow(windows[o]) # {}}
         /\ admitted' = [o \in Browsers |->
              IF o \in forgotten' THEN {}
              ELSE IF o = b THEN WithinWindow(admitted[o]) \cup {NewRequest(b)}
              ELSE admitted[o]]

------------------------------------------------------------------------------
(* Sessions                                                                     *)

LiveSessions == {s \in browserSessions : s.expires > now}
hasValidSession(id) == \E s \in LiveSessions : s.id = id
(* A session that is presented after its time leaves the table.                 *)
Presented(id) == {s \in browserSessions : s.id # id \/ s.expires > now}
(* At the cap the oldest goes.                                                  *)
LeastRecent(table) == {s \in table : \A t \in table : s.id <= t.id}

(* The navigation that carries the bootstrap token: refused, or a page without  *)
(* a session is given one and redirected.                                       *)
Bootstrap(b) ==
  /\ Len(issue) < MaxIssued
  /\ check(b)
  /\ IF TooMany(b) \/ hasValidSession(cookie[b])
     THEN UNCHANGED <<browserSessions, cookie, issue>>
     ELSE LET room == IF Cardinality(LiveSessions) < MAX_SESSIONS THEN LiveSessions
                      ELSE LiveSessions \ LeastRecent(LiveSessions)
          IN /\ browserSessions' = room \cup {[id |-> Len(issue) + 1, expires |-> now + TTL]}
             /\ issue' = Append(issue, [by |-> serving, at |-> now])
             /\ cookie' = [cookie EXCEPT ![b] = Len(issue) + 1]
  /\ UNCHANGED <<now, serving, shell, misled>>

(* The page itself, which carries the process's token for changes.              *)
LoadShell(b) ==
  /\ check(b)
  /\ browserSessions' = IF TooMany(b) THEN browserSessions ELSE Presented(cookie[b])
  /\ shell' = [shell EXCEPT ![b] = IF ~TooMany(b) /\ hasValidSession(cookie[b]) THEN serving ELSE @]
  /\ UNCHANGED <<now, serving, cookie, issue, misled>>

requireCsrf(b) == shell[b] = serving
Entitled(id) == id # NoCookie /\ issue[id].by = serving /\ now < issue[id].at + TTL

(* A change: without a session it is refused before it is counted.              *)
SettingsChange(b) ==
  /\ browserSessions' = Presented(cookie[b])
  /\ IF ~hasValidSession(cookie[b]) THEN UNCHANGED <<windows, admitted, forgotten, misled>>
     ELSE /\ check(b)
          /\ misled' = (misled \/ (~TooMany(b) /\ requireCsrf(b) /\ ~Entitled(cookie[b])))
  /\ UNCHANGED <<now, serving, cookie, shell, issue>>

TimePasses ==
  /\ now < MaxNow
  /\ now' = now + 1
  /\ \/ UNCHANGED windows
     \/ windows' = [b \in Browsers |->
          IF \A q \in windows[b] : q[1] + WINDOW <= now + 1 THEN {} ELSE windows[b]]
  /\ UNCHANGED <<serving, browserSessions, cookie, shell, admitted, forgotten, issue, misled>>

RestartProcess ==
  /\ serving < MaxProcesses
  /\ serving' = serving + 1
  /\ browserSessions' = {}
  /\ windows' = [b \in Browsers |-> {}] /\ admitted' = [b \in Browsers |-> {}]
  /\ forgotten' = {}
  /\ UNCHANGED <<now, cookie, shell, issue, misled>>

SANext ==
  \/ TimePasses \/ RestartProcess
  \/ \E b \in Browsers : Bootstrap(b) \/ LoadShell(b) \/ SettingsChange(b)

SASpec == SAInit /\ [][SANext]_access_vars

------------------------------------------------------------------------------
(* Properties.                                                                  *)

(* In no window does a process let a client through more often than the limit,  *)
(* unless it lost count of it at its cap of clients; and only with a session of *)
(* its own, of no more than the time a session has, is anything changed,        *)
(* whichever sessions were issued, evicted, expired or cut off by a restart.    *)
GatesHold ==
  /\ ~misled
  /\ \A b \in Browsers \ forgotten : Cardinality(WithinWindow(admitted[b])) <= LIMIT

==============================================================================
