------------------------------ MODULE PassAudit -------------------------------
(* The Proton Pass client: calls of its command line, each entered in a log     *)
(* whose rows are chained by their hashes.  Every save of the settings makes a  *)
(* new client, which finds the end of the chain in the file when it first has   *)
(* something to enter, and remembers it from then on; a call that is running    *)
(* stays with the client it began on.                                           *)
EXTENDS Integers, Sequences

CONSTANTS
  PassCalls,     \* numbered from 1, in the order they are made
  MaxClients,    \* bound: clients ever made
  MaxMishaps     \* bound: appends that fail, and crashes

ASSUME PassAssumption == PassCalls \subseteq Nat /\ MaxClients \in Nat \ {0} /\ MaxMishaps \in Nat

NoClient == 0
Unread == -1     \* a client that has not looked at the file
Genesis == 0

VARIABLES
  books,         \* the log, what each client holds to be its end, the rows hashed
  client,        \* passService
  clients,       \* how many there have been
  requested,     \* the calls
  mishaps,       \* of the bound
  unlogged       \* history: calls whose row was lost with a failed append or a torn line

pass_vars == <<books, client, clients, requested, mishaps, unlogged>>

Unasked == [at |-> "idle", by |-> NoClient, reveals |-> FALSE]

PAInit ==
  /\ books = [log |-> <<>>, known |-> [n \in 1..MaxClients |-> Unread], hashes |-> 0]
  /\ client = 1 /\ clients = 1
  /\ requested = [c \in PassCalls |-> Unasked]
  /\ mishaps = 0 /\ unlogged = {}

------------------------------------------------------------------------------
(* The log                                                                      *)

Torn(log) == log # <<>> /\ log[Len(log)].shape = "torn"

(* What a client finds at the end of the file: a line that cannot be read       *)
(* starts the chain again.                                                      *)
loadPrevHash(b, n) ==
  IF b.known[n] # Unread THEN b.known[n]
  ELSE IF b.log = <<>> \/ b.log[Len(b.log)].shape # "whole" THEN Genesis
  ELSE b.log[Len(b.log)].hash

(* The row says ok, for what was answered, or not ok.                           *)
Entry(b, n, c, outcome) == [shape |-> "whole", prev |-> loadPrevHash(b, n), hash |-> b.hashes + 1, by |-> n, call |-> c, outcome |-> outcome]

(* A row behind half a row makes one line that nobody can read.                 *)
Lines(log, row) == IF Torn(log) THEN [log EXCEPT ![Len(log)].shape = "spoiled"] ELSE Append(log, row)

(* Mutant: the end of the chain is what the client found when it was made.      *)
EntersWithoutAdvancing(b, n, c, outcome) ==
  [log |-> Lines(b.log, Entry(b, n, c, outcome)), known |-> [b.known EXCEPT ![n] = loadPrevHash(b, n)], hashes |-> b.hashes + 1]
audit(b, n, c, outcome) ==
  [log |-> Lines(b.log, Entry(b, n, c, outcome)), known |-> [b.known EXCEPT ![n] = b.hashes + 1], hashes |-> b.hashes + 1]

(* The row cannot be appended.                                                  *)
auditFails(b, n) == [b EXCEPT !.known[n] = loadPrevHash(b, n)]

Mishap(n) == mishaps' = mishaps + n /\ mishaps' <= MaxMishaps

------------------------------------------------------------------------------
(* The tools                                                                    *)

(* pass_list and pass_search, or pass_get and pass_totp, on the client of now.  *)
Ask(c, reveals) ==
  /\ client # NoClient /\ requested[c].at = "idle"
  /\ \A d \in PassCalls : d < c => requested[d].at # "idle"
  /\ requested' = [requested EXCEPT ![c] = [at |-> "running", by |-> client, reveals |-> reveals]]
  /\ UNCHANGED <<books, client, clients, mishaps, unlogged>>

CallEnds(c, outcome, written) ==
  /\ requested[c].at = "running"
  /\ books' = IF written THEN audit(books, requested[c].by, c, outcome) ELSE auditFails(books, requested[c].by)
  /\ requested' = [requested EXCEPT ![c].at = outcome]
  /\ Mishap(IF written THEN 0 ELSE 1)
  /\ unlogged' = IF written /\ ~Torn(books.log) THEN unlogged ELSE unlogged \cup {c}
  /\ UNCHANGED <<client, clients>>

(* The command line answers in time with something that can be used.            *)
Succeeds(c, written) == CallEnds(c, "answered", written)

(* It cannot be started, it fails, or its time is up. A list is read before it  *)
(* is entered, so one that makes no sense fails as well.                        *)
Fails(c, written) == CallEnds(c, "failed", written)

(* An item is entered before it is read: one that makes no sense is entered     *)
(* again, as a failure.                                                         *)
Unreadable(c) ==
  /\ requested[c].at = "running" /\ requested[c].reveals
  /\ books' = audit(audit(books, requested[c].by, c, "answered"), requested[c].by, c, "failed")
  /\ requested' = [requested EXCEPT ![c].at = "failed"]
  /\ unlogged' = IF Torn(books.log) THEN unlogged \cup {c} ELSE unlogged
  /\ UNCHANGED <<client, clients, mishaps>>

------------------------------------------------------------------------------
(* The settings, and the process                                                *)

(* refreshAuxiliaryServicesFromConfig: a new client, or none without a token.   *)
NewClient ==
  /\ \/ clients < MaxClients /\ clients' = clients + 1 /\ client' = clients'
     \/ client # NoClient /\ client' = NoClient /\ UNCHANGED clients
  /\ UNCHANGED <<books, requested, mishaps, unlogged>>

(* The process dies, perhaps within an append, and is started again.            *)
ProcessDies ==
  /\ Mishap(1) /\ clients < MaxClients
  /\ \/ UNCHANGED books
     \/ \E c \in PassCalls : requested[c].at = "running" /\ ~Torn(books.log)
          /\ books' = [books EXCEPT !.log = Append(@, [Entry(books, requested[c].by, c, "answered") EXCEPT !.shape = "torn"])]
  /\ clients' = clients + 1 /\ client' \in {NoClient, clients'}
  /\ requested' = [c \in PassCalls |-> IF requested[c].at = "running" THEN [requested[c] EXCEPT !.at = "lost"] ELSE requested[c]]
  /\ UNCHANGED unlogged

PANext ==
  \/ \E c \in PassCalls :
       \/ \E reveals \in BOOLEAN : Ask(c, reveals)
       \/ \E written \in BOOLEAN : Succeeds(c, written) \/ Fails(c, written)
       \/ Unreadable(c)
  \/ NewClient \/ ProcessDies

PASpec == PAInit /\ [][PANext]_pass_vars

------------------------------------------------------------------------------
(* Properties.                                                                  *)

Whole == {i \in 1..Len(books.log) : books.log[i].shape = "whole"}
RowsOf(c) == {i \in Whole : books.log[i].call = c}

(* The last row of a finished call says how it ended: what an agent was shown   *)
(* of a vault is in the log, and nothing is there as shown that was not; except *)
(* for a call whose append failed, or landed behind half a row.                 *)
LogTellsTheAnswer ==
  \A c \in PassCalls \ unlogged : requested[c].at \in {"answered", "failed"} =>
    /\ RowsOf(c) # {}
    /\ \A i \in RowsOf(c) : (\A j \in RowsOf(c) : j <= i) => books.log[i].outcome = requested[c].at

(* Two readable rows that follow each other are linked, so that a gap shows     *)
(* that one was removed; unless they are of two clients, as a call that was     *)
(* running when the settings were saved goes on with the end its client knew.   *)
GapsAreChangesOfClient ==
  \A i \in Whole : i + 1 \in Whole =>
    books.log[i + 1].prev = books.log[i].hash \/ books.log[i + 1].by # books.log[i].by

AuditHolds == LogTellsTheAnswer /\ GapsAreChangesOfClient

(* What the chain is for: any gap between readable rows is a removal.           *)
GapsAreRemovals ==
  \A i \in Whole : i + 1 \in Whole => books.log[i + 1].prev = books.log[i].hash

==============================================================================
