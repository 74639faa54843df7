---------------------------- MODULE HttpSessions ----------------------------
(* The remote endpoint behind its bearer check and rate limit: the table of     *)
(* sessions, each driven only by the client that opened it, the requests that   *)
(* read their bodies meanwhile, and the closing of the listener.                *)
EXTENDS Naturals

CONSTANTS
  Clients,
  Requests,       \* requests that may be in the server at a time
  MaxSessions     \* bound: session ids drawn, never one twice

ASSUME NobodyAssumption == "nobody" \notin Clients

Sids == 1..MaxSessions
NoSid == 0
NoRequest == [at |-> "idle", kind |-> "call", by |-> "nobody", sid |-> NoSid]
Kinds == {"initialize", "call", "stream", "delete"}

VARIABLES
  sessions,     \* the table: the owner of each session in it
  opener,       \* history: the client each transport was created for
  transports,   \* transports that are open
  request,      \* what each request is about and how far it is
  listener      \* "open", "closing", "cleared" or "closed"

http_vars == <<sessions, opener, transports, request, listener>>

HTInit ==
  /\ sessions = [s \in Sids |-> "nobody"] /\ opener = sessions /\ transports = {}
  /\ request = [r \in Requests |-> NoRequest]
  /\ listener = "open"

Table == <<sessions, opener, transports>>

------------------------------------------------------------------------------
(* A request that passed the bearer check                                       *)

Arrive(r, c, kind, sid) ==
  /\ request[r] = NoRequest /\ listener # "closed"
  /\ sid # NoSid => opener[sid] # "nobody"
  /\ kind # "initialize" => sid # NoSid
  /\ request' = [request EXCEPT ![r] = [at |-> "reading", kind |-> kind, by |-> c, sid |-> sid]]
  /\ UNCHANGED <<Table, listener>>

(* Mutant: whoever knows the id drives the session.                             *)
Known(r) == request[r].sid # NoSid /\ sessions[request[r].sid] # "nobody"
Own(r) == request[r].sid # NoSid /\ sessions[request[r].sid] = request[r].by

Ends(r) == request' = [request EXCEPT ![r] = NoRequest]

(* Its body is read: it is routed to its session, or is to open one, or is      *)
(* refused; or the body breaks off.                                             *)
Route(r) ==
  /\ request[r].at = "reading"
  /\ \/ Own(r) /\ request' = [request EXCEPT ![r].at = "handling"]
     \/ ~Own(r) /\ request[r].kind = "initialize" /\ request' = [request EXCEPT ![r].at = "connecting"]
     \/ Ends(r)
  /\ UNCHANGED <<Table, listener>>

(* A new server and transport are connected, and the transport draws its id.    *)
Open(r, s) ==
  /\ request[r].at = "connecting"
  /\ opener[s] = "nobody" /\ \A other \in 1..(s - 1) : opener[other] # "nobody"
  /\ opener' = [opener EXCEPT ![s] = request[r].by]
  /\ sessions' = [sessions EXCEPT ![s] = request[r].by]
  /\ transports' = transports \cup {s}
  /\ request' = [request EXCEPT ![r].sid = s, ![r].at = "handling"]
  /\ UNCHANGED listener

(* A transport that closes leaves the table, and its streams end with it.       *)
Closed(s) ==
  /\ transports' = transports \ {s}
  /\ sessions' = [sessions EXCEPT ![s] = "nobody"]
  /\ UNCHANGED opener
WithoutStreams(s) == [r \in Requests |->
  IF request[r].sid = s /\ request[r].at = "streaming" THEN NoRequest ELSE request[r]]

Handle(r) ==
  LET s == request[r].sid IN
  /\ request[r].at = "handling"
  /\ IF request[r].kind = "delete" /\ s \in transports
     THEN Closed(s) /\ request' = [WithoutStreams(s) EXCEPT ![r] = NoRequest]
     ELSE /\ UNCHANGED Table
          /\ IF request[r].kind = "stream" /\ s \in transports
             THEN request' = [request EXCEPT ![r].at = "streaming"]
             ELSE Ends(r)
  /\ UNCHANGED listener

------------------------------------------------------------------------------
(* close(): one session after the other, then the table is cleared, then the    *)
(* listener is closed, and closed it is when the last request has ended.        *)

BeginClose ==
  /\ listener = "open"
  /\ listener' = "closing"
  /\ UNCHANGED <<Table, request>>

CloseOne(s) ==
  /\ listener = "closing" /\ s \in transports
  /\ Closed(s)
  /\ request' = WithoutStreams(s)
  /\ UNCHANGED listener

Clear ==
  /\ listener = "closing" /\ transports = {}
  /\ listener' = "cleared"
  /\ UNCHANGED <<Table, request>>

FinishClose ==
  /\ listener = "cleared" /\ \A r \in Requests : request[r] = NoRequest
  /\ listener' = "closed"
  /\ UNCHANGED <<Table, request>>

HTNext ==
  \/ BeginClose \/ Clear \/ FinishClose
  \/ \E s \in Sids : CloseOne(s)
  \/ \E r \in Requests :
       \/ Route(r) \/ Handle(r)
       \/ \E s \in Sids : Open(r, s)
       \/ \E c \in Clients, kind \in Kinds, sid \in Sids \cup {NoSid} : Arrive(r, c, kind, sid)

HTSpec == HTInit /\ [][HTNext]_http_vars

------------------------------------------------------------------------------
(* Properties.                                                                  *)

(* A session id is a handle, no credential: a transport is driven, streamed     *)
(* from and torn down only by the client it was created for, whoever presents   *)
(* its id and whatever opens and closes while a body is read.                   *)
DrivenByOwner ==
  /\ \A r \in Requests : request[r].at \in {"handling", "streaming"} => opener[request[r].sid] = request[r].by
  /\ \A s \in Sids : sessions[s] # "nobody" => s \in transports

==============================================================================
