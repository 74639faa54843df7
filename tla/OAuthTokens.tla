---------------------------- MODULE OAuthTokens -----------------------------
(***************************************************************************)
(* The bearers of the HTTP transport: the codes and tokens of the OAuth    *)
(* server (src/src/transports/oauth-store.ts, oauth-handlers.ts), the file *)
(* that keeps token hashes over a restart, and what http.ts asks of the    *)
(* grants and service-accounts files before it lets a request through.     *)
(* Module Grants is about how those two files change; here they are an     *)
(* environment that changes as they may.                                   *)
(*                                                                         *)
(* The daemon is one JavaScript thread.  Only two of its synchronous       *)
(* sequences touch the shared files twice, so only those are interleaved   *)
(* with other processes (turn); a request awaits its body after its bearer *)
(* was accepted (waiting).                                                 *)
(***************************************************************************)
EXTENDS Naturals, FiniteSets

CONSTANTS
    Interactive,   \* agents that register themselves
    Service,       \* service accounts: client_credentials logins
    Tokens, Codes, Requests,
    MaxTokens,     \* OAUTH_MAX_TOKENS
    MaxCodes,      \* OAUTH_MAX_CODES
    NoClient

Clients == Interactive \cup Service
Owners == Clients \cup {NoClient}

ASSUME ClientsAssumption == Interactive \cap Service = {} /\ NoClient \notin Clients
ASSUME LimitsAssumption ==
    /\ MaxTokens \in Nat \ {0} /\ MaxCodes \in Nat \ {0}
    /\ IsFiniteSet(Tokens) /\ IsFiniteSet(Codes)

VARIABLES
    grant,      \* status in the grants file; "lapsed": active past its expiresAt
    cred,       \* the service-accounts file
    clients,    \* this.clients: the agents registered since the daemon started
    codes,      \* this.codes
    stale,      \* those of them that are past OAUTH_CODE_TTL_MS
    held,       \* this.tokens
    byClient,   \* this.tokensByClient
    kept,       \* the token file
    codeOf, tokenOf,  \* the client each was issued to
    expired,    \* the tokens past their expiresAt
    turn,       \* the sequence the thread is in the middle of
    waiting,    \* the client of each request whose body is awaited
    known,      \* history: the agents that ever registered
    blemished,  \* history: clients that were ever out of good standing
    exchanged,  \* history: codes that were presented with success
    fate,       \* history: why a token was dropped
    harm        \* history: whether a failure on the token file did damage

world == <<grant, cred>>
authorization == <<clients, codes, stale, codeOf>>
bearers == <<held, byClient, kept, tokenOf, expired>>
history == <<known, blemished, exchanged, fate, harm>>
vars == <<world, authorization, bearers, turn, waiting, history>>

Free == [at |-> "free", client |-> NoClient]

Init ==
    /\ grant = [c \in Clients |-> "ended"]
    /\ cred = [s \in Service |-> "unissued"]
    /\ clients = {} /\ codes = {} /\ stale = {}
    /\ held = {} /\ kept = {} /\ expired = {}
    /\ byClient = [c \in Clients |-> {}]
    /\ codeOf = [k \in Codes |-> NoClient]
    /\ tokenOf = [t \in Tokens |-> NoClient]
    /\ turn = Free
    /\ waiting = [r \in Requests |-> NoClient]
    /\ known = {} /\ blemished = {} /\ exchanged = {}
    /\ fate = [t \in Tokens |-> "none"]
    /\ harm = "none"

-----------------------------------------------------------------------------
(* The store. *)

(* A full Map makes room by dropping its oldest entry; which one that is,  *)
(* is left open.                                                           *)
Evictions(map, limit) ==
    IF Cardinality(map) >= limit THEN {{x} : x \in map} ELSE {{}}

(* unindexToken for each of the tokens. *)
Unindexed(gone) == [c \in Clients |-> byClient[c] \ {t \in gone : tokenOf[t] = c}]

(* persist: the whole map replaces the file, or the write fails and nobody *)
(* is told.                                                                *)
Persist ==
    \/ kept' = held' /\ harm' = IF harm = "unsaved" THEN "none" ELSE harm
    \/ kept' = kept /\ harm' = IF harm = "none" THEN "unsaved" ELSE harm
Unpersisted == UNCHANGED <<kept, harm>>

(* issueToken *)
IssueToken(t, c) ==
    /\ tokenOf[t] = NoClient
    /\ tokenOf' = [tokenOf EXCEPT ![t] = c]
    /\ \E gone \in Evictions(held, MaxTokens) :
          /\ held' = (held \ gone) \cup {t}
          /\ byClient' = [Unindexed(gone) EXCEPT ![c] = @ \cup {t}]
          /\ fate' = [x \in Tokens |-> IF x \in gone THEN "evicted" ELSE fate[x]]
    /\ Persist

(* revokeTokensForClient.  The mutant drops the tokens in memory only. *)
PurgeInMemory(c) ==
    /\ held' = held \ byClient[c]
    /\ byClient' = [byClient EXCEPT ![c] = {}]
    /\ fate' = [t \in Tokens |-> IF t \in byClient[c] THEN "refused" ELSE fate[t]]
    /\ Unpersisted
Purge(c) ==
    /\ held' = held \ byClient[c]
    /\ byClient' = [byClient EXCEPT ![c] = {}]
    /\ fate' = [t \in Tokens |-> IF t \in byClient[c] THEN "refused" ELSE fate[t]]
    /\ IF byClient[c] = {} THEN Unpersisted ELSE Persist

(* load, at the next start of the daemon; an unreadable file starts empty. *)
(* Everything else is lost: codes, registrations and requests.             *)
Restart ==
    /\ \E readable \in BOOLEAN :
          /\ held' = IF readable THEN kept \ expired ELSE {}
          /\ harm' = IF readable /\ harm = "none" THEN "none" ELSE "done"
    /\ byClient' = [c \in Clients |-> {t \in held' : tokenOf[t] = c}]
    /\ clients' = {} /\ codes' = {} /\ stale' = {}
    /\ turn' = Free /\ waiting' = [r \in Requests |-> NoClient]
    /\ UNCHANGED <<world, kept, codeOf, tokenOf, expired, known, blemished, exchanged, fate>>

-----------------------------------------------------------------------------
(* The OAuth endpoints.  Their bodies are read before anything is looked   *)
(* up, so each is one step of the thread.                                  *)

InGoodStanding(status) == status \in {"pending", "active"}
Idle == turn.at = "free"

(* handleRegister, under a new id; it may evict the oldest registration.   *)
(* When createPending throws, the client is registered without a request.  *)
Register(c) ==
    /\ Idle
    /\ c \in Interactive \ known
    /\ \E gone \in {{}} \cup {{d} : d \in clients} : clients' = (clients \ gone) \cup {c}
    /\ known' = known \cup {c}
    /\ \/ grant' = [grant EXCEPT ![c] = "pending"] /\ UNCHANGED blemished
       \/ blemished' = blemished \cup {c} /\ UNCHANGED grant
    /\ UNCHANGED <<cred, codes, stale, codeOf, bearers, turn, waiting, exchanged, fate, harm>>

(* handleAuthorizeGet: consent is automatic. *)
Authorize(c, k) ==
    /\ Idle
    /\ c \in clients
    /\ codeOf[k] = NoClient
    /\ codeOf' = [codeOf EXCEPT ![k] = c]
    /\ \E gone \in Evictions(codes, MaxCodes) :
          codes' = (codes \ gone) \cup {k} /\ stale' = stale \ gone
    /\ UNCHANGED <<world, clients, bearers, turn, waiting, history>>

(* consumeAuthCode always drops the code. *)
Consume(k) == codes' = codes \ {k} /\ stale' = stale \ {k}

(* handleToken, authorization_code: the code is stale, or the verifier,    *)
(* the client or the redirect do not match, or a token is issued.          *)
RefuseExchange(k) ==
    /\ Idle
    /\ k \in codes
    /\ Consume(k)
    /\ UNCHANGED <<world, clients, codeOf, bearers, turn, waiting, history>>
Exchange(k, t) ==
    /\ Idle
    /\ k \in codes \ stale
    /\ Consume(k)
    /\ exchanged' = exchanged \cup {k}
    /\ IssueToken(t, codeOf[k])
    /\ UNCHANGED <<world, clients, codeOf, expired, turn, waiting, known, blemished>>

(* handleClientCredentials: the secret is verified on one file, the grant  *)
(* is ensured in the other, then a token is issued.                        *)
VerifySecret(s) ==
    /\ Idle
    /\ cred[s] = "present"
    /\ turn' = [at |-> "login", client |-> s]
    /\ UNCHANGED <<world, authorization, bearers, waiting, history>>
Login(t) ==
    /\ turn.at = "login"
    /\ grant' = [grant EXCEPT ![turn.client] = "active"]
    /\ IssueToken(t, turn.client)
    /\ turn' = Free
    /\ UNCHANGED <<cred, authorization, expired, waiting, known, blemished, exchanged>>

(* handleRevoke, for whoever holds the token. *)
RevokeToken(t) ==
    /\ Idle
    /\ t \in held
    /\ held' = held \ {t}
    /\ byClient' = Unindexed({t})
    /\ fate' = [fate EXCEPT ![t] = "returned"]
    /\ Persist
    /\ UNCHANGED <<world, authorization, tokenOf, expired, turn, waiting, known,
                   blemished, exchanged>>

(* sweep, every minute *)
Sweep ==
    /\ Idle
    /\ codes' = codes \ stale /\ stale' = {}
    /\ held' = held \ expired
    /\ byClient' = Unindexed(held \cap expired)
    /\ IF held \cap expired = {} THEN Unpersisted ELSE Persist
    /\ UNCHANGED <<world, clients, codeOf, tokenOf, expired, turn, waiting, known,
                   blemished, exchanged, fate>>

-----------------------------------------------------------------------------
(* A request to the MCP endpoint. *)

(* getAuthorizationSnapshot: what the file says, or that it says nothing. *)
Reads(status) == {status, "unavailable"}

(* verifyToken drops an expired token without saving. *)
PresentExpired(t) ==
    /\ Idle
    /\ t \in held \cap expired
    /\ held' = held \ {t}
    /\ byClient' = Unindexed({t})
    /\ UNCHANGED <<world, authorization, kept, tokenOf, expired, turn, waiting, history>>

(* The grant decides first.  The mutant takes an unreadable one for gone. *)
InactiveOrUnread(seen) == ~InGoodStanding(seen)
DefinitelyInactive(seen) == seen \in {"ended", "lapsed"}
PresentInactive(t) ==
    /\ Idle
    /\ t \in held \ expired
    /\ \E seen \in Reads(grant[tokenOf[t]]) : DefinitelyInactive(seen) /\ seen # "lapsed"
    /\ Purge(tokenOf[t])
    /\ UNCHANGED <<world, authorization, tokenOf, expired, turn, waiting, known, blemished,
                   exchanged>>
PresentLapsed(t) ==
    /\ Idle
    /\ t \in held \ expired
    /\ grant[tokenOf[t]] = "lapsed"
    /\ turn' = [at |-> "expire", client |-> tokenOf[t]]
    /\ UNCHANGED <<world, authorization, bearers, waiting, history>>

(* markExpired, whatever the record says now, and then the purge.  That    *)
(* the write fails is swallowed.                                           *)
MarkExpired ==
    /\ turn.at = "expire"
    /\ \/ UNCHANGED <<grant, blemished>>
       \/ /\ grant' = [grant EXCEPT ![turn.client] = "ended"]
          /\ blemished' = blemished \cup {turn.client}
    /\ Purge(turn.client)
    /\ turn' = Free
    /\ UNCHANGED <<cred, authorization, tokenOf, expired, waiting, known, exchanged>>

(* A service account has a second authority, its credential.  The mutant   *)
(* trusts the grant alone.                                                 *)
GrantSuffices(c) == TRUE
NeedsNoAccount(c) == c \notin Service
Admit(r, t) ==
    /\ Idle
    /\ waiting[r] = NoClient
    /\ t \in held \ expired
    /\ InGoodStanding(grant[tokenOf[t]])
    /\ NeedsNoAccount(tokenOf[t])
    /\ waiting' = [waiting EXCEPT ![r] = tokenOf[t]]
    /\ UNCHANGED <<world, authorization, bearers, turn, history>>
AskAccount(t) ==
    /\ Idle
    /\ t \in held \ expired
    /\ InGoodStanding(grant[tokenOf[t]])
    /\ ~NeedsNoAccount(tokenOf[t])
    /\ turn' = [at |-> "account", client |-> tokenOf[t]]
    /\ UNCHANGED <<world, authorization, bearers, waiting, history>>
AccountMissing ==
    /\ turn.at = "account"
    /\ \E seen \in Reads(cred[turn.client]) : seen = "gone"
    /\ Purge(turn.client)
    /\ turn' = Free
    /\ UNCHANGED <<world, authorization, tokenOf, expired, waiting, known, blemished, exchanged>>
AdmitAccount(r) ==
    /\ turn.at = "account"
    /\ waiting[r] = NoClient
    /\ \E seen \in Reads(cred[turn.client]) : seen = "present"
    /\ waiting' = [waiting EXCEPT ![r] = turn.client]
    /\ turn' = Free
    /\ UNCHANGED <<world, authorization, bearers, history>>

(* The sequence ends in an error: an unreadable file, a throw, a 401 for   *)
(* the resource, the address or the rate.                                  *)
TurnAway ==
    /\ turn.at \in {"account", "login"}
    /\ turn' = Free
    /\ UNCHANGED <<world, authorization, bearers, waiting, history>>

(* The body has arrived and the request goes to its session, or fails. *)
Proceed(r) ==
    /\ Idle
    /\ waiting[r] # NoClient
    /\ waiting' = [waiting EXCEPT ![r] = NoClient]
    /\ UNCHANGED <<world, authorization, bearers, turn, history>>

-----------------------------------------------------------------------------
(* The grants and the accounts change, here or in other processes. *)

(* In this daemon a deny, a revocation, an expiry that the gate met or a   *)
(* request nobody decided emits an event, which purges.                    *)
EndHere(c) ==
    /\ Idle
    /\ grant[c] # "ended"
    /\ grant' = [grant EXCEPT ![c] = "ended"]
    /\ blemished' = blemished \cup {c}
    /\ Purge(c)
    /\ UNCHANGED <<cred, authorization, tokenOf, expired, turn, waiting, known, exchanged>>

(* Elsewhere, or without an event: approved, ended or removed, past its    *)
(* expiry, or made active for an account that some process had verified.   *)
Approvable(c) == c \in known \/ (c \in Service /\ cred[c] # "unissued")
Change(c) ==
    /\ \E to \in {"active", "ended", "lapsed"} :
          /\ to = "active" => Approvable(c)
          /\ to = "lapsed" => grant[c] = "active"
          /\ grant' = [grant EXCEPT ![c] = to]
          /\ blemished' = IF InGoodStanding(grant[c]) /\ ~InGoodStanding(to)
                          THEN blemished \cup {c} ELSE blemished
    /\ UNCHANGED <<cred, authorization, bearers, turn, waiting, known, exchanged, fate, harm>>

(* The CLI or the Agents tab issues an account, or removes its credential, *)
(* the first half of revoking it.                                          *)
IssueAccount(s) ==
    /\ cred[s] = "unissued"
    /\ cred' = [cred EXCEPT ![s] = "present"]
    /\ UNCHANGED <<grant, authorization, bearers, turn, waiting, history>>
RemoveAccount(s) ==
    /\ cred[s] = "present"
    /\ cred' = [cred EXCEPT ![s] = "gone"]
    /\ blemished' = blemished \cup {s}
    /\ UNCHANGED <<grant, authorization, bearers, turn, waiting, known, exchanged, fate, harm>>

(* A minute goes by for a code, a day for a token. *)
Age ==
    /\ \/ \E k \in codes : stale' = stale \cup {k} /\ UNCHANGED expired
       \/ \E t \in held \cup kept : expired' = expired \cup {t} /\ UNCHANGED stale
    /\ UNCHANGED <<world, clients, codes, codeOf, held, byClient, kept, tokenOf, turn,
                   waiting, history>>

Next ==
    \/ Restart \/ Sweep \/ Age \/ MarkExpired \/ AccountMissing \/ TurnAway
    \/ \E c \in Clients : Register(c) \/ EndHere(c) \/ Change(c)
    \/ \E s \in Service : VerifySecret(s) \/ IssueAccount(s) \/ RemoveAccount(s)
    \/ \E k \in Codes :
          \/ RefuseExchange(k)
          \/ \E c \in Clients : Authorize(c, k)
          \/ \E t \in Tokens : Exchange(k, t)
    \/ \E t \in Tokens :
          \/ Login(t) \/ RevokeToken(t) \/ AskAccount(t)
          \/ PresentExpired(t) \/ PresentInactive(t) \/ PresentLapsed(t)
    \/ \E r \in Requests :
          AdmitAccount(r) \/ Proceed(r) \/ \E t \in Tokens : Admit(r, t)

Spec == Init /\ [][Next]_vars

-----------------------------------------------------------------------------
Issued == {t \in Tokens : tokenOf[t] # NoClient}

(* Every variable has the shape the code gives it, and the reverse index   *)
(* is exact, as revoking by client needs.                                  *)
TypeOK ==
    /\ grant \in [Clients -> {"pending", "active", "lapsed", "ended"}]
    /\ cred \in [Service -> {"unissued", "present", "gone"}]
    /\ clients \subseteq known /\ known \subseteq Interactive
    /\ codeOf \in [Codes -> Owners] /\ tokenOf \in [Tokens -> Owners]
    /\ codes \subseteq {k \in Codes : codeOf[k] # NoClient} /\ stale \subseteq codes
    /\ held \subseteq Issued /\ kept \subseteq Issued /\ expired \subseteq Issued
    /\ byClient = [c \in Clients |-> {t \in held : tokenOf[t] = c}]
    /\ turn \in [at : {"account", "login"}, client : Service]
                \cup [at : {"expire"}, client : Clients] \cup {Free}
    /\ waiting \in [Requests -> Owners]
    /\ blemished \subseteq Clients /\ exchanged \subseteq Codes
    /\ fate \in [Tokens -> {"none", "refused", "returned", "evicted"}]
    /\ harm \in {"none", "unsaved", "done"}

(* The limits hold in memory and in the file that a restart loads. *)
MapsBounded ==
    /\ Cardinality(codes) <= MaxCodes
    /\ Cardinality(held) <= MaxTokens /\ Cardinality(kept) <= MaxTokens

(* A bearer that was refused because its client had been stopped, or that  *)
(* was handed back, never works again: not after a restart, and not when   *)
(* the operator approves the client once more.  Only a restart before a    *)
(* failed write was made good can undo that.                               *)
RefusedForGood ==
    harm # "done" => \A t \in held : fate[t] \notin {"refused", "returned"}

(* An agent that was never out of good standing keeps its bearers until    *)
(* they expire, are evicted or handed back, over restarts and whatever     *)
(* authority could not be read meanwhile.                                  *)
GoodStandingKeeps ==
    harm # "done" =>
        \A t \in Issued : \/ t \in held \cup expired
                          \/ fate[t] \in {"evicted", "returned"}
                          \/ tokenOf[t] \in blemished

(* A request is let through to its body only while, at the last look, its  *)
(* client had a grant that may call or wait, or its account existed: a     *)
(* grant made active again by a login that had verified before the account *)
(* was removed opens nothing.                                              *)
AdmittedInStanding ==
    [][\A r \in Requests, c \in Clients :
           waiting[r] # c /\ waiting'[r] = c =>
               IF c \in Service THEN cred[c] = "present" ELSE InGoodStanding(grant[c])]_vars

(* One consent, one token: a code that was exchanged is void. *)
CodesUsedOnce == exchanged \cap codes = {}

(* What is void stays void: bearers that were refused or handed back, and  *)
(* codes that were exchanged.                                              *)
VoidForGood == RefusedForGood /\ CodesUsedOnce
=============================================================================
