------------------------- MODULE OAuthTokensProofs --------------------------
(***************************************************************************)
(* Theorems about the bearers of the HTTP transport, for any number of     *)
(* clients, tokens, codes and requests.                                    *)
(***************************************************************************)
EXTENDS OAuthTokens, FiniteSetTheorems, TLAPS

LEMMA Constants ==
  /\ Interactive \subseteq Clients /\ Service \subseteq Clients
  /\ NoClient \notin Clients /\ Clients \subseteq Owners /\ NoClient \in Owners
BY ClientsAssumption DEF Clients, Owners

-----------------------------------------------------------------------------
(* Types, grouped by the variables that the actions leave alone together.  *)
WorldOK ==
    /\ grant \in [Clients -> {"pending", "active", "lapsed", "ended"}]
    /\ cred \in [Service -> {"unissued", "present", "gone"}]
    /\ blemished \subseteq Clients
CodesOK ==
    /\ clients \subseteq known /\ known \subseteq Interactive
    /\ codeOf \in [Codes -> Owners]
    /\ codes \subseteq {k \in Codes : codeOf[k] # NoClient} /\ stale \subseteq codes
    /\ exchanged \subseteq Codes
TokensOK ==
    /\ tokenOf \in [Tokens -> Owners]
    /\ held \subseteq Issued /\ kept \subseteq Issued /\ expired \subseteq Issued
    /\ byClient = [c \in Clients |-> {t \in held : tokenOf[t] = c}]
    /\ fate \in [Tokens -> {"none", "refused", "returned", "evicted"}]
    /\ harm \in {"none", "unsaved", "done"}
ThreadOK ==
    /\ turn \in [at : {"account", "login"}, client : Service]
                \cup [at : {"expire"}, client : Clients] \cup {Free}
    /\ waiting \in [Requests -> Owners]

LEMMA TypeParts == TypeOK <=> WorldOK /\ CodesOK /\ TokensOK /\ ThreadOK
BY DEF TypeOK, WorldOK, CodesOK, TokensOK, ThreadOK

LEMMA TurnTypes ==
  ASSUME ThreadOK
  PROVE  /\ turn.at \in {"account", "login"} => turn.client \in Service
         /\ turn.at = "expire" => turn.client \in Clients
BY DEF ThreadOK, Free

LEMMA UnindexedExact ==
  ASSUME TokensOK, NEW gone, gone \subseteq held
  PROVE  Unindexed(gone) = [c \in Clients |-> {t \in held \ gone : tokenOf[t] = c}]
BY DEF TokensOK, Unindexed

LEMMA PersistType ==
  ASSUME TokensOK, held' \subseteq Issued', tokenOf' = tokenOf, Persist \/ Unpersisted
  PROVE  kept' \subseteq Issued' /\ harm' \in {"none", "unsaved", "done"}
BY DEF TokensOK, Persist, Unpersisted, Issued

(* revokeTokensForClient drops exactly the client's tokens. *)
LEMMA PurgeExact ==
  ASSUME TokensOK, NEW c \in Clients, Purge(c), tokenOf' = tokenOf
  PROVE  /\ held' = {t \in held : tokenOf[t] # c}
         /\ byClient' = [d \in Clients |-> {t \in held' : tokenOf[t] = d}]
         /\ fate' = [t \in Tokens |-> IF t \in held /\ tokenOf[t] = c
                                      THEN "refused" ELSE fate[t]]
         /\ kept' \subseteq Issued' /\ harm' \in {"none", "unsaved", "done"}
         /\ IF held' = held THEN Unpersisted ELSE Persist
<1>1. byClient[c] = {t \in held : tokenOf[t] = c}
  BY DEF TokensOK
<1>2. held' = {t \in held : tokenOf[t] # c}
  BY <1>1 DEF Purge
<1>3. byClient' = [d \in Clients |-> {t \in held' : tokenOf[t] = d}]
  <2>1. byClient = [d \in Clients |-> {t \in held : tokenOf[t] = d}]
    BY DEF TokensOK
  <2>2. byClient' = [d \in Clients |-> IF d = c THEN {} ELSE {t \in held : tokenOf[t] = d}]
    BY <2>1 DEF Purge
  <2>3. \A d \in Clients : {t \in held' : tokenOf[t] = d}
            = IF d = c THEN {} ELSE {t \in held : tokenOf[t] = d}
    BY <1>2
  <2>4. QED
    BY <2>2, <2>3
<1>4. fate' = [t \in Tokens |-> IF t \in held /\ tokenOf[t] = c THEN "refused" ELSE fate[t]]
  BY <1>1 DEF Purge
<1>5. IF held' = held THEN Unpersisted ELSE Persist
  BY <1>1, <1>2 DEF Purge
<1>6. held' \subseteq Issued'
  BY <1>2 DEF TokensOK, Issued
<1>7. kept' \subseteq Issued' /\ harm' \in {"none", "unsaved", "done"}
  BY <1>5, <1>6, PersistType
<1>8. QED
  BY <1>2, <1>3, <1>4, <1>5, <1>7

LEMMA PurgeType ==
  ASSUME TokensOK, NEW c \in Clients, Purge(c), tokenOf' = tokenOf, expired' = expired
  PROVE  TokensOK'
<1>1. fate' \in [Tokens -> {"none", "refused", "returned", "evicted"}]
  BY PurgeExact DEF TokensOK
<1>2. held' \subseteq Issued' /\ expired' \subseteq Issued'
  BY PurgeExact DEF TokensOK, Issued
<1>3. byClient' = [d \in Clients |-> {t \in held' : tokenOf'[t] = d}]
  BY PurgeExact
<1>4. QED
  BY <1>1, <1>2, <1>3, PurgeExact DEF TokensOK

(* issueToken adds one token, in the map's, the index's and the file's way. *)
LEMMA IssueExact ==
  ASSUME TokensOK, NEW t \in Tokens, NEW c \in Clients, IssueToken(t, c)
  PROVE  /\ tokenOf[t] = NoClient /\ tokenOf' = [tokenOf EXCEPT ![t] = c]
         /\ \E gone \in SUBSET held :
               /\ held' = (held \ gone) \cup {t}
               /\ fate' = [x \in Tokens |-> IF x \in gone THEN "evicted" ELSE fate[x]]
         /\ Persist
BY DEF IssueToken, Evictions

LEMMA IssueType ==
  ASSUME TokensOK, NEW t \in Tokens, NEW c \in Clients, IssueToken(t, c), expired' = expired
  PROVE  TokensOK'
<1>1. PICK gone \in Evictions(held, MaxTokens) :
          /\ held' = (held \ gone) \cup {t}
          /\ byClient' = [Unindexed(gone) EXCEPT ![c] = @ \cup {t}]
          /\ fate' = [x \in Tokens |-> IF x \in gone THEN "evicted" ELSE fate[x]]
  BY DEF IssueToken
<1>2. gone \subseteq held
  BY DEF Evictions
<1>3. tokenOf' = [tokenOf EXCEPT ![t] = c] /\ tokenOf[t] = NoClient /\ t \notin held
  BY Constants DEF IssueToken, TokensOK, Issued
<1>4. /\ tokenOf' \in [Tokens -> Owners]
      /\ Issued' = Issued \cup {t}
  BY <1>3, Constants DEF TokensOK, Issued
<1>5. held' \subseteq Issued' /\ expired' \subseteq Issued' /\ kept \subseteq Issued'
  BY <1>1, <1>4 DEF TokensOK
<1>6. Unindexed(gone) = [d \in Clients |-> {x \in held \ gone : tokenOf[x] = d}]
  BY <1>2, UnindexedExact
<1>7. byClient' = [d \in Clients |-> {x \in held' : tokenOf'[x] = d}]
  <2>1. \A d \in Clients : {x \in held' : tokenOf'[x] = d}
            = IF d = c THEN {x \in held \ gone : tokenOf[x] = d} \cup {t}
                       ELSE {x \in held \ gone : tokenOf[x] = d}
    BY <1>1, <1>3 DEF TokensOK, Issued
  <2>2. QED
    BY <1>1, <1>6, <2>1
<1>8. kept' \subseteq Issued' /\ harm' \in {"none", "unsaved", "done"}
  BY <1>5 DEF IssueToken, Persist, TokensOK
<1>9. fate' \in [Tokens -> {"none", "refused", "returned", "evicted"}]
  BY <1>1 DEF TokensOK
<1>10. QED
  BY <1>4, <1>5, <1>7, <1>8, <1>9 DEF TokensOK

(* A token leaves the map by hand, at an expiry or in a sweep. *)
LEMMA DropType ==
  ASSUME TokensOK, NEW gone, gone \subseteq held, held' = held \ gone,
         byClient' = Unindexed(gone), Persist \/ Unpersisted,
         tokenOf' = tokenOf, expired' = expired,
         fate' \in [Tokens -> {"none", "refused", "returned", "evicted"}]
  PROVE  TokensOK'
<1>1. held' \subseteq Issued' /\ expired' \subseteq Issued'
  BY DEF TokensOK, Issued
<1>2. byClient' = [c \in Clients |-> {t \in held' : tokenOf'[t] = c}]
  BY UnindexedExact
<1>3. kept' \subseteq Issued' /\ harm' \in {"none", "unsaved", "done"}
  BY <1>1, PersistType
<1>4. QED
  BY <1>1, <1>2, <1>3 DEF TokensOK

-----------------------------------------------------------------------------
LEMMA InitType == Init => TypeOK
<1> SUFFICES ASSUME Init PROVE TypeOK
  OBVIOUS
<1>1. WorldOK /\ CodesOK /\ ThreadOK
  BY Constants DEF Init, WorldOK, CodesOK, ThreadOK
<1>2. Issued = {}
  BY DEF Init, Issued
<1>3. TokensOK
  BY <1>2, Constants DEF Init, TokensOK
<1>4. QED
  BY <1>1, <1>3, TypeParts

LEMMA WorldStep == TypeOK /\ [Next]_vars => WorldOK'
<1> SUFFICES ASSUME TypeOK, [Next]_vars PROVE WorldOK'
  OBVIOUS
<1>t. WorldOK /\ ThreadOK /\ CodesOK
  BY TypeParts
<1>1. CASE UNCHANGED <<world, blemished>>
  BY <1>1, <1>t DEF WorldOK, world
<1>2. ASSUME NEW c \in Clients, Register(c) PROVE WorldOK'
  BY <1>2, <1>t DEF Register, WorldOK
<1>3. ASSUME NEW t \in Tokens, Login(t) PROVE WorldOK'
  BY <1>3, <1>t, TurnTypes, Constants DEF Login, WorldOK
<1>4. CASE MarkExpired
  BY <1>4, <1>t, TurnTypes DEF MarkExpired, WorldOK
<1>5. ASSUME NEW c \in Clients, EndHere(c) PROVE WorldOK'
  BY <1>5, <1>t DEF EndHere, WorldOK
<1>6. ASSUME NEW c \in Clients, Change(c) PROVE WorldOK'
  BY <1>6, <1>t DEF Change, WorldOK
<1>7. ASSUME NEW s \in Service, IssueAccount(s) PROVE WorldOK'
  BY <1>7, <1>t DEF IssueAccount, WorldOK, history
<1>8. ASSUME NEW s \in Service, RemoveAccount(s) PROVE WorldOK'
  BY <1>8, <1>t, Constants DEF RemoveAccount, WorldOK
<1>9. QED
  BY <1>1, <1>2, <1>3, <1>4, <1>5, <1>6, <1>7, <1>8
     DEF Next, vars, world, history, Restart, Sweep, Age, AccountMissing, TurnAway,
         VerifySecret, RefuseExchange, Authorize, Exchange, RevokeToken, PresentExpired,
         PresentInactive, PresentLapsed, AskAccount, AdmitAccount, Proceed, Admit

LEMMA CodesStep == TypeOK /\ [Next]_vars => CodesOK'
<1> SUFFICES ASSUME TypeOK, [Next]_vars PROVE CodesOK'
  OBVIOUS
<1>t. CodesOK
  BY TypeParts
<1>1. CASE UNCHANGED <<authorization, known, exchanged>>
  BY <1>1, <1>t DEF CodesOK, authorization
<1>2. ASSUME NEW c \in Clients, Register(c) PROVE CodesOK'
  BY <1>2, <1>t DEF Register, CodesOK
<1>3. ASSUME NEW c \in Clients, NEW k \in Codes, Authorize(c, k) PROVE CodesOK'
  BY <1>3, <1>t, Constants DEF Authorize, CodesOK, history
<1>4. ASSUME NEW k \in Codes, RefuseExchange(k) PROVE CodesOK'
  BY <1>4, <1>t DEF RefuseExchange, Consume, CodesOK, history
<1>5. ASSUME NEW k \in Codes, NEW t \in Tokens, Exchange(k, t) PROVE CodesOK'
  BY <1>5, <1>t DEF Exchange, Consume, CodesOK
<1>6. CASE Sweep
  BY <1>6, <1>t DEF Sweep, CodesOK
<1>7. CASE Age
  BY <1>7, <1>t DEF Age, CodesOK, history
<1>8. CASE Restart
  BY <1>8, <1>t DEF Restart, CodesOK
<1>9. QED
  BY <1>1, <1>2, <1>3, <1>4, <1>5, <1>6, <1>7, <1>8
     DEF Next, vars, authorization, history, MarkExpired, AccountMissing, TurnAway,
         VerifySecret, IssueAccount, RemoveAccount, EndHere, Change, Login, RevokeToken,
         PresentExpired, PresentInactive, PresentLapsed, AskAccount, AdmitAccount, Proceed, Admit

LEMMA TokensStep == TypeOK /\ [Next]_vars => TokensOK'
<1> SUFFICES ASSUME TypeOK, [Next]_vars PROVE TokensOK'
  OBVIOUS
<1>t. TokensOK /\ ThreadOK /\ CodesOK
  BY TypeParts
<1>1. CASE UNCHANGED <<bearers, fate, harm>>
  BY <1>1, <1>t DEF TokensOK, bearers, Issued
<1>2. ASSUME NEW k \in Codes, NEW t \in Tokens, Exchange(k, t) PROVE TokensOK'
  <2>1. codeOf[k] \in Clients
    BY <1>2, <1>t DEF Exchange, CodesOK, Owners
  <2>2. QED
    BY <1>2, <1>t, <2>1, IssueType DEF Exchange
<1>3. ASSUME NEW t \in Tokens, Login(t) PROVE TokensOK'
  BY <1>3, <1>t, TurnTypes, Constants, IssueType DEF Login
<1>4. ASSUME NEW t \in Tokens, RevokeToken(t) PROVE TokensOK'
  <2>1. fate' \in [Tokens -> {"none", "refused", "returned", "evicted"}]
    BY <1>4, <1>t DEF RevokeToken, TokensOK
  <2>2. QED
    BY <1>4, <1>t, <2>1, DropType DEF RevokeToken
<1>5. CASE Sweep
  <2>1. held' = held \ (held \cap expired) /\ fate' \in [Tokens -> {"none", "refused", "returned", "evicted"}]
    BY <1>5, <1>t DEF Sweep, TokensOK
  <2>2. Persist \/ Unpersisted
    BY <1>5 DEF Sweep
  <2>3. QED
    BY <1>5, <1>t, <2>1, <2>2, DropType DEF Sweep
<1>6. ASSUME NEW t \in Tokens, PresentExpired(t) PROVE TokensOK'
  <2>1. Unpersisted /\ fate' \in [Tokens -> {"none", "refused", "returned", "evicted"}]
    BY <1>6, <1>t DEF PresentExpired, Unpersisted, TokensOK, history
  <2>2. QED
    BY <1>6, <1>t, <2>1, DropType DEF PresentExpired
<1>7. ASSUME NEW t \in Tokens, PresentInactive(t) PROVE TokensOK'
  <2>1. tokenOf[t] \in Clients
    BY <1>7, <1>t DEF PresentInactive, TokensOK, Issued, Owners
  <2>2. QED
    BY <1>7, <1>t, <2>1, PurgeType DEF PresentInactive
<1>8. CASE AccountMissing
  BY <1>8, <1>t, TurnTypes, Constants, PurgeType DEF AccountMissing
<1>9. ASSUME NEW c \in Clients, EndHere(c) PROVE TokensOK'
  BY <1>9, <1>t, PurgeType DEF EndHere
<1>10. CASE Age
  BY <1>10, <1>t DEF Age, TokensOK, Issued, history
<1>11. CASE Restart
  <2>1. held' \subseteq kept /\ tokenOf' = tokenOf /\ kept' = kept /\ expired' = expired /\ fate' = fate
    BY <1>11 DEF Restart
  <2>2. harm' \in {"none", "unsaved", "done"}
    BY <1>11 DEF Restart
  <2>3. byClient' = [c \in Clients |-> {t \in held' : tokenOf'[t] = c}]
    BY <1>11, <2>1 DEF Restart
  <2>4. QED
    BY <1>t, <2>1, <2>2, <2>3 DEF TokensOK, Issued
<1>12. ASSUME NEW c \in Clients, Register(c) \/ Change(c) PROVE TokensOK'
  BY <1>1, <1>12 DEF Register, Change, bearers, history
<1>13. ASSUME NEW s \in Service, VerifySecret(s) \/ IssueAccount(s) \/ RemoveAccount(s)
       PROVE TokensOK'
  BY <1>1, <1>13 DEF VerifySecret, IssueAccount, RemoveAccount, bearers, history
<1>14. CASE TurnAway
  BY <1>1, <1>14 DEF TurnAway, bearers, history
<1>15. ASSUME NEW k \in Codes, RefuseExchange(k) \/ \E c \in Clients : Authorize(c, k)
       PROVE TokensOK'
  BY <1>1, <1>15 DEF RefuseExchange, Authorize, bearers, history
<1>16. ASSUME NEW t \in Tokens, AskAccount(t) \/ PresentLapsed(t) PROVE TokensOK'
  BY <1>1, <1>16 DEF AskAccount, PresentLapsed, bearers, history
<1>17. ASSUME NEW r \in Requests, AdmitAccount(r) \/ Proceed(r) \/ \E t \in Tokens : Admit(r, t)
       PROVE TokensOK'
  BY <1>1, <1>17 DEF AdmitAccount, Proceed, Admit, bearers, history
<1>18. CASE UNCHANGED vars
  BY <1>1, <1>18 DEF vars, bearers, history
<1>19. CASE MarkExpired
  BY <1>19, <1>t, TurnTypes, PurgeType DEF MarkExpired
<1>20. QED
  BY <1>2, <1>3, <1>4, <1>5, <1>6, <1>7, <1>8, <1>9, <1>10, <1>11, <1>12, <1>13,
     <1>14, <1>15, <1>16, <1>17, <1>18, <1>19 DEF Next

LEMMA ThreadStep == TypeOK /\ [Next]_vars => ThreadOK'
<1> SUFFICES ASSUME TypeOK, [Next]_vars PROVE ThreadOK'
  OBVIOUS
<1>t. ThreadOK /\ TokensOK
  BY TypeParts
<1>1. CASE UNCHANGED <<turn, waiting>>
  BY <1>1, <1>t DEF ThreadOK
<1>2. CASE turn' = Free /\ waiting' = waiting
  BY <1>2, <1>t DEF ThreadOK
<1>3. ASSUME NEW s \in Service, VerifySecret(s) PROVE ThreadOK'
  BY <1>3, <1>t DEF VerifySecret, ThreadOK
<1>4. ASSUME NEW t \in Tokens, PresentLapsed(t) PROVE ThreadOK'
  <2>1. tokenOf[t] \in Clients
    BY <1>4, <1>t DEF PresentLapsed, TokensOK, Issued, Owners
  <2>2. QED
    BY <1>4, <1>t, <2>1 DEF PresentLapsed, ThreadOK
<1>5. ASSUME NEW t \in Tokens, AskAccount(t) PROVE ThreadOK'
  <2>1. tokenOf[t] \in Service
    BY <1>5, <1>t DEF AskAccount, TokensOK, Issued, Owners, Clients, NeedsNoAccount
  <2>2. QED
    BY <1>5, <1>t, <2>1 DEF AskAccount, ThreadOK
<1>6. ASSUME NEW r \in Requests, NEW t \in Tokens, Admit(r, t) PROVE ThreadOK'
  BY <1>6, <1>t DEF Admit, ThreadOK, TokensOK, Issued
<1>7. ASSUME NEW r \in Requests, AdmitAccount(r) PROVE ThreadOK'
  BY <1>7, <1>t, TurnTypes, Constants DEF AdmitAccount, ThreadOK
<1>8. ASSUME NEW r \in Requests, Proceed(r) PROVE ThreadOK'
  BY <1>8, <1>t, Constants DEF Proceed, ThreadOK
<1>9. CASE Restart
  BY <1>9, <1>t, Constants DEF Restart, ThreadOK
<1>10. QED
  BY <1>1, <1>2, <1>3, <1>4, <1>5, <1>6, <1>7, <1>8, <1>9
     DEF Next, vars, Sweep, Age, MarkExpired, AccountMissing, TurnAway, Register, EndHere,
         Change, IssueAccount, RemoveAccount, RefuseExchange, Authorize, Exchange, Login,
         RevokeToken, PresentExpired, PresentInactive

LEMMA TypeStep == TypeOK /\ [Next]_vars => TypeOK'
<1>1. TypeOK' <=> WorldOK' /\ CodesOK' /\ TokensOK' /\ ThreadOK'
  BY DEF TypeOK, WorldOK, CodesOK, TokensOK, ThreadOK, Issued
<1>2. QED
  BY <1>1, WorldStep, CodesStep, TokensStep, ThreadStep

(* The state stays well typed and the reverse index of tokens exact. *)
THEOREM TypeCorrect == Spec => []TypeOK
<1>1. Init => TypeOK
  BY InitType
<1>2. TypeOK /\ [Next]_vars => TypeOK'
  BY TypeStep
<1>3. QED
  BY <1>1, <1>2, PTL DEF Spec

-----------------------------------------------------------------------------
(* Clients out of good standing.  A client with a code or a token, and an  *)
(* agent that registered, has a grant that may call or wait, or else is    *)
(* blemished; so are an account whose credential is gone and a client      *)
(* whose expiry is being recorded.                                         *)
Good(c) == InGoodStanding(grant[c]) \/ c \in blemished
Stains ==
    /\ \A s \in Service : cred[s] = "gone" => s \in blemished
    /\ \A c \in known : Good(c)
    /\ \A k \in Codes : codeOf[k] # NoClient => codeOf[k] \in known
    /\ \A t \in Issued : Good(tokenOf[t])
    /\ turn.at = "expire" => turn.client \in blemished

LEMMA StainsStay ==
  ASSUME TypeOK, [Next]_vars
  PROVE  /\ blemished \subseteq blemished'
         /\ \A c \in Clients : Good(c) => InGoodStanding(grant'[c]) \/ c \in blemished'
<1>t. WorldOK /\ ThreadOK /\ CodesOK
  BY TypeParts
<1> USE DEF Good, InGoodStanding
<1>1. CASE UNCHANGED <<grant, blemished>>
  BY <1>1
<1>2. ASSUME NEW c \in Clients, Register(c)
      PROVE  /\ blemished \subseteq blemished'
             /\ \A d \in Clients : Good(d) => InGoodStanding(grant'[d]) \/ d \in blemished'
  BY <1>2, <1>t DEF Register, WorldOK
<1>3. ASSUME NEW t \in Tokens, Login(t)
      PROVE  /\ blemished \subseteq blemished'
             /\ \A d \in Clients : Good(d) => InGoodStanding(grant'[d]) \/ d \in blemished'
  BY <1>3, <1>t, TurnTypes, Constants DEF Login, WorldOK
<1>4. CASE MarkExpired
  BY <1>4, <1>t, TurnTypes DEF MarkExpired, WorldOK
<1>5. ASSUME NEW c \in Clients, EndHere(c)
      PROVE  /\ blemished \subseteq blemished'
             /\ \A d \in Clients : Good(d) => InGoodStanding(grant'[d]) \/ d \in blemished'
  BY <1>5, <1>t DEF EndHere, WorldOK
<1>6. ASSUME NEW c \in Clients, Change(c)
      PROVE  /\ blemished \subseteq blemished'
             /\ \A d \in Clients : Good(d) => InGoodStanding(grant'[d]) \/ d \in blemished'
  BY <1>6, <1>t DEF Change, WorldOK
<1>7. ASSUME NEW s \in Service, RemoveAccount(s)
      PROVE  /\ blemished \subseteq blemished'
             /\ \A d \in Clients : Good(d) => InGoodStanding(grant'[d]) \/ d \in blemished'
  BY <1>7 DEF RemoveAccount
<1>8. QED
  BY <1>1, <1>2, <1>3, <1>4, <1>5, <1>6, <1>7
     DEF Next, vars, world, history, Restart, Sweep, Age, AccountMissing, TurnAway,
         VerifySecret, IssueAccount, RefuseExchange, Authorize, Exchange, RevokeToken,
         PresentExpired, PresentInactive, PresentLapsed, AskAccount, AdmitAccount, Proceed, Admit

LEMMA StainsInit == Init => Stains
BY DEF Init, Stains, Issued, Free

LEMMA StainsStep == TypeOK /\ Stains /\ [Next]_vars => Stains'
<1> SUFFICES ASSUME TypeOK, Stains, [Next]_vars PROVE Stains'
  OBVIOUS
<1>t. WorldOK /\ ThreadOK /\ CodesOK /\ TokensOK
  BY TypeParts
<1>s. WorldOK' /\ CodesOK' /\ TokensOK'
  BY WorldStep, CodesStep, TokensStep
<1>1. \A s \in Service : cred'[s] = "gone" => s \in blemished'
  <2>1. CASE cred' = cred
    BY <2>1, StainsStay DEF Stains
  <2>2. ASSUME NEW s \in Service, IssueAccount(s)
        PROVE  \A z \in Service : cred'[z] = "gone" => z \in blemished'
    BY <2>2, <1>t, StainsStay DEF IssueAccount, Stains, WorldOK
  <2>3. ASSUME NEW s \in Service, RemoveAccount(s)
        PROVE  \A z \in Service : cred'[z] = "gone" => z \in blemished'
    BY <2>3, <1>t DEF RemoveAccount, Stains, WorldOK
  <2>4. QED
    BY <2>1, <2>2, <2>3
       DEF Next, vars, world, Restart, Sweep, Age, MarkExpired, AccountMissing, TurnAway,
           Register, EndHere, Change, VerifySecret, RefuseExchange, Authorize, Exchange,
           Login, RevokeToken, PresentExpired, PresentInactive, PresentLapsed, AskAccount, AdmitAccount,
           Proceed, Admit
<1>2. \A c \in known' : InGoodStanding(grant'[c]) \/ c \in blemished'
  <2>1. CASE known' = known
    BY <2>1, <1>t, StainsStay, Constants DEF Stains, CodesOK
  <2>2. ASSUME NEW c \in Clients, Register(c) PROVE \A d \in known' : InGoodStanding(grant'[d]) \/ d \in blemished'
    <3>1. known' = known \cup {c} /\ (InGoodStanding(grant'[c]) \/ c \in blemished')
      BY <2>2, <1>t DEF Register, WorldOK, InGoodStanding
    <3>2. QED
      BY <3>1, <1>t, StainsStay, Constants DEF Stains, CodesOK
  <2>3. QED
    BY <2>1, <2>2
       DEF Next, vars, history, Restart, Sweep, Age, MarkExpired, AccountMissing, TurnAway,
           EndHere, Change, VerifySecret, IssueAccount, RemoveAccount, RefuseExchange,
           Authorize, Exchange, Login, RevokeToken, PresentExpired, PresentInactive,
           PresentLapsed, AskAccount, AdmitAccount, Proceed, Admit
<1>3. \A k \in Codes : codeOf'[k] # NoClient => codeOf'[k] \in known'
  <2>1. CASE codeOf' = codeOf /\ known' = known
    BY <2>1 DEF Stains
  <2>2. ASSUME NEW c \in Clients, Register(c)
        PROVE  \A k \in Codes : codeOf'[k] # NoClient => codeOf'[k] \in known'
    BY <2>2 DEF Register, Stains
  <2>3. ASSUME NEW c \in Clients, NEW k \in Codes, Authorize(c, k)
        PROVE  \A j \in Codes : codeOf'[j] # NoClient => codeOf'[j] \in known'
    BY <2>3, <1>t DEF Authorize, history, Stains, CodesOK
  <2>4. QED
    BY <2>1, <2>2, <2>3
       DEF Next, vars, authorization, history, Restart, Sweep, Age, MarkExpired,
           AccountMissing, TurnAway, EndHere, Change, VerifySecret, IssueAccount,
           RemoveAccount, RefuseExchange, Exchange, Login, RevokeToken, PresentExpired,
           PresentInactive, PresentLapsed, AskAccount, AdmitAccount, Proceed, Admit
<1>4. \A t \in Issued' : InGoodStanding(grant'[tokenOf'[t]]) \/ tokenOf'[t] \in blemished'
  <2>0. \A t \in Issued : tokenOf[t] \in Clients
    BY <1>t DEF TokensOK, Issued, Owners
  <2>1. CASE tokenOf' = tokenOf
    BY <2>0, <2>1, StainsStay DEF Stains, Issued
  <2>2. ASSUME NEW k \in Codes, NEW t \in Tokens, Exchange(k, t)
        PROVE  \A x \in Issued' :
                  InGoodStanding(grant'[tokenOf'[x]]) \/ tokenOf'[x] \in blemished'
    <3>1. codeOf[k] \in known /\ codeOf[k] \in Clients
      BY <2>2, <1>t DEF Exchange, CodesOK, Owners, Stains
    <3>2. InGoodStanding(grant'[codeOf[k]]) \/ codeOf[k] \in blemished'
      BY <3>1, StainsStay DEF Stains
    <3>3. tokenOf' = [tokenOf EXCEPT ![t] = codeOf[k]]
      BY <2>2 DEF Exchange, IssueToken
    <3>4. QED
      BY <2>0, <3>2, <3>3, <1>t, StainsStay DEF Stains, Issued, TokensOK
  <2>3. ASSUME NEW t \in Tokens, Login(t) 
        PROVE  \A x \in Issued' :
                  InGoodStanding(grant'[tokenOf'[x]]) \/ tokenOf'[x] \in blemished'
    <3>1. turn.client \in Clients
      BY <2>3, <1>t, TurnTypes, Constants DEF Login
    <3>2. InGoodStanding(grant'[turn.client])
      BY <2>3, <3>1, <1>t DEF Login, WorldOK, InGoodStanding
    <3>3. tokenOf' = [tokenOf EXCEPT ![t] = turn.client]
      BY <2>3 DEF Login, IssueToken
    <3>4. QED
      BY <2>0, <3>2, <3>3, <1>t, StainsStay DEF Stains, Issued, TokensOK
  <2>4. QED
    BY <2>1, <2>2, <2>3
       DEF Next, vars, bearers, Restart, Sweep, Age, MarkExpired, AccountMissing, TurnAway,
           Register, EndHere, Change, VerifySecret, IssueAccount, RemoveAccount,
           RefuseExchange, Authorize, RevokeToken, PresentExpired, PresentInactive,
           PresentLapsed, AskAccount, AdmitAccount, Proceed, Admit
<1>5. turn'.at = "expire" => turn'.client \in blemished'
  <2>1. CASE turn' = turn
    BY <2>1, StainsStay DEF Stains
  <2>2. CASE turn' = Free
    BY <2>2 DEF Free
  <2>3. ASSUME NEW t \in Tokens, PresentLapsed(t) PROVE turn'.client \in blemished'
    BY <2>3, <1>t DEF PresentLapsed, Stains, Good, InGoodStanding, TokensOK, history
  <2>4. ASSUME NEW s \in Service, VerifySecret(s) PROVE turn'.at # "expire"
    BY <2>4 DEF VerifySecret
  <2>5. ASSUME NEW t \in Tokens, AskAccount(t) PROVE turn'.at # "expire"
    BY <2>5 DEF AskAccount
  <2>6. QED
    BY <2>1, <2>2, <2>3, <2>4, <2>5
       DEF Next, vars, Restart, Sweep, Age, MarkExpired, AccountMissing, TurnAway, Register,
           EndHere, Change, IssueAccount, RemoveAccount, RefuseExchange, Authorize, Exchange,
           Login, RevokeToken, PresentExpired, PresentInactive, AdmitAccount, Proceed, Admit
<1>6. QED
  BY <1>1, <1>2, <1>3, <1>4, <1>5 DEF Stains, Good

-----------------------------------------------------------------------------
(* What a step may do to the tokens: nothing but let time pass, issue one, *)
(* drop some for a reason and save that, or load the file.                 *)
Keeping ==
    /\ UNCHANGED <<held, kept, tokenOf, fate, harm>>
    /\ expired \subseteq expired'
Issuing ==
    /\ \E t \in Tokens, c \in Clients : IssueToken(t, c)
    /\ expired' = expired
ForAReason(t) ==
    \/ fate'[t] = "returned"
    \/ fate'[t] = "refused" /\ tokenOf[t] \in blemished'
    \/ fate'[t] = fate[t] /\ t \in expired
Dropping ==
    /\ \E gone \in SUBSET held :
          /\ held' = held \ gone
          /\ \A t \in gone : ForAReason(t)
          /\ \A t \in Tokens \ gone : fate'[t] = fate[t]
          /\ Persist \/ (Unpersisted /\ gone \subseteq expired)
    /\ tokenOf' = tokenOf /\ expired' = expired

LEMMA PurgeDrops ==
  ASSUME TokensOK, NEW c \in Clients, Purge(c), c \in blemished', tokenOf' = tokenOf,
         expired' = expired
  PROVE  Dropping
<1> DEFINE gone == {t \in held : tokenOf[t] = c}
<1>1. held' = held \ gone /\ gone \in SUBSET held
  BY PurgeExact
<1>2. gone \subseteq Tokens
  BY DEF TokensOK, Issued
<1>3. /\ \A t \in gone : fate'[t] = "refused" /\ tokenOf[t] \in blemished'
      /\ \A t \in Tokens \ gone : fate'[t] = fate[t]
  <2>1. fate' = [t \in Tokens |-> IF t \in held /\ tokenOf[t] = c THEN "refused" ELSE fate[t]]
    BY PurgeExact
  <2>2. QED
    BY <1>2, <2>1
<1>4. Persist \/ (Unpersisted /\ gone = {})
  <2>1. held' = held => gone = {}
    BY <1>1
  <2>2. IF held' = held THEN Unpersisted ELSE Persist
    BY PurgeExact
  <2>3. QED
    BY <2>1, <2>2
<1>5. QED
  BY <1>1, <1>3, <1>4 DEF Dropping, ForAReason

LEMMA TokenSteps ==
  ASSUME TypeOK, Stains, [Next]_vars
  PROVE  Keeping \/ Issuing \/ Dropping \/ Restart
<1>t. ThreadOK /\ CodesOK /\ TokensOK /\ WorldOK
  BY TypeParts
<1>1. UNCHANGED <<bearers, fate, harm>> => Keeping
  BY DEF Keeping, bearers
<1>2. ASSUME NEW k \in Codes, NEW t \in Tokens, Exchange(k, t) PROVE Issuing
  <2>1. codeOf[k] \in Clients
    BY <1>2, <1>t DEF Exchange, CodesOK, Owners
  <2>2. QED
    BY <1>2, <2>1 DEF Exchange, Issuing
<1>3. ASSUME NEW t \in Tokens, Login(t) PROVE Issuing
  BY <1>3, <1>t, TurnTypes, Constants DEF Login, Issuing
<1>4. ASSUME NEW t \in Tokens, RevokeToken(t) PROVE Dropping
  <2>1. held' = held \ {t} /\ t \in held /\ Persist /\ tokenOf' = tokenOf /\ expired' = expired
    BY <1>4 DEF RevokeToken
  <2>2. fate'[t] = "returned" /\ \A x \in Tokens \ {t} : fate'[x] = fate[x]
    BY <1>4, <1>t DEF RevokeToken, TokensOK
  <2>3. QED
    BY <2>1, <2>2 DEF Dropping, ForAReason
<1>5. CASE Sweep
  <2>1. /\ held' = held \ (held \cap expired) /\ tokenOf' = tokenOf /\ expired' = expired
        /\ fate' = fate
        /\ Persist \/ (Unpersisted /\ held \cap expired \subseteq expired)
    BY <1>5 DEF Sweep
  <2>2. /\ \A t \in held \cap expired : ForAReason(t)
        /\ \A t \in Tokens \ (held \cap expired) : fate'[t] = fate[t]
    BY <2>1 DEF ForAReason
  <2>3. held \cap expired \in SUBSET held
    OBVIOUS
  <2>4. \E gone \in SUBSET held :
          /\ held' = held \ gone
          /\ \A t \in gone : ForAReason(t)
          /\ \A t \in Tokens \ gone : fate'[t] = fate[t]
          /\ Persist \/ (Unpersisted /\ gone \subseteq expired)
    <3> WITNESS held \cap expired \in SUBSET held
    <3> QED
      BY <2>1, <2>2
  <2>5. QED
    BY <2>1, <2>4 DEF Dropping
<1>6. ASSUME NEW t \in Tokens, PresentExpired(t) PROVE Dropping
  <2>1. /\ held' = held \ {t} /\ t \in held /\ {t} \subseteq expired
        /\ Unpersisted /\ fate' = fate /\ tokenOf' = tokenOf /\ expired' = expired
    BY <1>6 DEF PresentExpired, Unpersisted, history
  <2>2. ForAReason(t) /\ \A x \in Tokens \ {t} : fate'[x] = fate[x]
    BY <2>1 DEF ForAReason
  <2>3. {t} \in SUBSET held /\ \A x \in {t} : ForAReason(x)
    BY <2>1, <2>2
  <2>4. QED
    BY <2>1, <2>2, <2>3, Zenon DEF Dropping
<1>7. ASSUME NEW t \in Tokens, PresentInactive(t) PROVE Dropping
  <2>1. tokenOf[t] \in Clients /\ t \in Issued
    BY <1>7, <1>t DEF PresentInactive, TokensOK, Issued, Owners
  <2>2. ~InGoodStanding(grant[tokenOf[t]])
    BY <1>7 DEF PresentInactive, DefinitelyInactive, InGoodStanding, Reads
  <2>3. tokenOf[t] \in blemished'
    BY <1>7, <2>1, <2>2 DEF Stains, Good, PresentInactive
  <2>4. QED
    BY <1>7, <1>t, <2>1, <2>3, PurgeDrops DEF PresentInactive
<1>8. CASE AccountMissing
  <2>1. turn.client \in Service /\ turn.client \in Clients
    BY <1>8, <1>t, TurnTypes, Constants DEF AccountMissing
  <2>2. cred[turn.client] = "gone" /\ blemished' = blemished
    BY <1>8 DEF AccountMissing, Reads
  <2>3. turn.client \in blemished'
    BY <2>1, <2>2 DEF Stains
  <2>4. Purge(turn.client) /\ tokenOf' = tokenOf /\ expired' = expired
    BY <1>8 DEF AccountMissing
  <2>5. QED
    BY <1>t, <2>1, <2>3, <2>4, PurgeDrops
<1>9. ASSUME NEW c \in Clients, EndHere(c) PROVE Dropping
  <2>1. c \in blemished' /\ Purge(c) /\ tokenOf' = tokenOf /\ expired' = expired
    BY <1>9 DEF EndHere
  <2>2. QED
    BY <1>t, <2>1, PurgeDrops
<1>10. CASE Age
  BY <1>10 DEF Age, Keeping, history
<1>11. ASSUME NEW c \in Clients, Register(c) \/ Change(c) PROVE Keeping
  BY <1>1, <1>11 DEF Register, Change, bearers, history
<1>12. ASSUME NEW s \in Service, VerifySecret(s) \/ IssueAccount(s) \/ RemoveAccount(s)
       PROVE Keeping
  BY <1>1, <1>12 DEF VerifySecret, IssueAccount, RemoveAccount, bearers, history
<1>13. CASE TurnAway
  BY <1>1, <1>13 DEF TurnAway, bearers, history
<1>14. ASSUME NEW k \in Codes, RefuseExchange(k) \/ \E c \in Clients : Authorize(c, k)
       PROVE Keeping
  BY <1>1, <1>14 DEF RefuseExchange, Authorize, bearers, history
<1>15. ASSUME NEW t \in Tokens, AskAccount(t) \/ PresentLapsed(t) PROVE Keeping
  BY <1>1, <1>15 DEF AskAccount, PresentLapsed, bearers, history
<1>16. ASSUME NEW r \in Requests, AdmitAccount(r) \/ Proceed(r) \/ \E t \in Tokens : Admit(r, t)
       PROVE Keeping
  BY <1>1, <1>16 DEF AdmitAccount, Proceed, Admit, bearers, history
<1>17. CASE UNCHANGED vars
  BY <1>1, <1>17 DEF vars, bearers, history
<1>18. CASE MarkExpired
  <2>1. turn.client \in blemished' /\ turn.client \in Clients
    BY <1>18, <1>t, TurnTypes DEF MarkExpired, Stains
  <2>2. Purge(turn.client) /\ tokenOf' = tokenOf /\ expired' = expired
    BY <1>18 DEF MarkExpired
  <2>3. QED
    BY <1>t, <2>1, <2>2, PurgeDrops
<1>19. QED
  BY <1>2, <1>3, <1>4, <1>5, <1>6, <1>7, <1>8, <1>9, <1>10, <1>11, <1>12, <1>13,
     <1>14, <1>15, <1>16, <1>17, <1>18 DEF Next

-----------------------------------------------------------------------------
(* The map, the file and the fates of the tokens.  Unless a write failed   *)
(* the two differ in expired tokens only, which is what makes a restart    *)
(* keep the living and forget the refused.                                 *)
Synced == harm = "none" => held \subseteq kept /\ kept \ held \subseteq expired
Kept ==
    /\ \A t \in Tokens \ Issued : fate[t] = "none"
    /\ Synced
    /\ RefusedForGood
    /\ GoodStandingKeeps

LEMMA KeptInit == Init => Kept
BY DEF Init, Kept, Synced, RefusedForGood, GoodStandingKeeps, Issued

LEMMA PersistSynced ==
  ASSUME Persist \/ (Unpersisted /\ Synced /\ held' \subseteq held
                     /\ held \ held' \subseteq expired), expired' = expired
  PROVE  Synced' /\ (harm' # "done" => harm # "done")
BY DEF Persist, Unpersisted, Synced

LEMMA KeptStep == TypeOK /\ Stains /\ Kept /\ [Next]_vars => Kept'
<1> SUFFICES ASSUME TypeOK, Stains, Kept, [Next]_vars PROVE Kept'
  OBVIOUS
<1>t. TokensOK /\ TokensOK'
  BY TypeParts, TokensStep
<1>b. blemished \subseteq blemished'
  BY StainsStay
<1>1. CASE Keeping
  BY <1>1, <1>b
     DEF Keeping, Kept, Synced, RefusedForGood, GoodStandingKeeps, Issued
<1>2. CASE Issuing
  <2>1. PICK t \in Tokens, c \in Clients : IssueToken(t, c)
    BY <1>2 DEF Issuing
  <2>2. /\ tokenOf[t] = NoClient /\ tokenOf' = [tokenOf EXCEPT ![t] = c]
        /\ expired' = expired /\ Persist
    BY <1>2, <1>t, <2>1, IssueExact DEF Issuing
  <2>3. PICK gone \in SUBSET held :
            /\ held' = (held \ gone) \cup {t}
            /\ fate' = [x \in Tokens |-> IF x \in gone THEN "evicted" ELSE fate[x]]
    BY <1>t, <2>1, IssueExact
  <2>4. /\ Issued' = Issued \cup {t} /\ t \notin Issued
        /\ \A x \in Issued : tokenOf'[x] = tokenOf[x]
    <3>1. tokenOf'[t] = c /\ c # NoClient /\ \A x \in Tokens \ {t} : tokenOf'[x] = tokenOf[x]
      BY <1>t, <2>2, Constants DEF TokensOK
    <3>2. QED
      BY <2>2, <3>1 DEF Issued
  <2>5. t \notin gone /\ fate'[t] = "none" /\ gone \subseteq Issued
    BY <1>t, <2>3, <2>4 DEF TokensOK, Kept
  <2>6. Synced' /\ (harm' # "done" => harm # "done")
    BY <2>2, PersistSynced
  <2>7. \A x \in Tokens \ Issued' : fate'[x] = "none"
    BY <2>3, <2>4, <2>5 DEF Kept
  <2>8. RefusedForGood'
    BY <1>t, <2>3, <2>5, <2>6 DEF RefusedForGood, Kept, TokensOK, Issued
  <2>9. GoodStandingKeeps'
    <3> SUFFICES ASSUME harm' # "done", NEW x \in Issued'
                 PROVE  \/ x \in held' \cup expired'
                        \/ fate'[x] \in {"evicted", "returned"}
                        \/ tokenOf'[x] \in blemished'
      BY DEF GoodStandingKeeps
    <3>1. CASE x = t
      BY <2>3, <3>1
    <3>2. CASE x \in Issued /\ x \in gone
      BY <2>3, <3>2 DEF Issued
    <3>3. CASE x \in Issued /\ x \notin gone
      BY <1>b, <2>2, <2>3, <2>4, <2>6, <3>3 DEF Kept, GoodStandingKeeps, Issued
    <3>4. QED
      BY <2>4, <3>1, <3>2, <3>3
  <2>10. QED
    BY <2>6, <2>7, <2>8, <2>9 DEF Kept
<1>3. CASE Dropping
  <2>1. PICK gone \in SUBSET held :
            /\ held' = held \ gone
            /\ \A t \in gone : ForAReason(t)
            /\ \A t \in Tokens \ gone : fate'[t] = fate[t]
            /\ Persist \/ (Unpersisted /\ gone \subseteq expired)
    BY <1>3 DEF Dropping
  <2>2. tokenOf' = tokenOf /\ expired' = expired /\ Issued' = Issued
    BY <1>3 DEF Dropping, Issued
  <2>3. Synced' /\ (harm' # "done" => harm # "done")
    <3>1. Persist \/ (Unpersisted /\ Synced /\ held' \subseteq held
                      /\ held \ held' \subseteq expired)
      BY <2>1 DEF Kept
    <3>2. QED
      BY <2>2, <3>1, PersistSynced
  <2>4. gone \subseteq Issued /\ Issued \subseteq Tokens
    BY <1>t DEF TokensOK, Issued
  <2>5. \A x \in Tokens \ Issued' : fate'[x] = "none"
    BY <2>1, <2>2, <2>4 DEF Kept
  <2>6. RefusedForGood'
    BY <1>t, <2>1, <2>3, <2>4 DEF RefusedForGood, Kept, TokensOK
  <2>7. GoodStandingKeeps'
    <3> SUFFICES ASSUME harm' # "done", NEW x \in Issued'
                 PROVE  \/ x \in held' \cup expired'
                        \/ fate'[x] \in {"evicted", "returned"}
                        \/ tokenOf'[x] \in blemished'
      BY DEF GoodStandingKeeps
    <3>0. \/ x \in held \cup expired
          \/ fate[x] \in {"evicted", "returned"}
          \/ tokenOf[x] \in blemished
      BY <2>2, <2>3 DEF Kept, GoodStandingKeeps
    <3>1. CASE x \in gone
      BY <2>1, <2>2, <3>1 DEF ForAReason
    <3>2. CASE x \notin gone
      BY <1>b, <2>1, <2>2, <2>4, <3>0, <3>2
    <3>3. QED
      BY <3>1, <3>2
  <2>8. QED
    BY <2>3, <2>5, <2>6, <2>7 DEF Kept
<1>4. CASE Restart
  <2>1. /\ UNCHANGED <<kept, tokenOf, expired, fate, blemished>> /\ Issued' = Issued
        /\ harm' # "done" => harm = "none" /\ harm' = "none" /\ held' = kept \ expired
    BY <1>4 DEF Restart, Issued
  <2>2. harm' # "done" => kept \ expired \subseteq held /\ held \subseteq kept
    BY <2>1 DEF Kept, Synced
  <2>3. Synced'
    BY <2>1 DEF Synced
  <2>4. RefusedForGood'
    BY <2>1, <2>2 DEF RefusedForGood, Kept
  <2>5. GoodStandingKeeps'
    BY <2>1, <2>2 DEF GoodStandingKeeps, Kept
  <2>6. QED
    BY <2>1, <2>3, <2>4, <2>5 DEF Kept
<1>5. QED
  BY <1>1, <1>2, <1>3, <1>4, TokenSteps

IInv == TypeOK /\ Stains /\ Kept

LEMMA Invariance == Spec => []IInv
<1>1. Init => IInv
  BY InitType, StainsInit, KeptInit DEF IInv
<1>2. IInv /\ [Next]_vars => IInv'
  BY TypeStep, StainsStep, KeptStep DEF IInv
<1>3. QED
  BY <1>1, <1>2, PTL DEF Spec

(* A bearer refused for good stays refused, whatever is approved, restarted *)
(* or unreadable later.                                                     *)
THEOREM RefusedStayRefused == Spec => []RefusedForGood
<1>1. IInv => RefusedForGood
  BY DEF IInv, Kept
<1>2. QED
  BY <1>1, Invariance, PTL

(* An agent in good standing is never made to authenticate again early.    *)
THEOREM StandingKeepsTokens == Spec => []GoodStandingKeeps
<1>1. IInv => GoodStandingKeeps
  BY DEF IInv, Kept
<1>2. QED
  BY <1>1, Invariance, PTL

-----------------------------------------------------------------------------
(* No request of a stopped client is let through. *)
THEOREM OnlyTheStandingAdmitted == Spec => AdmittedInStanding
<1> DEFINE Lets == \A r \in Requests, c \in Clients :
           waiting[r] # c /\ waiting'[r] = c =>
               IF c \in Service THEN cred[c] = "present" ELSE InGoodStanding(grant[c])
<1>1. TypeOK /\ [Next]_vars => [Lets]_vars
  <2> SUFFICES ASSUME TypeOK, [Next]_vars, NEW r \in Requests, NEW c \in Clients,
                      waiting[r] # c, waiting'[r] = c
               PROVE  IF c \in Service THEN cred[c] = "present" ELSE InGoodStanding(grant[c])
    OBVIOUS
  <2>t. ThreadOK /\ TokensOK /\ WorldOK
    BY TypeParts
  <2>n. c # NoClient
    BY Constants
  <2>1. CASE waiting' = waiting
    BY <2>1
  <2>2. ASSUME NEW q \in Requests, NEW t \in Tokens, Admit(q, t)
        PROVE  IF c \in Service THEN cred[c] = "present" ELSE InGoodStanding(grant[c])
    <3>1. c = tokenOf[t]
      BY <2>2, <2>t DEF Admit, ThreadOK
    <3>2. QED
      BY <2>2, <3>1 DEF Admit, NeedsNoAccount
  <2>3. ASSUME NEW q \in Requests, AdmitAccount(q)
        PROVE  IF c \in Service THEN cred[c] = "present" ELSE InGoodStanding(grant[c])
    <3>1. c = turn.client /\ turn.client \in Service
      BY <2>3, <2>t, TurnTypes DEF AdmitAccount, ThreadOK
    <3>2. QED
      BY <2>3, <3>1 DEF AdmitAccount, Reads
  <2>4. ASSUME NEW q \in Requests, Proceed(q) PROVE FALSE
    BY <2>4, <2>n, <2>t DEF Proceed, ThreadOK
  <2>5. CASE Restart
    BY <2>5, <2>n DEF Restart
  <2>6. QED
    BY <2>1, <2>2, <2>3, <2>4, <2>5
       DEF Next, vars, Sweep, Age, MarkExpired, AccountMissing, TurnAway, Register, EndHere,
           Change, VerifySecret, IssueAccount, RemoveAccount, RefuseExchange, Authorize,
           Exchange, Login, RevokeToken, PresentExpired, PresentInactive, PresentLapsed, AskAccount
<1>2. QED
  BY <1>1, TypeCorrect, PTL DEF Spec, AdmittedInStanding

-----------------------------------------------------------------------------
(* A code is void once a token was issued for it. *)
Spent == exchanged \subseteq {k \in Codes : codeOf[k] # NoClient} /\ CodesUsedOnce

LEMMA SpentStep == TypeOK /\ Spent /\ [Next]_vars => Spent'
<1> SUFFICES ASSUME TypeOK, Spent, [Next]_vars PROVE Spent'
  OBVIOUS
<1>t. CodesOK
  BY TypeParts
<1> USE DEF Spent, CodesUsedOnce
<1>1. CASE codeOf' = codeOf /\ exchanged' = exchanged /\ codes' \subseteq codes
  BY <1>1
<1>2. ASSUME NEW c \in Clients, NEW k \in Codes, Authorize(c, k) PROVE Spent'
  <2>1. /\ codeOf' = [codeOf EXCEPT ![k] = c] /\ codes' \subseteq codes \cup {k}
        /\ exchanged' = exchanged /\ k \notin exchanged
    BY <1>2 DEF Authorize, history
  <2>2. QED
    BY <1>t, <2>1, Constants DEF CodesOK
<1>3. ASSUME NEW k \in Codes, NEW t \in Tokens, Exchange(k, t) PROVE Spent'
  BY <1>3, <1>t DEF Exchange, Consume, CodesOK
<1>4. QED
  BY <1>1, <1>2, <1>3
     DEF Next, vars, authorization, history, Restart, Sweep, Age, MarkExpired, AccountMissing,
         TurnAway, Register, EndHere, Change, VerifySecret, IssueAccount, RemoveAccount,
         RefuseExchange, Consume, Login, RevokeToken, PresentExpired, PresentInactive,
         PresentLapsed, AskAccount, AdmitAccount, Proceed, Admit

(* One consent, one token. *)
THEOREM CodesAreUsedOnce == Spec => []CodesUsedOnce
<1>1. Init => Spent
  BY DEF Init, Spent, CodesUsedOnce
<1>2. TypeOK /\ Spent /\ [Next]_vars => Spent'
  BY SpentStep
<1>3. Spent => CodesUsedOnce
  BY DEF Spent
<1>4. QED
  BY <1>1, <1>2, <1>3, TypeCorrect, PTL DEF Spec

-----------------------------------------------------------------------------
(* A map that makes room before it grows never exceeds its limit. *)
LEMMA EvictionBounds ==
  ASSUME NEW map, NEW limit \in Nat \ {0}, IsFiniteSet(map), Cardinality(map) <= limit,
         NEW gone \in Evictions(map, limit), NEW e
  PROVE  Cardinality((map \ gone) \cup {e}) <= limit
<1>1. ASSUME NEW S, IsFiniteSet(S), Cardinality(S) < limit
      PROVE  Cardinality(S \cup {e}) <= limit
  <2>1. Cardinality(S) \in Nat
    BY <1>1, FS_CardinalityType
  <2>2. Cardinality(S \cup {e}) \in {Cardinality(S), Cardinality(S) + 1}
    BY <1>1, FS_AddElement
  <2>3. QED
    BY <1>1, <2>1, <2>2
<1>2. Cardinality(map) \in Nat
  BY FS_CardinalityType
<1>3. CASE Cardinality(map) >= limit
  <2>1. PICK x \in map : gone = {x}
    BY <1>3 DEF Evictions
  <2>2. IsFiniteSet(map \ {x}) /\ Cardinality(map \ {x}) = Cardinality(map) - 1
    BY FS_RemoveElement
  <2>3. QED
    BY <1>1, <1>2, <2>1, <2>2
<1>4. CASE ~(Cardinality(map) >= limit)
  <2>1. gone = {}
    BY <1>4 DEF Evictions
  <2>2. map \ gone = map /\ Cardinality(map) < limit
    BY <1>2, <1>4, <2>1
  <2>3. QED
    BY <1>1, <2>2
<1>5. QED
  BY <1>3, <1>4

LEMMA SubsetBounds ==
  ASSUME NEW map, NEW limit \in Nat, IsFiniteSet(map), Cardinality(map) <= limit,
         NEW S \in SUBSET map
  PROVE  Cardinality(S) <= limit
<1>1. Cardinality(S) <= Cardinality(map) /\ IsFiniteSet(S)
  BY FS_Subset
<1>2. Cardinality(S) \in Nat /\ Cardinality(map) \in Nat
  BY <1>1, FS_CardinalityType
<1>3. QED
  BY <1>1, <1>2

LEMMA MapsFinite == TypeOK => IsFiniteSet(codes) /\ IsFiniteSet(held) /\ IsFiniteSet(kept)
BY LimitsAssumption, FS_Subset DEF TypeOK, Issued

LEMMA CodesBoundedStep ==
  TypeOK /\ Cardinality(codes) <= MaxCodes /\ [Next]_vars => Cardinality(codes') <= MaxCodes
<1> SUFFICES ASSUME TypeOK, Cardinality(codes) <= MaxCodes, [Next]_vars
             PROVE  Cardinality(codes') <= MaxCodes
  OBVIOUS
<1>f. IsFiniteSet(codes) /\ MaxCodes \in Nat \ {0}
  BY MapsFinite, LimitsAssumption
<1>1. CASE codes' \subseteq codes
  BY <1>f, <1>1, SubsetBounds
<1>2. ASSUME NEW c \in Clients, NEW k \in Codes, Authorize(c, k)
      PROVE  Cardinality(codes') <= MaxCodes
  BY <1>f, <1>2, EvictionBounds DEF Authorize
<1>3. QED
  BY <1>1, <1>2
     DEF Next, vars, authorization, Restart, Sweep, Age, MarkExpired, AccountMissing, TurnAway,
         Register, EndHere, Change, VerifySecret, IssueAccount, RemoveAccount, RefuseExchange,
         Exchange, Consume, Login, RevokeToken, PresentExpired, PresentInactive, PresentLapsed, AskAccount,
         AdmitAccount, Proceed, Admit

LEMMA TokensBoundedStep ==
  TypeOK /\ Stains /\ MapsBounded /\ [Next]_vars
    => Cardinality(held') <= MaxTokens /\ Cardinality(kept') <= MaxTokens
<1> SUFFICES ASSUME TypeOK, Stains, MapsBounded, [Next]_vars
             PROVE  Cardinality(held') <= MaxTokens /\ Cardinality(kept') <= MaxTokens
  OBVIOUS
<1>f. /\ IsFiniteSet(held) /\ IsFiniteSet(kept) /\ MaxTokens \in Nat \ {0}
      /\ Cardinality(held) <= MaxTokens /\ Cardinality(kept) <= MaxTokens
  BY MapsFinite, LimitsAssumption DEF MapsBounded
<1>t. TokensOK
  BY TypeParts
<1>1. CASE Keeping
  BY <1>f, <1>1 DEF Keeping
<1>2. CASE Issuing
  <2>1. PICK t \in Tokens, c \in Clients : IssueToken(t, c)
    BY <1>2 DEF Issuing
  <2>2. Cardinality(held') <= MaxTokens
    BY <1>f, <2>1, EvictionBounds DEF IssueToken
  <2>3. kept' = held' \/ kept' = kept
    BY <2>1 DEF IssueToken, Persist
  <2>4. QED
    BY <1>f, <2>2, <2>3
<1>3. CASE Dropping
  <2>1. held' \subseteq held /\ (kept' = held' \/ kept' = kept)
    BY <1>3 DEF Dropping, Persist, Unpersisted
  <2>2. Cardinality(held') <= MaxTokens
    BY <1>f, <2>1, SubsetBounds
  <2>3. QED
    BY <1>f, <2>1, <2>2
<1>4. CASE Restart
  <2>1. held' \subseteq kept /\ kept' = kept
    BY <1>4 DEF Restart
  <2>2. QED
    BY <1>f, <2>1, SubsetBounds
<1>5. QED
  BY <1>1, <1>2, <1>3, <1>4, TokenSteps

(* Neither map ever outgrows its limit, and the file holds no more. *)
THEOREM MapsStayBounded == Spec => []MapsBounded
<1>1. Init => MapsBounded
  BY LimitsAssumption, FS_EmptySet DEF Init, MapsBounded
<1>2. TypeOK /\ Stains /\ MapsBounded /\ [Next]_vars => MapsBounded'
  BY CodesBoundedStep, TokensBoundedStep DEF MapsBounded
<1>3. QED
  BY <1>1, <1>2, TypeCorrect, Invariance, PTL DEF Spec, IInv

(* Refused bearers and exchanged codes stay void.                          *)
THEOREM VoidStaysVoid == Spec => []VoidForGood
<1>1. RefusedForGood /\ CodesUsedOnce => VoidForGood
  BY DEF VoidForGood
<1>2. QED
  BY <1>1, RefusedStayRefused, CodesAreUsedOnce, PTL
=============================================================================
