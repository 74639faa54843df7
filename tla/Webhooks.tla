------------------------------- MODULE Webhooks -------------------------------
(* Grant events sent to the configured endpoints: every event to every enabled, *)
(* subscribed endpoint at the same time, each with its own attempts, name       *)
(* lookups, connections and waits, until it is answered, refused or given up.   *)
EXTENDS Naturals

CONSTANTS
  Endpoints,
  PrivateLiterals,  \* of them, those whose URL names a private target or is no URL
  MAX_ATTEMPTS,
  MaxEvents,        \* bound: events emitted
  MaxMoves          \* bound: changes of the names and of the configuration, restarts

ASSUME AttemptsAssumption == MAX_ATTEMPTS \in Nat \ {0}

Address == {"public", "private"}
Deliveries == Endpoints \X (1..MaxEvents)  \* of an endpoint and an event
Ended == {"skipped", "invalid", "delivered", "refused", "redirected", "private", "exhausted", "dropped"}
Idle == [at |-> "none", attempt |-> 0, pinned |-> "none"]

VARIABLES
  emitted,     \* events so far
  wanted,      \* the configuration: endpoints enabled and subscribed to what comes next
  names,       \* the addresses the endpoints' host names stand for now
  delivery,    \* of each endpoint and event: where it is, in which attempt, to which address
  taken,       \* what the endpoint did: how often it processed the event
  unanswered,  \* history: attempts processed whose answer was lost or an error
  reached,     \* history: addresses connected to
  moves        \* of the bound

wh_vars == <<emitted, wanted, names, delivery, taken, unanswered, reached, moves>>

WHInit ==
  /\ emitted = 0 /\ wanted = Endpoints /\ names = {"public"} /\ moves = 0
  /\ delivery = [d \in Deliveries |-> Idle]
  /\ taken = [d \in Deliveries |-> 0]
  /\ unanswered = taken /\ reached = {}

Goes(d, at) == delivery' = [delivery EXCEPT ![d].at = at]
Outside == UNCHANGED <<emitted, wanted, names, moves>>
Counts == UNCHANGED <<taken, unanswered, reached>>

------------------------------------------------------------------------------
(* An event starts a delivery to every enabled endpoint; an endpoint that did   *)
(* not subscribe, or whose URL is unusable or plainly private, ends its own.    *)
deliverAll ==
  /\ emitted < MaxEvents
  /\ emitted' = emitted + 1
  /\ delivery' = [d \in Deliveries |->
       IF d[2] # emitted' THEN delivery[d]
       ELSE IF d[1] \notin wanted THEN [Idle EXCEPT !.at = "skipped"]
       ELSE IF d[1] \in PrivateLiterals THEN [Idle EXCEPT !.at = "invalid"]
       ELSE [Idle EXCEPT !.at = "resolving", !.attempt = 1]]
  /\ UNCHANGED <<wanted, names, moves>> /\ Counts

(* One private answer refuses the name for good; none, a malformed one or a     *)
(* lookup that takes the attempt's time fails the attempt.                      *)
FailsAttempt(d) == Goes(d, IF delivery[d].attempt < MAX_ATTEMPTS THEN "waiting" ELSE "exhausted")

resolveTarget(d) ==
  /\ delivery[d].at = "resolving"
  /\ \/ /\ "private" \in names
        /\ Goes(d, "private")
     \/ /\ "private" \notin names
        /\ \E a \in names : delivery' = [delivery EXCEPT ![d] = [@ EXCEPT !.at = "posting", !.pinned = a]]
     \/ FailsAttempt(d)
  /\ Outside /\ Counts

(* Mutant: the connection looks the name up again.                              *)
Rebound(d) == names
Target(d) == {delivery[d].pinned}

(* The request, what the endpoint makes of it, and the answer or the lack of it *)
(* before the attempt's deadline.                                               *)
Permanent(answer) == answer \in {"redirected", "refused"}
Answered(d, answer) ==
  IF answer = "ok" THEN Goes(d, "delivered")
  ELSE IF Permanent(answer) THEN Goes(d, answer)
  ELSE FailsAttempt(d)

postWithTimeout(d) == \E processed \in BOOLEAN, answer \in {"ok", "redirected", "refused", "error", "none"} :
  /\ delivery[d].at = "posting"
  /\ answer = "ok" => processed
  /\ answer \in {"redirected", "refused"} => ~processed
  /\ reached' = reached \cup Target(d)
  /\ taken' = [taken EXCEPT ![d] = @ + (IF processed THEN 1 ELSE 0)]
  /\ unanswered' = [unanswered EXCEPT ![d] = @ + (IF processed /\ answer # "ok" THEN 1 ELSE 0)]
  /\ Answered(d, answer)
  /\ Outside

NextAttempt(d) ==
  /\ delivery[d].at = "waiting"
  /\ delivery' = [delivery EXCEPT ![d] = [at |-> "resolving", attempt |-> @.attempt + 1, pinned |-> "none"]]
  /\ Outside /\ Counts

Move == moves < MaxMoves /\ moves' = moves + 1
Renamed == \E n \in SUBSET Address \ {{}} :
  Move /\ names' = n /\ UNCHANGED <<emitted, wanted, delivery>> /\ Counts
Reconfigured == \E w \in SUBSET Endpoints :
  Move /\ wanted' = w /\ UNCHANGED <<emitted, names, delivery>> /\ Counts
(* What is in flight is only in memory.                                         *)
Stopped ==
  /\ Move
  /\ delivery' = [d \in Deliveries |->
       IF delivery[d].at \in Ended \cup {"none"} THEN delivery[d] ELSE [delivery[d] EXCEPT !.at = "dropped"]]
  /\ UNCHANGED <<emitted, wanted, names>> /\ Counts

WHNext ==
  \/ deliverAll \/ Renamed \/ Reconfigured \/ Stopped
  \/ \E d \in Deliveries : resolveTarget(d) \/ postWithTimeout(d) \/ NextAttempt(d)

WHSpec == WHInit /\ [][WHNext]_wh_vars

------------------------------------------------------------------------------
(* Properties.                                                                  *)

(* An endpoint processes an event again only if its answer to the time before   *)
(* was lost or an error; a delivery that ends undelivered met a permanent       *)
(* refusal or used all its attempts; and no connection goes to an address the   *)
(* check of the same attempt did not pass, whatever the name stands for by then.*)
WebhooksHold ==
  /\ "private" \notin reached
  /\ \A d \in Deliveries :
       /\ taken[d] <= unanswered[d] + 1
       /\ delivery[d].at = "delivered" => taken[d] = unanswered[d] + 1
       /\ delivery[d].at = "exhausted" => delivery[d].attempt = MAX_ATTEMPTS

==============================================================================
