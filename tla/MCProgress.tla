------------------------------ MODULE MCProgress ------------------------------
(* What has to happen in the end.  Each behaviour is one of one component, from *)
(* its own initial states and under its own fairness, while the variables of    *)
(* the others stand still.                                                      *)
EXTENDS Grants, ConfigLock

CONSTANTS smtp, sender, scheduled, l1, l2, a1, p1, p2, k1

VARIABLES
  component,
  stage, gone, expired, abortError, answer, line, active, peers, dispatched, ambiguous, sent, cut

deadline ==
  <<stage, gone, expired, abortError, answer, line, active, peers, dispatched, ambiguous, sent, cut>>
all_vars == <<component, cl_vars, deadline, vars>>

(* Three writers of the configuration, two of them in one process.              *)
ThreeWriters == 1..3
TwoShareAProcess == <<1, 2, 2>>

(* A tool call and a scheduled send with commands in parallel on one transport. *)
DL == INSTANCE MutationDeadline WITH
  Requests <- {sender, scheduled}, Background <- {scheduled}, Scopes <- {smtp}, Smtp <- {smtp},
  Routes <- [r \in {sender, scheduled} |-> {smtp}], Lanes <- {l1, l2}, MaxSent <- [r \in {sender, scheduled} |-> 2]

Components == {"config_lock", "deadline", "grants"}

ProgressInit ==
  /\ component \in Components
  /\ CLInit /\ DL!Init /\ Init

ProgressNext ==
  /\ UNCHANGED component
  /\ IF component = "config_lock" THEN CLNext ELSE UNCHANGED cl_vars
  /\ IF component = "deadline" THEN DL!Next ELSE UNCHANGED deadline
  /\ IF component = "grants" THEN Next ELSE UNCHANGED vars

(* The fairness of each component, as its module states and justifies it.       *)
LockFair == \A w \in Writers : WF_cl_vars(component = "config_lock" /\ Advances(w))

DeadlineFair ==
  /\ \A r \in {sender, scheduled} :
       WF_deadline(component = "deadline" /\ DL!Expire(r)) /\ WF_deadline(component = "deadline" /\ DL!TimerFires(r))
  /\ \A r \in {sender, scheduled}, l \in {l1, l2} : WF_deadline(component = "deadline" /\ DL!Return(r, smtp, l))

GrantsFair ==
  /\ WF_vars(component = "grants" /\ Tick)
  /\ \A p \in Serving :
       SF_vars(component = "grants" /\ ExpireStale(p, TRUE)) /\ WF_vars(component = "grants" /\ Sequence(p))

ProgressSpec ==
  /\ ProgressInit /\ [][ProgressNext]_all_vars
  /\ LockFair /\ DeadlineFair /\ GrantsFair

------------------------------------------------------------------------------
(* MutationDeadline: every interactive call is answered, and what an abort      *)
(* rejected leaves the registry.                                                *)
CallsEnd == DL!Answered /\ DL!Unwound

==============================================================================
