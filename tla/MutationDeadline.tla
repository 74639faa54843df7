-------------------------- MODULE MutationDeadline --------------------------
(***************************************************************************)
(* The coordinator of src/src/services/mailbox-mutation-deadline.ts: every *)
(* tool call that changes mail, and every scheduled send, runs under it.   *)
(* A call that is cancelled by its client or runs past its deadline closes *)
(* the transports its commands are on, which it shares with other calls,   *)
(* and tells all of them whether a retry is safe.  Of the services it uses *)
(* the module keeps what the coordinator sees: a command that lands or     *)
(* does not, and the generation check SMTPService makes when it does.      *)
(*                                                                         *)
(* One JavaScript thread: an action is what runs between two awaits.  A    *)
(* command is registered until the continuation of its promise has run.    *)
(***************************************************************************)
EXTENDS Naturals, FiniteSets

CONSTANTS
    Requests,    \* calls of withMailboxMutationDeadline and of its background form
    Background,  \* those of withBackgroundAccountMailMutation: no signal, no deadline
    Scopes,      \* the IMAP and SMTP services that own a shared transport
    Smtp,        \* those that are an SMTPService
    Routes,      \* Routes[r]: the scopes registered in the `transports` of r
    Lanes,       \* commands one call may have in flight on one scope (bound)
    MaxSent      \* MaxSent[r]: commands call r sends (bound)

ASSUME RequestAssumption == Background \subseteq Requests /\ IsFiniteSet(Requests)
ASSUME ScopeAssumption == Smtp \subseteq Scopes /\ Routes \in [Requests -> SUBSET Scopes]
ASSUME LaneAssumption == IsFiniteSet(Lanes)
ASSUME SentAssumption == MaxSent \in [Requests -> Nat]

VARIABLES
    stage,       \* "idle" before the call, "running" while its handler runs, "over"
    gone,        \* calls whose client has aborted the request's signal
    expired,     \* calls whose deadlineAt has passed
    abortError,  \* the state's abortError: "none", or what it says of a retry
    answer,      \* what the caller was told
    line,        \* line[r][s][l]: a command of r on s, see below
    active,      \* activeScopeCounts of each call
    peers,       \* activeMutationsByTransport
    dispatched,  \* calls whose wireMutationDispatched is set
    ambiguous,   \* calls whose handler is throwing sendEmail's own unknown-outcome error
    sent,        \* history: commands of each call that reached a transport
    cut          \* history: calls that had a command in flight on a transport when it closed

vars == <<stage, gone, expired, abortError, answer, line, active, peers,
          dispatched, ambiguous, sent, cut>>

(* "flying": the transport has it.  "severed": flying, but its transport   *)
(* was closed under it.  "landed": the transport's promise is settled, its *)
(* continuation has not run.  "doubtful": landed, on a transport that has  *)
(* been closed since it was dispatched.  "struck": the abort promise won.  *)
LineStates == {"free", "flying", "severed", "landed", "doubtful", "struck"}
InFlight == {"flying", "severed"}
Idle == [s \in Scopes |-> [l \in Lanes |-> "free"]]

Init ==
    /\ stage = [r \in Requests |-> "idle"]
    /\ gone = {}
    /\ expired = {}
    /\ abortError = [r \in Requests |-> "none"]
    /\ answer = [r \in Requests |-> "none"]
    /\ line = [r \in Requests |-> Idle]
    /\ active = [r \in Requests |-> [s \in Scopes |-> 0]]
    /\ peers = [s \in Scopes |-> {}]
    /\ dispatched = {}
    /\ ambiguous = {}
    /\ sent = [r \in Requests |-> 0]
    /\ cut = {}

----------------------------------------------------------------------------
(* abortMutationGroup. *)

(* The calls its breadth-first search visits: the least set that holds the *)
(* root and every call registered on a scope one of its members is on.     *)
ClosedGroup(root, A) ==
    /\ root \in A
    /\ \A q \in A, s \in Scopes : active[q][s] > 0 => peers[s] \subseteq A

Affected(root) == {q \in Requests : \A A \in SUBSET Requests : ClosedGroup(root, A) => q \in A}

Closing(root) == {s \in Scopes : \E q \in Affected(root) : active[q][s] > 0}

(* What becomes of a command when its call is or is not rejected and its   *)
(* transport is or is not closed.                                          *)
Cut(state, rejected, closed) ==
    IF rejected /\ state \in InFlight THEN "struck"
    ELSE IF closed /\ state = "landed" THEN "doubtful"
    ELSE IF closed /\ state = "flying" THEN "severed"
    ELSE state

OnTransports(S) == {r \in Requests : \E s \in S, l \in Lanes : line[r][s][l] \in InFlight}

Advice(r) == IF r \in dispatched THEN "unknown" ELSE "retry"

(* Reject every affected call, then close every transport they are on.     *)
AbortMutationGroup(root) ==
    LET rejected == {q \in Affected(root) : abortError[q] = "none"} IN
    /\ abortError' = [q \in Requests |-> IF q \in rejected THEN Advice(q) ELSE abortError[q]]
    /\ answer' = [q \in Requests |->
                    IF q \in rejected /\ answer[q] = "none" THEN Advice(q) ELSE answer[q]]
    /\ line' = [q \in Requests |-> [s \in Scopes |-> [l \in Lanes |->
                    Cut(line[q][s][l], q \in Affected(root), s \in Closing(root))]]]
    /\ cut' = cut \cup OnTransports(Closing(root))
    /\ UNCHANGED <<active, peers, dispatched, ambiguous, sent>>

----------------------------------------------------------------------------
(* The calls. *)

(* withMailboxMutationDeadline is entered with time left and a live        *)
(* client, or withBackgroundAccountMailMutation is: the handler starts.    *)
Enter(r) ==
    /\ stage[r] = "idle"
    /\ r \notin gone \cup expired
    /\ stage' = [stage EXCEPT ![r] = "running"]
    /\ UNCHANGED <<gone, expired, abortError, answer, line, active, peers,
                   dispatched, ambiguous, sent, cut>>

(* Entered after the deadline or after the client left: state.abort, and   *)
(* the operation is never started.                                         *)
EnterTooLate(r) ==
    /\ stage[r] = "idle"
    /\ r \in gone \cup expired
    /\ stage' = [stage EXCEPT ![r] = "over"]
    /\ AbortMutationGroup(r)
    /\ UNCHANGED <<gone, expired>>

(* The client aborts the request; onClientAbort runs unless it has not     *)
(* been installed yet.                                                     *)
ClientAborts(r) ==
    /\ r \notin Background \cup gone
    /\ answer[r] = "none"
    /\ gone' = gone \cup {r}
    /\ \/ stage[r] = "running" /\ AbortMutationGroup(r)
       \/ /\ stage[r] = "idle"
          /\ UNCHANGED <<abortError, answer, line, active, peers, dispatched,
                         ambiguous, sent, cut>>
    /\ UNCHANGED <<stage, expired>>

(* The clock passes deadlineAt. *)
Expire(r) ==
    /\ r \notin Background \cup expired
    /\ answer[r] = "none"
    /\ expired' = expired \cup {r}
    /\ UNCHANGED <<stage, gone, abortError, answer, line, active, peers,
                   dispatched, ambiguous, sent, cut>>

(* Mutant: the timer leaves a call alone while a command is in flight. *)
TimerFiresIdle(r) ==
    /\ stage[r] = "running"
    /\ r \in expired
    /\ answer[r] = "none"
    /\ line[r] = Idle
    /\ AbortMutationGroup(r)
    /\ UNCHANGED <<stage, gone, expired>>

(* The timer set on entry runs; an answered call has cleared it.           *)
TimerFires(r) ==
    /\ stage[r] = "running"
    /\ r \in expired
    /\ answer[r] = "none"
    /\ AbortMutationGroup(r)
    /\ UNCHANGED <<stage, gone, expired>>

(* Mutant: the deadline is checked on entry and by the timer only. *)
CanDispatchLate(r) == abortError[r] = "none"

(* assertMutationCanDispatch. *)
CanDispatch(r) == abortError[r] = "none" /\ r \notin gone \cup expired

(* The handler goes on: it has not thrown, and awaits no more than it may. *)
Continues(r) == stage[r] = "running" /\ r \notin ambiguous

(* runAccountMailMutation up to its await: activateScope, the sticky bit,  *)
(* and the command is on the transport.                                    *)
Dispatch(r, s, l) ==
    /\ Continues(r)
    /\ s \in Routes[r]
    /\ line[r][s][l] = "free"
    /\ sent[r] < MaxSent[r]
    /\ CanDispatch(r)
    /\ active' = [active EXCEPT ![r][s] = @ + 1]
    /\ peers' = [peers EXCEPT ![s] = IF active[r][s] = 0 THEN @ \cup {r} ELSE @]
    /\ dispatched' = dispatched \cup {r}
    /\ line' = [line EXCEPT ![r][s][l] = "flying"]
    /\ sent' = [sent EXCEPT ![r] = @ + 1]
    /\ UNCHANGED <<stage, gone, expired, abortError, answer, ambiguous, cut>>

(* operation() throws before it returns a promise: the scope is            *)
(* deactivated at once and the bit stays.                                  *)
DispatchThrows(r) ==
    /\ Continues(r)
    /\ CanDispatch(r)
    /\ dispatched' = dispatched \cup {r}
    /\ UNCHANGED <<stage, gone, expired, abortError, answer, line, active, peers,
                   ambiguous, sent, cut>>

(* The next command finds the deadline passed before the timer has run.    *)
DispatchTooLate(r) ==
    /\ Continues(r)
    /\ abortError[r] = "none"
    /\ ~CanDispatch(r)
    /\ AbortMutationGroup(r)
    /\ UNCHANGED <<stage, gone, expired>>

(* The transport's promise settles, with a result or an error. *)
Land(r, s, l) ==
    /\ line[r][s][l] \in InFlight
    /\ line' = [line EXCEPT ![r][s][l] = IF @ = "severed" THEN "doubtful" ELSE "landed"]
    /\ UNCHANGED <<stage, gone, expired, abortError, answer, active, peers,
                   dispatched, ambiguous, sent, cut>>

(* deactivateScope *)
Deactivate(r, s) ==
    /\ active' = [active EXCEPT ![r][s] = @ - 1]
    /\ peers' = [peers EXCEPT ![s] = IF active[r][s] > 1 THEN @ ELSE @ \ {r}]

(* Mutant: the bit is not sticky, it is cleared with the command. *)
ReturnClearsBit(r, s, l) ==
    /\ line[r][s][l] \in {"landed", "doubtful", "struck"}
    /\ line' = [line EXCEPT ![r][s][l] = "free"]
    /\ Deactivate(r, s)
    /\ dispatched' = dispatched \ {r}
    /\ UNCHANGED <<stage, gone, expired, abortError, answer, ambiguous, sent, cut>>

(* The continuation of a settled race: deactivateScope, and in sendEmail   *)
(* the check that the generation it dispatched on is still the current one.*)
Return(r, s, l) ==
    /\ line[r][s][l] \in {"landed", "doubtful", "struck"}
    /\ line' = [line EXCEPT ![r][s][l] = "free"]
    /\ Deactivate(r, s)
    /\ ambiguous' = IF s \in Smtp /\ line[r][s][l] = "doubtful"
                    THEN ambiguous \cup {r} ELSE ambiguous
    /\ UNCHANGED <<stage, gone, expired, abortError, answer, dispatched, sent, cut>>

(* The handler returns or throws when nothing of it is in flight; unless   *)
(* the call was answered before, this is its answer.                       *)
Finish(r) ==
    /\ stage[r] = "running"
    /\ line[r] = Idle
    /\ stage' = [stage EXCEPT ![r] = "over"]
    /\ answer' \in {[answer EXCEPT ![r] = a] :
                      a \in IF answer[r] # "none" THEN {answer[r]}
                            ELSE IF r \in ambiguous THEN {"unknown"} ELSE {"ok", "failed"}}
    /\ UNCHANGED <<gone, expired, abortError, line, active, peers,
                   dispatched, ambiguous, sent, cut>>

(* SMTPService replaces or closes its transporter for a reason of its own: *)
(* hardRetireTransport from reinitialize, close or wipeCredentials.        *)
Retire(s) ==
    /\ line' = [r \in Requests |-> [t \in Scopes |-> [l \in Lanes |->
                   Cut(line[r][t][l], FALSE, t = s)]]]
    /\ cut' = cut \cup OnTransports({s})
    /\ UNCHANGED <<stage, gone, expired, abortError, answer, active, peers,
                   dispatched, ambiguous, sent>>

Step(r) ==
    \/ Enter(r) \/ EnterTooLate(r)
    \/ ClientAborts(r) \/ Expire(r) \/ TimerFires(r)
    \/ DispatchThrows(r) \/ DispatchTooLate(r) \/ Finish(r)
    \/ \E s \in Scopes, l \in Lanes : Dispatch(r, s, l) \/ Land(r, s, l) \/ Return(r, s, l)

Next == (\E r \in Requests : Step(r)) \/ (\E s \in Smtp : Retire(s))

(* Time passes, timers fire, settled promises continue.  Nothing is said   *)
(* of the transports: a command may be in flight forever.                  *)
Fairness ==
    /\ \A r \in Requests : WF_vars(Expire(r)) /\ WF_vars(TimerFires(r))
    /\ \A r \in Requests, s \in Scopes, l \in Lanes : WF_vars(Return(r, s, l))

Spec == Init /\ [][Next]_vars /\ Fairness
----------------------------------------------------------------------------
(* Correctness. *)

(* Type correctness; no scope is deactivated more often than activated.    *)
TypeOK ==
    /\ stage \in [Requests -> {"idle", "running", "over"}]
    /\ gone \subseteq Requests
    /\ expired \subseteq Requests
    /\ abortError \in [Requests -> {"none", "retry", "unknown"}]
    /\ answer \in [Requests -> {"none", "ok", "failed", "retry", "unknown"}]
    /\ line \in [Requests -> [Scopes -> [Lanes -> LineStates]]]
    /\ active \in [Requests -> [Scopes -> Nat]]
    /\ peers \in [Scopes -> SUBSET Requests]
    /\ dispatched \subseteq Requests
    /\ ambiguous \subseteq Requests
    /\ sent \in [Requests -> Nat]
    /\ cut \subseteq Requests

(* A caller told that a retry is safe has had no command reach a transport,*)
(* and never will: MailboxMutationDeadlineError with outcomeUnknown false. *)
HonestRetry == \A r \in Requests : answer[r] = "retry" => sent[r] = 0

(* A call that had a command in flight when its transport was closed,      *)
(* whoever closed it, is never told a definite outcome: neither success,   *)
(* nor an ordinary failure, nor that a retry is safe.                      *)
CutNeverDefinite == \A r \in cut : answer[r] \in {"none", "unknown"}

(* No caller is told more of its commands than is known: neither that a    *)
(* retry is safe when one was sent, nor that one in flight at a close      *)
(* worked or failed.                                                       *)
HonestOutcomes == HonestRetry /\ CutNeverDefinite

(* Outside abortMutationGroup, the registry, the reference counts and the  *)
(* commands whose promise has not been dealt with agree.                   *)
Outstanding(r, s) == {l \in Lanes : line[r][s][l] # "free"}
Registered ==
    \A r \in Requests, s \in Scopes :
        /\ active[r][s] = Cardinality(Outstanding(r, s))
        /\ r \in peers[s] <=> active[r][s] > 0

(* No command reaches a transport for a call that has been answered, whose *)
(* client has gone or whose deadline has passed: an abandoned handler that *)
(* wakes up later writes nothing.                                          *)
NoLateWrite ==
    [][\A r \in Requests : sent'[r] # sent[r] =>
            /\ answer[r] = "none"
            /\ r \notin gone \cup expired]_vars

(* An abort does not spread beyond what it must close: a call is rejected  *)
(* by its own cancellation or deadline, or because it is on a transport    *)
(* with a rejected call at that moment; and the only transports that close *)
(* are those a rejected call is on.  (The rejected call may be the remains *)
(* of an earlier abort, until its continuation has run.)                   *)
Rejected(r) == abortError[r] = "none" /\ abortError'[r] # "none"
ClosedByAbort(s) ==
    /\ abortError' # abortError
    /\ \E r \in Requests, l \in Lanes :
          /\ line[r][s][l] \in {"flying", "landed"}
          /\ line'[r][s][l] \in {"severed", "struck", "doubtful"}
Contained ==
    [][/\ \A r \in Requests : Rejected(r) =>
            \/ r \in gone' \cup expired
            \/ \E s \in Scopes, q \in Requests \ {r} :
                  abortError'[q] # "none" /\ active[q][s] > 0 /\ active[r][s] > 0
       /\ \A s \in Scopes : ClosedByAbort(s) =>
            \E q \in Requests : abortError'[q] # "none" /\ active[q][s] > 0]_vars

(* Every interactive call is answered once it has started, even when its   *)
(* transport is wedged and its handler never returns.                      *)
Answered ==
    \A r \in Requests \ Background : stage[r] = "running" ~> answer[r] # "none"

(* What an abort rejected leaves the registry, so that a later abort does  *)
(* not spread to calls that only share a transport with its remains.       *)
Unwound ==
    \A r \in Requests, s \in Scopes : abortError[r] # "none" ~> r \notin peers[s]

----------------------------------------------------------------------------
(* The inductive invariant behind the safety properties, by call.          *)

RetryIsSafe(r) ==
    /\ sent[r] # 0 => r \in dispatched
    /\ abortError[r] = "retry" => r \notin dispatched
    /\ answer[r] = "retry" => abortError[r] = "retry"

(* A call that still runs and was not rejected has no answer yet. *)
OpenUnanswered(r) == stage[r] # "over" /\ abortError[r] = "none" => answer[r] = "none"

(* So has a call with a command in flight. *)
FlyingOpen(r) ==
    (\E s \in Scopes, l \in Lanes : line[r][s][l] \in InFlight)
        => answer[r] = "none" /\ abortError[r] = "none" /\ r \in dispatched

(* The doubt about a command that was cut off travels with the command to  *)
(* the handler, and from there into the answer.                            *)
DoubtKept(r) ==
    r \in cut =>
        /\ r \in dispatched
        /\ answer[r] \in {"none", "unknown"}
        /\ answer[r] = "none" =>
              \/ r \in ambiguous
              \/ \E s \in Smtp, l \in Lanes : line[r][s][l] \in {"severed", "doubtful"}

CallSound(r) == RetryIsSafe(r) /\ OpenUnanswered(r) /\ FlyingOpen(r) /\ DoubtKept(r)

DeadlineInvariant == Registered /\ \A r \in Requests : CallSound(r)
=============================================================================
