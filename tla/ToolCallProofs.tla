---------------------------- MODULE ToolCallProofs ----------------------------
(* Theorems about a tool call: the coordinator of mailbox-mutation-deadline.ts, *)
(* the gates of the call in index.ts, and the folders of a restricted grant.    *)
EXTENDS MutationDeadline, CallGate, FolderScope, FiniteSetTheorems, SequenceTheorems, TLAPS

Inv == TypeOK /\ DeadlineInvariant

LEMMA Constants ==
  /\ Background \subseteq Requests
  /\ Smtp \subseteq Scopes
  /\ \A r \in Requests : Routes[r] \subseteq Scopes
  /\ IsFiniteSet(Lanes)
BY RequestAssumption, ScopeAssumption, LaneAssumption

(* The breadth-first search leaves no registered peer behind.              *)
LEMMA GroupIsClosed ==
  ASSUME TypeOK, NEW root \in Requests, NEW q \in Affected(root),
         NEW s \in Scopes, active[q][s] > 0, NEW p \in peers[s]
  PROVE  p \in Affected(root)
<1>1. p \in Requests
  BY DEF TypeOK
<1>2. ASSUME NEW A \in SUBSET Requests, ClosedGroup(root, A) PROVE p \in A
  <2>1. q \in A
    BY <1>2 DEF Affected
  <2>2. QED
    BY <1>2, <2>1 DEF ClosedGroup
<1>3. QED
  BY <1>1, <1>2 DEF Affected

LEMMA RootIsAffected ==
  ASSUME NEW root \in Requests
  PROVE  root \in Affected(root)
BY DEF Affected, ClosedGroup

LEMMA OutstandingFinite ==
  ASSUME NEW r \in Requests, NEW s \in Scopes
  PROVE  IsFiniteSet(Outstanding(r, s)) /\ Cardinality(Outstanding(r, s)) \in Nat
<1>1. Outstanding(r, s) \subseteq Lanes
  BY DEF Outstanding
<1>2. QED
  BY <1>1, Constants, FS_Subset, FS_CardinalityType

(* A call with an outstanding command is registered where it is.           *)
LEMMA OutstandingIsRegistered ==
  ASSUME TypeOK, Registered, NEW r \in Requests, NEW s \in Scopes, NEW l \in Lanes,
         line[r][s][l] # "free"
  PROVE  active[r][s] > 0 /\ r \in peers[s]
<1>1. l \in Outstanding(r, s)
  BY DEF Outstanding
<1>2. Cardinality(Outstanding(r, s)) # 0
  BY <1>1, OutstandingFinite, FS_EmptySet
<1>3. active[r][s] = Cardinality(Outstanding(r, s))
  BY DEF Registered
<1>4. active[r][s] > 0
  BY <1>2, <1>3, OutstandingFinite
<1>5. QED
  BY <1>4 DEF Registered

(* A step that frees no line and takes none keeps the registry as it is.   *)
LEMMA RegistryKept ==
  ASSUME Registered, UNCHANGED <<active, peers>>,
         \A r \in Requests, s \in Scopes, l \in Lanes :
            line'[r][s][l] = "free" <=> line[r][s][l] = "free"
  PROVE  Registered'
<1> SUFFICES ASSUME NEW r \in Requests, NEW s \in Scopes
             PROVE  /\ active'[r][s] = Cardinality(Outstanding(r, s)')
                    /\ r \in peers'[s] <=> active'[r][s] > 0
  BY DEF Registered
<1>1. Outstanding(r, s)' = Outstanding(r, s)
  BY DEF Outstanding
<1>2. QED
  BY <1>1 DEF Registered

(* Every call whose command flies on a transport of the group is affected. *)
LEMMA CutIsAffected ==
  ASSUME Inv, NEW root \in Requests, NEW r \in OnTransports(Closing(root))
  PROVE  r \in Affected(root) /\ answer[r] = "none" /\ abortError[r] = "none" /\ r \in dispatched
<1>1. PICK s \in Closing(root), l \in Lanes : line[r][s][l] \in InFlight
  BY DEF OnTransports
<1>2. s \in Scopes /\ r \in Requests
  BY DEF Closing, OnTransports
<1>3. PICK q \in Affected(root) : active[q][s] > 0
  BY DEF Closing
<1>4. line[r][s][l] # "free"
  BY <1>1 DEF InFlight
<1>5. r \in peers[s]
  BY <1>2, <1>4, OutstandingIsRegistered DEF Inv, DeadlineInvariant
<1>6. r \in Affected(root)
  BY <1>2, <1>3, <1>5, GroupIsClosed DEF Inv
<1>7. FlyingOpen(r)
  BY <1>2 DEF Inv, DeadlineInvariant, CallSound
<1>8. QED
  BY <1>1, <1>2, <1>6, <1>7 DEF FlyingOpen

----------------------------------------------------------------------------
(* abortMutationGroup, with whatever the caller does to the call's stage,  *)
(* the client's signal and the clock.                                      *)
LEMMA AbortKeepsType ==
  ASSUME Inv, NEW root \in Requests, AbortMutationGroup(root),
         stage' \in [Requests -> {"idle", "running", "over"}],
         gone' \subseteq Requests, expired' \subseteq Requests
  PROVE  TypeOK'
<1> USE DEF Inv
<1>1. \A q \in Requests : Advice(q) \in {"retry", "unknown"}
  BY DEF Advice
<1>2. /\ abortError' \in [Requests -> {"none", "retry", "unknown"}]
      /\ answer' \in [Requests -> {"none", "ok", "failed", "retry", "unknown"}]
  BY <1>1 DEF AbortMutationGroup, TypeOK
<1>3. line' \in [Requests -> [Scopes -> [Lanes -> LineStates]]]
  BY DEF AbortMutationGroup, TypeOK, Cut, LineStates
<1>4. cut' \subseteq Requests
  BY DEF AbortMutationGroup, TypeOK, OnTransports
<1>5. /\ active' = active /\ peers' = peers /\ dispatched' = dispatched
      /\ ambiguous' = ambiguous /\ sent' = sent
  BY DEF AbortMutationGroup
<1>6. QED
  BY <1>2, <1>3, <1>4, <1>5 DEF TypeOK

LEMMA AbortKeepsRegistry ==
  ASSUME Inv, NEW root \in Requests, AbortMutationGroup(root)
  PROVE  Registered'
<1>1. ASSUME NEW r \in Requests, NEW s \in Scopes, NEW l \in Lanes
      PROVE  line'[r][s][l] = "free" <=> line[r][s][l] = "free"
  <2>1. line[r][s][l] \in LineStates
    BY DEF Inv, TypeOK
  <2>2. line'[r][s][l] = Cut(line[r][s][l], r \in Affected(root), s \in Closing(root))
    BY DEF AbortMutationGroup
  <2>3. QED
    BY <2>1, <2>2 DEF Cut, LineStates, InFlight
<1>2. UNCHANGED <<active, peers>>
  BY DEF AbortMutationGroup
<1>3. QED
  BY <1>1, <1>2, RegistryKept DEF Inv, DeadlineInvariant

LEMMA AbortKeepsCalls ==
  ASSUME Inv, NEW root \in Requests, AbortMutationGroup(root), NEW r \in Requests,
         stage'[r] \in {stage[r], "over"}
  PROVE  CallSound(r)'
<1> DEFINE rejects == r \in Affected(root) /\ abortError[r] = "none"
<1>1. CallSound(r)
  BY DEF Inv, DeadlineInvariant
<1>2. /\ abortError[r] \in {"none", "retry", "unknown"}
      /\ answer[r] \in {"none", "ok", "failed", "retry", "unknown"}
  BY DEF Inv, TypeOK
<1>3. /\ sent' = sent /\ dispatched' = dispatched /\ ambiguous' = ambiguous
      /\ abortError'[r] = IF rejects THEN Advice(r) ELSE abortError[r]
      /\ answer'[r] = IF rejects /\ answer[r] = "none" THEN Advice(r) ELSE answer[r]
  BY DEF AbortMutationGroup
<1>4. ASSUME NEW s \in Scopes, NEW l \in Lanes
      PROVE  /\ line[r][s][l] \in LineStates
             /\ line'[r][s][l] = Cut(line[r][s][l], r \in Affected(root), s \in Closing(root))
  BY DEF AbortMutationGroup, Inv, TypeOK
<1>5. RetryIsSafe(r)'
  <2>1. answer'[r] = "retry" => abortError'[r] = "retry"
    BY <1>1, <1>2, <1>3 DEF CallSound, RetryIsSafe, Advice
  <2>2. abortError'[r] = "retry" => r \notin dispatched
    BY <1>1, <1>2, <1>3 DEF CallSound, RetryIsSafe, Advice
  <2>3. QED
    BY <1>1, <1>3, <2>1, <2>2 DEF CallSound, RetryIsSafe
<1>6. OpenUnanswered(r)'
  BY <1>1, <1>2, <1>3 DEF CallSound, OpenUnanswered, Advice
<1>7. FlyingOpen(r)'
  <2> SUFFICES ASSUME NEW s \in Scopes, NEW l \in Lanes, line'[r][s][l] \in InFlight
               PROVE  answer'[r] = "none" /\ abortError'[r] = "none" /\ r \in dispatched'
    BY DEF FlyingOpen
  <2>1. line[r][s][l] \in InFlight /\ r \notin Affected(root)
    BY <1>4 DEF Cut, InFlight
  <2>2. QED
    BY <1>1, <1>3, <2>1 DEF CallSound, FlyingOpen
<1>8. DoubtKept(r)'
  <2> SUFFICES ASSUME r \in cut' PROVE DoubtKept(r)'
    BY DEF DoubtKept
  <2>1. CASE r \in OnTransports(Closing(root))
    <3>1. rejects /\ answer[r] = "none" /\ r \in dispatched
      BY <2>1, CutIsAffected
    <3>2. answer'[r] = "unknown" /\ r \in dispatched'
      BY <1>3, <3>1 DEF Advice
    <3>3. QED
      BY <3>2 DEF DoubtKept
  <2>2. CASE r \notin OnTransports(Closing(root))
    <3>1. r \in cut
      BY <2>2 DEF AbortMutationGroup
    <3>2. r \in dispatched /\ answer[r] \in {"none", "unknown"}
      BY <1>1, <3>1 DEF CallSound, DoubtKept
    <3>3. CASE rejects
      BY <1>3, <3>2, <3>3 DEF DoubtKept, Advice
    <3>4. CASE ~rejects
      <4>1. r \in dispatched' /\ answer'[r] = answer[r]
        BY <1>3, <3>2, <3>4
      <4>2. ASSUME answer[r] = "none", r \notin ambiguous
            PROVE  \E s \in Smtp, l \in Lanes : line'[r][s][l] \in {"severed", "doubtful"}
        <5>1. PICK s \in Smtp, l \in Lanes : line[r][s][l] \in {"severed", "doubtful"}
          BY <1>1, <3>1, <4>2 DEF CallSound, DoubtKept
        <5>2. s \in Scopes
          BY Constants
        <5>3. line[r][s][l] = "severed" => r \notin Affected(root)
          BY <1>1, <3>4, <5>1, <5>2 DEF CallSound, FlyingOpen, InFlight
        <5>4. line'[r][s][l] = line[r][s][l]
          BY <1>4, <5>1, <5>2, <5>3 DEF Cut, InFlight
        <5>5. QED
          BY <5>1, <5>4
      <4>3. QED
        BY <1>3, <3>2, <4>1, <4>2 DEF DoubtKept
    <3>5. QED
      BY <3>3, <3>4
  <2>3. QED
    BY <2>1, <2>2
<1>9. QED
  BY <1>5, <1>6, <1>7, <1>8 DEF CallSound

LEMMA AbortStep ==
  ASSUME Inv, NEW root \in Requests, AbortMutationGroup(root),
         stage' \in [Requests -> {"idle", "running", "over"}],
         \A r \in Requests : stage'[r] \in {stage[r], "over"},
         gone' \subseteq Requests, expired' \subseteq Requests
  PROVE  Inv'
BY AbortKeepsType, AbortKeepsRegistry, AbortKeepsCalls DEF Inv, DeadlineInvariant

----------------------------------------------------------------------------
(* The actions. *)

(* What a step leaves alone of a call it keeps sound.                      *)
LEMMA Bystander ==
  ASSUME NEW r \in Requests, CallSound(r),
         stage'[r] = stage[r], abortError'[r] = abortError[r], answer'[r] = answer[r],
         line'[r] = line[r], sent'[r] = sent[r],
         r \in dispatched' <=> r \in dispatched,
         r \in ambiguous' <=> r \in ambiguous,
         r \in cut' <=> r \in cut
  PROVE  CallSound(r)'
BY DEF CallSound, RetryIsSafe, OpenUnanswered, FlyingOpen, DoubtKept

LEMMA AbortingSteps ==
  ASSUME Inv, NEW r \in Requests,
         \/ EnterTooLate(r)
         \/ ClientAborts(r) /\ stage[r] = "running"
         \/ TimerFires(r)
         \/ DispatchTooLate(r)
  PROVE  Inv'
<1>1. /\ AbortMutationGroup(r)
      /\ stage' = stage \/ stage' = [stage EXCEPT ![r] = "over"]
      /\ expired' = expired /\ gone' \in {gone, gone \cup {r}}
  BY DEF EnterTooLate, ClientAborts, TimerFires, DispatchTooLate
<1>2. /\ stage' \in [Requests -> {"idle", "running", "over"}]
      /\ \A q \in Requests : stage'[q] \in {stage[q], "over"}
      /\ gone' \subseteq Requests /\ expired' \subseteq Requests
  BY <1>1 DEF Inv, TypeOK
<1>3. QED
  BY <1>1, <1>2, AbortStep

(* The calls and the clock change nothing an invariant looks at, except    *)
(* that a call starts.                                                     *)
LEMMA QuietSteps ==
  ASSUME Inv, NEW r \in Requests,
         Enter(r) \/ (ClientAborts(r) /\ stage[r] = "idle") \/ Expire(r)
  PROVE  Inv'
<1>1. /\ UNCHANGED <<abortError, answer, line, active, peers, dispatched, ambiguous, sent, cut>>
      /\ stage' = stage \/ (stage[r] = "idle" /\ stage' = [stage EXCEPT ![r] = "running"])
      /\ gone' \subseteq Requests /\ expired' \subseteq Requests
  BY DEF Enter, ClientAborts, Expire, Inv, TypeOK
<1>2. TypeOK'
  BY <1>1 DEF Inv, TypeOK
<1>3. Registered'
  BY <1>1, RegistryKept DEF Inv, DeadlineInvariant
<1>4. ASSUME NEW q \in Requests PROVE CallSound(q)'
  <2>1. CallSound(q) /\ (stage'[q] # "over" => stage[q] # "over")
    BY <1>1 DEF Inv, DeadlineInvariant, TypeOK
  <2>2. QED
    BY <1>1, <2>1 DEF CallSound, RetryIsSafe, OpenUnanswered, FlyingOpen, DoubtKept
<1>5. QED
  BY <1>2, <1>3, <1>4 DEF Inv, DeadlineInvariant

LEMMA DispatchStep ==
  ASSUME Inv, NEW r \in Requests, NEW s \in Scopes, NEW l \in Lanes, Dispatch(r, s, l)
  PROVE  Inv'
<1> USE DEF Inv
<1>1. /\ line[r][s][l] = "free" /\ abortError[r] = "none" /\ stage[r] = "running"
      /\ active' = [active EXCEPT ![r][s] = @ + 1]
      /\ peers' = [peers EXCEPT ![s] = IF active[r][s] = 0 THEN @ \cup {r} ELSE @]
      /\ dispatched' = dispatched \cup {r}
      /\ line' = [line EXCEPT ![r][s][l] = "flying"]
      /\ sent' = [sent EXCEPT ![r] = @ + 1]
      /\ UNCHANGED <<stage, gone, expired, abortError, answer, ambiguous, cut>>
  BY DEF Dispatch, CanDispatch, Continues
<1>2. TypeOK'
  BY <1>1, SentAssumption DEF TypeOK, LineStates, Dispatch
<1>3. Registered'
  <2> SUFFICES ASSUME NEW q \in Requests, NEW t \in Scopes
               PROVE  /\ active'[q][t] = Cardinality(Outstanding(q, t)')
                      /\ q \in peers'[t] <=> active'[q][t] > 0
    BY DEF Registered
  <2>0. /\ active[q][t] = Cardinality(Outstanding(q, t))
        /\ q \in peers[t] <=> active[q][t] > 0
    BY DEF DeadlineInvariant, Registered
  <2>1. CASE q = r /\ t = s
    <3>1. l \notin Outstanding(r, s) /\ Outstanding(r, s)' = Outstanding(r, s) \cup {l}
      BY <1>1 DEF Outstanding, TypeOK
    <3>2. Cardinality(Outstanding(r, s)') = Cardinality(Outstanding(r, s)) + 1
      BY <3>1, OutstandingFinite, FS_AddElement
    <3>3. active'[r][s] = active[r][s] + 1 /\ active[r][s] \in Nat
      BY <1>1 DEF TypeOK
    <3>4. r \in peers'[s]
      BY <1>1, <2>0, <2>1, <3>3 DEF TypeOK
    <3>5. QED
      BY <2>0, <2>1, <3>2, <3>3, <3>4
  <2>2. CASE ~(q = r /\ t = s)
    <3>1. Outstanding(q, t)' = Outstanding(q, t)
      BY <1>1, <2>2 DEF Outstanding, TypeOK
    <3>2. active'[q][t] = active[q][t] /\ (q \in peers'[t] <=> q \in peers[t])
      BY <1>1, <2>2 DEF TypeOK
    <3>3. QED
      BY <2>0, <3>1, <3>2
  <2>3. QED
    BY <2>1, <2>2
<1>4. ASSUME NEW q \in Requests PROVE CallSound(q)'
  <2>1. CallSound(q)
    BY DEF DeadlineInvariant
  <2>2. CASE q # r
    <3>1. line'[q] = line[q] /\ sent'[q] = sent[q] /\ (q \in dispatched' <=> q \in dispatched)
      BY <1>1, <2>2 DEF TypeOK
    <3>2. QED
      BY <1>1, <2>1, <3>1, Bystander
  <2>3. CASE q = r
    <3>1. answer[r] = "none"
      BY <1>1, <2>1, <2>3 DEF CallSound, OpenUnanswered
    <3>2. /\ answer'[r] = "none" /\ abortError'[r] = "none" /\ r \in dispatched'
          /\ cut' = cut /\ ambiguous' = ambiguous
      BY <1>1, <3>1
    <3>3. r \in cut => r \in ambiguous'
             \/ \E t \in Smtp, m \in Lanes : line'[r][t][m] \in {"severed", "doubtful"}
      <4> SUFFICES ASSUME r \in cut, r \notin ambiguous
                   PROVE  \E t \in Smtp, m \in Lanes : line'[r][t][m] \in {"severed", "doubtful"}
        BY <3>2
      <4>1. PICK t \in Smtp, m \in Lanes : line[r][t][m] \in {"severed", "doubtful"}
        BY <2>1, <2>3, <3>1 DEF CallSound, DoubtKept
      <4>2. line'[r][t][m] = line[r][t][m]
        BY <1>1, <4>1, Constants DEF TypeOK
      <4>3. QED
        BY <4>1, <4>2
    <3>4. QED
      BY <2>3, <3>2, <3>3 DEF CallSound, RetryIsSafe, OpenUnanswered, FlyingOpen, DoubtKept
  <2>4. QED
    BY <2>2, <2>3
<1>5. QED
  BY <1>2, <1>3, <1>4 DEF DeadlineInvariant

LEMMA ThrowStep ==
  ASSUME Inv, NEW r \in Requests, DispatchThrows(r)
  PROVE  Inv'
<1>1. /\ abortError[r] = "none" /\ dispatched' = dispatched \cup {r}
      /\ UNCHANGED <<stage, gone, expired, abortError, answer, line, active, peers,
                     ambiguous, sent, cut>>
  BY DEF DispatchThrows, CanDispatch
<1>2. TypeOK'
  BY <1>1 DEF Inv, TypeOK
<1>3. Registered'
  BY <1>1, RegistryKept DEF Inv, DeadlineInvariant
<1>4. ASSUME NEW q \in Requests PROVE CallSound(q)'
  <2>1. CallSound(q)
    BY DEF Inv, DeadlineInvariant
  <2>2. QED
    BY <1>1, <2>1 DEF CallSound, RetryIsSafe, OpenUnanswered, FlyingOpen, DoubtKept
<1>5. QED
  BY <1>2, <1>3, <1>4 DEF Inv, DeadlineInvariant

LEMMA LandStep ==
  ASSUME Inv, NEW r \in Requests, NEW s \in Scopes, NEW l \in Lanes, Land(r, s, l)
  PROVE  Inv'
<1>1. /\ line[r][s][l] \in InFlight
      /\ line' = [line EXCEPT ![r][s][l] = IF @ = "severed" THEN "doubtful" ELSE "landed"]
      /\ UNCHANGED <<stage, gone, expired, abortError, answer, active, peers,
                     dispatched, ambiguous, sent, cut>>
  BY DEF Land
<1>2. TypeOK'
  BY <1>1 DEF Inv, TypeOK, LineStates
<1>3. ASSUME NEW q \in Requests, NEW t \in Scopes, NEW m \in Lanes
      PROVE  /\ line'[q][t][m] = "free" <=> line[q][t][m] = "free"
             /\ line'[q][t][m] \in InFlight => line[q][t][m] \in InFlight
             /\ line[q][t][m] \in {"severed", "doubtful"}
                   => line'[q][t][m] \in {"severed", "doubtful"}
  BY <1>1 DEF Inv, TypeOK, LineStates, InFlight
<1>4. Registered'
  BY <1>1, <1>3, RegistryKept DEF Inv, DeadlineInvariant
<1>5. ASSUME NEW q \in Requests PROVE CallSound(q)'
  <2>1. CallSound(q)
    BY DEF Inv, DeadlineInvariant
  <2>2. RetryIsSafe(q)' /\ OpenUnanswered(q)'
    BY <1>1, <2>1 DEF CallSound, RetryIsSafe, OpenUnanswered
  <2>3. FlyingOpen(q)'
    BY <1>1, <1>3, <2>1 DEF CallSound, FlyingOpen
  <2>4. DoubtKept(q)'
    BY <1>1, <1>3, <2>1, Constants DEF CallSound, DoubtKept
  <2>5. QED
    BY <2>2, <2>3, <2>4 DEF CallSound
<1>6. QED
  BY <1>2, <1>4, <1>5 DEF Inv, DeadlineInvariant

LEMMA ReturnStep ==
  ASSUME Inv, NEW r \in Requests, NEW s \in Scopes, NEW l \in Lanes, Return(r, s, l)
  PROVE  Inv'
<1> USE DEF Inv
<1>1. /\ line[r][s][l] \in {"landed", "doubtful", "struck"}
      /\ line' = [line EXCEPT ![r][s][l] = "free"]
      /\ active' = [active EXCEPT ![r][s] = @ - 1]
      /\ peers' = [peers EXCEPT ![s] = IF active[r][s] > 1 THEN @ ELSE @ \ {r}]
      /\ ambiguous' = IF s \in Smtp /\ line[r][s][l] = "doubtful"
                      THEN ambiguous \cup {r} ELSE ambiguous
      /\ UNCHANGED <<stage, gone, expired, abortError, answer, dispatched, sent, cut>>
  BY DEF Return, Deactivate
<1>2. active[r][s] > 0 /\ active[r][s] \in Nat
  BY <1>1, OutstandingIsRegistered DEF DeadlineInvariant, TypeOK
<1>3. TypeOK'
  <2>1. active' \in [Requests -> [Scopes -> Nat]]
    BY <1>1, <1>2 DEF TypeOK
  <2>2. QED
    BY <1>1, <2>1 DEF TypeOK, LineStates
<1>4. Registered'
  <2> SUFFICES ASSUME NEW q \in Requests, NEW t \in Scopes
               PROVE  /\ active'[q][t] = Cardinality(Outstanding(q, t)')
                      /\ q \in peers'[t] <=> active'[q][t] > 0
    BY DEF Registered
  <2>0. /\ active[q][t] = Cardinality(Outstanding(q, t))
        /\ q \in peers[t] <=> active[q][t] > 0
    BY DEF DeadlineInvariant, Registered
  <2>1. CASE q = r /\ t = s
    <3>1. l \in Outstanding(r, s) /\ Outstanding(r, s)' = Outstanding(r, s) \ {l}
      BY <1>1 DEF Outstanding, TypeOK
    <3>2. Cardinality(Outstanding(r, s)') = Cardinality(Outstanding(r, s)) - 1
      BY <3>1, OutstandingFinite, FS_RemoveElement
    <3>3. active'[r][s] = active[r][s] - 1
      BY <1>1 DEF TypeOK
    <3>4. r \in peers'[s] <=> active[r][s] > 1
      BY <1>1, <1>2, <2>0, <2>1 DEF TypeOK
    <3>5. QED
      BY <1>2, <2>0, <2>1, <3>2, <3>3, <3>4
  <2>2. CASE ~(q = r /\ t = s)
    <3>1. Outstanding(q, t)' = Outstanding(q, t)
      BY <1>1, <2>2 DEF Outstanding, TypeOK
    <3>2. active'[q][t] = active[q][t] /\ (q \in peers'[t] <=> q \in peers[t])
      BY <1>1, <2>2 DEF TypeOK
    <3>3. QED
      BY <2>0, <3>1, <3>2
  <2>3. QED
    BY <2>1, <2>2
<1>5. ASSUME NEW q \in Requests PROVE CallSound(q)'
  <2>1. CallSound(q)
    BY DEF DeadlineInvariant
  <2>2. CASE q # r
    <3>1. line'[q] = line[q] /\ (q \in ambiguous' <=> q \in ambiguous)
      BY <1>1, <2>2 DEF TypeOK
    <3>2. QED
      BY <1>1, <2>1, <3>1, Bystander
  <2>3. CASE q = r
    <3>1. RetryIsSafe(r)' /\ OpenUnanswered(r)'
      BY <1>1, <2>1, <2>3 DEF CallSound, RetryIsSafe, OpenUnanswered
    <3>2. FlyingOpen(r)'
      <4> SUFFICES ASSUME NEW t \in Scopes, NEW m \in Lanes, line'[r][t][m] \in InFlight
                   PROVE  answer[r] = "none" /\ abortError[r] = "none" /\ r \in dispatched
        BY <1>1 DEF FlyingOpen
      <4>1. line[r][t][m] \in InFlight
        BY <1>1 DEF TypeOK, InFlight
      <4>2. QED
        BY <2>1, <2>3, <4>1 DEF CallSound, FlyingOpen
    <3>3. ASSUME r \in cut, answer[r] = "none", r \notin ambiguous'
          PROVE  \E t \in Smtp, m \in Lanes : line'[r][t][m] \in {"severed", "doubtful"}
      <4>1. r \notin ambiguous
        BY <1>1, <3>3
      <4>2. PICK t \in Smtp, m \in Lanes : line[r][t][m] \in {"severed", "doubtful"}
        BY <2>1, <2>3, <3>3, <4>1 DEF CallSound, DoubtKept
      <4>3. ~(t = s /\ m = l)
        BY <1>1, <3>3, <4>2
      <4>4. line'[r][t][m] = line[r][t][m]
        BY <1>1, <4>2, <4>3, Constants DEF TypeOK
      <4>5. QED
        BY <4>2, <4>4
    <3>4. DoubtKept(r)'
      BY <1>1, <2>1, <2>3, <3>3 DEF CallSound, DoubtKept
    <3>5. QED
      BY <2>3, <3>1, <3>2, <3>4 DEF CallSound
  <2>4. QED
    BY <2>2, <2>3
<1>6. QED
  BY <1>3, <1>4, <1>5 DEF DeadlineInvariant

LEMMA FinishStep ==
  ASSUME Inv, NEW r \in Requests, Finish(r)
  PROVE  Inv'
<1>1. /\ line[r] = Idle
      /\ stage' = [stage EXCEPT ![r] = "over"]
      /\ UNCHANGED <<gone, expired, abortError, line, active, peers,
                     dispatched, ambiguous, sent, cut>>
  BY DEF Finish
<1>2. PICK a \in IF answer[r] # "none" THEN {answer[r]}
                 ELSE IF r \in ambiguous THEN {"unknown"} ELSE {"ok", "failed"} :
        answer' = [answer EXCEPT ![r] = a]
  BY DEF Finish
<1>3. a \in {"none", "ok", "failed", "retry", "unknown"}
  BY <1>2 DEF Inv, TypeOK
<1>4. TypeOK'
  BY <1>1, <1>2, <1>3 DEF Inv, TypeOK
<1>5. Registered'
  BY <1>1, RegistryKept DEF Inv, DeadlineInvariant
<1>6. ASSUME NEW q \in Requests PROVE CallSound(q)'
  <2>1. CallSound(q)
    BY DEF Inv, DeadlineInvariant
  <2>2. CASE q # r
    <3>1. stage'[q] = stage[q] /\ answer'[q] = answer[q]
      BY <1>1, <1>2, <2>2 DEF Inv, TypeOK
    <3>2. QED
      BY <1>1, <2>1, <3>1, Bystander
  <2>3. CASE q = r
    <3>1. stage'[r] = "over" /\ answer'[r] = a
      BY <1>1, <1>2 DEF Inv, TypeOK
    <3>2. \A t \in Scopes, m \in Lanes : line[r][t][m] = "free"
      BY <1>1 DEF Idle
    <3>3. RetryIsSafe(r)'
      BY <1>1, <1>2, <2>1, <2>3, <3>1 DEF CallSound, RetryIsSafe
    <3>4. OpenUnanswered(r)' /\ FlyingOpen(r)'
      BY <1>1, <3>1, <3>2 DEF OpenUnanswered, FlyingOpen, InFlight
    <3>5. ASSUME r \in cut PROVE r \in dispatched /\ a = "unknown"
      <4>1. r \in dispatched /\ answer[r] \in {"none", "unknown"}
        BY <2>1, <2>3, <3>5 DEF CallSound, DoubtKept
      <4>2. answer[r] = "none" => r \in ambiguous
        BY <2>1, <2>3, <3>2, <3>5, Constants DEF CallSound, DoubtKept
      <4>3. QED
        BY <1>2, <4>1, <4>2
    <3>6. DoubtKept(r)'
      BY <1>1, <3>1, <3>5 DEF DoubtKept
    <3>7. QED
      BY <2>3, <3>3, <3>4, <3>6 DEF CallSound
  <2>4. QED
    BY <2>2, <2>3
<1>7. QED
  BY <1>4, <1>5, <1>6 DEF Inv, DeadlineInvariant

LEMMA RetireStep ==
  ASSUME Inv, NEW s \in Smtp, Retire(s)
  PROVE  Inv'
<1>1. /\ cut' = cut \cup OnTransports({s})
      /\ UNCHANGED <<stage, gone, expired, abortError, answer, active, peers,
                     dispatched, ambiguous, sent>>
  BY DEF Retire
<1>2. ASSUME NEW q \in Requests, NEW t \in Scopes, NEW m \in Lanes
      PROVE  /\ line[q][t][m] \in LineStates
             /\ line'[q][t][m] = Cut(line[q][t][m], FALSE, t = s)
  BY DEF Retire, Inv, TypeOK
<1>3. ASSUME NEW q \in Requests, NEW t \in Scopes, NEW m \in Lanes
      PROVE  /\ line'[q][t][m] = "free" <=> line[q][t][m] = "free"
             /\ line'[q][t][m] \in InFlight => line[q][t][m] \in InFlight
             /\ line[q][t][m] \in {"severed", "doubtful"} => line'[q][t][m] = line[q][t][m]
             /\ t = s /\ line[q][t][m] \in InFlight => line'[q][t][m] = "severed"
  BY <1>2 DEF Cut, LineStates, InFlight
<1>4. TypeOK'
  <2>1. line' \in [Requests -> [Scopes -> [Lanes -> LineStates]]]
    BY DEF Retire, Inv, TypeOK, Cut, LineStates
  <2>2. cut' \subseteq Requests
    BY <1>1 DEF Inv, TypeOK, OnTransports
  <2>3. QED
    BY <1>1, <2>1, <2>2 DEF Inv, TypeOK
<1>5. Registered'
  BY <1>1, <1>3, RegistryKept DEF Inv, DeadlineInvariant
<1>6. ASSUME NEW q \in Requests PROVE CallSound(q)'
  <2>1. CallSound(q)
    BY DEF Inv, DeadlineInvariant
  <2>2. RetryIsSafe(q)' /\ OpenUnanswered(q)'
    BY <1>1, <2>1 DEF CallSound, RetryIsSafe, OpenUnanswered
  <2>3. FlyingOpen(q)'
    BY <1>1, <1>3, <2>1 DEF CallSound, FlyingOpen
  <2>4. DoubtKept(q)'
    <3>1. CASE q \in OnTransports({s})
      <4>1. PICK m \in Lanes : line[q][s][m] \in InFlight
        BY <3>1 DEF OnTransports
      <4>2. line'[q][s][m] = "severed"
        BY <1>3, <4>1, Constants
      <4>3. answer[q] = "none" /\ q \in dispatched
        BY <2>1, <4>1, Constants DEF CallSound, FlyingOpen
      <4>4. QED
        BY <1>1, <4>2, <4>3 DEF DoubtKept
    <3>2. CASE q \notin OnTransports({s})
      <4>1. q \in cut' => q \in cut
        BY <1>1, <3>2
      <4>2. ASSUME NEW t \in Smtp, NEW m \in Lanes, line[q][t][m] \in {"severed", "doubtful"}
            PROVE  line'[q][t][m] = line[q][t][m]
        BY <1>3, <4>2, Constants
      <4>3. QED
        BY <1>1, <2>1, <4>1, <4>2 DEF CallSound, DoubtKept
    <3>3. QED
      BY <3>1, <3>2
  <2>5. QED
    BY <2>2, <2>3, <2>4 DEF CallSound
<1>7. QED
  BY <1>4, <1>5, <1>6 DEF Inv, DeadlineInvariant

----------------------------------------------------------------------------
(* The theorems. *)

LEMMA InitSound == Init => Inv
<1> SUFFICES ASSUME Init PROVE Inv
  OBVIOUS
<1>1. TypeOK
  BY SentAssumption DEF Init, TypeOK, Idle, LineStates
<1>2. ASSUME NEW r \in Requests, NEW s \in Scopes
      PROVE  /\ active[r][s] = Cardinality(Outstanding(r, s))
             /\ r \in peers[s] <=> active[r][s] > 0
  <2>1. Outstanding(r, s) = {}
    BY <1>2 DEF Init, Idle, Outstanding
  <2>2. active[r][s] = 0 /\ peers[s] = {}
    BY DEF Init
  <2>3. QED
    BY <2>1, <2>2, FS_EmptySet
<1>3. Registered
  BY <1>2 DEF Registered
<1>4. ASSUME NEW r \in Requests PROVE CallSound(r)
  <2>1. /\ sent[r] = 0 /\ abortError[r] = "none" /\ answer[r] = "none" /\ r \notin cut
    BY DEF Init
  <2>2. \A s \in Scopes, l \in Lanes : line[r][s][l] = "free"
    BY DEF Init, Idle
  <2>3. QED
    BY <2>1, <2>2 DEF CallSound, RetryIsSafe, OpenUnanswered, FlyingOpen, DoubtKept, InFlight
<1>5. QED
  BY <1>1, <1>3, <1>4 DEF Inv, DeadlineInvariant

LEMMA StepSound == Inv /\ [Next]_vars => Inv'
<1> SUFFICES ASSUME Inv, [Next]_vars PROVE Inv'
  OBVIOUS
<1>1. ASSUME NEW r \in Requests, EnterTooLate(r) \/ TimerFires(r) \/ DispatchTooLate(r)
      PROVE  Inv'
  BY <1>1, AbortingSteps
<1>2. ASSUME NEW r \in Requests, Enter(r) \/ Expire(r) PROVE Inv'
  BY <1>2, QuietSteps
<1>3. ASSUME NEW r \in Requests, ClientAborts(r) PROVE Inv'
  <2>1. stage[r] = "running" \/ stage[r] = "idle"
    BY <1>3 DEF ClientAborts
  <2>2. QED
    BY <1>3, <2>1, AbortingSteps, QuietSteps
<1>4. ASSUME NEW r \in Requests, DispatchThrows(r) \/ Finish(r) PROVE Inv'
  BY <1>4, ThrowStep, FinishStep
<1>5. ASSUME NEW r \in Requests, NEW s \in Scopes, NEW l \in Lanes,
             Dispatch(r, s, l) \/ Land(r, s, l) \/ Return(r, s, l)
      PROVE  Inv'
  BY <1>5, DispatchStep, LandStep, ReturnStep
<1>6. ASSUME NEW s \in Smtp, Retire(s) PROVE Inv'
  BY <1>6, RetireStep
<1>7. CASE UNCHANGED vars
  <2>1. TypeOK'
    BY <1>7 DEF Inv, TypeOK, vars
  <2>2. Registered'
    BY <1>7, RegistryKept DEF Inv, DeadlineInvariant, vars
  <2>3. ASSUME NEW r \in Requests PROVE CallSound(r)'
    BY <1>7, Bystander DEF Inv, DeadlineInvariant, vars
  <2>4. QED
    BY <2>1, <2>2, <2>3 DEF Inv, DeadlineInvariant
<1>8. QED
  BY <1>1, <1>2, <1>3, <1>4, <1>5, <1>6, <1>7 DEF Next, Step

LEMMA Sound == Spec => []Inv
BY InitSound, StepSound, PTL DEF Spec

(* Every variable keeps its type; in particular no scope is deactivated    *)
(* once too often.                                                         *)
THEOREM TypeCorrect == Spec => []TypeOK
<1>1. Inv => TypeOK
  BY DEF Inv
<1>2. QED
  BY <1>1, Sound, PTL

(* The registry, the reference counts and the promises agree, with any     *)
(* number of calls, transports and parallel commands.                      *)
THEOREM RegistryAgrees == Spec => []Registered
<1>1. Inv => Registered
  BY DEF Inv, DeadlineInvariant
<1>2. QED
  BY <1>1, Sound, PTL

(* "It is safe to retry" is said only to a caller none of whose commands   *)
(* reached a transport.                                                    *)
THEOREM RetryIsHonest == Spec => []HonestRetry
<1>1. Inv => HonestRetry
  BY DEF Inv, DeadlineInvariant, CallSound, RetryIsSafe, HonestRetry
<1>2. QED
  BY <1>1, Sound, PTL

(* A call whose command was in flight when its transport was closed is     *)
(* never told a definite outcome.                                          *)
THEOREM CutIsNeverDefinite == Spec => []CutNeverDefinite
<1>1. Inv => CutNeverDefinite
  <2> SUFFICES ASSUME Inv, NEW r \in cut PROVE answer[r] \in {"none", "unknown"}
    BY DEF CutNeverDefinite
  <2>1. r \in Requests
    BY DEF Inv, TypeOK
  <2>2. QED
    BY <2>1 DEF Inv, DeadlineInvariant, CallSound, DoubtKept
<1>2. QED
  BY <1>1, Sound, PTL

(* An abandoned handler writes nothing once its caller has been answered,  *)
(* has gone or has run out of time.                                        *)
LEMMA LateWriteImpossible ==
  ASSUME Inv, [Next]_vars, NEW r \in Requests, sent'[r] # sent[r]
  PROVE  answer[r] = "none" /\ r \notin gone \cup expired
<1>1. PICK q \in Requests, s \in Scopes, l \in Lanes : Dispatch(q, s, l)
  <2>1. \A q \in Requests :
          /\ ~Enter(q) /\ ~Expire(q) /\ ~DispatchThrows(q) /\ ~Finish(q)
          /\ \A s \in Scopes, l \in Lanes : ~Land(q, s, l) /\ ~Return(q, s, l)
    BY DEF Enter, Expire, DispatchThrows, Finish, Land, Return
  <2>2. \A q \in Requests : ~AbortMutationGroup(q)
    BY DEF AbortMutationGroup
  <2>3. \A q \in Requests :
          ~EnterTooLate(q) /\ ~ClientAborts(q) /\ ~TimerFires(q) /\ ~DispatchTooLate(q)
    BY <2>2 DEF EnterTooLate, ClientAborts, TimerFires, DispatchTooLate
  <2>4. (\A s \in Smtp : ~Retire(s)) /\ ~UNCHANGED vars
    BY DEF Retire, vars
  <2>5. QED
    BY <2>1, <2>3, <2>4 DEF Next, Step
<1>2. sent' = [sent EXCEPT ![q] = @ + 1]
  BY <1>1 DEF Dispatch
<1>3. q = r
  BY <1>2 DEF Inv, TypeOK
<1>4. stage[r] = "running" /\ abortError[r] = "none" /\ r \notin gone \cup expired
  BY <1>1, <1>3 DEF Dispatch, Continues, CanDispatch
<1>5. QED
  BY <1>4 DEF Inv, DeadlineInvariant, CallSound, OpenUnanswered

THEOREM NoWriteAfterAnswer == Spec => NoLateWrite
<1>1. Inv /\ [Next]_vars =>
        [\A r \in Requests : sent'[r] # sent[r] =>
            /\ answer[r] = "none"
            /\ r \notin gone \cup expired]_vars
  BY LateWriteImpossible
<1>2. QED
  BY <1>1, Sound, PTL DEF Spec, NoLateWrite

(* Whoever an abort reaches beyond its root shares a transport with        *)
(* another call it reaches.                                                *)
LEMMA ReachedByTransport ==
  ASSUME Inv, NEW root \in Requests, NEW r \in Affected(root), r # root
  PROVE  \E s \in Scopes, q \in Affected(root) \ {r} : active[q][s] > 0 /\ active[r][s] > 0
<1> DEFINE Linked(p) == p = root \/ \E s \in Scopes, q \in Affected(root) \ {p} :
                                      active[q][s] > 0 /\ active[p][s] > 0
           Group == {p \in Affected(root) : Linked(p)}
<1>1. Group \in SUBSET Requests /\ root \in Group
  BY RootIsAffected DEF Affected
<1>2. ASSUME NEW q \in Group, NEW s \in Scopes, active[q][s] > 0, NEW p \in peers[s]
      PROVE  p \in Group
  <2>1. p \in Affected(root) /\ p \in Requests
    BY <1>2, GroupIsClosed DEF Inv, TypeOK
  <2>2. active[p][s] > 0
    BY <1>2, <2>1 DEF Inv, DeadlineInvariant, Registered
  <2>3. p = q \/ Linked(p)
    BY <1>2, <2>2
  <2>4. QED
    BY <2>1, <2>3
<1>3. ClosedGroup(root, Group)
  BY <1>1, <1>2 DEF ClosedGroup
<1>4. r \in Group
  BY <1>1, <1>3 DEF Affected
<1>5. QED
  BY <1>4

LEMMA AbortIsContained ==
  ASSUME Inv, NEW root \in Requests, AbortMutationGroup(root), root \in gone' \cup expired
  PROVE  /\ \A r \in Requests : Rejected(r) =>
               \/ r \in gone' \cup expired
               \/ \E s \in Scopes, q \in Requests \ {r} :
                     abortError'[q] # "none" /\ active[q][s] > 0 /\ active[r][s] > 0
         /\ \A s \in Scopes : ClosedByAbort(s) =>
               \E q \in Requests : abortError'[q] # "none" /\ active[q][s] > 0
<1>1. ASSUME NEW q \in Affected(root) PROVE q \in Requests /\ abortError'[q] # "none"
  BY DEF AbortMutationGroup, Affected, Advice
<1>2. ASSUME NEW r \in Requests, Rejected(r), r \notin gone' \cup expired
      PROVE  \E s \in Scopes, q \in Requests \ {r} :
                abortError'[q] # "none" /\ active[q][s] > 0 /\ active[r][s] > 0
  <2>1. r \in Affected(root) /\ r # root
    BY <1>2 DEF Rejected, AbortMutationGroup
  <2>2. PICK s \in Scopes, q \in Affected(root) \ {r} : active[q][s] > 0 /\ active[r][s] > 0
    BY <2>1, ReachedByTransport
  <2>3. QED
    BY <1>1, <2>2
<1>3. ASSUME NEW s \in Scopes, ClosedByAbort(s)
      PROVE  \E q \in Requests : abortError'[q] # "none" /\ active[q][s] > 0
  <2>1. PICK r \in Requests, l \in Lanes :
          /\ line[r][s][l] \in {"flying", "landed"}
          /\ line'[r][s][l] \in {"severed", "struck", "doubtful"}
    BY <1>3 DEF ClosedByAbort
  <2>2. line'[r][s][l] = Cut(line[r][s][l], r \in Affected(root), s \in Closing(root))
    BY DEF AbortMutationGroup
  <2>3. r \in Affected(root) \/ s \in Closing(root)
    BY <2>1, <2>2 DEF Cut
  <2>4. active[r][s] > 0
    BY <2>1, OutstandingIsRegistered DEF Inv, DeadlineInvariant
  <2>5. CASE r \in Affected(root)
    BY <1>1, <2>4, <2>5
  <2>6. CASE s \in Closing(root)
    BY <1>1, <2>6 DEF Closing
  <2>7. QED
    BY <2>3, <2>5, <2>6
<1>4. QED
  BY <1>2, <1>3

LEMMA OnlyAbortsReject ==
  ASSUME Inv, [Next]_vars, abortError' # abortError
  PROVE  \E root \in Requests : AbortMutationGroup(root) /\ root \in gone' \cup expired
<1>1. \A q \in Requests :
        /\ ~Enter(q) /\ ~Expire(q) /\ ~DispatchThrows(q) /\ ~Finish(q)
        /\ \A s \in Scopes, l \in Lanes : ~Land(q, s, l) /\ ~Return(q, s, l) /\ ~Dispatch(q, s, l)
  BY DEF Enter, Expire, DispatchThrows, Finish, Land, Return, Dispatch
<1>2. (\A s \in Smtp : ~Retire(s)) /\ ~UNCHANGED vars
  BY DEF Retire, vars
<1>3. PICK root \in Requests :
        EnterTooLate(root) \/ ClientAborts(root) \/ TimerFires(root) \/ DispatchTooLate(root)
  BY <1>1, <1>2 DEF Next, Step
<1>4. AbortMutationGroup(root) /\ root \in gone' \cup expired
  BY <1>3 DEF EnterTooLate, ClientAborts, TimerFires, DispatchTooLate, CanDispatch
<1>5. QED
  BY <1>4

(* An abort rejects and closes only what shares a transport with what it   *)
(* rejects, however many calls and transports there are.                   *)
THEOREM AbortsStayContained == Spec => Contained
<1> DEFINE Contains ==
      /\ \A r \in Requests : Rejected(r) =>
            \/ r \in gone' \cup expired
            \/ \E s \in Scopes, q \in Requests \ {r} :
                  abortError'[q] # "none" /\ active[q][s] > 0 /\ active[r][s] > 0
      /\ \A s \in Scopes : ClosedByAbort(s) =>
            \E q \in Requests : abortError'[q] # "none" /\ active[q][s] > 0
<1>1. ASSUME Inv, [Next]_vars PROVE Contains
  <2>1. CASE abortError' = abortError
    BY <2>1 DEF Rejected, ClosedByAbort
  <2>2. CASE abortError' # abortError
    BY <1>1, <2>2, OnlyAbortsReject, AbortIsContained
  <2>3. QED
    BY <2>1, <2>2
<1>2. Inv /\ [Next]_vars => [Contains]_vars
  BY <1>1
<1>3. QED
  BY <1>2, Sound, PTL DEF Spec, Contained

(* No caller is told more of its commands than is known.                   *)
THEOREM OutcomesAreHonest == Spec => []HonestOutcomes
<1>1. HonestRetry /\ CutNeverDefinite => HonestOutcomes
  BY DEF HonestOutcomes
<1>2. QED
  BY <1>1, RetryIsHonest, CutIsNeverDefinite, PTL

------------------------------------------------------------------------------
(* The gates of a call.                                                         *)

Phases == {"unused", "routed", "gated", "asking", "running", "over"}
Results == {"none", "blocked", "cancelled", "failed", "answered", "errored", "discarded"}
CallRows ==
  [phase : Phases, agent : BOOLEAN, read : BOOLEAN, name : ToolNames, preset : Presets,
   route : Nat, rows : Nat, result : Results]

GateTyped ==
  /\ clock \in 0..MaxTime /\ route \in Nat
  /\ settings \in [preset : Presets, on : BOOLEAN, saves : Nat]
  /\ copy \in [on : BOOLEAN, at : Nat]
  /\ calls \in [Calls -> CallRows]
  /\ slots \in [CanonicalTools -> SUBSET (Nat \X Calls)]
  /\ passed \in [CanonicalTools -> SUBSET (Nat \X Calls)]

(* A call has no row before it is over. *)
RowsKept ==
  \A c \in Calls :
    /\ calls[c].phase # "over" => calls[c].rows = 0
    /\ calls[c].rows <= Row(c)
    /\ /\ calls[c].phase = "over" /\ ~calls[c].read
       /\ calls[c].result \in {"answered", "errored", "failed", "discarded"}
       => calls[c].rows = Row(c)

(* The slots kept are those of the window. *)
SlotsKeptOf(t) ==
  /\ IsFiniteSet(passed[t]) /\ slots[t] \subseteq passed[t]
  /\ \A p \in passed[t] :
       /\ p[1] <= clock
       /\ p[1] + PER > clock => p \in slots[t]
       /\ calls[p[2]].phase \notin {"unused", "routed"}
SlotsKept == \A t \in CanonicalTools : SlotsKeptOf(t)

Window(taken, from) == {at \in taken : from <= at[1] /\ at[1] < from + PER}
RateKept == \A t \in CanonicalTools, from \in Nat : Cardinality(Window(passed[t], from)) <= RATE

GateSound == GateTyped /\ RowsKept /\ SlotsKept /\ RateKept

LEMMA Canonical == \A name : canonicalToolName(name) \in CanonicalTools
BY DEF canonicalToolName, CanonicalTools

LEMMA EndedRow ==
  ASSUME NEW call \in CallRows, NEW result \in Results, NEW rows \in Nat
  PROVE  LET x == Ended(call, result, rows)
         IN  /\ x \in CallRows
             /\ x.phase = "over" /\ x.agent = call.agent /\ x.read = call.read
             /\ x.result = result /\ x.rows = rows
BY DEF Ended, Fresh, CallRows, Phases, Results, ToolNames, Presets

LEMMA RoutedRow ==
  ASSUME NEW agent \in BOOLEAN, NEW read \in BOOLEAN, NEW name \in ToolNames,
         settings.preset \in Presets, route \in Nat
  PROVE  LET x == Routed(name, agent, read)
         IN  x \in CallRows /\ x.phase = "routed" /\ x.rows = 0 /\ x.result = "none"
BY DEF Routed, Fresh, CallRows, Phases, Results, ToolNames, Presets

LEMMA PhaseRow ==
  ASSUME NEW x \in CallRows, NEW p \in Phases
  PROVE  LET y == [x EXCEPT !.phase = p]
         IN  /\ y \in CallRows /\ y.phase = p
             /\ y.agent = x.agent /\ y.read = x.read /\ y.name = x.name /\ y.preset = x.preset
             /\ y.route = x.route /\ y.rows = x.rows /\ y.result = x.result
BY DEF CallRows, Phases

Early == {"unused", "routed"}
Onward == \A d \in Calls : calls[d].phase \notin Early => calls'[d].phase \notin Early

(* What a step that ends a call leaves of it, and one that moves it on.         *)
LEMMA OverLeaves ==
  ASSUME GateTyped, NEW c \in Calls, NEW result \in Results, NEW rows \in Nat, Over(c, result, rows)
  PROVE  /\ calls' \in [Calls -> CallRows]
         /\ \A d \in Calls \ {c} : calls'[d] = calls[d]
         /\ calls'[c].phase = "over" /\ calls'[c].agent = calls[c].agent /\ calls'[c].read = calls[c].read
         /\ calls'[c].result = result /\ calls'[c].rows = rows
<1>1. calls[c] \in CallRows
  BY DEF GateTyped
<1>2. calls' = [calls EXCEPT ![c] = Ended(calls[c], result, rows)]
  BY DEF Over
<1> QED
  BY SMTT(20), <1>1, <1>2, EndedRow DEF GateTyped

LEMMA PhaseLeaves ==
  ASSUME GateTyped, NEW c \in Calls, NEW p \in Phases, calls' = [calls EXCEPT ![c].phase = p]
  PROVE  /\ calls' \in [Calls -> CallRows]
         /\ \A d \in Calls \ {c} : calls'[d] = calls[d]
         /\ calls'[c].phase = p /\ calls'[c].agent = calls[c].agent /\ calls'[c].read = calls[c].read
         /\ calls'[c].name = calls[c].name /\ calls'[c].route = calls[c].route
         /\ calls'[c].result = calls[c].result /\ calls'[c].rows = calls[c].rows
<1> DEFINE x == [calls[c] EXCEPT !.phase = p]
<1>1. calls[c] \in CallRows
  BY DEF GateTyped
<1>2. /\ x \in CallRows /\ x.phase = p /\ x.agent = calls[c].agent /\ x.read = calls[c].read
      /\ x.name = calls[c].name /\ x.route = calls[c].route
      /\ x.result = calls[c].result /\ x.rows = calls[c].rows
  BY <1>1, PhaseRow
<1>3. calls' = [calls EXCEPT ![c] = x]
  OBVIOUS
<1> HIDE DEF x
<1> QED
  BY <1>2, <1>3 DEF GateTyped

LEMMA ComesLeaves ==
  ASSUME GateTyped, NEW c \in Calls, NEW name \in ToolNames, NEW agent \in BOOLEAN, NEW read \in BOOLEAN,
         Comes(c, name, agent, read)
  PROVE  /\ calls' \in [Calls -> CallRows]
         /\ \A d \in Calls \ {c} : calls'[d] = calls[d]
         /\ calls[c].phase = "unused"
         /\ calls'[c].phase = "routed" /\ calls'[c].rows = 0 /\ calls'[c].result = "none"
<1>1. settings.preset \in Presets /\ route \in Nat
  BY DEF GateTyped
<1>2. calls' = [calls EXCEPT ![c] = Routed(name, agent, read)] /\ calls[c].phase = "unused"
  BY DEF Comes
<1> QED
  BY <1>1, <1>2, RoutedRow DEF GateTyped

LEMMA RowType == ASSUME GateTyped, NEW c \in Calls PROVE Row(c) \in Nat
BY DEF Row

(* Ended with the row it must have, or with none.                               *)
LEMMA EndKeeps ==
  ASSUME GateTyped, RowsKept, NEW c \in Calls, NEW result \in Results, NEW rows \in Nat,
         Over(c, result, rows), rows <= Row(c),
         result \in {"blocked", "cancelled", "none"} \/ calls[c].read \/ rows = Row(c)
  PROVE  calls' \in [Calls -> CallRows] /\ RowsKept' /\ Onward /\ calls'[c].phase = "over"
BY OverLeaves DEF RowsKept, Row, Onward, Early

LEMMA MoveKeeps ==
  ASSUME GateTyped, RowsKept, NEW c \in Calls, NEW p \in {"gated", "asking", "running"},
         calls[c].phase # "over", calls' = [calls EXCEPT ![c].phase = p]
  PROVE  calls' \in [Calls -> CallRows] /\ RowsKept' /\ Onward /\ calls'[c].phase = p
<1>1. p \in Phases /\ p \notin Early /\ p # "over"
  BY DEF Phases, Early
<1>2. /\ calls' \in [Calls -> CallRows]
      /\ \A d \in Calls \ {c} : calls'[d] = calls[d]
      /\ calls'[c].phase = p /\ calls'[c].agent = calls[c].agent /\ calls'[c].rows = calls[c].rows
  BY <1>1, PhaseLeaves
<1>3. Onward
  BY <1>1, <1>2 DEF Onward
<1>4. RowsKept'
  BY <1>1, <1>2 DEF RowsKept, Row
<1> QED
  BY <1>2, <1>3, <1>4

LEMMA CallsStep ==
  ASSUME GateTyped, RowsKept, CGNext
  PROVE  calls' \in [Calls -> CallRows] /\ RowsKept' /\ Onward
<1>1. CASE UNCHANGED calls
  BY <1>1 DEF GateTyped, RowsKept, Row, Onward
<1>2. CASE Passes \/ Repointed \/ \E preset \in Presets, on \in BOOLEAN : Saves(preset, on)
  BY <1>1, <1>2 DEF Passes, Repointed, Saves
<1>3. ASSUME NEW c \in Calls, NEW name \in ToolNames, NEW agent \in BOOLEAN, NEW read \in BOOLEAN,
             Comes(c, name, agent, read)
      PROVE  calls' \in [Calls -> CallRows] /\ RowsKept' /\ Onward
  BY <1>3, ComesLeaves DEF RowsKept, Row, Onward, Early
<1>4. ASSUME NEW c \in Calls, Gated(c)
      PROVE  calls' \in [Calls -> CallRows] /\ RowsKept' /\ Onward
  <2>1. calls[c].phase = "routed" /\ Row(c) \in Nat
    BY <1>4, RowType DEF Gated
  <2>2. \/ calls[c].agent /\ Over(c, "blocked", 1)
        \/ Over(c, "blocked", Row(c))
        \/ calls' = [calls EXCEPT ![c].phase = "gated"]
    BY <1>4 DEF Gated
  <2>3. CASE calls[c].agent /\ Over(c, "blocked", 1)
    BY <2>1, <2>3, EndKeeps DEF Row, Results
  <2>4. CASE Over(c, "blocked", Row(c))
    BY <2>1, <2>4, EndKeeps DEF Results
  <2>5. CASE calls' = [calls EXCEPT ![c].phase = "gated"]
    BY <2>1, <2>5, MoveKeeps
  <2> QED
    BY <2>2, <2>3, <2>4, <2>5
<1>5. ASSUME NEW c \in Calls, Asks(c)
      PROVE  calls' \in [Calls -> CallRows] /\ RowsKept' /\ Onward
  BY <1>5, MoveKeeps DEF Asks
<1>6. ASSUME NEW c \in Calls, Cancelled(c)
      PROVE  calls' \in [Calls -> CallRows] /\ RowsKept' /\ Onward
  BY <1>6, EndKeeps, RowType DEF Cancelled, Results
<1>7. ASSUME NEW c \in Calls, Runs(c)
      PROVE  calls' \in [Calls -> CallRows] /\ RowsKept' /\ Onward
  <2>1. calls[c].phase \in {"gated", "asking"} /\ Row(c) \in Nat
    BY <1>7, RowType DEF Runs
  <2>2. \/ calls[c].agent /\ Over(c, "blocked", 1)
        \/ calls[c].read /\ Over(c, "failed", 0)
        \/ calls' = [calls EXCEPT ![c].phase = "running"]
    BY <1>7 DEF Runs
  <2>3. CASE calls[c].agent /\ Over(c, "blocked", 1)
    BY <2>1, <2>3, EndKeeps DEF Row, Results
  <2>4. CASE calls[c].read /\ Over(c, "failed", 0)
    BY <2>1, <2>4, EndKeeps DEF Results
  <2>5. CASE calls' = [calls EXCEPT ![c].phase = "running"]
    BY <2>1, <2>5, MoveKeeps
  <2> QED
    BY <2>2, <2>3, <2>4, <2>5
<1>8. ASSUME NEW c \in Calls, NEW result \in {"answered", "errored", "failed"}, Ends(c, result)
      PROVE  calls' \in [Calls -> CallRows] /\ RowsKept' /\ Onward
  <2>1. PICK told \in {"answered", "errored", "failed", "discarded"} : Over(c, told, RowsOf(c, told))
    BY <1>8 DEF Ends
  <2>2. Row(c) \in Nat /\ told \in Results
    BY RowType DEF Results
  <2>3. RowsOf(c, told) \in Nat /\ RowsOf(c, told) <= Row(c) /\ (calls[c].read \/ RowsOf(c, told) = Row(c))
    BY <2>2 DEF RowsOf
  <2> QED
    BY <2>1, <2>2, <2>3, EndKeeps
<1> QED
  BY <1>2, <1>3, <1>4, <1>5, <1>6, <1>7, <1>8 DEF CGNext

(* How a step leaves the slots: as they were, or as the gates of one call do.   *)
GatesOne(c, t) ==
  /\ UNCHANGED clock
  /\ calls[c].phase = "routed" /\ calls'[c].phase \notin Early
  /\ Drops(t) \/ (Cardinality(Kept(t)) < RATE /\ Takes(c, t))

LEMMA SlotsStep ==
  ASSUME GateTyped, RowsKept, CGNext
  PROVE  \/ UNCHANGED <<slots, passed>> /\ clock' \in clock..MaxTime
         \/ \E c \in Calls, t \in CanonicalTools : GatesOne(c, t)
<1> clock \in 0..MaxTime /\ MaxTime \in Nat
  BY CallGateAssumption DEF GateTyped
<1>1. CASE \E c \in Calls : Gated(c)
  <2>1. PICK c \in Calls : Gated(c)
    BY <1>1
  <2> DEFINE t == canonicalToolName(calls[c].name)
  <2>2. t \in CanonicalTools
    BY Canonical
  <2>3. calls[c].phase = "routed" /\ UNCHANGED clock
    BY <2>1 DEF Gated
  <2>4. \/ UNCHANGED <<slots, passed>>
        \/ TakesSlot(c, t) /\ (Over(c, "blocked", Row(c)) \/ calls' = [calls EXCEPT ![c].phase = "gated"])
    BY <2>1 DEF Gated
  <2>5. CASE UNCHANGED <<slots, passed>>
    BY <2>3, <2>5
  <2>6. CASE TakesSlot(c, t) /\ (Over(c, "blocked", Row(c)) \/ calls' = [calls EXCEPT ![c].phase = "gated"])
    <3>1. calls'[c].phase \in {"over", "gated"}
      <4>1. CASE Over(c, "blocked", Row(c))
        BY <4>1, OverLeaves, RowType DEF Results
      <4>2. CASE calls' = [calls EXCEPT ![c].phase = "gated"]
        BY <4>2, PhaseLeaves DEF Phases
      <4> QED
        BY <2>6, <4>1, <4>2
    <3>2. UNCHANGED <<slots, passed>> \/ Drops(t) \/ (Cardinality(Kept(t)) < RATE /\ Takes(c, t))
      BY <2>6 DEF TakesSlot, Permitted, consumeRateSlot, Kept
    <3>3. CASE UNCHANGED <<slots, passed>>
      BY <2>3, <3>3
    <3>4. CASE Drops(t) \/ (Cardinality(Kept(t)) < RATE /\ Takes(c, t))
      BY <2>2, <2>3, <3>1, <3>4 DEF GatesOne, Early
    <3> QED
      BY <3>2, <3>3, <3>4
  <2> QED
    BY <2>4, <2>5, <2>6
<1>2. CASE UNCHANGED <<slots, passed>> /\ clock' \in clock..MaxTime
  BY <1>2
<1>3. CASE Passes \/ Repointed \/ \E preset \in Presets, on \in BOOLEAN : Saves(preset, on)
  BY <1>2, <1>3 DEF Passes, Repointed, Saves
<1>4. ASSUME NEW c \in Calls,
             \/ \E name \in ToolNames, agent, read \in BOOLEAN : Comes(c, name, agent, read)
             \/ Asks(c) \/ Cancelled(c) \/ Runs(c)
             \/ \E result \in {"answered", "errored", "failed"} : Ends(c, result)
      PROVE  UNCHANGED <<slots, passed>> /\ clock' \in clock..MaxTime
  <2>1. UNCHANGED <<slots, passed, clock>>
    BY <1>4 DEF Comes, Asks, Cancelled, Runs, Ends
  <2> QED
    BY <2>1
<1> QED
  BY <1>1, <1>3, <1>4 DEF CGNext

LEMMA SlotsTyped ==
  ASSUME GateTyped, RowsKept, CGNext
  PROVE  slots' \in [CanonicalTools -> SUBSET (Nat \X Calls)] /\ passed' \in [CanonicalTools -> SUBSET (Nat \X Calls)]
<1>1. CASE UNCHANGED <<slots, passed>>
  BY <1>1 DEF GateTyped
<1>2. ASSUME NEW c \in Calls, NEW t \in CanonicalTools, GatesOne(c, t)
      PROVE  slots' \in [CanonicalTools -> SUBSET (Nat \X Calls)] /\ passed' \in [CanonicalTools -> SUBSET (Nat \X Calls)]
  <2>1. <<clock, c>> \in Nat \X Calls
    BY CallGateAssumption DEF GateTyped
  <2>2. Kept(t) \subseteq slots[t]
    BY DEF Kept, Counted
  <2>3. CASE Drops(t)
    BY <2>2, <2>3 DEF Drops, GateTyped
  <2>4. CASE Takes(c, t)
    BY <2>1, <2>2, <2>4 DEF Takes, GateTyped
  <2> QED
    BY <1>2, <2>3, <2>4 DEF GatesOne
<1> QED
  BY <1>1, <1>2, SlotsStep

LEMMA OneMore ==
  ASSUME NEW S, NEW x, IsFiniteSet(S)
  PROVE  /\ IsFiniteSet(S \cup {x}) /\ Cardinality(S \cup {x}) \in Nat
         /\ Cardinality(S \cup {x}) <= Cardinality(S) + 1
<1>1. IsFiniteSet(S \cup {x}) /\ Cardinality(S) \in Nat
  BY FS_AddElement, FS_CardinalityType
<1>2. Cardinality(S \cup {x}) = Cardinality(S) \/ Cardinality(S \cup {x}) = Cardinality(S) + 1
  BY FS_AddElement
<1> QED
  BY <1>1, <1>2, FS_CardinalityType

(* One more passes only where the window has room.                              *)
LEMMA RoomInWindow ==
  ASSUME GateTyped, SlotsKept, RateKept, NEW c \in Calls, NEW t \in CanonicalTools,
         Cardinality(Kept(t)) < RATE, NEW from \in Nat
  PROVE  Cardinality(Window(passed[t] \cup {<<clock, c>>}, from)) <= RATE
<1> DEFINE W == Window(passed[t], from)
           V == Window(passed[t] \cup {<<clock, c>>}, from)
<1>1. RATE \in Nat /\ PER \in Nat /\ clock \in Nat
  BY CallGateAssumption DEF GateTyped
<1>2. passed[t] \subseteq Nat \X Calls /\ IsFiniteSet(passed[t])
  BY DEF GateTyped, SlotsKeptOf, SlotsKept
<1>3. CASE ~(from <= clock /\ clock < from + PER)
  <2>1. V = W
    BY <1>3 DEF Window
  <2> QED
    BY <2>1 DEF RateKept
<1>4. CASE from <= clock /\ clock < from + PER
  <2>1. W \subseteq Kept(t)
    <3>1. SUFFICES ASSUME NEW p \in W PROVE p \in Kept(t)
      OBVIOUS
    <3>2. p \in passed[t] /\ p[1] \in Nat /\ from <= p[1]
      BY <1>2 DEF Window
    <3>3. p[1] + PER > clock
      BY <1>1, <1>4, <3>2
    <3> QED
      BY <3>2, <3>3 DEF SlotsKeptOf, SlotsKept, Kept, Counted
  <2>2. IsFiniteSet(Kept(t)) /\ IsFiniteSet(W)
    <3>1. Kept(t) \subseteq passed[t] /\ W \subseteq passed[t]
      BY DEF Kept, Counted, SlotsKeptOf, SlotsKept, Window
    <3> QED
      BY <3>1, <1>2, FS_Subset
  <2>3. Cardinality(W) <= Cardinality(Kept(t)) /\ Cardinality(W) \in Nat /\ Cardinality(Kept(t)) \in Nat
    BY <2>1, <2>2, FS_Subset, FS_CardinalityType
  <2>4. V = W \cup {<<clock, c>>}
    BY <1>4 DEF Window
  <2>5. Cardinality(V) <= Cardinality(W) + 1
    BY <2>2, <2>4, OneMore
  <2>6. Cardinality(V) \in Nat
    BY <2>2, <2>4, OneMore
  <2> QED
    BY <1>1, <2>3, <2>5, <2>6
<1> QED
  BY <1>3, <1>4

LEMMA SlotsStay ==
  ASSUME GateTyped, RowsKept, SlotsKept, RateKept, CGNext
  PROVE  SlotsKept' /\ RateKept'
<1>1. Onward
  BY CallsStep
<1>2. CASE UNCHANGED <<slots, passed>> /\ clock' \in clock..MaxTime
  <2>1. clock \in Nat /\ clock' \in Nat /\ clock <= clock' /\ PER \in Nat
    BY <1>2, CallGateAssumption DEF GateTyped
  <2>2. ASSUME NEW t \in CanonicalTools, NEW p \in passed[t]
        PROVE  /\ p[1] <= clock' /\ (p[1] + PER > clock' => p \in slots[t])
               /\ calls'[p[2]].phase \notin {"unused", "routed"}
    <3>1. p[1] \in Nat /\ p[2] \in Calls
      BY <2>2 DEF GateTyped
    <3>2. p[1] <= clock /\ (p[1] + PER > clock => p \in slots[t]) /\ calls[p[2]].phase \notin Early
      BY <2>2 DEF SlotsKeptOf, SlotsKept, Early
    <3> QED
      BY <1>1, <2>1, <3>1, <3>2 DEF Onward, Early
  <2>3. SlotsKept'
    BY <1>2, <2>2 DEF SlotsKeptOf, SlotsKept
  <2>4. RateKept'
    BY <1>2 DEF RateKept
  <2> QED
    BY <2>3, <2>4
<1>3. ASSUME NEW c \in Calls, NEW t \in CanonicalTools, GatesOne(c, t)
      PROVE  SlotsKept' /\ RateKept'
  <2>1. clock' = clock /\ clock \in Nat /\ PER \in Nat
    BY <1>3, CallGateAssumption DEF GatesOne, GateTyped
  <2>2. ASSUME NEW u \in CanonicalTools, NEW p \in passed[u]
        PROVE  /\ p[1] <= clock' /\ calls'[p[2]].phase \notin {"unused", "routed"}
    BY <1>1, <2>1, <2>2 DEF SlotsKeptOf, SlotsKept, GateTyped, Onward, Early
  <2>3. CASE Drops(t)
    <3>1. passed' = passed /\ slots' = [slots EXCEPT ![t] = Kept(t)]
      BY <2>3 DEF Drops
    <3>2. ASSUME NEW u \in CanonicalTools
          PROVE  /\ slots'[u] \subseteq slots[u]
                 /\ \A p \in slots[u] : p[1] + PER > clock => p \in slots'[u]
      BY <3>1, <3>2 DEF Kept, Counted, GateTyped
    <3>3. SlotsKept'
      <4>1. ASSUME NEW u \in CanonicalTools
            PROVE  SlotsKeptOf(u)'
        BY <2>1, <2>2, <3>1, <3>2, <4>1 DEF SlotsKeptOf, SlotsKept
      <4> QED
        BY <4>1 DEF SlotsKept
    <3>4. RateKept'
      BY <3>1 DEF RateKept
    <3> QED
      BY <3>3, <3>4
  <2>4. CASE Cardinality(Kept(t)) < RATE /\ Takes(c, t)
    <3> DEFINE new == <<clock, c>>
    <3>1. /\ slots' = [slots EXCEPT ![t] = Kept(t) \cup {new}]
          /\ passed' = [passed EXCEPT ![t] = passed[t] \cup {new}]
      BY <2>4 DEF Takes
    <3>2. /\ slots'[t] = Kept(t) \cup {new} /\ passed'[t] = passed[t] \cup {new}
          /\ \A u \in CanonicalTools \ {t} : slots'[u] = slots[u] /\ passed'[u] = passed[u]
      BY <3>1 DEF GateTyped
    <3>3. new[1] = clock /\ new[2] = c /\ calls'[c].phase \notin {"unused", "routed"}
      BY <1>3 DEF GatesOne, Early
    <3> HIDE DEF new
    <3>4. SlotsKept'
      <4>1. ASSUME NEW u \in CanonicalTools
            PROVE  SlotsKeptOf(u)'
        <5>1. CASE u # t
          BY <2>1, <2>2, <3>2, <5>1 DEF SlotsKeptOf, SlotsKept
        <5>2. CASE u = t
          <6>1. IsFiniteSet(passed'[t])
            <7>1. IsFiniteSet(passed[t])
              BY DEF SlotsKeptOf, SlotsKept
            <7>2. IsFiniteSet(passed[t] \cup {new})
              BY <7>1, OneMore
            <7> QED
              BY <3>2, <7>2
          <6>2. slots'[t] \subseteq passed'[t]
            BY <3>2 DEF SlotsKeptOf, SlotsKept, Kept, Counted
          <6>3. ASSUME NEW p \in passed[t]
                PROVE  p[1] + PER > clock => p \in slots'[t]
            BY <3>2, <6>3 DEF SlotsKeptOf, SlotsKept, Kept, Counted
          <6>4. ASSUME NEW p \in passed'[t]
                PROVE  /\ p[1] <= clock' /\ (p[1] + PER > clock' => p \in slots'[t])
                       /\ calls'[p[2]].phase \notin {"unused", "routed"}
            <7>1. CASE p \in passed[t]
              BY <2>1, <2>2, <6>3, <7>1
            <7>2. CASE p = new
              BY <2>1, <3>2, <3>3, <7>2
            <7> QED
              BY <3>2, <6>4, <7>1, <7>2
          <6> QED
            BY <5>2, <6>1, <6>2, <6>4 DEF SlotsKeptOf
        <5> QED
          BY <5>1, <5>2
      <4> QED
        BY <4>1 DEF SlotsKept
    <3>5. RateKept'
      <4>1. SUFFICES ASSUME NEW u \in CanonicalTools, NEW from \in Nat
                     PROVE  Cardinality(Window(passed'[u], from)) <= RATE
        BY DEF RateKept, Window
      <4>2. CASE u # t
        BY <3>2, <4>2 DEF RateKept
      <4>3. CASE u = t
        BY <2>4, <3>2, <4>3, RoomInWindow DEF new
      <4> QED
        BY <4>2, <4>3
    <3> QED
      BY <3>4, <3>5
  <2> QED
    BY <1>3, <2>3, <2>4 DEF GatesOne
<1> QED
  BY <1>2, <1>3, SlotsStep

LEMMA GateInit == CGInit => GateSound
<1> SUFFICES ASSUME CGInit PROVE GateSound
  OBVIOUS
<1>0. MaxTime \in Nat /\ RATE \in Nat
  BY CallGateAssumption
<1>1. Fresh \in CallRows /\ Fresh.phase = "unused" /\ Fresh.rows = 0
  BY DEF Fresh, CallRows, Phases, Results, ToolNames, Presets
<1>2. GateTyped
  <2>1. settings \in [preset : Presets, on : BOOLEAN, saves : Nat] /\ copy \in [on : BOOLEAN, at : Nat]
    BY DEF CGInit, Presets
  <2> QED
    BY <1>0, <1>1, <2>1 DEF CGInit, GateTyped, CanonicalTools
<1>3. RowsKept
  BY <1>1 DEF CGInit, RowsKept, Row
<1>4. \A t \in CanonicalTools : slots[t] = {} /\ passed[t] = {}
  BY DEF CGInit
<1>5. SlotsKept
  BY <1>4, FS_EmptySet DEF SlotsKeptOf, SlotsKept
<1>6. RateKept
  <2>1. ASSUME NEW t \in CanonicalTools, NEW from \in Nat PROVE Window(passed[t], from) = {}
    BY <1>4, <2>1 DEF Window
  <2> QED
    BY <1>0, <2>1, FS_EmptySet DEF RateKept
<1> QED
  BY <1>2, <1>3, <1>5, <1>6 DEF GateSound

LEMMA RestTyped ==
  ASSUME GateTyped, CGNext
  PROVE  /\ clock' \in 0..MaxTime /\ route' \in Nat
         /\ settings' \in [preset : Presets, on : BOOLEAN, saves : Nat]
         /\ copy' \in [on : BOOLEAN, at : Nat]
<1>0. MaxTime \in Nat /\ clock \in Nat
  BY CallGateAssumption DEF GateTyped
<1>1. CASE Passes
  BY <1>0, <1>1 DEF Passes, GateTyped
<1>2. CASE Repointed
  BY <1>2 DEF Repointed, GateTyped
<1>3. ASSUME NEW preset \in Presets, NEW on \in BOOLEAN, Saves(preset, on)
      PROVE  /\ settings' \in [preset : Presets, on : BOOLEAN, saves : Nat]
             /\ UNCHANGED <<clock, copy, route>>
  <2>1. settings.saves \in Nat
    BY DEF GateTyped
  <2>2. settings' = [preset |-> preset, on |-> on, saves |-> settings.saves + 1] /\ UNCHANGED <<clock, copy, route>>
    BY <1>3 DEF Saves
  <2> QED
    BY <2>1, <2>2
<1>4. ASSUME NEW c \in Calls,
             \/ \E name \in ToolNames, agent, read \in BOOLEAN : Comes(c, name, agent, read)
             \/ Asks(c) \/ Cancelled(c) \/ Runs(c)
             \/ \E result \in {"answered", "errored", "failed"} : Ends(c, result)
      PROVE  UNCHANGED <<clock, settings, copy, route>>
  BY <1>4 DEF Comes, Asks, Cancelled, Runs, Ends
<1>5. ASSUME NEW c \in Calls, Gated(c)
      PROVE  UNCHANGED <<clock, settings, route>> /\ copy' \in [on : BOOLEAN, at : Nat]
  <2>1. UNCHANGED <<clock, settings, route>> /\ (copy' = copy \/ copy' = Presently)
    BY <1>5 DEF Gated
  <2>2. copy \in [on : BOOLEAN, at : Nat] /\ settings.on \in BOOLEAN
    BY DEF GateTyped
  <2>3. Presently \in [on : BOOLEAN, at : Nat]
    BY <1>0, <2>2 DEF Presently
  <2> QED
    BY <2>1, <2>2, <2>3
<1> QED
  BY <1>1, <1>2, <1>3, <1>4, <1>5 DEF CGNext, GateTyped

LEMMA GateStepSound == GateSound /\ [CGNext]_gate_vars => GateSound'
<1> SUFFICES ASSUME GateSound, [CGNext]_gate_vars PROVE GateSound'
  OBVIOUS
<1>1. CASE CGNext
  <2>1. GateTyped'
    BY <1>1, CallsStep, SlotsTyped, RestTyped DEF GateSound, GateTyped
  <2>2. RowsKept' /\ SlotsKept' /\ RateKept'
    BY <1>1, CallsStep, SlotsStay DEF GateSound
  <2> QED
    BY <2>1, <2>2 DEF GateSound
<1>2. CASE UNCHANGED gate_vars
  BY <1>2 DEF gate_vars, GateSound, GateTyped, RowsKept, Row, SlotsKeptOf, SlotsKept, RateKept
<1> QED
  BY <1>1, <1>2

LEMMA GateStaysSound == CGSpec => []GateSound
BY GateInit, GateStepSound, PTL DEF CGSpec

(* However the calls interleave with saves, the clock and repointed accounts:    *)
(* one row for an agent's call that ran and never two, and in no window, of the *)
(* whole history, more than RATE calls of a tool under all its names.           *)
THEOREM CallsAreAccounted == CGSpec => []CallsAccounted
<1>1. GateSound => CallsAccounted
  <2> SUFFICES ASSUME GateSound PROVE CallsAccounted
    OBVIOUS
  <2>1. \A t \in CanonicalTools, from \in 0..MaxTime : Cardinality(Window(passed[t], from)) <= RATE
    BY CallGateAssumption DEF GateSound, RateKept
  <2> QED
    BY <2>1 DEF GateSound, RowsKept, CallsAccounted, Window
<1> QED
  BY <1>1, GateStaysSound, PTL

LEMMA StepsPassTheGate ==
  ASSUME GateTyped, [CGNext]_gate_vars PROVE GateStep
<1>1. CASE UNCHANGED calls
  BY <1>1 DEF GateStep
<1>2. ASSUME NEW c \in Calls, \/ Gated(c) \/ Asks(c) \/ Cancelled(c)
             \/ \E name \in ToolNames, agent, read \in BOOLEAN : Comes(c, name, agent, read)
      PROVE  GateStep
  <2>1. /\ \A d \in Calls \ {c} : calls'[d] = calls[d]
        /\ calls'[c].phase # "running" /\ (calls'[c].result # "answered" \/ calls'[c].result = calls[c].result)
    <3>1. CASE Gated(c)
      <4>1. \/ Over(c, "blocked", 1) \/ Over(c, "blocked", Row(c))
            \/ calls' = [calls EXCEPT ![c].phase = "gated"]
        BY <3>1 DEF Gated
      <4> QED
        BY <4>1, OverLeaves, PhaseLeaves, RowType DEF Results, Phases
    <3>2. CASE Asks(c)
      BY <3>2, PhaseLeaves DEF Asks, Phases
    <3>3. CASE Cancelled(c)
      BY <3>3, OverLeaves DEF Cancelled, Results
    <3>4. CASE \E name \in ToolNames, agent, read \in BOOLEAN : Comes(c, name, agent, read)
      BY <3>4, ComesLeaves
    <3> QED
      BY <1>2, <3>1, <3>2, <3>3, <3>4
  <2> QED
    BY <2>1 DEF GateStep
<1>3. ASSUME NEW c \in Calls, Runs(c) PROVE GateStep
  <2>1. \/ Over(c, "blocked", 1) \/ Over(c, "failed", 0)
        \/ /\ calls' = [calls EXCEPT ![c].phase = "running"]
           /\ calls[c].agent /\ ~calls[c].read => globalAllows(settings.preset, canonicalToolName(calls[c].name))
    BY <1>3 DEF Runs, finalPreset
  <2>2. CASE Over(c, "blocked", 1) \/ Over(c, "failed", 0)
    BY <2>2, OverLeaves DEF GateStep, Results
  <2>3. CASE /\ calls' = [calls EXCEPT ![c].phase = "running"]
             /\ calls[c].agent /\ ~calls[c].read => globalAllows(settings.preset, canonicalToolName(calls[c].name))
    <3>1. /\ \A d \in Calls \ {c} : calls'[d] = calls[d]
          /\ calls'[c].agent = calls[c].agent /\ calls'[c].read = calls[c].read
          /\ calls'[c].result = calls[c].result
      BY <2>3, PhaseLeaves DEF Phases
    <3> QED
      BY <2>3, <3>1 DEF GateStep
  <2> QED
    BY <2>1, <2>2, <2>3
<1>4. ASSUME NEW c \in Calls, NEW result \in {"answered", "errored", "failed"}, Ends(c, result)
      PROVE  GateStep
  <2>1. PICK told \in {"answered", "errored", "failed", "discarded"} :
           Over(c, told, RowsOf(c, told)) /\ (told = "answered" => calls[c].route = route)
    BY <1>4 DEF Ends, isCurrentAccountRoute
  <2>2. RowsOf(c, told) \in Nat /\ told \in Results
    BY RowType DEF RowsOf, Results
  <2> QED
    BY <2>1, <2>2, OverLeaves DEF GateStep
<1> QED
  BY <1>1, <1>2, <1>3, <1>4 DEF CGNext, Passes, Repointed, Saves, gate_vars

(* No call of an agent starts against the preset saved last, and none is         *)
(* answered with mail of an account other than the one it was routed to.        *)
THEOREM NoCallPastTheGate == CGSpec => NothingPastTheGate
<1>1. GateSound /\ [CGNext]_gate_vars => [GateStep]_gate_vars
  BY StepsPassTheGate DEF GateSound
<1> QED
  BY <1>1, GateStaysSound, PTL DEF CGSpec, NothingPastTheGate

------------------------------------------------------------------------------
(* The folders of a restricted call.                                            *)

Granted(R, allow) == \A f \in R : f # Absent /\ Within(f, allow)
Inside(N, allow) == \A f \in N : f = Refused \/ Within(f, allow)

LEMMA EmptyIsBlank == Blank(<<>>)
<1>1. DOMAIN <<>> = 1 .. Len(<<>>) /\ Len(<<>>) = 0
  BY EmptySeq, LenProperties
<1>2. DOMAIN <<>> = {}
  BY <1>1
<1> QED
  BY ONLY <1>2, Zenon DEF Blank

(* What the server is told of a path is the path the gate has read. *)
LEMMA PathsAgree ==
  ASSUME NEW v, NEW allow, Granted({readFolder(v)}, allow)
  PROVE  Inside(validateImapPath(v), allow) /\ Inside(optionalSourceFolder(v), allow)
         /\ Inside(validateRequiredTargetFolder(v), allow)
<1>1. readFolder(v) # Absent /\ Within(readFolder(v), allow)
  BY DEF Granted
<1>2. IsString(v) /\ ~Blank(v) /\ readFolder(v) = Trim(v)
  BY <1>1 DEF readFolder
<1>3. v \notin {Absent, <<>>}
  BY <1>2, EmptyIsBlank DEF IsString
<1>4. Inside(validateImapPath(v), allow)
  BY <1>1, <1>2 DEF Inside, validateImapPath, Padded
<1>5. Inside(validateRequiredTargetFolder(v), allow)
  BY <1>1, <1>2 DEF Inside, validateRequiredTargetFolder
<1> QED
  BY <1>3, <1>4, <1>5 DEF optionalSourceFolder

LEMMA LabelsAgree ==
  ASSUME NEW v, NEW allow, Granted({prefixed(v)}, allow)
  PROVE  Inside(validateLabelName(v), allow)
<1>1. CASE IsString(v) /\ ~Blank(v)
  <2>1. prefixed(v) = LabelPath(v)
    BY <1>1 DEF prefixed, readNonEmptyString, IsString
  <2> QED
    BY <2>1 DEF Granted, Inside, validateLabelName, validateImapPath
<1>2. CASE ~(IsString(v) /\ ~Blank(v))
  BY <1>2 DEF Inside, validateLabelName
<1> QED
  BY <1>1, <1>2

LEMMA TargetsAgree ==
  ASSUME NEW v, NEW allow, Granted({folder_or_prefixed(v)}, allow)
  PROVE  Inside(FolderTarget(v), allow)
<1>1. readFolder(v) # Absent => readFolder(v) = Trim(v)
  BY DEF readFolder
<1> QED
  BY <1>1 DEF Granted, Inside, FolderTarget, folder_or_prefixed

(* A mutation, tool by tool: what the gate works out, and what is named.        *)
LEMMA MutationsAgree ==
  ASSUME NEW tool \in Mutations, NEW a, NEW allow, NEW special,
         Granted(resolveMailboxMutationFolders(tool, a), allow)
  PROVE  Inside(Mutates(tool, a, special), allow)
<1> USE DEF Flagging, Moving, Deleting, Labelling, Unlabelling
<1>1. CASE tool \in Flagging
  <2>1. /\ resolveMailboxMutationFolders(tool, a) = {readFolder(a.source)}
        /\ Mutates(tool, a, special) = optionalSourceFolder(a.source)
    BY <1>1 DEF resolveMailboxMutationFolders, Mutates, Acts
  <2> QED
    BY <2>1, PathsAgree
<1>2. CASE tool \in Moving
  <2>1. /\ resolveMailboxMutationFolders(tool, a) = {readFolder(a.source), readFolder(a.target)}
        /\ Mutates(tool, a, special) = optionalSourceFolder(a.source) \cup validateImapPath(a.target)
    BY <1>2 DEF resolveMailboxMutationFolders, Mutates, Acts
  <2>2. Granted({readFolder(a.source)}, allow) /\ Granted({readFolder(a.target)}, allow)
    BY <2>1 DEF Granted
  <2> QED
    BY <2>1, <2>2, PathsAgree DEF Inside
<1>3. CASE tool = "move_to_folder"
  <2>1. /\ resolveMailboxMutationFolders(tool, a) = {readFolder(a.source), folder_or_prefixed(a.target)}
        /\ Mutates(tool, a, special) = optionalSourceFolder(a.source) \cup FolderTarget(a.target)
    BY <1>3 DEF resolveMailboxMutationFolders, Mutates, Acts
  <2>2. Granted({readFolder(a.source)}, allow) /\ Granted({folder_or_prefixed(a.target)}, allow)
    BY <2>1 DEF Granted
  <2> QED
    BY <2>1, <2>2, PathsAgree, TargetsAgree DEF Inside
<1>4. ASSUME NEW fixed, \/ tool = "archive_email" /\ fixed = Archive
                        \/ tool = "move_to_trash" /\ fixed = Trash
                        \/ tool = "move_to_spam" /\ fixed = Spam
      PROVE  Inside(Mutates(tool, a, special), allow)
  <2>1. /\ resolveMailboxMutationFolders(tool, a) = {readFolder(a.source), fixed}
        /\ Mutates(tool, a, special) = optionalSourceFolder(a.source) \cup {fixed}
    BY <1>4 DEF resolveMailboxMutationFolders, Mutates, Acts
  <2>2. Granted({readFolder(a.source)}, allow) /\ Within(fixed, allow)
    BY <2>1 DEF Granted
  <2> QED
    BY <2>1, <2>2, PathsAgree DEF Inside
<1>5. CASE tool \in Deleting \cup {"empty_trash", "save_draft"}
  <2>1. Absent \in resolveMailboxMutationFolders(tool, a)
    BY <1>5 DEF resolveMailboxMutationFolders, dynamic_special_use
  <2> QED
    BY <2>1 DEF Granted
<1>6. CASE tool \in Labelling
  <2>1. /\ resolveMailboxMutationFolders(tool, a) = {readFolder(a.source), prefixed(a.target)}
        /\ Mutates(tool, a, special) = validateLabelName(a.target) \cup optionalSourceFolder(a.source)
    BY <1>6 DEF resolveMailboxMutationFolders, Mutates, LabelsMail
  <2>2. Granted({readFolder(a.source)}, allow) /\ Granted({prefixed(a.target)}, allow)
    BY <2>1 DEF Granted
  <2> QED
    BY <2>1, <2>2, PathsAgree, LabelsAgree DEF Inside
<1>7. CASE tool \in Unlabelling
  <2>1. /\ resolveMailboxMutationFolders(tool, a) = {prefixed(a.target)}
        /\ Mutates(tool, a, special) = validateLabelName(a.target)
    BY <1>7 DEF resolveMailboxMutationFolders, Mutates, LabelsMail
  <2> QED
    BY <2>1, LabelsAgree
<1>8. CASE tool \in {"create_folder", "delete_folder"}
  <2>1. /\ resolveMailboxMutationFolders(tool, a) = {readFolder(a.target)}
        /\ Mutates(tool, a, special) = validateRequiredTargetFolder(a.target)
    BY <1>8 DEF resolveMailboxMutationFolders, Mutates, Administers
  <2> QED
    BY <2>1, PathsAgree
<1>9. CASE tool = "rename_folder"
  <2>1. /\ resolveMailboxMutationFolders(tool, a) = {readFolder(a.source), readFolder(a.target)}
        /\ Mutates(tool, a, special)
             = validateRequiredTargetFolder(a.target) \cup validateRequiredTargetFolder(a.source)
    BY <1>9 DEF resolveMailboxMutationFolders, Mutates, Administers
  <2>2. Granted({readFolder(a.source)}, allow) /\ Granted({readFolder(a.target)}, allow)
    BY <2>1 DEF Granted
  <2> QED
    BY <2>1, <2>2, PathsAgree DEF Inside
<1> QED
  BY <1>1, <1>2, <1>3, <1>4, <1>5, <1>6, <1>7, <1>8, <1>9 DEF Mutations

(* A read proves the folder of what it answers; sync_emails leaves that to the  *)
(* gate.                                                                        *)
Readers == Tools \ (Mutations \cup {"sync_emails"})

LEMMA ProvenIsInside == \A f, allow : Proven(f, allow) = Refused \/ Within(Proven(f, allow), allow)
BY DEF Proven

LEMMA ReadsAreProven ==
  ASSUME NEW tool \in Readers, NEW a, NEW allow
  PROVE  Inside(Reads(tool, a, allow), allow)
<1> USE ProvenIsInside DEF Inside
<1>1. Inside(Fetches(a, allow), allow)
  BY DEF Fetches
<1>2. Inside(allow, allow)
  BY DEF Within, Same
<1>3. Inside(get_emails(a, allow), allow) /\ Inside(get_emails_by_label(a, allow), allow)
  BY DEF get_emails, get_emails_by_label
<1>4. Inside(validateSearchInput(a, allow), allow)
  BY DEF validateSearchInput
<1>5. Inside(fts_search(a, allow), allow) /\ Inside(list_proton_scheduled(allow), allow)
  BY DEF fts_search, searchUnsafe, list_proton_scheduled
<1>6. Inside(remind_if_no_reply(a, allow), allow)
  BY DEF remind_if_no_reply
<1>7. tool \in {"get_emails", "get_emails_by_label", "get_thread", "reply_to_email", "forward_email",
               "download_attachment", "get_email_by_id", "extract_action_items", "extract_meeting",
               "search_emails", "fts_search", "list_proton_scheduled", "remind_if_no_reply"}
  BY DEF Readers, Tools, ById, ByDefault
<1>8. Reads(tool, a, allow) \in
        {get_emails(a, allow), get_emails_by_label(a, allow), Fetches(a, allow) \cup allow,
         Fetches(a, allow), validateSearchInput(a, allow), fts_search(a, allow),
         list_proton_scheduled(allow), remind_if_no_reply(a, allow)}
  BY <1>7 DEF Reads, get_thread, Replies, download_attachment, Extracts
<1>9. Inside(Fetches(a, allow) \cup allow, allow)
  BY <1>1, <1>2
<1> HIDE DEF Inside
<1> QED
  BY <1>1, <1>3, <1>4, <1>5, <1>6, <1>8, <1>9

LEMMA SyncAgrees ==
  ASSUME NEW a, NEW allow, Granted({DefaultFolder(a.source)}, allow)
  PROVE  Inside(sync_emails(a), allow)
<1>1. CASE a.source \in {Absent, <<>>}
  <2>1. DefaultFolder(a.source) = INBOX
    BY <1>1, EmptyIsBlank DEF DefaultFolder, IsString, Absent, Odd
  <2> QED
    BY <1>1, <2>1 DEF sync_emails, Granted, Inside
<1>2. CASE a.source \notin {Absent, <<>>} /\ IsString(a.source) /\ Blank(a.source)
  BY <1>2 DEF sync_emails, validateImapPath, Inside
<1>3. CASE a.source \notin {Absent, <<>>} /\ ~(IsString(a.source) /\ Blank(a.source))
  <2>1. DefaultFolder(a.source) = readFolder(a.source)
    BY <1>3 DEF DefaultFolder
  <2> QED
    BY <1>3, <2>1, PathsAgree DEF sync_emails
<1> QED
  BY <1>1, <1>2, <1>3

LEMMA AdmittedStaysInside ==
  ASSUME NEW tool \in Tools, NEW a, NEW allow, NEW special, checkFolderCondition(tool, a, allow)
  PROVE  \A f \in Names(tool, a, allow, special) : Within(f, allow)
<1> DEFINE all == IF tool \in Mutations THEN Mutates(tool, a, special) ELSE Reads(tool, a, allow)
<1>1. Granted(Resolved(tool, a), allow)
  BY DEF checkFolderCondition, Granted
<1>2. Inside(all, allow)
  <2>1. CASE tool \in Mutations
    BY <1>1, <2>1, MutationsAgree DEF Resolved
  <2>2. CASE tool = "sync_emails"
    <3>1. tool \notin Mutations
      BY <2>2 DEF Mutations, Flagging, Moving, Deleting, Labelling, Unlabelling
    <3>2. Resolved(tool, a) = {DefaultFolder(a.source)} /\ all = sync_emails(a)
      BY <2>2, <3>1 DEF Resolved, resolveDirectContentFolders, ById, ByDefault, Reads
    <3> QED
      BY <1>1, <3>2, SyncAgrees
  <2>3. CASE tool \in Readers
    BY <2>3, ReadsAreProven DEF Readers
  <2> QED
    BY <2>1, <2>2, <2>3 DEF Readers
<1> QED
  BY <1>2 DEF Names, Inside

LEMMA ReadersStayInside ==
  ASSUME NEW tool \in Readers, NEW a, NEW allow, NEW special
  PROVE  \A f \in Names(tool, a, allow, special) : Within(f, allow)
BY ReadsAreProven DEF Names, Inside, Readers

(* The gate denies a move or a read by id only for a folder of its own.         *)
LEMMA DeniedForAReason ==
  ASSUME NEW tool \in Moving \cup ById, NEW a, NEW allow,
         a.source \in Values, a.target \in Values, \A s \in Spellings : Trim(s) # Absent,
         ~checkFolderCondition(tool, a, allow)
  PROVE  \E v \in {a.source} \cup (IF tool \in Moving THEN {a.target} ELSE {}) :
           ~IsString(v) \/ Blank(v) \/ ~Within(Trim(v), allow)
<1>1. PICK f \in Resolved(tool, a) : f = Absent \/ ~Within(f, allow)
  BY DEF checkFolderCondition
<1>2. \/ tool \in Moving /\ Resolved(tool, a) = {readFolder(a.source), readFolder(a.target)}
      \/ tool \notin Moving /\ Resolved(tool, a) = {readFolder(a.source)}
  <2>1. CASE tool \in Moving
    <3>1. tool \in Mutations /\ tool \notin Flagging
      BY <2>1 DEF Mutations, Flagging, Moving
    <3>2. resolveMailboxMutationFolders(tool, a) = {readFolder(a.source), readFolder(a.target)}
      BY <2>1 DEF resolveMailboxMutationFolders, Flagging, Moving, Deleting, Labelling, Unlabelling
    <3> QED
      BY <2>1, <3>1, <3>2 DEF Resolved
  <2>2. CASE tool \in ById
    <3>1. tool \notin Mutations /\ tool \notin Moving
      BY <2>2 DEF ById, Mutations, Flagging, Moving, Deleting, Labelling, Unlabelling
    <3>2. resolveDirectContentFolders(tool, a) = {readFolder(a.source)}
      BY <2>2 DEF resolveDirectContentFolders, ById, ByDefault
    <3> QED
      BY <2>2, <3>1, <3>2 DEF Resolved
  <2> QED
    BY <2>1, <2>2
<1>3. PICK v \in {a.source} \cup (IF tool \in Moving THEN {a.target} ELSE {}) : f = readFolder(v)
  BY <1>1, <1>2
<1>4. v \in Values
  BY <1>3
<1>5. CASE IsString(v) /\ ~Blank(v)
  BY <1>1, <1>3, <1>4, <1>5 DEF readFolder, Values, IsString
<1> QED
  BY <1>3, <1>5

FolderScopeSound ==
  /\ scope.tool \in Tools /\ scope.args.source \in Values /\ scope.args.target \in Values
  /\ decision = "admitted" => checkFolderCondition(scope.tool, scope.args, scope.allow)
  /\ decision = "denied" => ~checkFolderCondition(scope.tool, scope.args, scope.allow)
  /\ decision # "handled" => named = {}
  /\ StaysWithin

LEMMA CallsOfTools ==
  ASSUME NEW tool \in Tools, NEW args \in ArgsOf(tool)
  PROVE  args.source \in Values /\ args.target \in Values
BY DEF ArgsOf, Values

LEMMA FolderScopeInit == FSInit => FolderScopeSound
<1> SUFFICES ASSUME FSInit PROVE FolderScopeSound
  OBVIOUS
<1>1. PICK tool \in Tools : \E args \in ArgsOf(tool) :
         scope \in [tool : {tool}, args : {args}, allow : Allowlists, special : SpecialPaths]
  BY DEF FSInit
<1>2. PICK args \in ArgsOf(tool) :
         scope \in [tool : {tool}, args : {args}, allow : Allowlists, special : SpecialPaths]
  BY <1>1
<1>3. scope.tool = tool /\ scope.args = args
  BY <1>2
<1> QED
  BY <1>3, CallsOfTools DEF FSInit, FolderScopeSound, StaysWithin

LEMMA FolderScopeStep == FolderScopeSound /\ [FSNext]_fs_vars => FolderScopeSound'
<1> SUFFICES ASSUME FolderScopeSound, [FSNext]_fs_vars PROVE FolderScopeSound'
  OBVIOUS
<1>1. CASE Check
  BY <1>1 DEF Check, FolderScopeSound, StaysWithin
<1>2. CASE Handle
  <2>1. \A f \in Names(scope.tool, scope.args, scope.allow, scope.special) : Within(f, scope.allow)
    BY <1>2, AdmittedStaysInside DEF FolderScopeSound, Handle
  <2> QED
    BY <1>2, <2>1 DEF FolderScopeSound, Handle, StaysWithin
<1>3. CASE UNCHANGED fs_vars
  BY <1>3 DEF fs_vars, FolderScopeSound, StaysWithin
<1> QED
  BY <1>1, <1>2, <1>3 DEF FSNext

(* For all arguments, allowlists and mailboxes: what the gate admits names no    *)
(* mailbox outside the allowlist, a reader would not even without the gate, and *)
(* a move or a read by id is only refused for a folder of its own.              *)
THEOREM CallsStayInTheirFolders == FSSpec => []FolderScopeHolds
<1>1. FolderScopeSound => FolderScopeHolds
  <2> SUFFICES ASSUME FolderScopeSound PROVE FolderScopeHolds
    OBVIOUS
  <2>1. ReadsProven
    BY ReadersStayInside DEF ReadsProven, FolderScopeSound, Readers
  <2>2. ServesInside
    BY DeniedForAReason, FolderScopeAssumption DEF ServesInside, FolderScopeSound
  <2> QED
    BY <2>1, <2>2 DEF FolderScopeHolds, FolderScopeSound
<1> QED
  BY <1>1, FolderScopeInit, FolderScopeStep, PTL DEF FSSpec

==============================================================================
