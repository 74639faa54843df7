---------------------------- MODULE GrantsProofs ----------------------------
(***************************************************************************)
(* Theorems about the grants shared by several mailpouch processes.        *)
(***************************************************************************)
EXTENDS Grants, FiniteSetTheorems, TLAPS

LEMMA Constants ==
  /\ Interactive \cap Service = {}
  /\ NoClient \notin Clients /\ NoProcess \notin Processes
  /\ Serving \subseteq Processes
  /\ 0 \in Times /\ Never \in Terms /\ Expiries \subseteq Terms
  /\ Interactive \subseteq Clients /\ Service \subseteq Clients
  /\ MaxTime \in Nat
BY ClientsAssumption, BoundsAssumption DEF Times, Terms, Clients, Never

LEMMA BareType ==
  ASSUME NEW status \in {"absent", "pending", "active", "revoked", "expired"},
         NEW total \in Nat
  PROVE  Bare(status, total) \in Grant
BY Constants DEF Bare, Grant

LEMMA AbsentType == Absent \in Grant
BY BareType DEF Absent

(* The file decides on everything but the counters. *)
LEMMA MergedFollowsDisk ==
  ASSUME TypeOK, NEW p \in Processes
  PROVE  /\ Merged(p) \in [Clients -> Grant]
         /\ \A c \in Clients : /\ Merged(p)[c].status = disk[c].status
                               /\ Merged(p)[c].created = disk[c].created
                               /\ Merged(p)[c].expires = disk[c].expires
                               /\ Merged(p)[c].total >= disk[c].total
<1>1. ASSUME NEW c \in Clients
      PROVE  /\ Merged(p)[c] \in Grant
             /\ Merged(p)[c].status = disk[c].status
             /\ Merged(p)[c].created = disk[c].created
             /\ Merged(p)[c].expires = disk[c].expires
             /\ Merged(p)[c].total >= disk[c].total
  <2>1. disk[c] \in Grant /\ memory[p][c] \in Grant
    BY DEF TypeOK
  <2>2. CASE disk[c].status # "absent" /\ memory[p][c].total > disk[c].total
    <3>1. Merged(p)[c] = [disk[c] EXCEPT !.total = memory[p][c].total]
      BY <2>2 DEF Merged
    <3>2. QED
      BY <2>1, <2>2, <3>1 DEF Grant
  <2>3. CASE ~(disk[c].status # "absent" /\ memory[p][c].total > disk[c].total)
    <3>1. Merged(p)[c] = disk[c]
      BY <2>3 DEF Merged
    <3>2. QED
      BY <2>1, <3>1 DEF Grant
  <2>4. QED
    BY <2>2, <2>3
<1>2. Merged(p) = [c \in Clients |-> Merged(p)[c]]
  BY DEF Merged
<1>3. QED
  BY <1>1, <1>2

LEMMA ActivatedType ==
  ASSUME NEW g \in [Clients -> Grant], NEW c \in Clients, NEW e \in Terms
  PROVE  Activated(g, c, e) \in [Clients -> Grant]
<1>1. [Bare("active", g[c].total) EXCEPT !.expires = e] \in Grant
  <2>1. g[c].total \in Nat
    BY DEF Grant
  <2>2. QED
    BY <2>1, Constants DEF Bare, Grant
<1>2. QED
  BY <1>1 DEF Activated

LEMMA EndedType ==
  ASSUME NEW g \in [Clients -> Grant], NEW c \in Clients,
         NEW status \in {"revoked", "expired"}
  PROVE  Ended(g, c, status) \in [Clients -> Grant]
<1>1. Bare(status, g[c].total) \in Grant
  BY BareType DEF Grant
<1>2. QED
  BY <1>1 DEF Ended

LEMMA WithoutType ==
  ASSUME NEW g \in [Clients -> Grant], NEW gone
  PROVE  Without(g, gone) \in [Clients -> Grant]
BY AbsentType DEF Without

LEMMA StoreType ==
  ASSUME TypeOK, NEW p \in Processes, NEW g \in [Clients -> Grant], NEW saved,
         Store(p, g, saved)
  PROVE  /\ disk' \in [Clients -> Grant]
         /\ memory' \in [Processes -> [Clients -> Grant]]
BY DEF TypeOK, Store

LEMMA CallTypes ==
  ASSUME TypeOK
  PROVE  /\ FreshCall \in Call
         /\ \A k \in Calls : Finish(k) \in [Calls -> Call]
<1>1. FreshCall \in Call
  BY AbsentType, Constants DEF FreshCall, Call
<1>2. ASSUME NEW k \in Calls PROVE Finish(k) \in [Calls -> Call]
  <2>1. [calls[k] EXCEPT !.phase = "over", !.seen = Absent] \in Call
    BY ZenonT(40), AbsentType DEF TypeOK, Call
  <2>2. [FreshCall EXCEPT !.phase = "over"] \in Call
    BY <1>1 DEF Call
  <2>3. QED
    BY <2>1, <2>2 DEF TypeOK, Finish
<1>3. QED
  BY <1>1, <1>2

-----------------------------------------------------------------------------
LEMMA InitType == Init => TypeOK
<1> SUFFICES ASSUME Init PROVE TypeOK
  OBVIOUS
<1>1. NoGrants \in [Clients -> Grant]
  BY AbsentType DEF NoGrants
<1>2. FreshCall \in Call
  BY AbsentType, Constants DEF FreshCall, Call
<1>3. calls \in [Calls -> Call] /\ memory \in [Processes -> [Clients -> Grant]]
  BY <1>1, <1>2 DEF Init
<1>4. /\ now \in Times
      /\ cred \in [Service -> [state : {"unissued", "present", "gone"}, expires : Terms]]
      /\ pc \in [Processes -> {"idle", "ensure", "revoke", "check", "boot", "down"}]
      /\ todo \in [Processes -> SUBSET Service]
      /\ \A p \in Processes : todo[p] # {} <=> pc[p] \in {"ensure", "revoke", "boot"}
      /\ ruling \in [Clients -> {"none", "approved", "revoked"}]
  BY Constants DEF Init
<1>5. disk \in [Clients -> Grant]
  BY <1>1 DEF Init
<1>6. ledger \subseteq Calls /\ admitted \subseteq Calls /\ dialogs \subseteq Processes \X Interactive
  BY DEF Init
<1>7. QED
  BY <1>3, <1>4, <1>5, <1>6 DEF TypeOK

(* The part of the typing no store operation of an idle process disturbs. *)
Others == <<now, cred, pc, todo, calls, ledger, admitted>>

LEMMA StoresKeepType ==
  ASSUME TypeOK, UNCHANGED Others,
         disk' \in [Clients -> Grant], memory' \in [Processes -> [Clients -> Grant]],
         dialogs' \subseteq Processes \X Interactive,
         ruling' \in [Clients -> {"none", "approved", "revoked"}]
  PROVE  TypeOK'
BY DEF TypeOK, Others

LEMMA StoreStepsKeepType ==
  ASSUME TypeOK, NEW p \in Processes
  PROVE  /\ Reload(p) => TypeOK'
         /\ \A c \in Interactive : CreatePending(p, c) \/ Answer(p, c) => TypeOK'
         /\ \A c \in Clients : Approve(p, c) \/ Deny(p, c) => TypeOK'
         /\ Flush(p) => TypeOK'
         /\ Prune(p) => TypeOK'
         /\ \A saved : ExpireStale(p, saved) => TypeOK'
<1>0. Merged(p) \in [Clients -> Grant]
  BY MergedFollowsDisk
<1>1. ASSUME Reload(p) PROVE TypeOK'
  BY <1>0, <1>1, StoresKeepType DEF Reload, Others, TypeOK
<1>2. ASSUME NEW c \in Interactive, CreatePending(p, c) PROVE TypeOK'
  <2>1. PICK old \in Evictions(Merged(p)), saved \in Saves :
          Store(p, [Without(Merged(p), old) EXCEPT ![c] =
                      [Bare("pending", 0) EXCEPT !.created = now]], saved)
    BY <1>2 DEF CreatePending
  <2>2. [Bare("pending", 0) EXCEPT !.created = now] \in Grant
    BY Constants DEF Bare, Grant, TypeOK
  <2>3. [Without(Merged(p), old) EXCEPT ![c] = [Bare("pending", 0) EXCEPT !.created = now]]
           \in [Clients -> Grant]
    BY <1>0, <2>2, WithoutType, Constants
  <2>4. /\ disk' \in [Clients -> Grant]
        /\ memory' \in [Processes -> [Clients -> Grant]]
    BY <2>1, <2>3, StoreType
  <2>5. /\ dialogs' \subseteq Processes \X Interactive
        /\ ruling' \in [Clients -> {"none", "approved", "revoked"}]
        /\ UNCHANGED Others
    BY <1>2, Constants DEF CreatePending, TypeOK, Others
  <2>6. QED
    BY <2>4, <2>5, StoresKeepType
<1>3. ASSUME NEW c \in Clients, Approve(p, c) PROVE TypeOK'
  <2>1. PICK e \in Terms, saved \in Saves : Store(p, Activated(Merged(p), c, e), saved)
    BY <1>3 DEF Approve
  <2>2. /\ disk' \in [Clients -> Grant]
        /\ memory' \in [Processes -> [Clients -> Grant]]
    BY <1>0, <2>1, ActivatedType, StoreType
  <2>3. /\ dialogs' \subseteq Processes \X Interactive
        /\ ruling' \in [Clients -> {"none", "approved", "revoked"}]
        /\ UNCHANGED Others
    BY <1>3 DEF Approve, TypeOK, Others
  <2>4. QED
    BY <2>2, <2>3, StoresKeepType
<1>4. ASSUME NEW c \in Clients, Deny(p, c) PROVE TypeOK'
  <2>1. PICK saved \in Saves : Store(p, Ended(Merged(p), c, "revoked"), saved)
    BY <1>4 DEF Deny
  <2>2. /\ disk' \in [Clients -> Grant]
        /\ memory' \in [Processes -> [Clients -> Grant]]
    BY <1>0, <2>1, EndedType, StoreType
  <2>3. /\ dialogs' \subseteq Processes \X Interactive
        /\ ruling' \in [Clients -> {"none", "approved", "revoked"}]
        /\ UNCHANGED Others
    BY <1>4 DEF Deny, TypeOK, Others
  <2>4. QED
    BY <2>2, <2>3, StoresKeepType
<1>5. ASSUME NEW c \in Interactive, Answer(p, c) PROVE TypeOK'
  <2>1. /\ dialogs' \subseteq Processes \X Interactive
        /\ ruling' \in [Clients -> {"none", "approved", "revoked"}]
        /\ UNCHANGED Others
    BY <1>5 DEF Answer, Click, TypeOK, Others
  <2>2. CASE Undecided(p, c)
    <3>1. PICK saved \in Saves, yes \in BOOLEAN : Store(p, IF yes THEN Activated(Merged(p), c, Never)
                                            ELSE Ended(Merged(p), c, "revoked"), saved)
      BY <1>5, <2>2 DEF Answer, Click
    <3>2. /\ disk' \in [Clients -> Grant]
          /\ memory' \in [Processes -> [Clients -> Grant]]
      BY <1>0, <3>1, ActivatedType, EndedType, StoreType, Constants
    <3>3. QED
      BY <2>1, <3>2, StoresKeepType
  <2>3. CASE ~Undecided(p, c)
    BY <1>0, <1>5, <2>1, <2>3, StoresKeepType DEF Answer, TypeOK
  <2>4. QED
    BY <2>2, <2>3
<1>6. ASSUME Flush(p) PROVE TypeOK'
  <2>1. PICK saved \in Saves : Store(p, Merged(p), saved)
    BY <1>6 DEF Flush
  <2>2. QED
    BY <1>0, <1>6, <2>1, StoreType, StoresKeepType DEF Flush, Others, TypeOK
<1>7. ASSUME Prune(p) PROVE TypeOK'
  <2>1. PICK gone \in SUBSET Clients, saved \in Saves : Store(p, Without(Merged(p), gone), saved)
    BY <1>7 DEF Prune
  <2>2. QED
    BY <1>0, <1>7, <2>1, WithoutType, StoreType, StoresKeepType DEF Prune, Others, TypeOK
<1>8. ASSUME NEW saved, ExpireStale(p, saved) PROVE TypeOK'
  <2>1. Store(p, Without(Merged(p), Overdue(Merged(p))), saved)
    BY <1>8 DEF ExpireStale
  <2>2. QED
    BY <1>0, <1>8, <2>1, WithoutType, StoreType, StoresKeepType DEF ExpireStale, Others, TypeOK
<1>9. QED
  BY <1>1, <1>2, <1>3, <1>4, <1>5, <1>6, <1>7, <1>8

-----------------------------------------------------------------------------
(* The sequences over service accounts. *)
Sequenced ==
  /\ pc \in [Processes -> {"idle", "ensure", "revoke", "check", "boot", "down"}]
  /\ todo \in [Processes -> SUBSET Service]
  /\ \A p \in Processes : todo[p] # {} <=> pc[p] \in {"ensure", "revoke", "boot"}

LEMMA SequencesKeepType ==
  ASSUME TypeOK, Sequenced', UNCHANGED <<now, calls, ledger, dialogs, admitted>>,
         disk' \in [Clients -> Grant], memory' \in [Processes -> [Clients -> Grant]],
         cred' \in [Service -> [state : {"unissued", "present", "gone"}, expires : Terms]],
         ruling' \in [Clients -> {"none", "approved", "revoked"}]
  PROVE  TypeOK'
BY DEF TypeOK, Sequenced

LEMMA AdvanceKeepsSequences ==
  ASSUME TypeOK, NEW p \in Processes, NEW s \in todo[p], NEW saved, Advance(p, s, saved)
  PROVE  Sequenced'
<1>1. pc[p] \in {"ensure", "revoke", "boot"} /\ Stopped(p) \in {"idle", "down"}
  BY DEF TypeOK, Stopped
<1>2. todo' = [todo EXCEPT ![p] = IF saved THEN todo[p] \ {s} ELSE {}]
  BY DEF Advance
<1>3. pc' = [pc EXCEPT ![p] = IF ~saved THEN Stopped(p)
                              ELSE IF todo[p] = {s} THEN "idle" ELSE pc[p]]
  BY DEF Advance
<1>4. todo' \in [Processes -> SUBSET Service]
  BY <1>2 DEF TypeOK
<1>5. pc' \in [Processes -> {"idle", "ensure", "revoke", "check", "boot", "down"}]
  BY <1>1, <1>3 DEF TypeOK
<1>6. ASSUME NEW q \in Processes
      PROVE  todo'[q] # {} <=> pc'[q] \in {"ensure", "revoke", "boot"}
  <2>1. CASE q # p
    BY <1>2, <1>3, <2>1 DEF TypeOK
  <2>2. CASE q = p /\ ~saved
    BY <1>1, <1>2, <1>3, <2>2 DEF TypeOK
  <2>3. CASE q = p /\ saved
    <3>1. todo'[p] = todo[p] \ {s}
      BY <1>2, <2>3 DEF TypeOK
    <3>2. pc'[p] = IF todo[p] = {s} THEN "idle" ELSE pc[p]
      BY <1>3, <2>3 DEF TypeOK
    <3>3. todo[p] \ {s} # {} <=> todo[p] # {s}
      OBVIOUS
    <3>4. QED
      BY <1>1, <2>3, <3>1, <3>2, <3>3
  <2>4. QED
    BY <2>1, <2>2, <2>3
<1>7. QED
  BY <1>4, <1>5, <1>6 DEF Sequenced

LEMMA ServiceStepsKeepType ==
  ASSUME TypeOK, NEW p \in Processes, NEW s \in Service
  PROVE  /\ Issue(p, s) => TypeOK'
         /\ Login(p, s) => TypeOK'
         /\ Ensure(p, s) => TypeOK'
         /\ RevokeCredential(p, s) => TypeOK'
         /\ RevokeGrant(p, s) => TypeOK'
         /\ Abandon(p) => TypeOK'
<1>0. Merged(p) \in [Clients -> Grant] /\ s \in Clients
  BY MergedFollowsDisk, Constants
<1>1. ASSUME pc' = [pc EXCEPT ![p] = "ensure"] \/ pc' = [pc EXCEPT ![p] = "revoke"],
             todo' = [todo EXCEPT ![p] = {s}]
      PROVE  Sequenced'
  BY <1>1 DEF TypeOK, Sequenced
<1>2. ASSUME Issue(p, s) PROVE TypeOK'
  <2>1. cred' \in [Service -> [state : {"unissued", "present", "gone"}, expires : Terms]]
    BY <1>2 DEF Issue, TypeOK
  <2>2. Sequenced'
    BY <1>1, <1>2 DEF Issue
  <2>3. QED
    BY <1>2, <2>1, <2>2, SequencesKeepType DEF Issue, TypeOK
<1>3. ASSUME Login(p, s) PROVE TypeOK'
  <2>1. Sequenced'
    BY <1>1, <1>3 DEF Login
  <2>2. QED
    BY <1>3, <2>1, SequencesKeepType DEF Login, TypeOK
<1>4. ASSUME Ensure(p, s) PROVE TypeOK'
  <2>1. PICK saved \in Saves : /\ Store(p, Activated(Merged(p), s, cred[s].expires), saved)
                               /\ Advance(p, s, saved)
    BY <1>4 DEF Ensure
  <2>2. Sequenced'
    BY <1>4, <2>1, AdvanceKeepsSequences DEF Ensure
  <2>3. Activated(Merged(p), s, cred[s].expires) \in [Clients -> Grant]
    <3>1. cred[s].expires \in Terms
      BY DEF TypeOK
    <3>2. QED
      BY <1>0, <3>1, ActivatedType
  <2>4. /\ disk' \in [Clients -> Grant]
        /\ memory' \in [Processes -> [Clients -> Grant]]
    BY <2>1, <2>3, StoreType
  <2>5. QED
    BY <1>4, <2>2, <2>4, SequencesKeepType DEF Ensure, TypeOK
<1>5. ASSUME RevokeCredential(p, s) PROVE TypeOK'
  <2>1. cred' \in [Service -> [state : {"unissued", "present", "gone"}, expires : Terms]]
    BY <1>5 DEF RevokeCredential, TypeOK
  <2>2. Sequenced'
    BY <1>1, <1>5 DEF RevokeCredential
  <2>3. ruling' \in [Clients -> {"none", "approved", "revoked"}]
    BY <1>5 DEF RevokeCredential, TypeOK
  <2>4. QED
    BY <1>5, <2>1, <2>2, <2>3, SequencesKeepType DEF RevokeCredential, TypeOK
<1>6. ASSUME RevokeGrant(p, s) PROVE TypeOK'
  <2>1. PICK saved \in Saves :
          /\ IF Merged(p)[s].status = "absent"
             THEN saved /\ memory' = [memory EXCEPT ![p] = Merged(p)] /\ disk' = disk
             ELSE Store(p, Ended(Merged(p), s, "revoked"), saved)
          /\ Advance(p, s, saved)
    BY <1>6 DEF RevokeGrant
  <2>2. Sequenced'
    BY <1>6, <2>1, AdvanceKeepsSequences DEF RevokeGrant
  <2>3. /\ disk' \in [Clients -> Grant]
        /\ memory' \in [Processes -> [Clients -> Grant]]
    <3>1. CASE Merged(p)[s].status = "absent"
      BY <1>0, <2>1, <3>1 DEF TypeOK
    <3>2. CASE Merged(p)[s].status # "absent"
      BY <1>0, <2>1, <3>2, EndedType, StoreType
    <3>3. QED
      BY <3>1, <3>2
  <2>4. QED
    BY <1>6, <2>2, <2>3, SequencesKeepType DEF RevokeGrant, TypeOK
<1>7. ASSUME Abandon(p) PROVE TypeOK'
  <2>1. Sequenced'
    BY <1>7 DEF Abandon, Stopped, Sequenced, TypeOK
  <2>2. QED
    BY <1>7, <2>1, SequencesKeepType DEF Abandon, TypeOK
<1>8. QED
  BY <1>2, <1>3, <1>4, <1>5, <1>6, <1>7

-----------------------------------------------------------------------------
(* The gate of a call, and the world around the stores.  A call at the     *)
(* gate has a client.                                                      *)
Gated == {"checking", "confirming", "rechecking", "running"}
Owned == \A k \in Calls : calls[k].phase \in Gated => calls[k].client \in Clients

LEMMA GateKeepsType ==
  ASSUME TypeOK, NEW p \in Processes, UNCHANGED <<now, cred, todo, dialogs, ruling>>,
         \/ pc[p] = "idle" /\ pc' = [pc EXCEPT ![p] = "check"]
         \/ pc[p] \in {"idle", "check"} /\ pc' = [pc EXCEPT ![p] = "idle"],
         disk' \in [Clients -> Grant], memory' \in [Processes -> [Clients -> Grant]],
         calls' \in [Calls -> Call], ledger' \subseteq Calls, admitted' \subseteq Calls
  PROVE  TypeOK'
<1>1. pc' \in [Processes -> {"idle", "ensure", "revoke", "check", "boot", "down"}]
  BY DEF TypeOK
<1>2. \A q \in Processes : todo'[q] # {} <=> pc'[q] \in {"ensure", "revoke", "boot"}
  BY DEF TypeOK
<1>3. QED
  BY <1>1, <1>2 DEF TypeOK

LEMMA GateStepsKeepType ==
  ASSUME TypeOK, Owned, NEW p \in Processes, NEW k \in Calls
  PROVE  /\ \A c \in Clients : Arrive(p, k, c) => TypeOK'
         /\ Recheck(p, k) => TypeOK'
         /\ Lapse(p, k) => TypeOK'
         /\ Refuse(p, k) => TypeOK'
         /\ Pass(p, k) => TypeOK'
         /\ Dispatch(p, k) => TypeOK'
         /\ Complete(p, k) => TypeOK'
<1>0. /\ Finish(k) \in [Calls -> Call]
      /\ Merged(p) \in [Clients -> Grant]
      /\ calls[k] \in Call
      /\ Checking(p, k) => pc[p] = "check" /\ calls[k].phase \in Gated
  BY CallTypes, MergedFollowsDisk DEF TypeOK, Checking, Gated
<1>1. ASSUME NEW c \in Clients, Arrive(p, k, c) PROVE TypeOK'
  <2>1. PICK seen \in Snapshots(c) : calls' = [calls EXCEPT ![k] =
              [FreshCall EXCEPT !.phase = "checking", !.on = p, !.client = c, !.seen = seen]]
    BY <1>1 DEF Arrive
  <2>2. seen \in Grant \cup {Unread}
    BY <2>1 DEF Snapshots, TypeOK
  <2>3. [FreshCall EXCEPT !.phase = "checking", !.on = p, !.client = c, !.seen = seen] \in Call
    BY <2>2, Constants DEF FreshCall, Call
  <2>4. calls' \in [Calls -> Call]
    BY <2>1, <2>3 DEF TypeOK
  <2>5. QED
    BY <1>1, <2>4, GateKeepsType DEF Arrive, TypeOK
<1>2. ASSUME Recheck(p, k) PROVE TypeOK'
  <2>1. PICK seen \in Snapshots(calls[k].client) :
          calls' = [calls EXCEPT ![k].phase = "rechecking", ![k].seen = seen,
                                 ![k].under = ruling[calls[k].client]]
    BY <1>2 DEF Recheck
  <2>2. calls[k].client \in Clients
    BY <1>2 DEF Recheck, Owned, Gated
  <2>3. seen \in Grant \cup {Unread} /\ ruling[calls[k].client] \in {"none", "approved", "revoked"}
    BY <2>1, <2>2 DEF Snapshots, TypeOK
  <2>4. [calls[k] EXCEPT !.phase = "rechecking", !.seen = seen,
                         !.under = ruling[calls[k].client]] \in Call
    BY <1>0, <2>3 DEF Call
  <2>5. calls' \in [Calls -> Call]
    BY <2>1, <2>4 DEF TypeOK
  <2>6. QED
    BY <1>2, <2>5, GateKeepsType DEF Recheck, TypeOK
<1>3. ASSUME Lapse(p, k) PROVE TypeOK'
  <2>1. calls[k].client \in Clients
    BY <1>0, <1>3 DEF Lapse, Owned
  <2>2. /\ disk' \in [Clients -> Grant]
        /\ memory' \in [Processes -> [Clients -> Grant]]
    <3>1. CASE Merged(p)[calls[k].client].status \in {"absent", "expired"}
      BY <1>0, <1>3, <3>1 DEF Lapse, TypeOK
    <3>2. CASE Merged(p)[calls[k].client].status \notin {"absent", "expired"}
      <4>1. PICK saved \in Saves : Store(p, Ended(Merged(p), calls[k].client, "expired"), saved)
        BY <1>3, <3>2 DEF Lapse
      <4>2. QED
        BY <1>0, <2>1, <4>1, EndedType, StoreType
    <3>3. QED
      BY <3>1, <3>2
  <2>3. QED
    BY <1>0, <1>3, <2>2, GateKeepsType DEF Lapse, TypeOK
<1>4. ASSUME Refuse(p, k) PROVE TypeOK'
  BY <1>0, <1>4, GateKeepsType DEF Refuse, TypeOK
<1>5. ASSUME Pass(p, k) PROVE TypeOK'
  <2>1. [calls[k] EXCEPT !.phase = "confirming"] \in Call
    BY <1>0 DEF Call
  <2>2. calls' \in [Calls -> Call]
    BY <1>5, <2>1 DEF Pass, TypeOK
  <2>3. QED
    BY <1>0, <1>5, <2>2, GateKeepsType DEF Pass, TypeOK
<1>6. ASSUME Dispatch(p, k) PROVE TypeOK'
  <2>1. PICK secured \in Secured(calls[k].client) :
          calls' = [calls EXCEPT ![k].phase = IF secured THEN "running" ELSE "over",
                                 ![k].at = now, ![k].seen = Absent]
    BY <1>6 DEF Dispatch
  <2>2. [calls[k] EXCEPT !.phase = IF secured THEN "running" ELSE "over",
                         !.at = now, !.seen = Absent] \in Call
    BY <1>0, AbsentType DEF Call, TypeOK
  <2>3. calls' \in [Calls -> Call]
    BY <2>1, <2>2 DEF TypeOK
  <2>4. ledger' \subseteq Calls /\ admitted' \subseteq Calls
    BY <1>6 DEF Dispatch, Kept, TypeOK
  <2>5. QED
    BY <1>0, <1>6, <2>3, <2>4, GateKeepsType DEF Dispatch, TypeOK
<1>7. ASSUME Complete(p, k) PROVE TypeOK'
  <2>1. calls[k].client \in Clients
    BY <1>7 DEF Complete, Owned, Gated
  <2>2. ASSUME NEW g \in Grant PROVE [g EXCEPT !.total = g.total + 1] \in Grant
    BY DEF Grant
  <2>3. memory' \in [Processes -> [Clients -> Grant]]
    <3> DEFINE c == calls[k].client
               more == [memory[p][c] EXCEPT !.total = memory[p][c].total + 1]
    <3>1. more \in Grant
      BY <2>1, <2>2 DEF TypeOK
    <3>2. [memory[p] EXCEPT ![c] = more] \in [Clients -> Grant]
      BY <2>1, <3>1 DEF TypeOK
    <3>3. \/ memory' = memory
          \/ memory' = [memory EXCEPT ![p] = [memory[p] EXCEPT ![c] = more]]
      BY <1>7, <2>1 DEF Complete, TypeOK
    <3>4. QED
      BY <3>2, <3>3 DEF TypeOK
  <2>4. UNCHANGED <<now, disk, cred, pc, todo, ledger, dialogs, ruling, admitted>>
    BY <1>7 DEF Complete
  <2>5. calls' \in [Calls -> Call]
    BY <1>0, <1>7 DEF Complete
  <2>6. QED
    BY <2>3, <2>4, <2>5 DEF TypeOK
<1>8. QED
  BY <1>1, <1>2, <1>3, <1>4, <1>5, <1>6, <1>7

LEMMA WorldKeepsType ==
  ASSUME TypeOK
  PROVE  /\ Tick \/ RemoveFile => TypeOK'
         /\ \A p \in Processes : Crash(p) \/ Boot(p) => TypeOK'
<1>0. NoGrants \in [Clients -> Grant]
  BY AbsentType DEF NoGrants
<1>1. ASSUME Tick PROVE TypeOK'
  BY <1>1, Constants DEF Tick, TypeOK, Times
<1>2. ASSUME RemoveFile PROVE TypeOK'
  BY <1>0, <1>2, Constants DEF RemoveFile, TypeOK
<1>3. ASSUME NEW p \in Processes, Crash(p) PROVE TypeOK'
  <2>1. \A k \in Calls : Finish(k)[k] \in Call
    BY CallTypes
  <2>2. calls' \in [Calls -> Call]
    BY <1>3, <2>1 DEF Crash, TypeOK
  <2>3. memory' \in [Processes -> [Clients -> Grant]]
    BY <1>0, <1>3 DEF Crash, TypeOK
  <2>4. Sequenced'
    BY <1>3 DEF Crash, TypeOK, Sequenced
  <2>5. QED
    BY <1>3, <2>2, <2>3, <2>4 DEF Crash, TypeOK, Sequenced
<1>4. ASSUME NEW p \in Processes, Boot(p) PROVE TypeOK'
  <2>1. memory' \in [Processes -> [Clients -> Grant]]
    BY <1>0, <1>4 DEF Boot, TypeOK
  <2>2. PICK accounts \in SUBSET Service :
          /\ todo' = [todo EXCEPT ![p] = accounts]
          /\ pc' = [pc EXCEPT ![p] = IF accounts = {} THEN "idle" ELSE "boot"]
    BY <1>4 DEF Boot
  <2>3. Sequenced'
    BY <2>2 DEF TypeOK, Sequenced
  <2>4. QED
    BY <1>4, <2>1, <2>3 DEF Boot, TypeOK, Sequenced
<1>5. QED
  BY <1>1, <1>2, <1>3, <1>4

-----------------------------------------------------------------------------
(* The file follows the operator: what it says of a client agrees with the *)
(* last ruling and, for a service account, with the credential.            *)
FileSound(c) ==
  /\ c \in Interactive =>
       /\ disk[c].status = "active" => ruling[c] = "approved"
       /\ disk[c].status = "pending" => ruling[c] = "none"
  /\ c \in Service =>
       /\ disk[c].status # "pending"
       /\ ruling[c] = "revoked" <=> cred[c].state = "gone"

LEMMA ActivatedAt ==
  ASSUME NEW g \in [Clients -> Grant], NEW c \in Clients, NEW d \in Clients, NEW e
  PROVE  /\ Activated(g, d, e)[c].status = IF c = d THEN "active" ELSE g[c].status
         /\ Activated(g, d, e)[c].total = g[c].total
BY DEF Activated, Bare

LEMMA EndedAt ==
  ASSUME NEW g \in [Clients -> Grant], NEW c \in Clients, NEW d \in Clients, NEW status
  PROVE  /\ Ended(g, d, status)[c].status = IF c = d THEN status ELSE g[c].status
         /\ Ended(g, d, status)[c].total = g[c].total
BY DEF Ended, Bare

LEMMA WithoutAt ==
  ASSUME NEW g \in [Clients -> Grant], NEW c \in Clients, NEW gone
  PROVE  /\ Without(g, gone)[c].status = "absent" \/ Without(g, gone)[c] = g[c]
         /\ Absent.status = "absent"
BY DEF Without, Bare, Absent

LEMMA FileBystander ==
  ASSUME NEW c \in Clients, FileSound(c), ruling'[c] = ruling[c],
         c \in Service => cred'[c].state = cred[c].state,
         disk'[c].status \in {disk[c].status, "absent", "revoked", "expired"}
  PROVE  FileSound(c)'
BY DEF FileSound

LEMMA StoreStepsKeepFile ==
  ASSUME TypeOK, NEW c \in Clients, FileSound(c), NEW p \in Processes, NEW d \in Clients
  PROVE  /\ d \in Interactive /\ CreatePending(p, d) => FileSound(c)'
         /\ Approve(p, d) => FileSound(c)'
         /\ Deny(p, d) => FileSound(c)'
         /\ d \in Interactive /\ Answer(p, d) => FileSound(c)'
         /\ Flush(p) => FileSound(c)'
         /\ Prune(p) => FileSound(c)'
         /\ \A saved : ExpireStale(p, saved) => FileSound(c)'
<1> DEFINE g == Merged(p)
<1>0. g \in [Clients -> Grant] /\ \A x \in Clients : g[x].status = disk[x].status
  BY MergedFollowsDisk
<1> HIDE DEF g
<1>1. ASSUME d \in Interactive, CreatePending(p, d) PROVE FileSound(c)'
  <2>1. PICK old \in Evictions(Merged(p)), saved \in Saves :
          /\ Store(p, [Without(Merged(p), old) EXCEPT ![d] =
                          [Bare("pending", 0) EXCEPT !.created = now]], saved)
          /\ ruling' = IF saved THEN [ruling EXCEPT ![d] = "none"] ELSE ruling
    BY <1>1 DEF CreatePending
  <2>2. cred' = cred
    BY <1>1 DEF CreatePending
  <2>3. CASE ~saved
    BY <2>1, <2>2, <2>3, FileBystander DEF Store
  <2>4. CASE saved
    <3>1. disk' = [Without(g, old) EXCEPT ![d] = [Bare("pending", 0) EXCEPT !.created = now]]
      BY <2>1, <2>4 DEF Store, g
    <3>2. CASE c = d
      <4>1. disk'[c].status = "pending"
        BY <3>1, <3>2 DEF Without, Bare
      <4>2. ruling'[c] = "none"
        BY <2>1, <2>4, <3>2 DEF TypeOK
      <4>3. QED
        BY <1>1, <3>2, <4>1, <4>2, Constants DEF FileSound
    <3>3. CASE c # d
      <4>1. disk'[c].status \in {disk[c].status, "absent"}
        BY <1>0, <3>1, <3>3 DEF Without, Absent, Bare
      <4>2. ruling'[c] = ruling[c]
        BY <2>1, <3>3 DEF TypeOK
      <4>3. QED
        BY <2>2, <4>1, <4>2, FileBystander
    <3>4. QED
      BY <3>2, <3>3
  <2>5. QED
    BY <2>3, <2>4
<1>2. ASSUME Approve(p, d) PROVE FileSound(c)'
  <2>1. PICK e \in Terms, saved \in Saves :
          /\ Store(p, Activated(Merged(p), d, e), saved)
          /\ ruling' = IF saved /\ d \in Interactive
                       THEN [ruling EXCEPT ![d] = "approved"] ELSE ruling
    BY <1>2 DEF Approve
  <2>2. cred' = cred
    BY <1>2 DEF Approve
  <2>3. CASE ~saved
    BY <2>1, <2>2, <2>3, FileBystander DEF Store
  <2>4. CASE saved
    <3>1. disk'[c].status = IF c = d THEN "active" ELSE disk[c].status
      <4>1. disk' = Activated(g, d, e)
        BY <2>1, <2>4 DEF Store, g
      <4>2. QED
        BY <1>0, <4>1, ActivatedAt
    <3>2. ruling'[c] = IF c = d /\ c \in Interactive THEN "approved" ELSE ruling[c]
      BY <2>1, <2>4 DEF TypeOK
    <3>3. CASE c = d
      BY <2>2, <3>1, <3>2, <3>3, Constants DEF FileSound
    <3>4. CASE c # d
      BY <2>2, <3>1, <3>2, <3>4, FileBystander
    <3>5. QED
      BY <3>3, <3>4
  <2>5. QED
    BY <2>3, <2>4
<1>3. ASSUME Deny(p, d) PROVE FileSound(c)'
  <2>1. PICK saved \in Saves :
          /\ Store(p, Ended(Merged(p), d, "revoked"), saved)
          /\ ruling' = IF saved /\ d \in Interactive
                       THEN [ruling EXCEPT ![d] = "revoked"] ELSE ruling
    BY <1>3 DEF Deny
  <2>2. cred' = cred
    BY <1>3 DEF Deny
  <2>3. CASE ~saved
    BY <2>1, <2>2, <2>3, FileBystander DEF Store
  <2>4. CASE saved
    <3>1. disk'[c].status = IF c = d THEN "revoked" ELSE disk[c].status
      <4>1. disk' = Ended(g, d, "revoked")
        BY <2>1, <2>4 DEF Store, g
      <4>2. QED
        BY <1>0, <4>1, EndedAt
    <3>2. ruling'[c] = IF c = d /\ c \in Interactive THEN "revoked" ELSE ruling[c]
      BY <2>1, <2>4 DEF TypeOK
    <3>3. CASE c = d
      BY <2>2, <3>1, <3>2, <3>3, Constants DEF FileSound
    <3>4. CASE c # d
      BY <2>2, <3>1, <3>2, <3>4, FileBystander
    <3>5. QED
      BY <3>3, <3>4
  <2>5. QED
    BY <2>3, <2>4
<1>4. ASSUME d \in Interactive, Answer(p, d) PROVE FileSound(c)'
  <2>1. cred' = cred
    BY <1>4 DEF Answer
  <2>2. CASE ~Undecided(p, d)
    BY <1>4, <2>1, <2>2, FileBystander DEF Answer
  <2>3. CASE Undecided(p, d)
    <3>1. PICK saved \in Saves, yes \in BOOLEAN :
            /\ Store(p, IF yes THEN Activated(Merged(p), d, Never)
                               ELSE Ended(Merged(p), d, "revoked"), saved)
            /\ ruling' = IF saved /\ ruling[d] = "none"
                         THEN [ruling EXCEPT ![d] = IF yes THEN "approved" ELSE "revoked"]
                         ELSE ruling
      BY <1>4, <2>3 DEF Answer, Click
    <3>2. CASE ~saved
      BY <2>1, <3>1, <3>2, FileBystander DEF Store
    <3>3. CASE saved
      <4>1. disk'[c].status = IF c = d THEN (IF yes THEN "active" ELSE "revoked")
                                       ELSE disk[c].status
        <5>1. disk' = IF yes THEN Activated(g, d, Never) ELSE Ended(g, d, "revoked")
          BY <3>1, <3>3 DEF Store, g
        <5>2. QED
          BY <1>0, <5>1, ActivatedAt, EndedAt
      <4>2. c # d => ruling'[c] = ruling[c]
        BY <3>1 DEF TypeOK
      <4>3. c = d => ruling[c] = "none"
        BY <1>0, <1>4, <2>3 DEF FileSound, Undecided, g
      <4>4. c = d => ruling'[c] = IF yes THEN "approved" ELSE "revoked"
        BY <3>1, <3>3, <4>3 DEF TypeOK
      <4>5. QED
        BY <1>4, <2>1, <4>1, <4>2, <4>4, Constants DEF FileSound
    <3>4. QED
      BY <3>2, <3>3
  <2>4. QED
    BY <2>2, <2>3
<1>5. ASSUME Flush(p) PROVE FileSound(c)'
  <2>1. disk'[c].status = disk[c].status
    BY <1>0, <1>5 DEF Flush, Store, g
  <2>2. QED
    BY <1>5, <2>1, FileBystander DEF Flush
<1>6. ASSUME Prune(p) PROVE FileSound(c)'
  <2>1. disk'[c].status \in {disk[c].status, "absent"}
    <3>1. PICK gone \in SUBSET Clients, saved \in Saves : Store(p, Without(g, gone), saved)
      BY <1>6 DEF Prune, g
    <3>2. QED
      BY <1>0, <3>1, WithoutAt DEF Store
  <2>2. QED
    BY <1>6, <2>1, FileBystander DEF Prune
<1>7. ASSUME NEW saved, ExpireStale(p, saved) PROVE FileSound(c)'
  <2>1. disk'[c].status \in {disk[c].status, "absent"}
    <3>1. disk' = Without(g, Overdue(g)) \/ disk' = disk
      BY <1>7 DEF ExpireStale, Store, g
    <3>2. QED
      BY <1>0, <3>1, WithoutAt
  <2>2. QED
    BY <1>7, <2>1, FileBystander DEF ExpireStale
<1>8. QED
  BY <1>1, <1>2, <1>3, <1>4, <1>5, <1>6, <1>7

LEMMA ServiceStepsKeepFile ==
  ASSUME TypeOK, NEW c \in Clients, FileSound(c), NEW p \in Processes, NEW s \in Service
  PROVE  /\ Issue(p, s) => FileSound(c)'
         /\ Ensure(p, s) => FileSound(c)'
         /\ RevokeCredential(p, s) => FileSound(c)'
         /\ RevokeGrant(p, s) => FileSound(c)'
<1> DEFINE g == Merged(p)
<1>0. g \in [Clients -> Grant] /\ \A x \in Clients : g[x].status = disk[x].status
  BY MergedFollowsDisk
<1> HIDE DEF g
<1>s. s \in Clients /\ s \notin Interactive
  BY Constants
<1>1. ASSUME Issue(p, s) PROVE FileSound(c)'
  <2>1. PICK e \in Terms : cred' = [cred EXCEPT ![s] = [state |-> "present", expires |-> e]]
    BY <1>1 DEF Issue
  <2>2. cred[s].state = "unissued" /\ UNCHANGED <<disk, ruling>>
    BY <1>1 DEF Issue
  <2>3. c \in Service => (cred'[c].state = "gone" <=> cred[c].state = "gone")
    BY <2>1, <2>2 DEF TypeOK
  <2>4. QED
    BY <2>2, <2>3 DEF FileSound
<1>2. ASSUME Ensure(p, s) PROVE FileSound(c)'
  <2>1. UNCHANGED <<cred, ruling>>
    BY <1>2 DEF Ensure
  <2>2. disk' = Activated(g, s, cred[s].expires) \/ disk' = disk
    BY <1>2 DEF Ensure, Store, g
  <2>3. disk'[c].status = disk[c].status \/ (c = s /\ disk'[c].status = "active")
    BY <1>0, <1>s, <2>2, ActivatedAt
  <2>4. QED
    BY <1>s, <2>1, <2>3 DEF FileSound
<1>3. ASSUME RevokeCredential(p, s) PROVE FileSound(c)'
  <2>1. /\ cred' = [cred EXCEPT ![s].state = IF cred[s].state = "present" THEN "gone" ELSE cred[s].state]
        /\ ruling' = IF Present(s) THEN [ruling EXCEPT ![s] = "revoked"] ELSE ruling
        /\ disk' = disk
    BY <1>3 DEF RevokeCredential
  <2>2. CASE c = s
    <3>1. cred'[s].state = IF cred[s].state = "present" THEN "gone" ELSE cred[s].state
      BY <2>1 DEF TypeOK
    <3>2. ruling'[s] = IF cred[s].state = "present" THEN "revoked" ELSE ruling[s]
      BY <1>s, <2>1 DEF TypeOK, Present
    <3>3. QED
      BY <1>s, <2>1, <2>2, <3>1, <3>2 DEF FileSound
  <2>3. CASE c # s
    <3>1. ruling'[c] = ruling[c]
      BY <2>1, <2>3 DEF TypeOK
    <3>2. c \in Service => cred'[c].state = cred[c].state
      BY <2>1, <2>3 DEF TypeOK
    <3>3. QED
      BY <2>1, <3>1, <3>2, FileBystander
  <2>4. QED
    BY <2>2, <2>3
<1>4. ASSUME RevokeGrant(p, s) PROVE FileSound(c)'
  <2>1. disk' = Ended(g, s, "revoked") \/ disk' = disk
    BY <1>4 DEF RevokeGrant, Store, g
  <2>2. disk'[c].status \in {disk[c].status, "revoked"}
    BY <1>0, <1>s, <2>1, EndedAt
  <2>3. QED
    BY <1>4, <2>2, FileBystander DEF RevokeGrant
<1>5. QED
  BY <1>1, <1>2, <1>3, <1>4

LEMMA LapseKeepsFile ==
  ASSUME TypeOK, Owned, NEW c \in Clients, FileSound(c), NEW p \in Processes,
         NEW k \in Calls, Lapse(p, k)
  PROVE  FileSound(c)'
<1> DEFINE g == Merged(p)
<1>0. g \in [Clients -> Grant] /\ \A x \in Clients : g[x].status = disk[x].status
  BY MergedFollowsDisk
<1> HIDE DEF g
<1>1. calls[k].client \in Clients
  BY DEF Lapse, Checking, Owned, Gated
<1>2. disk' = Ended(g, calls[k].client, "expired") \/ disk' = disk
  BY DEF Lapse, Store, g
<1>3. disk'[c].status \in {disk[c].status, "expired"}
  BY <1>0, <1>1, <1>2, EndedAt
<1>4. QED
  BY <1>3, FileBystander DEF Lapse

LEMMA FileStays ==
  ASSUME TypeOK, Owned, NEW c \in Clients, FileSound(c), Next
  PROVE  FileSound(c)'
<1>1. ASSUME UNCHANGED <<disk, cred, ruling>> PROVE FileSound(c)'
  BY <1>1 DEF FileSound
<1>2. ASSUME Tick PROVE FileSound(c)'
  BY <1>1, <1>2 DEF Tick
<1>3. ASSUME RemoveFile PROVE FileSound(c)'
  <2>1. disk'[c].status = "absent" /\ cred' = cred /\ (c \in Service => ruling'[c] = ruling[c])
    BY <1>3, Constants DEF RemoveFile, NoGrants, Absent, Bare
  <2>2. QED
    BY <2>1 DEF FileSound
<1>4. ASSUME NEW p \in Processes, Serve(p) PROVE FileSound(c)'
  <2>1. ASSUME NEW d \in Interactive, CreatePending(p, d) \/ Answer(p, d) PROVE FileSound(c)'
    BY <2>1, Constants, StoreStepsKeepFile
  <2>2. ASSUME Flush(p) \/ \E saved \in Saves : ExpireStale(p, saved) PROVE FileSound(c)'
    BY <2>2, StoreStepsKeepFile
  <2>3. ASSUME NEW s \in Service, Login(p, s) PROVE FileSound(c)'
    BY <1>1, <2>3 DEF Login
  <2>4. ASSUME NEW k \in Calls, NEW d \in Clients, Arrive(p, k, d) PROVE FileSound(c)'
    BY <1>1, <2>4 DEF Arrive
  <2>5. ASSUME NEW k \in Calls, Recheck(p, k) \/ Refuse(p, k) \/ Pass(p, k) PROVE FileSound(c)'
    BY <1>1, <2>5 DEF Recheck, Refuse, Pass
  <2>6. ASSUME NEW k \in Calls, Dispatch(p, k) \/ Complete(p, k) PROVE FileSound(c)'
    BY <1>1, <2>6 DEF Dispatch, Complete
  <2>7. ASSUME NEW k \in Calls, Lapse(p, k) PROVE FileSound(c)'
    BY <2>7, LapseKeepsFile
  <2>8. QED
    BY <1>4, <2>1, <2>2, <2>3, <2>4, <2>5, <2>6, <2>7 DEF Serve
<1>5. ASSUME NEW p \in Processes, Administer(p) PROVE FileSound(c)'
  <2>1. ASSUME NEW d \in Clients, Approve(p, d) \/ Deny(p, d) PROVE FileSound(c)'
    BY <2>1, StoreStepsKeepFile
  <2>2. ASSUME Prune(p) PROVE FileSound(c)'
    BY <2>2, StoreStepsKeepFile
  <2>3. ASSUME Reload(p) PROVE FileSound(c)'
    BY <1>1, <2>3 DEF Reload
  <2>4. ASSUME NEW s \in Service, Issue(p, s) \/ RevokeCredential(p, s) PROVE FileSound(c)'
    BY <2>4, ServiceStepsKeepFile
  <2>5. QED
    BY <1>5, <2>1, <2>2, <2>3, <2>4 DEF Administer
<1>6. ASSUME NEW p \in Processes, Abandon(p) \/ Crash(p) \/ Boot(p) PROVE FileSound(c)'
  BY <1>1, <1>6 DEF Abandon, Crash, Boot
<1>7. ASSUME NEW p \in Processes, NEW s \in Service, Ensure(p, s) \/ RevokeGrant(p, s)
      PROVE  FileSound(c)'
  BY <1>7, ServiceStepsKeepFile
<1>8. QED
  BY <1>2, <1>3, <1>4, <1>5, <1>6, <1>7, Constants DEF Next

-----------------------------------------------------------------------------
(* A call at the gate carries what its last check read, a call past it     *)
(* holds its slot while the window lasts.                                  *)
GateSound(k) ==
  LET c == calls[k].client IN
  /\ calls[k].phase \in Gated => c \in Clients
  /\ calls[k].phase = "rechecking" =>
       /\ c \in Interactive /\ calls[k].seen.status = "active" => calls[k].under = "approved"
       /\ c \in Service /\ calls[k].under = "revoked" => cred[c].state = "gone"
  /\ calls[k].phase = "running" =>
       \/ c \in Interactive /\ calls[k].under = "approved"
       \/ c \in Service /\ calls[k].under # "revoked"
SlotSound(k) ==
  k \in admitted =>
    /\ calls[k].phase \in {"running", "over"}
    /\ calls[k].at <= now
    /\ calls[k].client \in Capped /\ InWindow(k) => k \in ledger

(* Which steps touch the calls. *)
CallSteps(p, k) ==
  \/ \E c \in Clients : Arrive(p, k, c)
  \/ Recheck(p, k) \/ Lapse(p, k) \/ Refuse(p, k) \/ Pass(p, k)
  \/ Dispatch(p, k) \/ Complete(p, k)

LEMMA WhoTouchesCalls ==
  ASSUME TypeOK, Next
  PROVE  \/ UNCHANGED <<calls, ledger, admitted>> /\ (now' = now \/ now' = now + 1)
         \/ \E p \in Processes : Crash(p)
         \/ \E p \in Processes, k \in Calls : CallSteps(p, k)
<1> DEFINE Goal == \/ UNCHANGED <<calls, ledger, admitted>> /\ (now' = now \/ now' = now + 1)
                   \/ \E p \in Processes : Crash(p)
                   \/ \E p \in Processes, k \in Calls : CallSteps(p, k)
<1> SUFFICES Goal
  OBVIOUS
<1>1. ASSUME Tick \/ RemoveFile PROVE Goal
  BY <1>1 DEF Tick, RemoveFile
<1>2. ASSUME NEW p \in Processes, Serve(p) PROVE Goal
  <2>1. ASSUME NEW d \in Interactive, CreatePending(p, d) \/ Answer(p, d) PROVE Goal
    BY <2>1 DEF CreatePending, Answer
  <2>2. ASSUME Flush(p) \/ \E saved \in Saves : ExpireStale(p, saved) PROVE Goal
    BY <2>2 DEF Flush, ExpireStale
  <2>3. ASSUME NEW s \in Service, Login(p, s) PROVE Goal
    BY <2>3 DEF Login
  <2>4. ASSUME NEW k \in Calls, CallSteps(p, k) PROVE Goal
    BY <2>4
  <2> HIDE DEF Goal
  <2>5. QED
    BY <1>2, <2>1, <2>2, <2>3, <2>4 DEF Serve, CallSteps
<1>3. ASSUME NEW p \in Processes, Administer(p) PROVE Goal
  <2>1. ASSUME NEW d \in Clients, Approve(p, d) \/ Deny(p, d) PROVE Goal
    BY <2>1 DEF Approve, Deny
  <2>2. ASSUME Prune(p) \/ Reload(p) PROVE Goal
    BY <2>2 DEF Prune, Reload
  <2>3. ASSUME NEW s \in Service, Issue(p, s) \/ RevokeCredential(p, s) PROVE Goal
    BY <2>3 DEF Issue, RevokeCredential
  <2> HIDE DEF Goal
  <2>4. QED
    BY <1>3, <2>1, <2>2, <2>3 DEF Administer
<1>4. ASSUME NEW p \in Processes, Abandon(p) \/ Boot(p) PROVE Goal
  BY <1>4 DEF Abandon, Boot
<1>5. ASSUME NEW p \in Processes, NEW s \in Service, Ensure(p, s) \/ RevokeGrant(p, s) PROVE Goal
  BY <1>5 DEF Ensure, RevokeGrant
<1>6. ASSUME NEW p \in Processes, Crash(p) PROVE Goal
  BY <1>6
<1> HIDE DEF Goal
<1>7. QED
  BY <1>1, <1>2, <1>3, <1>4, <1>5, <1>6, Constants DEF Next

(* A credential that is gone stays gone: its id is never issued again. *)
LEMMA GoneStays ==
  ASSUME TypeOK, Next, NEW s \in Service, cred[s].state = "gone"
  PROVE  cred'[s].state = "gone"
<1>1. ASSUME cred' = cred PROVE cred'[s].state = "gone"
  BY <1>1
<1>2. ASSUME NEW p \in Processes, NEW d \in Service, Issue(p, d) PROVE cred'[s].state = "gone"
  BY <1>2 DEF Issue, TypeOK
<1>3. ASSUME NEW p \in Processes, NEW d \in Service, RevokeCredential(p, d)
      PROVE  cred'[s].state = "gone"
  BY <1>3 DEF RevokeCredential, TypeOK
<1>4. ASSUME NEW p \in Processes, Serve(p) PROVE cred' = cred
  <2>1. ASSUME NEW d \in Clients, CreatePending(p, d) \/ Answer(p, d) PROVE cred' = cred
    BY <2>1 DEF CreatePending, Answer
  <2>2. ASSUME Flush(p) \/ \E saved \in Saves : ExpireStale(p, saved) PROVE cred' = cred
    BY <2>2 DEF Flush, ExpireStale
  <2>3. ASSUME NEW d \in Service, Login(p, d) PROVE cred' = cred
    BY <2>3 DEF Login
  <2>4. ASSUME NEW k \in Calls, CallSteps(p, k) PROVE cred' = cred
    BY <2>4 DEF CallSteps, Arrive, Recheck, Lapse, Refuse, Pass, Dispatch, Complete
  <2>5. QED
    BY <1>4, <2>1, <2>2, <2>3, <2>4, Constants DEF Serve, CallSteps
<1>5. ASSUME NEW p \in Processes, Administer(p) PROVE cred'[s].state = "gone"
  <2>1. ASSUME NEW d \in Clients, Approve(p, d) \/ Deny(p, d) PROVE cred' = cred
    BY <2>1 DEF Approve, Deny
  <2>2. ASSUME Prune(p) \/ Reload(p) PROVE cred' = cred
    BY <2>2 DEF Prune, Reload
  <2>3. QED
    BY <1>1, <1>2, <1>3, <1>5, <2>1, <2>2 DEF Administer
<1>6. ASSUME NEW p \in Processes, Abandon(p) \/ Boot(p) \/ Crash(p) PROVE cred' = cred
  BY <1>6 DEF Abandon, Boot, Crash
<1>7. ASSUME NEW p \in Processes, NEW d \in Service, Ensure(p, d) \/ RevokeGrant(p, d) PROVE cred' = cred
  BY <1>7 DEF Ensure, RevokeGrant
<1>8. ASSUME Tick \/ RemoveFile PROVE cred' = cred
  BY <1>8 DEF Tick, RemoveFile
<1>9. QED
  BY <1>1, <1>4, <1>5, <1>6, <1>7, <1>8, Constants DEF Next

LEMMA GateBystander ==
  ASSUME TypeOK, Next, NEW k \in Calls, GateSound(k), calls'[k] = calls[k]
  PROVE  GateSound(k)'
BY GoneStays DEF GateSound, Gated

(* A call that leaves the gate keeps no claim on it. *)
LEMMA FinishAt ==
  ASSUME TypeOK, NEW k \in Calls, NEW j \in Calls
  PROVE  /\ Finish(j)[k].phase = IF k = j THEN "over" ELSE calls[k].phase
         /\ k # j => Finish(j)[k] = calls[k]
         /\ k \in admitted => /\ Finish(j)[k].at = calls[k].at
                              /\ Finish(j)[k].client = calls[k].client
<1>1. CASE k # j
  BY <1>1 DEF Finish, TypeOK
<1>2. CASE k = j
  <2>1. calls[k] \in Call
    BY DEF TypeOK
  <2>2. Finish(j)[k] = IF k \in admitted THEN [calls[k] EXCEPT !.phase = "over", !.seen = Absent]
                       ELSE [FreshCall EXCEPT !.phase = "over"]
    BY <1>2 DEF Finish, TypeOK
  <2>3. CASE k \in admitted
    BY <1>2, <2>1, <2>2, <2>3 DEF Call
  <2>4. CASE k \notin admitted
    BY <1>2, <2>2, <2>4 DEF FreshCall
  <2>5. QED
    BY <2>3, <2>4
<1>3. QED
  BY <1>1, <1>2

LEMMA GateStays ==
  ASSUME TypeOK, \A c \in Clients : FileSound(c), NEW k \in Calls, GateSound(k), Next
  PROVE  GateSound(k)'
<1>0. calls[k] \in Call
  BY DEF TypeOK
<1>1. CASE UNCHANGED calls
  BY <1>1, GateBystander
<1>2. ASSUME calls'[k].phase \in {"over", "confirming"}, calls'[k].client = calls[k].client \/ calls'[k].phase = "over",
             calls[k].phase \in Gated \/ calls'[k].phase = "over"
      PROVE  GateSound(k)'
  BY <1>2 DEF GateSound, Gated
<1>3. ASSUME NEW p \in Processes, Crash(p) PROVE GateSound(k)'
  <2>1. calls'[k] = calls[k] \/ calls'[k].phase = "over"
    <3>1. Finish(k)[k].phase = "over"
      BY FinishAt
    <3>2. calls'[k] = IF calls[k].on = p THEN Finish(k)[k] ELSE calls[k]
      BY <1>3 DEF Crash
    <3>3. QED
      BY <3>1, <3>2
  <2>2. QED
    BY <1>2, <2>1, GateBystander
<1>4. ASSUME NEW p \in Processes, NEW j \in Calls, CallSteps(p, j) PROVE GateSound(k)'
  <2>1. ASSUME NEW c \in Clients, Arrive(p, j, c) PROVE GateSound(k)'
    <3>1. PICK seen \in Snapshots(c) : calls' = [calls EXCEPT ![j] =
                [FreshCall EXCEPT !.phase = "checking", !.on = p, !.client = c, !.seen = seen]]
      BY <2>1 DEF Arrive
    <3>2. CASE k # j
      BY <3>1, <3>2, GateBystander DEF TypeOK
    <3>3. CASE k = j
      <4>1. calls'[k].phase = "checking" /\ calls'[k].client = c
        BY <3>1, <3>3 DEF TypeOK, FreshCall
      <4>2. QED
        BY <4>1 DEF GateSound, Gated
    <3>4. QED
      BY <3>2, <3>3
  <2>2. ASSUME Recheck(p, j) PROVE GateSound(k)'
    <3> DEFINE c == calls[j].client
    <3>1. PICK seen \in Snapshots(c) :
            calls' = [calls EXCEPT ![j].phase = "rechecking", ![j].seen = seen, ![j].under = ruling[c]]
      BY <2>2 DEF Recheck
    <3>2. CASE k # j
      BY <3>1, <3>2, GateBystander DEF TypeOK
    <3>3. CASE k = j
      <4>1. /\ calls'[k].phase = "rechecking" /\ calls'[k].client = c
            /\ calls'[k].seen = seen /\ calls'[k].under = ruling[c]
        <5>1. calls' = [calls EXCEPT ![k] = [calls[k] EXCEPT !.phase = "rechecking",
                                               !.seen = seen, !.under = ruling[c]]]
          BY <3>1, <3>3 DEF TypeOK
        <5>2. calls'[k] = [calls[k] EXCEPT !.phase = "rechecking", !.seen = seen, !.under = ruling[c]]
          BY <5>1 DEF TypeOK
        <5>3. QED
          BY <1>0, <3>3, <5>2 DEF Call
      <4>2. c \in Clients /\ cred' = cred
        BY <2>2, <3>3 DEF Recheck, GateSound, Gated
      <4>3. seen.status = "active" => disk[c].status = "active"
        BY <3>1 DEF Snapshots, Unread, Bare
      <4>4. FileSound(c)
        BY <4>2
      <4>5. c \in Interactive /\ seen.status = "active" => ruling[c] = "approved"
        BY <4>3, <4>4 DEF FileSound
      <4>6. c \in Service /\ ruling[c] = "revoked" => cred[c].state = "gone"
        BY <4>4 DEF FileSound
      <4>7. QED
        BY <4>1, <4>2, <4>5, <4>6 DEF GateSound, Gated
    <3>4. QED
      BY <3>2, <3>3
  <2>3. ASSUME calls' = Finish(j) PROVE GateSound(k)'
    <3>1. calls'[k] = calls[k] \/ calls'[k].phase = "over"
      BY <2>3, FinishAt
    <3>2. QED
      BY <1>2, <3>1, GateBystander
  <2>4. ASSUME Lapse(p, j) \/ Refuse(p, j) \/ Complete(p, j) PROVE calls' = Finish(j)
    BY <2>4 DEF Lapse, Refuse, Complete
  <2>5. ASSUME Pass(p, j) PROVE GateSound(k)'
    <3>1. calls' = [calls EXCEPT ![j].phase = "confirming"] /\ calls[j].phase = "checking"
      BY <2>5 DEF Pass
    <3>2. CASE k # j
      BY <3>1, <3>2, GateBystander DEF TypeOK
    <3>3. CASE k = j
      <4>1. calls'[k].phase = "confirming" /\ calls'[k].client = calls[k].client
        BY <1>0, <3>1, <3>3 DEF TypeOK, Call
      <4>2. QED
        BY <1>2, <3>1, <3>3, <4>1 DEF Gated
    <3>4. QED
      BY <3>2, <3>3
  <2>6. ASSUME Dispatch(p, j) PROVE GateSound(k)'
    <3>1. PICK secured \in Secured(calls[j].client) :
            calls' = [calls EXCEPT ![j].phase = IF secured THEN "running" ELSE "over",
                                   ![j].at = now, ![j].seen = Absent]
      BY <2>6 DEF Dispatch
    <3>2. CASE k # j
      BY <3>1, <3>2, GateBystander DEF TypeOK
    <3>3. CASE k = j
      <4>1. /\ calls'[k].phase \in {"running", "over"}
            /\ calls'[k].client = calls[k].client /\ calls'[k].under = calls[k].under
        <5>1. calls' = [calls EXCEPT ![k] = [calls[k] EXCEPT
                           !.phase = IF secured THEN "running" ELSE "over", !.at = now, !.seen = Absent]]
          BY <3>1, <3>3 DEF TypeOK
        <5>2. calls'[k] = [calls[k] EXCEPT
                           !.phase = IF secured THEN "running" ELSE "over", !.at = now, !.seen = Absent]
          BY <5>1 DEF TypeOK
        <5>3. QED
          BY <1>0, <5>2 DEF Call
      <4>2. calls[k].phase = "rechecking" /\ calls[k].seen.status = "active"
        BY <2>6, <3>3 DEF Dispatch, Backed
      <4>3. calls[k].client \in Service => cred[calls[k].client].state # "gone"
        BY <2>6, <3>3 DEF Dispatch, Backed, Present
      <4>4. /\ calls[k].client \in Clients
            /\ calls[k].client \in Interactive => calls[k].under = "approved"
            /\ calls[k].client \in Service => calls[k].under # "revoked"
        BY <4>2, <4>3 DEF GateSound, Gated
      <4>5. QED
        BY <4>1, <4>4 DEF GateSound, Clients, Gated
    <3>4. QED
      BY <3>2, <3>3
  <2>7. QED
    BY <1>4, <2>1, <2>2, <2>3, <2>4, <2>5, <2>6 DEF CallSteps
<1>5. QED
  BY <1>1, <1>3, <1>4, WhoTouchesCalls

(* A call past the last gate keeps its client and its time. *)
LEMMA AdmittedStays ==
  ASSUME TypeOK, NEW k \in admitted, SlotSound(k), Next
  PROVE  /\ calls'[k].client = calls[k].client /\ calls'[k].at = calls[k].at
         /\ calls'[k].phase \in {"running", "over"} /\ k \in admitted'
<1> DEFINE Goal == /\ calls'[k].client = calls[k].client /\ calls'[k].at = calls[k].at
                   /\ calls'[k].phase \in {"running", "over"} /\ k \in admitted'
<1>0. k \in Calls /\ calls[k].phase \in {"running", "over"}
  BY DEF SlotSound, TypeOK
<1>1. ASSUME UNCHANGED <<calls, admitted>> PROVE Goal
  BY <1>0, <1>1
<1>2. ASSUME calls'[k] = calls[k], k \in admitted' PROVE Goal
  BY <1>0, <1>2
<1>3. ASSUME NEW j \in Calls, calls'[k] = Finish(j)[k], admitted' = admitted PROVE Goal
  BY <1>0, <1>3, FinishAt
<1> HIDE DEF Goal
<1>4. ASSUME NEW p \in Processes, Crash(p) PROVE Goal
  BY <1>0, <1>2, <1>3, <1>4 DEF Crash
<1>5. ASSUME NEW p \in Processes, NEW j \in Calls, CallSteps(p, j) PROVE Goal
  <2>1. ASSUME NEW c \in Clients, Arrive(p, j, c) PROVE Goal
    <3>1. calls'[k] = calls[k] /\ admitted' = admitted
      BY <1>0, <2>1 DEF Arrive, TypeOK
    <3>2. QED
      BY <1>2, <3>1
  <2>2. ASSUME Recheck(p, j) PROVE Goal
    <3>1. calls'[k] = calls[k] /\ admitted' = admitted
      BY <1>0, <2>2 DEF Recheck, TypeOK
    <3>2. QED
      BY <1>2, <3>1
  <2>3. ASSUME Pass(p, j) PROVE Goal
    <3>1. calls'[k] = calls[k] /\ admitted' = admitted
      BY <1>0, <2>3 DEF Pass, TypeOK
    <3>2. QED
      BY <1>2, <3>1
  <2>4. ASSUME Dispatch(p, j) PROVE Goal
    <3>1. calls'[k] = calls[k] /\ k \in admitted'
      BY <1>0, <2>4 DEF Dispatch, TypeOK
    <3>2. QED
      BY <1>2, <3>1
  <2>5. ASSUME Lapse(p, j) \/ Refuse(p, j) \/ Complete(p, j) PROVE Goal
    <3>1. calls' = Finish(j) /\ admitted' = admitted
      BY <2>5 DEF Lapse, Refuse, Complete
    <3>2. QED
      BY <1>3, <3>1
  <2>6. QED
    BY <1>5, <2>1, <2>2, <2>3, <2>4, <2>5 DEF CallSteps
<1>6. Goal
  BY <1>1, <1>4, <1>5, WhoTouchesCalls
<1>7. QED
  BY <1>6 DEF Goal

LEMMA Arithmetic ==
  /\ Window \in Nat /\ Window > 0 /\ Cap \in Nat /\ Cap > 0
  /\ MaxPending \in Nat /\ MaxPending > 0
  /\ TypeOK => /\ now \in Nat
               /\ \A k \in Calls : calls[k].at \in Nat
BY BoundsAssumption DEF TypeOK, Times, Call

(* Time goes on, and only a Dispatch touches the ledger. *)
LEMMA LedgerSteps ==
  ASSUME TypeOK, Next
  PROVE  /\ now' \in Nat /\ now' >= now
         /\ \/ UNCHANGED <<ledger, admitted>>
            \/ /\ now' = now
               /\ \E p \in Processes, k \in Calls : Dispatch(p, k)
<1>1. ASSUME NEW p \in Processes, Crash(p) PROVE UNCHANGED <<ledger, admitted, now>>
  BY <1>1 DEF Crash
<1>2. ASSUME NEW p \in Processes, NEW k \in Calls, CallSteps(p, k), ~Dispatch(p, k)
      PROVE  UNCHANGED <<ledger, admitted, now>>
  BY <1>2 DEF CallSteps, Arrive, Recheck, Lapse, Refuse, Pass, Complete
<1>3. ASSUME NEW p \in Processes, NEW k \in Calls, Dispatch(p, k) PROVE now' = now
  BY <1>3 DEF Dispatch
<1>4. QED
  BY <1>1, <1>2, <1>3, WhoTouchesCalls, Arithmetic

LEMMA SlotStays ==
  ASSUME TypeOK, NEW k \in Calls, SlotSound(k), Next
  PROVE  SlotSound(k)'
<1>0. now \in Nat /\ calls[k].at \in Nat /\ now' \in Nat /\ now' >= now
  BY Arithmetic, LedgerSteps
<1>1. CASE k \in admitted
  <2>1. /\ calls'[k].client = calls[k].client /\ calls'[k].at = calls[k].at
        /\ calls'[k].phase \in {"running", "over"} /\ k \in admitted'
    BY <1>1, AdmittedStays
  <2>2. InWindow(k)' => InWindow(k)
    BY <1>0, <2>1, Arithmetic DEF InWindow
  <2>3. k \in ledger /\ InWindow(k)' => k \in ledger'
    <3>1. CASE UNCHANGED ledger
      BY <3>1
    <3>2. ASSUME NEW p \in Processes, NEW j \in Calls, Dispatch(p, j)
          PROVE  k \in ledger /\ InWindow(k)' => k \in ledger'
      BY <2>2, <3>2 DEF Dispatch, Kept
    <3>3. QED
      BY <3>1, <3>2, LedgerSteps
  <2>4. QED
    BY <1>0, <1>1, <2>1, <2>2, <2>3, Arithmetic DEF SlotSound
<1>2. CASE k \notin admitted
  <2>1. CASE k \notin admitted'
    BY <2>1 DEF SlotSound
  <2>2. CASE k \in admitted'
    <3>1. PICK p \in Processes, j \in Calls : Dispatch(p, j)
      BY <1>2, <2>2, LedgerSteps
    <3>2. j = k
      BY <1>2, <2>2, <3>1 DEF Dispatch
    <3>3. PICK secured \in Secured(calls[k].client) :
            calls' = [calls EXCEPT ![k].phase = IF secured THEN "running" ELSE "over",
                                   ![k].at = now, ![k].seen = Absent]
      BY <3>1, <3>2 DEF Dispatch
    <3>4. /\ calls'[k].phase \in {"running", "over"} /\ calls'[k].at = now
          /\ calls'[k].client = calls[k].client
      <4>1. calls'[k] = [calls[k] EXCEPT
                !.phase = IF secured THEN "running" ELSE "over", !.at = now, !.seen = Absent]
        BY <3>3 DEF TypeOK
      <4>2. calls[k] \in Call
        BY DEF TypeOK
      <4>3. QED
        BY <4>1, <4>2 DEF Call
    <3>5. calls[k].client \in Capped => k \in ledger'
      BY <3>1, <3>2 DEF Dispatch
    <3>6. QED
      BY <1>0, <3>4, <3>5 DEF SlotSound
  <2>3. QED
    BY <2>1, <2>2
<1>3. QED
  BY <1>1, <1>2

-----------------------------------------------------------------------------
(* The cap. *)
Counted(c) == {k \in admitted : calls[k].client = c /\ InWindow(k)}

LEMMA QuotaStays ==
  ASSUME TypeOK, \A k \in Calls : SlotSound(k), Next, NEW c \in Capped,
         Cardinality(Counted(c)) <= Cap
  PROVE  Cardinality(Counted(c)') <= Cap
<1>0. admitted \subseteq Calls /\ ledger \subseteq Calls /\ IsFiniteSet(Calls)
  BY CallsAssumption DEF TypeOK
<1>1. IsFiniteSet(Counted(c)) /\ Cardinality(Counted(c)) \in Nat
  BY <1>0, FS_Subset, FS_CardinalityType DEF Counted
<1>2. ASSUME NEW k \in admitted
      PROVE  /\ calls'[k].client = calls[k].client
             /\ InWindow(k)' => InWindow(k)
  <2>1. calls'[k].client = calls[k].client /\ calls'[k].at = calls[k].at
    BY <1>0, AdmittedStays
  <2>2. QED
    BY <1>0, <2>1, Arithmetic, LedgerSteps DEF InWindow
<1>3. ASSUME Counted(c)' \subseteq Counted(c) PROVE Cardinality(Counted(c)') <= Cap
  <2>1. Cardinality(Counted(c)') <= Cardinality(Counted(c)) /\ Cardinality(Counted(c)') \in Nat
    BY <1>1, <1>3, FS_Subset, FS_CardinalityType
  <2>2. QED
    BY <1>1, <2>1, Arithmetic
<1>4. CASE UNCHANGED <<ledger, admitted>>
  <2>1. Counted(c)' \subseteq Counted(c)
    BY <1>2, <1>4 DEF Counted
  <2>2. QED
    BY <1>3, <2>1
<1>5. ASSUME NEW p \in Processes, NEW j \in Calls, Dispatch(p, j)
      PROVE  Cardinality(Counted(c)') <= Cap
  <2>1. admitted' = admitted \cup {j} /\ Room(calls[j].client)
    BY <1>5 DEF Dispatch
  <2>2. \A k \in Calls : k # j => calls'[k] = calls[k]
    BY <1>5 DEF Dispatch, TypeOK
  <2>3. calls'[j].client = calls[j].client
    BY <1>5 DEF Dispatch, TypeOK, Call
  <2>4. CASE calls[j].client # c
    <3>1. Counted(c)' \subseteq Counted(c)
      BY <1>2, <2>1, <2>3, <2>4 DEF Counted
    <3>2. QED
      BY <1>3, <3>1
  <2>5. CASE calls[j].client = c
    <3> DEFINE held == {k \in Kept : calls[k].client = c}
    <3>1. IsFiniteSet(held) /\ Cardinality(held) \in Nat /\ Cardinality(held) < Cap
      <4>1. held \subseteq Calls
        BY <1>0 DEF Kept
      <4>2. Used(c) < Cap
        BY <2>1, <2>5 DEF Room
      <4>3. QED
        BY <1>0, <4>1, <4>2, FS_Subset, FS_CardinalityType DEF Used
    <3>2. Counted(c)' \subseteq held \cup {j}
      <4>1. ASSUME NEW k \in Counted(c)', k # j PROVE k \in held
        <5>1. k \in admitted /\ calls[k].client = c /\ InWindow(k)
          BY <1>2, <2>1, <4>1 DEF Counted
        <5>2. k \in ledger
          BY <1>0, <5>1 DEF SlotSound
        <5>3. QED
          BY <5>1, <5>2 DEF Kept
      <4>2. QED
        BY <4>1
    <3>3. IsFiniteSet(held \cup {j}) /\ Cardinality(held \cup {j}) <= Cap
      <4>1. /\ IsFiniteSet(held \cup {j})
            /\ \/ Cardinality(held \cup {j}) = Cardinality(held)
               \/ Cardinality(held \cup {j}) = Cardinality(held) + 1
        BY <3>1, FS_AddElement
      <4>2. QED
        BY <3>1, <4>1, Arithmetic
    <3>4. Cardinality(Counted(c)') <= Cardinality(held \cup {j})
      BY <3>2, <3>3, FS_Subset
    <3>5. Cardinality(Counted(c)') \in Nat /\ Cardinality(held \cup {j}) \in Nat
      BY <3>2, <3>3, FS_Subset, FS_CardinalityType
    <3>6. QED
      BY <3>3, <3>4, <3>5, Arithmetic
  <2>6. QED
    BY <2>4, <2>5
<1>6. QED
  BY <1>4, <1>5, LedgerSteps

-----------------------------------------------------------------------------
(* What a step may write: a file that queues nobody new and that sets no   *)
(* counter back.                                                           *)
Kindly(c, grants) ==
  /\ grants[c].status = "pending" => disk[c].status = "pending"
  /\ grants[c].status # "absent" => grants[c].total >= disk[c].total

LEMMA KindWrites ==
  ASSUME TypeOK, NEW c \in Clients, NEW p \in Processes
  PROVE  /\ Kindly(c, disk) /\ Kindly(c, NoGrants) /\ Kindly(c, Merged(p))
         /\ \A d \in Clients, e \in Terms : Kindly(c, Activated(Merged(p), d, e))
         /\ \A d \in Clients : Kindly(c, Ended(Merged(p), d, "revoked"))
         /\ \A d \in Clients : Kindly(c, Ended(Merged(p), d, "expired"))
         /\ \A gone : Kindly(c, Without(Merged(p), gone))
<1> DEFINE g == Merged(p)
<1>0. g \in [Clients -> Grant] /\ g[c].status = disk[c].status /\ g[c].total >= disk[c].total
  BY MergedFollowsDisk
<1> HIDE DEF g
<1>1. Kindly(c, disk) /\ Kindly(c, NoGrants) /\ Kindly(c, g)
  <2>1. disk[c].total \in Nat
    BY DEF TypeOK, Grant
  <2>2. NoGrants[c].status = "absent"
    BY DEF NoGrants, Absent, Bare
  <2>3. QED
    BY <1>0, <2>1, <2>2 DEF Kindly
<1>2. ASSUME NEW d \in Clients, NEW e \in Terms PROVE Kindly(c, Activated(g, d, e))
  BY <1>0, ActivatedAt DEF Kindly
<1>3. ASSUME NEW d \in Clients, NEW status \in {"revoked", "expired"}
      PROVE  Kindly(c, Ended(g, d, status))
  BY <1>0, EndedAt DEF Kindly
<1>4. ASSUME NEW gone PROVE Kindly(c, Without(g, gone))
  BY <1>0, WithoutAt DEF Kindly
<1>5. QED
  BY <1>1, <1>2, <1>3, <1>4 DEF g

LEMMA DiskSteps ==
  ASSUME TypeOK, Owned, NEW c \in Clients, Next
  PROVE  \/ Kindly(c, disk')
         \/ \E p \in Processes, d \in Interactive : CreatePending(p, d)
<1> DEFINE Goal == \/ Kindly(c, disk')
                   \/ \E p \in Processes, d \in Interactive : CreatePending(p, d)
<1>1. ASSUME NEW p \in Processes, NEW d \in Interactive, CreatePending(p, d) PROVE Goal
  BY <1>1
<1>2. ASSUME NEW p \in Processes, NEW g, NEW saved, Store(p, g, saved), Kindly(c, g) PROVE Goal
  <2>1. Kindly(c, disk)
    BY KindWrites, <1>2
  <2>2. disk' = g \/ disk' = disk
    BY <1>2 DEF Store
  <2>3. QED
    BY <1>2, <2>1, <2>2
<1>3. ASSUME NEW p \in Processes, UNCHANGED disk PROVE Goal
  BY <1>3, KindWrites
<1> HIDE DEF Goal
<1>4. ASSUME NEW p \in Processes, NEW d \in Clients, Answer(p, d) PROVE Goal
  <2>1. CASE UNCHANGED disk
    BY <1>3, <2>1
  <2>2. ASSUME NEW saved \in Saves, NEW yes,
               Store(p, IF yes THEN Activated(Merged(p), d, Never)
                               ELSE Ended(Merged(p), d, "revoked"), saved)
        PROVE  Goal
    <3>1. Kindly(c, Activated(Merged(p), d, Never)) /\ Kindly(c, Ended(Merged(p), d, "revoked"))
      BY KindWrites, Constants
    <3>2. QED
      BY <1>2, <2>2, <3>1
  <2>3. QED
    BY <1>4, <2>1, <2>2 DEF Answer, Click
<1>5. ASSUME NEW p \in Processes, Flush(p) PROVE Goal
  BY <1>2, <1>5, KindWrites DEF Flush
<1>6. ASSUME NEW p \in Processes, NEW saved, ExpireStale(p, saved) PROVE Goal
  BY <1>2, <1>6, KindWrites DEF ExpireStale
<1>7. ASSUME NEW p \in Processes, NEW k \in Calls, Lapse(p, k) PROVE Goal
  <2>1. calls[k].client \in Clients
    BY <1>7 DEF Lapse, Checking, Owned, Gated
  <2>2. CASE UNCHANGED disk
    BY <1>3, <2>2
  <2>3. ASSUME NEW saved \in Saves, Store(p, Ended(Merged(p), calls[k].client, "expired"), saved)
        PROVE  Goal
    <3>1. Kindly(c, Ended(Merged(p), calls[k].client, "expired"))
      BY <2>1, KindWrites
    <3>2. QED
      BY <1>2, <2>3, <3>1
  <2>4. QED
    BY <1>7, <2>2, <2>3 DEF Lapse
<1>8. ASSUME NEW p \in Processes, Serve(p) PROVE Goal
  <2>1. ASSUME NEW s \in Service, Login(p, s) PROVE UNCHANGED disk
    BY <2>1 DEF Login
  <2>2. ASSUME NEW k \in Calls, CallSteps(p, k), ~Lapse(p, k) PROVE UNCHANGED disk
    BY <2>2 DEF CallSteps, Arrive, Recheck, Refuse, Pass, Dispatch, Complete
  <2>3. QED
    BY <1>1, <1>3, <1>4, <1>5, <1>6, <1>7, <1>8, <2>1, <2>2, Constants DEF Serve, CallSteps
<1>9. ASSUME NEW p \in Processes, NEW d \in Clients, Approve(p, d) \/ Deny(p, d) PROVE Goal
  BY <1>2, <1>9, KindWrites DEF Approve, Deny
<1>10. ASSUME NEW p \in Processes, Prune(p) PROVE Goal
  BY <1>2, <1>10, KindWrites DEF Prune
<1>11. ASSUME NEW p \in Processes, Administer(p) PROVE Goal
  <2>1. ASSUME NEW s \in Service, Issue(p, s) \/ RevokeCredential(p, s) PROVE UNCHANGED disk
    BY <2>1 DEF Issue, RevokeCredential
  <2>2. ASSUME Reload(p) PROVE UNCHANGED disk
    BY <2>2 DEF Reload
  <2>3. QED
    BY <1>3, <1>9, <1>10, <1>11, <2>1, <2>2 DEF Administer
<1>12. ASSUME NEW p \in Processes, NEW s \in Service, Ensure(p, s) PROVE Goal
  <2>1. cred[s].expires \in Terms /\ s \in Clients
    BY Constants DEF TypeOK
  <2>2. Kindly(c, Activated(Merged(p), s, cred[s].expires))
    BY <2>1, KindWrites
  <2>3. QED
    BY <1>2, <1>12, <2>2 DEF Ensure
<1>13. ASSUME NEW p \in Processes, NEW s \in Service, RevokeGrant(p, s) PROVE Goal
  <2>1. s \in Clients
    BY Constants
  <2>2. Kindly(c, Ended(Merged(p), s, "revoked"))
    BY <2>1, KindWrites
  <2>3. QED
    BY <1>2, <1>3, <1>13, <2>2 DEF RevokeGrant
<1>14. ASSUME NEW p \in Processes, Abandon(p) \/ Crash(p) \/ Boot(p) PROVE UNCHANGED disk
  BY <1>14 DEF Abandon, Crash, Boot
<1>15. ASSUME RemoveFile PROVE Kindly(c, disk')
  BY <1>15, Constants DEF RemoveFile, Kindly, NoGrants, Absent, Bare
<1>16. ASSUME Tick PROVE Kindly(c, disk')
  <2>1. disk' = disk /\ disk[c].total \in Nat
    BY <1>16 DEF Tick, TypeOK, Grant
  <2>2. QED
    BY <2>1 DEF Kindly
<1>17. Goal
  <2>1. ASSUME Kindly(c, disk') PROVE Goal
    BY <2>1 DEF Goal
  <2>2. QED
    BY <1>3, <1>8, <1>11, <1>12, <1>13, <1>14, <1>15, <1>16, <2>1, Constants DEF Next
<1>18. QED
  BY <1>17 DEF Goal

-----------------------------------------------------------------------------
(* The review queue.  Only agents that register themselves are ever in it. *)
LEMMA Queues ==
  ASSUME TypeOK, \A c \in Clients : FileSound(c)
  PROVE  /\ PendingIn(disk) \subseteq Interactive
         /\ IsFiniteSet(PendingIn(disk)) /\ Cardinality(PendingIn(disk)) \in Nat
         /\ \A p \in Processes : PendingIn(Merged(p)) = PendingIn(disk)
<1>1. PendingIn(disk) \subseteq Interactive
  BY DEF PendingIn, FileSound, Clients
<1>2. IsFiniteSet(PendingIn(disk)) /\ Cardinality(PendingIn(disk)) \in Nat
  BY <1>1, ClientsAssumption, FS_Subset, FS_CardinalityType
<1>3. \A p \in Processes : PendingIn(Merged(p)) = PendingIn(disk)
  BY MergedFollowsDisk DEF PendingIn
<1>4. QED
  BY <1>1, <1>2, <1>3

LEMMA RemovedSize ==
  ASSUME NEW S, IsFiniteSet(S), NEW T \in SUBSET S
  PROVE  /\ IsFiniteSet(S \ T) /\ Cardinality(S \ T) \in Nat /\ Cardinality(T) \in Nat
         /\ Cardinality(S) = Cardinality(S \ T) + Cardinality(T)
<1>1. /\ IsFiniteSet(T) /\ IsFiniteSet(S \ T)
      /\ Cardinality(S \ T) \in Nat /\ Cardinality(T) \in Nat
  BY FS_Subset, FS_CardinalityType
<1>2. Cardinality(S \ T) = Cardinality(S) - Cardinality(S \cap T) /\ Cardinality(S) \in Nat
  BY FS_Difference, FS_CardinalityType
<1>3. S \cap T = T
  OBVIOUS
<1>4. Cardinality(S \ T) = Cardinality(S) - Cardinality(T)
  BY <1>2, <1>3
<1>5. QED
  BY <1>1, <1>2, <1>4

LEMMA QueueStays ==
  ASSUME TypeOK, Owned, \A c \in Clients : FileSound(c), QueueBounded, Next
  PROVE  QueueBounded'
<1> DEFINE queue == PendingIn(disk)
<1>0. /\ IsFiniteSet(queue) /\ Cardinality(queue) \in Nat /\ Cardinality(queue) <= MaxPending
      /\ MaxPending \in Nat /\ MaxPending > 0
  BY Queues, Arithmetic DEF QueueBounded
<1>1. ASSUME queue' \subseteq queue PROVE QueueBounded'
  <2>1. Cardinality(queue') <= Cardinality(queue) /\ Cardinality(queue') \in Nat
    BY <1>0, <1>1, FS_Subset, FS_CardinalityType
  <2>2. QED
    BY <1>0, <2>1, Arithmetic DEF QueueBounded
<1>2. CASE \A p \in Processes, d \in Interactive : ~CreatePending(p, d)
  <2>1. ASSUME NEW c \in Clients, disk'[c].status = "pending" PROVE disk[c].status = "pending"
    BY <1>2, <2>1, DiskSteps DEF Kindly
  <2>2. QED
    BY <1>1, <2>1 DEF PendingIn
<1>3. ASSUME NEW p \in Processes, NEW d \in Interactive, CreatePending(p, d)
      PROVE  QueueBounded'
  <2>1. PICK old \in Evictions(Merged(p)), saved \in Saves :
          Store(p, [Without(Merged(p), old) EXCEPT ![d] =
                      [Bare("pending", 0) EXCEPT !.created = now]], saved)
    BY <1>3 DEF CreatePending
  <2>2. PendingIn(Merged(p)) = queue
    BY Queues
  <2>3. /\ old \subseteq queue
        /\ Cardinality(old) = IF Cardinality(queue) >= MaxPending
                              THEN Cardinality(queue) - MaxPending + 1 ELSE 0
    BY <2>2 DEF Evictions, Oldest
  <2>4. CASE ~saved
    BY <1>1, <2>1, <2>4 DEF Store
  <2>5. CASE saved
    <3>1. disk' = [Without(Merged(p), old) EXCEPT ![d] =
                      [Bare("pending", 0) EXCEPT !.created = now]]
      BY <2>1, <2>5 DEF Store
    <3>2. queue' \subseteq (queue \ old) \cup {d}
      <4>1. ASSUME NEW c \in Clients, c # d, disk'[c].status = "pending"
            PROVE  c \in queue \ old
        <5>1. disk'[c] = IF c \in old THEN Absent ELSE Merged(p)[c]
          BY <3>1, <4>1 DEF Without
        <5>2. c \notin old /\ Merged(p)[c].status = "pending"
          BY <4>1, <5>1 DEF Absent, Bare
        <5>3. QED
          BY <5>2, MergedFollowsDisk DEF PendingIn
      <4>2. QED
        BY <4>1 DEF PendingIn
    <3> HIDE DEF queue
    <3>3. /\ IsFiniteSet(queue \ old) /\ Cardinality(queue \ old) \in Nat
          /\ Cardinality(queue) = Cardinality(queue \ old) + Cardinality(old)
      BY <1>0, <2>3, RemovedSize
    <3>4. Cardinality(queue \ old) <= MaxPending - 1
      BY <1>0, <2>3, <3>3
    <3>5. /\ IsFiniteSet((queue \ old) \cup {d})
          /\ Cardinality((queue \ old) \cup {d}) <= Cardinality(queue \ old) + 1
      <4>1. /\ IsFiniteSet((queue \ old) \cup {d})
            /\ \/ Cardinality((queue \ old) \cup {d}) = Cardinality(queue \ old)
               \/ Cardinality((queue \ old) \cup {d}) = Cardinality(queue \ old) + 1
        BY <3>3, FS_AddElement
      <4>2. QED
        BY <3>3, <4>1
    <3>6. /\ Cardinality(queue') <= Cardinality((queue \ old) \cup {d})
          /\ Cardinality(queue') \in Nat /\ Cardinality((queue \ old) \cup {d}) \in Nat
      BY <3>2, <3>5, FS_Subset, FS_CardinalityType
    <3>7. Cardinality(queue') <= MaxPending
      BY <1>0, <3>3, <3>4, <3>5, <3>6
    <3>8. QED
      BY <3>7, Arithmetic DEF queue, QueueBounded
  <2>6. QED
    BY <2>4, <2>5
<1>4. QED
  BY <1>2, <1>3

-----------------------------------------------------------------------------
(* The inductive invariant. *)
GrantsInvariant ==
  /\ TypeOK
  /\ \A c \in Clients : FileSound(c)
  /\ \A k \in Calls : GateSound(k) /\ SlotSound(k)
  /\ QueueBounded
  /\ \A c \in Capped : Cardinality(Counted(c)) <= Cap
  /\ SlotsAreCalls

LEMMA TypeStays ==
  ASSUME TypeOK, Owned, Next
  PROVE  TypeOK'
<1>1. ASSUME NEW p \in Processes, Serve(p) PROVE TypeOK'
  <2>1. ASSUME NEW k \in Calls, CallSteps(p, k) PROVE TypeOK'
    BY <2>1, GateStepsKeepType DEF CallSteps
  <2>2. QED
    BY <1>1, <2>1, StoreStepsKeepType, ServiceStepsKeepType DEF Serve, CallSteps
<1>2. ASSUME NEW p \in Processes, Administer(p) PROVE TypeOK'
  BY <1>2, StoreStepsKeepType, ServiceStepsKeepType DEF Administer
<1>3. ASSUME NEW p \in Processes, Abandon(p) PROVE TypeOK'
  <2>1. Sequenced'
    BY <1>3 DEF Abandon, Stopped, Sequenced, TypeOK
  <2>2. QED
    BY <1>3, <2>1, SequencesKeepType DEF Abandon, TypeOK
<1>4. ASSUME NEW p \in Processes, Crash(p) \/ Boot(p) PROVE TypeOK'
  BY <1>4, WorldKeepsType
<1>5. ASSUME NEW p \in Processes, NEW s \in Service, Ensure(p, s) \/ RevokeGrant(p, s) PROVE TypeOK'
  BY <1>5, ServiceStepsKeepType
<1>6. QED
  BY <1>1, <1>2, <1>3, <1>4, <1>5, WorldKeepsType, Constants DEF Next

LEMMA Initially == Init => GrantsInvariant
<1> SUFFICES ASSUME Init PROVE GrantsInvariant
  OBVIOUS
<1>1. TypeOK
  BY InitType
<1>2. ASSUME NEW c \in Clients PROVE FileSound(c)
  BY <1>2 DEF Init, FileSound, NoGrants, Absent, Bare
<1>3. ASSUME NEW k \in Calls PROVE GateSound(k) /\ SlotSound(k)
  BY <1>3 DEF Init, GateSound, SlotSound, FreshCall, Gated
<1>4. QueueBounded
  <2>1. PendingIn(disk) = {}
    BY DEF Init, PendingIn, NoGrants, Absent, Bare
  <2>2. QED
    BY <2>1, FS_EmptySet, Arithmetic DEF QueueBounded
<1>5. ASSUME NEW c \in Capped PROVE Cardinality(Counted(c)) <= Cap
  <2>1. Counted(c) = {}
    BY DEF Init, Counted
  <2>2. QED
    BY <2>1, FS_EmptySet, Arithmetic
<1>6. SlotsAreCalls
  BY DEF Init, SlotsAreCalls
<1>7. QED
  BY <1>1, <1>2, <1>3, <1>4, <1>5, <1>6 DEF GrantsInvariant

LEMMA StepKeepsInvariant == GrantsInvariant /\ [Next]_vars => GrantsInvariant'
<1> SUFFICES ASSUME GrantsInvariant, [Next]_vars PROVE GrantsInvariant'
  OBVIOUS
<1>1. CASE Next
  <2>0. /\ TypeOK /\ Owned /\ QueueBounded
        /\ \A c \in Clients : FileSound(c)
        /\ \A k \in Calls : GateSound(k) /\ SlotSound(k)
    BY DEF GrantsInvariant, Owned, GateSound
  <2>1. TypeOK'
    BY <1>1, <2>0, TypeStays
  <2>2. ASSUME NEW c \in Clients PROVE FileSound(c)'
    BY <1>1, <2>0, <2>2, FileStays
  <2>3. ASSUME NEW k \in Calls PROVE GateSound(k)' /\ SlotSound(k)'
    BY <1>1, <2>0, <2>3, GateStays, SlotStays
  <2>4. QueueBounded'
    BY <1>1, <2>0, QueueStays
  <2>5. ASSUME NEW c \in Capped PROVE Cardinality(Counted(c)') <= Cap
    BY <1>1, <2>0, <2>5, QuotaStays DEF GrantsInvariant
  <2>6. SlotsAreCalls'
    <3>1. CASE UNCHANGED <<ledger, admitted>>
      BY <3>1 DEF SlotsAreCalls, GrantsInvariant
    <3>2. ASSUME NEW p \in Processes, NEW k \in Calls, Dispatch(p, k) PROVE SlotsAreCalls'
      BY <3>2 DEF Dispatch, Kept, SlotsAreCalls, GrantsInvariant
    <3>3. QED
      BY <1>1, <2>0, <3>1, <3>2, LedgerSteps
  <2>7. QED
    BY <2>1, <2>2, <2>3, <2>4, <2>5, <2>6 DEF GrantsInvariant
<1>2. CASE UNCHANGED vars
  BY <1>2 DEF vars, GrantsInvariant, TypeOK, FileSound, GateSound, SlotSound, QueueBounded,
              PendingIn, Counted, InWindow, SlotsAreCalls
<1>3. QED
  BY <1>1, <1>2

LEMMA InvariantHolds == Spec => []GrantsInvariant
BY Initially, StepKeepsInvariant, PTL DEF Spec

-----------------------------------------------------------------------------
(* The grant file, the credentials, the calls at the gate and the ledger   *)
(* keep the shape grant-store.ts gives them, whatever crashes or fails.    *)
THEOREM TypeCorrect == Spec => []TypeOK
<1>1. GrantsInvariant => TypeOK
  BY DEF GrantsInvariant
<1>2. QED
  BY <1>1, InvariantHolds, PTL

(* A call that runs was allowed by the operator when its last check read   *)
(* the stores, with any number of processes rewriting the grant file.      *)
THEOREM OnlyTheApprovedRun == Spec => []OnlyTheApproved
<1>1. GrantsInvariant => OnlyTheApproved
  BY DEF GrantsInvariant, GateSound, OnlyTheApproved
<1>2. QED
  BY <1>1, InvariantHolds, PTL

(* No more calls pass the gate in a window than the cap allows, with any   *)
(* number of daemons drawing on one ledger.                                *)
THEOREM QuotaIsHeld == Spec => []QuotaHeld
<1>1. GrantsInvariant => QuotaHeld
  BY DEF GrantsInvariant, Counted, QuotaHeld
<1>2. QED
  BY <1>1, InvariantHolds, PTL

(* A refused call never holds a slot of the hourly cap. *)
THEOREM RefusedCallsAreFree == Spec => []SlotsAreCalls
<1>1. GrantsInvariant => SlotsAreCalls
  BY DEF GrantsInvariant
<1>2. QED
  BY <1>1, InvariantHolds, PTL

(* The queue of requests stays within MAX_PENDING_GRANTS on disk.          *)
THEOREM QueueIsBounded == Spec => []QueueBounded
<1>1. GrantsInvariant => QueueBounded
  BY DEF GrantsInvariant
<1>2. QED
  BY <1>1, InvariantHolds, PTL

(* No rewrite of the file sets the call counter of a grant back. *)
THEOREM CountersOnlyGrow == Spec => CountersNeverFall
<1> DEFINE Rises == \A c \in Clients : disk[c].status # "absent" /\ disk'[c].status # "absent"
                      => disk'[c].total >= disk[c].total
<1>1. GrantsInvariant /\ [Next]_vars => [Rises]_vars
  <2> SUFFICES ASSUME GrantsInvariant, Next, NEW c \in Clients,
                      disk[c].status # "absent", disk'[c].status # "absent"
               PROVE  disk'[c].total >= disk[c].total
    OBVIOUS
  <2>1. TypeOK /\ Owned
    BY DEF GrantsInvariant, Owned, GateSound
  <2>2. CASE Kindly(c, disk')
    BY <2>2 DEF Kindly
  <2>3. ASSUME NEW p \in Processes, NEW d \in Interactive, CreatePending(p, d)
        PROVE  disk'[c].total >= disk[c].total
    <3>1. PICK old \in Evictions(Merged(p)), saved \in Saves :
            Store(p, [Without(Merged(p), old) EXCEPT ![d] =
                        [Bare("pending", 0) EXCEPT !.created = now]], saved)
      BY <2>3 DEF CreatePending
    <3>2. Merged(p)[d].status = "absent"
      BY <2>3 DEF CreatePending
    <3>3. c # d
      BY <2>1, <3>2, MergedFollowsDisk
    <3>4. disk' = disk \/ disk'[c] = Without(Merged(p), old)[c]
      BY <3>1, <3>3 DEF Store, Without
    <3>5. Kindly(c, disk) /\ Kindly(c, Without(Merged(p), old))
      BY <2>1, KindWrites
    <3>6. QED
      BY <3>4, <3>5 DEF Kindly
  <2>4. QED
    BY <2>1, <2>2, <2>3, DiskSteps
<1>2. QED
  BY <1>1, InvariantHolds, PTL DEF Spec, CountersNeverFall

(* The ledger charges the calls that ran, and no more than the cap.        *)
THEOREM LedgerIsHonest == Spec => []LedgerHolds
<1>1. QuotaHeld /\ SlotsAreCalls => LedgerHolds
  BY DEF LedgerHolds
<1>2. QED
  BY <1>1, QuotaIsHeld, RefusedCallsAreFree, PTL
=============================================================================
