------------------------------ MODULE Escalation ------------------------------
(* Permission presets: an agent asks for a higher one, a human at one of two    *)
(* consoles (the settings page, the terminal interface) approves or denies, and *)
(* the daemon's permission check acts on the preset of the configuration.  The  *)
(* decision and the preset are written to two files, one after the other.       *)
EXTENDS Naturals, Sequences, FiniteSets

CONSTANTS
  Consoles,
  EXPIRY, HOUR,   \* in ticks of the clock, of which one is longer than CONFIG_CACHE_MS
  RATE_LIMIT, MAX_HISTORY,
  ToolLimit,      \* calls of a tool an hour under "supervised"
  MaxAsked,       \* bound: challenges
  MaxPresetSaves  \* bound: presets set by hand

MAX_PENDING == 1
ASSUME EscalationAssumption ==
  /\ EXPIRY \in Nat /\ HOUR \in Nat /\ EXPIRY < HOUR
  /\ RATE_LIMIT \in Nat \ {0} /\ MAX_HISTORY \in Nat /\ RATE_LIMIT <= MAX_HISTORY
  /\ ToolLimit \in Nat /\ MaxAsked \in Nat /\ MaxPresetSaves \in Nat
Presets == {"read_only", "supervised", "full"}
PRESET_LEVEL == [read_only |-> 0, supervised |-> 2, full |-> 3]
isUpgrade(from, to) == PRESET_LEVEL[to] > PRESET_LEVEL[from]
NoRecord == [id |-> 0, to |-> "read_only", status |-> "pending"]

VARIABLES
  escalations,     \* the pending file: its records, oldest first
  asked,           \* how long ago each challenge was made
  preset,          \* of the configuration file
  approving,       \* the challenge each console has approved and not applied yet
  cachedConfig, cacheFresh, \* the daemon's copy; whether it is younger than 15 s
  rateBucket,      \* how long ago the calls were that count against the limit
  decisions,       \* history: the decision or decisions on each challenge
  raised,          \* history: the challenges whose preset was saved
  lately,          \* history: presets of the file since the last tick
  saves            \* of the bound

es_vars == <<escalations, asked, preset, approving, cachedConfig, cacheFresh, rateBucket,
             decisions, raised, lately, saves>>
Gate == UNCHANGED <<cachedConfig, cacheFresh, rateBucket>>

ESInit ==
  /\ escalations = <<>> /\ asked = <<>> /\ decisions = <<>> /\ raised = {}
  /\ preset = "read_only" /\ cachedConfig = "read_only" /\ cacheFresh = TRUE
  /\ approving = [c \in Consoles |-> NoRecord]
  /\ rateBucket = <<>> /\ lately = {"read_only"} /\ saves = 0

------------------------------------------------------------------------------
(* The pending file                                                             *)

Overdue(e) == e.status = "pending" /\ asked[e.id] > EXPIRY
(* Every operation first marks what has expired, and saves that.                *)
evictExpired == [i \in DOMAIN escalations |->
  IF Overdue(escalations[i]) THEN [escalations[i] EXCEPT !.status = "expired"] ELSE escalations[i]]
Trimmed(s) == IF Len(s) > MAX_HISTORY THEN Tail(s) ELSE s
Recent == Cardinality({i \in DOMAIN escalations : asked[escalations[i].id] < HOUR})
Pending == Cardinality({i \in DOMAIN escalations : evictExpired[i].status = "pending"})

Request(to) ==
  /\ Len(asked) < MaxAsked
  /\ IF isUpgrade(preset, to) /\ Recent < RATE_LIMIT /\ Pending < MAX_PENDING
     THEN /\ escalations' = Trimmed(Append(evictExpired, [id |-> Len(asked) + 1, to |-> to, status |-> "pending"]))
          /\ asked' = Append(asked, 0)
          /\ decisions' = Append(decisions, <<>>)
     ELSE escalations' = evictExpired /\ UNCHANGED <<asked, decisions>>
  /\ UNCHANGED <<preset, approving, raised, lately, saves>> /\ Gate

Sweeps ==
  /\ escalations # evictExpired
  /\ escalations' = evictExpired
  /\ UNCHANGED <<asked, preset, approving, decisions, raised, lately, saves>> /\ Gate

(* Mutant: a challenge is decided whatever became of it.                        *)
DecidableWhenKnown(i) == TRUE
Decidable(i) == evictExpired[i].status = "pending"

Decided(i, d) ==
  /\ escalations' = [evictExpired EXCEPT ![i].status = d]
  /\ decisions' = [decisions EXCEPT ![escalations[i].id] = Append(@, IF Overdue(escalations[i]) THEN "late" ELSE d)]

Approve(c, i) ==
  /\ approving[c] = NoRecord /\ Decidable(i)
  /\ Decided(i, "approved")
  /\ approving' = [approving EXCEPT ![c] = escalations[i]]
  /\ UNCHANGED <<asked, preset, raised, lately, saves>> /\ Gate

Deny(i) ==
  /\ Decidable(i)
  /\ Decided(i, "denied")
  /\ UNCHANGED <<asked, preset, approving, raised, lately, saves>> /\ Gate

------------------------------------------------------------------------------
(* The preset: the console that approved saves it, or fails or dies before, and *)
(* a human may set any at any time.                                             *)

Saved(p) == preset' = p /\ lately' = lately \cup {p}

Apply(c) ==
  /\ approving[c] # NoRecord
  /\ approving' = [approving EXCEPT ![c] = NoRecord]
  /\ \/ /\ Saved(approving[c].to)
        /\ raised' = raised \cup {approving[c].id}
     \/ UNCHANGED <<preset, lately, raised>>
  /\ UNCHANGED <<escalations, asked, decisions, saves>> /\ Gate

SetPreset(p) ==
  /\ saves < MaxPresetSaves /\ p # preset
  /\ saves' = saves + 1
  /\ Saved(p)
  /\ UNCHANGED <<escalations, asked, approving, decisions, raised>> /\ Gate

------------------------------------------------------------------------------
(* The permission check of a writing tool.                                      *)

(* Mutant: a copy once loaded is kept.                                          *)
NeverStale == cachedConfig
Config == IF cacheFresh THEN cachedConfig ELSE preset
InWindow == SelectSeq(rateBucket, LAMBDA age : age < HOUR)

Check ==
  /\ cachedConfig' = Config /\ cacheFresh' = TRUE
  /\ rateBucket' = IF Config # "supervised" THEN rateBucket
                   ELSE IF Len(InWindow) < ToolLimit THEN Append(InWindow, 0) ELSE InWindow
  /\ UNCHANGED <<escalations, asked, preset, approving, decisions, raised, lately, saves>>

Older(n) == IF n < HOUR THEN n + 1 ELSE n
Tick ==
  /\ asked' = [i \in DOMAIN asked |-> Older(asked[i])]
  /\ rateBucket' = [i \in DOMAIN rateBucket |-> Older(rateBucket[i])]
  /\ cacheFresh' = FALSE
  /\ lately' = {preset}
  /\ UNCHANGED <<escalations, preset, approving, cachedConfig, decisions, raised, saves>>

ESNext ==
  \/ \E to \in Presets \ {"read_only"} : Request(to)
  \/ Sweeps \/ Check \/ Tick
  \/ \E i \in DOMAIN escalations : Deny(i) \/ \E c \in Consoles : Approve(c, i)
  \/ \E c \in Consoles : Apply(c)
  \/ \E p \in Presets : SetPreset(p)

ESSpec == ESInit /\ [][ESNext]_es_vars

------------------------------------------------------------------------------
(* Properties.                                                                  *)

(* A challenge is decided at most once, before it expires, by whichever console *)
(* comes first; only an approved one changes the preset; one is open at a time; *)
(* and an agent makes no more than RATE_LIMIT of them an hour.                  *)
ChallengesHold ==
  /\ \A id \in DOMAIN decisions : decisions[id] \in {<<>>, <<"approved">>, <<"denied">>}
  /\ \A id \in raised : decisions[id] = <<"approved">>
  /\ Pending <= MAX_PENDING
  /\ Cardinality({id \in DOMAIN asked : asked[id] < HOUR}) <= RATE_LIMIT

(* A lowered preset binds the tools within a cache period: a copy the check     *)
(* still acts on is a preset the configuration had a moment ago.                *)
LoweredPresetBinds == cacheFresh => cachedConfig \in lately

PermissionsHold == ChallengesHold /\ LoweredPresetBinds

==============================================================================
