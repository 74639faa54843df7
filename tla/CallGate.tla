------------------------------ MODULE CallGate -------------------------------
(* How the daemon takes a tool call or the read of a resource: it is routed to  *)
(* an account, asked against the preset and the tool's own switch and rate,     *)
(* perhaps put to the user, asked again, run, and its result answered or        *)
(* discarded, with one audit row of an agent's call. Meanwhile the settings     *)
(* are saved, time passes and the account is repointed. The grant's own         *)
(* conditions are module Grants; here it is there or not.                       *)
EXTENDS Naturals, FiniteSets

CONSTANTS
  Calls,            \* the calls of one behaviour, numbered as they come
  Aliases,          \* the names of one destructive tool
  Plain,            \* a tool that asks for no confirmation
  RATE, PER,        \* a tool's limit of calls and the window it is counted in
  CACHE_FOR,        \* for how long the permission manager trusts its copy
  MaxTime, MaxSaves, MaxRoutes   \* bounds: of the clock, saves of the settings, routes

ToolNames == Aliases \cup {Plain}
canonicalToolName(name) == IF name \in Aliases THEN "destructive" ELSE "plain"
CanonicalTools == {"destructive", "plain"}
Presets == {"full", "read_only"}

ASSUME CallGateAssumption ==
  /\ Calls \subseteq Nat /\ IsFiniteSet(Calls)
  /\ Plain \notin Aliases
  /\ RATE \in Nat /\ PER \in Nat /\ CACHE_FOR \in Nat
  /\ MaxTime \in Nat /\ MaxSaves \in Nat /\ MaxRoutes \in Nat

VARIABLES
  clock,
  settings,  \* on disk: preset, the destructive tool's switch, and how often saved
  copy,      \* what the permission manager holds of them, and since when
  slots,     \* rateBuckets: when each tool's slots still kept were taken, and by which call
  passed,    \* history: every slot ever taken
  route,     \* the account's services and identity, counted on as it is repointed
  calls      \* the calls

gate_vars == <<clock, settings, copy, slots, passed, route, calls>>

Fresh == [phase |-> "unused", agent |-> FALSE, read |-> FALSE, name |-> Plain, preset |-> "full",
          route |-> 0, rows |-> 0, result |-> "none"]

CGInit ==
  /\ clock = 0
  /\ settings = [preset |-> "full", on |-> TRUE, saves |-> 0]
  /\ copy = [on |-> TRUE, at |-> 0]
  /\ slots = [t \in CanonicalTools |-> {}]
  /\ passed = [t \in CanonicalTools |-> {}]
  /\ route = 1
  /\ calls = [c \in Calls |-> Fresh]

------------------------------------------------------------------------------
(* permissions.check(): a copy of the settings that may be old, and a slot      *)

Presently == IF clock - copy.at > CACHE_FOR THEN [on |-> settings.on, at |-> clock] ELSE copy
Enabled(tool) == tool = "plain" \/ Presently.on

Counted(taken) == {at \in taken : at[1] + PER > clock}
consumeRateSlot(name) == Cardinality(Counted(slots[canonicalToolName(name)])) < RATE

Permitted(name) == Enabled(canonicalToolName(name)) /\ consumeRateSlot(name)
Kept(tool) == Counted(slots[tool])
Takes(c, tool) ==
  /\ slots' = [slots EXCEPT ![tool] = Kept(tool) \cup {<<clock, c>>}]
  /\ passed' = [passed EXCEPT ![tool] = @ \cup {<<clock, c>>}]
Drops(tool) == slots' = [slots EXCEPT ![tool] = Kept(tool)] /\ UNCHANGED passed
TakesSlot(c, tool) ==
  \/ Permitted(calls[c].name) /\ Takes(c, tool)
  \/ Enabled(tool) /\ ~Permitted(calls[c].name) /\ Drops(tool)
  \/ ~Enabled(tool) /\ UNCHANGED <<slots, passed>>

------------------------------------------------------------------------------
(* The handler                                                                  *)

globalAllows(preset, tool) == tool = "plain" \/ preset = "full"

Ended(call, result, rows) ==
  [Fresh EXCEPT !.phase = "over", !.agent = call.agent, !.read = call.read,
                !.result = result, !.rows = rows]
Over(c, result, rows) == calls' = [calls EXCEPT ![c] = Ended(calls[c], result, rows)]
Row(c) == IF calls[c].agent THEN 1 ELSE 0

(* A call comes and is routed, and one settings snapshot judges it; of an       *)
(* account that is not there nothing is asked.                                  *)
Routed(name, agent, read) ==
  [Fresh EXCEPT !.phase = "routed", !.agent = agent, !.read = read, !.name = name,
                !.preset = settings.preset, !.route = route]
Comes(c, name, agent, read) ==
  /\ calls[c].phase = "unused" /\ (\A d \in Calls : d < c => calls[d].phase # "unused")
  /\ read => name = Plain
  /\ calls' = [calls EXCEPT ![c] = Routed(name, agent, read)]
  /\ UNCHANGED <<clock, settings, copy, slots, passed, route>>

(* The gates, in one step: the grant and the preset, the switch and the rate.   *)
Gated(c) ==
  LET name == calls[c].name tool == canonicalToolName(calls[c].name) IN
  /\ calls[c].phase = "routed"
  /\ \E granted \in BOOLEAN :
       IF calls[c].agent /\ ~(granted /\ globalAllows(calls[c].preset, tool))
       THEN Over(c, "blocked", 1) /\ UNCHANGED <<copy, slots, passed>>
       ELSE /\ TakesSlot(c, tool) /\ copy' = Presently
            /\ IF ~Permitted(name) THEN Over(c, "blocked", Row(c))
               ELSE calls' = [calls EXCEPT ![c].phase = "gated"]
  /\ UNCHANGED <<clock, settings, route>>

(* A destructive tool not confirmed in its arguments: the user is asked, or,    *)
(* where the client cannot ask, the call is answered with a preview.            *)
Asks(c) ==
  /\ calls[c].phase = "gated" /\ calls[c].name \in Aliases
  /\ calls' = [calls EXCEPT ![c].phase = "asking"]
  /\ UNCHANGED <<clock, settings, copy, slots, passed, route>>

(* Declined, or the question failed, or could not be put.                       *)
Cancelled(c) ==
  /\ calls[c].phase = "asking" \/ (calls[c].phase = "gated" /\ calls[c].name \in Aliases)
  /\ Over(c, "cancelled", 0)
  /\ UNCHANGED <<clock, settings, copy, slots, passed, route>>

(* The last gate of an agent's call reads grant and preset from disk again,     *)
(* even where nobody was asked. Mutant: the preset is the snapshot's.           *)
SnapshotPreset(c) == calls[c].preset
finalPreset(c) == IF calls[c].read THEN calls[c].preset ELSE settings.preset

Runs(c) ==
  LET tool == canonicalToolName(calls[c].name) IN
  /\ calls[c].phase \in {"gated", "asking"}
  /\ \E granted \in BOOLEAN :
       IF calls[c].agent /\ ~(granted /\ globalAllows(finalPreset(c), tool))
       THEN Over(c, "blocked", 1)
       ELSE IF calls[c].read /\ calls[c].route # route
       THEN Over(c, "failed", 0)
       ELSE calls' = [calls EXCEPT ![c].phase = "running"]
  /\ UNCHANGED <<clock, settings, copy, slots, passed, route>>

(* The handler comes back: what it says belongs to the account only while that  *)
(* is still the one it was routed to. A tool's failure has its row in the       *)
(* catch, everything else in the finally; a read that passed has none.          *)
(* Mutant: the finally writes a second row for a failure.                       *)
isCurrentAccountRoute(c) == calls[c].route = route

RowsTwice(c, result) == IF calls[c].read THEN 0 ELSE IF result = "failed" THEN 2 * Row(c) ELSE Row(c)
RowsOf(c, result) == IF calls[c].read THEN 0 ELSE Row(c)

Ends(c, result) ==
  /\ calls[c].phase = "running"
  /\ LET told == IF result # "failed" /\ ~isCurrentAccountRoute(c) THEN "discarded" ELSE result
     IN  Over(c, told, RowsOf(c, told))
  /\ UNCHANGED <<clock, settings, copy, slots, passed, route>>

------------------------------------------------------------------------------
(* Around it                                                                    *)

Saves(preset, on) ==
  /\ settings.saves < MaxSaves
  /\ settings' = [preset |-> preset, on |-> on, saves |-> settings.saves + 1]
  /\ UNCHANGED <<clock, copy, slots, passed, route, calls>>

Passes ==
  /\ clock < MaxTime /\ clock' = clock + 1
  /\ UNCHANGED <<settings, copy, slots, passed, route, calls>>

Repointed ==
  /\ route < MaxRoutes /\ route' = route + 1
  /\ UNCHANGED <<clock, settings, copy, slots, passed, calls>>

CGNext ==
  \/ Passes \/ Repointed
  \/ \E preset \in Presets, on \in BOOLEAN : Saves(preset, on)
  \/ \E c \in Calls :
       \/ \E name \in ToolNames, agent, read \in BOOLEAN : Comes(c, name, agent, read)
       \/ Gated(c) \/ Asks(c) \/ Cancelled(c) \/ Runs(c)
       \/ \E result \in {"answered", "errored", "failed"} : Ends(c, result)

CGSpec == CGInit /\ [][CGNext]_gate_vars

------------------------------------------------------------------------------
(* Properties.                                                                  *)

(* However a call of an agent ends, it has left at most one audit row, exactly  *)
(* one if its tool ran; and however its names are mixed, a tool was let through *)
(* no more than RATE times in any window.                                       *)
CallsAccounted ==
  /\ \A c \in Calls :
       /\ calls[c].rows <= Row(c)
       /\ calls[c].phase = "over" /\ ~calls[c].read /\ calls[c].result \in {"answered", "errored", "failed", "discarded"}
            => calls[c].rows = Row(c)
  /\ \A t \in CanonicalTools, from \in 0..MaxTime :
       Cardinality({at \in passed[t] : from <= at[1] /\ at[1] < from + PER}) <= RATE

(* No step starts an agent's tool that the preset saved last does not allow,    *)
(* however long the user took to confirm it, and none answers a call with mail  *)
(* of an account other than the one its id means by then.                       *)
GateStep ==
  \A c \in Calls :
    /\ calls'[c].phase = "running" /\ calls[c].phase # "running" /\ calls[c].agent /\ ~calls[c].read
         => globalAllows(settings.preset, canonicalToolName(calls[c].name))
    /\ calls'[c].result = "answered" /\ calls[c].result # "answered" => calls[c].route = route
NothingPastTheGate == [][GateStep]_gate_vars

==============================================================================
