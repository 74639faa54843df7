--------------------------- MODULE BridgeWatchdog ---------------------------
(* The watchdog that launches Proton Bridge when its ports do not answer: a     *)
(* timer whose callbacks may overlap and outlive it, the route of the active    *)
(* account they were started for, and a limit to the launches in a row.         *)
EXTENDS Naturals, FiniteSets

CONSTANTS
  Routes,               \* of active accounts that have auto-start on, all > 0
  BRIDGE_MAX_RESTARTS,
  Ticks,                \* callbacks of the timer that may run at a time
  MaxChanges            \* bound: changes of the active account, and of Bridge

NoRoute == 0
ASSUME WatchdogAssumption ==
  /\ BRIDGE_MAX_RESTARTS \in Nat \ {0} /\ NoRoute \notin Routes
  /\ Routes \subseteq Nat /\ MaxChanges \in Nat
NoTick == [at |-> "idle", generation |-> 0, route |-> NoRoute]

VARIABLES
  active,       \* the active account's route now, NoRoute without auto-start
  tracked,      \* the route reconciled last
  timer,        \* the interval is set
  generation,   \* of the watchdog
  attempts,     \* bridgeRestartAttempts
  tick,         \* the callbacks: how far each is, for which watchdog and route
  bridge,       \* Bridge's ports answer
  stopping,     \* the process is shutting down
  row,          \* history: launches since Bridge was last seen or the route changed
  astray,       \* history: a launch for a route no longer active
  changes       \* of the bound

wd_vars == <<active, tracked, timer, generation, attempts, tick, bridge, stopping, row, astray, changes>>

WDInit ==
  /\ active \in Routes /\ tracked = NoRoute /\ timer = FALSE /\ generation = 0
  /\ attempts = 0 /\ tick = [t \in Ticks |-> NoTick] /\ bridge = TRUE
  /\ stopping = FALSE /\ row = 0 /\ astray = FALSE /\ changes = 0

Change == changes < MaxChanges /\ changes' = changes + 1
Watch == <<tracked, timer, generation, attempts>>

------------------------------------------------------------------------------
(* The timer                                                                    *)

route == IF stopping THEN NoRoute ELSE active

Differs(next) == next # tracked

reconcileBridgeWatchdog(next) ==
  IF Differs(next)
  THEN /\ tracked' = next
       /\ timer' = (next # NoRoute)
       /\ generation' = generation + (IF next # NoRoute THEN 2 ELSE 1)
       /\ attempts' = 0
  ELSE UNCHANGED Watch

(* Boot has ended, or the accounts were rebuilt or switched.                    *)
Rebuilt(next) ==
  /\ ~stopping /\ Change
  /\ active' = next
  /\ reconcileBridgeWatchdog(next)
  /\ row' = IF next = tracked THEN row ELSE 0
  /\ UNCHANGED <<tick, bridge, stopping, astray>>

stopBridgeWatchdog == timer' = FALSE /\ generation' = generation + 1 /\ attempts' = 0

Shutdown ==
  /\ ~stopping
  /\ stopping' = TRUE
  /\ stopBridgeWatchdog
  /\ UNCHANGED <<active, tracked, tick, bridge, row, astray, changes>>

------------------------------------------------------------------------------
(* A callback                                                                   *)

isCurrentBridgeWatchdog(t) ==
  /\ timer /\ ~stopping
  /\ generation = tick[t].generation
  /\ active = tick[t].route /\ active = tracked

Moves(t, where) == tick' = [tick EXCEPT ![t].at = where]
Done(t) == tick' = [tick EXCEPT ![t] = NoTick]
Env == <<active, bridge, stopping, changes>>

Begin(t) ==
  /\ tick[t] = NoTick /\ timer
  /\ active = tracked /\ ~stopping
  /\ tick' = [tick EXCEPT ![t] = [at |-> "probing", generation |-> generation, route |-> active]]
  /\ UNCHANGED <<Env, Watch, row, astray>>

(* The ports answered, or not within a second.                                  *)
Healthy(t) ==
  /\ attempts' = (IF isCurrentBridgeWatchdog(t) THEN 0 ELSE attempts)
  /\ row' = (IF isCurrentBridgeWatchdog(t) THEN 0 ELSE row)
  /\ Done(t)
  /\ UNCHANGED <<tracked, timer, generation, astray>>

MayLaunch(t) == isCurrentBridgeWatchdog(t)

Launch(t) ==
  IF ~MayLaunch(t) THEN Done(t) /\ UNCHANGED <<Watch, row, astray>>
  ELSE /\ attempts' = IF attempts > BRIDGE_MAX_RESTARTS THEN attempts ELSE attempts + 1
       /\ IF attempts' > BRIDGE_MAX_RESTARTS
          THEN Done(t) /\ UNCHANGED <<row, astray>>
          ELSE /\ Moves(t, "launching")
               /\ row' = row + 1
               /\ astray' = (astray \/ route # tick[t].route)
       /\ UNCHANGED <<tracked, timer, generation>>

Probed(t) ==
  /\ tick[t].at = "probing"
  /\ IF bridge THEN Healthy(t) ELSE Launch(t)
  /\ UNCHANGED Env

(* It was seen within fifteen seconds, or was not; the limit is looked at then. *)
Appeared(t) ==
  /\ tick[t].at = "launching" /\ bridge
  /\ attempts' = 0 /\ row' = 0
  /\ Done(t)
  /\ UNCHANGED <<Env, tracked, timer, generation, astray>>

Missing(t) ==
  /\ tick[t].at = "launching"
  /\ Done(t)
  /\ IF isCurrentBridgeWatchdog(t) /\ attempts >= BRIDGE_MAX_RESTARTS
     THEN stopBridgeWatchdog /\ UNCHANGED tracked
     ELSE UNCHANGED Watch
  /\ UNCHANGED <<Env, row, astray>>

BridgeTurns ==
  /\ Change
  /\ bridge' = ~bridge
  /\ UNCHANGED <<active, Watch, tick, stopping, row, astray>>

WDNext ==
  \/ Shutdown \/ BridgeTurns
  \/ \E next \in Routes \cup {NoRoute} : Rebuilt(next)
  \/ \E t \in Ticks : Begin(t) \/ Probed(t) \/ Appeared(t) \/ Missing(t)

WDSpec == WDInit /\ [][WDNext]_wd_vars

------------------------------------------------------------------------------
(* Properties.                                                                  *)

(* Bridge is never launched for an account that is no longer the active one, or *)
(* no longer wants it, or while shutting down, although the probes and waits    *)
(* take seconds and callbacks overlap; and no more than BRIDGE_MAX_RESTARTS     *)
(* times in a row: a rebuild of the accounts does not forget that it gave up.   *)
LaunchesBounded == ~astray /\ row <= BRIDGE_MAX_RESTARTS

==============================================================================
