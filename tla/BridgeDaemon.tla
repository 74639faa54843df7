---------------------------- MODULE BridgeDaemon -----------------------------
(* The processes that serve a profile and the watchdog that one of them runs:   *)
(* the steps of both, in any order.                                             *)
EXTENDS Daemon, BridgeWatchdog

BDSpec == DMSpec /\ WDSpec

(* At most one process is connected to the mailboxes of the profile, and its    *)
(* watchdog launches Bridge for the active account only and a bounded number of *)
(* times in a row.                                                              *)
DaemonHolds == OneConnects /\ LaunchesBounded

==============================================================================
