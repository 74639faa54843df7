---------------------------- MODULE SettingsServer ---------------------------
(* The settings server's gates and the pages it serves: the steps of both, in   *)
(* any order.                                                                   *)
EXTENDS SettingsAccess, SettingsPage

SSSpec == SASpec /\ SPSpec

(* No form filled before a reset is stored after it, and nothing is changed     *)
(* without a session of this process, nor by a client beyond its limit.         *)
SettingsHold == GatesHold /\ FormsFenced

==============================================================================
