----------------------------- MODULE MCServices -----------------------------
(* The services around the mail, one at a time: each behaviour is one of one    *)
(* part, from its own initial states, while the rest stands still.  The parts   *)
(* share no state, so nothing is lost by it.                                    *)
EXTENDS FileLock, TokenBucket, HttpSessions, Webhooks, Escalation, BridgeDaemon,
        SettingsServer, SecretsAndRecords

VARIABLE part

services_vars ==
  <<part, vars, tb_vars, http_vars, wh_vars, es_vars, dm_vars, wd_vars, access_vars, page_vars,
    is_vars, ms_vars, loop_vars, pass_vars>>

(* The improvement loop's items and, for each check, what it passes on.         *)
OneList == <<{1, 2}>>
TwoChecks == <<{0}, {0, 1}>>

Parts ==
  {"file_lock", "bucket", "http", "webhooks", "escalation", "daemon", "watchdog", "access", "page",
   "integration", "mailbox_secrets", "loop", "vault"}

ServicesInit ==
  /\ part \in Parts
  /\ Init /\ TBInit /\ HTInit /\ WHInit /\ ESInit /\ DMInit /\ WDInit /\ SAInit /\ SPInit
  /\ ISInit /\ MSInit /\ LoopInit /\ PAInit
  \* one initial state of the parts that stand still
  /\ part # "watchdog" => active = 1
  /\ part # "integration" => conf = Empty /\ ~otherPlaintext /\ ~keychainUp
  /\ part # "mailbox_secrets" => reachable

(* A step of the part, while the variables of the others keep their values.     *)
ServicesNext ==
  /\ UNCHANGED part
  /\ IF part = "file_lock" THEN Next /\ OneReclaimer' ELSE UNCHANGED vars
  /\ IF part = "bucket" THEN TBNext ELSE UNCHANGED tb_vars
  /\ IF part = "http" THEN HTNext ELSE UNCHANGED http_vars
  /\ IF part = "webhooks" THEN WHNext ELSE UNCHANGED wh_vars
  /\ IF part = "escalation" THEN ESNext ELSE UNCHANGED es_vars
  /\ IF part = "daemon" THEN DMNext ELSE UNCHANGED dm_vars
  /\ IF part = "watchdog" THEN WDNext ELSE UNCHANGED wd_vars
  /\ IF part = "access" THEN SANext ELSE UNCHANGED access_vars
  /\ IF part = "page" THEN SPNext ELSE UNCHANGED page_vars
  /\ IF part = "integration" THEN ISNext ELSE UNCHANGED is_vars
  /\ IF part = "mailbox_secrets" THEN MSNext ELSE UNCHANGED ms_vars
  /\ IF part = "loop" THEN LoopNext ELSE UNCHANGED loop_vars
  /\ IF part = "vault" THEN PANext ELSE UNCHANGED pass_vars

ServicesSpec == ServicesInit /\ [][ServicesNext]_services_vars

==============================================================================
