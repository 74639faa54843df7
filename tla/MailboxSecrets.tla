--------------------------- MODULE MailboxSecrets ----------------------------
(* Where one account's password and SMTP token are: the keychain's entry of the *)
(* account, the entry older versions shared, the account in the configuration,  *)
(* or the top-level connection, in the open or encrypted. The start of a daemon *)
(* migrates them, saves and resets of the settings move them, the manager loads *)
(* them; any keychain write can fail for one of the two, and any of it can be   *)
(* cut off by a crash.                                                          *)
EXTENDS Integers

CONSTANTS
  Settings,         \* numbered from 1; request n saves the value n + 1
  LegacyInstall,    \* the first start finds credentials of an older version
  MayReset,         \* whether the configuration is reset
  MaxOutages, MaxDaemonDeaths   \* bounds: changes of the keychain, crashes

ASSUME MailboxAssumption == Settings \subseteq Nat \ {0}

Fields == {"password", "smtpToken"}
NoSecret == 0
Blanks == [f \in Fields |-> NoSecret]
Unknown == -1       \* nothing is promised about a field
Unlocked == 0
Starter == -1       \* the daemon's migration, as the holder of the lock

VARIABLES
  profile,    \* on disk: connection in the open and encrypted, account, quarantine
  entries,    \* the keychain: the account's own entries, and those once shared
  reachable,  \* whether the keychain can be used
  configLock, \* who has the configuration lock
  starting,   \* the daemon: where its start or its rebuild is, and what it found
  saving,     \* the requests to the settings server
  inService,  \* what the manager gave the account's services
  suspended,  \* keychainHydrationSuspended
  due,        \* history: what was last saved, as the answers say
  outages, deaths

ms_vars == <<profile, entries, reachable, configLock, starting, saving, inService, suspended, due, outages, deaths>>
history == <<outages, deaths>>

NotSaving == [at |-> "none", new |-> {}, to |-> Blanks]
Off == [at |-> "down", found |-> Blanks, quarantined |-> FALSE]

MSInit ==
  /\ reachable \in BOOLEAN
  /\ profile = [conn |-> IF LegacyInstall THEN [f \in Fields |-> 1] ELSE Blanks, blob |-> Blanks,
                listed |-> ~LegacyInstall, quarantined |-> FALSE,
                acct |-> IF LegacyInstall \/ reachable THEN Blanks ELSE [f \in Fields |-> 1]]
  /\ entries = [own |-> IF LegacyInstall \/ ~reachable THEN Blanks ELSE [f \in Fields |-> 1], shared |-> Blanks]
  /\ configLock = Unlocked /\ starting = Off
  /\ saving = [r \in Settings |-> NotSaving]
  /\ inService = Blanks /\ suspended = FALSE
  /\ due = [f \in Fields |-> 1]
  /\ outages = 0 /\ deaths = 0

Filled(values) == {f \in Fields : values[f] # NoSecret}
With(values, fs, others) == [f \in Fields |-> IF f \in fs THEN others[f] ELSE values[f]]
Stores(values) == IF reachable THEN SUBSET Filled(values) ELSE {{}}

------------------------------------------------------------------------------
(* migrateCredentials(): what stands in the open goes to the shared entries,    *)
(* and what these do not take is encrypted in the same save.                    *)

Migrates == Filled(profile.conn) # {} /\ Filled(profile.blob) = {}

StartDaemon ==
  /\ starting.at = "down" /\ configLock = Unlocked
  /\ IF Migrates
     THEN \E stored \in Stores(profile.conn) :
            /\ entries' = [entries EXCEPT !.shared = With(@, stored, profile.conn)]
            /\ configLock' = Starter
            /\ starting' = [Off EXCEPT !.at = "migrating", !.found = With(profile.conn, stored, Blanks)]
     ELSE starting' = [Off EXCEPT !.at = "idle"] /\ UNCHANGED <<entries, configLock>>
  /\ UNCHANGED <<profile, reachable, saving, inService, suspended, due, history>>

MigrateSave ==
  /\ starting.at = "migrating"
  /\ profile' = [profile EXCEPT !.conn = Blanks, !.blob = starting.found]
  /\ configLock' = Unlocked
  /\ starting' = [Off EXCEPT !.at = "asked"]
  /\ UNCHANGED <<entries, reachable, saving, inService, suspended, due, history>>

------------------------------------------------------------------------------
(* rebuildFromRegistryAsync(): the registry's file, then the keychain, each     *)
(* field for itself; a rebuild asked for meanwhile makes this one start over.   *)

Registry == IF profile.listed THEN profile.acct ELSE profile.conn

ReadAccounts ==
  /\ starting.at \in {"idle", "asked"}
  /\ starting' = [at |-> "hydrating", found |-> Registry, quarantined |-> profile.quarantined \/ suspended]
  /\ UNCHANGED <<profile, entries, reachable, configLock, saving, inService, suspended, due, history>>

Hydrated(f, found) ==
  IF found[f] # NoSecret THEN found[f] ELSE IF entries.own[f] # NoSecret THEN entries.own[f] ELSE entries.shared[f]

Hydrate ==
  /\ starting.at = "hydrating"
  /\ inService' = IF starting.quarantined \/ ~reachable THEN starting.found
                ELSE [f \in Fields |-> Hydrated(f, starting.found)]
  /\ starting' = [Off EXCEPT !.at = "up"]
  /\ UNCHANGED <<profile, entries, reachable, configLock, saving, suspended, due, history>>

(* What the start and a check of the connections read instead: the connection's *)
(* encrypted field, its open one, then the shared entry.                        *)
loadMailboxCredentials(f) ==
  IF profile.blob[f] # NoSecret THEN profile.blob[f]
  ELSE IF profile.conn[f] # NoSecret THEN profile.conn[f]
  ELSE IF profile.quarantined \/ ~reachable THEN NoSecret ELSE entries.shared[f]

AgainIfUp == IF starting.at \in {"down", "migrating"} THEN starting ELSE [Off EXCEPT !.at = "asked"]

------------------------------------------------------------------------------
(* A save of an account, from the Setup tab or the Accounts tab: writeRegistry()*)
(* puts every credential it knows into the account's entries and keeps in the   *)
(* file those that these did not take.                                          *)

Merged(r, new) == [f \in Fields |-> IF f \in new THEN r + 1 ELSE Registry[f]]
Kept(values, stored) == With(values, stored, Blanks)

SaveAccount(r, new) ==
  /\ saving[r].at = "none" /\ configLock = Unlocked
  /\ configLock' = r
  /\ \E stored \in Stores(Merged(r, new)) :
       /\ entries' = [entries EXCEPT !.own = With(@, stored, Merged(r, new))]
       /\ saving' = [saving EXCEPT ![r] = [at |-> "account", new |-> new, to |-> Kept(Merged(r, new), stored)]]
  /\ due' = With(due, new, [f \in Fields |-> Unknown])
  /\ UNCHANGED <<profile, reachable, starting, inService, suspended, history>>

(* Saved and answered; or the save fails, and the answer says so.               *)
AccountSaved(r, dropBlobs) ==
  /\ saving[r].at = "account"
  /\ profile' = [profile EXCEPT !.listed = TRUE, !.acct = saving[r].to, !.conn = Blanks,
                                !.blob = IF dropBlobs THEN Blanks ELSE @]
  /\ configLock' = Unlocked
  /\ due' = With(due, saving[r].new, [f \in Fields |-> r + 1])
  /\ saving' = [saving EXCEPT ![r] = [NotSaving EXCEPT !.at = "answered"]]
  /\ starting' = AgainIfUp
  /\ UNCHANGED <<entries, reachable, inService, suspended, history>>

NotSaved(r) ==
  /\ saving[r].at \in {"account", "reset"}
  /\ configLock' = Unlocked
  /\ saving' = [saving EXCEPT ![r] = [NotSaving EXCEPT !.at = "answered"]]
  /\ UNCHANGED <<profile, entries, reachable, starting, inService, suspended, due, history>>

------------------------------------------------------------------------------
(* resetConfiguration(): every entry is deleted, or the profile is quarantined. *)

(* The shared entries are deleted in turn and stop at the first failure; the    *)
(* account's each for itself.                                                   *)
ResetKeychain(r) ==
  /\ MayReset /\ saving[r].at = "none" /\ configLock = Unlocked
  /\ configLock' = r
  /\ \E kept \in SUBSET Fields, shared \in {{}, {"smtpToken"}, Fields} :
       /\ ~reachable => kept = Fields /\ shared = Fields
       /\ entries' = [own |-> With(Blanks, kept, entries.own), shared |-> With(Blanks, shared, entries.shared)]
       /\ saving' = [saving EXCEPT ![r] = [at |-> "reset", new |-> kept \cup shared, to |-> Blanks]]
  /\ due' = [f \in Fields |-> Unknown]
  /\ UNCHANGED <<profile, reachable, starting, inService, suspended, history>>

Quarantines(failed) == failed # {}

ResetSaved(r) ==
  /\ saving[r].at = "reset"
  /\ profile' = [conn |-> Blanks, blob |-> Blanks, listed |-> FALSE, acct |-> Blanks,
                 quarantined |-> Quarantines(saving[r].new)]
  /\ configLock' = Unlocked
  /\ due' = Blanks
  /\ saving' = [saving EXCEPT ![r] = [NotSaving EXCEPT !.at = "answered"]]
  /\ IF saving[r].new # {} /\ starting.at \notin {"down", "migrating"}
     THEN suspended' = TRUE /\ inService' = Blanks /\ starting' = [Off EXCEPT !.at = "up"]
     ELSE starting' = AgainIfUp /\ UNCHANGED <<suspended, inService>>
  /\ UNCHANGED <<entries, reachable, history>>

------------------------------------------------------------------------------
(* Around it                                                                    *)

KeychainTurns ==
  /\ outages < MaxOutages
  /\ outages' = outages + 1 /\ reachable' = ~reachable
  /\ UNCHANGED <<profile, entries, configLock, starting, saving, inService, suspended, due, deaths>>

(* The daemon holds the settings server: all of it dies at once.                *)
AllDies ==
  /\ deaths < MaxDaemonDeaths /\ starting.at # "down"
  /\ deaths' = deaths + 1
  /\ starting' = Off /\ inService' = Blanks /\ suspended' = FALSE /\ configLock' = Unlocked
  /\ saving' = [r \in Settings |-> IF saving[r].at = "none" THEN NotSaving ELSE [NotSaving EXCEPT !.at = "answered"]]
  /\ UNCHANGED <<profile, entries, reachable, due, outages>>

MSNext ==
  \/ StartDaemon \/ MigrateSave \/ ReadAccounts \/ Hydrate \/ KeychainTurns \/ AllDies
  \/ \E r \in Settings :
       \/ starting.at \notin {"down", "migrating"} /\ \E new \in SUBSET Fields : SaveAccount(r, new)
       \/ \E dropBlobs \in BOOLEAN : AccountSaved(r, dropBlobs)
       \/ NotSaved(r)
       \/ starting.at \notin {"down", "migrating"} /\ ResetKeychain(r)
       \/ ResetSaved(r)

MSSpec == MSInit /\ [][MSNext]_ms_vars

------------------------------------------------------------------------------
(* Properties.                                                                  *)

(* Once a save or a reset is answered and the manager has caught up with it,    *)
(* the services never get an older credential than the one saved, whichever     *)
(* copies of it the keychain and the file still have: it or none; and what a    *)
(* reset could not delete is found by no check of the connections either.       *)
NeverAnOlderSecret ==
  \A f \in Fields :
    /\ starting.at = "up" => due[f] = Unknown \/ inService[f] \in {NoSecret, due[f]}
    /\ due[f] = NoSecret => loadMailboxCredentials(f) = NoSecret

(* And unless the keychain came or went meanwhile, it is that one. Withheld are *)
(* those of a quarantined profile, and what was there before the migration: the *)
(* manager never reads what that encrypted.                                     *)
Withheld(f) == profile.quarantined \/ suspended \/ (LegacyInstall /\ due[f] = 1)
Served(f) == due[f] = Unknown \/ inService[f] = due[f]
SavedSecretServed ==
  starting.at = "up" /\ outages = 0 => \A f \in Fields : Served(f) \/ Withheld(f)

(* What stood in the configuration before the migration reaches the services    *)
(* after it: a keychain miss falls back to the existing value.                  *)
MigrationUnaffecting ==
  starting.at = "up" /\ outages = 0 => \A f \in Fields : Served(f)

==============================================================================
