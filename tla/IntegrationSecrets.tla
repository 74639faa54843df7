-------------------------- MODULE IntegrationSecrets --------------------------
(* The secrets of the Proton Pass and SimpleLogin integrations.  Each lives in  *)
(* the OS keychain or, where that cannot be used, in the configuration file;    *)
(* the daemon's clients hold what they read there last.  Settings requests save *)
(* and clear them, a reset clears everything, and each of these steps can fail  *)
(* half way or be cut off by a crash.                                           *)
EXTENDS Integers, FiniteSets

CONSTANTS
  SettingsCalls,   \* numbered from 1; call n saves the value n + 1
  KeychainLeaves,  \* whether the keychain may become unusable, and usable again
  MaxLeaves,       \* bound: how often it does
  MaxCrashes       \* bound

ASSUME SecretsAssumption == SettingsCalls \subseteq Nat \ {0}

Secrets == {"pass", "simplelogin"}
Vacant == 0
Daemon == 0        \* does the work of a start
NoCaller == -1
Anyone == {Daemon} \cup SettingsCalls
Unpromised == -1   \* nothing is promised about a secret
Empty == [s \in Secrets |-> Vacant]

VARIABLES
  conf,            \* connection.passAccessToken and .simpleloginApiKey
  storageHint,     \* the persisted credentialStorage
  otherPlaintext,  \* whether the mailbox password is in the configuration
  quarantined,     \* keychainAuxiliaryCredentialsQuarantined
  resetGeneration,
  keychain, keychainUp,
  secretsInUse,    \* what the daemon's clients hold
  refreshGeneration, \* whose refresh is the newest
  call,            \* the settings calls, and the daemon's start
  writer,          \* who has the configuration lock
  promised,        \* history: what the answers so far say of each secret
  changedBy,       \* history: the last call that changed it
  leaves, crashes  \* of the bounds

secret_files == <<conf, storageHint, otherPlaintext, quarantined, resetGeneration, keychain>>
is_vars == <<secret_files, keychainUp, secretsInUse, refreshGeneration, call, writer,
             promised, changedBy, leaves, crashes>>

NoCall == [pc |-> "idle", saves |-> {}, clears |-> {}, seen |-> 0, cleared |-> {}, stored |-> FALSE, found |-> Empty]

(* A daemon starts with its secrets in the keychain or in the configuration.    *)
ISInit ==
  /\ keychainUp \in BOOLEAN /\ otherPlaintext \in BOOLEAN
  /\ \E s \in Secrets : keychain = IF keychainUp THEN [Empty EXCEPT ![s] = 1] ELSE Empty
  /\ \E s \in Secrets : conf \in {Empty, [Empty EXCEPT ![s] = 1]} /\ keychain[s] = Vacant
  /\ storageHint = IF keychainUp THEN "keychain" ELSE "config"
  /\ quarantined = {} /\ resetGeneration = 0
  /\ secretsInUse = Empty /\ refreshGeneration = Daemon
  /\ call = [c \in Anyone |-> IF c = Daemon THEN [NoCall EXCEPT !.pc = "migrate"] ELSE NoCall]
  /\ writer = Daemon
  /\ promised = [s \in Secrets |-> Unpromised] /\ changedBy = [s \in Secrets |-> NoCaller]
  /\ leaves = 0 /\ crashes = 0

(* loadConfig derives where the credentials are from what it finds.             *)
Storage == IF otherPlaintext \/ conf # Empty THEN "config" ELSE storageHint

(* loadAuxiliaryCredentialsFromKeychain                                         *)
Loaded ==
  [s \in Secrets |-> IF s \in quarantined THEN Vacant
                     ELSE IF conf[s] = Vacant /\ keychainUp THEN keychain[s] ELSE conf[s]]

Proceeds(c, pc) == call' = [call EXCEPT ![c].pc = pc]
Fixed == UNCHANGED <<keychainUp, leaves, crashes>>
History == UNCHANGED <<promised, changedBy>>

(* A batch goes to the keychain one entry after the other: a failing one leaves *)
(* those before it changed.                                                     *)
Batch(S, ok, done) ==
  IF ok THEN keychainUp /\ done = S
  ELSE done \in {{}, S \cap {"pass"}} /\ (done # {} => keychainUp /\ "simplelogin" \in S)
Stored(S, new) == keychain' = [s \in Secrets |-> IF s \in S THEN new ELSE keychain[s]]

(* disableAuxiliaryServices: a refresh under way finds itself superseded.       *)
(* Mutant: it does not.                                                         *)
DisabledInPlace(c) == secretsInUse' = Empty /\ UNCHANGED refreshGeneration
Disabled(c) == secretsInUse' = Empty /\ refreshGeneration' = c

Promise(S, c) == promised' = [s \in Secrets |-> IF s \in S /\ changedBy[s] = c
                                                THEN IF s \in call[c].saves THEN c + 1 ELSE Vacant
                                                ELSE promised[s]]

------------------------------------------------------------------------------
(* POST /api/config                                                             *)

Submit(c) ==
  /\ call[c].pc = "idle" /\ call[Daemon].pc = "done"
  /\ \E saves, clears \in SUBSET Secrets :
       /\ saves \cap clears = {}
       /\ call' = [call EXCEPT ![c] = [NoCall EXCEPT !.pc = "queued", !.saves = saves, !.clears = clears,
                                                   !.seen = resetGeneration]]
  /\ UNCHANGED <<secret_files, secretsInUse, refreshGeneration, writer>> /\ History /\ Fixed

(* The lock is taken; a form loaded before a reset is refused.                  *)
Admit(c) ==
  /\ call[c].pc = "queued" /\ writer = NoCaller
  /\ LET touched == call[c].saves \cup call[c].clears
     IN  IF call[c].seen # resetGeneration
         THEN Proceeds(c, "done") /\ UNCHANGED writer /\ History
         ELSE /\ Proceeds(c, "clear") /\ writer' = c
              /\ promised' = [s \in Secrets |-> IF s \in touched THEN Unpromised ELSE promised[s]]
              /\ changedBy' = [s \in Secrets |-> IF s \in touched THEN c ELSE changedBy[s]]
  /\ UNCHANGED <<secret_files, secretsInUse, refreshGeneration>> /\ Fixed

(* The secrets S are in doubt: they are put in quarantine, the clients are      *)
(* disabled, and the request fails.                                             *)
FailInDoubt(c, S) ==
  /\ quarantined' = quarantined \cup S
  /\ storageHint' = Storage
  /\ Disabled(c)
  /\ call' = [call EXCEPT ![c].pc = "done"] /\ writer' = NoCaller
  /\ promised' = [s \in Secrets |-> IF s \in S THEN Vacant ELSE promised[s]]

(* What only the configuration holds is cleared there.                          *)
InDoubtAfterClear(S) ==
  \/ \E s \in S : conf[s] = Vacant
  \/ keychainUp \/ Storage = "keychain" \/ S \cap quarantined # {}

ClearBatch(c) ==
  /\ call[c].pc = "clear"
  /\ LET S == call[c].clears
         goOn == UNCHANGED <<quarantined, storageHint, secretsInUse, refreshGeneration, writer, promised>>
     IN  \/ S = {} /\ Proceeds(c, "save") /\ goOn /\ UNCHANGED keychain
         \/ \E ok \in BOOLEAN, done \in SUBSET S :
              /\ S # {} /\ Batch(S, ok, done) /\ Stored(done, Vacant)
              /\ IF ~ok /\ InDoubtAfterClear(S) THEN FailInDoubt(c, S)
                 ELSE call' = [call EXCEPT ![c].pc = "save", ![c].cleared = IF ok THEN S ELSE {}] /\ goOn
  /\ UNCHANGED <<conf, otherPlaintext, resetGeneration, changedBy>> /\ Fixed

InDoubtAfterSave(S) == keychainUp \/ Storage = "keychain" \/ S \cap quarantined # {}

Save(c) ==
  /\ call[c].pc = "save"
  /\ LET S == call[c].saves
         goOn == UNCHANGED <<quarantined, storageHint, secretsInUse, refreshGeneration, writer, promised>>
     IN  \/ S = {} /\ Proceeds(c, "commit") /\ goOn /\ UNCHANGED keychain
         \/ \E ok \in BOOLEAN, done \in SUBSET S :
              /\ S # {} /\ Batch(S, ok, done) /\ Stored(done, c + 1)
              /\ IF ~ok /\ InDoubtAfterSave(S) THEN FailInDoubt(c, S)
                 ELSE /\ call' = [call EXCEPT ![c].pc = "commit", ![c].stored = ok,
                                              ![c].cleared = IF ok THEN @ \cup S ELSE @]
                      /\ goOn
  /\ UNCHANGED <<conf, otherPlaintext, resetGeneration, changedBy>> /\ Fixed

(* applySettingsConfigPatch and saveConfig, and the lock is left.               *)
Commit(c) ==
  /\ call[c].pc = "commit"
  /\ conf' = [s \in Secrets |-> IF s \in call[c].clears THEN Vacant
                                ELSE IF s \in call[c].saves THEN IF call[c].stored THEN Vacant ELSE c + 1
                                ELSE conf[s]]
  /\ quarantined' = quarantined \ call[c].cleared
  /\ storageHint' = IF call[c].stored THEN "keychain" ELSE Storage
  /\ Proceeds(c, "refresh") /\ writer' = NoCaller
  /\ UNCHANGED <<otherPlaintext, resetGeneration, keychain, secretsInUse, refreshGeneration>>
  /\ History /\ Fixed

(* refreshAuxiliaryServicesFromConfig: it reads what is stored after a while    *)
(* and gives it to new clients unless a newer refresh or a disable came between.*)
Refresh(c) ==
  /\ call[c].pc = "refresh"
  /\ refreshGeneration' = c
  /\ Proceeds(c, "reading")
  /\ UNCHANGED <<secret_files, secretsInUse, writer>> /\ History /\ Fixed

LoadStored(c) ==
  /\ call[c].pc = "reading"
  /\ call' = [call EXCEPT ![c].pc = "read", ![c].found = Loaded]
  /\ UNCHANGED <<secret_files, secretsInUse, refreshGeneration, writer>> /\ History /\ Fixed

ServicesRefreshed(c) ==
  /\ call[c].pc = "read"
  /\ secretsInUse' = IF refreshGeneration = c THEN call[c].found ELSE secretsInUse
  /\ Proceeds(c, "done")
  /\ Promise(Secrets, c)
  /\ UNCHANGED <<secret_files, refreshGeneration, writer, changedBy>> /\ Fixed

------------------------------------------------------------------------------
(* POST /api/reset                                                              *)

Reset(c) ==
  /\ call[c].pc = "idle" /\ call[Daemon].pc = "done" /\ writer = NoCaller
  /\ \E ok \in BOOLEAN, done \in SUBSET Secrets :
       /\ Batch(Secrets, ok, done) /\ Stored(done, Vacant)
       /\ quarantined' = IF ok THEN {} ELSE Secrets
  /\ conf' = Empty /\ otherPlaintext' = FALSE /\ storageHint' = "config"
  /\ resetGeneration' = resetGeneration + 1
  /\ promised' = [s \in Secrets |-> Unpromised] /\ changedBy' = [s \in Secrets |-> c]
  /\ Proceeds(c, "disable")
  /\ UNCHANGED <<secretsInUse, refreshGeneration, writer>> /\ Fixed

DisableAfterReset(c) ==
  /\ call[c].pc = "disable"
  /\ Disabled(c)
  /\ Proceeds(c, "done")
  /\ Promise(Secrets, c)
  /\ UNCHANGED <<secret_files, writer, changedBy>> /\ Fixed

------------------------------------------------------------------------------
(* The daemon starts: migrateCredentials moves plaintext to the keychain when   *)
(* there is a mailbox password to move, and a refresh follows.                  *)
Migrate ==
  /\ call[Daemon].pc = "migrate"
  /\ LET S == {s \in Secrets : conf[s] # Vacant}
     IN  IF ~otherPlaintext THEN UNCHANGED <<conf, keychain, storageHint>>
         ELSE \E ok \in BOOLEAN, done \in SUBSET S :
                /\ Batch(S, ok, done)
                /\ keychain' = [s \in Secrets |-> IF s \in done THEN conf[s] ELSE keychain[s]]
                /\ conf' = IF ok THEN Empty ELSE conf
                /\ storageHint' \in IF conf' # Empty THEN {"config"}
                                    ELSE {"encrypted-file"} \cup IF keychainUp THEN {"keychain"} ELSE {}
  /\ otherPlaintext' = FALSE
  /\ Proceeds(Daemon, "refresh") /\ writer' = NoCaller
  /\ UNCHANGED <<quarantined, resetGeneration, secretsInUse, refreshGeneration>>
  /\ History /\ Fixed

(* Whatever ran is gone; the files stay as they are.                            *)
DaemonCrashes ==
  /\ crashes < MaxCrashes
  /\ crashes' = crashes + 1
  /\ call' = [c \in Anyone |-> IF c = Daemon THEN [NoCall EXCEPT !.pc = "migrate"]
                               ELSE IF call[c].pc = "idle" THEN NoCall ELSE [NoCall EXCEPT !.pc = "done"]]
  /\ writer' = Daemon
  /\ secretsInUse' = Empty /\ refreshGeneration' = Daemon
  /\ UNCHANGED <<secret_files, keychainUp, leaves>> /\ History

Leaves ==
  /\ KeychainLeaves /\ leaves < MaxLeaves
  /\ leaves' = leaves + 1 /\ keychainUp' = ~keychainUp
  /\ UNCHANGED <<secret_files, secretsInUse, refreshGeneration, call, writer, crashes>> /\ History

ISNext ==
  \/ \E c \in SettingsCalls :
       Submit(c) \/ Admit(c) \/ ClearBatch(c) \/ Save(c) \/ Commit(c) \/ Reset(c) \/ DisableAfterReset(c)
  \/ \E c \in Anyone : Refresh(c) \/ LoadStored(c) \/ ServicesRefreshed(c)
  \/ Migrate \/ DaemonCrashes \/ Leaves

ISSpec == ISInit /\ [][ISNext]_is_vars

------------------------------------------------------------------------------
(* Properties.                                                                  *)

(* A client never works with another secret than the last answer said: after a  *)
(* clear, a reset or a failed request none, after a save the new one or none,   *)
(* unless a newer refresh is still reading; and the next start will find just   *)
(* what was promised.                                                           *)
Refreshing == call[refreshGeneration].pc \in {"reading", "read"}
ServedAsPromised ==
  \A s \in Secrets : promised[s] # Unpromised =>
    /\ secretsInUse[s] \in {Vacant, promised[s]} \/ Refreshing
    /\ Loaded[s] = promised[s] \/ (~keychainUp /\ Loaded[s] = Vacant)

==============================================================================
