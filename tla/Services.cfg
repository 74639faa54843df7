SPECIFICATION ServicesSpec
CONSTANTS
  Procs = {p1, p2, p3} Mortal = {p1, p2} MaxStarts = 3
  Callers = {"ann", "bob"} CAPACITY = 3 REFILL = 1 MAX_IDLE = 3 MaxIdleSeen = 5
  Clients = {"ann", "bob"} Requests = {1, 2} MaxSessions = 2
  Endpoints = {"a", "b"} PrivateLiterals = {"b"} MAX_ATTEMPTS = 2 MaxEvents = 2 MaxMoves = 2
  \* Escalation
  Consoles = {"browser_ui", "terminal_tui"} EXPIRY = 1 HOUR = 2 RATE_LIMIT = 2
  MAX_HISTORY = 2 ToolLimit = 1 MaxAsked = 3 MaxPresetSaves = 1
  \* Daemon and BridgeWatchdog
  Instances = {1, 2} Pids = {2, 3, 4} MaxBoots = 4 LateRebuild = FALSE
  Routes = {1, 2} BRIDGE_MAX_RESTARTS = 2 Ticks = {1, 2} MaxChanges = 4
  \* SettingsAccess and SettingsPage
  Browsers = {"one", "two"} LIMIT = 2 WINDOW = 2 MAX_BUCKETS = 1 TTL = 1 MAX_SESSIONS = 1
  MaxNow = 3 MaxIssued = 2 MaxProcesses = 2
  Tabs = {"one", "two"} Mailboxes = {"work"} Primary = "primary"
  MaxResets = 1 MaxSaves = 3 MaxFetches = 2 MaxRestarts = 1
  \* IntegrationSecrets and MailboxSecrets
  SettingsCalls = {1, 2} KeychainLeaves = FALSE MaxLeaves = 0 MaxCrashes = 1
  Settings = {1, 2} LegacyInstall = TRUE MayReset = TRUE MaxOutages = 1 MaxDaemonDeaths = 1
  \* ImprovementLoop and PassAudit
  Terminals = {"a", "b"} Items = {1, 2} Lists <- OneList Passing <- TwoChecks
  MaxTransitions = 7 MaxEdits = 1 MaxKills = 1 MaxTampers = 1
  PassCalls = {1, 2, 3} MaxClients = 2 MaxMishaps = 1
INVARIANTS MutualExclusion SecretsHold PermissionsHold WebhooksHold DrivenByOwner RateHeld  SettingsHold 
CHECK_DEADLOCK FALSE
