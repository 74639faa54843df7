SPECIFICATION ISSpec
CONSTANTS SettingsCalls = {1, 2} KeychainLeaves = TRUE MaxLeaves = 2 MaxCrashes = 0
INVARIANT ServedAsPromised
CHECK_DEADLOCK FALSE
