SPECIFICATION ToolCallsSpec
CONSTANTS
  imap = imap
  smtp = smtp
  mover = mover
  replier = replier
  sender = sender
  Requests <- Callers
  Background = {mover}
  Scopes = {imap, smtp}
  Smtp = {smtp}
  Routes <- Uses
  Lanes = {l1}
  MaxSent <- ToolSends
  Calls = {1, 2}
  Aliases = {"bulk_delete", "bulk_delete_emails"}
  Plain = "get_emails"
  RATE = 1
  PER = 2
  CACHE_FOR = 1
  MaxTime = 2
  MaxSaves = 1
  MaxRoutes = 2
  Spellings <- Strings
  Lists <- Searches
  Allowlists <- Grants
  Mailboxes <- Folders
  SpecialPaths <- Trashes
  Small <- Lowercase
INVARIANTS HonestOutcomes  FolderScopeHolds
PROPERTIES NoLateWrite NothingPastTheGate
CHECK_DEADLOCK FALSE
