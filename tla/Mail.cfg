SPECIFICATION MailSpec
CONSTANTS
  Items = {i1, i2}
  Accounts = {a, b}
  Identities = {1, 2}
  Edited = {a}
  MaxRetries = 1
  Legacy = {i1}
  WriteFaults = TRUE
  ReadFaults = TRUE
  LossyReplies = FALSE
  NoAccount = NoAccount
  NoItem = NoItem
  Readers = {1, 2} MaxMailboxes = 2 MaxVersions = 2 MaxRebinds = 1
  Owners = {1, 2} MailboxIds = {1, 2} MaxReminders = 2 OldRows = {1} MaxTroubles = 3
  Sends = {1, 2} SourceFolders = {"inbox", "archive"} Allowed = {"inbox"} MaxRetires = 2 MaxAbuses = 1
  FolderCalls = {1, 2} Wishes <- FolderWishes MaxUpsets = 2
  System = {"INBOX", "Papelera"} Reserved = {"INBOX", "Trash"}
  Own = {"Folders/Work", "Labels/Work"} Twins = {{"Folders/Work", "Labels/Work"}}
  MailCalls = {1, 2} CallKinds <- CallsOfMailbox Mail = {1, 2} MaxUid = 2 MaxCache = 1
  Budget = 2 IdSets = {{1}, {1, 2}} Sources = {"", "INBOX", "All Mail"}
  Targets = {"Trash", "Labels/Work"}
INVARIANTS  FoldersHold DerivedBelongs NothingForgotten SubmissionHolds
PROPERTIES SentAsMeant LostOnlyFromTrash SurfacesOnce
CHECK_DEADLOCK FALSE
