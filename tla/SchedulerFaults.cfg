SPECIFICATION CalmSpec
CONSTANTS
  Items = {i1, i2}
  Accounts = {a}
  Identities = {1}
  Edited = {}
  MaxRetries = 3
  Legacy = {i1}
  WriteFaults = TRUE
  ReadFaults = FALSE
  LossyReplies = FALSE
  NoAccount = NoAccount
  NoItem = NoItem
 
PROPERTIES  EveryEmailSettles KeepsPromise
