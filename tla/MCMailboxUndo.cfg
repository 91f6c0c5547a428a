SPECIFICATION MailboxSpec
CONSTANTS
  Uids = {1}
  HomeOf <- OneInbox
  Runs = {"gui"}
  HasMove = TRUE
  HasUidPlus = TRUE
  Refuses = FALSE
  MAX_PENDING_ATTEMPTS = 2
  MaxBatches = 1
  MaxCrashes = 0
  MaxOther = 0
  MaxRebuilds = 0
  Accounts = {"a1"}
  GRACE = 3
  COALESCE = 2
  MaxTime = 4
  MaxActions = 1
PROPERTY UndoHonest
CHECK_DEADLOCK FALSE
