SPECIFICATION MailboxSpec
CONSTANTS
  Uids = {1, 2}
  HomeOf <- TwoInbox
  Runs = {"gui", "bg"}
  HasMove = TRUE
  HasUidPlus = TRUE
  Refuses = FALSE
  MAX_PENDING_ATTEMPTS = 2
  MaxBatches = 2
  MaxCrashes = 1
  MaxOther = 1
  MaxRebuilds = 1
  Accounts = {"a1", "a2"}
  GRACE = 3
  COALESCE = 2
  MaxTime = 7
  MaxActions = 3
CHECK_DEADLOCK FALSE
INVARIANT MovesKept
PROPERTY TimerExact
