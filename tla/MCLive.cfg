SPECIFICATION LiveSpec
CONSTANTS
  Uids = {1}
  HomeOf <- OneInbox
  Runs = {gui}
  HasMove = TRUE
  HasUidPlus = TRUE
  Refuses = TRUE
  MAX_PENDING_ATTEMPTS = 2
  MaxBatches = 1
  NoRefresh = NoRefresh
  MaxCrashes = 1
  MaxOther = 0
  MaxRebuilds = 0
PROPERTY HiddenNotForever
PROPERTY FlagPushedInTheEnd
PROPERTY KeysFreed
PROPERTY PushServed
PROPERTY AloneHonest
PROPERTY QueueSettles
CHECK_DEADLOCK FALSE
