SPECIFICATION SyncSpec
CONSTANTS
  Msgs = {m1, m2}
  Window = {m1}
  Sessions = {gui}
  MaxToggles = 2
  MaxChanges = 2
  Uids = {1, 2}
  HomeOf <- TwoInbox
  Runs = {gui}
  HasMove = FALSE
  HasUidPlus = FALSE
  Refuses = FALSE
  MAX_PENDING_ATTEMPTS = 1
  MaxBatches = 2
  MaxCrashes = 0
  MaxOther = 0
  MaxRebuilds = 0
INVARIANT FlagsKept
INVARIANT BulkHonest
PROPERTY FolderHonest
CHECK_DEADLOCK FALSE
