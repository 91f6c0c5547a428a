SPECIFICATION OutboxSpec
CONSTANTS
  Ids = {r1, r2}
  Second = r2
  Cli = cli
  Gui = gui
  Procs = {gui, cli}
  None = none
  Chargers = {gui}
  Android = TRUE
  SendTimes = {1}
  MAX_SEND_RETRIES = 2
  SCHEDULED_BACKOFF <- OneBackoff
  SCHEDULED_DEADLINE = 1
  SCHEDULE_LEAD = 0
  STALE_SENDING = 1
  SENT_RETENTION = 2
  MaxHold = 1
  MaxQueued = 1
  MaxCrashes = 1
  MaxUserOps = 1
INVARIANT IInv
INVARIANT OneOwner
INVARIANT AtMostOnce
INVARIANT NothingLost
PROPERTY WithdrawnStays
PROPERTY PromiseSpec
PROPERTY SentIsFinal
