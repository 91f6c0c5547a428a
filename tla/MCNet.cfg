SPECIFICATION NetSpec
CONSTANTS
  MaxEdits = 3
  MaxGeneration = 2
  Keys = {"sync1", "att"}
  KindOf <- SpinnerOf
  Callers = {"c1", "c2"}
  None = "none"
  MaxJobs = 2
  Accounts = {"a", "b"}
  Mailed = {"a"}
  Folders = {"in1", "arch1", "in2"}
  Inbox <- MCInbox
  AccountOf <- MCAccountOf
  NoRefresh = NoRefresh
  Asked <- DeskKinds
  MaxClicks = 3
  MaxQueued = 2
INVARIANT PoolInv
INVARIANT PasswordCurrent
INVARIANT RemovedStays
INVARIANT JobsExact
INVARIANT DeskHonest
INVARIANT PushHonest
CHECK_DEADLOCK FALSE
