SPECIFICATION ServicesSpec
CONSTANTS
  Accounts = {"a1", "a2"}
  MaxUid = 2
  Worlds <- MCWorlds
  MaxChildren = 1
  Worker = "w"
  Push = "p"
  Button = "b"
  Nobody = "nobody"
  Ids = {"a", "b"}
  Emails = {"x", "y"}
  Conns = {"c1", "c2"}
  Keys = {"k1", "k2", "k3"}
  MaxSaves = 3
  MaxFaults = 2
  Openers = {"x", "y"}
  Builds <- TwoBuilds
  Stamps = {0, 17, 20, 99}
  Breaks = 2
  None = None
  NoText = NoText
INVARIANT AlertsHonest
INVARIANT ScheduleKept
INVARIANT SecretsKept
INVARIANT DraftsKept
PROPERTY MigratedOnce
CHECK_DEADLOCK FALSE
