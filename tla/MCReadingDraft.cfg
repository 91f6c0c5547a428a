SPECIFICATION ReadingSpec
CONSTANTS
  NoFolder = NoFolder
  Folders = {"f", "g"}
  Timeout = 2
  Longest = 3
  MaxTags = 5
  MaxLinks = 1
  MaxNoise = 1
  NoMail = NoMail
  NoName = NoName
  NoEntry = NoEntry
  NoValue = NoValue
  NoOne = NoOne
  NotYet = NotYet
CHECK_DEADLOCK FALSE
INVARIANT DraftKeepsRecipients
