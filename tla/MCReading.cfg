SPECIFICATION ReadingSpec
CONSTANTS
  NoFolder = NoFolder
  Folders = {"f", "g"}
  Timeout = 2
  Longest = 3
  MaxTags = 5
  MaxLinks = 1
  MaxNoise = 1
  NoMail = NoMail
  NoName = NoName
  NoEntry = NoEntry
  NoValue = NoValue
  NoOne = NoOne
  NotYet = NotYet
INVARIANT WireKept
INVARIANT FilesKept
INVARIANT ContactsKept
INVARIANT OpensRight
PROPERTY RunKept
PROPERTY SettingsKept
PROPERTY LettersKept
PROPERTY ListsKept
PROPERTY PageKept
PROPERTY CardsKept
CHECK_DEADLOCK FALSE
