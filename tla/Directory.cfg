\* Directories, caches and remote control, each by itself.
SPECIFICATION DirSpec
INVARIANTS DirTypeOK QueriesSound LatestAddress CachesRight LoginSound
PROPERTIES ServedAgain SureAnswer Answered
CHECK_DEADLOCK FALSE
CONSTANTS
  ServerUsers = {1, 2}
  BestServer = 1
  Me = 9
  NoServer = 0
  MaxFaults = 2
  Networks = 2
  Users = {"u"}
  Places = {"p"}
  MaxStamp = 2
  MaxQuestions = 2
  MaxInbox = 2
  Copies = {"a", "b", "c"}
  MaxJoins = 5
  Own = "own"
  Reflectors = {"x"}
  Elsewhere = {"g"}
  Nameless = "nl"
  Locals = {"l1", "l2"}
  Repeaters = {"l1", "l2", "r"}
  Standard <- MCStandard
  Callsigns = {"u"}
  LastStamp = 2
  None = none
  Programs = {p1, p2}
  Nobody = n
  MaxPolls = 2
  MaxRetries = 3
  MaxWire = 2
