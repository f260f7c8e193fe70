SPECIFICATION FairSpec
CONSTANTS
  Requests = {"r1"}
  Titles = {"s1"}
  Themes = {"light", "dark"}
  States = {"loading", "ready"}
  Pullers = {"run", "q"}
  WaitDeadline = 7
  MaxInterval = 2
  TaskDeadline = 2
  MaxHellos = 2
  MaxReloads = 1
  MaxFocus = 1
  MaxTitles = 1
  MaxLoads = 2
  MaxPosts = 3
  MaxFrames = 4
  MaxChanges = 3
  MaxFailures = 1
  MaxRevision = 3
  Parts = {"subscription"}
  MaxEvents = 1
  MaxBreaks = 1
  Unset = Unset
  Unused = Unused
PROPERTY DisconnectedWillRetry
CHECK_DEADLOCK FALSE
