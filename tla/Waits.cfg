SPECIFICATION FairSpec
CONSTANTS
  Requests = {"r1"}
  Titles = {"s1"}
  Themes = {"light", "dark"}
  States = {"loading", "ready"}
  Pullers = {"run", "q"}
  WaitDeadline = 7
  MaxInterval = 2
  TaskDeadline = 2
  MaxHellos = 2
  MaxReloads = 1
  MaxFocus = 1
  MaxTitles = 1
  MaxLoads = 2
  MaxPosts = 3
  MaxFrames = 4
  MaxChanges = 3
  MaxFailures = 1
  MaxRevision = 3
  Parts = {"frame", "embed", "native", "subscription", "browser", "watch", "notice", "task"}
  MaxEvents = 2
  MaxBreaks = 2
  Unset = Unset
  Unused = Unused
INVARIANTS FrameAgrees EventsInOrder WaitsAreTrue ClosedLeavesNothing FolderIsBuilt
PROPERTIES ConnectsInTime OneAtATime SubscriptionGoesOn WaitsReturn
CHECK_DEADLOCK FALSE
