SPECIFICATION Spec
CONSTANTS
  Parts = {"aiws"}
  AiwsTools = {"t", "u"}
  AiwsEdits = 0
  FieldGroups <- FieldsTogether
  ItemNames = {"a", "b"}
  FileObjects = {"f1"}
  ItemSizes = {1}
  OddBodies = FALSE
  AiwsNames <- FolderNames
  AiwsSizes <- FolderSizes
  AiwsObjects = {"a"}
  InlineLimit = 2
  Workspaces = {"w1", "w2"}
  MaxInbox = 2
  MaxCount = 2
  MaxRevision = 2
  Calls = {"c1", "c2"}
  Used = {"mkdir", "list"}
  Window = 1
  Content = 3
  ChunkSize = 2
  Runners = {"r1", "r2"}
  Users = {"u1", "u2"}
  Options = {"yes"}
  Replies <- TextAnswer
  Actors = {"a", "b"}
  InitCalls <- NodeStart
  Operations = {"o1"}
  Callers = {"a", "b"}
  ConfigKeys = {"a", "b"}
  Cached = {"b"}
  CacheTime = 0
  Identities <- FirstIdentity
  Developers <- DeveloperIdentities
  IdentityLimit = 2
  Sessions <- SessionsGiven
  Rejections = {"ToolError AUTHENTICATION_REJECTED", "other"}
  Lifetime = 2
  ToolProcesses = {"p1", "p2"}
  FoundFiles <- FilesFound
  Invocations <- ToolRuns
  Settings <- ConfigSets
  AppSources <- SourcesNamed
  ImportsMade <- Selections
  StoreAnswers <- Lookups
  PieceSize = 2
  LookupSize = 2
  ToolStarts <- LineInvocations
  LinesGiven <- Entered
  ToolCommands <- LineCommands
  HistoryLimit = 2
  MaxLines = 3
  Commands <- PikgCommands
  Together <- PikgTeams
  SourceKind = "directory"
  MaxSessions = 1
  MaxHellos = 2
  MaxTries = 3
  MaxTaskChanges = 3
  MaxVerbs = 1
  MaxChanges = 3
  MaxPairs = 2
  MaxStarts = 1
  MaxRequests = 3
  MaxStreams = 2
  MaxTime = 1
  MaxWrites = 2
  MaxCalls = 3
  MaxLogins = 2
  MaxVersion = 2
  MaxCommands = 2
  MaxEdits = 1
  Unused = Unused
INVARIANT NothingUnseenIsReplaced
CHECK_DEADLOCK FALSE
