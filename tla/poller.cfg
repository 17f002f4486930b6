SPECIFICATION FairSpec
CONSTANTS
  NoTag = NoTag
  Nothing = Nothing
  InitialState = "parked"
  Versions <- MCVersions
  Statuses <- MCStatuses
  MaxMoves = 3
INVARIANTS
  LogTellsHealth
  NoBlameForShutdown
PROPERTIES
  RelayKept
  AgentFollowed
  ReportConverges
