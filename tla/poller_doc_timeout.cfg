SPECIFICATION Spec
CONSTANTS
  NoTag = NoTag
  Nothing = Nothing
  InitialState = "parked"
  Versions <- MCVersions
  Statuses <- MCStatuses
  MaxMoves = 3
PROPERTIES
  TimeoutIsUnreachable
