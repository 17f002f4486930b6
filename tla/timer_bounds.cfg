SPECIFICATION Spec
CONSTANTS
  Interval = 4
  Timeout = 5
  MaxFailures = 2
INVARIANTS
  NewsInTime
PROPERTIES
  NoBurst
