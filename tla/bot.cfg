SPECIFICATION FairSpec
CONSTANTS
  s1 = s1
  none = none
  Sessions <- MCSessions
  NoSession <- none
  PresenceEnabled = TRUE
  InitialState = "present"
  MinDelay = 1
  MaxDelay = 1
  Nothing = Nothing
  MaxFlips = 2
INVARIANTS
  CleanExit
PROPERTIES
  LoopServed
  ParkArrives
  ResumeArrives
  ParkRecorded
  ShutdownCompletes
