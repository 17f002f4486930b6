SPECIFICATION Spec
CONSTANTS
  s1 = s1
  s2 = s2
  s3 = s3
  none = none
  Sessions <- MCSessions2
  NoSession <- none
  PresenceEnabled = TRUE
  InitialState = "present"
  MinDelay = 1
  MaxDelay = 3
  MaxChanges = 4
PROPERTIES
  ResumeSkipsBackoff
