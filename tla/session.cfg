SPECIFICATION FairSpec
CONSTANTS
  MaxDeaths = 3
  MaxStrays = 2
INVARIANTS
  ConfirmsOnlyWhenAsked
  HandshakeMovesOn
  RadiusRestored
PROPERTIES
  LinkKept
  RespawnCompletes
  SessionEnds
