SPECIFICATION FairSpec
CONSTANTS
  Baked = 5
  MaxInt32 = 9
  Value <- MCValue
  Protocols <- MCProtocols
  Names <- MCNames
  Nonsense <- MCNonsense
  NoAnswer = NoAnswer
  MaxMoves = 3
INVARIANTS
  HonestPongUnderstood
PROPERTIES
  KickHasCause
  ServerFollowed
