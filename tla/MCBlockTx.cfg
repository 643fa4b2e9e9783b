CONSTANTS
  None = None
  Frame <- MCFrame
  FrameLen <- AnyLen
  Phase1s <- AllPhases
SPECIFICATION FairSpec
INVARIANTS TypeOK SentWhole
PROPERTIES NeverCutShort PacketsSpaced WaitingIsSent
