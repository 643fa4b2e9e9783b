CONSTANTS
  None = None
  Frame <- MCFrame
  FrameLen <- AnyLen
  Phase1s <- AllPhases
SPECIFICATION Spec
INVARIANT TotalIsCount

