CONSTANTS
  None = None
  Node = Node
  Frame <- MCFrame
  FrameLen <- MCLen
  Phase1s <- MCPhase
  RxPhase1s <- MCRxPhase
SPECIFICATION Spec
PROPERTY ImplementsChannel
