CONSTANTS
  na = na
  nb = nb
  None = None
  Frame <- MCFrame
  Source <- MCSource
  MsgId <- MCMsgId
  Total <- MCTotal
  Deliveries <- MCDeliveries
  Colliding <- MCColliding
SPECIFICATION FairSpec
INVARIANTS TypeOK NeverWedged ReportIsOneFrame CompleteIsAccepted
PROPERTY Reopens
