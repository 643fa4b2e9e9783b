CONSTANTS
  na = na
  nb = nb
  fa = fa
  fb = fb
  fc = fc
  None = None
  Node <- Nodes
  Frame <- Frames
  Source <- MCSource
  Packets <- MCPackets
  InFlight = 2
  Patient = TRUE
SPECIFICATION Spec
INVARIANT OKMeansSent
CHECK_DEADLOCK FALSE
