SPECIFICATION Spec
CONSTANTS
  LengthAt = 2
  HostLen = 5
  WifiRxDataSize = 6
  CountModulus = 8
  C_T_tUartWait10ms = 20
  ReportSize = {1, 2, 3, 4}
  QueueSize = 7
  DriverBuffer = 6
  Requests = 3
  Sides <- OneSide
INVARIANT OnlyReports
