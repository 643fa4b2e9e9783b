CONSTANTS
  MaxTimers = 2
  MaxActivity = 1
  Peer = Peer
  CM_INVALID_DEVICE_ID = CM_INVALID_DEVICE_ID
SPECIFICATION FairSpec
INVARIANTS TypeOK PromiscuousWhileConnected StoredWhenApart StateFollowsLink NoTimerOutlivesConnection
PROPERTIES ResetIsKept AdvertisesOn ProcedureEnds
