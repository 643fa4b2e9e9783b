CONSTANTS
  idOwn = idOwn
  idOther = idOther
  Id <- MCId
  OwnIds <- MCOwnIds
  NoId = NoId
  Group = {g1}
  NoGroup = NoGroup
  Ttl = {t0, t1}
  DefaultTtl = t0
  MaxModelGroups = 1
  Erased = Erased
  Old = Old
  MaxCrash = 2
CHECK_DEADLOCK FALSE
SPECIFICATION FairSpec
INVARIANTS TypeOK VersionIsLast SavedIsInUse AssociationMatchesStack NothingLeftBehind UnassociatedIsAdvertised StatusIsStored ReportsOwnId
PROPERTY StatusGetsStored
