SPECIFICATION FairSpec
CONSTANTS
  Launchers = {l1, l2}
  NoLauncher = NoLauncher
  LAST_CHILD = 1
CHECK_DEADLOCK FALSE
INVARIANTS
  TypeOK
  IInv
  ChildrenOnOwnPort
  NothingRemovedInUse
  NoTakeover
  NothingLeftBehind
PROPERTIES
  EveryStartEnds
