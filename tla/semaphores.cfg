SPECIFICATION FairSpec
CONSTANTS
  Launcher = launcher
  Captain = captain
  Ferries = {f1, f2}
  Passengers = {p1}
CHECK_DEADLOCK FALSE
INVARIANTS
  TypeOK
  ShmExclusive
  NobodySleepsInVain
  SemvalCounts
PROPERTIES
  SleepersServed
