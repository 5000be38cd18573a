SPECIFICATION Spec
CONSTANTS
  Launcher = launcher
  Captain = captain
  Ferries = {f1, f2}
  Passengers = {p1}
CHECK_DEADLOCK FALSE
INVARIANTS
  LogExclusive
