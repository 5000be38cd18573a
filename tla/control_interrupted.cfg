SPECIFICATION Spec
CONSTANTS
  Pids = {p1, p2}
  NoPid = NoPid
  MAX_PASSENGERS = 2
  MAX_PASSENGER_PIDS = 3
  MAX_SECURITY_QUEUE = 2
  NUM_SECURITY_STATIONS = 1
  MAX_PEOPLE_PER_STATION = 1
  MAX_QUEUE_PASSES = 1
  MAX_ASSIGNMENT_ATTEMPTS = 2
CHECK_DEADLOCK FALSE
INVARIANTS
  NobodyLeftBehind
