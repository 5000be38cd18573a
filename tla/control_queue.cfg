SPECIFICATION Spec
CONSTANTS
  Pids = {p1, p2, p3}
  NoPid = NoPid
  MAX_PASSENGERS = 3
  MAX_PASSENGER_PIDS = 3
  MAX_SECURITY_QUEUE = 3
  NUM_SECURITY_STATIONS = 1
  MAX_PEOPLE_PER_STATION = 1
  MAX_QUEUE_PASSES = 1
  MAX_ASSIGNMENT_ATTEMPTS = 2
CHECK_DEADLOCK FALSE
SYMMETRY PidSymmetry
CONSTRAINT QueueOnly
INVARIANTS
  QueueMirrorsPassengers
  WaitersAreQueued
PROPERTIES
  OvertakenOnlyByConsent
  IsCheckpoint
