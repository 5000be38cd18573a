SPECIFICATION Spec
CONSTANTS
  FerryPids = {f1}
  PassengerPids = {p1, p2}
  MAX_PASSENGERS = 2
  MAX_FERRIES = 1
  FERRY_CAPACITY = 2
  GANGWAY_CAPACITY = 2
  Vips = {FALSE}
  Weights = {1}
  LuggageLimits = {1}
  BOARDING_TIME_LIMIT = 1
  MAX_GANGWAY_WAIT = 1
  MAX_ATTEMPTS = 1
  MAX_GANGWAY_ATTEMPTS = 1
CHECK_DEADLOCK FALSE
PROPERTIES
  JourneyIsVoyage
