SPECIFICATION Spec
CONSTANTS
  FerryPids = {f1, f2}
  PassengerPids = {p1, p2}
  MAX_PASSENGERS = 2
  MAX_FERRIES = 1
  FERRY_CAPACITY = 1
  GANGWAY_CAPACITY = 2
  Vips = {TRUE}
  Weights = {1}
  LuggageLimits = {1}
  BOARDING_TIME_LIMIT = 0
  MAX_GANGWAY_WAIT = 1
  MAX_ATTEMPTS = 1
  MAX_GANGWAY_ATTEMPTS = 1
CHECK_DEADLOCK FALSE
SYMMETRY PortSymmetry
INVARIANTS
  TypeOK
  IInv
  FerriesOwned
  BoardersKept
  GangwayMirrorsPassengers
  NeverOverloaded
PROPERTIES
  TripsAreVoyages
