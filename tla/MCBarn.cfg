SPECIFICATION BarnSpec
CONSTANTS
  Parts = {"plan", "hoofprints", "history", "tests", "documents", "care", "relations", "access", "spaces", "stalls", "turnout", "bookings", "device", "shifts", "corrections"}
  TurnoutRows = {1, 2}
  ShowHorseSet = {"ace"}
  LeasedNames = {"loan"}
  RideClasses <- MCRideClasses
  SeasonClassIds = {1}
  RidesPerHorse = 2
  EntriesOf <- MCEntriesOf
  Sessions = {"full_day", "morning"}
  Unfit = {}
  MaxVersions = 2
  MaxRequests = 2
  MaxRecords = 2
  MaxEditors = 1
  Horses = {"bay"}
  People = {"ann", "bob"}
  CareDates = {1, 2, 3}
  SoonDays = 1
  DocumentTypes = {"vaccination"}
  MaxPapers = 2
  SpaceIds = {1, 2, 3}
  FacilityHorses = {"bay", "dun"}
  RowIds = {1, 2, 3}
  FacilityDays = {0, 1, 2}
  LaidOut <- MCLaidOut
  Workers = {"jo"}
  WorkRoles = {"working_student", "barn_staff"}
  ShiftIds = {1, 2}
  Rules = {1, 2}
  Accounts = {"a", "b"}
  PinSeconds = 1
  LockSeconds = 1
  MaxTries = 2
  MaxTime = 2
  Rate <- MCRate
  Recorded <- MCRecorded
INVARIANTS BarnInvariant StallsAreDisjoint
PROPERTIES  FinalHistoryKeepsRecords
CHECK_DEADLOCK FALSE
