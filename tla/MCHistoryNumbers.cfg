SPECIFICATION ShowDaySpec
CONSTANTS
  Ann = Ann
  Bea = Bea
  Classes = {1, 2}
  RingNames = {"East"}
  FormStatuses = {"planning", "complete"}
  FormSettings <- MCSettings
  Riders = {Ann, Bea}
  LevelOf <- MCLevelOf
  ShowClasses = {"H7", "H9", "H7X"}
  ClassInfo <- MCClassInfo
  Scales <- MCScales
  MaxPlace = 1
  ManualPoints = {FALSE}
  VocCutoff = 1
  FormTypes = {"individual", "team"}
  MaxEntries = 2
  ReassignedRiders = {Ann}
  Logins = {"coach", "upmom", "dad"}
  Facts <- MCFacts
  Participants = {"up", "fut"}
  ParticipantLevel <- MCParticipantLevel
  LegacyRiderOf <- MCLegacyRiderOf
  Family <- MCFamily
  BoardClasses = {1, 2}
  BoardLevel <- MCBoardLevel
  DayLength = 4
  Shifts <- MCShifts
  PageSize = 2
  MaxUpdates = 2
  Hosts = {"coach", "dad"}
  HostFacts <- MCFacts
  StaffRoles = {"judge"}
  Sections = {"parking"}
  MaxCheckpoints = 1
  Planners = {"coach", "upmom", "dad"}
  PlannerFacts <- MCFacts
  FamilyLevels <- MCFamilyLevels
  Defaults <- MCDefaults
  MaxItems = 1
  RosterIds = {1, 2}
  FullNames = {1, 2}
  OneWordNames = {}
  Numbers = {1, 2}
  ClassIds = {1, 2}
  ClassNames = {"varsity", "jv"}
  NamedLevel <- MCNamedLevel
  GradeLevel <- MCGradeLevel
  WalkTrot = {"jv"}
  Meets = {"fair"}
  RegularMeets = {"fair"}
  Files <- MCFiles
  Templates <- MCTemplates
  StartRosters <- MCRosters
  Importers = {"coach"}
  Scores = {7}
  Parts = {"history"}
PROPERTY ImportsFollowNumbers
CHECK_DEADLOCK FALSE
