SPECIFICATION PeopleSpec
CONSTANTS
  Parts = {"accounts", "family", "roles", "lifecycle", "committees", "groups", "email", "factor"}
  AccountRoles = {"admin", "parent", "rider"}
  MaxManual = 1
  MaxMailed = 2
  Persons = {1, 2, 3}
  Logins = {"ann", "bob"}
  Riders = {"rider"}
  Contacts = {"contact"}
  LegacyLinks <- MCLinks
  Migrated <- MCMigrated
  RoleOrder <- MCRoleOrder
  RoleDays = {0, 1, 2}
  RoleIds = {1, 2}
  StaleRiders = FALSE
  GroupIds = {1, 2, 3}
  Members = {"ann", "bob"}
  CommitteePeople = {1, 2}
  IeaRoles = {"upper_parent", "treasurer"}
  AssignmentIds = {1, 2}
  ManualStarts = {0, 2}
  Users = {"ann", "bob"}
  Addresses = {"a", "b", "c"}
  Sessions = {"s", "t"}
  MaxPasswords = 1
  MaxEnrolments = 2
  CodesEach = 2
  MaxConsumers = 1
 
PROPERTIES PeopleSteps UnlinkEndsAccess 
CHECK_DEADLOCK FALSE
