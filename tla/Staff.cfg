SPECIFICATION StaffSpec
CONSTANTS
  AccountRoles = {"owner", "member", "lead_sourcer", "relationship_manager"}
  Browsers = {b1, b2}
  Desks = {b1, b2}
  AccountRooms <- MCAccountRooms
  ActivityIds = {1}
  Offered <- MCOffered
  Clerks = {b1, b2}
  IntakeLeads = {1, 2, 3}
  NoSourceKey = NoSourceKey
  Companies = {"a", "b"}
  Tokens = {"t"}
  ExternalIds = {"x", "y"}
  BadPayload = BadPayload
  Files <- MCFiles
  IntakeRooms <- MCIntakeRooms
SYMMETRY StaffSymmetry
CHECK_DEADLOCK FALSE
INVARIANTS
  StaffTypeOK
  IntakeAgrees
  AccessFollowsAccount
PROPERTIES
  StaffAreAnswered
