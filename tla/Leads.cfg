SPECIFICATION LeadsSpec
CONSTANTS
  Leads = {1, 2}
  Forms = {f1, f2}
  Keys = {k1, k2}
  Identities = {acme, zeta}
  StageInputs = {"contacted", "lost"}
  LastVersion <- Limit
  NoKey = NoKey
  NoIdentity = NoIdentity
SYMMETRY Symmetry
CHECK_DEADLOCK FALSE
INVARIANTS
  TypeOK
  VersionNamesContent
  ApprovalsStand
  LeadRowsAgree
PROPERTIES
  NoUnseenOverwrite
  RolesKeepToTheirs
  DecisionsAreFinal
