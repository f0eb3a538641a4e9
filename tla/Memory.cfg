SPECIFICATION Spec
CONSTANTS
  Keys = {k1}
  Contents = {tea, coffee}
  Requests = {r1, r2}
  RequestKeys = {q1}
  Resolutions = {"rejected"}
  NoKey = NoKey
  Nothing = Nothing
  MaxMemories = 3
  MaxCandidates = 2
SYMMETRY Symmetry
CHECK_DEADLOCK FALSE
INVARIANTS
  TypeOK
  KeysExplained
PROPERTIES
  DecisionsStand
  ImplementsRegister
