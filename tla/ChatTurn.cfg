SPECIFICATION Spec
CONSTANTS
  InputPrice = 1000
  OutputPrice = 1000
  MaxOutputTokens = 1
  DailyBudget = 3
  MonthlyBudget = 4
  DailyRequestCap = 2
  DaysPerMonth = 2
  Requests = {r1, r2, r3}
  ShortKeys = {k}
  MidKeys = {}
  LongKeys = {}
  BlankKey = blank
  NoKey = nokey
  SentKeys = {k, nokey}
  NoRequest = nobody
  Contents = {ask, tell}
  ModelContents = {ask}
  NoContent = nothing
  Estimates = {1, 3}
  ExtraTokens = 1
  ProviderErrors = {unreachable}
  Environments = {{}, {"no_scheme"}}
  MaxDay = 2
  MaxRestarts = 1
SYMMETRY RequestSymmetry
INVARIANTS
  TypeOK
  WithinBudget
  TurnsExplained
PROPERTIES
  CompletedTurnsFrozen
  ImplementsTurnLedger
