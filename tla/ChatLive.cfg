SPECIFICATION FairSpec
CONSTANTS
  InputPrice = 1000
  OutputPrice = 1000
  MaxOutputTokens = 1
  DailyBudget = 3
  MonthlyBudget = 4
  DailyRequestCap = 2
  DaysPerMonth = 2
  Requests = {r1, r2}
  ShortKeys = {k}
  MidKeys = {mid}
  LongKeys = {long}
  BlankKey = blank
  NoKey = nokey
  SentKeys = {k, mid, long, blank}
  NoRequest = nobody
  Contents = {ask, tell}
  ModelContents = {ask}
  NoContent = nothing
  Estimates = {1}
  ExtraTokens = 0
  ProviderErrors = {unreachable, unreadable}
  Environments = {{}, {"incomplete"}, {"no_scheme"}, {"long_model"}}
  MaxDay = 0
  MaxRestarts = 1
INVARIANTS
  SingleWriter
  TurnsExplained
PROPERTIES
  SubmissionsEnd
