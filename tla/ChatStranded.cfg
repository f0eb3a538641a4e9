SPECIFICATION Spec
CONSTANTS
  InputPrice = 1000
  OutputPrice = 1000
  MaxOutputTokens = 1
  DailyBudget = 3
  MonthlyBudget = 4
  DailyRequestCap = 2
  DaysPerMonth = 2
  Requests = {r1, r2}
  ShortKeys = {}
  MidKeys = {mid}
  LongKeys = {}
  BlankKey = blank
  NoKey = nokey
  SentKeys = {mid}
  NoRequest = nobody
  Contents = {ask, tell}
  ModelContents = {ask}
  NoContent = nothing
  Estimates = {1}
  ExtraTokens = 0
  ProviderErrors = {unreachable}
  Environments = {{}}
  MaxDay = 0
  MaxRestarts = 0
INVARIANT EveryOutcomeFinalizes
