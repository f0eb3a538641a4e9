------------------------------ MODULE SpendLedger ------------------------------
(***************************************************************************)
(* The AI budget of MARK-OS (app/services/provider_gateway.py).            *)
(*                                                                         *)
(* There is no separate ledger table: the `ai_call` rows of agent_steps    *)
(* are the ledger, and every budget question is a SUM or a COUNT over the  *)
(* completed ones.  This module has no state.  It defines those questions  *)
(* over a function `steps` from turns to the `ai_call` step each turn has  *)
(* recorded (NoStep when it has none), the prices, and the preflight       *)
(* decision taken before a provider is called.                             *)
(***************************************************************************)
EXTENDS Integers, FiniteSets

CONSTANTS
  InputPrice,       \* micro-USD per 1000 input tokens
  OutputPrice,      \* micro-USD per 1000 output tokens
  MaxOutputTokens,  \* max_tokens sent with every provider request
  DailyBudget,      \* micro-USD per UTC day
  MonthlyBudget,    \* micro-USD per calendar month
  DailyRequestCap,  \* completed provider calls per UTC day
  DaysPerMonth      \* days are numbered; every month has this many of them

\* What load_provider_config() leaves true of a configuration it accepts.
ASSUME BudgetAssumption ==
  /\ InputPrice \in Nat \ {0}
  /\ OutputPrice \in Nat \ {0}
  /\ MaxOutputTokens \in Nat \ {0}
  /\ DailyBudget \in Nat \ {0}
  /\ MonthlyBudget \in Nat \ {0}
  /\ DailyBudget <= MonthlyBudget
  /\ DailyRequestCap \in Nat \ {0}
  /\ DaysPerMonth \in Nat \ {0}

-----------------------------------------------------------------------------
(* Prices.  CeilingPrice rounds up, as -(-tokens * price // 1000) does.    *)

CeilingPrice(tokens, price) == -((-(tokens * price)) \div 1000)

WorstCaseCost(inputTokens) ==
  CeilingPrice(inputTokens, InputPrice) + CeilingPrice(MaxOutputTokens, OutputPrice)

ActualCost(inputTokens, outputTokens) ==
  CeilingPrice(inputTokens, InputPrice) + CeilingPrice(outputTokens, OutputPrice)

-----------------------------------------------------------------------------
(* The `ai_call` step of a turn.                                           *)

StepStatuses == {"none", "skipped", "failed", "completed"}

NoStep == [status |-> "none", reason |-> "none",
           input |-> 0, output |-> 0, cost |-> 0, day |-> 0]

\* A step that used no tokens: skipped, or failed at the provider.
FreeStep(status, reason, day) ==
  [NoStep EXCEPT !.status = status, !.reason = reason, !.day = day]

CompletedStep(inputTokens, outputTokens, day) ==
  [status |-> "completed", reason |-> "none",
   input |-> inputTokens, output |-> outputTokens,
   cost |-> ActualCost(inputTokens, outputTokens), day |-> day]

\* Two appends under one step key agree when every recorded field but the
\* timestamps does.
SameStepAppend(one, other) == [one EXCEPT !.day = 0] = [other EXCEPT !.day = 0]

-----------------------------------------------------------------------------
(* Spend and number of calls since the start of a day.  A sum of naturals  *)
(* is the size of the disjoint union of that many units each.              *)

DayStart(day) == day

MonthStart(day) == day - (day % DaysPerMonth)

PeriodSteps(steps, since) ==
  {s \in DOMAIN steps : steps[s].status = "completed" /\ steps[s].day >= since}

SpentUnits(steps, since) ==
  UNION {{s} \X (1 .. steps[s].cost) : s \in PeriodSteps(steps, since)}

PeriodSpend(steps, since) == Cardinality(SpentUnits(steps, since))
PeriodCount(steps, since) == Cardinality(PeriodSteps(steps, since))

\* Mutant: a cap counts as broken only once it is used up.
BudgetDecisionUnreserved(steps, inputTokens, today) ==
  IF PeriodCount(steps, DayStart(today)) >= DailyRequestCap
    THEN "daily_request_cap_reached"
  ELSE IF PeriodSpend(steps, DayStart(today)) >= DailyBudget
    THEN "daily_budget_exhausted"
  ELSE IF PeriodSpend(steps, MonthStart(today)) >= MonthlyBudget
    THEN "monthly_budget_exhausted"
  ELSE "allowed"

\* check_budget: the first cap the worst case would break, or "allowed".
BudgetDecision(steps, inputTokens, today) ==
  LET worst == WorstCaseCost(inputTokens)
  IN  IF worst > DailyBudget
        THEN "single_request_exceeds_daily_budget"
      ELSE IF PeriodCount(steps, DayStart(today)) >= DailyRequestCap
        THEN "daily_request_cap_reached"
      ELSE IF PeriodSpend(steps, DayStart(today)) + worst > DailyBudget
        THEN "daily_budget_exhausted"
      ELSE IF PeriodSpend(steps, MonthStart(today)) + worst > MonthlyBudget
        THEN "monthly_budget_exhausted"
      ELSE "allowed"

BudgetReasons == {"single_request_exceeds_daily_budget", "daily_request_cap_reached",
                  "daily_budget_exhausted", "monthly_budget_exhausted"}
=============================================================================
