------------------------------ MODULE TurnLedger ------------------------------
(***************************************************************************)
(* What the chat pipeline promises, without handlers, locks, rollbacks or  *)
(* restarts: every turn is settled in ONE indivisible step.                *)
(*                                                                         *)
(* A turn is "none", "open" (saved, but its audit run was never closed) or *)
(* "closed".  A closed turn never changes again.  The step that settles a  *)
(* turn may bill it, once, and only while the day and the month of that    *)
(* bill stay within the caps.                                              *)
(***************************************************************************)
EXTENDS SpendLedger

CONSTANTS
  Turns,    \* the turns of the session
  Overrun   \* micro-USD one call may cost beyond its worst case

VARIABLES
  turn,     \* the state of each turn
  bill,     \* the `ai_call` step of each turn
  date      \* today

\* No cap is broken on the day of the bill, nor in its month.
Affordable(bills, day) ==
  /\ PeriodCount(bills, DayStart(day)) <= DailyRequestCap
  /\ PeriodSpend(bills, DayStart(day)) <= DailyBudget + Overrun
  /\ PeriodSpend(bills, MonthStart(day)) <= MonthlyBudget + Overrun

LedgerInit ==
  /\ turn = [t \in Turns |-> "none"]
  /\ bill = [t \in Turns |-> NoStep]
  /\ date = 0

\* Turn t is settled, or settled again while it is still open.
Settle(t) ==
  /\ turn[t] # "closed"
  /\ \E state \in {"open", "closed"} : turn' = [turn EXCEPT ![t] = state]
  /\ \/ UNCHANGED bill
     \/ /\ bill[t] = NoStep
        /\ bill' = [bill EXCEPT ![t] = bill'[t]]
        /\ bill'[t].status # "none" /\ bill'[t].day <= date
        /\ Affordable(bill', bill'[t].day)
  /\ UNCHANGED date

NextDay == date' = date + 1 /\ UNCHANGED <<turn, bill>>

LedgerNext == (\E t \in Turns : Settle(t)) \/ NextDay

LedgerSpec == LedgerInit /\ [][LedgerNext]_<<turn, bill, date>>
=============================================================================
