-------------------------------- MODULE Billing --------------------------------
(***************************************************************************)
(* Billing of engagements: arrangements, invoices, payments, costs and the *)
(* profitability computed from them (app/services/billing.py,              *)
(* app/routes/billing.py, app/db/billing.py).                              *)
(*                                                                         *)
(* Only owners come here.  A change is a form, a check on rows read before *)
(* the lock, and a write whose WHERE clause repeats part of the check.     *)
(* Amounts are minor units; their currency is text and never converted.    *)
(***************************************************************************)
EXTENDS Naturals, FiniteSets, FiniteSetsExt, Sums

CONSTANTS
  Billed,            \* engagements
  ArrangementIds,    \* row ids, in the order of creation
  InvoiceIds, PaymentIds, CostIds,
  References,        \* invoice references
  Amounts,           \* of payments and costs
  Rates,             \* commission rates in basis points, or NoRate
  NoRate,
  BillTabs,          \* forms open in browsers
  InvoiceStatuses,   \* any may follow any other; a new invoice is a "draft"
  Rooms              \* bounds: rows of each table and row versions, one record chosen at the start

ASSUME BillingAssumption ==
  /\ IsFiniteSet(ArrangementIds) /\ IsFiniteSet(InvoiceIds)
  /\ IsFiniteSet(PaymentIds) /\ IsFiniteSet(CostIds)
  /\ ArrangementIds \cup InvoiceIds \cup PaymentIds \cup CostIds \subseteq Nat
  /\ "draft" \in InvoiceStatuses /\ "none" \notin InvoiceStatuses
  /\ Billed # {} /\ References # {} /\ InvoiceIds # {} /\ NoRate \in Rates
  /\ Rooms \subseteq [arrangements : Nat, invoices : Nat, payments : Nat, costs : Nat,
                     versions : Nat \ {0}]
  /\ Amounts \subseteq Nat \ {0}
  /\ NoRate \notin Nat /\ \A r \in Rates \ {NoRate} : r \in 0..10000

VARIABLES
  arrangement, invoice, payment, cost,  \* the four tables
  billTab,        \* the forms: operation, row and version
  report,         \* a profitability being computed, or shown
  banked, spent,  \* history: what was paid and spent, kept as it happens
  room            \* the record of Rooms this behaviour has

billVars == <<arrangement, invoice, payment, cost, billTab, report, banked, spent, room>>
ledgers == <<payment, cost, banked, spent>>

AnyBilled == CHOOSE e \in Billed : TRUE
NoArrangement == [status |-> "none", engagement |-> AnyBilled, rate |-> NoRate, version |-> 0]
NoInvoice == [status |-> "none", engagement |-> AnyBilled,
              reference |-> CHOOSE r \in References : TRUE, version |-> 0]
NoPayment == [status |-> "none", invoice |-> CHOOSE i \in InvoiceIds : TRUE, amount |-> 0]
NoCost == [status |-> "none", engagement |-> AnyBilled, amount |-> 0]
NoBillTab == [stage |-> "closed", op |-> "none", id |-> 0, version |-> 0]
NoReport == [stage |-> "none", engagement |-> AnyBilled, collected |-> 0, costs |-> 0,
             rate |-> NoRate, moved |-> FALSE]

BillingInit ==
  /\ arrangement = [a \in ArrangementIds |-> NoArrangement]
  /\ invoice = [i \in InvoiceIds |-> NoInvoice]
  /\ payment = [p \in PaymentIds |-> NoPayment]
  /\ cost = [c \in CostIds |-> NoCost]
  /\ billTab = [t \in BillTabs |-> NoBillTab]
  /\ report = NoReport
  /\ banked = [e \in Billed |-> 0] /\ spent = [e \in Billed |-> 0]
  /\ room \in Rooms

There(table) == {id \in DOMAIN table : table[id].status # "none"}

\* The ids are AUTOINCREMENT: the next row has the next one.
NextRow(id, table, size) ==
  id \notin There(table) /\ id <= size /\ \A i \in DOMAIN table : i < id => i \in There(table)

\* A commit beside a profitability that is being computed.
LedgerMoved == report' = [report EXCEPT !.moved = (report.stage # "none")]

-----------------------------------------------------------------------------
(* Forms: shown with a version, checked, written.                          *)

ShowBill(t, op, id, version) ==
  /\ billTab[t].stage = "closed"
  /\ billTab' = [billTab EXCEPT ![t] = [stage |-> "form", op |-> op, id |-> id, version |-> version]]
  /\ UNCHANGED <<arrangement, invoice, ledgers, report>>

\* The billing page of an engagement and the forms on it.
ShowBilling(t) ==
  \/ \E a \in There(arrangement) : ShowBill(t, "cancel", a, arrangement[a].version)
  \/ \E i \in There(invoice) : ShowBill(t, "status", i, invoice[i].version)
  \/ \E p \in There(payment) : ShowBill(t, "void", p, 0)
  \/ \E c \in There(cost) : ShowBill(t, "drop", c, 0)
  \/ \E r \in References : ShowBill(t, "invoice", r, 0)

\* A form that is never sent, or is refused.
CloseBill(t) ==
  /\ billTab[t].stage # "closed"
  /\ billTab' = [billTab EXCEPT ![t] = NoBillTab]
  /\ UNCHANGED <<arrangement, invoice, ledgers, report>>

BillChecked(t, op) ==
  /\ billTab[t].stage = "form" /\ billTab[t].op = op
  /\ billTab' = [billTab EXCEPT ![t].stage = "checked"]
  /\ UNCHANGED <<arrangement, invoice, ledgers, report>>

BillWritten(t, op) ==
  /\ billTab[t].stage = "checked" /\ billTab[t].op = op
  /\ billTab' = [billTab EXCEPT ![t] = NoBillTab]

-----------------------------------------------------------------------------
(* Arrangements.                                                           *)

\* create_billing_arrangement
CreateArrangement(a) ==
  /\ NextRow(a, arrangement, room.arrangements)
  /\ \E e \in Billed, r \in Rates :
       arrangement' = [arrangement EXCEPT ![a] =
         [status |-> "active", engagement |-> e, rate |-> r, version |-> 1]]
  /\ LedgerMoved
  /\ UNCHANGED <<invoice, ledgers, billTab>>

\* cancel_billing_arrangement, up to its UPDATE: no look at the status.
CheckCancel(t) ==
  /\ BillChecked(t, "cancel")
  /\ arrangement[billTab[t].id].version = billTab[t].version

CancelArrangement(t) ==
  LET a == billTab[t].id
  IN  /\ BillWritten(t, "cancel")
      /\ arrangement[a].status = "active" /\ arrangement[a].version = billTab[t].version
      /\ arrangement[a].version < room.versions
      /\ arrangement' = [arrangement EXCEPT ![a].status = "cancelled", ![a].version = @ + 1]
      /\ LedgerMoved
      /\ UNCHANGED <<invoice, ledgers>>

-----------------------------------------------------------------------------
(* Invoices.                                                               *)

ReferenceFree(r) == \A i \in There(invoice) : invoice[i].reference # r

\* create_invoice, up to its INSERT: the reference is looked for.
CheckReference(t) ==
  /\ BillChecked(t, "invoice")
  /\ ReferenceFree(billTab[t].id)

\* The INSERT: UNIQUE (organization_id, invoice_reference) turns it into an error
\* when another invoice took the reference since it was looked for.
InsertInvoice(t, i) ==
  /\ BillWritten(t, "invoice")
  /\ NextRow(i, invoice, room.invoices) /\ ReferenceFree(billTab[t].id)
  /\ \E e \in Billed :
       invoice' = [invoice EXCEPT ![i] =
         [status |-> "draft", engagement |-> e, reference |-> billTab[t].id, version |-> 1]]
  /\ UNCHANGED <<arrangement, ledgers, report>>

CheckStatus(t) ==
  /\ BillChecked(t, "status")
  /\ invoice[billTab[t].id].version = billTab[t].version

\* update_invoice_status: any status may follow any other.
SetStatus(t) ==
  LET i == billTab[t].id
  IN  /\ BillWritten(t, "status")
      /\ invoice[i].version = billTab[t].version /\ invoice[i].version < room.versions
      /\ \E s \in InvoiceStatuses :
           invoice' = [invoice EXCEPT ![i].status = s, ![i].version = @ + 1]
      /\ UNCHANGED <<arrangement, ledgers, report>>

-----------------------------------------------------------------------------
(* Payments and costs.                                                     *)

\* record_payment: what it reads of the invoice is that it is there.
RecordPayment(p, i) ==
  /\ NextRow(p, payment, room.payments) /\ i \in There(invoice)
  /\ \E n \in Amounts :
       /\ payment' = [payment EXCEPT ![p] = [status |-> "paid", invoice |-> i, amount |-> n]]
       /\ banked' = [banked EXCEPT ![invoice[i].engagement] = @ + n]
  /\ LedgerMoved
  /\ UNCHANGED <<arrangement, invoice, cost, spent, billTab>>

CheckVoid(t) ==
  /\ BillChecked(t, "void")
  /\ payment[billTab[t].id].status = "paid"

\* Mutant: the UPDATE asks for the id alone.
VoidPaymentAgain(t) ==
  LET p == billTab[t].id
  IN  /\ BillWritten(t, "void")
      /\ payment' = [payment EXCEPT ![p].status = "voided"]
      /\ banked' = [banked EXCEPT ![invoice[payment[p].invoice].engagement] = @ - payment[p].amount]
      /\ LedgerMoved
      /\ UNCHANGED <<arrangement, invoice, cost, spent>>

\* void_payment: the UPDATE asks for voided_at IS NULL again.
VoidPayment(t) ==
  LET p == billTab[t].id
  IN  /\ BillWritten(t, "void")
      /\ payment[p].status = "paid"
      /\ payment' = [payment EXCEPT ![p].status = "voided"]
      /\ banked' = [banked EXCEPT ![invoice[payment[p].invoice].engagement] = @ - payment[p].amount]
      /\ LedgerMoved
      /\ UNCHANGED <<arrangement, invoice, cost, spent>>

\* create_engagement_cost
CreateCost(c) ==
  /\ NextRow(c, cost, room.costs)
  /\ \E e \in Billed, n \in Amounts :
       /\ cost' = [cost EXCEPT ![c] = [status |-> "kept", engagement |-> e, amount |-> n]]
       /\ spent' = [spent EXCEPT ![e] = @ + n]
  /\ LedgerMoved
  /\ UNCHANGED <<arrangement, invoice, payment, banked, billTab>>

CheckDrop(t) ==
  /\ BillChecked(t, "drop")
  /\ cost[billTab[t].id].status = "kept"

\* delete_engagement_cost marks the row, once.
DeleteCost(t) ==
  LET c == billTab[t].id
  IN  /\ BillWritten(t, "drop")
      /\ cost[c].status = "kept"
      /\ cost' = [cost EXCEPT ![c].status = "deleted"]
      /\ spent' = [spent EXCEPT ![cost[c].engagement] = @ - cost[c].amount]
      /\ LedgerMoved
      /\ UNCHANGED <<arrangement, invoice, payment, banked>>

-----------------------------------------------------------------------------
(* Profitability: three SELECTs, each with a snapshot of its own.          *)

AmountsOf(table) == [id \in DOMAIN table |-> table[id].amount]

\* Mutant: voided payments count.
RevenueOfAll(e) ==
  SumOf(AmountsOf(payment),
        {p \in There(payment) : invoice[payment[p].invoice].engagement = e})

Revenue(e) ==
  SumOf(AmountsOf(payment),
        {p \in PaymentIds : /\ payment[p].status = "paid"
                            /\ invoice[payment[p].invoice].engagement = e})

CostsOf(e) ==
  SumOf(AmountsOf(cost),
        {c \in CostIds : cost[c].status = "kept" /\ cost[c].engagement = e})

\* The rate of the newest active arrangement.
RateOf(e) ==
  LET active == {a \in ArrangementIds : arrangement[a].status = "active"
                                          /\ arrangement[a].engagement = e}
  IN  IF active = {} THEN NoRate ELSE arrangement[Max(active)].rate

ReadRevenue(e) ==
  /\ report.stage = "none"
  /\ report' = [NoReport EXCEPT !.stage = "costs", !.engagement = e, !.collected = Revenue(e)]
  /\ UNCHANGED <<arrangement, invoice, ledgers, billTab>>

ReadCosts ==
  /\ report.stage = "costs"
  /\ report' = [report EXCEPT !.stage = "rate", !.costs = CostsOf(report.engagement)]
  /\ UNCHANGED <<arrangement, invoice, ledgers, billTab>>

ReadRate ==
  /\ report.stage = "rate"
  /\ report' = [report EXCEPT !.stage = "shown", !.rate = RateOf(report.engagement)]
  /\ UNCHANGED <<arrangement, invoice, ledgers, billTab>>

Commission(collected, rate) == (collected * rate) \div 10000

CloseReport ==
  /\ report.stage = "shown" /\ report' = NoReport
  /\ UNCHANGED <<arrangement, invoice, ledgers, billTab>>

BillingStep ==
  \/ \E a \in ArrangementIds : CreateArrangement(a)
  \/ \E t \in BillTabs :
       \/ ShowBilling(t) \/ CloseBill(t)
       \/ CheckCancel(t) \/ CancelArrangement(t)
       \/ CheckReference(t) \/ \E i \in InvoiceIds : InsertInvoice(t, i)
       \/ CheckStatus(t) \/ SetStatus(t)
       \/ CheckVoid(t) \/ VoidPayment(t)
       \/ CheckDrop(t) \/ DeleteCost(t)
  \/ \E p \in PaymentIds, i \in InvoiceIds : RecordPayment(p, i)
  \/ \E c \in CostIds : CreateCost(c)
  \/ \E e \in Billed : ReadRevenue(e)
  \/ ReadCosts \/ ReadRate \/ CloseReport

BillingNext == BillingStep /\ UNCHANGED room

BillingSpec == BillingInit /\ [][BillingNext]_billVars

-----------------------------------------------------------------------------
(* Properties.                                                             *)

\* The variables have their types.
BillingTypeOK ==
  /\ arrangement \in [ArrangementIds -> [status : {"none", "active", "cancelled"},
       engagement : Billed, rate : Rates, version : 0..room.versions]]
  /\ invoice \in [InvoiceIds -> [status : {"none"} \cup InvoiceStatuses,
       engagement : Billed, reference : References, version : 0..room.versions]]
  /\ payment \in [PaymentIds -> [status : {"none", "paid", "voided"},
       invoice : InvoiceIds, amount : Amounts \cup {0}]]
  /\ cost \in [CostIds -> [status : {"none", "kept", "deleted"}, engagement : Billed,
       amount : Amounts \cup {0}]]
  /\ banked \in [Billed -> Nat] /\ spent \in [Billed -> Nat]
  /\ \A p \in There(payment) : payment[p].invoice \in There(invoice)

\* Two invoices never carry one reference, although it is looked for without
\* the lock.
ReferencesUnique ==
  \A i, j \in There(invoice) : invoice[i].reference = invoice[j].reference => i = j

\* Summed afresh from the rows, revenue and costs are what was paid and spent as
\* it happened: a payment is voided once and a cost deleted once, however many
\* tabs try, and neither is counted for another engagement.
RowsExplainLedger ==
  \A e \in Billed : Revenue(e) = banked[e] /\ CostsOf(e) = spent[e]

\* A profitability beside which nothing was committed shows the ledger and the
\* newest arrangement in force, and its commission is part of what was collected.
\* With commits in between, its parts are of different moments.
ReportIsLedger ==
  (report.stage = "shown" /\ ~report.moved) =>
    LET e == report.engagement
    IN  /\ report.collected = banked[e] /\ report.costs = spent[e]
        /\ report.rate # NoRate =>
             /\ Commission(report.collected, report.rate) <= banked[e]
             /\ \E a \in ArrangementIds :
                  /\ arrangement[a].status = "active" /\ arrangement[a].rate = report.rate
                  /\ \A b \in ArrangementIds : b > a /\ arrangement[b].engagement = e
                                                 => arrangement[b].status # "active"

\* The money is explained: rows, sums and the report of an engagement agree with
\* what was paid and spent, under references that are nobody else's.
BillsAddUp == ReferencesUnique /\ RowsExplainLedger /\ ReportIsLedger

\* Nobody replaces an invoice's status, or cancels an arrangement, that he did
\* not see as it is; a cancelled arrangement and a settled payment are final.
BillChangesAreSeen ==
  [][/\ \A i \in There(invoice) : invoice'[i] # invoice[i] =>
          \E t \in BillTabs : billTab[t].op = "status" /\ billTab[t].id = i
                                /\ billTab[t].version = invoice[i].version
     /\ \A a \in There(arrangement) : arrangement'[a] # arrangement[a] =>
          /\ arrangement[a].status = "active"
          /\ \E t \in BillTabs : billTab[t].op = "cancel" /\ billTab[t].id = a
                                   /\ billTab[t].version = arrangement[a].version
     /\ \A p \in There(payment) : payment'[p] # payment[p] => payment[p].status = "paid"]_billVars
=============================================================================
