-------------------------------- MODULE Delivery --------------------------------
(***************************************************************************)
(* Clients made from won leads, their engagements and items                *)
(* (app/services/client_delivery.py, client_delivery_permissions.py,       *)
(* app/routes/client_delivery.py).                                         *)
(*                                                                         *)
(* Owner authority may do everything; a delivery owner keeps the notes,    *)
(* completes his engagement and handles its items while it is active.      *)
(* Permission and version are checked on rows read before the lock.        *)
(***************************************************************************)
EXTENDS Naturals, FiniteSets

CONSTANTS
  WonLeads,         \* leads that may be won
  ClientIds, EngagementIds, ItemIds,
  Owner,            \* a person with owner authority
  Deliverers,       \* people who may be an engagement's delivery owner
  NoDeliverer,
  DeliveryTabs,     \* forms open in browsers
  DeliveryWorkers,  \* numbers of requests the server may handle at a time
  DeliveryRooms     \* bounds: rows of each table and row versions, one record chosen at the start

ASSUME DeliveryAssumption ==
  /\ IsFiniteSet(DeliveryTabs)
  /\ Owner \notin Deliverers /\ NoDeliverer \notin Deliverers \cup {Owner}
  /\ DeliveryWorkers \subseteq Nat \ {0}
  /\ WonLeads \cup ClientIds \cup EngagementIds \cup ItemIds \subseteq Nat
  /\ WonLeads # {} /\ ClientIds # {} /\ EngagementIds # {}
  /\ DeliveryRooms \subseteq [leads : Nat, clients : Nat, engagements : Nat, items : Nat,
                             versions : Nat \ {0}]

VARIABLES
  won,          \* leads whose pipeline_status is 'won' now
  everWon,      \* history: leads that were won at some time
  client,       \* organization_clients: the lead of each, or none
  engagement,   \* client_engagements
  item,         \* engagement_items
  deliveryTab,  \* the forms: who, what, and the version they show
  deliverers,   \* requests handled at the same time, at most
  deliveryRoom  \* the record of DeliveryRooms this behaviour has

deliveryVars == <<won, everWon, client, engagement, item, deliveryTab, deliverers, deliveryRoom>>
deliveryRows == <<won, everWon, client, engagement, item>>

NoClient == [there |-> FALSE, lead |-> CHOOSE l \in WonLeads : TRUE]
NoEngagement ==
  [status |-> "none", client |-> CHOOSE c \in ClientIds : TRUE, deliverer |-> NoDeliverer, version |-> 0]
NoItem == [status |-> "none", engagement |-> CHOOSE e \in EngagementIds : TRUE, version |-> 0]
NoDeliveryTab == [stage |-> "closed", op |-> "none", by |-> Owner, id |-> 0, version |-> 0]

DeliveryInit ==
  /\ won = {} /\ everWon = {}
  /\ client = [c \in ClientIds |-> NoClient]
  /\ engagement = [e \in EngagementIds |-> NoEngagement]
  /\ item = [i \in ItemIds |-> NoItem]
  /\ deliveryTab = [t \in DeliveryTabs |-> NoDeliveryTab]
  /\ deliverers \in DeliveryWorkers
  /\ deliveryRoom \in DeliveryRooms

Clients == {c \in ClientIds : client[c].there}
Engagements == {e \in EngagementIds : engagement[e].status # "none"}
Items == {i \in ItemIds : item[i].status # "none"}

\* The rows there is room for.
FreeClients == {c \in ClientIds \ Clients : c <= deliveryRoom.clients}
FreeEngagements == {e \in EngagementIds \ Engagements : e <= deliveryRoom.engagements}
FreeItems == {i \in ItemIds \ Items : i <= deliveryRoom.items}

\* Change_pipeline_stage moves a lead to Won, and away from it.
MoveLead(l) ==
  /\ l <= deliveryRoom.leads
  /\ won' = IF l \in won THEN won \ {l} ELSE won \cup {l}
  /\ everWon' = everWon \cup won'
  /\ UNCHANGED <<client, engagement, item, deliveryTab, deliverers>>

-----------------------------------------------------------------------------
(* Permissions.                                                            *)

OwnsDelivery(who, e) == who = engagement[e].deliverer

\* can_manage_engagement_items, can_update_engagement_notes
MayManageItems(who, e) ==
  who = Owner \/ (OwnsDelivery(who, e) /\ engagement[e].status = "active")

\* can_manage_clients, can_update_engagement_notes, can_complete_engagement and
\* can_cancel_engagement, with the status each handler asks for.
MayChange(who, op, e) ==
  CASE op = "scope"     -> who = Owner /\ engagement[e].status = "active"
    [] op = "notes"     -> MayManageItems(who, e)
    [] op = "completed" -> (who = Owner \/ OwnsDelivery(who, e)) /\ engagement[e].status = "active"
    [] op = "cancelled" -> who = Owner /\ engagement[e].status = "active"

EngagementOps == {"scope", "notes", "completed", "cancelled"}

-----------------------------------------------------------------------------
(* The handlers: a page, a check, a write.                                 *)

Handled == {t \in DeliveryTabs : deliveryTab[t].stage = "checked"}

ShowTab(t, tab) ==
  /\ deliveryTab[t].stage = "closed"
  /\ deliveryTab' = [deliveryTab EXCEPT ![t] = [tab EXCEPT !.stage = "form"]]
  /\ UNCHANGED <<deliveryRows, deliverers>>

\* A form that is never sent, or a refusal: no row changes.
CloseDelivery(t) ==
  /\ deliveryTab[t].stage # "closed"
  /\ deliveryTab' = [deliveryTab EXCEPT ![t] = NoDeliveryTab]
  /\ UNCHANGED <<deliveryRows, deliverers>>

Checked(t) ==
  /\ deliveryTab[t].stage = "form"
  /\ Cardinality(Handled) < deliverers
  /\ deliveryTab' = [deliveryTab EXCEPT ![t].stage = "checked"]
  /\ UNCHANGED <<deliveryRows, deliverers>>

Done(t, op) ==
  /\ deliveryTab[t].stage = "checked" /\ deliveryTab[t].op = op
  /\ deliveryTab' = [deliveryTab EXCEPT ![t] = NoDeliveryTab]
  /\ UNCHANGED <<won, everWon, deliverers>>

\* The page of a lead with its button, which only an owner has.
ShowLead(t) ==
  \E l \in WonLeads : ShowTab(t, [NoDeliveryTab EXCEPT !.op = "onboard", !.id = l])

\* onboard_client_from_lead: the lead is won, no client has it yet.
CheckOnboard(t) ==
  /\ deliveryTab[t].op = "onboard"
  /\ deliveryTab[t].id \in won
  /\ \A c \in Clients : client[c].lead # deliveryTab[t].id
  /\ Checked(t)

\* Both INSERTs, or neither: the UNIQUE lead_id turns a second client into an error.
\* The lead's business development owner becomes the delivery owner.
Onboard(t) ==
  \E c \in FreeClients, e \in FreeEngagements, d \in Deliverers \cup {NoDeliverer} :
    /\ \A other \in Clients : client[other].lead # deliveryTab[t].id
    /\ Done(t, "onboard")
    /\ client' = [client EXCEPT ![c] = [there |-> TRUE, lead |-> deliveryTab[t].id]]
    /\ engagement' = [engagement EXCEPT ![e] =
         [status |-> "active", client |-> c, deliverer |-> d, version |-> 1]]
    /\ UNCHANGED item

\* create_engagement: nothing it reads can change before it writes.
CreateEngagement(c, e) ==
  /\ c \in Clients /\ e \in FreeEngagements
  /\ \E d \in Deliverers \cup {NoDeliverer} :
       engagement' = [engagement EXCEPT ![e] =
         [status |-> "active", client |-> c, deliverer |-> d, version |-> 1]]
  /\ UNCHANGED <<won, everWon, client, item, deliveryTab, deliverers>>

\* The page of an engagement, to its owner or its delivery owner.
ShowEngagement(t) ==
  \E e \in Engagements, op \in EngagementOps \cup {"add"}, who \in Deliverers \cup {Owner} :
    /\ who = Owner \/ OwnsDelivery(who, e)
    /\ ShowTab(t, [NoDeliveryTab EXCEPT !.op = op, !.by = who, !.id = e,
                                        !.version = engagement[e].version])

CheckEngagement(t) ==
  LET tab == deliveryTab[t]
  IN  /\ tab.op \in EngagementOps
      /\ MayChange(tab.by, tab.op, tab.id)
      /\ engagement[tab.id].version = tab.version
      /\ Checked(t)

\* Mutant: the UPDATE asks for the id alone.
WriteEngagementUnversioned(t, op, row) ==
  /\ engagement' = [engagement EXCEPT ![deliveryTab[t].id] = [row EXCEPT !.version = @ + 1]]
  /\ engagement[deliveryTab[t].id].version < deliveryRoom.versions
  /\ UNCHANGED <<client, item>>
  /\ Done(t, op)

\* The UPDATEs of an engagement: the version of the form, and the next one.
WriteEngagement(t, op, row) ==
  LET e == deliveryTab[t].id
  IN  /\ engagement[e].version = deliveryTab[t].version
      /\ engagement[e].version < deliveryRoom.versions
      /\ engagement' = [engagement EXCEPT ![e] = [row EXCEPT !.version = @ + 1]]
      /\ UNCHANGED <<client, item>>
      /\ Done(t, op)

\* update_engagement
SaveScope(t) ==
  /\ deliveryTab[t].op = "scope"
  /\ \E d \in Deliverers \cup {NoDeliverer} :
       WriteEngagement(t, "scope", [engagement[deliveryTab[t].id] EXCEPT !.deliverer = d])

\* update_engagement_notes
SaveNotes(t) ==
  /\ deliveryTab[t].op = "notes"
  /\ WriteEngagement(t, "notes", engagement[deliveryTab[t].id])

\* _finalize_engagement_status: the UPDATE also asks for an active engagement.
FinishEngagement(t) ==
  LET tab == deliveryTab[t]
  IN  /\ tab.op \in {"completed", "cancelled"}
      /\ engagement[tab.id].status = "active"
      /\ WriteEngagement(t, tab.op, [engagement[tab.id] EXCEPT !.status = tab.op])

CheckAddItem(t) ==
  /\ deliveryTab[t].op = "add"
  /\ MayManageItems(deliveryTab[t].by, deliveryTab[t].id)
  /\ Checked(t)

\* create_engagement_item: nothing is asked again by the INSERT.
AddItem(t) ==
  \E i \in FreeItems :
    /\ Done(t, "add")
    /\ item' = [item EXCEPT ![i] = [status |-> "pending", engagement |-> deliveryTab[t].id,
                                    version |-> 1]]
    /\ UNCHANGED <<client, engagement>>

ShowItem(t) ==
  \E i \in Items, who \in Deliverers \cup {Owner} :
    /\ who = Owner \/ OwnsDelivery(who, item[i].engagement)
    /\ ShowTab(t, [NoDeliveryTab EXCEPT !.op = "item", !.by = who, !.id = i,
                                        !.version = item[i].version])

CheckItem(t) ==
  LET tab == deliveryTab[t]
  IN  /\ tab.op = "item"
      /\ MayManageItems(tab.by, item[tab.id].engagement)
      /\ item[tab.id].version = tab.version
      /\ Checked(t)

ItemStatuses == {"pending", "in_progress", "completed"}

\* update_engagement_item_status: the version is the item's, not the engagement's.
SaveItem(t) ==
  LET i == deliveryTab[t].id
  IN  /\ deliveryTab[t].op = "item"
      /\ item[i].version = deliveryTab[t].version /\ item[i].version < deliveryRoom.versions
      /\ Done(t, "item")
      /\ \E s \in ItemStatuses : item' = [item EXCEPT ![i].status = s, ![i].version = @ + 1]
      /\ UNCHANGED <<client, engagement>>

DeliveryStep ==
  \/ \E l \in WonLeads : MoveLead(l)
  \/ \E c \in ClientIds, e \in EngagementIds : CreateEngagement(c, e)
  \/ \E t \in DeliveryTabs :
       \/ ShowLead(t) \/ CheckOnboard(t) \/ Onboard(t)
       \/ ShowEngagement(t) \/ CheckEngagement(t)
       \/ SaveScope(t) \/ SaveNotes(t) \/ FinishEngagement(t)
       \/ CheckAddItem(t) \/ AddItem(t)
       \/ ShowItem(t) \/ CheckItem(t) \/ SaveItem(t)
       \/ CloseDelivery(t)

DeliveryNext == DeliveryStep /\ UNCHANGED deliveryRoom

DeliverySpec == DeliveryInit /\ [][DeliveryNext]_deliveryVars

-----------------------------------------------------------------------------
(* Properties.                                                             *)

\* The variables have their types, and rows point at rows that are there.
DeliveryTypeOK ==
  /\ won \subseteq WonLeads /\ everWon \subseteq WonLeads
  /\ client \in [ClientIds -> [there : BOOLEAN, lead : WonLeads]]
  /\ engagement \in [EngagementIds ->
       [status : {"none", "active", "completed", "cancelled"}, client : ClientIds,
       deliverer : Deliverers \cup {NoDeliverer}, version : 0..deliveryRoom.versions]]
  /\ item \in [ItemIds -> [status : {"none"} \cup ItemStatuses, engagement : EngagementIds,
                           version : 0..deliveryRoom.versions]]
  /\ \A e \in Engagements : engagement[e].client \in Clients
  /\ \A i \in Items : item[i].engagement \in Engagements
  /\ Cardinality(Handled) <= deliverers

\* A lead becomes one client, however often its button is pressed, and only a
\* lead that was won; the client has its first engagement from the start.
OneClientPerWonLead ==
  /\ \A c, d \in Clients : client[c].lead = client[d].lead => c = d
  /\ \A c \in Clients : client[c].lead \in everWon
  /\ \A c \in Clients : \E e \in Engagements : engagement[e].client = c

\* Whoever changes an engagement may do so at that moment, not only when he was
\* checked: a delivery owner replaced in between, or an engagement that ended.
EngagementChangesAllowed ==
  [][\A e \in Engagements : engagement'[e] # engagement[e] =>
       \E t \in Handled : deliveryTab[t].id = e /\ deliveryTab[t].op \in EngagementOps
                            /\ MayChange(deliveryTab[t].by, deliveryTab[t].op, e)]_deliveryVars

\* An engagement that was completed or cancelled stays so, with its delivery
\* owner: update_engagement checks the status before the lock and not in its UPDATE.
EngagementEndsOnce ==
  [][\A e \in Engagements : engagement[e].status # "active" =>
       /\ engagement'[e].status = engagement[e].status
       /\ engagement'[e].deliverer = engagement[e].deliverer]_deliveryVars

\* With one worker thread items are only added or changed by somebody who may do
\* so at that moment.  With more, the engagement can end or change hands between
\* the check and the write, which carries the item's version alone.
ItemsChangedByRight ==
  [][deliverers = 1 =>
       \A i \in ItemIds : item'[i] # item[i] =>
         \E t \in Handled :
           LET who == deliveryTab[t].by
               e == engagement[item'[i].engagement]
           IN  who = Owner \/ (who = e.deliverer /\ e.status = "active")]_deliveryVars

\* Client delivery under overlapping requests: one client per won lead, changes by
\* who may make them when they are made, and ends that are final.
DeliveryStands ==
  []OneClientPerWonLead /\ EngagementChangesAllowed /\ EngagementEndsOnce /\ ItemsChangedByRight
=============================================================================
