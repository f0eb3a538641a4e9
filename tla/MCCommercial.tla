------------------------------ MODULE MCCommercial ------------------------------
(***************************************************************************)
(* Proposals, Delivery, Billing and Library in one run.  They share no     *)
(* table a step of theirs reads and writes, so a behaviour is one of one   *)
(* of them: focus says which, and the others keep their initial state.     *)
(***************************************************************************)
EXTENDS Proposals, Delivery, Billing, Library, TLC

VARIABLE focus  \* the module this behaviour is about

CommercialVars == <<proposalVars, deliveryVars, billVars, libraryVars, focus>>

\* The modules that are not in focus start with their first room and worker count.
OneStart ==
  /\ focus # "delivery" => /\ deliverers = CHOOSE n \in DeliveryWorkers : TRUE
                           /\ deliveryRoom = CHOOSE r \in DeliveryRooms : TRUE
  /\ focus # "billing" => room = CHOOSE r \in Rooms : TRUE
  /\ focus # "library" => libraryRoom = CHOOSE r \in LibraryRooms : TRUE

CommercialInit ==
  /\ focus \in {"proposals", "delivery", "billing", "library"}
  /\ ProposalInit /\ DeliveryInit /\ BillingInit /\ LibraryInit /\ OneStart

CommercialNext ==
  /\ \/ focus = "proposals" /\ ProposalNext /\ UNCHANGED <<deliveryVars, billVars, libraryVars>>
     \/ focus = "delivery" /\ DeliveryNext /\ UNCHANGED <<proposalVars, billVars, libraryVars>>
     \/ focus = "billing" /\ BillingNext /\ UNCHANGED <<proposalVars, deliveryVars, libraryVars>>
     \/ focus = "library" /\ LibraryNext /\ UNCHANGED <<proposalVars, deliveryVars, billVars>>
  /\ UNCHANGED focus

CommercialSpec == CommercialInit /\ [][CommercialNext]_CommercialVars

MCOffers == [price : {NoPrice, 10}, link : BOOLEAN]

\* Two onboardings, one engagement through its versions, one with an item.
MCDeliveryRooms ==
  {[leads |-> 2, clients |-> 2, engagements |-> 2, items |-> 0, versions |-> 1],
   [leads |-> 1, clients |-> 1, engagements |-> 1, items |-> 0, versions |-> 3],
   [leads |-> 1, clients |-> 1, engagements |-> 1, items |-> 1, versions |-> 2]}

\* An invoice through its versions; two invoices; two arrangements; two payments; a payment and a cost.
MCRooms ==
  {[arrangements |-> 0, invoices |-> 1, payments |-> 0, costs |-> 0, versions |-> 4],
   [arrangements |-> 0, invoices |-> 2, payments |-> 0, costs |-> 0, versions |-> 2],
   [arrangements |-> 2, invoices |-> 0, payments |-> 0, costs |-> 0, versions |-> 2],
   [arrangements |-> 0, invoices |-> 1, payments |-> 2, costs |-> 0, versions |-> 2],
   [arrangements |-> 0, invoices |-> 1, payments |-> 1, costs |-> 1, versions |-> 1],
   [arrangements |-> 1, invoices |-> 1, payments |-> 1, costs |-> 0, versions |-> 2]}

MCStarterSlugs == <<"follow-up", "email">>
MCSeedTitles == <<"ai">>

\* Templates, and entries with the profile, each with more rows or more versions.
MCLibraryRooms ==
  {[templates |-> 3, templateVersion |-> 2, entries |-> 1, entryVersion |-> 1],
   [templates |-> 2, templateVersion |-> 3, entries |-> 1, entryVersion |-> 1],
   [templates |-> 2, templateVersion |-> 1, entries |-> 3, entryVersion |-> 2],
   [templates |-> 2, templateVersion |-> 1, entries |-> 2, entryVersion |-> 3]}

\* The four modules are given the same tabs.
TabSymmetry == Permutations(BillTabs)

\* The tables of the four modules keep their types and references.
CommercialTypeOK == ProposalTypeOK /\ DeliveryTypeOK /\ BillingTypeOK /\ LibraryTypeOK

\* Nobody writes over what he did not see, in proposals, bills, templates or the
\* company home, and what was decided, settled or cancelled is final.
ChangesAreSeen == ProposalChangesAreSeen /\ BillChangesAreSeen /\ LibraryChangesAreSeen
================================================================================
