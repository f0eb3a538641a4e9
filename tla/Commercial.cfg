SPECIFICATION CommercialSpec
CONSTANTS
  ProposalIds = {1}
  Offers <- MCOffers
  NoPrice = NoPrice
  OwnerTabs = {t1, t2}
  LastProposalVersion = 7
  WonLeads = {1, 2}
  ClientIds = {1, 2}
  EngagementIds = {1, 2}
  ItemIds = {1}
  Owner = Owner
  Deliverers = {d1}
  NoDeliverer = NoDeliverer
  DeliveryTabs = {t1, t2}
  DeliveryWorkers = {1, 2}
  DeliveryRooms <- MCDeliveryRooms
  Billed = {1, 2}
  ArrangementIds = {1, 2}
  InvoiceIds = {1, 2}
  PaymentIds = {1, 2}
  CostIds = {1}
  References = {11, 12}
  Amounts = {2}
  Rates = {NoRate, 5000}
  NoRate = NoRate
  BillTabs = {t1, t2}
  InvoiceStatuses = {"draft", "paid"}
  Rooms <- MCRooms
  Slugs = {"follow-up", "email", "mine"}
  StarterSlugs <- MCStarterSlugs
  Wordings = {"plain", "warm"}
  Titles = {"ai", "new"}
  SeedTitles <- MCSeedTitles
  Plans = {"plan", "blank"}
  BlankPlan = "blank"
  LibraryTabs = {t1, t2}
  LibraryRooms <- MCLibraryRooms
SYMMETRY TabSymmetry
CHECK_DEADLOCK FALSE
INVARIANTS
  CommercialTypeOK
  OfferStands
  BillsAddUp
  LibraryStands
PROPERTIES
  DeliveryStands
  ChangesAreSeen
