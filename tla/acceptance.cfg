SPECIFICATION AcceptanceSpec
CONSTANTS
  d1 = d1
  o1 = o1
  f1 = f1
  f2 = f2
  p1 = p1
  p2 = p2
  Devices = {d1}
  Orders = {o1}
  Offers = {f1, f2}
  OrderOf <- OneOrder
  NoOrder = NoOrder
  NoOffer = NoOffer
  Faults = {}
  MaxQueue = 2
  MaxCharges = 2
  Providers = {p1, p2}
  ProviderOf <- Bidders
INVARIANTS
  ElectronicOnce
  AnnouncedIsTrue
PROPERTIES
  StartedGetsProvider
  AcceptedIsAnnounced
CHECK_DEADLOCK FALSE
