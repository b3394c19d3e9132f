SPECIFICATION Spec
CONSTANTS
  p1 = p1
  Points = {p1}
  Zero = Zero
  None = None
  MaxVisits = 3
  MaxAsked = 3
INVARIANTS
  TypeOK
  AddressFromItsVisit
  ShownAddressIsThePoints
  SentIsComplete
CHECK_DEADLOCK FALSE
