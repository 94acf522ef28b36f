\* Two portal requests, two wallets and two status handlers over two credentials.
SPECIFICATION SubscriptionsSpec
CONSTANTS
  c1 = c1
  c2 = c2
  h1 = h1
  h2 = h2
  CredIDs = {c1, c2}
  Holders = {h1, h2}
  HolderOf <- OwnedBy
  Portals = {p1, p2}
  Raisers = {r1, r2}
  MaxRequests = 3
  MaxChanges = 2
  MayFail = TRUE
  Wide = 1000
INVARIANTS
  SubscriptionsTypeOK
  DuplicatesNeedOverlap
  AlertsAreTrue
  AlertRaised
PROPERTIES
  DecidedByItsHolder
  DecisionsStand
SYMMETRY Symmetry
CHECK_DEADLOCK FALSE
