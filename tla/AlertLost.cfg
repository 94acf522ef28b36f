\* One credential, suspended and restored again and again; nothing fails and no
\* two status changes overlap.  Identifiers of one digit stand for those of three.
SPECIFICATION SubscriptionsSpec
CONSTANTS
  c1 = c1
  c2 = c2
  h1 = h1
  h2 = h2
  CredIDs = {c1}
  Holders = {h1}
  HolderOf <- OwnedByOne
  Portals = {p1}
  Raisers = {r1}
  MaxRequests = 1
  MaxChanges = 11
  MayFail = FALSE
  Wide = 10
INVARIANT
  AlertRaised
CHECK_DEADLOCK FALSE
