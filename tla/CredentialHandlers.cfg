\* One credential already issued, two requests; no symmetry, as liveness is checked.
SPECIFICATION FairCredentialSpec
CONSTANTS
  HolderIDs = {h1}
  CredIDs = {t0, t1, t2}
  WalletKeys = {k1}
  NoKeys = NoKeys
  Bodies = {b1}
  Expiries = {0, 1}
  Clients = {p1, p2}
  Genesis = Genesis
  First = t0
  Subscribed = {1}
  MaxRequests = 2
  MaxDay = 2
  MayFail = TRUE
  SeedMayFail = TRUE
INVARIANTS
  HandlersTypeOK
  CommitmentIntact
  RowsShowChain
  DisplayIDsFresh
  NothingLost
  OkIsOnChain
PROPERTIES
  DisplayIDsStand
  RequestsAnswered
CHECK_DEADLOCK FALSE
