\* One handler and a backend that is restarted: the counter's seeding query may fail.
SPECIFICATION CredentialSpec
CONSTANTS
  HolderIDs = {h1}
  CredIDs = {t0, t1}
  WalletKeys = {k1}
  NoKeys = NoKeys
  Bodies = {b1}
  Expiries = {0}
  Clients = {p1}
  Genesis = Genesis
  First = t0
  Subscribed = {}
  MaxRequests = 1
  MaxDay = 1
  MayFail = TRUE
  SeedMayFail = TRUE
INVARIANTS
  NeverReusesDisplayID
CHECK_DEADLOCK FALSE
