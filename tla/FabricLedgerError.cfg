\* The smallest instance: the first registration is enough.
SPECIFICATION LedgerSpec
CONSTANTS
  HolderIDs = {h1}
  CredIDs = {t1, t2}
  WalletKeys = {k1}
  NoKeys = NoKeys
  Bodies = {b1}
  Expiries = {d1}
  Clients = {p1}
  Genesis = Genesis
INVARIANTS
  ErrorWroteNothing
