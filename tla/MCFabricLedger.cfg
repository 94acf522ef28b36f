SPECIFICATION LedgerSpec
CONSTANTS
  HolderIDs = {h1}
  CredIDs = {t1, t2, t3, t4, t5}
  WalletKeys = {k1}
  NoKeys = NoKeys
  Bodies = {b1}
  Expiries = {d1}
  Clients = {p1, p2}
  Genesis = Genesis
INVARIANT
  LedgerTypeOK
PROPERTIES
  SerializedCommits
  RevokedIsFrozen
  ImplementsLifecycle
SYMMETRY Symmetry
