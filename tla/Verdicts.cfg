\* One wallet and one verifier; the chain moves again and again around them.
SPECIFICATION SessionSpec
CONSTANTS
  HolderIDs = {h1}
  CredIDs = {c1}
  WalletKeys = {k1, k2}
  NoKeys = NoKeys
  Bodies = {b1}
  Expiries = {0, 1}
  Tokens = {t1}
  Wallets = {w1}
  Verifiers = {v1}
  TTL = 1
  MaxNow = 2
  MaxSessions = 1
  MaxMoves = 3
  MayFail = TRUE
INVARIANTS
  StampsMatchStatus
  VerdictIsRight
CHECK_DEADLOCK FALSE
