\* Two verifiers resolve the same token; nothing fails.
SPECIFICATION SessionSpec
CONSTANTS
  HolderIDs = {h1}
  CredIDs = {c1}
  WalletKeys = {k1}
  NoKeys = NoKeys
  Bodies = {b1}
  Expiries = {0}
  Tokens = {t1}
  Wallets = {w1, w2}
  Verifiers = {v1, v2}
  TTL = 1
  MaxNow = 2
  MaxSessions = 2
  MaxMoves = 1
  MayFail = FALSE
INVARIANTS
  SingleUse
CHECK_DEADLOCK FALSE
