\* Two wallets and two verifiers share one token, one credential changes once.
SPECIFICATION SessionSpec
CONSTANTS
  HolderIDs = {h1}
  CredIDs = {c1}
  WalletKeys = {k1, k2}
  NoKeys = NoKeys
  Bodies = {b1, b2}
  Expiries = {1}
  Tokens = {t1}
  Wallets = {w1, w2}
  Verifiers = {v1, v2}
  TTL = 1
  MaxNow = 2
  MaxSessions = 2
  MaxMoves = 1
  MayFail = TRUE
INVARIANTS
  SessionTypeOK
  LostOnlyByOverlap
  HistoryTellsVerdict
PROPERTIES
  UsedUpAfterAnswer
  TokenKeepsSession
SYMMETRY Symmetry
CHECK_DEADLOCK FALSE
