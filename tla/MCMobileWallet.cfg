\* Two requests at a time out of three, batches of two out of four credentials.
SPECIFICATION WalletSpec
CONSTANTS
  Creds <- FourCreds
  IssuedAt <- IssueTimes
  Issued = {1, 2, 3}
  InWallet = {1}
  Slots = {p1, p2}
  Services = {s1}
  Pattern <- Catalog
  BatchSize = 2
  DefaultLimit = 2
  MaxLimit = 2
  Limits <- AllLimits
  Pages <- TwoPages
  MaxRequests = 3
  MaxMoves = 1
INVARIANTS
  WalletTypeOK
  ReadsTellTheChain
  AttributesOfTheCard
  FavouritesAgree
  FetchTellsTruth
SYMMETRY Symmetry
CHECK_DEADLOCK FALSE
