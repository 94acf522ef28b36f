\* Two phones of one person and two requests; a second person takes part in the
\* registration only.
SPECIFICATION RegistrySpec
CONSTANTS
  p1 = p1
  Persons = {p1, p2}
  Devices = {d1, d2}
  OwnerOf <- OwnedByFirst
  NoDevice = NoDevice
  Requests = {b1, b2}
  HolderIDs = {1, 2}
  CredIDs = {}
  Bodies = {}
  Expiries = {}
  WalletKeys = {k1, k2}
  NoKeys = NoKeys
  MaxRuns = 1
  MaxWipes = 1
  MaxPosts = 2
  MaxLate = 1
INVARIANTS
  RegistryTypeOK
  RowsNameTheirHolder
  BoundKeysAreHeld
  BootstrapRestores
PROPERTY
  OverwritesNeedOverlap
SYMMETRY Symmetry
CHECK_DEADLOCK FALSE
