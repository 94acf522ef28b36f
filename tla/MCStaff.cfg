\* Two requests at a time out of three, over two newcomers and the seeded members.
SPECIFICATION StaffSpec
CONSTANTS
  IssuerAdmin = a1
  VerifierAdmin = a2
  Emails = {a1, a2, e1, e2}
  IssuerRoles = {r1}
  VerifierRoles = {r2}
  Slots = {p1, p2}
  MaxRequests = 3
  MayFail = TRUE
  Wide = 1000
INVARIANTS
  StaffTypeOK
  InvitedOnce
  AnswersHold
  AuditTrue
  DashboardAddsUp
SYMMETRY Symmetry
CHECK_DEADLOCK FALSE
