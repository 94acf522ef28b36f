-------------------------------- MODULE Staff --------------------------------
(***************************************************************************)
(* Staff administration: the portal invites, re-roles and soft-deletes     *)
(* members of staff, and the IT-Admin dashboard counts them.  Handlers run *)
(* concurrently over the tables staff and portal_audit_log, statement by   *)
(* statement, and make both primary keys from SELECT MAX.                  *)
(*                                                                         *)
(* A member is known by an email; the two administrators of the schema are *)
(* there from the start.                                                   *)
(***************************************************************************)
EXTENDS SequentialIDs, Integers, Sequences, FiniteSets

CONSTANTS
  Emails,         \* who may be invited, the administrators included
  IssuerAdmin,    \* the seeded members
  VerifierAdmin,
  IssuerRoles,    \* staff and schemaManager
  VerifierRoles,  \* verifier and policyManager
  Slots,          \* requests served at the same time
  MaxRequests,    \* bound: requests that get past their first check
  MayFail         \* whether MySQL statements and the backend may fail

ASSUME SeedAssumption == {IssuerAdmin, VerifierAdmin} \subseteq Emails
ASSUME SlotsAssumption == IsFiniteSet(Slots)
ASSUME StaffBounds == MaxRequests \in Nat /\ MayFail \in BOOLEAN

VARIABLES
  staff,     \* MySQL staff
  audit,     \* MySQL portal_audit_log, the rows about staff
  req,       \* the request each slot serves
  dash,      \* counts the dashboard has read so far, in the order it reads them
  requests,  \* requests taken so far
  told,      \* ghost: what the portal has been told with a 200
  between,   \* ghost: changes of the table since the dashboard's first count
  mishap     \* ghost: a statement failed, or two audit rows raced for one key

tables == <<staff, audit>>
ghosts == <<told, between, mishap>>
vars   == <<tables, req, dash, requests, ghosts>>

\* Bounds: the largest numbers that identifiers reach in MaxRequests requests.
StaffIDs == 1 .. (MaxRequests + 2)
AuditIDs == 1 .. MaxRequests

NoRow == [status |-> "none"]
NoEntry == [action |-> "none"]
Idle  == [pc |-> "idle"]

Members == {s \in StaffIDs : staff[s] # NoRow}
Entries == {a \in AuditIDs : audit[a] # NoEntry}

Portals == {"issuer", "verifier"}

\* validateStaffRole.
RolesOf == [portal \in Portals |-> IF portal = "issuer" THEN IssuerRoles ELSE VerifierRoles]

Roles == IssuerRoles \cup VerifierRoles

-----------------------------------------------------------------------------
\* The ghost column seen holds the members there were when the email was
\* looked up.
Seed(e, portal) ==
  [email |-> e, portal |-> portal, role |-> "admin", status |-> "active", seen |-> {}]

StaffInit ==
  /\ staff = [s \in StaffIDs |-> CASE s = 1 -> Seed(IssuerAdmin, "issuer")
                                   [] s = 2 -> Seed(VerifierAdmin, "verifier")
                                   [] OTHER -> NoRow]
  /\ audit = [a \in AuditIDs |-> NoEntry]
  /\ req = [p \in Slots |-> Idle]
  /\ dash = <<>>
  /\ requests = 0
  /\ told = {}
  /\ between = 0
  /\ mishap = FALSE

-----------------------------------------------------------------------------
(* The first look of each handler.  A request that does not get past it is *)
(* answered 400, 404 or 409 and leaves no trace.                           *)

Take(p, r) ==
  /\ req[p] = Idle
  /\ requests < MaxRequests
  /\ requests' = requests + 1
  /\ req' = [req EXCEPT ![p] = r]
  /\ UNCHANGED <<tables, dash, ghosts>>

\* staffEmailExists counts every row, deleted ones too.  (Mutant: it leaves
\* out the deleted.)
EmailExistsMutant(e) == \E s \in Members : staff[s].email = e /\ staff[s].status # "deleted"
EmailExists(e) == \E s \in Members : staff[s].email = e

Invite(p, e, portal, role) ==
  /\ role \in RolesOf[portal]
  /\ ~EmailExists(e)
  /\ Take(p, [pc |-> "generate", email |-> e, portal |-> portal, role |-> role,
              seen |-> Members])

\* getStaffByID does not find the deleted.
Present(s) == s \in Members /\ staff[s].status # "deleted"

\* The role asked for must fit the portal asked for; what the member is now,
\* an administrator for instance, is not looked at.
ChangeRole(p, s, portal, role) ==
  /\ role \in RolesOf[portal]
  /\ Present(s)
  /\ Take(p, [pc |-> "role", id |-> s, portal |-> portal, role |-> role])

\* A removal names the portal it removes from.  (Mutant: whichever it is.)
SamePortalMutant(s, portal) == TRUE
SamePortal(s, portal) == staff[s].portal = portal

\* The ghost moved says whether a role change has come between since.
Remove(p, s, portal) ==
  /\ Present(s)
  /\ SamePortal(s, portal)
  /\ Take(p, [pc |-> "remove", id |-> s, email |-> staff[s].email, portal |-> portal,
              moved |-> FALSE])

-----------------------------------------------------------------------------
(* The statements. *)

\* A change of the table while the dashboard is counting.
Counted == between' = IF Len(dash) \in 1 .. 4 THEN between + 1 ELSE between

GenerateStaffID(p) ==
  /\ req[p].pc = "generate"
  /\ \E id \in GeneratedIDs(Members, MayFail) \cap StaffIDs :
       req' = [req EXCEPT ![p] = [pc |-> "insert", id |-> id, email |-> req[p].email,
                 portal |-> req[p].portal, role |-> req[p].role, seen |-> req[p].seen]]
  /\ UNCHANGED <<tables, dash, requests, ghosts>>

\* What is to be written in the audit log, and told, when a statement is done.
AuditStaff(r, action, from, moved) ==
  [pc |-> "audit", id |-> r.id, email |-> r.email,
   entry |-> [action |-> action, id |-> r.id, portal |-> r.portal,
              from |-> from, moved |-> moved]]

\* The primary key refuses an identifier that is taken, and the invitation
\* fails.  (Mutant: INSERT IGNORE.)
AfterDuplicateMutant(r) == AuditStaff(r, "staff_added", r.portal, FALSE)
AfterDuplicate(r) == Idle

InsertStaff(p) ==
  /\ req[p].pc = "insert"
  /\ LET r == req[p] IN
     IF staff[r.id] = NoRow
     THEN /\ staff' = [staff EXCEPT ![r.id] =
                         [email |-> r.email, portal |-> r.portal, role |-> r.role,
                          status |-> "invited", seen |-> r.seen]]
          /\ req' = [req EXCEPT ![p] = AuditStaff(r, "staff_added", r.portal, FALSE)]
          /\ Counted
     ELSE /\ req' = [req EXCEPT ![p] = AfterDuplicate(r)]
          /\ UNCHANGED <<staff, between>>
  /\ UNCHANGED <<audit, dash, requests, told, mishap>>

\* UPDATE staff SET portal, role: both columns at once, of a member that may
\* have been removed since.  (Mutants: the role alone; with a new invitation.)
RoleOnlyMutant(row, r) == [row EXCEPT !.role = r.role]
ReinvitedMutant(row, r) ==
  [row EXCEPT !.portal = r.portal, !.role = r.role, !.status = "invited"]
ReRoled(row, r) == [row EXCEPT !.portal = r.portal, !.role = r.role]

UpdateStaffRole(p) ==
  /\ req[p].pc = "role"
  /\ LET r == req[p] IN
     /\ staff' = [staff EXCEPT ![r.id] = ReRoled(@, r)]
     /\ req' = [q \in Slots |->
                  CASE q = p -> Idle
                    [] q # p /\ req[q].pc = "remove" /\ req[q].id = r.id
                         -> [req[q] EXCEPT !.moved = TRUE]
                    [] OTHER -> req[q]]
  /\ Counted
  /\ UNCHANGED <<audit, dash, requests, told, mishap>>

\* UPDATE staff SET status = 'deleted'.
SoftDeleteStaff(p) ==
  /\ req[p].pc = "remove"
  /\ LET r == req[p] IN
     /\ staff' = [staff EXCEPT ![r.id].status = "deleted"]
     /\ req' = [req EXCEPT ![p] =
                  AuditStaff(r, "staff_removed", staff[r.id].portal, r.moved)]
  /\ Counted
  /\ UNCHANGED <<audit, dash, requests, told, mishap>>

\* A statement fails: 500, and nothing has changed.
StatementFails(p) ==
  /\ MayFail
  /\ req[p].pc \in {"insert", "role", "remove"}
  /\ req' = [req EXCEPT ![p] = Idle]
  /\ UNCHANGED <<tables, dash, requests, ghosts>>

-----------------------------------------------------------------------------
(* insertAuditLog, whose failure is only logged, and the 200.  A role      *)
(* change writes no audit row.                                             *)

Answers(p) ==
  /\ req' = [req EXCEPT ![p] = Idle]
  /\ told' = told \cup {[action |-> req[p].entry.action, id |-> req[p].id,
                        email |-> req[p].email]}

GenerateAuditLogID(p) ==
  /\ req[p].pc = "audit"
  /\ \E key \in GeneratedIDs(Entries, MayFail) \cap AuditIDs :
       req' = [req EXCEPT ![p] = [pc |-> "log", id |-> req[p].id, email |-> req[p].email,
                 entry |-> req[p].entry, key |-> key]]
  /\ UNCHANGED <<tables, dash, requests, ghosts>>

InsertAuditLog(p) ==
  /\ req[p].pc = "log"
  /\ LET key == req[p].key IN
     IF audit[key] = NoEntry
     THEN audit' = [audit EXCEPT ![key] = req[p].entry] /\ UNCHANGED mishap
     ELSE mishap' = TRUE /\ UNCHANGED audit
  /\ Answers(p)
  /\ UNCHANGED <<staff, dash, requests, between>>

InsertAuditLogFails(p) ==
  /\ MayFail
  /\ req[p].pc = "log"
  /\ mishap' = TRUE
  /\ Answers(p)
  /\ UNCHANGED <<tables, dash, requests, between>>

-----------------------------------------------------------------------------
(* The dashboard: staffCounts, then staffTotals, each a query of its own.  *)

InPortal(portal) == {s \in Members : staff[s].portal = portal /\ Present(s)}
WithStatus(st)   == {s \in Members : staff[s].status = st}

\* (Mutant: the total counts the deleted.)
EveryMemberMutant == Members
EveryMember == {s \in Members : Present(s)}

Counts ==
  <<InPortal("issuer"), InPortal("verifier"), EveryMember,
    WithStatus("active"), WithStatus("invited")>>

\* (A query that fails leaves a zero; such a dashboard is left out.)
ReadCount ==
  /\ Len(dash) < 5
  /\ dash' = Append(dash, Cardinality(Counts[Len(dash) + 1]))
  /\ UNCHANGED <<tables, req, requests, ghosts>>

ShowDashboard ==
  /\ Len(dash) = 5
  /\ dash' = <<>>
  /\ between' = 0
  /\ UNCHANGED <<tables, req, requests, told, mishap>>

BackendRestarts ==
  /\ MayFail
  /\ req' = [p \in Slots |-> Idle]
  /\ dash' = <<>>
  /\ between' = 0
  /\ mishap' = (mishap \/ \E p \in Slots : req[p].pc \in {"audit", "log"})
  /\ UNCHANGED <<tables, requests, told>>

-----------------------------------------------------------------------------
SlotStep(p) ==
  \/ \E e \in Emails, portal \in Portals, role \in Roles : Invite(p, e, portal, role)
  \/ \E s \in StaffIDs, portal \in Portals, role \in Roles : ChangeRole(p, s, portal, role)
  \/ \E s \in StaffIDs, portal \in Portals : Remove(p, s, portal)
  \/ GenerateStaffID(p)
  \/ InsertStaff(p)
  \/ UpdateStaffRole(p)
  \/ SoftDeleteStaff(p)
  \/ StatementFails(p)
  \/ GenerateAuditLogID(p)
  \/ InsertAuditLog(p)
  \/ InsertAuditLogFails(p)

StaffNext ==
  \/ \E p \in Slots : SlotStep(p)
  \/ ReadCount
  \/ ShowDashboard
  \/ BackendRestarts

StaffSpec == StaffInit /\ [][StaffNext]_vars

-----------------------------------------------------------------------------
\* Rows and requests are well formed.  A member's role fits the member's
\* portal whatever role changes overlap, and administrators are the seeded
\* ones, fewer as their roles are changed.
StaffTypeOK ==
  /\ \A s \in Members :
       /\ staff[s].email \in Emails /\ staff[s].portal \in Portals
       /\ staff[s].status \in {"active", "invited", "deleted"}
       /\ staff[s].seen \subseteq StaffIDs
       /\ \/ staff[s].role \in RolesOf[staff[s].portal]
          \/ staff[s].role = "admin" /\ s \in {1, 2}
  /\ \A a \in Entries : audit[a].action \in {"staff_added", "staff_removed"}
                        /\ audit[a].id \in Members
  /\ \A p \in Slots : req[p].pc \in {"idle", "generate", "insert", "role", "remove",
                                     "audit", "log"}
  /\ requests \in 0 .. MaxRequests

\* handleInviteStaff refuses an email that is in the table.  Two members have
\* one email only if neither was there when the other's was looked up, which
\* takes overlapping invitations; who has been a member is never invited
\* again, also after a removal.
InvitedOnce ==
  \A s, t \in Members : staff[s].email = staff[t].email /\ s # t => t \notin staff[s].seen

\* What a 200 told the portal stays so: the identifier belongs to the person
\* invited or removed, and who was removed is not brought back, neither by a
\* role change that found the member still there nor by a new invitation.
AnswersHold ==
  \A a \in told :
    /\ a.id \in Members /\ staff[a.id].email = a.email
    /\ a.action = "staff_removed" => staff[a.id].status = "deleted"

\* The audit log tells what happened: an entry stands for an invitation or a
\* removal that was made, a removal is from the portal the member was in
\* unless a role change came between, and one member has more than one only
\* of removals that overlapped.  Short of a failure, or a race for the key,
\* every invitation and removal that was answered has its entry.
AuditTrue ==
  /\ \A a \in Entries : audit[a].action = "staff_removed" =>
       /\ staff[audit[a].id].status = "deleted"
       /\ audit[a].portal = audit[a].from \/ audit[a].moved
  /\ \A s \in Members :
       LET Of(action) == {a \in Entries : audit[a].id = s /\ audit[a].action = action} IN
       /\ Cardinality(Of("staff_added")) <= 1
       /\ Cardinality(Of("staff_removed")) <= Cardinality(Slots)
  /\ ~mishap => \A t \in told :
       \E a \in Entries : audit[a].id = t.id /\ audit[a].action = t.action

\* The dashboard's figures are read one by one: they fit together when the
\* table stood still between the first and the last, and are off by no more
\* than the number of changes made meanwhile.
DashboardAddsUp ==
  Len(dash) = 5 =>
    LET Near(k) == dash[3] - between <= k /\ k <= dash[3] + between
    IN Near(dash[1] + dash[2]) /\ Near(dash[4] + dash[5])
=============================================================================
