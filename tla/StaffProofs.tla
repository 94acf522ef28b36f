----------------------------- MODULE StaffProofs -----------------------------
(***************************************************************************)
(* What the staff handlers and the dashboard promise, for every number of  *)
(* requests, members and slots, with statements that fail and restarts.    *)
(***************************************************************************)
EXTENDS Staff, FiniteSetTheorems, SequenceTheorems, TLAPS

-----------------------------------------------------------------------------
(* The inductive invariant. *)

StaffRows == [email : Emails, portal : Portals, role : Roles \cup {"admin"},
              status : {"active", "invited", "deleted"}, seen : SUBSET StaffIDs]

AuditRows == [action : {"staff_added", "staff_removed"}, id : StaffIDs, portal : Portals,
              from : Portals, moved : BOOLEAN]

Generating  == [pc : {"generate"}, email : Emails, portal : Portals, role : Roles,
                seen : SUBSET StaffIDs]
Inserting   == [pc : {"insert"}, id : StaffIDs, email : Emails, portal : Portals,
                role : Roles, seen : SUBSET StaffIDs]
RoleChanges == [pc : {"role"}, id : StaffIDs, portal : Portals, role : Roles]
Removals    == [pc : {"remove"}, id : StaffIDs, email : Emails, portal : Portals,
                moved : BOOLEAN]
Auditing    == [pc : {"audit"}, id : StaffIDs, email : Emails, entry : AuditRows]
Logging     == [pc : {"log"}, id : StaffIDs, email : Emails, entry : AuditRows,
                key : AuditIDs]

Typed ==
  /\ staff \in [StaffIDs -> {NoRow} \cup StaffRows]
  /\ audit \in [AuditIDs -> {NoEntry} \cup AuditRows]
  /\ req \in [Slots -> {Idle} \cup Generating \cup Inserting \cup RoleChanges
                         \cup Removals \cup Auditing \cup Logging]
  /\ requests \in 0 .. MaxRequests
  /\ told \subseteq [action : {"staff_added", "staff_removed"}, id : StaffIDs, email : Emails]
  /\ mishap \in BOOLEAN

\* A role fits the portal it is given with.
RolesFit ==
  /\ \A s \in Members : \/ staff[s].role \in RolesOf[staff[s].portal]
                        \/ staff[s].role = "admin" /\ s \in {1, 2}
  /\ \A p \in Slots : req[p].pc \in {"generate", "insert", "role"} =>
       req[p].role \in RolesOf[req[p].portal]

\* Who was there when an email was looked up is a member, with another email.
Looked(email, seen) == \A t \in seen : t \in Members /\ staff[t].email # email

EmailsSeen ==
  /\ \A s \in Members : staff[s].seen \subseteq Members
  /\ \A s, t \in Members : staff[s].email = staff[t].email /\ s # t => t \notin staff[s].seen
  /\ \A p \in Slots : req[p].pc \in {"generate", "insert"} => Looked(req[p].email, req[p].seen)

\* The subject of a request, an entry or an answer.
Subject(id, email) == id \in Members /\ staff[id].email = email

\* An entry tells what was done to its member.
TrueEntry(e) ==
  /\ e.id \in Members
  /\ e.action = "staff_removed" =>
       staff[e.id].status = "deleted" /\ (e.portal = e.from \/ e.moved)

Subjects ==
  /\ \A p \in Slots : req[p].pc = "role" => req[p].id \in Members
  /\ \A p \in Slots : req[p].pc = "remove" =>
       /\ Subject(req[p].id, req[p].email)
       /\ staff[req[p].id].portal = req[p].portal \/ req[p].moved
  /\ \A p \in Slots : req[p].pc \in {"audit", "log"} =>
       Subject(req[p].id, req[p].email) /\ req[p].entry.id = req[p].id /\ TrueEntry(req[p].entry)
  /\ \A a \in Entries : TrueEntry(audit[a])
  /\ \A a \in told :
       Subject(a.id, a.email) /\ (a.action = "staff_removed" => staff[a.id].status = "deleted")
  /\ ~mishap => \A t \in told :
       \E a \in Entries : audit[a].id = t.id /\ audit[a].action = t.action

\* The slots whose entry about s is still to be written, and the entries written.
Writing(s, action) ==
  {p \in Slots : /\ req[p].pc \in {"audit", "log"}
                 /\ req[p].entry.id = s /\ req[p].entry.action = action}
Written(s, action) == {a \in Entries : audit[a].id = s /\ audit[a].action = action}

\* An invitation is logged once at most.
AddedOnce ==
  \A s \in StaffIDs :
    /\ \A p, q \in Writing(s, "staff_added") : p = q
    /\ \A a, b \in Written(s, "staff_added") : a = b
    /\ Writing(s, "staff_added") = {} \/ Written(s, "staff_added") = {}

\* Removals of s that are under way or whose entry is still to be written.
Removing(s) ==
  {p \in Slots : req[p].pc = "remove" /\ req[p].id = s} \cup Writing(s, "staff_removed")

\* Only removals that found s present together are logged.
RemovedTogether ==
  \A s \in StaffIDs :
    Cardinality(Removing(s)) + Cardinality(Written(s, "staff_removed")) <= Cardinality(Slots)

\* What the dashboard has read is off by the changes since, at each count.
Off(a, b) == a - between <= b /\ b <= a + between
Now(i) == Cardinality(Counts[i])
Figures == dash \in Seq(Nat)

DashFits ==
  /\ Figures /\ Len(dash) <= 5
  /\ between \in Nat
  /\ Len(dash) = 0 => between = 0
  /\ Len(dash) = 1 => Off(dash[1], Now(1))
  /\ Len(dash) = 2 => Off(dash[1] + dash[2], Now(3))
  /\ Len(dash) \in {3, 4, 5} => Off(dash[3], dash[1] + dash[2])
  /\ Len(dash) = 3 => Off(dash[3], Now(3))
  /\ Len(dash) = 4 => Off(dash[3], dash[4] + Now(5))
  /\ Len(dash) = 5 => Off(dash[3], dash[4] + dash[5])

StaffInv ==
  Typed /\ RolesFit /\ EmailsSeen /\ Subjects /\ AddedOnce /\ RemovedTogether /\ DashFits

-----------------------------------------------------------------------------
(* Types. *)

LEMMA RequestKinds ==
  ASSUME Typed, NEW p \in Slots
  PROVE  /\ req[p].pc = "generate" => req[p] \in Generating
         /\ req[p].pc = "insert" => req[p] \in Inserting
         /\ req[p].pc = "role" => req[p] \in RoleChanges
         /\ req[p].pc = "remove" => req[p] \in Removals
         /\ req[p].pc = "audit" => req[p] \in Auditing
         /\ req[p].pc = "log" => req[p] \in Logging
         /\ req[p].pc = "idle" => req[p] = Idle
         /\ req[p].pc \in {"idle", "generate", "insert", "role", "remove", "audit", "log"}
BY DEF Typed, Idle, Generating, Inserting, RoleChanges, Removals, Auditing, Logging

LEMMA RowsAreRows ==
  /\ NoRow \notin StaffRows /\ NoEntry \notin AuditRows
  /\ Typed => /\ \A s \in Members : staff[s] \in StaffRows
              /\ \A a \in Entries : audit[a] \in AuditRows
<1>1. NoRow \notin StaffRows
  BY DEF NoRow, StaffRows
<1>2. NoEntry \notin AuditRows
  BY DEF NoEntry, AuditRows
<1> QED
  BY <1>1, <1>2 DEF Typed, Members, Entries

LEMMA AuditStaffTyped ==
  ASSUME NEW r, r.id \in StaffIDs, r.email \in Emails, r.portal \in Portals,
         NEW action \in {"staff_added", "staff_removed"}, NEW from \in Portals,
         NEW moved \in BOOLEAN
  PROVE  /\ AuditStaff(r, action, from, moved) \in Auditing
         /\ AuditStaff(r, action, from, moved).pc = "audit"
         /\ AuditStaff(r, action, from, moved).id = r.id
         /\ AuditStaff(r, action, from, moved).email = r.email
         /\ AuditStaff(r, action, from, moved).entry.action = action
         /\ AuditStaff(r, action, from, moved).entry.id = r.id
         /\ AuditStaff(r, action, from, moved).entry.portal = r.portal
         /\ AuditStaff(r, action, from, moved).entry.from = from
         /\ AuditStaff(r, action, from, moved).entry.moved = moved
BY DEF AuditStaff, Auditing, AuditRows

LEMMA RolesOfTyped ==
  \A portal \in Portals : RolesOf[portal] \subseteq Roles
BY DEF RolesOf, Roles, Portals

AllRequests == {Idle} \cup Generating \cup Inserting \cup RoleChanges
                 \cup Removals \cup Auditing \cup Logging

\* What a slot takes on, and how it goes on.
LEMMA TypedTake ==
  ASSUME Typed, NEW p \in Slots, NEW r \in AllRequests, Take(p, r)
  PROVE  /\ Typed'
         /\ req'[p] = r /\ \A q \in Slots \ {p} : req'[q] = req[q]
         /\ UNCHANGED <<staff, audit, told, mishap, dash, between>>
BY StaffBounds DEF Take, Typed, AllRequests, tables, ghosts

LEMMA InvitedRequest ==
  ASSUME Typed, NEW p \in Slots, NEW e \in Emails, NEW portal \in Portals, NEW role,
         Invite(p, e, portal, role)
  PROVE  /\ Typed' /\ req'[p] \in Generating /\ req'[p].email = e /\ req'[p].seen = Members
         /\ req'[p].role \in RolesOf[req'[p].portal] /\ ~EmailExists(e)
         /\ \A q \in Slots \ {p} : req'[q] = req[q]
         /\ UNCHANGED <<staff, audit, told, mishap, dash, between>>
<1> DEFINE r == [pc |-> "generate", email |-> e, portal |-> portal, role |-> role,
                 seen |-> Members]
<1>1. r \in Generating
  BY RolesOfTyped DEF Invite, Generating, Members
<1>2. r \in AllRequests /\ Take(p, r) /\ r.email = e /\ r.seen = Members /\ r.portal = portal
      /\ r.role = role
  BY <1>1 DEF Invite, AllRequests
<1> HIDE DEF r
<1> QED
  BY <1>1, <1>2, TypedTake DEF Invite

LEMMA RoleRequest ==
  ASSUME Typed, NEW p \in Slots, NEW s \in StaffIDs, NEW portal \in Portals, NEW role,
         ChangeRole(p, s, portal, role)
  PROVE  /\ Typed' /\ req'[p] \in RoleChanges /\ req'[p].id = s
         /\ req'[p].role \in RolesOf[req'[p].portal] /\ Present(s)
         /\ \A q \in Slots \ {p} : req'[q] = req[q]
         /\ UNCHANGED <<staff, audit, told, mishap, dash, between>>
<1> DEFINE r == [pc |-> "role", id |-> s, portal |-> portal, role |-> role]
<1>1. r \in RoleChanges
  BY RolesOfTyped DEF ChangeRole, RoleChanges
<1>2. r \in AllRequests /\ Take(p, r) /\ r.id = s /\ r.portal = portal /\ r.role = role
  BY <1>1 DEF ChangeRole, AllRequests
<1> HIDE DEF r
<1> QED
  BY <1>1, <1>2, TypedTake DEF ChangeRole

LEMMA RemoveRequest ==
  ASSUME Typed, NEW p \in Slots, NEW s \in StaffIDs, NEW portal \in Portals,
         Remove(p, s, portal)
  PROVE  /\ Typed' /\ req'[p] \in Removals /\ req'[p].id = s
         /\ Present(s) /\ req'[p].email = staff[s].email /\ req'[p].portal = staff[s].portal
         /\ \A q \in Slots \ {p} : req'[q] = req[q]
         /\ UNCHANGED <<staff, audit, told, mishap, dash, between>>
<1> DEFINE r == [pc |-> "remove", id |-> s, email |-> staff[s].email, portal |-> portal,
                 moved |-> FALSE]
<1>0. staff[s] \in StaffRows
  BY RowsAreRows DEF Remove, Present
<1>1. r \in Removals
  BY <1>0 DEF Removals, StaffRows
<1>2. r \in AllRequests /\ Take(p, r) /\ r.id = s /\ r.portal = portal
      /\ r.email = staff[s].email
  BY <1>1 DEF Remove, AllRequests
<1> HIDE DEF r
<1> QED
  BY <1>1, <1>2, TypedTake DEF Remove, SamePortal

LEMMA GeneratedRequest ==
  ASSUME Typed, NEW p \in Slots, GenerateStaffID(p)
  PROVE  /\ Typed' /\ req[p] \in Generating /\ req'[p] \in Inserting
         /\ req'[p].email = req[p].email /\ req'[p].portal = req[p].portal
         /\ req'[p].role = req[p].role /\ req'[p].seen = req[p].seen
         /\ \A q \in Slots \ {p} : req'[q] = req[q]
         /\ UNCHANGED <<staff, audit, told, mishap, dash, between>>
<1>1. req[p] \in Generating
  BY RequestKinds DEF GenerateStaffID
<1>2. PICK id \in StaffIDs :
        req' = [req EXCEPT ![p] = [pc |-> "insert", id |-> id, email |-> req[p].email,
                  portal |-> req[p].portal, role |-> req[p].role, seen |-> req[p].seen]]
  BY DEF GenerateStaffID
<1> DEFINE r == [pc |-> "insert", id |-> id, email |-> req[p].email,
                  portal |-> req[p].portal, role |-> req[p].role, seen |-> req[p].seen]
<1>3. r \in Inserting
  BY <1>1 DEF Generating, Inserting
<1>4. r.email = req[p].email /\ r.portal = req[p].portal /\ r.role = req[p].role
      /\ r.seen = req[p].seen /\ req' = [req EXCEPT ![p] = r]
  BY <1>2
<1> HIDE DEF r
<1> QED
  BY <1>1, <1>3, <1>4 DEF GenerateStaffID, Typed, tables, ghosts

LEMMA AuditRequest ==
  ASSUME Typed, NEW p \in Slots, GenerateAuditLogID(p)
  PROVE  /\ Typed' /\ req[p] \in Auditing /\ req'[p] \in Logging
         /\ req'[p].email = req[p].email /\ req'[p].id = req[p].id
         /\ req'[p].entry = req[p].entry
         /\ \A q \in Slots \ {p} : req'[q] = req[q]
         /\ UNCHANGED <<staff, audit, told, mishap, dash, between>>
<1>1. req[p] \in Auditing
  BY RequestKinds DEF GenerateAuditLogID
<1>2. PICK key \in AuditIDs :
        req' = [req EXCEPT ![p] = [pc |-> "log", id |-> req[p].id, email |-> req[p].email,
                  entry |-> req[p].entry, key |-> key]]
  BY DEF GenerateAuditLogID
<1> DEFINE r == [pc |-> "log", id |-> req[p].id, email |-> req[p].email,
                 entry |-> req[p].entry, key |-> key]
<1>3. r \in Logging
  BY <1>1 DEF Auditing, Logging
<1>4. r.email = req[p].email /\ r.id = req[p].id /\ r.entry = req[p].entry
      /\ req' = [req EXCEPT ![p] = r]
  BY <1>2
<1> HIDE DEF r
<1> QED
  BY <1>1, <1>3, <1>4 DEF GenerateAuditLogID, Typed, tables, ghosts

\* The statements that change the table.
LEMMA InsertedRow ==
  ASSUME Typed, NEW p \in Slots, InsertStaff(p)
  PROVE  /\ Typed' /\ req[p] \in Inserting
         /\ \A q \in Slots \ {p} : req'[q] = req[q]
         /\ UNCHANGED <<audit, told, mishap, dash>>
         /\ \/ req'[p] = Idle /\ UNCHANGED <<staff, between>>
            \/ /\ staff[req[p].id] = NoRow /\ Counted
               /\ staff'[req[p].id] = [email |-> req[p].email, portal |-> req[p].portal,
                    role |-> req[p].role, status |-> "invited", seen |-> req[p].seen]
               /\ staff'[req[p].id] \in StaffRows
               /\ \A s \in StaffIDs \ {req[p].id} : staff'[s] = staff[s]
               /\ req'[p] = AuditStaff(req[p], "staff_added", req[p].portal, FALSE)
<1>1. req[p] \in Inserting
  BY RequestKinds DEF InsertStaff
<1> DEFINE row == [email |-> req[p].email, portal |-> req[p].portal, role |-> req[p].role,
                   status |-> "invited", seen |-> req[p].seen]
<1>2. row \in StaffRows /\ req[p].id \in StaffIDs /\ req[p].portal \in Portals
      /\ req[p].email \in Emails
  BY <1>1 DEF Inserting, StaffRows
<1>3. AuditStaff(req[p], "staff_added", req[p].portal, FALSE) \in Auditing
  BY <1>2, AuditStaffTyped
<1>4. CASE staff[req[p].id] = NoRow
  <2>1. /\ staff' = [staff EXCEPT ![req[p].id] = row]
        /\ req' = [req EXCEPT ![p] = AuditStaff(req[p], "staff_added", req[p].portal, FALSE)]
        /\ Counted /\ UNCHANGED <<audit, dash, requests, told, mishap>>
    BY <1>4 DEF InsertStaff
  <2> HIDE DEF row
  <2>2. Typed'
    BY <1>2, <1>3, <2>1 DEF Typed
  <2>3. staff'[req[p].id] = row /\ \A s \in StaffIDs \ {req[p].id} : staff'[s] = staff[s]
    BY <1>2, <2>1 DEF Typed
  <2>4. req'[p] = AuditStaff(req[p], "staff_added", req[p].portal, FALSE)
        /\ \A q \in Slots \ {p} : req'[q] = req[q]
    BY <2>1 DEF Typed
  <2> QED
    BY <1>1, <1>2, <1>4, <2>1, <2>2, <2>3, <2>4 DEF row
<1>5. CASE staff[req[p].id] # NoRow
  <2>1. /\ req' = [req EXCEPT ![p] = Idle]
        /\ UNCHANGED <<staff, between, audit, dash, requests, told, mishap>>
    BY <1>5 DEF InsertStaff, AfterDuplicate
  <2> QED
    BY <1>1, <2>1 DEF Typed
<1> QED
  BY <1>4, <1>5

LEMMA ReRoledRow ==
  ASSUME Typed, Subjects, NEW p \in Slots, UpdateStaffRole(p)
  PROVE  /\ Typed' /\ req[p] \in RoleChanges /\ req'[p] = Idle
         /\ \A q \in Slots \ {p} :
              IF req[q].pc = "remove" /\ req[q].id = req[p].id
              THEN /\ req'[q] \in Removals /\ req'[q].id = req[q].id
                   /\ req'[q].email = req[q].email /\ req'[q].moved
              ELSE req'[q] = req[q]
         /\ UNCHANGED <<audit, told, mishap, dash>> /\ Counted
         /\ req[p].id \in Members
         /\ staff'[req[p].id] \in StaffRows
         /\ staff'[req[p].id].email = staff[req[p].id].email
         /\ staff'[req[p].id].seen = staff[req[p].id].seen
         /\ staff'[req[p].id].status = staff[req[p].id].status
         /\ staff'[req[p].id].portal = req[p].portal
         /\ staff'[req[p].id].role = req[p].role
         /\ \A s \in StaffIDs \ {req[p].id} : staff'[s] = staff[s]
<1>1. req[p] \in RoleChanges /\ req[p].id \in Members
  BY RequestKinds DEF UpdateStaffRole, Subjects
<1>2. req[p].id \in StaffIDs /\ req[p].portal \in Portals /\ req[p].role \in Roles
      /\ staff[req[p].id] \in StaffRows
  BY <1>1, RowsAreRows DEF RoleChanges, Members
<1> DEFINE row == ReRoled(staff[req[p].id], req[p])
<1>3. /\ row \in StaffRows /\ row.email = staff[req[p].id].email
      /\ row.seen = staff[req[p].id].seen /\ row.status = staff[req[p].id].status
      /\ row.portal = req[p].portal /\ row.role = req[p].role
  BY <1>2 DEF ReRoled, StaffRows
<1>4. staff' = [staff EXCEPT ![req[p].id] = row]
  BY DEF UpdateStaffRole
<1> HIDE DEF row
<1>5. staff'[req[p].id] = row /\ \A s \in StaffIDs \ {req[p].id} : staff'[s] = staff[s]
  BY <1>2, <1>4 DEF Typed
<1>6. ASSUME NEW q \in Slots
      PROVE  req'[q] = IF q = p THEN Idle
                       ELSE IF req[q].pc = "remove" /\ req[q].id = req[p].id
                            THEN [req[q] EXCEPT !.moved = TRUE] ELSE req[q]
  BY DEF UpdateStaffRole
<1>7. ASSUME NEW q \in Slots, req[q].pc = "remove"
      PROVE  LET r == [req[q] EXCEPT !.moved = TRUE]
             IN  r \in Removals /\ r.id = req[q].id /\ r.email = req[q].email /\ r.moved
  <2>1. req[q] \in Removals
    BY <1>7, RequestKinds
  <2> QED
    BY <2>1 DEF Removals
<1>8. Typed'
  <2>1. req' \in [Slots -> AllRequests]
    <3>1. \A q \in Slots : req'[q] \in AllRequests
      BY <1>6, <1>7 DEF Typed, AllRequests
    <3>2. DOMAIN req' = Slots /\ req' = [q \in Slots |-> req'[q]]
      BY DEF UpdateStaffRole
    <3> QED
      BY <3>1, <3>2
  <2> QED
    BY <1>2, <1>3, <1>4, <2>1 DEF UpdateStaffRole, Typed, AllRequests
<1> QED
  BY <1>1, <1>3, <1>5, <1>6, <1>7, <1>8 DEF UpdateStaffRole

LEMMA DeletedRow ==
  ASSUME Typed, Subjects, NEW p \in Slots, SoftDeleteStaff(p)
  PROVE  /\ Typed' /\ req[p] \in Removals
         /\ req'[p] = AuditStaff(req[p], "staff_removed", staff[req[p].id].portal, req[p].moved)
         /\ \A q \in Slots \ {p} : req'[q] = req[q]
         /\ UNCHANGED <<audit, told, mishap, dash>> /\ Counted
         /\ req[p].id \in Members
         /\ staff'[req[p].id] \in StaffRows
         /\ staff'[req[p].id].email = staff[req[p].id].email
         /\ staff'[req[p].id].seen = staff[req[p].id].seen
         /\ staff'[req[p].id].status = "deleted"
         /\ staff'[req[p].id].portal = staff[req[p].id].portal
         /\ staff'[req[p].id].role = staff[req[p].id].role
         /\ \A s \in StaffIDs \ {req[p].id} : staff'[s] = staff[s]
<1>1. req[p] \in Removals /\ req[p].id \in Members
  BY RequestKinds DEF SoftDeleteStaff, Subjects, Subject
<1>2. /\ req[p].id \in StaffIDs /\ req[p].portal \in Portals /\ req[p].email \in Emails
      /\ req[p].moved \in BOOLEAN
      /\ staff[req[p].id] \in StaffRows
  BY <1>1, RowsAreRows DEF Removals, Members
<1> DEFINE row == [staff[req[p].id] EXCEPT !.status = "deleted"]
           audited == AuditStaff(req[p], "staff_removed", staff[req[p].id].portal, req[p].moved)
<1>3. /\ row \in StaffRows /\ row.email = staff[req[p].id].email
      /\ row.seen = staff[req[p].id].seen /\ row.portal = staff[req[p].id].portal
      /\ row.role = staff[req[p].id].role /\ row.status = "deleted"
      /\ staff[req[p].id].portal \in Portals
  BY <1>2 DEF StaffRows
<1>4. audited \in Auditing
  BY <1>2, <1>3, AuditStaffTyped
<1>5. staff' = [staff EXCEPT ![req[p].id] = row] /\ req' = [req EXCEPT ![p] = audited]
      /\ UNCHANGED <<audit, told, mishap, dash, requests>> /\ Counted
  BY DEF SoftDeleteStaff
<1> HIDE DEF row, audited
<1>6. staff'[req[p].id] = row /\ \A s \in StaffIDs \ {req[p].id} : staff'[s] = staff[s]
  BY <1>2, <1>5 DEF Typed
<1>7. req'[p] = audited /\ \A q \in Slots \ {p} : req'[q] = req[q]
  BY <1>5 DEF Typed
<1>8. Typed'
  BY <1>2, <1>3, <1>4, <1>5 DEF Typed
<1> QED
  BY <1>1, <1>3, <1>5, <1>6, <1>7, <1>8 DEF audited

\* The statement that writes the log, and the answer.
LEMMA LoggedEntry ==
  ASSUME Typed, NEW p \in Slots, InsertAuditLog(p) \/ InsertAuditLogFails(p)
  PROVE  /\ Typed' /\ req[p] \in Logging /\ req'[p] = Idle
         /\ \A q \in Slots \ {p} : req'[q] = req[q]
         /\ UNCHANGED <<staff, dash, between>>
         /\ told' = told \cup {[action |-> req[p].entry.action, id |-> req[p].id,
                               email |-> req[p].email]}
         /\ \/ mishap' /\ audit' = audit
            \/ /\ mishap' = mishap
               /\ \E key \in AuditIDs : /\ audit[key] = NoEntry /\ audit'[key] = req[p].entry
                                        /\ \A a \in AuditIDs \ {key} : audit'[a] = audit[a]
<1>1. req[p] \in Logging
  BY RequestKinds DEF InsertAuditLog, InsertAuditLogFails
<1>2. /\ req[p].key \in AuditIDs /\ req[p].entry \in AuditRows /\ req[p].id \in StaffIDs
      /\ req[p].email \in Emails /\ req[p].entry.action \in {"staff_added", "staff_removed"}
  BY <1>1 DEF Logging, AuditRows
<1>3. /\ req' = [req EXCEPT ![p] = Idle] /\ UNCHANGED <<staff, dash, between, requests>>
      /\ told' = told \cup {[action |-> req[p].entry.action, id |-> req[p].id,
                            email |-> req[p].email]}
  BY DEF InsertAuditLog, InsertAuditLogFails, Answers, tables
<1>4. \/ mishap' = TRUE /\ audit' = audit
      \/ /\ mishap' = mishap /\ audit[req[p].key] = NoEntry
         /\ audit' = [audit EXCEPT ![req[p].key] = req[p].entry]
  BY DEF InsertAuditLog, InsertAuditLogFails, tables
<1>5. Typed'
  <2>1. audit' \in [AuditIDs -> {NoEntry} \cup AuditRows]
    BY <1>2, <1>4 DEF Typed
  <2>2. told' \subseteq [action : {"staff_added", "staff_removed"}, id : StaffIDs, email : Emails]
    BY <1>2, <1>3 DEF Typed
  <2>3. mishap' \in BOOLEAN
    BY <1>4 DEF Typed
  <2> QED
    BY <1>3, <2>1, <2>2, <2>3 DEF Typed
<1>6. req'[p] = Idle /\ \A q \in Slots \ {p} : req'[q] = req[q]
  BY <1>3 DEF Typed
<1>7. \/ mishap' /\ audit' = audit
      \/ /\ mishap' = mishap
         /\ \E key \in AuditIDs : /\ audit[key] = NoEntry /\ audit'[key] = req[p].entry
                                  /\ \A a \in AuditIDs \ {key} : audit'[a] = audit[a]
  BY <1>2, <1>4 DEF Typed
<1> QED
  BY <1>1, <1>3, <1>5, <1>6, <1>7

LEMMA FailedRequest ==
  ASSUME Typed, NEW p \in Slots, StatementFails(p)
  PROVE  /\ Typed' /\ req'[p] = Idle /\ \A q \in Slots \ {p} : req'[q] = req[q]
         /\ UNCHANGED <<staff, audit, told, mishap, dash, between>>
BY DEF StatementFails, Typed, tables, ghosts

LEMMA RestartedBackend ==
  ASSUME Typed, BackendRestarts
  PROVE  /\ Typed' /\ \A q \in Slots : req'[q] = Idle
         /\ UNCHANGED <<staff, audit, told>> /\ (mishap => mishap')
         /\ dash' = <<>> /\ between' = 0
BY DEF BackendRestarts, Typed, tables

-----------------------------------------------------------------------------
(* What a step may do to a request and to the members. *)

Asks(q) ==
  \/ /\ req'[q] \in Generating /\ req'[q].role \in RolesOf[req'[q].portal]
     /\ req'[q].seen = Members /\ ~EmailExists(req'[q].email)
  \/ /\ req'[q] \in RoleChanges /\ req'[q].role \in RolesOf[req'[q].portal]
     /\ Present(req'[q].id)
  \/ /\ req'[q] \in Removals /\ Present(req'[q].id)
     /\ req'[q].email = staff[req'[q].id].email /\ req'[q].portal = staff[req'[q].id].portal

Generated(q) ==
  /\ req[q] \in Generating /\ req'[q] \in Inserting
  /\ req'[q].email = req[q].email /\ req'[q].portal = req[q].portal
  /\ req'[q].role = req[q].role /\ req'[q].seen = req[q].seen

IsMoved(q) ==
  /\ req[q] \in Removals /\ req'[q] \in Removals /\ req'[q].id = req[q].id
  /\ req'[q].email = req[q].email /\ req'[q].moved

Keyed(q) ==
  /\ req[q] \in Auditing /\ req'[q] \in Logging
  /\ req'[q].email = req[q].email /\ req'[q].id = req[q].id /\ req'[q].entry = req[q].entry

Inserts(p) ==
  /\ InsertStaff(p) /\ req[p] \in Inserting /\ staff[req[p].id] = NoRow
  /\ staff'[req[p].id] = [email |-> req[p].email, portal |-> req[p].portal,
                          role |-> req[p].role, status |-> "invited", seen |-> req[p].seen]
  /\ staff'[req[p].id] \in StaffRows
  /\ req'[p] = AuditStaff(req[p], "staff_added", req[p].portal, FALSE)

Deletes(p) ==
  /\ SoftDeleteStaff(p) /\ req[p] \in Removals
  /\ req'[p] = AuditStaff(req[p], "staff_removed", staff[req[p].id].portal, req[p].moved)

StaffStays == UNCHANGED <<staff, audit, told, mishap>>

RequestGoes(q) ==
  \/ req'[q] = req[q]
  \/ req'[q] = Idle
  \/ Asks(q) /\ req[q] = Idle /\ StaffStays
  \/ Generated(q) /\ StaffStays
  \/ IsMoved(q) /\ \E p \in Slots : UpdateStaffRole(p)
  \/ Keyed(q) /\ StaffStays
  \/ Inserts(q)
  \/ Deletes(q)

LEMMA RequestStep ==
  ASSUME Typed, Subjects, StaffNext, NEW q \in Slots PROVE RequestGoes(q)
<1> SUFFICES ASSUME NEW p \in Slots, SlotStep(p) PROVE RequestGoes(q)
  BY RestartedBackend DEF StaffNext, ReadCount, ShowDashboard, RequestGoes
<1>1. ASSUME NEW e \in Emails, NEW portal \in Portals, NEW role, Invite(p, e, portal, role)
      PROVE  RequestGoes(q)
  BY <1>1, InvitedRequest DEF RequestGoes, Asks, StaffStays, Invite, Take
<1>2. ASSUME NEW s \in StaffIDs, NEW portal \in Portals, NEW role, ChangeRole(p, s, portal, role)
      PROVE  RequestGoes(q)
  BY <1>2, RoleRequest DEF RequestGoes, Asks, StaffStays, ChangeRole, Take
<1>3. ASSUME NEW s \in StaffIDs, NEW portal \in Portals, Remove(p, s, portal)
      PROVE  RequestGoes(q)
  BY <1>3, RemoveRequest DEF RequestGoes, Asks, StaffStays, Remove, Take
<1>4. CASE GenerateStaffID(p)
  BY <1>4, GeneratedRequest DEF RequestGoes, Generated, StaffStays
<1>5. CASE InsertStaff(p)
  BY <1>5, InsertedRow DEF RequestGoes, Inserts
<1>6. CASE UpdateStaffRole(p)
  BY <1>6, ReRoledRow, RequestKinds DEF RequestGoes, IsMoved
<1>7. CASE SoftDeleteStaff(p)
  BY <1>7, DeletedRow DEF RequestGoes, Deletes
<1>8. CASE StatementFails(p)
  BY <1>8, FailedRequest DEF RequestGoes
<1>9. CASE GenerateAuditLogID(p)
  BY <1>9, AuditRequest DEF RequestGoes, Keyed, StaffStays
<1>10. CASE InsertAuditLog(p) \/ InsertAuditLogFails(p)
  BY <1>10, LoggedEntry DEF RequestGoes
<1> QED
  BY <1>1, <1>2, <1>3, <1>4, <1>5, <1>6, <1>7, <1>8, <1>9, <1>10 DEF SlotStep

\* Members stay, with their emails, and the removed stay removed.
SameMember(s) ==
  /\ s \in Members'
  /\ staff'[s].email = staff[s].email /\ staff'[s].seen = staff[s].seen
  /\ staff[s].status = "deleted" => staff'[s].status = "deleted"

StaffChanges ==
  \/ staff' = staff
  \/ \E p \in Slots : /\ Inserts(p)
                      /\ \A s \in StaffIDs \ {req[p].id} : staff'[s] = staff[s]
  \/ \E p \in Slots : /\ UpdateStaffRole(p) /\ req[p] \in RoleChanges /\ req[p].id \in Members
                      /\ staff'[req[p].id] \in StaffRows
                      /\ staff'[req[p].id].email = staff[req[p].id].email
                      /\ staff'[req[p].id].seen = staff[req[p].id].seen
                      /\ staff'[req[p].id].status = staff[req[p].id].status
                      /\ staff'[req[p].id].portal = req[p].portal
                      /\ staff'[req[p].id].role = req[p].role
                      /\ \A s \in StaffIDs \ {req[p].id} : staff'[s] = staff[s]
  \/ \E p \in Slots : /\ Deletes(p) /\ req[p].id \in Members
                      /\ staff'[req[p].id] \in StaffRows
                      /\ staff'[req[p].id].email = staff[req[p].id].email
                      /\ staff'[req[p].id].seen = staff[req[p].id].seen
                      /\ staff'[req[p].id].status = "deleted"
                      /\ staff'[req[p].id].portal = staff[req[p].id].portal
                      /\ staff'[req[p].id].role = staff[req[p].id].role
                      /\ \A s \in StaffIDs \ {req[p].id} : staff'[s] = staff[s]

LEMMA StaffStep ==
  ASSUME Typed, Subjects, StaffNext
  PROVE  /\ StaffChanges /\ Typed'
         /\ dash' = dash \/ (staff' = staff /\ UNCHANGED audit)
         /\ staff' # staff => Counted /\ UNCHANGED <<audit, told, mishap, dash>>
<1> DEFINE Goal == /\ StaffChanges /\ Typed'
                   /\ dash' = dash \/ (staff' = staff /\ UNCHANGED audit)
                   /\ staff' # staff => Counted /\ UNCHANGED <<audit, told, mishap, dash>>
<1>0. ReadCount \/ ShowDashboard \/ BackendRestarts => Goal
  BY RestartedBackend DEF ReadCount, ShowDashboard, tables, ghosts, Typed, StaffChanges
<1> SUFFICES ASSUME NEW p \in Slots, SlotStep(p) PROVE Goal
  BY <1>0 DEF StaffNext
<1>1. CASE \E e \in Emails, portal \in Portals, role \in Roles : Invite(p, e, portal, role)
  BY <1>1, InvitedRequest DEF StaffChanges
<1>2. CASE \E s \in StaffIDs, portal \in Portals, role \in Roles : ChangeRole(p, s, portal, role)
  BY <1>2, RoleRequest DEF StaffChanges
<1>3. CASE \E s \in StaffIDs, portal \in Portals : Remove(p, s, portal)
  BY <1>3, RemoveRequest DEF StaffChanges
<1>4. CASE GenerateStaffID(p)
  BY <1>4, GeneratedRequest DEF StaffChanges
<1>5. CASE InsertStaff(p)
  BY <1>5, InsertedRow DEF StaffChanges, Inserts
<1>6. CASE UpdateStaffRole(p)
  BY <1>6, ReRoledRow DEF StaffChanges
<1>7. CASE SoftDeleteStaff(p)
  BY <1>7, DeletedRow DEF StaffChanges, Deletes
<1>8. CASE StatementFails(p)
  BY <1>8, FailedRequest DEF StaffChanges
<1>9. CASE GenerateAuditLogID(p)
  BY <1>9, AuditRequest DEF StaffChanges
<1>10. CASE InsertAuditLog(p) \/ InsertAuditLogFails(p)
  BY <1>10, LoggedEntry DEF StaffChanges
<1> QED
  BY <1>1, <1>2, <1>3, <1>4, <1>5, <1>6, <1>7, <1>8, <1>9, <1>10 DEF SlotStep

LEMMA MembersStay ==
  ASSUME Typed, Subjects, StaffNext
  PROVE  /\ \A s \in Members : SameMember(s)
         /\ \A s \in Members' \ Members : \E p \in Slots : Inserts(p) /\ s = req[p].id
         /\ \A p \in Slots : Inserts(p) => req[p].id \in Members' \ Members
<1>0. StaffChanges
  BY StaffStep
<1>1. CASE staff' = staff
  <2>1. \A p \in Slots : ~Inserts(p)
    BY <1>1, RowsAreRows DEF Inserts
  <2> QED
    BY <1>1, <2>1 DEF Members, SameMember
<1>2. ASSUME NEW p \in Slots, Inserts(p), \A s \in StaffIDs \ {req[p].id} : staff'[s] = staff[s]
      PROVE  /\ \A s \in Members : SameMember(s)
             /\ \A s \in Members' \ Members : s = req[p].id
  BY <1>2 DEF Inserts, Members, SameMember
<1>3. ASSUME NEW id \in Members, staff'[id] \in StaffRows, staff'[id].email = staff[id].email,
             staff'[id].seen = staff[id].seen,
             staff'[id].status \in {staff[id].status, "deleted"},
             \A s \in StaffIDs \ {id} : staff'[s] = staff[s]
      PROVE  /\ \A s \in Members : SameMember(s)
             /\ Members' = Members
  BY <1>3, RowsAreRows DEF Members, SameMember
<1>4. /\ \A s \in Members : SameMember(s)
      /\ \A s \in Members' \ Members : \E p \in Slots : Inserts(p) /\ s = req[p].id
  BY <1>0, <1>1, <1>2, <1>3 DEF StaffChanges
<1>5. \A p \in Slots : Inserts(p) => req[p].id \in Members' \ Members
  BY RowsAreRows DEF Inserts, Members, Inserting
<1> QED
  BY <1>4, <1>5

\* The log and the answers.
Logs(p) ==
  /\ req[p] \in Logging /\ req'[p] = Idle
  /\ \A q \in Slots \ {p} : req'[q] = req[q]
  /\ staff' = staff
  /\ told' = told \cup {[action |-> req[p].entry.action, id |-> req[p].id,
                        email |-> req[p].email]}
  /\ \/ mishap' /\ audit' = audit
     \/ /\ mishap' = mishap
        /\ \E key \in AuditIDs : /\ audit[key] = NoEntry /\ audit'[key] = req[p].entry
                                 /\ \A a \in AuditIDs \ {key} : audit'[a] = audit[a]

LEMMA LogStep ==
  ASSUME Typed, Subjects, StaffNext
  PROVE  \/ told' = told /\ audit' = audit /\ (mishap => mishap')
         \/ \E p \in Slots : Logs(p)
<1> DEFINE Goal == \/ told' = told /\ audit' = audit /\ (mishap => mishap')
                   \/ \E p \in Slots : Logs(p)
<1>0. ReadCount \/ ShowDashboard \/ BackendRestarts => Goal
  BY RestartedBackend DEF ReadCount, ShowDashboard, tables, ghosts
<1> SUFFICES ASSUME NEW p \in Slots, SlotStep(p) PROVE Goal
  BY <1>0 DEF StaffNext
<1>1. CASE InsertAuditLog(p) \/ InsertAuditLogFails(p)
  BY <1>1, LoggedEntry DEF Logs
<1>2. CASE ~(InsertAuditLog(p) \/ InsertAuditLogFails(p))
  BY <1>2 DEF SlotStep, Invite, ChangeRole, Remove, Take, GenerateStaffID, InsertStaff,
     UpdateStaffRole, SoftDeleteStaff, StatementFails, GenerateAuditLogID, tables, ghosts
<1> QED
  BY <1>1, <1>2

-----------------------------------------------------------------------------
(* Every step keeps the invariant, one part after the other. *)

LEMMA RolesFitStep ==
  ASSUME StaffInv, StaffNext PROVE RolesFit'
<1> USE DEF StaffInv
<1>1. ASSUME NEW q \in Slots, req'[q].pc \in {"generate", "insert", "role"}
      PROVE  req'[q].role \in RolesOf[req'[q].portal]
  <2>1. RequestGoes(q)
    BY RequestStep
  <2>2. CASE req'[q] = req[q]
    BY <1>1, <2>2 DEF RolesFit
  <2>3. CASE Asks(q)
    BY <1>1, <2>3 DEF Asks, Removals
  <2>4. CASE Generated(q)
    BY <2>4 DEF Generated, Generating, RolesFit
  <2>5. ~(req'[q] = Idle \/ IsMoved(q) \/ Keyed(q) \/ Inserts(q) \/ Deletes(q))
    BY <1>1 DEF Idle, IsMoved, Removals, Keyed, Logging, Inserts, Deletes, AuditStaff
  <2> QED
    BY <2>1, <2>2, <2>3, <2>4, <2>5 DEF RequestGoes
<1>2. ASSUME NEW s \in Members'
      PROVE  \/ staff'[s].role \in RolesOf[staff'[s].portal]
             \/ staff'[s].role = "admin" /\ s \in {1, 2}
  <2>0. s \in StaffIDs /\ (staff'[s] = staff[s] => s \in Members)
    BY DEF Members
  <2>1. CASE staff'[s] = staff[s]
    BY <2>0, <2>1 DEF RolesFit
  <2>2. ASSUME NEW p \in Slots, Inserts(p), s = req[p].id
        PROVE  staff'[s].role \in RolesOf[staff'[s].portal]
    <3>1. staff'[s].role = req[p].role /\ staff'[s].portal = req[p].portal
      BY <2>2 DEF Inserts
    <3> QED
      BY <2>2, <3>1 DEF Inserts, Inserting, RolesFit
  <2>3. ASSUME NEW p \in Slots, UpdateStaffRole(p), staff'[s].portal = req[p].portal,
               staff'[s].role = req[p].role
        PROVE  staff'[s].role \in RolesOf[staff'[s].portal]
    BY <2>3 DEF UpdateStaffRole, RolesFit
  <2>4. ASSUME s \in Members, staff'[s].portal = staff[s].portal, staff'[s].role = staff[s].role
        PROVE  \/ staff'[s].role \in RolesOf[staff'[s].portal]
               \/ staff'[s].role = "admin" /\ s \in {1, 2}
    BY <2>4 DEF RolesFit
  <2>5. StaffChanges
    BY StaffStep
  <2> QED
    BY <2>0, <2>1, <2>2, <2>3, <2>4, <2>5 DEF StaffChanges
<1> QED
  BY <1>1, <1>2 DEF RolesFit

LEMMA EmailsSeenStep ==
  ASSUME StaffInv, StaffNext PROVE EmailsSeen'
<1> USE DEF StaffInv
<1>0. /\ \A s \in Members : SameMember(s)
      /\ \A s \in Members' \ Members : \E p \in Slots : Inserts(p) /\ s = req[p].id
      /\ Typed'
  BY MembersStay, StaffStep
<1>1. \A email, seen : Looked(email, seen) =>
        \A t \in seen : t \in Members' /\ staff'[t].email # email
  BY <1>0 DEF Looked, SameMember
<1>2. ASSUME NEW s \in Members', s \notin Members
      PROVE  /\ staff'[s].seen \subseteq Members /\ Looked(staff'[s].email, staff'[s].seen)
  <2>1. PICK p \in Slots : Inserts(p) /\ s = req[p].id
    BY <1>0, <1>2
  <2>2. req[p].pc = "insert"
    BY <2>1 DEF Inserts, Inserting
  <2>3. Looked(req[p].email, req[p].seen)
    BY <2>2 DEF EmailsSeen
  <2> QED
    BY <2>1, <2>3 DEF Inserts, Looked
<1>3. \A s \in Members' : staff'[s].seen \subseteq Members /\ Members \subseteq Members'
  BY <1>0, <1>2 DEF SameMember, EmailsSeen
<1>4. ASSUME NEW s \in Members', NEW t \in Members', staff'[s].email = staff'[t].email, s # t
      PROVE  t \notin staff'[s].seen
  <2>1. CASE s \in Members /\ t \in Members
    BY <1>0, <1>4, <2>1 DEF SameMember, EmailsSeen
  <2>2. CASE t \notin Members
    BY <1>3, <2>2
  <2>3. CASE s \notin Members
    BY <1>1, <1>2, <1>4, <2>3
  <2> QED
    BY <2>1, <2>2, <2>3
<1>5. ASSUME NEW q \in Slots, req'[q].pc \in {"generate", "insert"}
      PROVE  \A t \in req'[q].seen : t \in Members' /\ staff'[t].email # req'[q].email
  <2>1. RequestGoes(q)
    BY RequestStep
  <2>2. CASE req'[q] = req[q]
    BY <1>1, <1>5, <2>2 DEF EmailsSeen
  <2>3. CASE Asks(q)
    <3>1. req'[q].seen = Members /\ ~EmailExists(req'[q].email)
      BY <1>5, <2>3 DEF Asks, Removals, RoleChanges
    <3>2. Looked(req'[q].email, req'[q].seen)
      BY <3>1 DEF EmailExists, Looked
    <3> QED
      BY <1>1, <3>2
  <2>4. CASE Generated(q)
    BY <1>1, <2>4 DEF Generated, Generating, EmailsSeen
  <2>5. ~(req'[q] = Idle \/ IsMoved(q) \/ Keyed(q) \/ Inserts(q) \/ Deletes(q))
    BY <1>5 DEF Idle, IsMoved, Removals, Keyed, Logging, Inserts, Deletes, AuditStaff
  <2> QED
    BY <2>1, <2>2, <2>3, <2>4, <2>5 DEF RequestGoes
<1> QED
  BY <1>3, <1>4, <1>5 DEF EmailsSeen, Looked

LEMMA SubjectsStep ==
  ASSUME StaffInv, StaffNext PROVE Subjects'
<1> USE DEF StaffInv
<1>0. /\ \A s \in Members : SameMember(s)
      /\ \A p \in Slots : Inserts(p) => req[p].id \in Members' \ Members
      /\ Typed' /\ StaffChanges
  BY MembersStay, StaffStep
<1>1. \A id, email : Subject(id, email) => id \in Members' /\ staff'[id].email = email
  BY <1>0 DEF Subject, SameMember
<1>2. \A e : TrueEntry(e) => /\ e.id \in Members'
                             /\ e.action = "staff_removed" =>
                                  /\ staff'[e.id].status = "deleted"
                                  /\ e.portal = e.from \/ e.moved
  BY <1>0 DEF TrueEntry, SameMember
<1>3. ASSUME NEW q \in Slots, req'[q].pc = "role" PROVE req'[q].id \in Members'
  <2>1. CASE req'[q] = req[q]
    BY <1>0, <1>3, <2>1 DEF Subjects, SameMember
  <2>2. CASE Asks(q)
    BY <1>0, <1>3, <2>2 DEF Asks, Generating, Removals, Present, SameMember
  <2>3. ~(req'[q] = Idle \/ Generated(q) \/ IsMoved(q) \/ Keyed(q) \/ Inserts(q) \/ Deletes(q))
    BY <1>3 DEF Idle, Generated, Inserting, IsMoved, Removals, Keyed, Logging, Inserts, Deletes,
       AuditStaff
  <2> QED
    BY <2>1, <2>2, <2>3, RequestStep DEF RequestGoes
<1>4. ASSUME NEW q \in Slots, req'[q].pc = "remove"
      PROVE  /\ req'[q].id \in Members' /\ staff'[req'[q].id].email = req'[q].email
             /\ staff'[req'[q].id].portal = req'[q].portal \/ req'[q].moved
  <2>1. CASE req'[q] = req[q]
    <3>1. Subject(req[q].id, req[q].email)
      BY <1>4, <2>1 DEF Subjects
    <3>2. CASE req[q].moved
      BY <1>1, <2>1, <3>1, <3>2
    <3>3. CASE ~req[q].moved
      <4>1. staff[req[q].id].portal = req[q].portal
        BY <1>4, <2>1, <3>3 DEF Subjects
      <4>2. req[q].id \in StaffIDs /\ req[q].id \in Members
        BY <3>1 DEF Subject, Members
      <4>3. ASSUME NEW p \in Slots, UpdateStaffRole(p) PROVE req[p].id # req[q].id
        <5>1. req[p].pc = "role"
          BY <4>3 DEF UpdateStaffRole
        <5>2. p # q
          BY <1>4, <2>1, <5>1
        <5>3. req[p].id = req[q].id => req'[q].moved
          BY <1>4, <2>1, <4>3, <5>2, ReRoledRow
        <5> QED
          BY <2>1, <3>3, <5>3
      <4>4. \A p \in Slots : Inserts(p) => req[p].id # req[q].id
        BY <1>0, <4>2
      <4>5. staff'[req[q].id].portal = staff[req[q].id].portal
        BY <1>0, <4>2, <4>3, <4>4 DEF StaffChanges
      <4> QED
        BY <1>1, <2>1, <3>1, <4>1, <4>5
    <3> QED
      BY <3>2, <3>3
  <2>2. CASE Asks(q) /\ StaffStays
    BY <1>4, <2>2 DEF Asks, Generating, RoleChanges, Present, StaffStays, Members
  <2>3. CASE IsMoved(q)
    <3>1. Subject(req'[q].id, req'[q].email)
      BY <2>3 DEF IsMoved, Removals, Subjects
    <3> QED
      BY <1>1, <2>3, <3>1 DEF IsMoved
  <2>4. ~(req'[q] = Idle \/ Generated(q) \/ Keyed(q) \/ Inserts(q) \/ Deletes(q))
    BY <1>4 DEF Idle, Generated, Inserting, Keyed, Logging, Inserts, Deletes, AuditStaff
  <2> QED
    BY <2>1, <2>2, <2>3, <2>4, RequestStep DEF RequestGoes
<1> DEFINE TrueThen(e) == /\ e.id \in Members'
                          /\ e.action = "staff_removed" =>
                               /\ staff'[e.id].status = "deleted"
                               /\ e.portal = e.from \/ e.moved
<1>5. ASSUME NEW q \in Slots, req'[q].pc \in {"audit", "log"}
      PROVE  /\ req'[q].id \in Members' /\ staff'[req'[q].id].email = req'[q].email
             /\ req'[q].entry.id = req'[q].id /\ TrueThen(req'[q].entry)
  <2>1. CASE req'[q] = req[q]
    BY <1>1, <1>2, <1>5, <2>1 DEF Subjects
  <2>2. CASE Keyed(q)
    <3>1. req[q].pc = "audit"
      BY <2>2 DEF Keyed, Auditing
    <3> QED
      BY <1>1, <1>2, <2>2, <3>1 DEF Keyed, Subjects
  <2>3. CASE Inserts(q)
    <3>1. req[q].id \in StaffIDs /\ req[q].email \in Emails /\ req[q].portal \in Portals
      BY <2>3 DEF Inserts, Inserting
    <3>2. /\ req'[q].id = req[q].id /\ req'[q].email = req[q].email
          /\ req'[q].entry.id = req[q].id /\ req'[q].entry.action = "staff_added"
      <4>1. req'[q] = AuditStaff(req[q], "staff_added", req[q].portal, FALSE)
        BY <2>3 DEF Inserts
      <4> QED
        BY <4>1 DEF AuditStaff
    <3>3. req[q].id \in Members' /\ staff'[req[q].id].email = req[q].email
      <4>1. staff'[req[q].id].email = req[q].email
        BY <2>3 DEF Inserts
      <4> QED
        BY <1>0, <2>3, <4>1
    <3> QED
      BY <3>2, <3>3
  <2>4. CASE Deletes(q)
    <3>0. req[q].pc = "remove"
      BY <2>4 DEF Deletes, Removals
    <3>1. /\ req[q].id \in StaffIDs /\ req[q].email \in Emails /\ req[q].portal \in Portals
          /\ req[q].moved \in BOOLEAN
      BY <2>4 DEF Deletes, Removals
    <3>2. /\ Subject(req[q].id, req[q].email)
          /\ staff[req[q].id].portal = req[q].portal \/ req[q].moved
      BY <3>0 DEF Subjects
    <3>3. staff[req[q].id].portal \in Portals
      BY <3>2, RowsAreRows DEF Subject, StaffRows
    <3>4. /\ req'[q].id = req[q].id /\ req'[q].email = req[q].email
          /\ req'[q].entry.id = req[q].id /\ req'[q].entry.action = "staff_removed"
          /\ req'[q].entry.portal = req[q].portal /\ req'[q].entry.moved = req[q].moved
          /\ req'[q].entry.from = staff[req[q].id].portal
      BY <2>4, <3>1, <3>3, AuditStaffTyped DEF Deletes
    <3>5. staff'[req[q].id].status = "deleted"
      BY <2>4, DeletedRow DEF Deletes
    <3> QED
      BY <1>1, <3>2, <3>4, <3>5
  <2>5. ~(req'[q] = Idle \/ Asks(q) \/ Generated(q) \/ IsMoved(q))
    BY <1>5 DEF Idle, Asks, Generated, Generating, Inserting, RoleChanges, Removals, IsMoved
  <2> QED
    BY <2>1, <2>2, <2>3, <2>4, <2>5, RequestStep DEF RequestGoes
<1>6. ASSUME NEW p \in Slots, Logs(p)
      PROVE  /\ Subject(req[p].id, req[p].email) /\ TrueEntry(req[p].entry)
             /\ req[p].entry.id = req[p].id
  <2>1. req[p].pc = "log"
    BY <1>6 DEF Logs, Logging
  <2> QED
    BY <2>1 DEF Subjects
<1>7. ASSUME NEW a \in Entries' PROVE TrueThen(audit'[a])
  <2>0. a \in AuditIDs
    BY DEF Entries
  <2>1. CASE audit'[a] = audit[a]
    <3>1. a \in Entries
      BY <2>0, <2>1 DEF Entries
    <3> QED
      BY <1>2, <2>1, <3>1 DEF Subjects
  <2>2. ASSUME NEW p \in Slots, Logs(p), audit'[a] = req[p].entry PROVE TrueThen(audit'[a])
    BY <1>2, <1>6, <2>2
  <2> QED
    BY <2>0, <2>1, <2>2, LogStep DEF Logs
<1>8. ASSUME NEW a \in told'
      PROVE  /\ a.id \in Members' /\ staff'[a.id].email = a.email
             /\ a.action = "staff_removed" => staff'[a.id].status = "deleted"
  <2>1. CASE a \in told
    BY <1>0, <1>1, <2>1 DEF Subjects, SameMember, Subject
  <2>2. ASSUME NEW p \in Slots, Logs(p),
               a = [action |-> req[p].entry.action, id |-> req[p].id, email |-> req[p].email]
        PROVE  /\ Subject(a.id, a.email)
               /\ a.action = "staff_removed" => staff[a.id].status = "deleted"
    BY <1>6, <2>2 DEF TrueEntry
  <2> QED
    BY <1>0, <1>1, <2>1, <2>2, LogStep DEF Logs, SameMember, Subject
<1>9. ASSUME ~mishap', NEW t \in told'
      PROVE  \E a \in Entries' : audit'[a].id = t.id /\ audit'[a].action = t.action
  <2>1. CASE told' = told /\ audit' = audit /\ (mishap => mishap')
    BY <1>9, <2>1 DEF Subjects, Entries
  <2>2. ASSUME NEW p \in Slots, Logs(p)
        PROVE  \E a \in Entries' : audit'[a].id = t.id /\ audit'[a].action = t.action
    <3>1. PICK key \in AuditIDs : /\ audit[key] = NoEntry /\ audit'[key] = req[p].entry
                                  /\ \A a \in AuditIDs \ {key} : audit'[a] = audit[a]
      BY <1>9, <2>2 DEF Logs
    <3>2. key \in Entries'
      BY <2>2, <3>1, RowsAreRows DEF Entries, Logs, Logging
    <3>3. Entries \subseteq Entries' /\ \A a \in Entries : audit'[a] = audit[a]
      BY <3>1 DEF Entries
    <3>4. ~mishap
      BY <1>9, <2>2 DEF Logs
    <3>5. CASE t \in told
      BY <3>3, <3>4, <3>5 DEF Subjects
    <3>6. CASE t = [action |-> req[p].entry.action, id |-> req[p].id, email |-> req[p].email]
      BY <1>6, <2>2, <3>1, <3>2, <3>6
    <3> QED
      BY <2>2, <3>5, <3>6 DEF Logs
  <2> QED
    BY <2>1, <2>2, LogStep
<1> QED
  BY <1>3, <1>4, <1>5, <1>7, <1>8, <1>9 DEF Subjects, Subject, TrueEntry

-----------------------------------------------------------------------------
(* Entries written and to be written. *)

LEMMA FiniteIDs == IsFiniteSet(StaffIDs) /\ IsFiniteSet(AuditIDs)
BY StaffBounds, FS_Interval DEF StaffIDs, AuditIDs

LEMMA WritingStep ==
  ASSUME Typed, Subjects, StaffNext, NEW s \in StaffIDs, NEW action, NEW q \in Slots,
         req'[q].pc \in {"audit", "log"}, req'[q].entry.id = s, req'[q].entry.action = action
  PROVE  \/ q \in Writing(s, action)
         \/ Inserts(q) /\ s = req[q].id /\ action = "staff_added"
         \/ Deletes(q) /\ s = req[q].id /\ action = "staff_removed"
<1>1. CASE req'[q] = req[q]
  BY <1>1 DEF Writing
<1>2. CASE Keyed(q)
  BY <1>2 DEF Keyed, Auditing, Writing
<1>3. CASE Inserts(q)
  <2>1. req'[q] = AuditStaff(req[q], "staff_added", req[q].portal, FALSE)
    BY <1>3 DEF Inserts
  <2> QED
    BY <1>3, <2>1 DEF AuditStaff
<1>4. CASE Deletes(q)
  <2>1. req'[q] = AuditStaff(req[q], "staff_removed", staff[req[q].id].portal, req[q].moved)
    BY <1>4 DEF Deletes
  <2> QED
    BY <1>4, <2>1 DEF AuditStaff
<1>5. ~(req'[q] = Idle \/ Asks(q) \/ Generated(q) \/ IsMoved(q))
  BY DEF Idle, Asks, Generated, Generating, Inserting, RoleChanges, Removals, IsMoved
<1> QED
  BY <1>1, <1>2, <1>3, <1>4, <1>5, RequestStep DEF RequestGoes

LEMMA WrittenStep ==
  ASSUME Typed, Subjects, StaffNext, NEW s \in StaffIDs, NEW action
  PROVE  \/ Written(s, action)' \subseteq Written(s, action)
         \/ \E p \in Writing(s, action), key \in AuditIDs :
              /\ Written(s, action)' \subseteq Written(s, action) \cup {key}
              /\ req'[p] = Idle
<1>1. CASE audit' = audit
  BY <1>1 DEF Written, Entries
<1>2. ASSUME NEW p \in Slots, Logs(p), NEW key \in AuditIDs, audit'[key] = req[p].entry,
             \A a \in AuditIDs \ {key} : audit'[a] = audit[a]
      PROVE  \/ Written(s, action)' \subseteq Written(s, action)
             \/ /\ p \in Writing(s, action) /\ req'[p] = Idle
                /\ Written(s, action)' \subseteq Written(s, action) \cup {key}
  <2>1. Written(s, action)' \subseteq Written(s, action) \cup {key}
    BY <1>2 DEF Written, Entries
  <2>2. CASE req[p].entry.id = s /\ req[p].entry.action = action
    BY <1>2, <2>1, <2>2 DEF Logs, Logging, Writing
  <2>3. CASE ~(req[p].entry.id = s /\ req[p].entry.action = action)
    <3>1. key \notin Written(s, action)'
      BY <1>2, <2>3 DEF Written
    <3> QED
      BY <2>1, <3>1
  <2> QED
    BY <2>2, <2>3
<1> QED
  BY <1>1, <1>2, LogStep DEF Logs

LEMMA AddedOnceStep ==
  ASSUME StaffInv, StaffNext PROVE AddedOnce'
<1> USE DEF StaffInv
<1> SUFFICES ASSUME NEW s \in StaffIDs
             PROVE  /\ \A p, q \in Writing(s, "staff_added")' : p = q
                    /\ \A a, b \in Written(s, "staff_added")' : a = b
                    /\ Writing(s, "staff_added")' = {} \/ Written(s, "staff_added")' = {}
  BY DEF AddedOnce
<1> DEFINE W == Writing(s, "staff_added")
           R == Written(s, "staff_added")
<1>0. /\ \A p, q \in W : p = q
      /\ \A a, b \in R : a = b
      /\ W = {} \/ R = {}
  BY DEF AddedOnce
<1>1. \A q \in W' : q \in W \/ (Inserts(q) /\ s = req[q].id)
  BY WritingStep DEF Writing
<1>2. CASE \E p \in Slots : Inserts(p) /\ s = req[p].id
  <2>1. PICK p \in Slots : Inserts(p) /\ s = req[p].id
    BY <1>2
  <2>2. s \notin Members
    BY <2>1 DEF Inserts, Members
  <2>3. W = {}
    BY <2>2 DEF Writing, Subjects, TrueEntry
  <2>4. R = {}
    BY <2>2 DEF Written, Subjects, TrueEntry
  <2>5. R' = {}
    <3>1. staff' # staff
      BY <2>1, RowsAreRows DEF Inserts
    <3>2. audit' = audit
      BY <3>1, StaffStep
    <3> QED
      BY <2>4, <3>2 DEF Written, Entries
  <2>6. \A q \in W' : q = p
    <3> SUFFICES ASSUME NEW q \in W', q # p PROVE FALSE
      OBVIOUS
    <3>1. Inserts(q) /\ q \in Slots
      BY <1>1, <2>3 DEF Writing
    <3>2. req'[q] = req[q]
      BY <2>1, <3>1, InsertedRow DEF Inserts
    <3>3. req'[q].pc = "audit" /\ req[q].pc = "insert"
      BY <3>1 DEF Inserts, AuditStaff, Inserting
    <3> QED
      BY <3>2, <3>3
  <2> QED
    BY <2>5, <2>6
<1>3. CASE ~\E p \in Slots : Inserts(p) /\ s = req[p].id
  <2>1. W' \subseteq W
    BY <1>1, <1>3 DEF Writing
  <2>2. CASE R' \subseteq R
    BY <1>0, <2>1, <2>2
  <2>3. ASSUME NEW p \in W, NEW key \in AuditIDs, R' \subseteq R \cup {key}, req'[p] = Idle
        PROVE  R' \subseteq {key} /\ W' = {}
    <3>1. p \notin W'
      BY <2>3 DEF Writing, Idle
    <3> HIDE DEF W, R
    <3> QED
      BY <1>0, <2>1, <2>3, <3>1
  <2>4. \/ R' \subseteq R
        \/ \E p \in W, key \in AuditIDs : R' \subseteq R \cup {key} /\ req'[p] = Idle
    BY WrittenStep
  <2> HIDE DEF W, R
  <2> QED
    BY <2>2, <2>3, <2>4 DEF W, R
<1> QED
  BY <1>2, <1>3

LEMMA RemovedTogetherStep ==
  ASSUME StaffInv, StaffNext PROVE RemovedTogether'
<1> USE DEF StaffInv
<1> SUFFICES ASSUME NEW s \in StaffIDs
             PROVE  Cardinality(Removing(s)') + Cardinality(Written(s, "staff_removed")')
                      <= Cardinality(Slots)
  BY DEF RemovedTogether
<1> DEFINE X == Removing(s)
           R == Written(s, "staff_removed")
<1>0. /\ X \subseteq Slots /\ X' \subseteq Slots /\ R \subseteq AuditIDs /\ R' \subseteq AuditIDs
      /\ Cardinality(X) + Cardinality(R) <= Cardinality(Slots)
  BY DEF Removing, Writing, Written, Entries, RemovedTogether
<1>1. /\ IsFiniteSet(X) /\ IsFiniteSet(X') /\ IsFiniteSet(R) /\ IsFiniteSet(R')
      /\ Cardinality(X) \in Nat /\ Cardinality(R) \in Nat /\ Cardinality(Slots) \in Nat
      /\ Cardinality(X') \in Nat /\ Cardinality(R') \in Nat
  <2> HIDE DEF X, R
  <2> QED
    BY <1>0, SlotsAssumption, FiniteIDs, FS_Subset, FS_CardinalityType
\* A removal that is being asked for finds s present.
<1>2. ASSUME NEW q \in X', q \notin X PROVE Present(s) /\ StaffStays
  <2>0. q \in Slots
    BY <1>0
  <2>1. CASE req'[q].pc = "remove" /\ req'[q].id = s
    <3>1. ~(req'[q] = req[q])
      BY <1>2, <2>0, <2>1 DEF Removing
    <3>2. ~IsMoved(q)
      BY <1>2, <2>0, <2>1 DEF Removing, IsMoved, Removals
    <3>3. ~(req'[q] = Idle \/ Generated(q) \/ Keyed(q) \/ Inserts(q) \/ Deletes(q))
      BY <2>1 DEF Idle, Generated, Inserting, Keyed, Logging, Inserts, Deletes, AuditStaff
    <3>4. Asks(q) /\ StaffStays
      BY <2>0, <3>1, <3>2, <3>3, RequestStep DEF RequestGoes
    <3> QED
      BY <2>1, <3>4 DEF Asks, Generating, RoleChanges
  <2>2. CASE q \in Writing(s, "staff_removed")'
    <3>1. q \in Writing(s, "staff_removed") \/ (Deletes(q) /\ s = req[q].id)
      BY <2>0, <2>2, WritingStep DEF Writing
    <3>2. q \in X
      BY <2>0, <3>1 DEF Removing, Deletes, Removals
    <3> QED
      BY <1>2, <3>2
  <2> QED
    BY <1>2, <2>1, <2>2 DEF Removing
<1>3. CASE ~(X' \subseteq X)
  <2>1. PICK q \in X' : q \notin X
    BY <1>3
  <2>2. Present(s) /\ audit' = audit
    BY <1>2, <2>1 DEF StaffStays
  <2>3. R = {}
    BY <2>2 DEF Written, Subjects, TrueEntry, Present
  <2>4. R' = {}
    BY <2>2, <2>3 DEF Written, Entries
  <2>5. Cardinality(X') <= Cardinality(Slots)
    <3> HIDE DEF X
    <3> QED
      BY <1>0, SlotsAssumption, FS_Subset
  <2>6. Cardinality(R') = 0
    <3> HIDE DEF R
    <3> QED
      BY <2>4, FS_EmptySet
  <2> QED
    BY <1>1, <2>5, <2>6
<1>4. CASE X' \subseteq X /\ R' \subseteq R
  <2> HIDE DEF X, R
  <2>1. Cardinality(X') <= Cardinality(X) /\ Cardinality(R') <= Cardinality(R)
    BY <1>1, <1>4, FS_Subset
  <2> QED
    BY <1>0, <1>1, <2>1 DEF X, R
<1>5. ASSUME X' \subseteq X, NEW p \in X, NEW key \in AuditIDs, R' \subseteq R \cup {key}, p \notin X'
      PROVE  Cardinality(X') + Cardinality(R') <= Cardinality(Slots)
  <2> HIDE DEF X, R
  <2>1. Cardinality(X') <= Cardinality(X) - 1
    <3>1. X' \subseteq X \ {p} /\ IsFiniteSet(X \ {p}) /\ Cardinality(X \ {p}) = Cardinality(X) - 1
      BY <1>1, <1>5, FS_RemoveElement
    <3> QED
      BY <3>1, FS_Subset
  <2>2. Cardinality(R') <= Cardinality(R) + 1
    <3>1. IsFiniteSet(R \cup {key}) /\ Cardinality(R \cup {key}) <= Cardinality(R) + 1
      <4>1. /\ IsFiniteSet(R \cup {key})
            /\ Cardinality(R \cup {key}) = Cardinality(R)
               \/ Cardinality(R \cup {key}) = Cardinality(R) + 1
        BY <1>1, FS_AddElement
      <4> QED
        BY <1>1, <4>1
    <3>2. Cardinality(R \cup {key}) \in Nat /\ Cardinality(R') <= Cardinality(R \cup {key})
      BY <1>5, <3>1, FS_Subset, FS_CardinalityType
    <3> QED
      BY <1>1, <3>1, <3>2
  <2> QED
    BY <1>0, <1>1, <2>1, <2>2
<1>6. \/ R' \subseteq R
      \/ \E p \in Writing(s, "staff_removed"), key \in AuditIDs :
           R' \subseteq R \cup {key} /\ req'[p] = Idle
  BY WrittenStep
<1>7. \A p \in Writing(s, "staff_removed") : p \in X /\ (req'[p] = Idle => p \notin X')
  BY DEF Removing, Writing, Idle
<1> QED
  BY <1>3, <1>4, <1>5, <1>6, <1>7

-----------------------------------------------------------------------------
(* The dashboard. *)

\* Two sets that differ in one element.
LEMMA OneApart ==
  ASSUME NEW S, NEW T, IsFiniteSet(S), IsFiniteSet(T), NEW x, S \ {x} = T \ {x}
  PROVE  /\ Cardinality(S) \in Nat /\ Cardinality(T) \in Nat
         /\ Cardinality(S) <= Cardinality(T) + 1 /\ Cardinality(T) <= Cardinality(S) + 1
<1>1. Cardinality(S) \in Nat /\ Cardinality(T) \in Nat
  BY FS_CardinalityType
<1> DEFINE U == S \ {x}
<1>2. /\ IsFiniteSet(U) /\ Cardinality(U) \in Nat
      /\ Cardinality(U) \in {Cardinality(S), Cardinality(S) - 1}
  BY FS_RemoveElement, FS_CardinalityType
<1>3. Cardinality(U) \in {Cardinality(T), Cardinality(T) - 1}
  BY FS_RemoveElement
<1> HIDE DEF U
<1> QED
  BY <1>1, <1>2, <1>3

LEMMA CountsTyped ==
  /\ Counts[1] = InPortal("issuer") /\ Counts[2] = InPortal("verifier")
  /\ Counts[3] = EveryMember /\ Counts[4] = WithStatus("active")
  /\ Counts[5] = WithStatus("invited")
  /\ \A i \in 1 .. 5 : /\ Counts[i] \subseteq StaffIDs
                       /\ IsFiniteSet(Counts[i]) /\ Now(i) \in Nat
<1>1. /\ Counts[1] = InPortal("issuer") /\ Counts[2] = InPortal("verifier")
      /\ Counts[3] = EveryMember /\ Counts[4] = WithStatus("active")
      /\ Counts[5] = WithStatus("invited")
  BY DEF Counts
<1>2. \A i \in 1 .. 5 : Counts[i] \subseteq StaffIDs
  BY <1>1 DEF InPortal, EveryMember, WithStatus, Members
<1>3. \A i \in 1 .. 5 : IsFiniteSet(Counts[i]) /\ Now(i) \in Nat
  BY <1>2, FiniteIDs, FS_Subset, FS_CardinalityType DEF Now
<1> QED
  BY <1>1, <1>2, <1>3

\* At any one moment the figures add up.
LEMMA CountsAddUp ==
  ASSUME Typed PROVE Now(3) = Now(1) + Now(2) /\ Now(3) = Now(4) + Now(5)
<1>1. /\ Counts[3] = Counts[1] \cup Counts[2] /\ Counts[1] \cap Counts[2] = {}
      /\ Counts[3] = Counts[4] \cup Counts[5] /\ Counts[4] \cap Counts[5] = {}
  <2>1. \A s \in Members : staff[s].portal \in Portals
                           /\ staff[s].status \in {"active", "invited", "deleted"}
    BY RowsAreRows DEF StaffRows
  <2> QED
    BY <2>1, CountsTyped DEF InPortal, EveryMember, WithStatus, Present, Portals
<1>2. ASSUME NEW S, NEW T, IsFiniteSet(S), IsFiniteSet(T), S \cap T = {}
      PROVE  Cardinality(S \cup T) = Cardinality(S) + Cardinality(T)
  <2>1. Cardinality(S \cup T) = Cardinality(S) + Cardinality(T) - Cardinality(S \cap T)
    BY <1>2, FS_Union
  <2>2. Cardinality(S \cap T) = 0
    BY <1>2, FS_EmptySet
  <2> QED
    BY <1>2, <2>1, <2>2, FS_CardinalityType
<1> QED
  BY <1>1, <1>2, CountsTyped DEF Now

\* A change of the table moves each figure by one at most.
LEMMA CountsMove ==
  ASSUME StaffInv, StaffNext, NEW i \in 1 .. 5
  PROVE  /\ Now(i)' \in Nat
         /\ staff' = staff => Now(i)' = Now(i)
         /\ Now(i)' <= Now(i) + 1 /\ Now(i) <= Now(i)' + 1
<1> USE DEF StaffInv
<1>1. ASSUME NEW id, \A s \in StaffIDs \ {id} : staff'[s] = staff[s]
      PROVE  Counts[i]' \ {id} = Counts[i] \ {id}
  <2>1. /\ \A p \in Portals : InPortal(p)' \ {id} = InPortal(p) \ {id}
        /\ EveryMember' \ {id} = EveryMember \ {id}
        /\ \A st \in {"active", "invited"} : WithStatus(st)' \ {id} = WithStatus(st) \ {id}
    BY <1>1 DEF InPortal, EveryMember, WithStatus, Members, Present
  <2> QED
    BY <2>1 DEF Counts, Portals
<1>2. staff' = staff => Counts[i]' = Counts[i]
  BY DEF Counts, InPortal, EveryMember, WithStatus, Members, Present
<1>3. \E id : \A s \in StaffIDs \ {id} : staff'[s] = staff[s]
  BY StaffStep DEF StaffChanges
<1>4. IsFiniteSet(Counts[i]) /\ IsFiniteSet(Counts[i]') /\ Counts[i]' \subseteq StaffIDs
  <2>1. Counts[i]' \subseteq StaffIDs
    BY DEF Counts, InPortal, EveryMember, WithStatus, Members
  <2> QED
    BY <2>1, CountsTyped, FiniteIDs, FS_Subset
<1>5. PICK id : Counts[i]' \ {id} = Counts[i] \ {id}
  BY <1>1, <1>3
<1>6. /\ Cardinality(Counts[i]) \in Nat /\ Cardinality(Counts[i]') \in Nat
      /\ Cardinality(Counts[i]') <= Cardinality(Counts[i]) + 1
      /\ Cardinality(Counts[i]) <= Cardinality(Counts[i]') + 1
  BY <1>4, <1>5, OneApart
<1> QED
  BY <1>2, <1>6 DEF Now

\* A figure that is off by a little more since a count has moved.
LEMMA OffMoves ==
  ASSUME between \in Nat, between' = between + 1,
         NEW a \in Nat, NEW b \in Nat, NEW c \in Nat, b <= c + 1, c <= b + 1, Off(a, b)
  PROVE  a - between' <= c /\ c <= a + between'
BY DEF Off

LEMMA Sums ==
  /\ \A n \in Nat : n <= 5 => n \in 0 .. 5
  /\ \A a, b \in Nat : a + b \in Nat /\ a + b <= (a + b) + 1
  /\ \A a, b, c \in Nat : b <= c + 1 => a + b <= (a + c) + 1
OBVIOUS

LEMMA DashFitsStep ==
  ASSUME StaffInv, StaffNext PROVE DashFits'
<1> USE DEF StaffInv
<1>0. Len(dash) \in 0 .. 5 /\ between \in Nat
  <2>1. Len(dash) \in Nat
    BY LenProperties DEF DashFits, Figures
  <2>2. Len(dash) <= 5 /\ between \in Nat
    BY DEF DashFits
  <2> QED
    BY <2>1, <2>2, Sums, Zenon
<1>a. /\ Now(1) \in Nat /\ Now(2) \in Nat /\ Now(3) \in Nat /\ Now(4) \in Nat /\ Now(5) \in Nat
      /\ Now(3) = Now(1) + Now(2) /\ Now(3) = Now(4) + Now(5)
  BY CountsTyped, CountsAddUp
<1>b. \A i \in 1 .. Len(dash) : dash[i] \in Nat
  BY ElementOfSeq DEF DashFits, Figures
<1>1. CASE ReadCount
  <2> DEFINE n == Len(dash) + 1
             d == Now(n)
  <2>1. n \in 1 .. 5 /\ dash' = Append(dash, d) /\ between' = between /\ staff' = staff
    BY <1>0, <1>1 DEF ReadCount, Now, tables, ghosts
  <2>d. d \in Nat
    BY <2>1, CountsTyped
  <2>2. Figures' /\ Len(dash') = n /\ dash'[n] = d
    <3> HIDE DEF d
    <3> QED
      BY <2>1, <2>d, AppendProperties DEF DashFits, Figures
  <2>e. \A i \in 1 .. Len(dash) : dash'[i] = dash[i]
    <3> HIDE DEF d
    <3> QED
      BY <2>1, <2>d, AppendProperties DEF DashFits, Figures
  <2>3. Now(1)' = Now(1) /\ Now(3)' = Now(3) /\ Now(5)' = Now(5)
    BY <2>1, CountsMove
  <2>4. CASE Len(dash) = 0
    BY <1>0, <1>a, <2>1, <2>2, <2>3, <2>4 DEF DashFits, Off
  <2>5. CASE Len(dash) = 1
    <3>0. n = 2
      BY <2>5
    <3>1. Len(dash) = 1 /\ Off(dash[1], Now(1))
      BY <2>5 DEF DashFits
    <3>2. /\ dash'[1] = dash[1]
          /\ dash[1] \in Nat
      BY <1>b, <2>e, <3>1
    <3>3. Off(dash[1] + d, Now(3))
      BY <1>0, <1>a, <2>1, <2>d, <2>5, <3>0, <3>1, <3>2 DEF Off
    <3> HIDE DEF d
    <3> QED
      BY <2>1, <2>2, <2>3, <2>5, <3>0, <3>1, <3>2, <3>3 DEF DashFits, Off
  <2>6. CASE Len(dash) = 2
    <3>0. n = 3
      BY <2>6
    <3>1. Len(dash) = 2 /\ Off(dash[1] + dash[2], Now(3))
      BY <2>6 DEF DashFits
    <3>2. /\ dash'[1] = dash[1] /\ dash'[2] = dash[2]
          /\ dash[1] \in Nat /\ dash[2] \in Nat
      BY <1>b, <2>e, <3>1
    <3>3. d = Now(3)
      BY <3>0
    <3>4. Off(d, dash[1] + dash[2])
      BY <1>0, <1>a, <3>1, <3>2, <3>3 DEF Off
    <3>5. Off(d, Now(3))
      BY <1>0, <1>a, <3>3 DEF Off
    <3> HIDE DEF d
    <3> QED
      BY <2>1, <2>2, <2>3, <2>6, <3>0, <3>1, <3>2, <3>4, <3>5 DEF DashFits, Off
  <2>7. CASE Len(dash) = 3
    <3>0. n = 4
      BY <2>7
    <3>1. Len(dash) = 3 /\ Off(dash[3], dash[1] + dash[2]) /\ Off(dash[3], Now(3))
      BY <2>7 DEF DashFits
    <3>2. /\ dash'[1] = dash[1] /\ dash'[2] = dash[2] /\ dash'[3] = dash[3]
          /\ dash[1] \in Nat /\ dash[2] \in Nat /\ dash[3] \in Nat
      BY <1>b, <2>e, <3>1
    <3>3. Off(dash[3], d + Now(5))
      BY <1>0, <1>a, <2>1, <2>d, <2>7, <3>0, <3>1, <3>2 DEF Off
    <3> HIDE DEF d
    <3> QED
      BY <2>1, <2>2, <2>3, <2>7, <3>0, <3>1, <3>2, <3>3 DEF DashFits, Off
  <2>8. CASE Len(dash) = 4
    <3>0. n = 5
      BY <2>8
    <3>1. Len(dash) = 4 /\ Off(dash[3], dash[1] + dash[2]) /\ Off(dash[3], dash[4] + Now(5))
      BY <2>8 DEF DashFits
    <3>2. /\ dash'[1] = dash[1] /\ dash'[2] = dash[2] /\ dash'[3] = dash[3] /\ dash'[4] = dash[4]
          /\ dash[1] \in Nat /\ dash[2] \in Nat /\ dash[3] \in Nat /\ dash[4] \in Nat
      BY <1>b, <2>e, <3>1
    <3>3. Off(dash[3], dash[4] + d)
      BY <1>0, <1>a, <2>1, <2>d, <2>8, <3>0, <3>1, <3>2 DEF Off
    <3> HIDE DEF d
    <3> QED
      BY <2>1, <2>2, <2>3, <2>8, <3>0, <3>1, <3>2, <3>3 DEF DashFits, Off
  <2> QED
    BY <1>0, <1>1, <2>4, <2>5, <2>6, <2>7, <2>8 DEF ReadCount
<1>2. CASE ShowDashboard \/ BackendRestarts
  <2>1. dash' = <<>> /\ between' = 0
    BY <1>2 DEF ShowDashboard, BackendRestarts
  <2>2. Figures' /\ Len(dash') = 0
    BY <2>1, EmptySeq DEF Figures
  <2> QED
    BY <2>1, <2>2 DEF DashFits
<1>3. CASE \E p \in Slots : SlotStep(p)
  <2>1. /\ dash' = dash
        /\ (staff' = staff /\ between' = between) \/ Counted
    <3> SUFFICES ASSUME NEW p \in Slots, SlotStep(p)
                 PROVE  /\ dash' = dash
                        /\ (staff' = staff /\ between' = between) \/ Counted
      BY <1>3
    <3> QED
      BY DEF SlotStep, Invite, ChangeRole, Remove, Take, GenerateStaffID, InsertStaff,
         UpdateStaffRole, SoftDeleteStaff, StatementFails, GenerateAuditLogID, InsertAuditLog,
         InsertAuditLogFails, Answers, tables, ghosts
  <2>2. ASSUME NEW i \in 1 .. 5
        PROVE  /\ Now(i)' \in Nat
               /\ staff' = staff => Now(i)' = Now(i)
               /\ Now(i)' <= Now(i) + 1 /\ Now(i) <= Now(i)' + 1
    BY CountsMove
  <2>3. /\ Figures' /\ Len(dash') = Len(dash) /\ Len(dash) <= 5
        /\ \A i \in 1 .. Len(dash) : dash'[i] = dash[i]
    BY <2>1 DEF DashFits, Figures
  <2>4. CASE staff' = staff /\ between' = between
    <3>1. Now(1)' = Now(1) /\ Now(3)' = Now(3) /\ Now(5)' = Now(5)
      BY <2>2, <2>4
    <3> QED
      BY <2>1, <2>3, <2>4, <3>1 DEF DashFits, Off
  <2>5. CASE Counted
    <3>1. between' = IF Len(dash) \in 1 .. 4 THEN between + 1 ELSE between
      BY <2>5 DEF Counted
    <3>2. /\ Now(1)' \in Nat /\ Now(1)' <= Now(1) + 1 /\ Now(1) <= Now(1)' + 1
          /\ Now(3)' \in Nat /\ Now(3)' <= Now(3) + 1 /\ Now(3) <= Now(3)' + 1
          /\ Now(5)' \in Nat /\ Now(5)' <= Now(5) + 1 /\ Now(5) <= Now(5)' + 1
      BY <2>2
    <3>3. CASE Len(dash) = 0
      <4>1. between' = between /\ between = 0
        BY <3>1, <3>3 DEF DashFits
      <4> QED
        BY <2>3, <3>3, <4>1 DEF DashFits
    <3>4. CASE Len(dash) = 1
      <4>1. Off(dash[1], Now(1)) /\ dash[1] \in Nat /\ between' = between + 1
        BY <1>b, <3>1, <3>4 DEF DashFits
      <4>2. Off(dash[1], Now(1))'
        BY <1>0, <1>a, <2>1, <3>2, <4>1, OffMoves, Sums DEF Off
      <4> QED
        BY <1>0, <2>3, <3>4, <4>1, <4>2 DEF DashFits
    <3>5. CASE Len(dash) = 2
      <4>1. /\ Off(dash[1] + dash[2], Now(3)) /\ between' = between + 1
            /\ dash[1] \in Nat /\ dash[2] \in Nat
        BY <1>b, <3>1, <3>5 DEF DashFits
      <4>2. dash[1] + dash[2] \in Nat
        BY <4>1
      <4>3. Off(dash[1] + dash[2], Now(3))'
        BY <1>0, <1>a, <2>1, <3>2, <4>1, <4>2, OffMoves DEF Off
      <4> QED
        BY <1>0, <2>3, <3>5, <4>1, <4>3 DEF DashFits
    <3>6. CASE Len(dash) = 3
      <4>1. /\ Off(dash[3], dash[1] + dash[2]) /\ Off(dash[3], Now(3)) /\ between' = between + 1
            /\ dash[1] \in Nat /\ dash[2] \in Nat /\ dash[3] \in Nat
        BY <1>b, <3>1, <3>6 DEF DashFits
      <4>2. /\ dash[1] + dash[2] \in Nat
            /\ dash[1] + dash[2] <= (dash[1] + dash[2]) + 1
        BY <4>1
      <4>3. Off(dash[3], dash[1] + dash[2])'
        BY <1>0, <2>1, <4>1, <4>2, OffMoves DEF Off
      <4>4. Off(dash[3], Now(3))'
        BY <1>0, <1>a, <2>1, <3>2, <4>1, OffMoves DEF Off
      <4> QED
        BY <1>0, <2>3, <3>6, <4>1, <4>3, <4>4 DEF DashFits
    <3>7. CASE Len(dash) = 4
      <4>1. /\ Off(dash[3], dash[1] + dash[2]) /\ Off(dash[3], dash[4] + Now(5))
            /\ between' = between + 1
            /\ dash[1] \in Nat /\ dash[2] \in Nat /\ dash[3] \in Nat /\ dash[4] \in Nat
        BY <1>b, <3>1, <3>7 DEF DashFits
      <4>2. /\ dash[1] + dash[2] \in Nat
            /\ dash[1] + dash[2] <= (dash[1] + dash[2]) + 1
        BY <4>1
      <4>3. Off(dash[3], dash[1] + dash[2])'
        BY <1>0, <2>1, <4>1, <4>2, OffMoves DEF Off
      <4>4. /\ dash[4] + Now(5) \in Nat /\ dash[4] + Now(5)' \in Nat
            /\ dash[4] + Now(5)' <= (dash[4] + Now(5)) + 1
            /\ dash[4] + Now(5) <= (dash[4] + Now(5)') + 1
        BY <1>a, <3>2, <4>1, Sums
      <4>5. Off(dash[3], dash[4] + Now(5))'
        BY <1>0, <2>1, <4>1, <4>4, OffMoves DEF Off
      <4> QED
        BY <1>0, <2>3, <3>7, <4>1, <4>3, <4>5 DEF DashFits
    <3>8. CASE Len(dash) = 5
      <4>1. between' = between
        BY <3>1, <3>8
      <4>2. Off(dash[3], dash[1] + dash[2])' /\ Off(dash[3], dash[4] + dash[5])'
        BY <2>1, <3>8, <4>1 DEF DashFits, Off
      <4> QED
        BY <1>0, <2>3, <3>8, <4>1, <4>2 DEF DashFits
    <3> QED
      BY <1>0, <3>3, <3>4, <3>5, <3>6, <3>7, <3>8
  <2> QED
    BY <2>1, <2>4, <2>5
<1> QED
  BY <1>1, <1>2, <1>3 DEF StaffNext

-----------------------------------------------------------------------------
(* The theorems. *)

LEMMA StaffInvInit == StaffInit => StaffInv
<1> SUFFICES ASSUME StaffInit PROVE StaffInv
  OBVIOUS
<1> DEFINE first  == Seed(IssuerAdmin, "issuer")
           second == Seed(VerifierAdmin, "verifier")
<1>1. first \in StaffRows /\ second \in StaffRows
  BY SeedAssumption DEF Seed, StaffRows, Portals
<1>2. /\ 1 \in StaffIDs /\ 2 \in StaffIDs
      /\ \A s \in StaffIDs : staff[s] = IF s = 1 THEN first ELSE IF s = 2 THEN second ELSE NoRow
  BY StaffBounds DEF StaffInit, StaffIDs
<1>3. staff \in [StaffIDs -> {NoRow} \cup StaffRows]
  BY <1>1, <1>2 DEF StaffInit
<1>4. /\ Members = {1, 2} /\ staff[1] = first /\ staff[2] = second
      /\ first.seen = {} /\ second.seen = {} /\ first.role = "admin" /\ second.role = "admin"
  BY <1>1, <1>2, RowsAreRows DEF Members, Seed
<1>5. /\ \A p \in Slots : req[p] = Idle /\ req[p].pc = "idle"
      /\ Entries = {} /\ told = {} /\ dash = <<>> /\ between = 0
  BY DEF StaffInit, Idle, Entries
<1>6. Typed
  <2>1. audit \in [AuditIDs -> {NoEntry} \cup AuditRows] /\ req \in [Slots -> {Idle}]
    BY DEF StaffInit
  <2>2. requests \in 0 .. MaxRequests
    BY StaffBounds DEF StaffInit
  <2>3. told = {} /\ mishap \in BOOLEAN
    BY DEF StaffInit
  <2> QED
    BY <1>3, <2>1, <2>2, <2>3 DEF Typed
<1>7. RolesFit /\ EmailsSeen /\ Subjects
  <2>1. RolesFit
    BY <1>4, <1>5 DEF RolesFit
  <2>2. EmailsSeen
    BY <1>4, <1>5 DEF EmailsSeen
  <2>3. Subjects
    BY <1>5 DEF Subjects
  <2> QED
    BY <2>1, <2>2, <2>3
<1>8. \A s \in StaffIDs : \A action :
        Writing(s, action) = {} /\ Written(s, action) = {} /\ Removing(s) = {}
  BY <1>5 DEF Writing, Written, Removing
<1>9. AddedOnce
  BY <1>8 DEF AddedOnce
<1>10. RemovedTogether
  <2>1. Cardinality({}) = 0 /\ Cardinality(Slots) \in Nat
    BY SlotsAssumption, FS_EmptySet, FS_CardinalityType
  <2> QED
    BY <1>8, <2>1 DEF RemovedTogether
<1>11. DashFits
  <2>1. Figures /\ Len(dash) = 0
    BY <1>5, EmptySeq DEF Figures
  <2> QED
    BY <1>5, <2>1 DEF DashFits
<1> QED
  BY <1>6, <1>7, <1>9, <1>10, <1>11 DEF StaffInv

LEMMA StaffInvStep == StaffInv /\ [StaffNext]_vars => StaffInv'
<1> SUFFICES ASSUME StaffInv, [StaffNext]_vars PROVE StaffInv'
  OBVIOUS
<1>1. CASE StaffNext
  <2>1. Typed'
    BY <1>1, StaffStep DEF StaffInv
  <2> QED
    BY <1>1, <2>1, RolesFitStep, EmailsSeenStep, SubjectsStep, AddedOnceStep,
       RemovedTogetherStep, DashFitsStep DEF StaffInv
<1>2. CASE UNCHANGED vars
  <2> USE <1>2 DEF vars, tables, ghosts, StaffInv
  <2>1. Members' = Members /\ Entries' = Entries
    BY DEF Members, Entries
  <2>2. Typed'
    BY DEF Typed
  <2>3. RolesFit' /\ EmailsSeen' /\ Subjects'
    BY <2>1 DEF RolesFit, EmailsSeen, Looked, Subjects, Subject, TrueEntry
  <2>4. \A s \in StaffIDs : \A action :
          /\ Writing(s, action)' = Writing(s, action) /\ Written(s, action)' = Written(s, action)
          /\ Removing(s)' = Removing(s)
    BY <2>1 DEF Writing, Written, Removing
  <2>5. AddedOnce' /\ RemovedTogether'
    BY <2>4 DEF AddedOnce, RemovedTogether
  <2>6. Counts' = Counts
    BY <2>1 DEF Counts, InPortal, EveryMember, WithStatus, Present
  <2>7. DashFits'
    BY <2>6 DEF DashFits, Figures, Off, Now
  <2> QED
    BY <2>2, <2>3, <2>5, <2>7
<1> QED
  BY <1>1, <1>2

\* The inductive invariant holds in every state that is reached.
THEOREM StaffInvHolds == StaffSpec => []StaffInv
BY StaffInvInit, StaffInvStep, PTL DEF StaffSpec

\* Rows, entries and requests are well formed, every role fits its portal
\* (StaffTypeOK), and only the seeded members are ever administrators.
THEOREM StaffTypeOKHolds == StaffSpec => []StaffTypeOK
<1>1. StaffInv => StaffTypeOK
  <2> SUFFICES ASSUME StaffInv PROVE StaffTypeOK
    OBVIOUS
  <2> USE DEF StaffInv
  <2>1. ASSUME NEW s \in Members
        PROVE  /\ staff[s].email \in Emails /\ staff[s].portal \in Portals
               /\ staff[s].status \in {"active", "invited", "deleted"}
               /\ staff[s].seen \subseteq StaffIDs
               /\ \/ staff[s].role \in RolesOf[staff[s].portal]
                  \/ staff[s].role = "admin" /\ s \in {1, 2}
    BY <2>1, RowsAreRows DEF StaffRows, RolesFit
  <2>2. ASSUME NEW a \in Entries
        PROVE  audit[a].action \in {"staff_added", "staff_removed"} /\ audit[a].id \in Members
    BY <2>2, RowsAreRows DEF AuditRows, Subjects, TrueEntry
  <2>3. ASSUME NEW p \in Slots
        PROVE  req[p].pc \in {"idle", "generate", "insert", "role", "remove", "audit", "log"}
    BY DEF Typed, Idle, Generating, Inserting, RoleChanges, Removals, Auditing, Logging
  <2>4. requests \in 0 .. MaxRequests
    BY DEF Typed
  <2> QED
    BY <2>1, <2>2, <2>3, <2>4 DEF StaffTypeOK
<1> QED
  BY <1>1, StaffInvHolds, PTL

\* Nobody is invited with an email that was in the table, of a removed member
\* too, when handleInviteStaff looked (InvitedOnce).
THEOREM InvitedOnceHolds == StaffSpec => []InvitedOnce
<1>1. StaffInv => InvitedOnce
  BY DEF StaffInv, EmailsSeen, InvitedOnce
<1> QED
  BY <1>1, StaffInvHolds, PTL

\* What the portal was told stays true: a removal is not undone by the role
\* changes and invitations that overlap it (AnswersHold).
THEOREM AnswersHoldHolds == StaffSpec => []AnswersHold
<1>1. StaffInv => AnswersHold
  BY DEF StaffInv, Subjects, Subject, AnswersHold
<1> QED
  BY <1>1, StaffInvHolds, PTL

\* portal_audit_log tells what happened, once for an invitation and at most
\* once a slot for a removal, and lacks nothing that was answered unless a
\* statement failed or two entries raced for a key (AuditTrue).
THEOREM AuditTrueHolds == StaffSpec => []AuditTrue
<1>1. StaffInv => AuditTrue
  <2> SUFFICES ASSUME StaffInv PROVE AuditTrue
    OBVIOUS
  <2> USE DEF StaffInv
  <2>1. ASSUME NEW a \in Entries, audit[a].action = "staff_removed"
        PROVE  /\ staff[audit[a].id].status = "deleted"
               /\ audit[a].portal = audit[a].from \/ audit[a].moved
    BY <2>1 DEF Subjects, TrueEntry
  <2>2. ASSUME NEW s \in Members
        PROVE  /\ Cardinality(Written(s, "staff_added")) <= 1
               /\ Cardinality(Written(s, "staff_removed")) <= Cardinality(Slots)
    <3>1. s \in StaffIDs
      BY DEF Members
    <3>2. Cardinality(Written(s, "staff_added")) <= 1
      <4>1. CASE Written(s, "staff_added") = {}
        BY <4>1, FS_EmptySet
      <4>2. CASE Written(s, "staff_added") # {}
        <5>1. PICK a \in Written(s, "staff_added") : TRUE
          BY <4>2
        <5>2. Written(s, "staff_added") = {a}
          BY <3>1, <5>1 DEF AddedOnce
        <5> QED
          BY <5>2, FS_Singleton
      <4> QED
        BY <4>1, <4>2
    <3>3. /\ Cardinality(Removing(s)) \in Nat /\ Cardinality(Slots) \in Nat
          /\ Cardinality(Written(s, "staff_removed")) \in Nat
      <4>1. Removing(s) \subseteq Slots /\ Written(s, "staff_removed") \subseteq AuditIDs
        BY DEF Removing, Writing, Written, Entries
      <4> QED
        BY <4>1, FiniteIDs, SlotsAssumption, FS_Subset, FS_CardinalityType
    <3>4. Cardinality(Removing(s)) + Cardinality(Written(s, "staff_removed"))
            <= Cardinality(Slots)
      BY <3>1 DEF RemovedTogether
    <3> QED
      BY <3>2, <3>3, <3>4
  <2>3. ~mishap => \A t \in told :
          \E a \in Entries : audit[a].id = t.id /\ audit[a].action = t.action
    BY DEF Subjects
  <2> QED
    BY <2>1, <2>2, <2>3 DEF AuditTrue, Written
<1> QED
  BY <1>1, StaffInvHolds, PTL

\* The five figures of the dashboard fit together up to the changes made while
\* they were read (DashboardAddsUp).
THEOREM DashboardAddsUpHolds == StaffSpec => []DashboardAddsUp
<1>1. StaffInv => DashboardAddsUp
  BY DEF StaffInv, DashFits, Off, DashboardAddsUp
<1> QED
  BY <1>1, StaffInvHolds, PTL
=============================================================================
