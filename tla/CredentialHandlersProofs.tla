----------------------- MODULE CredentialHandlersProofs -----------------------
(***************************************************************************)
(* Results on the issuer's handlers, for any number of handlers and       *)
(* requests, with faults, timeouts, late commits and restarts.  Every      *)
(* credential on chain verifies: the issuer's signature covers the record  *)
(* as it is now, although it was made over a record read earlier, because  *)
(* a pending expiry update has signed the holder and body its credential   *)
(* still has (Backed).  A 200 is true: the transaction it answers is in    *)
(* the ledger.  And the rest of the module is about what is left in MySQL. *)
(***************************************************************************)
EXTENDS CredentialHandlers, FabricLedgerProofs, FiniteSetTheorems, SequenceTheorems

\* What a handler submits is signed over what it will write, whatever is
\* committed before it.
Backed(w, tx) ==
  /\ tx.fn = "issueCredential" => tx.signed = Signature(tx.holder, tx.body, tx.expiry)
  /\ tx.fn = "updateExpiry" => /\ IsCredential(w, tx.key)
                               /\ tx.signed = Resign(w[tx.key], tx.expiry)

\* An issue has no key before it is simulated.
Drafts ==
  [fn : {"issueCredential"}, holder : HolderIDs, body : Bodies, expiry : Expiries,
   signed : Signings, admissible : BOOLEAN]

FullRows ==
  [cred : CredIDs, status : {"active", "suspended", "revoked"}, expiry : Expiries,
   signed : Signings]

RowsTyped == rows \in [DisplayIDs -> {NoRow} \cup FullRows]

\* The backend is started again, its counter seeded well or not.
Restarted == BackendRestarts \/ BackendRestartsUnseeded

RequestShape(p) ==
  req[p] = [pc |-> req[p].pc, d |-> req[p].d, tx |-> req[p].tx, code |-> req[p].code]

\* What a request holds at each of its steps.
RequestOK(p) ==
  /\ req[p].pc = "submit" => /\ req[p].tx \in Drafts \cup UpdateTx \cup StatusTx
                             /\ Backed(world, req[p].tx)
  /\ req[p].pc = "wait" => \/ req[p].tx \in IssueTx \cup UpdateTx \cup StatusTx
                           \/ call[p].st = "failed"
  /\ req[p].pc = "insert" => req[p].tx \in IssueTx
  /\ req[p].pc = "mark" => req[p].tx \in UpdateTx \cup StatusTx
  /\ req[p].pc \in {"submit", "wait", "mark"} /\ req[p].tx.fn # "issueCredential"
       => req[p].d \in DisplayIDs /\ rows[req[p].d] \in FullRows

HandlersInv ==
  /\ LedgerInv
  /\ CommitmentIntact
  /\ RowsTyped
  /\ DOMAIN req = Clients
  /\ \A p \in Clients : RequestShape(p) /\ RequestOK(p)
  /\ \A e \in mempool : Backed(world, e.tx)

-----------------------------------------------------------------------------
(* What a transaction does to signatures. *)

\* No transaction removes a credential or changes its holder or body.
LEMMA BodiesStay ==
  ASSUME TypeOK, NEW tx \in Tx, Execute(tx), NEW c \in CredIDs, IsCredential(world, c)
  PROVE  /\ IsCredential(world', c)
         /\ world'[c].Holder = world[c].Holder
         /\ world'[c].Body = world[c].Body
<1>1. world' = [world EXCEPT ![tx.key] = Written(world, tx)] /\ Accepts(world, tx)
  BY DEF Execute
<1>2. world[c] \in CredentialRecords /\ c \in DOMAIN world
  BY DEF TypeOK, IsCredential, NoRecord, Keys
<1>3. CASE tx.key # c
  BY <1>1, <1>2, <1>3 DEF IsCredential
<1>4. CASE tx.key = c
  <2>1. tx.fn \in {"updateExpiry", "revokeCredential", "suspendCredential",
                   "restoreCredential"}
    BY <1>1, <1>2, <1>4, KeySpacesAssumption
       DEF Tx, HolderTx, IssueTx, UpdateTx, StatusTx, Accepts, IsCredential, NoRecord
  <2>2. world'[c] = Written(world, tx)
    BY <1>1, <1>2, <1>4
  <2>3. Written(world, tx) \in {WithExpiry(world[c], tx), AsRevoked(world[c]),
                                AsSuspended(world[c]), AsRestored(world[c])}
    BY <1>4, <2>1 DEF Written
  <2> QED
    BY ZenonT(40), <1>2, <2>2, <2>3
       DEF WithExpiry, AsRevoked, AsSuspended, AsRestored, CredentialRecords, IsCredential
<1> QED
  BY <1>3, <1>4

\* So a signature made over the record read earlier is the one that would be
\* made now.
LEMMA BackedStays ==
  ASSUME TypeOK, NEW tx \in Tx, Execute(tx), NEW t, t.fn = "updateExpiry" => t.key \in CredIDs,
         Backed(world, t)
  PROVE  Backed(world', t)
<1>1. CASE t.fn = "updateExpiry"
  <2>1. /\ IsCredential(world', t.key)
        /\ world'[t.key].Holder = world[t.key].Holder
        /\ world'[t.key].Body = world[t.key].Body
    BY <1>1, BodiesStay DEF Backed
  <2>2. Resign(world'[t.key], t.expiry) = Resign(world[t.key], t.expiry)
    BY <2>1 DEF Resign, CommitmentOf
  <2> QED
    BY <1>1, <2>1, <2>2 DEF Backed
<1>2. CASE t.fn # "updateExpiry"
  BY <1>2 DEF Backed
<1> QED
  BY <1>1, <1>2

\* A backed transaction leaves every record covered by its signature.
LEMMA IntactStays ==
  ASSUME TypeOK, CommitmentIntact, NEW tx \in Tx, Execute(tx), Backed(world, tx)
  PROVE  CommitmentIntact'
<1>1. world' = [world EXCEPT ![tx.key] = Written(world, tx)] /\ Accepts(world, tx)
  BY DEF Execute
<1> SUFFICES ASSUME NEW c \in CredIDs, IsCredential(world', c)
             PROVE  world'[c].Signed = SignCommitment(CommitmentOf(world'[c]))
  BY DEF CommitmentIntact, IsCredential
<1>2. c \in DOMAIN world
  BY DEF TypeOK, Keys
<1>3. CASE tx.key # c
  BY <1>1, <1>2, <1>3 DEF CommitmentIntact, IsCredential
<1>4. CASE tx.key = c
  <2>1. world'[c] = Written(world, tx)
    BY <1>1, <1>2, <1>4
  <2>2. CASE tx \in HolderTx
    BY <1>4, <2>2, KeySpacesAssumption DEF HolderTx
  <2>3. CASE tx \in IssueTx
    <3>1. world'[c] = NewCredential(tx)
      BY <2>1, <2>3 DEF IssueTx, Written
    <3>2. tx.signed = Signature(tx.holder, tx.body, tx.expiry)
      BY <2>3 DEF IssueTx, Backed
    <3> QED
      BY <3>1, <3>2 DEF NewCredential, CommitmentOf, Signature
  <2>4. CASE tx \in UpdateTx
    <3>1. tx.fn = "updateExpiry" /\ world[c] \in CredentialRecords
      BY <1>1, <1>4, <2>4 DEF UpdateTx, Accepts, Updatable, TypeOK, IsCredential, NoRecord
    <3>2. world'[c] = WithExpiry(world[c], tx)
      BY <1>4, <2>1, <3>1 DEF Written
    <3>3. tx.signed = Resign(world[c], tx.expiry)
      BY <1>4, <3>1 DEF Backed
    <3>4. tx.signed = SignCommitment([Holder |-> world[c].Holder, Body |-> world[c].Body,
                                      ExpiryDate |-> tx.expiry])
      BY <3>3 DEF Resign, CommitmentOf
    <3>5. /\ world'[c].Holder = world[c].Holder /\ world'[c].Body = world[c].Body
          /\ world'[c].ExpiryDate = tx.expiry /\ world'[c].Signed = tx.signed
      BY <3>1, <3>2 DEF WithExpiry, CredentialRecords
    <3> QED
      BY <3>4, <3>5 DEF CommitmentOf
  <2>5. CASE tx \in StatusTx
    <3>1. world[c] \in CredentialRecords /\ IsCredential(world, c)
      BY <1>1, <1>4, <2>5
         DEF StatusTx, Accepts, Revocable, Suspendable, Restorable, TypeOK, IsCredential, NoRecord
    <3>2. world'[c] \in {AsRevoked(world[c]), AsSuspended(world[c]), AsRestored(world[c])}
      BY <1>4, <2>1, <2>5 DEF StatusTx, Written
    <3>3. /\ world'[c].Holder = world[c].Holder /\ world'[c].Body = world[c].Body
          /\ world'[c].ExpiryDate = world[c].ExpiryDate /\ world'[c].Signed = world[c].Signed
      BY <3>1, <3>2 DEF AsRevoked, AsSuspended, AsRestored, CredentialRecords
    <3> QED
      BY <3>1, <3>3 DEF CommitmentIntact, CommitmentOf
  <2> QED
    BY <2>2, <2>3, <2>4, <2>5 DEF Tx
<1> QED
  BY <1>3, <1>4

-----------------------------------------------------------------------------
(* Steps that leave the chain alone: they move one request, or reset all.  *)

\* A row that is there stays there.
RowsStay == /\ RowsTyped'
            /\ \A d \in DisplayIDs : rows[d] \in FullRows => rows'[d] \in FullRows

\* The other requests stay as they are, except that their calls may fail.
Untouched(q) == /\ req'[q] = req[q]
                /\ call[q].st = "failed" => call'[q].st = "failed"

LEMMA UntouchedStaysOK ==
  ASSUME NEW q \in Clients, RequestShape(q), RequestOK(q), Untouched(q), RowsStay,
         world' = world
  PROVE  RequestShape(q)' /\ RequestOK(q)'
  BY DEF RequestShape, RequestOK, Untouched, RowsStay, Backed, IsCredential

\* The step moves the request of p and no other.
Moves(p) == /\ DOMAIN req' = Clients
            /\ RequestShape(p)'
            /\ \A q \in Clients \ {p} : req'[q] = req[q]

LEMMA MovePreserves ==
  ASSUME HandlersInv, LedgerInv', RowsStay,
         world' = world, mempool' \subseteq mempool,
         NEW p \in Clients, Moves(p), RequestOK(p)',
         \A q \in Clients \ {p} : call'[q] = call[q]
  PROVE  HandlersInv'
<1>1. ASSUME NEW q \in Clients
      PROVE  RequestShape(q)' /\ RequestOK(q)'
  <2>1. CASE q = p
    BY <2>1 DEF Moves
  <2>2. CASE q # p
    BY <2>2, UntouchedStaysOK DEF HandlersInv, Untouched, Moves
  <2> QED
    BY <2>1, <2>2
<1>2. CommitmentIntact'
  BY DEF HandlersInv, CommitmentIntact, IsCredential
<1>3. \A e \in mempool' : Backed(world', e.tx)
  BY DEF HandlersInv
<1>4. DOMAIN req' = Clients
  BY DEF Moves
<1> QED
  BY <1>1, <1>2, <1>3, <1>4 DEF HandlersInv, RowsStay

\* The same when the ledger is not involved.
LEMMA QuietMove ==
  ASSUME HandlersInv, UNCHANGED ledgerVars, RowsStay,
         NEW p \in Clients, Moves(p), RequestOK(p)'
  PROVE  HandlersInv'
<1>1. LedgerInv'
  BY StepPreserves DEF HandlersInv
<1> QED
  BY <1>1, MovePreserves DEF ledgerVars

LEMMA SameRowsStay ==
  ASSUME HandlersInv, rows' = rows
  PROVE  RowsStay
  BY DEF HandlersInv, RowsTyped, RowsStay

\* A request that leaves the steps that carry obligations owes nothing.
LEMMA IdleStepsAreOK ==
  ASSUME NEW p \in Clients,
         req'[p].pc \in {"idle", "alert", "event", "email", "done"}
  PROVE  RequestOK(p)'
  BY DEF RequestOK

\* A request record keeps its shape under updates.
LEMMA RequestUpdates ==
  ASSUME NEW p \in Clients, RequestShape(p), DOMAIN req = Clients, NEW a, NEW b
  PROVE  /\ req' = [req EXCEPT ![p].pc = a] =>
              /\ Moves(p) /\ req'[p].pc = a
              /\ req'[p].d = req[p].d /\ req'[p].tx = req[p].tx
         /\ req' = [req EXCEPT ![p].pc = a, ![p].tx = b] =>
              /\ Moves(p) /\ req'[p].pc = a
              /\ req'[p].d = req[p].d /\ req'[p].tx = b
         /\ req' = [req EXCEPT ![p].pc = a, ![p].d = b] =>
              /\ Moves(p) /\ req'[p].pc = a
              /\ req'[p].d = b /\ req'[p].tx = req[p].tx
         /\ req' = [req EXCEPT ![p].pc = a, ![p].code = b] =>
              /\ Moves(p) /\ req'[p].pc = a
              /\ req'[p].d = req[p].d /\ req'[p].tx = req[p].tx
  BY DEF RequestShape, Moves

\* A step of p alone, away from the ledger and from the steps that carry
\* obligations.
LEMMA FreeMove ==
  ASSUME HandlersInv, UNCHANGED ledgerVars, RowsStay, NEW p \in Clients, Moves(p),
         req'[p].pc \in {"idle", "alert", "event", "email", "done"}
  PROVE  HandlersInv'
  BY IdleStepsAreOK, QuietMove

\* A fresh request record put in the place of p's.
Becomes(p, pc, d, tx, code) ==
  req' = [req EXCEPT ![p] = [pc |-> pc, d |-> d, tx |-> tx, code |-> code]]

LEMMA Replaced ==
  ASSUME HandlersInv, NEW p \in Clients, NEW a, NEW b, NEW c, NEW t,
         Becomes(p, a, b, t, c)
  PROVE  /\ Moves(p) /\ req'[p].pc = a /\ req'[p].d = b /\ req'[p].tx = t
         /\ req'[p].code = c
  BY DEF HandlersInv, Moves, RequestShape, Becomes

-----------------------------------------------------------------------------
(* The reads: what a handler decides to submit is backed. *)

LEMMA RefusalPreserves ==
  ASSUME HandlersInv, NEW p \in Clients, Accept(p, Refused)
  PROVE  HandlersInv'
<1>1. Refused = [pc |-> "done", d |-> 0, tx |-> NoTx, code |-> "error"]
  BY DEF Refused, NoReq
<1>2. Becomes(p, "done", 0, NoTx, "error")
  BY <1>1 DEF Accept, Becomes
<1>3. Moves(p) /\ req'[p].pc = "done"
  BY <1>2, Replaced
<1> QED
  BY <1>3, SameRowsStay, FreeMove DEF Accept, dbVars

LEMMA ReadForIssuePreserves ==
  ASSUME HandlersInv, NEW p \in Clients, NEW h \in HolderIDs, NEW b \in Bodies,
         NEW e \in Expiries, ReadForIssue(p, h, b, e)
  PROVE  HandlersInv'
<1> DEFINE t == [fn |-> "issueCredential", holder |-> h, body |-> b, expiry |-> e,
                 signed |-> Signature(h, b, e), admissible |-> TRUE]
<1>1. CASE Bound(world, h)
  <2>1. /\ Becomes(p, "submit", 0, t, "none")
        /\ UNCHANGED <<ledgerVars, dbVars>>
    BY <1>1 DEF ReadForIssue, Accept, Becomes
  <2> HIDE DEF t
  <2>2. Moves(p) /\ req'[p].pc = "submit" /\ req'[p].tx = t
    BY <2>1, Replaced
  <2>3. t \in Drafts /\ t.fn = "issueCredential"
    BY DEF Drafts, Signature, SignCommitment, Signings, Commitments, t
  <2>4. Backed(world', t)
    BY DEF Backed, t
  <2>5. RequestOK(p)'
    BY <2>2, <2>3, <2>4 DEF RequestOK
  <2> QED
    BY <2>1, <2>2, <2>5, SameRowsStay, QuietMove DEF dbVars
<1>2. CASE ~Bound(world, h)
  BY <1>2, RefusalPreserves DEF ReadForIssue
<1> QED
  BY <1>1, <1>2

\* The row that is found names a credential.
LEMMA FoundRow ==
  ASSUME HandlersInv, NEW d \in DisplayIDs, Found(d)
  PROVE  /\ rows[d] \in FullRows
         /\ rows[d].cred \in CredIDs
         /\ world[rows[d].cred] \in CredentialRecords
<1>1. rows[d] \in FullRows
  BY DEF Found, HandlersInv, RowsTyped
<1>2. rows[d].cred \in CredIDs
  BY <1>1 DEF FullRows
<1> QED
  BY <1>1, <1>2 DEF Found, HandlersInv, LedgerInv, LedgerTypeOK, TypeOK, IsCredential, NoRecord

LEMMA ReadForStatusPreserves ==
  ASSUME HandlersInv, NEW p \in Clients, NEW d \in DisplayIDs, NEW fn \in StatusFns,
         ReadForStatus(p, d, fn)
  PROVE  HandlersInv'
<1> DEFINE t == [fn |-> fn, key |-> rows[d].cred, admissible |-> TRUE]
<1>1. CASE Found(d) /\ Permits(fn, world[rows[d].cred])
  <2>1. /\ Becomes(p, "submit", d, t, "none")
        /\ UNCHANGED <<ledgerVars, dbVars>>
    BY <1>1 DEF ReadForStatus, Accept, Becomes
  <2> HIDE DEF t
  <2>2. Moves(p) /\ req'[p].pc = "submit" /\ req'[p].tx = t /\ req'[p].d = d
    BY <2>1, Replaced
  <2>3. t \in StatusTx
    BY <1>1, FoundRow DEF StatusTx, StatusFns, t
  <2>4. Backed(world', t)
    BY DEF Backed, StatusFns, t
  <2>5. rows'[d] \in FullRows
    BY <1>1, <2>1, FoundRow DEF dbVars
  <2>6. RequestOK(p)'
    BY <2>2, <2>3, <2>4, <2>5 DEF RequestOK, DisplayIDs
  <2> QED
    BY <2>1, <2>2, <2>6, SameRowsStay, QuietMove DEF dbVars
<1>2. CASE ~(Found(d) /\ Permits(fn, world[rows[d].cred]))
  BY <1>2, RefusalPreserves DEF ReadForStatus
<1> QED
  BY <1>1, <1>2

LEMMA ReadForUpdatePreserves ==
  ASSUME HandlersInv, NEW p \in Clients, NEW d \in DisplayIDs, NEW e \in Expiries,
         ReadForUpdate(p, d, e)
  PROVE  HandlersInv'
<1> DEFINE r  == world[rows[d].cred]
           t  == [fn |-> "updateExpiry", key |-> rows[d].cred, expiry |-> e,
                  signed |-> Resign(r, e), admissible |-> TRUE]
           pc == IF e # r.ExpiryDate THEN "submit" ELSE "email"
<1>1. CASE Found(d) /\ r.Status # "revoked"
  <2>1. /\ Becomes(p, pc, d, t, "none")
        /\ UNCHANGED <<ledgerVars, dbVars>>
    BY <1>1 DEF ReadForUpdate, Accept, Becomes
  <2> HIDE DEF t, pc
  <2>2. Moves(p) /\ req'[p].pc = pc /\ req'[p].tx = t /\ req'[p].d = d
    BY <2>1, Replaced
  <2>3. Resign(r, e) \in Signings
    BY <1>1, FoundRow
       DEF Resign, SignCommitment, CommitmentOf, CredentialRecords, Signings, Commitments
  <2>4. t \in UpdateTx
    BY <1>1, <2>3, FoundRow DEF UpdateTx, t
  <2>5. Backed(world', t)
    BY <1>1, <2>1 DEF Backed, Found, ledgerVars, t
  <2>6. rows'[d] \in FullRows
    BY <1>1, <2>1, FoundRow DEF dbVars
  <2>7. RequestOK(p)'
    BY <2>2, <2>4, <2>5, <2>6 DEF RequestOK, DisplayIDs, pc
  <2> QED
    BY <2>1, <2>2, <2>7, SameRowsStay, QuietMove DEF dbVars
<1>2. CASE ~(Found(d) /\ r.Status # "revoked")
  BY <1>2, RefusalPreserves DEF ReadForUpdate
<1> QED
  BY <1>1, <1>2

-----------------------------------------------------------------------------
(* The submission. *)

\* The transaction that is simulated is the drafted one, with its key.
LEMMA KeyedTransaction ==
  ASSUME HandlersInv, NEW p \in Clients, req[p].pc = "submit", NEW id \in TxIDs
  PROVE  /\ WithKey(req[p].tx, id) \in IssueTx \cup UpdateTx \cup StatusTx
         /\ Backed(world, WithKey(req[p].tx, id))
         /\ WithKey(req[p].tx, id).fn = req[p].tx.fn
<1>1. req[p].tx \in Drafts \cup UpdateTx \cup StatusTx /\ Backed(world, req[p].tx)
  BY DEF HandlersInv, RequestOK
<1>2. CASE req[p].tx.fn = "issueCredential"
  <2>1. req[p].tx \in Drafts
    BY <1>1, <1>2 DEF UpdateTx, StatusTx
  <2>2. WithKey(req[p].tx, id) \in IssueTx
    BY <1>2, <2>1 DEF WithKey, Drafts, IssueTx, TxIDs
  <2> QED
    BY <1>1, <1>2, <2>2 DEF WithKey, Backed
<1>3. CASE req[p].tx.fn # "issueCredential"
  BY <1>1, <1>3 DEF WithKey, Drafts
<1> QED
  BY <1>2, <1>3

\* Sending the transaction b moves the request.
LEMMA SentRequest ==
  ASSUME HandlersInv, NEW p \in Clients, NEW b,
         req' = [req EXCEPT ![p].pc = "wait", ![p].tx = b]
  PROVE  /\ Moves(p) /\ req'[p].pc = "wait"
         /\ req'[p].d = req[p].d /\ req'[p].tx = b
<1>1. RequestShape(p) /\ DOMAIN req = Clients
  BY DEF HandlersInv
<1> QED
  BY <1>1 DEF RequestShape, Moves

LEMMA SubmitPreserves ==
  ASSUME HandlersInv, NEW p \in Clients, Submit(p)
  PROVE  HandlersInv'
<1>1. PICK id \in TxIDs :
        /\ Endorse(p, WithKey(req[p].tx, id))
        /\ req' = [req EXCEPT ![p].pc = "wait", ![p].tx = WithKey(req[p].tx, id)]
  BY DEF Submit
<1> DEFINE tx == WithKey(req[p].tx, id)
<1>2. /\ tx \in IssueTx \cup UpdateTx \cup StatusTx
      /\ Backed(world, tx)
      /\ tx.fn = req[p].tx.fn
  BY KeyedTransaction DEF Submit
<1> HIDE DEF tx
<1>0. req' = [req EXCEPT ![p].pc = "wait", ![p].tx = tx]
  BY <1>1 DEF tx
<1>3. Moves(p) /\ req'[p].pc = "wait" /\ req'[p].d = req[p].d /\ req'[p].tx = tx
  BY <1>0, SentRequest
<1>4. LedgerInv' /\ world' = world
  BY <1>1, <1>2, EndorsePreserves DEF HandlersInv, Endorse, Tx, tx
<1>5. rows' = rows
  BY DEF Submit, dbVars
<1>6. RequestOK(p)'
  BY <1>2, <1>3, <1>5 DEF RequestOK, HandlersInv, Submit
<1>7. \A q \in Clients \ {p} : Untouched(q)
  BY <1>1, <1>3, <1>4 DEF Untouched, Moves, Endorse, HandlersInv, LedgerInv, LedgerTypeOK
<1>8. \A q \in Clients : RequestShape(q)' /\ RequestOK(q)'
  <2>1. ASSUME NEW q \in Clients \ {p}
        PROVE  RequestShape(q)' /\ RequestOK(q)'
    BY <1>4, <1>5, <1>7, SameRowsStay, UntouchedStaysOK DEF HandlersInv
  <2> QED
    BY <1>3, <1>6, <2>1 DEF Moves
<1>9. \A e \in mempool' : Backed(world', e.tx)
  <2>1. PICK n : mempool' = mempool \cup {Entry(n, tx)}
    BY <1>1 DEF Endorse, tx
  <2>2. Entry(n, tx).tx = tx
    BY DEF Entry
  <2> QED
    BY <1>2, <1>4, <2>1, <2>2 DEF HandlersInv
<1>10. CommitmentIntact' /\ RowsTyped' /\ DOMAIN req' = Clients
  BY <1>3, <1>4, <1>5 DEF HandlersInv, CommitmentIntact, IsCredential, RowsTyped, Moves
<1> QED
  BY <1>4, <1>8, <1>9, <1>10 DEF HandlersInv

\* The call fails at once: it is refused, or the peer cannot be reached.
LEMMA CallFails ==
  ASSUME HandlersInv, NEW p \in Clients, req[p].pc = "submit",
         call' = [call EXCEPT ![p] = [st |-> "failed", id |-> Genesis]],
         UNCHANGED <<world, version, mempool, committed, used>>,
         req' = [req EXCEPT ![p].pc = "wait"],
         rows' = rows
  PROVE  HandlersInv'
<1>1. call' \in [Clients -> [st : CallStates, id : TxIDs \cup {Genesis}]]
  BY DEF HandlersInv, LedgerInv, LedgerTypeOK, CallStates
<1>2. LedgerInv'
  BY <1>1, OthersPreserve DEF HandlersInv
<1>3. /\ Moves(p) /\ req'[p].pc = "wait"
      /\ req'[p].d = req[p].d /\ req'[p].tx = req[p].tx
  BY RequestUpdates DEF HandlersInv
<1>4. call \in [Clients -> [st : CallStates, id : TxIDs \cup {Genesis}]]
  BY DEF HandlersInv, LedgerInv, LedgerTypeOK
<1>5. call'[p].st = "failed" /\ \A q \in Clients \ {p} : call'[q] = call[q]
  BY <1>4
<1>6. RequestOK(p)'
  BY <1>3, <1>5 DEF RequestOK, HandlersInv
<1> QED
  BY <1>2, <1>3, <1>5, <1>6, SameRowsStay, MovePreserves

LEMMA SubmitRefusedPreserves ==
  ASSUME HandlersInv, NEW p \in Clients, SubmitRefused(p)
  PROVE  HandlersInv'
  BY CallFails DEF SubmitRefused, Refuse, dbVars

LEMMA SubmitUnreachablePreserves ==
  ASSUME HandlersInv, NEW p \in Clients, SubmitUnreachable(p)
  PROVE  HandlersInv'
  BY CallFails DEF SubmitUnreachable, PeerUnreachable, dbVars

\* The call returns, and the ledger forgets about it.
LEMMA ReturnKeepsLedger ==
  ASSUME HandlersInv, NEW p \in Clients, Return(p)
  PROVE  /\ LedgerInv' /\ world' = world /\ mempool' = mempool
         /\ \A q \in Clients \ {p} : call'[q] = call[q]
<1>1. [LedgerNext]_ledgerVars
  BY DEF LedgerNext
<1>2. LedgerInv'
  BY <1>1, StepPreserves DEF HandlersInv
<1> QED
  BY <1>2 DEF Return, HandlersInv, LedgerInv, LedgerTypeOK

LEMMA SubmitFailsPreserves ==
  ASSUME HandlersInv, NEW p \in Clients, SubmitFails(p)
  PROVE  HandlersInv'
<1>1. Moves(p) /\ req'[p].pc = "done"
  BY RequestUpdates DEF SubmitFails, AfterError, HandlersInv
<1>2. RequestOK(p)'
  BY <1>1, IdleStepsAreOK
<1>3. RowsStay
  BY SameRowsStay DEF SubmitFails, dbVars
<1> QED
  BY <1>1, <1>2, <1>3, ReturnKeepsLedger, MovePreserves DEF SubmitFails

LEMMA SubmitSucceedsPreserves ==
  ASSUME HandlersInv, NEW p \in Clients, SubmitSucceeds(p)
  PROVE  HandlersInv'
<1>1. req[p].tx \in IssueTx \cup UpdateTx \cup StatusTx
  BY DEF SubmitSucceeds, HandlersInv, RequestOK
<1>2. rows' = rows /\ RowsStay
  BY SameRowsStay DEF SubmitSucceeds
<1>3. CASE req[p].tx.fn = "issueCredential"
  <2>1. req' = [req EXCEPT ![p].pc = "insert", ![p].d = Draw(counter)]
    BY <1>3 DEF SubmitSucceeds
  <2>2. Moves(p) /\ req'[p].pc = "insert" /\ req'[p].tx = req[p].tx
    BY <2>1, RequestUpdates DEF HandlersInv
  <2>3. req[p].tx \in IssueTx
    BY <1>1, <1>3 DEF UpdateTx, StatusTx
  <2>4. RequestOK(p)'
    BY <2>2, <2>3 DEF RequestOK
  <2> QED
    BY <1>2, <2>2, <2>4, ReturnKeepsLedger, MovePreserves DEF SubmitSucceeds
<1>4. CASE req[p].tx.fn # "issueCredential"
  <2>1. req' = [req EXCEPT ![p].pc = "mark"]
    BY <1>4 DEF SubmitSucceeds
  <2>2. /\ Moves(p) /\ req'[p].pc = "mark"
        /\ req'[p].tx = req[p].tx /\ req'[p].d = req[p].d
    BY <2>1, RequestUpdates DEF HandlersInv
  <2>3. req[p].tx \in UpdateTx \cup StatusTx
    BY <1>1, <1>4 DEF IssueTx
  <2>4. RequestOK(p)'
    BY <1>2, <1>4, <2>2, <2>3 DEF RequestOK, HandlersInv, SubmitSucceeds
  <2> QED
    BY <1>2, <2>2, <2>4, ReturnKeepsLedger, MovePreserves DEF SubmitSucceeds
<1> QED
  BY <1>3, <1>4

-----------------------------------------------------------------------------
(* The MySQL statements. *)

\* Both rows a statement can write are full ones.
LEMMA InsertRowPreserves ==
  ASSUME HandlersInv, NEW p \in Clients, InsertRow(p)
  PROVE  HandlersInv'
<1>1. req[p].tx \in IssueTx
  BY DEF InsertRow, HandlersInv, RequestOK
<1>2. NewRow(req[p].tx) \in FullRows
  BY <1>1 DEF NewRow, FullRows, IssueTx
<1>3. \/ rows' = [rows EXCEPT ![req[p].d] = NewRow(req[p].tx)]
      \/ rows' = rows
  BY DEF InsertRow, Vacant
<1>4. RowsStay
  BY <1>2, <1>3 DEF RowsStay, RowsTyped, HandlersInv
<1>5. Moves(p) /\ req'[p].pc \in {"event", "done"}
  BY RequestUpdates DEF InsertRow, Goto, Answer, HandlersInv
<1> QED
  BY <1>4, <1>5, FreeMove DEF InsertRow

LEMMA MarkedRowMoves ==
  ASSUME HandlersInv, NEW p \in Clients, MarkRow(p), req[p].d \in DisplayIDs,
         Marked(rows[req[p].d], req[p].tx) \in FullRows
  PROVE  HandlersInv'
<1>1. rows' = [rows EXCEPT ![req[p].d] = Marked(rows[req[p].d], req[p].tx)]
  BY DEF MarkRow, HandlersInv, RowsTyped
<1>2. RowsStay
  BY <1>1 DEF RowsStay, RowsTyped, HandlersInv
<1>3. AfterMark(req[p].tx.fn) \in {"email", "event", "alert"}
  BY DEF AfterMark
<1>4. Moves(p) /\ req'[p].pc \in {"email", "event", "alert"}
  BY <1>3, RequestUpdates DEF MarkRow, Goto, HandlersInv
<1> QED
  BY <1>2, <1>4, FreeMove DEF MarkRow

LEMMA MarkRowPreserves ==
  ASSUME HandlersInv, NEW p \in Clients, MarkRow(p)
  PROVE  HandlersInv'
<1> DEFINE d  == req[p].d
           tx == req[p].tx
<1>1. tx \in UpdateTx \cup StatusTx
  BY DEF MarkRow, HandlersInv, RequestOK
<1>2. d \in DisplayIDs /\ rows[d] \in FullRows
  BY <1>1 DEF MarkRow, HandlersInv, RequestOK, UpdateTx, StatusTx
<1>3. CASE tx \in UpdateTx
  <2>1. Marked(rows[d], tx) = [rows[d] EXCEPT !.expiry = tx.expiry, !.signed = tx.signed]
    BY <1>3 DEF Marked, UpdateTx
  <2> QED
    BY <1>2, <1>3, <2>1, MarkedRowMoves DEF FullRows, UpdateTx
<1>4. CASE tx \in StatusTx
  <2>1. Marked(rows[d], tx) = [rows[d] EXCEPT !.status = CachedStatus(tx.fn)]
    BY <1>4 DEF Marked, StatusTx
  <2>2. CachedStatus(tx.fn) \in {"active", "suspended", "revoked"}
    BY <1>4 DEF CachedStatus, StatusTx
  <2> QED
    BY <1>2, <2>1, <2>2, MarkedRowMoves DEF FullRows
<1> QED
  BY <1>1, <1>3, <1>4

\* The steps that leave the rows alone and end an obligation.
LEMMA PlainStepPreserves ==
  ASSUME HandlersInv, NEW p \in Clients,
         \/ InsertRowFails(p) \/ MarkRowFails(p) \/ RaiseAlert(p) \/ RaiseAlertFails(p)
         \/ RecordEvent(p) \/ RecordEventFails(p) \/ UpdateEmail(p) \/ UpdateEmailFails(p)
  PROVE  HandlersInv'
<1>1. UNCHANGED ledgerVars /\ rows' = rows
  BY DEF InsertRowFails, MarkRowFails, RaiseAlert, RaiseAlertFails, RecordEvent,
         RecordEventFails, UpdateEmail, UpdateEmailFails, dbVars
<1>2. \/ Goto(p, AfterMark(req[p].tx.fn)) \/ Goto(p, "event")
      \/ Answer(p, "ok") \/ Answer(p, "error")
  BY DEF InsertRowFails, MarkRowFails, RaiseAlert, RaiseAlertFails, RecordEvent,
         RecordEventFails, UpdateEmail, UpdateEmailFails
<1>3. AfterMark(req[p].tx.fn) \in {"email", "event", "alert"}
  BY DEF AfterMark
<1>4. Moves(p) /\ req'[p].pc \in {"alert", "email", "event", "done"}
  <2>1. ASSUME NEW a, Goto(p, a)
        PROVE  Moves(p) /\ req'[p].pc = a
    BY <2>1, RequestUpdates DEF Goto, HandlersInv
  <2>2. ASSUME NEW b, Answer(p, b)
        PROVE  Moves(p) /\ req'[p].pc = "done"
    BY <2>2, RequestUpdates DEF Answer, HandlersInv
  <2> QED
    BY <1>2, <1>3, <2>1, <2>2
<1> QED
  BY <1>1, <1>4, SameRowsStay, FreeMove

-----------------------------------------------------------------------------
(* The network, the calendar and restarts. *)

\* Requests that do not move, while calls may fail.
LEMMA StillRequests ==
  ASSUME HandlersInv, req' = req, rows' = rows, world' = world, NEW q \in Clients,
         call[q].st = "failed" => call'[q].st = "failed"
  PROVE  RequestShape(q)' /\ RequestOK(q)'
  BY SameRowsStay, UntouchedStaysOK DEF HandlersInv, Untouched

LEMMA NetworkCommitsPreserves ==
  ASSUME HandlersInv, NEW e \in mempool, NetworkCommits(e)
  PROVE  HandlersInv'
<1>1. Commit(e) /\ rows' = rows /\ req' = req
  BY DEF NetworkCommits, dbVars
<1>2. e.tx \in Tx /\ Execute(e.tx) /\ TypeOK
  BY <1>1, CommitExecutes DEF HandlersInv, LedgerInv, LedgerTypeOK
<1>3. LedgerInv'
  BY <1>1, CommitPreserves DEF HandlersInv
<1>4. CommitmentIntact'
  BY <1>2, IntactStays DEF HandlersInv
<1>5. \A f \in mempool' : Backed(world', f.tx)
  <2>1. ASSUME NEW f \in mempool
        PROVE  Backed(world', f.tx)
    <3>1. f.tx \in Tx /\ Backed(world, f.tx)
      BY DEF HandlersInv, LedgerInv, LedgerTypeOK
    <3>2. f.tx.fn = "updateExpiry" => f.tx.key \in CredIDs
      BY <3>1 DEF Tx, HolderTx, IssueTx, UpdateTx, StatusTx
    <3> QED
      BY <1>2, <3>1, <3>2, BackedStays
  <2> QED
    BY <1>1, <2>1 DEF Commit
<1>6. ASSUME NEW q \in Clients
      PROVE  RequestShape(q)' /\ RequestOK(q)'
  <2>1. RequestShape(q) /\ RequestOK(q)
    BY DEF HandlersInv
  <2>2. call[q].st = "failed" => call'[q].st = "failed"
    BY <1>1 DEF Commit, Tell
  <2>3. req[q].pc = "submit" => Backed(world', req[q].tx)
    <3> SUFFICES ASSUME req[q].pc = "submit"
                 PROVE  Backed(world', req[q].tx)
      OBVIOUS
    <3>1. req[q].tx \in Drafts \cup UpdateTx \cup StatusTx /\ Backed(world, req[q].tx)
      BY <2>1 DEF RequestOK
    <3>2. req[q].tx.fn = "updateExpiry" => req[q].tx.key \in CredIDs
      BY <3>1 DEF Drafts, UpdateTx, StatusTx
    <3> QED
      BY <1>2, <3>1, <3>2, BackedStays
  <2> QED
    BY <1>1, <2>1, <2>2, <2>3 DEF RequestShape, RequestOK
<1> QED
  BY <1>1, <1>3, <1>4, <1>5, <1>6 DEF HandlersInv, RowsTyped

\* The other steps leave requests and world state alone.
LEMMA StillPreserves ==
  ASSUME HandlersInv, LedgerInv', req' = req, rows' = rows, world' = world,
         mempool' \subseteq mempool,
         \A q \in Clients : call[q].st = "failed" => call'[q].st = "failed"
  PROVE  HandlersInv'
<1>1. \A q \in Clients : RequestShape(q)' /\ RequestOK(q)'
  BY StillRequests
<1> QED
  BY <1>1 DEF HandlersInv, CommitmentIntact, IsCredential, RowsTyped

LEMMA NetworkDiscardsPreserves ==
  ASSUME HandlersInv, NEW e \in mempool, NetworkDiscards(e)
  PROVE  HandlersInv'
<1>1. Discard(e) /\ req' = req /\ rows' = rows
  BY DEF NetworkDiscards, dbVars
<1>2. LedgerInv'
  BY <1>1, StepPreserves DEF HandlersInv, LedgerNext
<1> QED
  BY <1>1, <1>2, StillPreserves DEF Discard, Tell

LEMMA CallTimesOutPreserves ==
  ASSUME HandlersInv, NEW p \in Clients, CallTimesOut(p)
  PROVE  HandlersInv'
<1>1. StatusTimeout(p) /\ req' = req /\ rows' = rows
  BY DEF CallTimesOut, dbVars
<1>2. LedgerInv'
  BY <1>1, StepPreserves DEF HandlersInv, LedgerNext
<1>3. \A q \in Clients : call[q].st = "failed" => call'[q].st = "failed"
  BY <1>1 DEF StatusTimeout, HandlersInv, LedgerInv, LedgerTypeOK
<1> QED
  BY <1>1, <1>2, <1>3, StillPreserves DEF StatusTimeout

\* A restart drops every request, and leaves chain and rows as they are.
LEMMA RestartPreserves ==
  ASSUME HandlersInv, Restarted
  PROVE  HandlersInv'
<1>1. call' \in [Clients -> [st : CallStates, id : TxIDs \cup {Genesis}]]
  BY DEF Restarted, BackendRestarts, BackendRestartsUnseeded, Restart, Idle, CallStates
<1>2. LedgerInv'
  BY <1>1, OthersPreserve DEF Restarted, BackendRestarts, BackendRestartsUnseeded, Restart, HandlersInv
<1>3. ASSUME NEW q \in Clients
      PROVE  RequestShape(q)' /\ RequestOK(q)'
  BY <1>3 DEF Restarted, BackendRestarts, BackendRestartsUnseeded, Restart, NoReq, RequestShape, RequestOK
<1> QED
  BY <1>2, <1>3 DEF Restarted, BackendRestarts, BackendRestartsUnseeded, Restart, HandlersInv, CommitmentIntact, IsCredential, RowsTyped

-----------------------------------------------------------------------------
\* One handler's step, whichever it is.
LEMMA HandlerStepPreserves ==
  ASSUME HandlersInv, NEW p \in Clients, HandlerStep(p)
  PROVE  HandlersInv'
<1>1. CASE Submit(p)
  BY <1>1, SubmitPreserves
<1>2. CASE SubmitRefused(p)
  BY <1>2, SubmitRefusedPreserves
<1>3. CASE SubmitUnreachable(p)
  BY <1>3, SubmitUnreachablePreserves
<1>4. CASE SubmitSucceeds(p)
  BY <1>4, SubmitSucceedsPreserves
<1>5. CASE SubmitFails(p)
  BY <1>5, SubmitFailsPreserves
<1>6. CASE InsertRow(p)
  BY <1>6, InsertRowPreserves
<1>7. CASE MarkRow(p)
  BY <1>7, MarkRowPreserves
<1>8. CASE \/ InsertRowFails(p) \/ MarkRowFails(p) \/ RaiseAlert(p) \/ RaiseAlertFails(p)
           \/ RecordEvent(p) \/ RecordEventFails(p) \/ UpdateEmail(p)
           \/ UpdateEmailFails(p)
  BY <1>8, PlainStepPreserves
<1> QED
  BY <1>1, <1>2, <1>3, <1>4, <1>5, <1>6, <1>7, <1>8 DEF HandlerStep

\* Steps that change nothing the invariant speaks of.
LEMMA NothingMovesPreserves ==
  ASSUME HandlersInv, UNCHANGED <<ledgerVars, req, rows>>
  PROVE  HandlersInv'
<1>1. LedgerInv'
  BY StepPreserves DEF HandlersInv
<1> QED
  BY <1>1, StillPreserves DEF ledgerVars

\* One step per action of the backend.
LEMMA HandlersStep == HandlersInv /\ [CredentialNext]_handlerVars => HandlersInv'
<1> SUFFICES ASSUME HandlersInv, [CredentialNext]_handlerVars
             PROVE  HandlersInv'
  OBVIOUS
<1>1. ASSUME NEW p \in Clients, NEW h \in HolderIDs, NEW b \in Bodies, NEW e \in Expiries,
             ReadForIssue(p, h, b, e)
      PROVE  HandlersInv'
  BY <1>1, ReadForIssuePreserves
<1>2. ASSUME NEW p \in Clients, NEW d \in DisplayIDs, NEW fn \in StatusFns,
             ReadForStatus(p, d, fn)
      PROVE  HandlersInv'
  BY <1>2, ReadForStatusPreserves
<1>3. ASSUME NEW p \in Clients, NEW d \in DisplayIDs, NEW e \in Expiries,
             ReadForUpdate(p, d, e)
      PROVE  HandlersInv'
  BY <1>3, ReadForUpdatePreserves
<1>4. ASSUME NEW p \in Clients, ReadFails(p)
      PROVE  HandlersInv'
  BY <1>4, RefusalPreserves DEF ReadFails
<1>5. ASSUME NEW p \in Clients, HandlerStep(p)
      PROVE  HandlersInv'
  BY <1>5, HandlerStepPreserves
<1>6. ASSUME NEW e \in mempool, NetworkCommits(e)
      PROVE  HandlersInv'
  BY <1>6, NetworkCommitsPreserves
<1>7. ASSUME NEW e \in mempool, NetworkDiscards(e)
      PROVE  HandlersInv'
  BY <1>7, NetworkDiscardsPreserves
<1>8. ASSUME NEW p \in Clients, CallTimesOut(p)
      PROVE  HandlersInv'
  BY <1>8, CallTimesOutPreserves
<1>9. CASE Tick
  BY <1>9, NothingMovesPreserves DEF Tick, dbVars
<1>10. CASE Restarted
  BY <1>10, RestartPreserves
<1>11. CASE UNCHANGED handlerVars
  BY <1>11, NothingMovesPreserves DEF handlerVars, dbVars
<1> QED
  BY <1>1, <1>2, <1>3, <1>4, <1>5, <1>6, <1>7, <1>8, <1>9, <1>10, <1>11
     DEF Restarted, CredentialNext

\* The model starts with one holder bound and credential First issued to it.
LEMMA HandlersStart == CredentialInit => HandlersInv
<1> SUFFICES ASSUME CredentialInit
             PROVE  HandlersInv
  OBVIOUS
<1> DEFINE h0  == CHOOSE h \in HolderIDs : TRUE
           w0  == CHOOSE w \in WalletKeys : TRUE
           b0  == CHOOSE b \in Bodies : TRUE
           tx0 == [fn |-> "issueCredential", key |-> First, holder |-> h0,
                   body |-> b0, expiry |-> 0, signed |-> Signature(h0, b0, 0),
                   admissible |-> TRUE]
           holder0 == [NewHolder EXCEPT !.WalletKeys = w0]
<1>1. h0 \in HolderIDs /\ w0 \in WalletKeys /\ b0 \in Bodies /\ First \in CredIDs
  BY Inhabited, FirstAssumption
<1>2. 0 \in Expiries
  BY Inhabited
<1>3. /\ tx0.signed = Signature(tx0.holder, tx0.body, tx0.expiry)
      /\ Signature(h0, b0, 0) \in Signings
  BY <1>1, <1>2 DEF Signature, SignCommitment, Signings, Commitments
<1>4. tx0 \in IssueTx
  BY <1>1, <1>2, <1>3, Inhabited DEF IssueTx
<1>5. world = [k \in Keys |-> IF k = First THEN NewCredential(tx0)
                              ELSE IF k = h0 THEN holder0 ELSE NoRecord]
  BY DEF CredentialInit
<1> HIDE DEF h0, w0, b0
<1>6. /\ NewCredential(tx0) \in CredentialRecords /\ holder0 \in HolderRecords
      /\ h0 \in Keys /\ First \in Keys /\ h0 # First
  BY <1>1, <1>4, KeySpacesAssumption
     DEF IssueTx, NewCredential, CredentialRecords, NewHolder, HolderRecords, Keys, StampNames
<1>7. TypeOK
  <2>1. world \in [Keys -> Records]
    BY <1>5, <1>6 DEF Records
  <2>2. \A h \in HolderIDs : world[h] \in {NoRecord} \cup HolderRecords
    BY <1>1, <1>5, <1>6, KeySpacesAssumption DEF Keys
  <2>3. \A c \in CredIDs : world[c] \in {NoRecord} \cup CredentialRecords
    BY <1>1, <1>5, <1>6, KeySpacesAssumption DEF Keys
  <2> QED
    BY <2>1, <2>2, <2>3 DEF TypeOK
<1>8. LedgerInv
  <2>1. /\ version = [k \in Keys |-> IF k = First THEN First ELSE Genesis]
        /\ mempool = {} /\ committed = {First} /\ used = {First}
        /\ call = [p \in Clients |-> Idle]
    BY DEF CredentialInit
  <2>2. LedgerTypeOK
    BY <1>1, <1>7, <2>1 DEF LedgerTypeOK, Idle, CallStates, TxIDs
  <2> QED
    BY <2>1, <2>2 DEF LedgerInv, UniqueTransactions, EndorsementStillHolds
<1>9. CommitmentIntact
  <2> SUFFICES ASSUME NEW c \in CredIDs, IsCredential(world, c)
               PROVE  world[c].Signed = SignCommitment(CommitmentOf(world[c]))
    BY DEF CommitmentIntact
  <2>1. c = First /\ world[c] = NewCredential(tx0)
    <3>1. c \in Keys /\ c # h0
      BY <1>1, KeySpacesAssumption DEF Keys
    <3> QED
      BY <1>5, <3>1 DEF IsCredential, NoRecord
  <2> QED
    BY <1>3, <2>1 DEF NewCredential, CommitmentOf, Signature
<1>10. RowsTyped
  <2>1. rows = [d \in DisplayIDs |-> IF d = 1 THEN NewRow(tx0) ELSE NoRow]
    BY DEF CredentialInit, h0, b0
  <2>2. NewRow(tx0) \in FullRows
    BY <1>1, <1>4 DEF IssueTx, NewRow, FullRows
  <2> QED
    BY <2>1, <2>2 DEF RowsTyped
<1>11. DOMAIN req = Clients /\ \A p \in Clients : RequestShape(p) /\ RequestOK(p)
  BY DEF CredentialInit, NoReq, RequestShape, RequestOK
<1>12. mempool = {}
  BY DEF CredentialInit
<1> QED
  BY <1>8, <1>9, <1>10, <1>11, <1>12 DEF HandlersInv

-----------------------------------------------------------------------------
\* The invariant of the backend and the network together.
THEOREM HandlersInvariant == CredentialSpec => []HandlersInv
  BY HandlersStart, HandlersStep, PTL DEF CredentialSpec

\* Every credential on chain verifies, however issues, updates and status
\* changes overlap, fail, time out and commit late.
THEOREM CommitmentsVerify == CredentialSpec => []CommitmentIntact
  BY HandlersInvariant, PTL DEF HandlersInv

\* A step of the backend is a transaction of the contract, or leaves the chain
\* alone.
LEMMA HandlersStepsAreContractSteps ==
  HandlersInv /\ [CredentialNext]_handlerVars => [Next]_world
<1> SUFFICES ASSUME HandlersInv, [CredentialNext]_handlerVars
             PROVE  [Next]_world
  OBVIOUS
<1>1. ASSUME NEW e \in mempool, NetworkCommits(e)
      PROVE  Next
  BY <1>1, CommitExecutes, ExecuteIsNext DEF NetworkCommits, HandlersInv
<1>2. ASSUME NEW p \in Clients, HandlerStep(p)
      PROVE  world' = world
  BY <1>2 DEF HandlerStep, Submit, SubmitRefused, SubmitUnreachable, SubmitSucceeds,
         SubmitFails, InsertRow, InsertRowFails, MarkRow, MarkRowFails, RaiseAlert,
         RaiseAlertFails, RecordEvent, RecordEventFails, UpdateEmail, UpdateEmailFails,
         Endorse, Refuse, PeerUnreachable, Return, ledgerVars
<1>3. ASSUME ~(\E e \in mempool : NetworkCommits(e)), ~(\E p \in Clients : HandlerStep(p))
      PROVE  world' = world
  BY <1>3 DEF CredentialNext, handlerVars, ReadForIssue, ReadForStatus, ReadForUpdate,
         ReadFails, Accept, NetworkDiscards, Discard, CallTimesOut, StatusTimeout, Tick,
         BackendRestarts, BackendRestartsUnseeded, Restart, ledgerVars
<1> QED
  BY <1>1, <1>2, <1>3

\* No handler, retry, late commit or restart ever changes a revoked
\* credential: the check that matters is the contract's, made again at commit.
THEOREM RevokedStaysFrozenInBackend == CredentialSpec => RevokedIsFrozen
<1>1. HandlersInv => TypeOK
  BY DEF HandlersInv, LedgerInv, LedgerTypeOK
<1>2. TypeOK /\ [Next]_world => [FrozenNow]_world
  BY NextExecutes, FrozenStep
<1>3. RevokedIsFrozen <=> [][FrozenNow]_world
  BY DEF RevokedIsFrozen, FrozenNow
<1> QED
  BY <1>1, <1>2, <1>3, HandlersInvariant, HandlersStepsAreContractSteps, PTL
     DEF CredentialSpec

-----------------------------------------------------------------------------
(* The answers.  A transaction is followed from the endorsement to the     *)
(* answer: the one a handler waits for is the one it has decided on, and   *)
(* what the ledger's history shows once it shows for good.                 *)

CredentialTx == IssueTx \cup UpdateTx \cup StatusTx

\* The transaction, or for an update the expiry, is in the ledger's history,
\* and a revocation stands.
InLedger(w, past, tx) ==
  /\ \E i \in DOMAIN past[tx.key] :
       IF tx.fn = "updateExpiry"
       THEN past[tx.key][i].rec.ExpiryDate = tx.expiry
       ELSE past[tx.key][i].fn = tx.fn
  /\ tx.fn = "revokeCredential" => IsCredential(w, tx.key) /\ w[tx.key].Status = "revoked"

\* The history holds the record that is on chain now.
Events == [fn : {tx.fn : tx \in Tx}, rec : Records]

HistoryCurrent ==
  /\ history \in [CredIDs -> Seq(Events)]
  /\ \A c \in CredIDs : IsCredential(world, c) =>
       \E i \in DOMAIN history[c] : history[c][i].rec = world[c]

\* What a request relies on: before the answer of the network on the entry it
\* is waiting for, and after it on the ledger.
AfterChain(p) ==
  \/ req[p].pc \in {"insert", "mark", "alert", "event", "email"}
  \/ req[p].pc = "done" /\ req[p].code = "ok"

Settled(p) == req[p].tx \in CredentialTx /\ InLedger(world, history, req[p].tx)

Pending(p) ==
  /\ req[p].tx \in CredentialTx
  /\ call[p].id \in used
  /\ \A e \in mempool : e.id = call[p].id => e.tx = req[p].tx

Landed(p) ==
  /\ AfterChain(p) => Settled(p)
  /\ req[p].pc = "wait" /\ call[p].st = "committed" => Settled(p)
  /\ req[p].pc = "wait" /\ call[p].st = "waiting" => Pending(p)

AnswersInv == HandlersInv /\ HistoryCurrent /\ \A p \in Clients : Landed(p)

-----------------------------------------------------------------------------
(* The ledger only ever shows more. *)

LEMMA HistoryGrows ==
  ASSUME HandlersInv, HistoryCurrent, NEW e \in mempool, NetworkCommits(e)
  PROVE  /\ history' \in [CredIDs -> Seq(Events)]
         /\ \A c \in CredIDs : \A i \in DOMAIN history[c] :
              i \in DOMAIN history'[c] /\ history'[c][i] = history[c][i]
         /\ \A c \in CredIDs : c # e.tx.key => history'[c] = history[c]
         /\ e.tx.key \in CredIDs =>
              \E i \in DOMAIN history'[e.tx.key] :
                history'[e.tx.key][i] = [fn |-> e.tx.fn, rec |-> e.write]
<1> DEFINE k == e.tx.key
           h == [fn |-> e.tx.fn, rec |-> e.write]
<1>1. history' = [history EXCEPT ![k] = Append(history[k], h)]
  BY DEF NetworkCommits, HistoryCurrent
<1>2. h \in Events
  <2>1. e.tx \in Tx /\ Accepts(world, e.tx) /\ e.write = Written(world, e.tx) /\ TypeOK
    BY DEF NetworkCommits, Commit, HandlersInv, LedgerInv, LedgerTypeOK, EndorsementStillHolds
  <2>2. e.write \in Records
    BY <2>1, WrittenType DEF Records, Keys
  <2> QED
    BY <2>1, <2>2 DEF Events
<1> HIDE DEF k, h
<1>3. CASE k \in CredIDs
  <2>1. history[k] \in Seq(Events)
    BY <1>3 DEF HistoryCurrent
  <2>2. /\ Append(history[k], h) \in Seq(Events)
        /\ DOMAIN Append(history[k], h) = 1 .. Len(history[k]) + 1
        /\ DOMAIN history[k] = 1 .. Len(history[k]) /\ Len(history[k]) \in Nat
        /\ \A i \in 1 .. Len(history[k]) : Append(history[k], h)[i] = history[k][i]
        /\ Append(history[k], h)[Len(history[k]) + 1] = h
    BY <1>2, <2>1
  <2>3. /\ history'[k] = Append(history[k], h)
        /\ \A c \in CredIDs : c # k => history'[c] = history[c]
        /\ history' \in [CredIDs -> Seq(Events)]
    BY <1>1, <1>3, <2>2 DEF HistoryCurrent
  <2>4. \E i \in DOMAIN history'[k] : history'[k][i] = h
    BY <2>2, <2>3
  <2>5. \A i \in DOMAIN history[k] : i \in DOMAIN history'[k] /\ history'[k][i] = history[k][i]
    BY <2>2, <2>3
  <2> QED
    BY <2>3, <2>4, <2>5 DEF k, h
<1>4. CASE k \notin CredIDs
  <2>1. history' = history
    BY <1>1, <1>4 DEF HistoryCurrent
  <2> QED
    BY <1>4, <2>1 DEF HistoryCurrent, k
<1> QED
  BY <1>3, <1>4

LEMMA CommitKeepsHistoryCurrent ==
  ASSUME HandlersInv, HistoryCurrent, NEW e \in mempool, NetworkCommits(e)
  PROVE  HistoryCurrent'
<1>1. /\ world' = [world EXCEPT ![e.tx.key] = e.write]
      /\ TypeOK
  BY DEF NetworkCommits, Commit, HandlersInv, LedgerInv, LedgerTypeOK
<1> SUFFICES ASSUME NEW c \in CredIDs, world'[c].DocType = "credential"
             PROVE  \E i \in DOMAIN history'[c] : history'[c][i].rec = world'[c]
  BY HistoryGrows DEF HistoryCurrent, IsCredential
<1>2. c \in DOMAIN world
  BY <1>1 DEF TypeOK, Keys
<1>3. CASE c = e.tx.key
  <2>1. world'[c] = e.write
    BY <1>1, <1>2, <1>3
  <2>2. PICK i \in DOMAIN history'[c] : history'[c][i] = [fn |-> e.tx.fn, rec |-> e.write]
    BY <1>3, HistoryGrows
  <2> QED
    BY <2>1, <2>2
<1>4. CASE c # e.tx.key
  <2>1. world'[c] = world[c] /\ history'[c] = history[c]
    BY <1>1, <1>2, <1>4, HistoryGrows
  <2> QED
    BY <2>1 DEF HistoryCurrent, IsCredential
<1> QED
  BY <1>3, <1>4

\* What the ledger showed it still shows.
LEMMA CommitKeepsLedger ==
  ASSUME HandlersInv, HistoryCurrent, NEW e \in mempool, NetworkCommits(e),
         NEW tx \in CredentialTx, InLedger(world, history, tx)
  PROVE  InLedger(world', history', tx)
<1>1. tx.key \in CredIDs
  BY DEF CredentialTx, IssueTx, UpdateTx, StatusTx
<1>2. FrozenNow
  BY CommitExecutes, FrozenStep DEF NetworkCommits, HandlersInv, LedgerInv, LedgerTypeOK
<1>3. tx.fn = "revokeCredential" =>
        IsCredential(world', tx.key) /\ world'[tx.key].Status = "revoked"
  BY <1>1, <1>2 DEF InLedger, FrozenNow, IsCredential
<1>4. \A i \in DOMAIN history[tx.key] :
        i \in DOMAIN history'[tx.key] /\ history'[tx.key][i] = history[tx.key][i]
  BY <1>1, HistoryGrows
<1> QED
  BY <1>3, <1>4 DEF InLedger

\* The transaction that commits is in the ledger.
LEMMA CommittedIsInLedger ==
  ASSUME HandlersInv, HistoryCurrent, NEW e \in mempool, NetworkCommits(e),
         e.tx \in CredentialTx
  PROVE  InLedger(world', history', e.tx)
<1> DEFINE tx == e.tx
           k == e.tx.key
<1>1. /\ world' = [world EXCEPT ![k] = e.write]
      /\ e.write = Written(world, tx) /\ Accepts(world, tx) /\ TypeOK
  BY DEF NetworkCommits, Commit, HandlersInv, LedgerInv, LedgerTypeOK, EndorsementStillHolds
<1>2. k \in CredIDs /\ k \in DOMAIN world
  BY <1>1 DEF CredentialTx, IssueTx, UpdateTx, StatusTx, TypeOK, Keys
<1>3. PICK i \in DOMAIN history'[k] : history'[k][i] = [fn |-> tx.fn, rec |-> e.write]
  BY <1>2, HistoryGrows
<1>4. world'[k] = e.write
  BY <1>1, <1>2
<1>5. IsCredential(world, k) => world[k] \in CredentialRecords
  BY <1>1, <1>2 DEF TypeOK, IsCredential, NoRecord
<1>6. tx.fn = "updateExpiry" => e.write.ExpiryDate = tx.expiry
  BY <1>1, <1>5 DEF Accepts, Updatable, Written, WithExpiry, CredentialRecords
<1>7. tx.fn = "revokeCredential" =>
        IsCredential(world', k) /\ world'[k].Status = "revoked"
  BY <1>1, <1>4, <1>5
     DEF Accepts, Revocable, Written, AsRevoked, CredentialRecords, IsCredential
<1> QED
  BY <1>3, <1>6, <1>7 DEF InLedger

-----------------------------------------------------------------------------
(* Steps of one request. *)

\* The others rely on what they relied on.
LEMMA OthersLanded ==
  ASSUME AnswersInv, UNCHANGED <<world, history>>, NEW q \in Clients,
         req'[q] = req[q], call'[q] = call[q], used \subseteq used',
         \A e \in mempool' \ mempool : e.id \notin used
  PROVE  Landed(q)'
<1>1. Landed(q)
  BY DEF AnswersInv
<1> QED
  BY <1>1 DEF Landed, AfterChain, Settled, Pending

LEMMA SameHistory ==
  ASSUME HistoryCurrent, UNCHANGED <<world, history>>
  PROVE  HistoryCurrent'
  BY DEF HistoryCurrent, IsCredential

\* A step of p away from the endorsement.
LEMMA StepOfOne ==
  ASSUME AnswersInv, NEW p \in Clients, Moves(p), Landed(p)',
         UNCHANGED <<world, history, mempool, used>>,
         \A q \in Clients \ {p} : call'[q] = call[q]
  PROVE  HistoryCurrent' /\ \A q \in Clients : Landed(q)'
<1>1. ASSUME NEW q \in Clients \ {p} PROVE Landed(q)'
  BY <1>1, OthersLanded DEF Moves
<1> QED
  BY <1>1, SameHistory DEF AnswersInv

\* A request that relies on nothing.
LEMMA NothingToRelyOn ==
  ASSUME NEW p \in Clients,
         \/ req'[p].pc \in {"idle", "submit"}
         \/ req'[p].pc = "done" /\ req'[p].code = "error"
         \/ req'[p].pc = "wait" /\ call'[p].st = "failed"
  PROVE  Landed(p)'
  BY DEF Landed, AfterChain

\* A handler that has the network's answer carries on with its transaction.
LEMMA StaysSettled ==
  ASSUME NEW p \in Clients, Settled(p), UNCHANGED <<world, history>>,
         req'[p].tx = req[p].tx, req'[p].pc # "wait"
  PROVE  Landed(p)'
  BY DEF Landed, Settled

LEMMA RefusalLands ==
  ASSUME AnswersInv, NEW p \in Clients, Accept(p, Refused)
  PROVE  HistoryCurrent' /\ \A q \in Clients : Landed(q)'
<1>1. Refused = [pc |-> "done", d |-> 0, tx |-> NoTx, code |-> "error"]
  BY DEF Refused
<1>2. Becomes(p, "done", 0, NoTx, "error")
  BY <1>1 DEF Accept, Becomes
<1>3. Moves(p) /\ req'[p].pc = "done" /\ req'[p].code = "error"
  BY <1>2, Replaced DEF AnswersInv
<1> QED
  BY <1>3, NothingToRelyOn, StepOfOne DEF Accept, ledgerVars, ghosts

LEMMA ReadLands ==
  ASSUME AnswersInv, NEW p \in Clients,
         \/ \E h \in HolderIDs, b \in Bodies, e \in Expiries : ReadForIssue(p, h, b, e)
         \/ \E d \in DisplayIDs, fn \in StatusFns : ReadForStatus(p, d, fn)
         \/ ReadFails(p)
  PROVE  HistoryCurrent' /\ \A q \in Clients : Landed(q)'
<1>1. CASE Accept(p, Refused)
  BY <1>1, RefusalLands
<1>2. ASSUME NEW d, NEW t,
             Accept(p, [pc |-> "submit", d |-> d, code |-> "none", tx |-> t])
      PROVE  HistoryCurrent' /\ \A q \in Clients : Landed(q)'
  <2>1. Becomes(p, "submit", d, t, "none")
    BY <1>2 DEF Accept, Becomes
  <2>2. Moves(p) /\ req'[p].pc = "submit"
    BY <2>1, Replaced DEF AnswersInv
  <2> QED
    BY <1>2, <2>2, NothingToRelyOn, StepOfOne DEF Accept, ledgerVars, ghosts
<1> QED
  BY <1>1, <1>2 DEF ReadForIssue, ReadForStatus, ReadFails

\* An update that leaves the expiry as it is answers for the record it has read.
LEMMA ReadForUpdateLands ==
  ASSUME AnswersInv, NEW p \in Clients, NEW d \in DisplayIDs, NEW e \in Expiries,
         ReadForUpdate(p, d, e)
  PROVE  HistoryCurrent' /\ \A q \in Clients : Landed(q)'
<1> DEFINE c  == rows[d].cred
           r  == world[c]
           t  == [fn |-> "updateExpiry", key |-> c, expiry |-> e,
                  signed |-> Resign(r, e), admissible |-> TRUE]
           pc == IF e # r.ExpiryDate THEN "submit" ELSE "email"
<1>1. CASE Found(d) /\ r.Status # "revoked"
  <2>1. /\ Becomes(p, pc, d, t, "none")
        /\ UNCHANGED <<ledgerVars, ghosts>>
    BY <1>1 DEF ReadForUpdate, Accept, Becomes
  <2>2. c \in CredIDs /\ r \in CredentialRecords /\ IsCredential(world, c)
    BY <1>1, FoundRow DEF AnswersInv, Found
  <2>3. Resign(r, e) \in Signings
    BY <2>2
       DEF Resign, SignCommitment, CommitmentOf, CredentialRecords, Signings, Commitments
  <2>4. t \in CredentialTx
    BY <2>2, <2>3 DEF CredentialTx, UpdateTx
  <2>5. e = r.ExpiryDate => InLedger(world, history, t)
    BY <2>2 DEF AnswersInv, HistoryCurrent, InLedger
  <2> HIDE DEF t, pc
  <2>6. Moves(p) /\ req'[p].pc = pc /\ req'[p].tx = t
    BY <2>1, Replaced DEF AnswersInv
  <2>7. Landed(p)'
    <3>1. CASE pc = "submit"
      BY <2>6, <3>1, NothingToRelyOn
    <3>2. CASE pc # "submit"
      <4>1. pc = "email" /\ InLedger(world, history, t)
        BY <2>5, <3>2 DEF pc
      <4> QED
        BY <2>1, <2>4, <2>6, <4>1 DEF Landed, AfterChain, Settled, ledgerVars, ghosts
    <3> QED
      BY <3>1, <3>2
  <2> QED
    BY <2>1, <2>6, <2>7, StepOfOne DEF ledgerVars, ghosts
<1>2. CASE ~(Found(d) /\ r.Status # "revoked")
  BY <1>2, RefusalLands DEF ReadForUpdate
<1> QED
  BY <1>1, <1>2

-----------------------------------------------------------------------------
(* The submission and its answer. *)

\* The entry of a new transaction ID is the one its handler will wait for, and
\* nobody else's.
LEMMA SubmitLands ==
  ASSUME AnswersInv, NEW p \in Clients, Submit(p)
  PROVE  HistoryCurrent' /\ \A q \in Clients : Landed(q)'
<1>1. PICK id \in TxIDs :
        /\ Endorse(p, WithKey(req[p].tx, id))
        /\ call'[p].id = id
        /\ req' = [req EXCEPT ![p].pc = "wait", ![p].tx = WithKey(req[p].tx, id)]
  BY DEF Submit
<1> DEFINE tx == WithKey(req[p].tx, id)
<1>2. tx \in CredentialTx
  BY KeyedTransaction DEF Submit, CredentialTx, AnswersInv
<1> HIDE DEF tx
<1>3. req' = [req EXCEPT ![p].pc = "wait", ![p].tx = tx] /\ Endorse(p, tx)
  BY <1>1 DEF tx
<1>4. Moves(p) /\ req'[p].pc = "wait" /\ req'[p].tx = tx
  BY <1>3, SentRequest DEF AnswersInv
<1>5. PICK n \in FreshIDs :
        /\ mempool' = mempool \cup {Entry(n, tx)}
        /\ used' = used \cup {n}
        /\ call' = [call EXCEPT ![p] = [st |-> "waiting", id |-> n]]
  BY <1>3 DEF Endorse
<1>6. Entry(n, tx).id = n /\ Entry(n, tx).tx = tx /\ n \notin used
  BY DEF Entry, FreshIDs
<1>7. /\ call'[p].st = "waiting" /\ call'[p].id = n
      /\ \A q \in Clients \ {p} : call'[q] = call[q]
  BY <1>5 DEF AnswersInv, HandlersInv, LedgerInv, LedgerTypeOK
<1>8. \A e \in mempool : e.id \in used
  BY DEF AnswersInv, HandlersInv, LedgerInv, LedgerTypeOK
<1>9. Landed(p)'
  <2>1. \A e \in mempool' : e.id = n => e.tx = tx
    BY <1>5, <1>6, <1>8
  <2>2. Pending(p)'
    BY <1>2, <1>4, <1>5, <1>7, <2>1 DEF Pending
  <2> QED
    BY <1>4, <1>7, <2>2 DEF Landed, AfterChain
<1>10. UNCHANGED <<world, history>>
  BY <1>3 DEF Submit, Endorse, ghosts
<1>11. ASSUME NEW q \in Clients \ {p}
       PROVE  Landed(q)'
  BY <1>4, <1>5, <1>6, <1>7, <1>10, OthersLanded DEF Moves
<1> QED
  BY <1>9, <1>10, <1>11, SameHistory DEF AnswersInv

\* A call that fails at once.
LEMMA FailedCallLands ==
  ASSUME AnswersInv, NEW p \in Clients,
         call' = [call EXCEPT ![p] = [st |-> "failed", id |-> Genesis]],
         UNCHANGED <<world, mempool, used, history>>,
         req' = [req EXCEPT ![p].pc = "wait"]
  PROVE  HistoryCurrent' /\ \A q \in Clients : Landed(q)'
<1>1. Moves(p) /\ req'[p].pc = "wait"
  BY RequestUpdates DEF AnswersInv, HandlersInv
<1>2. call'[p].st = "failed" /\ \A q \in Clients \ {p} : call'[q] = call[q]
  BY DEF AnswersInv, HandlersInv, LedgerInv, LedgerTypeOK
<1> QED
  BY <1>1, <1>2, NothingToRelyOn, StepOfOne

\* The call returns: an error is answered as one, a commit is relied on.
LEMMA ReturnLands ==
  ASSUME AnswersInv, NEW p \in Clients, SubmitFails(p) \/ SubmitSucceeds(p)
  PROVE  HistoryCurrent' /\ \A q \in Clients : Landed(q)'
<1>1. /\ UNCHANGED <<world, mempool, used, history>>
      /\ \A q \in Clients \ {p} : call'[q] = call[q]
  BY ReturnKeepsLedger DEF SubmitFails, SubmitSucceeds, Return, ghosts, AnswersInv
<1>2. CASE SubmitFails(p)
  <2>1. req' = [req EXCEPT ![p].pc = "done", ![p].code = "error"]
    BY <1>2 DEF SubmitFails, AfterError
  <2>2. Moves(p) /\ req'[p].pc = "done"
    BY <2>1, RequestUpdates DEF AnswersInv, HandlersInv
  <2>3. req'[p].code = "error"
    BY <2>1 DEF AnswersInv, HandlersInv, RequestShape
  <2> QED
    BY <1>1, <2>2, <2>3, NothingToRelyOn, StepOfOne
<1>3. CASE SubmitSucceeds(p)
  <2>1. Settled(p)
    BY <1>3 DEF SubmitSucceeds, AnswersInv, Landed
  <2>2. \/ req' = [req EXCEPT ![p].pc = "insert", ![p].d = Draw(counter)]
        \/ req' = [req EXCEPT ![p].pc = "mark"]
    BY <1>3 DEF SubmitSucceeds
  <2>3. Moves(p) /\ req'[p].pc \in {"insert", "mark"} /\ req'[p].tx = req[p].tx
    BY <2>2, RequestUpdates DEF AnswersInv, HandlersInv
  <2> QED
    BY <1>1, <2>1, <2>3, StaysSettled, StepOfOne
<1> QED
  BY <1>2, <1>3

\* The MySQL statements: a request that has its commit keeps it in sight.
LEMMA StatementLands ==
  ASSUME AnswersInv, NEW p \in Clients,
         \/ InsertRow(p) \/ InsertRowFails(p) \/ MarkRow(p) \/ MarkRowFails(p)
         \/ RaiseAlert(p) \/ RaiseAlertFails(p) \/ RecordEvent(p) \/ RecordEventFails(p)
         \/ UpdateEmail(p) \/ UpdateEmailFails(p)
  PROVE  HistoryCurrent' /\ \A q \in Clients : Landed(q)'
<1>1. /\ UNCHANGED <<ledgerVars, history>>
      /\ req[p].pc \in {"insert", "mark", "alert", "event", "email"}
  BY DEF InsertRow, InsertRowFails, MarkRow, MarkRowFails, RaiseAlert, RaiseAlertFails,
         RecordEvent, RecordEventFails, UpdateEmail, UpdateEmailFails, ghosts
<1>2. \/ Goto(p, AfterMark(req[p].tx.fn)) \/ Goto(p, "event")
      \/ Answer(p, "ok") \/ Answer(p, "error")
  BY DEF InsertRow, InsertRowFails, MarkRow, MarkRowFails, RaiseAlert, RaiseAlertFails,
         RecordEvent, RecordEventFails, UpdateEmail, UpdateEmailFails
<1>3. Moves(p) /\ req'[p].tx = req[p].tx /\ req'[p].pc # "wait"
  <2>1. ASSUME NEW a, a # "wait", Goto(p, a)
        PROVE  Moves(p) /\ req'[p].tx = req[p].tx /\ req'[p].pc # "wait"
    BY ZenonT(40), <2>1, RequestUpdates DEF Goto, AnswersInv, HandlersInv
  <2>2. ASSUME NEW b, Answer(p, b)
        PROVE  Moves(p) /\ req'[p].tx = req[p].tx /\ req'[p].pc # "wait"
    <3>1. req' = [req EXCEPT ![p].pc = "done", ![p].code = b]
      BY <2>2 DEF Answer
    <3>2. RequestShape(p) /\ DOMAIN req = Clients
      BY DEF AnswersInv, HandlersInv
    <3>3. Moves(p) /\ req'[p].pc = "done" /\ req'[p].tx = req[p].tx
      BY <3>1, <3>2, RequestUpdates
    <3> QED
      BY <3>3
  <2>3. AfterMark(req[p].tx.fn) \in {"email", "event", "alert"}
    BY DEF AfterMark
  <2>4. CASE Goto(p, AfterMark(req[p].tx.fn)) \/ Goto(p, "event")
    <3>1. AfterMark(req[p].tx.fn) # "wait" /\ "event" # "wait"
      BY <2>3
    <3> QED
      BY <2>1, <2>4, <3>1
  <2> QED
    BY <1>2, <2>2, <2>4
<1>4. Settled(p)
  BY <1>1 DEF AnswersInv, Landed, AfterChain
<1> QED
  BY <1>1, <1>3, <1>4, StaysSettled, StepOfOne DEF ledgerVars

LEMMA HandlerStepLands ==
  ASSUME AnswersInv, NEW p \in Clients, HandlerStep(p)
  PROVE  HistoryCurrent' /\ \A q \in Clients : Landed(q)'
<1>1. CASE SubmitRefused(p) \/ SubmitUnreachable(p)
  BY <1>1, FailedCallLands DEF SubmitRefused, SubmitUnreachable, Refuse, PeerUnreachable,
     ghosts
<1>2. CASE Submit(p)
  BY <1>2, SubmitLands
<1>3. CASE SubmitFails(p) \/ SubmitSucceeds(p)
  BY <1>3, ReturnLands
<1>4. CASE ~(\/ Submit(p) \/ SubmitRefused(p) \/ SubmitUnreachable(p)
             \/ SubmitFails(p) \/ SubmitSucceeds(p))
  BY <1>4, StatementLands DEF HandlerStep
<1> QED
  BY <1>1, <1>2, <1>3, <1>4

-----------------------------------------------------------------------------
(* The network, the calendar and restarts. *)

\* The handler of the transaction that commits waited for that one; the others
\* find in the ledger what they found before.
LEMMA NetworkCommitsLands ==
  ASSUME AnswersInv, NEW e \in mempool, NetworkCommits(e)
  PROVE  HistoryCurrent' /\ \A q \in Clients : Landed(q)'
<1>1. /\ req' = req /\ used' = used /\ mempool' = mempool \ {e}
      /\ call' = [p \in Clients |->
                    IF call[p].st = "waiting" /\ call[p].id = e.id
                    THEN [call[p] EXCEPT !.st = "committed"]
                    ELSE call[p]]
  BY DEF NetworkCommits, Commit, Tell
<1>2. HandlersInv /\ HistoryCurrent
  BY DEF AnswersInv
<1>3. ASSUME NEW q \in Clients
      PROVE  Landed(q)'
  <2>1. Landed(q)
    BY DEF AnswersInv
  <2>2. Settled(q) => Settled(q)'
    BY <1>1, <1>2, CommitKeepsLedger DEF Settled
  <2>3. CASE call[q].st = "waiting" /\ call[q].id = e.id
    <3>1. call[q] \in [st : CallStates, id : TxIDs \cup {Genesis}]
      BY <1>2 DEF HandlersInv, LedgerInv, LedgerTypeOK
    <3>2. call'[q].st = "committed"
      BY <1>1, <2>3, <3>1
    <3>3. req[q].pc = "wait" => Settled(q)'
      <4> SUFFICES ASSUME req[q].pc = "wait"
                   PROVE  Settled(q)'
        OBVIOUS
      <4>1. e.tx = req[q].tx /\ req[q].tx \in CredentialTx
        BY <2>1, <2>3 DEF Landed, Pending
      <4>2. InLedger(world', history', e.tx)
        BY <1>2, <4>1, CommittedIsInLedger
      <4> QED
        BY <1>1, <4>1, <4>2 DEF Settled
    <3> QED
      BY <1>1, <2>1, <2>2, <3>2, <3>3 DEF Landed, AfterChain
  <2>4. CASE ~(call[q].st = "waiting" /\ call[q].id = e.id)
    <3>1. call'[q] = call[q]
      BY <1>1, <2>4
    <3>2. Pending(q) => Pending(q)'
      BY <1>1, <3>1 DEF Pending
    <3> QED
      BY <1>1, <2>1, <2>2, <3>1, <3>2 DEF Landed, AfterChain
  <2> QED
    BY <2>3, <2>4
<1> QED
  BY <1>2, <1>3, CommitKeepsHistoryCurrent

\* Calls that fail or stay as they are, with no new entry.
LEMMA StillLands ==
  ASSUME AnswersInv, UNCHANGED <<world, history, req, used>>, mempool' \subseteq mempool,
         \A q \in Clients : call'[q] = call[q] \/ call'[q].st = "failed"
  PROVE  HistoryCurrent' /\ \A q \in Clients : Landed(q)'
<1>1. ASSUME NEW q \in Clients
      PROVE  Landed(q)'
  <2>1. CASE call'[q] = call[q]
    BY <2>1, OthersLanded
  <2>2. CASE call'[q].st = "failed"
    BY <2>2 DEF AnswersInv, Landed, AfterChain, Settled
  <2> QED
    BY <2>1, <2>2
<1> QED
  BY <1>1, SameHistory DEF AnswersInv

LEMMA NetworkDiscardsLands ==
  ASSUME AnswersInv, NEW e \in mempool, NetworkDiscards(e)
  PROVE  HistoryCurrent' /\ \A q \in Clients : Landed(q)'
<1>1. /\ UNCHANGED <<world, history, req, used>> /\ mempool' = mempool \ {e}
      /\ call' = [p \in Clients |->
                    IF call[p].st = "waiting" /\ call[p].id = e.id
                    THEN [call[p] EXCEPT !.st = "failed"]
                    ELSE call[p]]
  BY DEF NetworkDiscards, Discard, Tell, InvalidVerdict, ghosts
<1>2. call \in [Clients -> [st : CallStates, id : TxIDs \cup {Genesis}]]
  BY DEF AnswersInv, HandlersInv, LedgerInv, LedgerTypeOK
<1>3. \A q \in Clients : call'[q] = call[q] \/ call'[q].st = "failed"
  BY <1>1, <1>2
<1> QED
  BY <1>1, <1>3, StillLands

LEMMA CallTimesOutLands ==
  ASSUME AnswersInv, NEW p \in Clients, CallTimesOut(p)
  PROVE  HistoryCurrent' /\ \A q \in Clients : Landed(q)'
<1>1. /\ UNCHANGED <<world, history, req, used, mempool>>
      /\ call' = [call EXCEPT ![p].st = "failed"]
  BY DEF CallTimesOut, StatusTimeout
<1>2. call \in [Clients -> [st : CallStates, id : TxIDs \cup {Genesis}]]
  BY DEF AnswersInv, HandlersInv, LedgerInv, LedgerTypeOK
<1>3. \A q \in Clients : call'[q] = call[q] \/ call'[q].st = "failed"
  BY <1>1, <1>2
<1> QED
  BY <1>1, <1>3, StillLands

LEMMA RestartLands ==
  ASSUME AnswersInv, Restarted
  PROVE  HistoryCurrent' /\ \A q \in Clients : Landed(q)'
<1>1. UNCHANGED <<world, history>> /\ \A q \in Clients : req'[q].pc = "idle"
  BY DEF Restarted, BackendRestarts, BackendRestartsUnseeded, Restart, NoReq
<1> QED
  BY <1>1, NothingToRelyOn, SameHistory DEF AnswersInv

-----------------------------------------------------------------------------
\* One step per action of the backend.
LEMMA AnswersStep == AnswersInv /\ [CredentialNext]_handlerVars => AnswersInv'
<1> SUFFICES ASSUME AnswersInv, [CredentialNext]_handlerVars
             PROVE  HistoryCurrent' /\ \A q \in Clients : Landed(q)'
  BY HandlersStep DEF AnswersInv
<1>1. ASSUME NEW p \in Clients, NEW h \in HolderIDs, NEW b \in Bodies, NEW e \in Expiries,
             ReadForIssue(p, h, b, e)
      PROVE  HistoryCurrent' /\ \A q \in Clients : Landed(q)'
  BY <1>1, ReadLands
<1>2. ASSUME NEW p \in Clients, NEW d \in DisplayIDs, NEW fn \in StatusFns,
             ReadForStatus(p, d, fn)
      PROVE  HistoryCurrent' /\ \A q \in Clients : Landed(q)'
  BY <1>2, ReadLands
<1>3. ASSUME NEW p \in Clients, NEW d \in DisplayIDs, NEW e \in Expiries,
             ReadForUpdate(p, d, e)
      PROVE  HistoryCurrent' /\ \A q \in Clients : Landed(q)'
  BY <1>3, ReadForUpdateLands
<1>4. ASSUME NEW p \in Clients, ReadFails(p)
      PROVE  HistoryCurrent' /\ \A q \in Clients : Landed(q)'
  BY <1>4, ReadLands
<1>5. ASSUME NEW p \in Clients, HandlerStep(p)
      PROVE  HistoryCurrent' /\ \A q \in Clients : Landed(q)'
  BY <1>5, HandlerStepLands
<1>6. ASSUME NEW e \in mempool, NetworkCommits(e)
      PROVE  HistoryCurrent' /\ \A q \in Clients : Landed(q)'
  BY <1>6, NetworkCommitsLands
<1>7. ASSUME NEW e \in mempool, NetworkDiscards(e)
      PROVE  HistoryCurrent' /\ \A q \in Clients : Landed(q)'
  BY <1>7, NetworkDiscardsLands
<1>8. ASSUME NEW p \in Clients, CallTimesOut(p)
      PROVE  HistoryCurrent' /\ \A q \in Clients : Landed(q)'
  BY <1>8, CallTimesOutLands
<1>9. CASE Tick \/ UNCHANGED handlerVars
  <2>1. UNCHANGED <<world, history, req, used, mempool, call>>
    BY <1>9 DEF Tick, handlerVars, ledgerVars, ghosts
  <2> QED
    BY <2>1, StillLands
<1>10. CASE Restarted
  BY <1>10, RestartLands
<1> QED
  BY <1>1, <1>2, <1>3, <1>4, <1>5, <1>6, <1>7, <1>8, <1>9, <1>10 DEF Restarted, CredentialNext

\* The history starts with the issue of First.
LEMMA AnswersStart == CredentialInit => AnswersInv
<1> SUFFICES ASSUME CredentialInit
             PROVE  HistoryCurrent /\ \A q \in Clients : Landed(q)
  BY HandlersStart DEF AnswersInv
<1> DEFINE h0  == CHOOSE h \in HolderIDs : TRUE
           w0  == CHOOSE w \in WalletKeys : TRUE
           b0  == CHOOSE b \in Bodies : TRUE
           tx0 == [fn |-> "issueCredential", key |-> First, holder |-> h0,
                   body |-> b0, expiry |-> 0, signed |-> Signature(h0, b0, 0),
                   admissible |-> TRUE]
           holder0 == [NewHolder EXCEPT !.WalletKeys = w0]
           first == [fn |-> "issueCredential", rec |-> NewCredential(tx0)]
<1>1. /\ world = [k \in Keys |-> IF k = First THEN NewCredential(tx0)
                                 ELSE IF k = h0 THEN holder0 ELSE NoRecord]
      /\ history = [c \in CredIDs |-> IF c = First THEN <<first>> ELSE <<>>]
      /\ req = [p \in Clients |-> NoReq]
  BY DEF CredentialInit
<1>2. h0 \in HolderIDs /\ First \in CredIDs /\ \A c \in CredIDs : c \in Keys /\ c # h0
  BY Inhabited, FirstAssumption, KeySpacesAssumption DEF Keys
<1>3. b0 \in Bodies /\ 0 \in Expiries /\ Signature(h0, b0, 0) \in Signings
  BY <1>2, Inhabited DEF Signature, SignCommitment, Signings, Commitments
<1>4. tx0 \in IssueTx
  BY <1>2, <1>3 DEF IssueTx
<1> HIDE DEF h0, w0, b0
<1>5. first \in Events
  <2>1. tx0 \in Tx /\ tx0.fn = "issueCredential"
    BY <1>4 DEF Tx
  <2>2. NewCredential(tx0) \in Records
    BY <1>4 DEF IssueTx, NewCredential, CredentialRecords, Records, StampNames
  <2> QED
    BY <2>1, <2>2 DEF Events
<1> HIDE DEF tx0, first
<1>6. HistoryCurrent
  <2>1. <<first>> \in Seq(Events) /\ <<>> \in Seq(Events)
    BY <1>5
  <2>2. history \in [CredIDs -> Seq(Events)]
    BY <1>1, <2>1
  <2>3. ASSUME NEW c \in CredIDs, IsCredential(world, c)
        PROVE  \E i \in DOMAIN history[c] : history[c][i].rec = world[c]
    <3>1. c = First /\ world[c] = NewCredential(tx0)
      BY <1>1, <1>2, <2>3 DEF IsCredential, NoRecord
    <3>2. history[c] = <<first>> /\ first.rec = world[c]
      BY <1>1, <3>1 DEF first
    <3> QED
      BY <3>2
  <2> QED
    BY <2>2, <2>3 DEF HistoryCurrent
<1>7. \A q \in Clients : Landed(q)
  BY <1>1 DEF NoReq, Landed, AfterChain
<1> QED
  BY <1>6, <1>7

-----------------------------------------------------------------------------
\* What every handler relies on holds at every step.
THEOREM AnswersInvariant == CredentialSpec => []AnswersInv
  BY AnswersStart, AnswersStep, PTL DEF CredentialSpec

\* A 200 of the issuer's handlers is true: its transaction, or the expiry it
\* set, is in the ledger, and a revocation it reports stands for good.
THEOREM OkAnswersAreTrue == CredentialSpec => []OkIsOnChain
<1>1. AnswersInv => OkIsOnChain
  BY DEF AnswersInv, Landed, AfterChain, Settled, InLedger, OkIsOnChain
<1> QED
  BY <1>1, AnswersInvariant, PTL

-----------------------------------------------------------------------------
(* What MySQL says of the credentials: rows, events and alerts show only   *)
(* what the chain did, a seeded counter draws no display identifier that   *)
(* has a row, and short of faults nothing is lost.  The argument keeps an  *)
(* account for each credential: the transactions committed are the events  *)
(* recorded and those that handlers still owe.                             *)

EventFns == StatusFns \cup {"issueCredential"}

\* What a transaction leaves in the history.
Tells(tx, rec) ==
  CASE tx.fn = "issueCredential" -> rec = NewCredential(tx)
    [] tx.fn = "updateExpiry"    -> rec.ExpiryDate = tx.expiry /\ rec.Signed = tx.signed
    [] OTHER                     -> rec.Status = CachedStatus(tx.fn)

Shown(tx) ==
  \E i \in DOMAIN history[tx.key] : Tells(tx, history[tx.key][i].rec)

\* The network has committed the transaction of the call, or may still.
Sent(p) == req[p].pc = "wait" /\ call[p].st \in {"waiting", "committed"}

\* A request whose transaction is committed and which has not recorded it yet.
Owes(p) == \/ req[p].pc = "wait" /\ call[p].st = "committed"
           \/ req[p].pc \in {"insert", "mark", "alert", "event"}

\* A call in progress is that of the request being served.
CallFits(p) ==
  /\ call[p].st \in {"waiting", "committed"} => req[p].pc = "wait"
  /\ Sent(p) => /\ req[p].tx \in CredentialTx
                /\ req[p].tx.fn = "issueCredential" => req[p].tx.key = call[p].id
  /\ call[p].st = "waiting" =>
       \A q \in Clients : call[q].st = "waiting" /\ call[q].id = call[p].id => q = p

\* A request with a row stays with it.
HasRow(p) ==
  \/ req[p].pc \in {"submit", "wait", "mark", "alert", "event"}
       /\ req[p].tx.fn # "issueCredential"
  \/ req[p].pc = "event"

Placed(p) ==
  /\ HasRow(p) => /\ req[p].d \in DisplayIDs /\ rows[req[p].d] \in FullRows
                  /\ rows[req[p].d].cred = req[p].tx.key
  /\ req[p].pc = "alert" => req[p].tx.fn \in {"revokeCredential", "suspendCredential"}
  /\ req[p].pc = "event" => req[p].tx.fn \in EventFns

\* A transaction identifier names one credential, which gets one row.
Minting(p) ==
  /\ Sent(p) \/ req[p].pc = "insert"
  /\ req[p].tx.fn = "issueCredential"

Minted ==
  /\ \A d \in DisplayIDs : rows[d] # NoRow => rows[d].cred \in used
  /\ \A d, e \in DisplayIDs : rows[d] # NoRow /\ rows[d].cred = rows[e].cred => d = e
  /\ \A p \in Clients : Minting(p) =>
       /\ req[p].tx.key \in used
       /\ \A d \in DisplayIDs : rows[d].cred # req[p].tx.key
       /\ \A q \in Clients : Minting(q) /\ req[q].tx.key = req[p].tx.key => q = p

\* What the chain has shown.
PastShows ==
  /\ \A p \in Clients : Owes(p) => Shown(req[p].tx)
  /\ \A d \in DisplayIDs : rows[d] # NoRow =>
       LET past == history[rows[d].cred] IN
       /\ \E i \in DOMAIN past : past[i].rec.Status = rows[d].status
       /\ \E i \in DOMAIN past : /\ past[i].rec.ExpiryDate = rows[d].expiry
                                 /\ past[i].rec.Signed = rows[d].signed
  /\ \A a \in alerts :
       /\ a \in DisplayIDs \X {"suspended", "revoked"} /\ rows[a[1]] # NoRow
       /\ \E i \in DOMAIN history[rows[a[1]].cred] :
            history[rows[a[1]].cred][i].rec.Status = a[2]

\* The account of a credential.
Owing(c, fn) == {p \in Clients : Owes(p) /\ req[p].tx.key = c /\ req[p].tx.fn = fn}
Owed(c, fn)  == Cardinality(Owing(c, fn))
Done(c, fn)  == Count(Fns(history[c]), fn)
Noted(d, fn) == Count(trail[d], fn)

HasNoRow(c) == \A d \in DisplayIDs : rows[d].cred # c

Balanced(c, fn) ==
  /\ IsFiniteSet(Owing(c, fn))
  /\ HasNoRow(c) => /\ Owed(c, fn) <= Done(c, fn)
                    /\ ~mishap => Owed(c, fn) = Done(c, fn)
  /\ \A d \in DisplayIDs : rows[d].cred = c =>
       /\ Noted(d, fn) + Owed(c, fn) <= Done(c, fn)
       /\ ~mishap => Noted(d, fn) + Owed(c, fn) = Done(c, fn)

Accounts ==
  /\ trail \in [DisplayIDs -> Seq(EventFns)]
  /\ \A d \in DisplayIDs : rows[d] = NoRow => trail[d] = <<>>
  /\ \A c \in CredIDs, fn \in EventFns : Balanced(c, fn)

\* A credential's history starts with its issue, and short of faults somebody
\* waits for every transaction.
Traced ==
  /\ \A c \in CredIDs : history[c] # <<>> => Done(c, "issueCredential") >= 1
  /\ ~mishap => \A e \in mempool :
       \E p \in Clients : call[p].st = "waiting" /\ call[p].id = e.id

\* There is a display identifier for every issue still to come.
Issuing == {p \in Clients : req[p].pc \in {"submit", "wait"} /\ req[p].tx.fn = "issueCredential"}
Load == left + Cardinality(Issuing)
Room(n) == n + Load <= MaxRequests + 1

Drawn ==
  /\ counter \in Nat /\ left \in Nat /\ today \in 1 .. MaxDay
  /\ \E d \in DisplayIDs :
       rows[d] # NoRow /\ \A e \in DisplayIDs : rows[e] # NoRow => d >= e
  /\ IsFiniteSet(Issuing) /\ Room(counter)
  /\ \A d \in DisplayIDs : rows[d] # NoRow => Room(d)
  /\ \A p \in Clients : req[p].pc = "insert" => req[p].d \in DisplayIDs /\ Room(req[p].d)

\* The counter is ahead of what the handlers have drawn, and of the rows too
\* unless the query that seeded it failed.
Ahead ==
  /\ misseeded => mishap
  /\ ~misseeded => \A d \in DisplayIDs : rows[d] # NoRow => d <= counter
  /\ \A p \in Clients : req[p].pc = "insert" =>
       /\ req[p].d <= counter
       /\ ~misseeded => rows[req[p].d] = NoRow
       /\ \A q \in Clients : req[q].pc = "insert" /\ req[q].d = req[p].d => q = p

RowsInv ==
  /\ AnswersInv
  /\ \A p \in Clients : CallFits(p) /\ Placed(p)
  /\ Minted /\ PastShows /\ Accounts /\ Traced /\ Drawn /\ Ahead

-----------------------------------------------------------------------------
(* Counting. *)

LEMMA OneMore ==
  ASSUME NEW S, IsFiniteSet(S), NEW x, x \notin S
  PROVE  /\ IsFiniteSet(S \cup {x}) /\ Cardinality(S) \in Nat
         /\ Cardinality(S \cup {x}) = Cardinality(S) + 1
BY FS_AddElement, FS_CardinalityType

LEMMA NextIsNew == \A k \in Nat : k + 1 \notin 1 .. k
OBVIOUS

LEMMA CountInSeq ==
  ASSUME NEW S, NEW s \in Seq(S), NEW x
  PROVE  /\ Count(s, x) \in Nat /\ IsFiniteSet({i \in DOMAIN s : s[i] = x})
         /\ s = <<>> => Count(s, x) = 0
         /\ \A j \in DOMAIN s : s[j] = x => Count(s, x) >= 1
<1> DEFINE I == {i \in DOMAIN s : s[i] = x}
<1>1. DOMAIN s = 1 .. Len(s) /\ Len(s) \in Nat
  BY LenProperties
<1>2. IsFiniteSet(1 .. Len(s))
  BY <1>1, FS_Interval
<1>3. IsFiniteSet(I) /\ Cardinality(I) \in Nat
  BY <1>1, <1>2, FS_Subset, FS_CardinalityType
<1>4. s = <<>> => Cardinality(I) = 0
  <2>1. s = <<>> => I = {}
    BY <1>1
  <2> QED
    BY <2>1, FS_EmptySet
<1>5. \A j \in DOMAIN s : s[j] = x => Cardinality(I) >= 1
  <2> SUFFICES ASSUME NEW j \in I PROVE Cardinality(I) >= 1
    OBVIOUS
  <2>1. Cardinality(I) # 0
    BY <1>3, FS_EmptySet
  <2> HIDE DEF I
  <2> QED
    BY <1>3, <2>1
<1> QED
  BY <1>3, <1>4, <1>5 DEF Count

LEMMA CountAppend ==
  ASSUME NEW S, NEW s \in Seq(S), NEW y \in S, NEW x
  PROVE  Count(Append(s, y), x) = IF y = x THEN Count(s, x) + 1 ELSE Count(s, x)
<1> DEFINE I == {i \in DOMAIN s : s[i] = x}
           J == {i \in DOMAIN Append(s, y) : Append(s, y)[i] = x}
           n == Len(s) + 1
<1>1. /\ DOMAIN s = 1 .. Len(s) /\ Len(s) \in Nat
      /\ DOMAIN Append(s, y) = 1 .. n
      /\ \A i \in 1 .. Len(s) : Append(s, y)[i] = s[i]
      /\ Append(s, y)[n] = y
  BY LenProperties, AppendProperties
<1>2. J = IF y = x THEN I \cup {n} ELSE I
  BY <1>1
<1>3. n \notin I /\ IsFiniteSet(I)
  <2>1. n \notin DOMAIN s
    BY <1>1, NextIsNew, Zenon
  <2> QED
    BY <2>1, CountInSeq
<1> QED
  BY <1>2, <1>3, OneMore DEF Count

LEMMA FnsCounted ==
  ASSUME NEW s \in Seq(Events)
  PROVE  /\ Fns(s) \in Seq({tx.fn : tx \in Tx}) /\ DOMAIN Fns(s) = DOMAIN s
         /\ \A h \in Events : Fns(Append(s, h)) = Append(Fns(s), h.fn)
<1> DEFINE F == {tx.fn : tx \in Tx}
<1>1. DOMAIN s = 1 .. Len(s) /\ Len(s) \in Nat /\ \A i \in 1 .. Len(s) : s[i].fn \in F
  <2>1. \A h \in Events : h.fn \in F
    BY DEF Events
  <2>2. \A i \in 1 .. Len(s) : s[i] \in Events
    BY ElementOfSeq
  <2> QED
    BY <2>1, <2>2, LenProperties, Zenon
<1>2. Fns(s) \in [1 .. Len(s) -> F]
  BY <1>1 DEF Fns
<1>3. Fns(s) \in Seq(F)
  BY <1>1, <1>2, SeqDef
<1> QED
  BY <1>1, <1>3 DEF Fns

-----------------------------------------------------------------------------
(* What a step does to one request. *)

SameRequest(q) == req'[q] = req[q] /\ call'[q] = call[q]

\* No other request moves.
Alone(q) == \A r \in Clients \ {q} : SameRequest(r)

\* The request record keeps its transaction and its row.
Proceeds(q, from, to) ==
  /\ req[q].pc = from /\ req'[q].pc = to
  /\ req'[q].tx = req[q].tx /\ req'[q].d = req[q].d

TakesUp(q) ==
  /\ AtRest(q) /\ call'[q] = call[q] /\ req'[q].pc \in {"submit", "done", "email"}
  /\ req'[q].pc = "submit" /\ req'[q].tx.fn # "issueCredential" =>
       /\ req'[q].d \in DisplayIDs /\ rows[req'[q].d] \in FullRows
       /\ rows[req'[q].d].cred = req'[q].tx.key

Sends(q) ==
  /\ Alone(q)
  /\ req[q].pc = "submit" /\ req'[q].pc = "wait" /\ req'[q].d = req[q].d
  /\ req'[q].tx \in CredentialTx /\ req'[q].tx.fn = req[q].tx.fn
  /\ req[q].tx.fn # "issueCredential" => req'[q].tx = req[q].tx
  /\ req[q].tx.fn = "issueCredential" => req'[q].tx.key = call'[q].id
  /\ call'[q].st = "waiting" /\ call'[q].id \in TxIDs \ used
  /\ used' = used \cup {call'[q].id}
  /\ \A e \in mempool' : e \in mempool \/ e.id = call'[q].id
  /\ mempool \subseteq mempool'

NotSent(q) == Proceeds(q, "submit", "wait") /\ call'[q].st = "failed"

Hears(q) ==
  /\ req'[q] = req[q] /\ call[q].st = "waiting"
  /\ call'[q].st = "committed" /\ call'[q].id = call[q].id
  /\ \E e \in mempool : NetworkCommits(e) /\ e.id = call[q].id

LosesCall(q) ==
  /\ req'[q] = req[q] /\ call[q].st \in {"waiting", "committed"} /\ call'[q].st = "failed"
  /\ \/ mishap'
     \/ /\ call[q].st = "waiting"
        /\ \E e \in mempool : NetworkDiscards(e) /\ e.id = call[q].id

Resets(q) == req'[q].pc = "idle" /\ call'[q].st = "idle" /\ mishap'

GivesUp(q) ==
  req[q].pc = "wait" /\ call[q].st = "failed" /\ req'[q].pc = "done" /\ call'[q].st = "idle"

Draws(q) ==
  /\ Alone(q) /\ rows' = rows /\ left' = left
  /\ req[q].pc = "wait" /\ call[q].st = "committed" /\ req[q].tx.fn = "issueCredential"
  /\ req'[q].pc = "insert" /\ req'[q].tx = req[q].tx /\ req'[q].d = counter + 1
  /\ counter' = counter + 1 /\ call'[q].st = "idle"

Returns(q) ==
  /\ Proceeds(q, "wait", "mark") /\ req[q].tx.fn # "issueCredential"
  /\ call[q].st = "committed" /\ call'[q].st = "idle"

Inserted(q) ==
  /\ Alone(q) /\ Proceeds(q, "insert", "event") /\ call'[q] = call[q]
  /\ rows[req[q].d] = NoRow /\ rows' = [rows EXCEPT ![req[q].d] = NewRow(req[q].tx)]

NotInserted(q) ==
  /\ req[q].pc = "insert" /\ req'[q].pc = "done" /\ call'[q] = call[q]
  /\ rows[req[q].d] # NoRow \/ mishap'

PassesMark(q) == Proceeds(q, "mark", AfterMark(req[q].tx.fn)) /\ call'[q] = call[q]
PassesAlert(q) == Proceeds(q, "alert", "event") /\ call'[q] = call[q]

Finishes(q) ==
  /\ req[q].pc \in {"event", "email"} /\ req'[q].pc = "done" /\ call'[q] = call[q]
  /\ req[q].pc = "event" => RecordEvent(q) \/ mishap'

Turn(q) ==
  \/ SameRequest(q) \/ TakesUp(q) \/ Sends(q) \/ NotSent(q) \/ Hears(q) \/ LosesCall(q)
  \/ Resets(q) \/ GivesUp(q) \/ Draws(q) \/ Returns(q) \/ Inserted(q) \/ NotInserted(q)
  \/ PassesMark(q) \/ PassesAlert(q) \/ Finishes(q)

OneTurn(p) == Turn(p) /\ Alone(p)

LEMMA RefusedTurn ==
  ASSUME HandlersInv, NEW p \in Clients, Accept(p, Refused) PROVE OneTurn(p)
<1>1. Becomes(p, "done", 0, NoTx, "error")
  BY DEF Accept, Refused, Becomes
<1>2. Moves(p) /\ req'[p].pc = "done"
  BY <1>1, Replaced
<1> QED
  BY <1>2 DEF OneTurn, Alone, Turn, TakesUp, SameRequest, Moves, Accept, ledgerVars

LEMMA ReadTurn ==
  ASSUME HandlersInv, NEW p \in Clients,
         \/ \E h \in HolderIDs, b \in Bodies, e \in Expiries : ReadForIssue(p, h, b, e)
         \/ \E d \in DisplayIDs, fn \in StatusFns : ReadForStatus(p, d, fn)
         \/ \E d \in DisplayIDs, e \in Expiries : ReadForUpdate(p, d, e)
         \/ ReadFails(p)
  PROVE  OneTurn(p)
<1>1. ASSUME NEW pc \in {"submit", "email"}, NEW d, NEW t,
             Accept(p, [pc |-> pc, d |-> d, code |-> "none", tx |-> t]),
             \/ t.fn = "issueCredential"
             \/ d \in DisplayIDs /\ rows[d] \in FullRows /\ rows[d].cred = t.key
      PROVE  OneTurn(p)
  <2>1. Becomes(p, pc, d, t, "none")
    BY <1>1 DEF Accept, Becomes
  <2>2. Moves(p) /\ req'[p].pc = pc /\ req'[p].tx = t /\ req'[p].d = d
    BY <2>1, Replaced
  <2> QED
    BY <1>1, <2>2 DEF OneTurn, Alone, Turn, TakesUp, SameRequest, Moves, Accept, ledgerVars
<1>2. CASE Accept(p, Refused)
  BY <1>2, RefusedTurn
<1>3. CASE \E h \in HolderIDs, b \in Bodies, e \in Expiries : ReadForIssue(p, h, b, e)
  BY <1>1, <1>2, <1>3 DEF ReadForIssue
<1>4. CASE \E d \in DisplayIDs, fn \in StatusFns : ReadForStatus(p, d, fn)
  BY <1>1, <1>2, <1>4, FoundRow DEF ReadForStatus
<1>5. CASE \E d \in DisplayIDs, e \in Expiries : ReadForUpdate(p, d, e)
  <2>1. PICK d \in DisplayIDs, e \in Expiries : ReadForUpdate(p, d, e)
    BY <1>5
  <2> DEFINE r  == world[rows[d].cred]
             pc == IF e # r.ExpiryDate THEN "submit" ELSE "email"
             t  == [fn |-> "updateExpiry", key |-> rows[d].cred, expiry |-> e,
                    signed |-> Resign(r, e), admissible |-> TRUE]
  <2>2. CASE Found(d) /\ r.Status # "revoked"
    <3>1. Accept(p, [pc |-> pc, d |-> d, code |-> "none", tx |-> t])
      BY <2>1, <2>2 DEF ReadForUpdate
    <3>2. t.key = rows[d].cred /\ pc \in {"submit", "email"} /\ rows[d] \in FullRows
      BY <2>2, FoundRow
    <3> HIDE DEF t, pc
    <3> QED
      BY <1>1, <3>1, <3>2
  <2>3. CASE ~(Found(d) /\ r.Status # "revoked")
    BY <1>2, <2>1, <2>3 DEF ReadForUpdate
  <2> QED
    BY <2>2, <2>3
<1> QED
  BY <1>2, <1>3, <1>4, <1>5 DEF ReadFails

LEMMA CallsTyped ==
  ASSUME HandlersInv
  PROVE  /\ call \in [Clients -> [st : CallStates, id : TxIDs \cup {Genesis}]]
         /\ \A q \in Clients : /\ call[q].st \in CallStates
                               /\ call[q] = [st |-> call[q].st, id |-> call[q].id]
         /\ used \subseteq TxIDs /\ \A e \in mempool : e.id \in used /\ e.tx \in Tx
  BY DEF HandlersInv, LedgerInv, LedgerTypeOK

LEMMA SubmitTurn ==
  ASSUME HandlersInv, NEW p \in Clients, Submit(p) PROVE Sends(p) /\ OneTurn(p)
<1>1. PICK id \in TxIDs :
        /\ Endorse(p, WithKey(req[p].tx, id))
        /\ call'[p].id = id
        /\ req' = [req EXCEPT ![p].pc = "wait", ![p].tx = WithKey(req[p].tx, id)]
  BY DEF Submit
<1> DEFINE tx == WithKey(req[p].tx, id)
<1>2. /\ tx \in CredentialTx /\ tx.fn = req[p].tx.fn
      /\ req[p].tx.fn # "issueCredential" => tx = req[p].tx
      /\ req[p].tx.fn = "issueCredential" => tx.key = id
  BY KeyedTransaction DEF Submit, CredentialTx, WithKey
<1> HIDE DEF tx
<1>3. req' = [req EXCEPT ![p].pc = "wait", ![p].tx = tx] /\ Endorse(p, tx)
  BY <1>1 DEF tx
<1>4. Moves(p) /\ req'[p].pc = "wait" /\ req'[p].d = req[p].d /\ req'[p].tx = tx
  BY <1>3, SentRequest
<1>5. PICK n \in FreshIDs :
        /\ mempool' = mempool \cup {Entry(n, tx)}
        /\ used' = used \cup {n}
        /\ call' = [call EXCEPT ![p] = [st |-> "waiting", id |-> n]]
  BY <1>3 DEF Endorse
<1>6. Entry(n, tx).id = n
  BY DEF Entry
<1>7. call'[p].st = "waiting" /\ call'[p].id = n /\ \A q \in Clients \ {p} : call'[q] = call[q]
  BY <1>5, CallsTyped
<1>8. n = id
  BY <1>1, <1>7
<1>9. Sends(p)
  BY <1>2, <1>4, <1>5, <1>6, <1>7, <1>8 DEF Sends, Alone, SameRequest, Moves, Submit, FreshIDs
<1> QED
  BY <1>4, <1>7, <1>9 DEF OneTurn, Alone, Turn, SameRequest, Moves

LEMMA NotSentTurn ==
  ASSUME HandlersInv, NEW p \in Clients, SubmitRefused(p) \/ SubmitUnreachable(p)
  PROVE  NotSent(p) /\ OneTurn(p) /\ UNCHANGED <<used, mempool>>
<1>1. /\ call' = [call EXCEPT ![p] = [st |-> "failed", id |-> Genesis]]
      /\ req' = [req EXCEPT ![p].pc = "wait"] /\ req[p].pc = "submit"
      /\ UNCHANGED <<used, mempool>>
  BY DEF SubmitRefused, SubmitUnreachable, Refuse, PeerUnreachable
<1>2. call'[p].st = "failed" /\ \A q \in Clients \ {p} : call'[q] = call[q]
  BY <1>1, CallsTyped
<1>3. Moves(p) /\ req'[p].pc = "wait" /\ req'[p].d = req[p].d /\ req'[p].tx = req[p].tx
  BY <1>1, RequestUpdates DEF HandlersInv
<1> QED
  BY <1>1, <1>2, <1>3 DEF NotSent, Proceeds, OneTurn, Alone, Turn, SameRequest, Moves

\* A request that draws its display identifier.
LEMMA DrawnRequest ==
  ASSUME NEW p \in Clients, RequestShape(p), DOMAIN req = Clients, NEW n,
         req' = [req EXCEPT ![p].pc = "insert", ![p].d = n]
  PROVE  Moves(p) /\ req'[p].pc = "insert" /\ req'[p].tx = req[p].tx /\ req'[p].d = n
<1>1. /\ req'[p] = [[req[p] EXCEPT !.pc = "insert"] EXCEPT !.d = n]
      /\ DOMAIN req' = Clients
      /\ \A q \in Clients \ {p} : req'[q] = req[q]
  OBVIOUS
<1>2. req[p] = [pc |-> req[p].pc, d |-> req[p].d, tx |-> req[p].tx, code |-> req[p].code]
  BY DEF RequestShape
<1>3. req'[p] = [pc |-> "insert", d |-> n, tx |-> req[p].tx, code |-> req[p].code]
  BY <1>1, <1>2
<1> QED
  BY <1>1, <1>3 DEF Moves, RequestShape

LEMMA ReturnTurn ==
  ASSUME HandlersInv, NEW p \in Clients, SubmitFails(p) \/ SubmitSucceeds(p)
  PROVE  /\ SubmitFails(p) => GivesUp(p)
         /\ SubmitSucceeds(p) => Draws(p) \/ (Returns(p) /\ counter' = counter)
         /\ OneTurn(p)
<1>1. Return(p) /\ req[p].pc = "wait"
  BY DEF SubmitFails, SubmitSucceeds
<1>2. call'[p].st = "idle" /\ \A q \in Clients \ {p} : call'[q] = call[q]
  BY <1>1, CallsTyped DEF Return, Idle
<1>3. RequestShape(p) /\ DOMAIN req = Clients
  BY DEF HandlersInv
<1>4. SubmitFails(p) => GivesUp(p) /\ Moves(p)
  <2> SUFFICES ASSUME SubmitFails(p) PROVE GivesUp(p) /\ Moves(p)
    OBVIOUS
  <2>1. req' = [req EXCEPT ![p].pc = "done", ![p].code = "error"]
    BY DEF SubmitFails, AfterError
  <2>2. Moves(p) /\ req'[p].pc = "done"
    BY <1>3, <2>1, RequestUpdates
  <2> QED
    BY <1>1, <1>2, <2>2 DEF GivesUp, SubmitFails
<1>5. SubmitSucceeds(p) => (Draws(p) \/ (Returns(p) /\ counter' = counter)) /\ Moves(p)
  <2> SUFFICES ASSUME SubmitSucceeds(p)
               PROVE  (Draws(p) \/ (Returns(p) /\ counter' = counter)) /\ Moves(p)
    OBVIOUS
  <2>1. CASE req[p].tx.fn = "issueCredential"
    <3> DEFINE next == counter + 1
    <3>1. counter' = next /\ req' = [req EXCEPT ![p].pc = "insert", ![p].d = next]
      BY <2>1 DEF SubmitSucceeds, Draw
    <3> HIDE DEF next
    <3>2. Moves(p) /\ req'[p].pc = "insert" /\ req'[p].tx = req[p].tx /\ req'[p].d = next
      BY <1>3, <3>1, DrawnRequest
    <3> USE DEF next
    <3> QED
      BY <1>1, <1>2, <2>1, <3>1, <3>2 DEF Draws, Alone, SameRequest, Moves, SubmitSucceeds
  <2>2. CASE req[p].tx.fn # "issueCredential"
    <3>1. counter' = counter /\ req' = [req EXCEPT ![p].pc = "mark"]
      BY <2>2 DEF SubmitSucceeds
    <3>2. /\ Moves(p) /\ req'[p].pc = "mark" /\ req'[p].tx = req[p].tx
          /\ req'[p].d = req[p].d
      BY <1>3, <3>1, RequestUpdates
    <3> QED
      BY <1>1, <1>2, <2>2, <3>1, <3>2 DEF Returns, Proceeds, SubmitSucceeds
  <2> QED
    BY <2>1, <2>2
<1>6. \A q \in Clients \ {p} : req'[q] = req[q]
  BY <1>4, <1>5 DEF Moves
<1> QED
  BY <1>2, <1>4, <1>5, <1>6 DEF OneTurn, Alone, Turn, SameRequest

\* A statement leaves the request with its transaction and its row.
LEMMA StatementMoves ==
  ASSUME HandlersInv, NEW p \in Clients, NEW from, req[p].pc = from
  PROVE  /\ \A to : Goto(p, to) => Moves(p) /\ Proceeds(p, from, to)
         /\ \A code : Answer(p, code) => Moves(p) /\ Proceeds(p, from, "done")
<1>1. RequestShape(p) /\ DOMAIN req = Clients
  BY DEF HandlersInv
<1>2. ASSUME NEW to, Goto(p, to) PROVE Moves(p) /\ Proceeds(p, from, to)
  <2>1. req' = [req EXCEPT ![p].pc = to]
    BY <1>2 DEF Goto
  <2> QED
    BY <1>1, <2>1, RequestUpdates DEF Proceeds
<1>3. ASSUME NEW code, Answer(p, code) PROVE Moves(p) /\ Proceeds(p, from, "done")
  <2>1. req' = [req EXCEPT ![p].pc = "done", ![p].code = code]
    BY <1>3 DEF Answer
  <2> QED
    BY <1>1, <2>1, RequestUpdates DEF Proceeds
<1> QED
  BY <1>2, <1>3

LEMMA StatementTurn ==
  ASSUME HandlersInv, NEW p \in Clients
  PROVE  /\ InsertRow(p) => OneTurn(p) /\ (Inserted(p) \/ (NotInserted(p) /\ rows' = rows))
         /\ InsertRowFails(p) => OneTurn(p) /\ NotInserted(p)
         /\ MarkRow(p) \/ MarkRowFails(p) => OneTurn(p) /\ PassesMark(p)
         /\ RaiseAlert(p) \/ RaiseAlertFails(p) => OneTurn(p) /\ PassesAlert(p)
         /\ RecordEvent(p) \/ RecordEventFails(p) =>
              OneTurn(p) /\ Finishes(p) /\ Proceeds(p, "event", "done")
         /\ UpdateEmail(p) \/ UpdateEmailFails(p) =>
              OneTurn(p) /\ Finishes(p) /\ Proceeds(p, "email", "done")
<1>1. ASSUME Moves(p), call' = call, Turn(p) PROVE OneTurn(p)
  BY <1>1 DEF OneTurn, Alone, SameRequest, Moves
<1>2. InsertRow(p) => OneTurn(p) /\ (Inserted(p) \/ (NotInserted(p) /\ rows' = rows))
  BY <1>1, StatementMoves
     DEF InsertRow, Vacant, Inserted, Alone, SameRequest, Moves, NotInserted, Turn, Proceeds, ledgerVars
<1>3. InsertRowFails(p) => OneTurn(p) /\ NotInserted(p)
  BY <1>1, StatementMoves DEF InsertRowFails, NotInserted, Turn, Proceeds, ledgerVars
<1>4. MarkRow(p) \/ MarkRowFails(p) => OneTurn(p) /\ PassesMark(p)
  BY <1>1, StatementMoves DEF MarkRow, MarkRowFails, PassesMark, Turn, Proceeds, ledgerVars
<1>5. RaiseAlert(p) \/ RaiseAlertFails(p) => OneTurn(p) /\ PassesAlert(p)
  BY <1>1, StatementMoves DEF RaiseAlert, RaiseAlertFails, PassesAlert, Turn, Proceeds, ledgerVars
<1>6. RecordEvent(p) \/ RecordEventFails(p) =>
        OneTurn(p) /\ Finishes(p) /\ Proceeds(p, "event", "done")
  BY <1>1, StatementMoves DEF RecordEvent, RecordEventFails, Finishes, Turn, Proceeds, ledgerVars
<1>7. UpdateEmail(p) \/ UpdateEmailFails(p) =>
        OneTurn(p) /\ Finishes(p) /\ Proceeds(p, "email", "done")
  BY <1>1, StatementMoves DEF UpdateEmail, UpdateEmailFails, Finishes, Turn, Proceeds, ledgerVars
<1> QED
  BY <1>2, <1>3, <1>4, <1>5, <1>6, <1>7

LEMMA NetworkTurn ==
  ASSUME HandlersInv,
         \/ \E e \in mempool : NetworkCommits(e) \/ NetworkDiscards(e)
         \/ \E p \in Clients : CallTimesOut(p)
         \/ Tick \/ Restarted
  PROVE  \A q \in Clients : Turn(q)
<1> SUFFICES ASSUME NEW q \in Clients PROVE Turn(q)
  OBVIOUS
<1>1. ASSUME NEW e \in mempool, NetworkCommits(e) PROVE Turn(q)
  <2>1. req' = req /\ call'[q] = IF call[q].st = "waiting" /\ call[q].id = e.id
                                 THEN [call[q] EXCEPT !.st = "committed"]
                                 ELSE call[q]
    BY <1>1 DEF NetworkCommits, Commit, Tell
  <2> QED
    BY <1>1, <2>1, CallsTyped DEF Turn, SameRequest, Hears
<1>2. ASSUME NEW e \in mempool, NetworkDiscards(e) PROVE Turn(q)
  <2>1. req' = req /\ call'[q] = IF call[q].st = "waiting" /\ call[q].id = e.id
                                 THEN [call[q] EXCEPT !.st = "failed"]
                                 ELSE call[q]
    BY <1>2 DEF NetworkDiscards, Discard, Tell, InvalidVerdict
  <2> QED
    BY <1>2, <2>1, CallsTyped DEF Turn, SameRequest, LosesCall
<1>3. ASSUME NEW p \in Clients, CallTimesOut(p) PROVE Turn(q)
  <2>1. /\ req' = req /\ mishap' /\ call[p].st \in {"waiting", "committed"}
        /\ call' = [call EXCEPT ![p].st = "failed"]
    BY <1>3 DEF CallTimesOut, StatusTimeout, TimedStates
  <2> QED
    BY <2>1, CallsTyped DEF Turn, SameRequest, LosesCall
<1>4. CASE Tick
  BY <1>4 DEF Tick, Turn, SameRequest, ledgerVars
<1>5. CASE Restarted
  BY <1>5 DEF Restarted, BackendRestarts, BackendRestartsUnseeded, Restart, Turn, Resets, NoReq, Idle
<1> QED
  BY <1>1, <1>2, <1>3, <1>4, <1>5

LEMMA EveryTurn ==
  ASSUME HandlersInv, CredentialNext PROVE \A q \in Clients : Turn(q)
<1>1. ASSUME NEW p \in Clients, OneTurn(p) PROVE \A q \in Clients : Turn(q)
  BY <1>1 DEF OneTurn, Alone, Turn
<1>2. ASSUME NEW p \in Clients, HandlerStep(p) PROVE OneTurn(p)
  BY <1>2, SubmitTurn, NotSentTurn, ReturnTurn, StatementTurn DEF HandlerStep
<1> QED
  BY <1>1, <1>2, ReadTurn, NetworkTurn DEF Restarted, CredentialNext

-----------------------------------------------------------------------------
(* What a step does to the tables. *)

\* Which steps change what.
Frame ==
  /\ mishap => mishap'
  /\ misseeded' = misseeded \/ (Restarted /\ mishap')
  /\ used \subseteq used'
  /\ history' = history \/ \E e \in mempool : NetworkCommits(e)
  /\ \/ rows' = rows
     \/ \E p \in Clients : Inserted(p) /\ InsertRow(p)
     \/ \E p \in Clients : MarkRow(p)
  /\ trail' = trail \/ \E p \in Clients : RecordEvent(p)
  /\ alerts' = alerts \/ \E p \in Clients : RaiseAlert(p)
  /\ mempool' \subseteq mempool \/ \E p \in Clients : Sends(p)

LEMMA StepFrame ==
  ASSUME HandlersInv, CredentialNext PROVE Frame
<1> USE DEF dbVars, ghosts, ledgerVars
<1>1. ASSUME NEW p \in Clients, NEW r, Accept(p, r) PROVE Frame
  BY <1>1 DEF Accept, Frame
<1>2. ASSUME NEW p \in Clients, HandlerStep(p) PROVE Frame
  <2>1. CASE Submit(p)
    <3>1. Sends(p)
      BY <2>1, SubmitTurn
    <3>2. used \subseteq used'
      BY <3>1 DEF Sends
    <3> QED
      BY <2>1, <3>1, <3>2 DEF Submit, Frame
  <2>2. CASE SubmitRefused(p) \/ SubmitUnreachable(p)
    BY <2>2, NotSentTurn DEF SubmitRefused, SubmitUnreachable, Frame
  <2>3. CASE SubmitSucceeds(p) \/ SubmitFails(p)
    BY <2>3 DEF SubmitSucceeds, SubmitFails, Return, Frame
  <2>4. CASE InsertRow(p)
    <3>1. \/ Inserted(p)
          \/ rows' = rows
      BY <2>4, StatementTurn
    <3> QED
      BY <2>4, <3>1 DEF InsertRow, Frame
  <2>5. CASE InsertRowFails(p)
    BY <2>5 DEF InsertRowFails, Frame
  <2>6. CASE MarkRow(p) \/ MarkRowFails(p)
    BY <2>6 DEF MarkRow, MarkRowFails, Frame
  <2>7. CASE RaiseAlert(p) \/ RaiseAlertFails(p)
    BY <2>7 DEF RaiseAlert, RaiseAlertFails, Frame
  <2>8. CASE RecordEvent(p) \/ RecordEventFails(p)
    BY <2>8 DEF RecordEvent, RecordEventFails, Frame
  <2>9. CASE UpdateEmail(p) \/ UpdateEmailFails(p)
    BY <2>9 DEF UpdateEmail, UpdateEmailFails, Frame
  <2> QED
    BY <1>2, <2>1, <2>2, <2>3, <2>4, <2>5, <2>6, <2>7, <2>8, <2>9 DEF HandlerStep
<1>3. ASSUME NEW e \in mempool, NetworkCommits(e) PROVE Frame
  BY <1>3 DEF NetworkCommits, Commit, Frame
<1>4. ASSUME NEW e \in mempool, NetworkDiscards(e) PROVE Frame
  BY <1>4 DEF NetworkDiscards, Discard, Frame
<1>5. ASSUME NEW p \in Clients, CallTimesOut(p) PROVE Frame
  BY <1>5 DEF CallTimesOut, StatusTimeout, Frame
<1>6. CASE Tick
  BY <1>6 DEF Tick, Frame
<1>7. CASE Restarted
  BY <1>7 DEF Restarted, BackendRestarts, BackendRestartsUnseeded, Restart, Frame
<1> QED
  BY <1>1, <1>2, <1>3, <1>4, <1>5, <1>6, <1>7
     DEF Restarted, CredentialNext, ReadForIssue, ReadForStatus, ReadForUpdate, ReadFails

\* A row is marked, which changes neither its credential nor another row.
LEMMA RowMarked ==
  ASSUME RowsInv, NEW p \in Clients, MarkRow(p)
  PROVE  /\ HasRow(p) /\ Owes(p) /\ req[p].tx \in UpdateTx \cup StatusTx
         /\ rows'[req[p].d] = Marked(rows[req[p].d], req[p].tx)
         /\ rows'[req[p].d] \in FullRows /\ rows'[req[p].d].cred = req[p].tx.key
         /\ \A d \in DisplayIDs \ {req[p].d} : rows'[d] = rows[d]
         /\ rows' \in [DisplayIDs -> {NoRow} \cup FullRows]
<1> DEFINE d == req[p].d
           tx == req[p].tx
<1>1. req[p].pc = "mark" /\ rows' = [rows EXCEPT ![d] = Marked(rows[d], tx)]
  BY DEF MarkRow
<1>2. tx \in UpdateTx \cup StatusTx /\ RowsTyped
  BY <1>1 DEF RowsInv, AnswersInv, HandlersInv, RequestOK
<1>3. HasRow(p) /\ Owes(p)
  BY <1>1, <1>2 DEF HasRow, Owes, UpdateTx, StatusTx
<1>4. d \in DisplayIDs /\ rows[d] \in FullRows /\ rows[d].cred = tx.key
  BY <1>3 DEF RowsInv, Placed
<1> HIDE DEF d, tx
<1>5. Marked(rows[d], tx) \in FullRows /\ Marked(rows[d], tx).cred = tx.key
  BY <1>2, <1>4 DEF Marked, FullRows, UpdateTx, StatusTx, CachedStatus
<1>6. /\ rows'[d] = Marked(rows[d], tx)
      /\ \A e \in DisplayIDs \ {d} : rows'[e] = rows[e]
      /\ rows' \in [DisplayIDs -> {NoRow} \cup FullRows]
  BY <1>1, <1>2, <1>4, <1>5 DEF RowsTyped
<1> QED
  BY <1>2, <1>3, <1>5, <1>6 DEF d, tx

LEMMA RowInserted ==
  ASSUME RowsInv, NEW p \in Clients, Inserted(p)
  PROVE  /\ Minting(p) /\ Owes(p) /\ req[p].tx \in IssueTx /\ req[p].d \in DisplayIDs
         /\ req[p].tx.key \in CredIDs
         /\ rows[req[p].d] = NoRow
         /\ rows'[req[p].d] = NewRow(req[p].tx)
         /\ rows'[req[p].d] \in FullRows /\ rows'[req[p].d].cred = req[p].tx.key
         /\ \A d \in DisplayIDs \ {req[p].d} : rows'[d] = rows[d]
         /\ rows' \in [DisplayIDs -> {NoRow} \cup FullRows]
<1> DEFINE d == req[p].d
           tx == req[p].tx
<1>1. /\ req[p].pc = "insert" /\ rows' = [rows EXCEPT ![d] = NewRow(tx)]
      /\ rows[d] = NoRow
  BY DEF Inserted, Proceeds
<1>2. tx \in IssueTx /\ RowsTyped
  BY <1>1 DEF RowsInv, AnswersInv, HandlersInv, RequestOK
<1>3. Minting(p) /\ Owes(p) /\ d \in DisplayIDs
  BY <1>1, <1>2 DEF Minting, Owes, IssueTx, RowsInv, Drawn
<1> HIDE DEF d, tx
<1>4. NewRow(tx) \in FullRows /\ NewRow(tx).cred = tx.key /\ tx.key \in CredIDs
  BY <1>2 DEF NewRow, FullRows, IssueTx
<1>5. /\ rows'[d] = NewRow(tx)
      /\ \A e \in DisplayIDs \ {d} : rows'[e] = rows[e]
      /\ rows' \in [DisplayIDs -> {NoRow} \cup FullRows]
  BY <1>1, <1>2, <1>3, <1>4 DEF RowsTyped
<1> QED
  BY <1>1, <1>2, <1>3, <1>4, <1>5 DEF d, tx

\* A row stays, with its credential; a new one is an issue's.
RowStays(d) == rows[d] # NoRow => rows'[d] # NoRow /\ rows'[d].cred = rows[d].cred

LEMMA FullRowIsRow == \A r \in FullRows : r # NoRow /\ r.cred \in CredIDs /\ r.cred # Genesis
BY GenesisAssumption DEF FullRows, NoRow

LEMMA RowsFollow ==
  ASSUME RowsInv, Frame, NEW d \in DisplayIDs
  PROVE  /\ RowStays(d)
         /\ rows'[d].cred = rows[d].cred \/ \E p \in Clients : Inserted(p) /\ d = req[p].d
         /\ rows'[d] # NoRow => rows'[d] \in FullRows
         /\ rows[d] = NoRow => \/ rows'[d] = NoRow
                               \/ \E p \in Clients : Inserted(p) /\ d = req[p].d
<1>1. RowsTyped
  BY DEF RowsInv, AnswersInv, HandlersInv
<1>2. CASE rows' = rows
  BY <1>1, <1>2 DEF RowStays, RowsTyped
<1>3. ASSUME NEW p \in Clients, Inserted(p)
      PROVE  /\ RowStays(d)
             /\ rows'[d].cred = rows[d].cred \/ d = req[p].d
             /\ rows'[d] # NoRow => rows'[d] \in FullRows
             /\ rows[d] = NoRow => rows'[d] = NoRow \/ d = req[p].d
  BY <1>3, <1>1, RowInserted, FullRowIsRow DEF RowStays, RowsTyped
<1>4. ASSUME NEW p \in Clients, MarkRow(p)
      PROVE  /\ RowStays(d)
             /\ rows'[d].cred = rows[d].cred
             /\ rows'[d] # NoRow => rows'[d] \in FullRows
             /\ rows[d] = NoRow => rows'[d] = NoRow
  <2>1. rows[req[p].d] \in FullRows /\ rows[req[p].d].cred = req[p].tx.key
    BY <1>4, RowMarked DEF RowsInv, Placed
  <2> QED
    BY <1>1, <1>4, <2>1, RowMarked, FullRowIsRow DEF RowStays, RowsTyped
<1> QED
  BY <1>2, <1>3, <1>4 DEF Frame

-----------------------------------------------------------------------------
(* The requests keep to their calls and rows. *)

LEMMA CallStaysFit ==
  ASSUME RowsInv, \A q \in Clients : Turn(q), NEW p \in Clients
  PROVE  CallFits(p)'
<1>1. CallFits(p) /\ Landed(p) /\ Turn(p)
  BY DEF RowsInv, AnswersInv
<1>2. call'[p].st \in {"waiting", "committed"} => req'[p].pc = "wait"
  BY <1>1 DEF CallFits, Turn, SameRequest, AtRest, TakesUp, Sends, NotSent, Hears, LosesCall,
              Resets, GivesUp, Draws, Returns, Inserted, NotInserted, PassesMark,
              PassesAlert, Finishes, Proceeds
<1>3. ASSUME Sent(p)'
      PROVE  /\ req'[p].tx \in CredentialTx
             /\ req'[p].tx.fn = "issueCredential" => req'[p].tx.key = call'[p].id
  BY <1>1, <1>3 DEF Sent, CallFits, Turn, SameRequest, AtRest, TakesUp, Sends, NotSent, Hears,
              LosesCall, Resets, GivesUp, Draws, Returns, Inserted, NotInserted, PassesMark,
              PassesAlert, Finishes, Proceeds
\* A waiting call is the one of before, with an identifier drawn then, or new.
<1>4. ASSUME NEW q \in Clients, call'[q].st = "waiting"
      PROVE  \/ call[q].st = "waiting" /\ call'[q].id = call[q].id /\ call[q].id \in used
             \/ Sends(q)
  <2>1. Turn(q) /\ CallFits(q) /\ Landed(q)
    BY DEF RowsInv, AnswersInv
  <2>2. call[q].st = "waiting" => call[q].id \in used
    BY <2>1 DEF CallFits, Landed, Pending
  <2> QED
    BY <1>4, <2>1, <2>2 DEF Turn, SameRequest, TakesUp, NotSent, Hears, LosesCall, Resets,
       GivesUp, Draws, Returns, Inserted, NotInserted, PassesMark, PassesAlert, Finishes
<1>5. ASSUME call'[p].st = "waiting", NEW q \in Clients, call'[q].st = "waiting",
             call'[q].id = call'[p].id
      PROVE  q = p
  <2>1. CASE Sends(p)
    BY <1>4, <1>5, <2>1 DEF Sends, Alone, SameRequest
  <2>2. CASE Sends(q)
    BY <1>4, <1>5, <2>2 DEF Sends, Alone, SameRequest
  <2>3. CASE ~Sends(p) /\ ~Sends(q)
    BY <1>1, <1>4, <1>5, <2>3 DEF CallFits
  <2> QED
    BY <2>1, <2>2, <2>3
<1> QED
  BY <1>2, <1>3, <1>5 DEF CallFits, Sent

LEMMA StaysPlaced ==
  ASSUME RowsInv, Frame, NEW p \in Clients, Turn(p)
  PROVE  Placed(p)'
<1>1. Placed(p) /\ RequestOK(p)
  BY DEF RowsInv, AnswersInv, HandlersInv
\* It has the row it had, or is given one that is there.
<1>2. ASSUME HasRow(p)'
      PROVE  \/ HasRow(p) /\ req'[p].d = req[p].d /\ req'[p].tx.key = req[p].tx.key
             \/ /\ req'[p].d \in DisplayIDs /\ rows[req'[p].d] \in FullRows
                /\ rows[req'[p].d].cred = req'[p].tx.key
             \/ Inserted(p)
  <2>1. req[p].pc = "mark" => req[p].tx.fn # "issueCredential"
    BY <1>1 DEF RequestOK, UpdateTx, StatusTx
  <2> QED
    BY <1>1, <1>2, <2>1 DEF Placed, HasRow, Turn, SameRequest, TakesUp, Sends, NotSent, Hears,
       LosesCall, Resets, GivesUp, Draws, Returns, NotInserted, PassesMark, PassesAlert,
       Finishes, Proceeds, AfterMark
<1>3. ASSUME HasRow(p)'
      PROVE  /\ req'[p].d \in DisplayIDs /\ rows'[req'[p].d] \in FullRows
             /\ rows'[req'[p].d].cred = req'[p].tx.key
  <2>1. CASE Inserted(p)
    BY <2>1, RowInserted DEF Inserted, Proceeds
  <2>2. CASE ~Inserted(p)
    <3>1. /\ req'[p].d \in DisplayIDs /\ rows[req'[p].d] \in FullRows
          /\ rows[req'[p].d].cred = req'[p].tx.key
      BY <1>1, <1>2, <1>3, <2>2 DEF Placed
    <3> QED
      BY <3>1, RowsFollow, FullRowIsRow DEF RowStays
  <2> QED
    BY <2>1, <2>2
<1>4. ASSUME req'[p].pc = "alert"
      PROVE  req'[p].tx.fn \in {"revokeCredential", "suspendCredential"}
  BY <1>1, <1>4 DEF Placed, RequestOK, UpdateTx, StatusTx, Turn, SameRequest, TakesUp, Sends,
     NotSent, Hears, LosesCall, Resets, GivesUp, Draws, Returns, Inserted, NotInserted,
     PassesMark, PassesAlert, Finishes, Proceeds, AfterMark
<1>5. ASSUME req'[p].pc = "event"
      PROVE  req'[p].tx.fn \in EventFns
  BY <1>1, <1>5 DEF Placed, RequestOK, IssueTx, UpdateTx, StatusTx, EventFns, StatusFns, Turn,
     SameRequest, TakesUp, Sends, NotSent, Hears, LosesCall, Resets, GivesUp, Draws, Returns,
     Inserted, NotInserted, PassesMark, PassesAlert, Finishes, Proceeds, AfterMark
<1> QED
  BY <1>3, <1>4, <1>5 DEF Placed, HasRow

-----------------------------------------------------------------------------
(* One credential for every issue, one row for every credential. *)

LEMMA MintingFollows ==
  ASSUME RowsInv, NEW p \in Clients, Turn(p), Minting(p)'
  PROVE  \/ Minting(p) /\ req'[p].tx = req[p].tx
         \/ Sends(p) /\ req'[p].tx.key = call'[p].id /\ req'[p].tx.key \in TxIDs \ used
<1>1. CallFits(p)
  BY DEF RowsInv
<1> QED
  BY <1>1 DEF CallFits, Minting, Sent, Turn, SameRequest, AtRest, TakesUp, Sends, NotSent, Hears,
     LosesCall, Resets, GivesUp, Draws, Returns, Inserted, NotInserted, PassesMark,
     PassesAlert, Finishes, Proceeds, AfterMark

LEMMA MintedStep ==
  ASSUME RowsInv, Frame, \A q \in Clients : Turn(q)
  PROVE  Minted'
<1>1. Minted
  BY DEF RowsInv
\* The credential of a row was drawn before this step.
<1>2. ASSUME NEW d \in DisplayIDs, rows'[d] # NoRow PROVE rows'[d].cred \in used
  <2>1. CASE rows'[d].cred = rows[d].cred
    <3>1. rows[d] # NoRow
      BY <1>2, <2>1, RowsFollow, FullRowIsRow DEF NoRow
    <3> QED
      BY <1>1, <2>1, <3>1 DEF Minted
  <2>2. ASSUME NEW p \in Clients, Inserted(p), d = req[p].d PROVE rows'[d].cred \in used
    BY <1>1, <2>2, RowInserted DEF Minted
  <2> QED
    BY <2>1, <2>2, RowsFollow
\* The row of a credential is the one it had, or is inserted.
<1>3. ASSUME NEW d \in DisplayIDs, NEW e \in DisplayIDs, rows'[d] # NoRow,
             rows'[d].cred = rows'[e].cred
      PROVE  d = e
  <2>1. rows'[d].cred \in CredIDs
    BY <1>3, RowsFollow, FullRowIsRow
  <2>2. ASSUME NEW f \in DisplayIDs, rows'[f].cred = rows[f].cred, rows'[f].cred \in CredIDs
        PROVE  rows[f] # NoRow
    BY <2>2, GenesisAssumption DEF NoRow
  <2>3. ASSUME NEW f \in DisplayIDs, NEW g \in DisplayIDs, rows'[f].cred = rows'[g].cred,
               rows'[f].cred \in CredIDs,
               NEW p \in Clients, Inserted(p), f = req[p].d, f # g
        PROVE  FALSE
    <3>1. rows'[g] = rows[g] /\ rows'[f].cred = req[p].tx.key /\ Minting(p)
      BY <2>3, RowInserted
    <3> QED
      BY <1>1, <2>3, <3>1 DEF Minted
  <2>4. CASE rows'[d].cred = rows[d].cred /\ rows'[e].cred = rows[e].cred
    BY <1>1, <1>3, <2>1, <2>2, <2>4 DEF Minted
  <2> QED
    BY <1>3, <2>1, <2>3, <2>4, RowsFollow
<1>4. ASSUME NEW p \in Clients, Minting(p)'
      PROVE  /\ req'[p].tx.key \in used'
             /\ \A d \in DisplayIDs : rows'[d].cred # req'[p].tx.key
             /\ \A q \in Clients : Minting(q)' /\ req'[q].tx.key = req'[p].tx.key => q = p
  <2>1. CASE Sends(p) /\ req'[p].tx.key = call'[p].id /\ req'[p].tx.key \in TxIDs \ used
    <3>1. req'[p].tx.key \in used'
      BY <2>1 DEF Sends
    <3>2. ASSUME NEW d \in DisplayIDs PROVE rows'[d].cred # req'[p].tx.key
      <4>1. CASE rows'[d] = NoRow
        BY <2>1, <4>1, GenesisAssumption DEF NoRow, TxIDs
      <4> QED
        BY <1>2, <2>1, <4>1
    <3>3. ASSUME NEW q \in Clients, Minting(q)', req'[q].tx.key = req'[p].tx.key, q # p
          PROVE  FALSE
      <4>1. SameRequest(q)
        BY <2>1, <3>3 DEF Sends, Alone
      <4>2. Minting(q) /\ req'[q].tx = req[q].tx
        BY <3>3, <4>1 DEF SameRequest, Minting, Sent
      <4> QED
        BY <1>1, <2>1, <3>3, <4>2 DEF Minted
    <3> QED
      BY <3>1, <3>2, <3>3
  <2>2. CASE Minting(p) /\ req'[p].tx = req[p].tx
    <3>1. req[p].tx.key \in used
      BY <1>1, <2>2 DEF Minted
    <3>2. ASSUME NEW d \in DisplayIDs PROVE rows'[d].cred # req'[p].tx.key
      <4>1. ASSUME NEW q \in Clients, Inserted(q), d = req[q].d, rows'[d].cred = req'[p].tx.key
            PROVE  FALSE
        <5>1. Minting(q) /\ req[q].tx.key = req[p].tx.key
          BY <2>2, <4>1, RowInserted
        <5>2. q = p
          BY <1>1, <2>2, <5>1 DEF Minted
        <5> QED
          BY <1>4, <4>1, <5>2 DEF Inserted, Proceeds, Minting, Sent
      <4> QED
        BY <1>1, <2>2, <4>1, RowsFollow DEF Minted
    <3>3. ASSUME NEW q \in Clients, Minting(q)', req'[q].tx.key = req'[p].tx.key, q # p
          PROVE  FALSE
      <4>1. ~Sends(q)
        BY <2>2, <3>1, <3>3, MintingFollows DEF Sends, Minting, Sent
      <4>2. Minting(q) /\ req'[q].tx = req[q].tx
        BY <3>3, <4>1, MintingFollows
      <4> QED
        BY <1>1, <2>2, <3>3, <4>2 DEF Minted
    <3>4. req[p].tx.key \in used'
      BY <3>1 DEF Frame
    <3> QED
      BY <2>2, <3>2, <3>3, <3>4
  <2> QED
    BY <1>4, <2>1, <2>2, MintingFollows
<1>5. used \subseteq used'
  BY DEF Frame
<1> QED
  BY <1>2, <1>3, <1>4, <1>5 DEF Minted

-----------------------------------------------------------------------------
(* What MySQL shows was on chain. *)

LEMMA HistoryStays ==
  ASSUME AnswersInv, Frame, NEW c \in CredIDs, NEW i \in DOMAIN history[c]
  PROVE  i \in DOMAIN history'[c] /\ history'[c][i] = history[c][i]
<1>1. CASE history' = history
  BY <1>1
<1>2. CASE \E e \in mempool : NetworkCommits(e)
  BY <1>2, HistoryGrows DEF AnswersInv
<1> QED
  BY <1>1, <1>2 DEF Frame

LEMMA OwesInCredentialTx ==
  ASSUME AnswersInv, NEW p \in Clients, Owes(p)
  PROVE  req[p].tx \in CredentialTx /\ req[p].tx.key \in CredIDs
<1>1. req[p].tx \in CredentialTx
  BY DEF AnswersInv, Landed, AfterChain, Settled, Owes
<1> QED
  BY <1>1 DEF CredentialTx, IssueTx, UpdateTx, StatusTx

\* The transaction that a waiting call hears of is the request's own.
LEMMA HeardOf ==
  ASSUME RowsInv, NEW p \in Clients, NEW e \in mempool, NetworkCommits(e),
         call[p].st = "waiting", call[p].id = e.id
  PROVE  e.tx = req[p].tx /\ e.tx \in CredentialTx /\ req[p].pc = "wait"
<1>1. req[p].pc = "wait" /\ Pending(p)
  BY DEF RowsInv, CallFits, AnswersInv, Landed
<1> QED
  BY <1>1 DEF Pending

\* A transaction is visible in the history from its commit on.
LEMMA CommitShows ==
  ASSUME RowsInv, NEW e \in mempool, NetworkCommits(e), e.tx \in CredentialTx
  PROVE  /\ e.tx.key \in CredIDs
         /\ \E i \in DOMAIN history'[e.tx.key] : Tells(e.tx, history'[e.tx.key][i].rec)
<1> DEFINE tx == e.tx
           k  == e.tx.key
<1>1. e.write = Written(world, tx) /\ Accepts(world, tx) /\ TypeOK
  BY DEF NetworkCommits, Commit, RowsInv, AnswersInv, HandlersInv, LedgerInv, LedgerTypeOK,
         EndorsementStillHolds
<1>2. k \in CredIDs
  BY DEF CredentialTx, IssueTx, UpdateTx, StatusTx
<1>3. PICK i \in DOMAIN history'[k] : history'[k][i] = [fn |-> tx.fn, rec |-> e.write]
  BY <1>2, HistoryGrows DEF RowsInv, AnswersInv
<1>4. IsCredential(world, k) => world[k] \in CredentialRecords
  BY <1>1, <1>2 DEF TypeOK, IsCredential, NoRecord
<1>5. tx.fn \in {"issueCredential", "updateExpiry", "revokeCredential", "suspendCredential",
                "restoreCredential"}
  BY DEF CredentialTx, IssueTx, UpdateTx, StatusTx
<1> HIDE DEF tx
<1>6. Tells(tx, e.write)
  <2>1. CASE tx.fn = "issueCredential"
    BY <1>1, <2>1 DEF Tells, Written
  <2>2. CASE tx.fn = "updateExpiry"
    BY <1>1, <1>4, <2>2
       DEF tx, Tells, Written, Accepts, Updatable, WithExpiry, CredentialRecords
  <2>3. CASE tx.fn = "revokeCredential"
    BY <1>1, <1>4, <2>3
       DEF tx, Tells, Written, Accepts, Revocable, AsRevoked, CachedStatus, CredentialRecords
  <2>4. CASE tx.fn = "suspendCredential"
    BY <1>1, <1>4, <2>4
       DEF tx, Tells, Written, Accepts, Suspendable, AsSuspended, CachedStatus, CredentialRecords
  <2>5. CASE tx.fn = "restoreCredential"
    BY <1>1, <1>4, <2>5
       DEF tx, Tells, Written, Accepts, Restorable, AsRestored, CachedStatus, CredentialRecords
  <2> QED
    BY <1>5, <2>1, <2>2, <2>3, <2>4, <2>5
<1> QED
  BY <1>2, <1>3, <1>6 DEF tx

\* A request comes to owe by hearing of its commit, and in no other way.
LEMMA OwesFollows ==
  ASSUME RowsInv, NEW p \in Clients, Turn(p), Owes(p)'
  PROVE  (Owes(p) /\ req'[p].tx = req[p].tx) \/ Hears(p)
<1>1. CallFits(p)
  BY DEF RowsInv
<1> QED
  BY <1>1 DEF CallFits, Owes, Turn, SameRequest, AtRest, TakesUp, Sends, NotSent, LosesCall,
     Resets, GivesUp, Draws, Returns, Inserted, NotInserted, PassesMark, PassesAlert,
     Finishes, Proceeds

LEMMA StaysShown ==
  ASSUME RowsInv, Frame, NEW p \in Clients, Owes(p)
  PROVE  \E i \in DOMAIN history'[req[p].tx.key] :
           Tells(req[p].tx, history'[req[p].tx.key][i].rec)
<1>1. req[p].tx.key \in CredIDs /\ Shown(req[p].tx)
  BY OwesInCredentialTx DEF RowsInv, PastShows
<1> QED
  BY <1>1, HistoryStays DEF Shown, RowsInv

\* The status, and the expiry with its signature, were on chain.
RowShown(row, past) ==
  /\ \E i \in DOMAIN past : past[i].rec.Status = row.status
  /\ \E i \in DOMAIN past : /\ past[i].rec.ExpiryDate = row.expiry
                            /\ past[i].rec.Signed = row.signed

LEMMA RowsStayShown ==
  ASSUME RowsInv, Frame, NEW d \in DisplayIDs, rows'[d] # NoRow
  PROVE  RowShown(rows'[d], history'[rows'[d].cred])
<1>1. ASSUME rows[d] # NoRow
      PROVE  rows[d].cred \in CredIDs /\ RowShown(rows[d], history'[rows[d].cred])
  <2>1. rows[d].cred \in CredIDs
    BY <1>1, FullRowIsRow DEF RowsInv, AnswersInv, HandlersInv, RowsTyped
  <2>2. RowShown(rows[d], history[rows[d].cred])
    BY <1>1 DEF RowsInv, PastShows, RowShown
  <2> QED
    BY <2>1, <2>2, HistoryStays DEF RowShown, RowsInv
<1>2. CASE rows'[d] = rows[d]
  BY <1>1, <1>2
<1>3. ASSUME NEW p \in Clients, Inserted(p), d = req[p].d
      PROVE  RowShown(rows'[d], history'[rows'[d].cred])
  <2> DEFINE tx == req[p].tx
             past == history'[tx.key]
  <2>1. rows'[d] = NewRow(tx) /\ tx.fn = "issueCredential"
    BY <1>3, RowInserted DEF IssueTx
  <2>2. PICK i \in DOMAIN past : Tells(tx, past[i].rec)
    BY <1>3, RowInserted, StaysShown
  <2> HIDE DEF tx, past
  <2>3. /\ past[i].rec.Status = "active" /\ past[i].rec.ExpiryDate = tx.expiry
        /\ past[i].rec.Signed = tx.signed
    BY <2>1, <2>2 DEF Tells, NewCredential
  <2>4. /\ rows'[d].cred = tx.key /\ rows'[d].status = "active" /\ rows'[d].expiry = tx.expiry
        /\ rows'[d].signed = tx.signed
    BY <2>1 DEF NewRow
  <2> QED
    BY <2>3, <2>4 DEF RowShown, past
<1>4. ASSUME NEW p \in Clients, MarkRow(p), d = req[p].d
      PROVE  RowShown(rows'[d], history'[rows'[d].cred])
  <2> DEFINE tx == req[p].tx
             past == history'[tx.key]
  <2>1. /\ rows'[d] = Marked(rows[d], tx) /\ tx \in UpdateTx \cup StatusTx
        /\ rows'[d].cred = tx.key /\ Owes(p)
    BY <1>4, RowMarked
  <2>2. rows[d] \in FullRows /\ rows[d].cred = tx.key
    BY <1>4, RowMarked DEF RowsInv, Placed
  <2>3. RowShown(rows[d], past)
    BY <1>1, <2>2, FullRowIsRow
  <2>4. PICK i \in DOMAIN past : Tells(tx, past[i].rec)
    BY <2>1, StaysShown
  <2> HIDE DEF tx, past
  <2>5. CASE tx.fn = "updateExpiry"
    <3>1. /\ rows'[d].expiry = tx.expiry /\ rows'[d].signed = tx.signed
          /\ rows'[d].status = rows[d].status
      BY <2>1, <2>2, <2>5 DEF Marked, FullRows
    <3>2. past[i].rec.ExpiryDate = tx.expiry /\ past[i].rec.Signed = tx.signed
      BY <2>4, <2>5 DEF Tells
    <3> QED
      BY <2>1, <2>3, <3>1, <3>2 DEF RowShown, past
  <2>6. CASE tx.fn # "updateExpiry"
    <3>1. /\ rows'[d].expiry = rows[d].expiry /\ rows'[d].signed = rows[d].signed
          /\ rows'[d].status = CachedStatus(tx.fn)
      BY <2>1, <2>2, <2>6 DEF Marked, FullRows
    <3>2. past[i].rec.Status = CachedStatus(tx.fn)
      BY <2>1, <2>4, <2>6 DEF Tells, UpdateTx, StatusTx
    <3> QED
      BY <2>1, <2>3, <3>1, <3>2 DEF RowShown, past
  <2> QED
    BY <2>5, <2>6
<1>5. \/ rows'[d] = rows[d]
      \/ \E p \in Clients : Inserted(p) /\ d = req[p].d
      \/ \E p \in Clients : MarkRow(p) /\ d = req[p].d
  BY RowInserted, RowMarked DEF Frame
<1> QED
  BY <1>2, <1>3, <1>4, <1>5

\* An alert names a row, and a status that was on chain.
AlertShown(a) ==
  /\ a \in DisplayIDs \X {"suspended", "revoked"} /\ rows[a[1]] # NoRow
  /\ \E i \in DOMAIN history[rows[a[1]].cred] :
       history[rows[a[1]].cred][i].rec.Status = a[2]

LEMMA AlertsStayShown ==
  ASSUME RowsInv, Frame, NEW a \in alerts' PROVE AlertShown(a)'
<1>1. ASSUME AlertShown(a) PROVE AlertShown(a)'
  <2>1. a[1] \in DisplayIDs /\ rows[a[1]].cred \in CredIDs
    BY <1>1, FullRowIsRow DEF AlertShown, RowsInv, AnswersInv, HandlersInv, RowsTyped
  <2>2. rows'[a[1]] # NoRow /\ rows'[a[1]].cred = rows[a[1]].cred
    BY <1>1, <2>1, RowsFollow DEF AlertShown, RowStays
  <2> QED
    BY <1>1, <2>1, <2>2, HistoryStays DEF AlertShown, RowsInv
<1>2. ASSUME NEW p \in Clients, RaiseAlert(p), a = <<req[p].d, CachedStatus(req[p].tx.fn)>>
      PROVE  AlertShown(a)
  <2>1. req[p].pc = "alert" /\ Placed(p)
    BY <1>2 DEF RaiseAlert, RowsInv
  <2>2. req[p].tx.fn \in {"revokeCredential", "suspendCredential"} /\ HasRow(p)
    BY <2>1 DEF Placed, HasRow
  <2>3. /\ req[p].d \in DisplayIDs /\ rows[req[p].d] \in FullRows
        /\ rows[req[p].d].cred = req[p].tx.key
    BY <2>1, <2>2 DEF Placed
  <2>4. Shown(req[p].tx)
    BY <2>1 DEF RowsInv, PastShows, Owes
  <2>5. a[1] = req[p].d /\ a[2] = CachedStatus(req[p].tx.fn)
    BY <1>2
  <2>6. a \in DisplayIDs \X {"suspended", "revoked"}
    BY <1>2, <2>2, <2>3 DEF CachedStatus
  <2>7. \E i \in DOMAIN history[req[p].tx.key] :
          history[req[p].tx.key][i].rec.Status = CachedStatus(req[p].tx.fn)
    BY <2>2, <2>4 DEF Shown, Tells
  <2> QED
    BY <2>3, <2>5, <2>6, <2>7, FullRowIsRow DEF AlertShown
<1>3. a \in alerts \/ \E p \in Clients :
        RaiseAlert(p) /\ a = <<req[p].d, CachedStatus(req[p].tx.fn)>>
  BY DEF Frame, RaiseAlert
<1>4. a \in alerts => AlertShown(a)
  BY DEF RowsInv, PastShows, AlertShown
<1> QED
  BY <1>1, <1>2, <1>3, <1>4

LEMMA PastShowsStep ==
  ASSUME RowsInv, Frame, \A q \in Clients : Turn(q)
  PROVE  PastShows'
<1>1. ASSUME NEW p \in Clients, Owes(p)'
      PROVE  \E i \in DOMAIN history'[req'[p].tx.key] :
               Tells(req'[p].tx, history'[req'[p].tx.key][i].rec)
  <2>1. CASE Owes(p) /\ req'[p].tx = req[p].tx
    BY <2>1, StaysShown
  <2>2. CASE Hears(p)
    BY <2>2, HeardOf, CommitShows DEF Hears
  <2> QED
    BY <1>1, <2>1, <2>2, OwesFollows
<1> QED
  BY <1>1, RowsStayShown, AlertsStayShown DEF PastShows, Shown, RowShown, AlertShown

-----------------------------------------------------------------------------
(* The accounts. *)

\* What is owed is paid by recording it, unless something goes wrong.
LEMMA DebtStays ==
  ASSUME RowsInv, Frame, NEW p \in Clients, Turn(p), Owes(p), req[p].tx.fn \in EventFns,
         ~mishap', ~RecordEvent(p)
  PROVE  Owes(p)' /\ req'[p].tx = req[p].tx
<1>1. CallFits(p)
  BY DEF RowsInv
<1>2. ~NotInserted(p)
  BY DEF Frame, RowsInv, Ahead, NotInserted
<1>3. req[p].tx.fn # "updateExpiry"
  BY DEF EventFns, StatusFns
<1> QED
  BY <1>1, <1>2, <1>3 DEF CallFits, Owes, Turn, SameRequest, AtRest, TakesUp, Sends, NotSent,
     Hears, LosesCall, Resets, GivesUp, Draws, Returns, Inserted, PassesMark, PassesAlert,
     Finishes, Proceeds, AfterMark

LEMMA DebtsStay ==
  ASSUME RowsInv, Frame, \A q \in Clients : Turn(q), \A q \in Clients : ~Hears(q),
         \A q \in Clients : ~RecordEvent(q),
         NEW c \in CredIDs, NEW fn \in EventFns
  PROVE  /\ Owing(c, fn)' \subseteq Owing(c, fn)
         /\ ~mishap' => Owing(c, fn)' = Owing(c, fn)
BY OwesFollows, DebtStays DEF Owing

\* The figures are numbers.
LEMMA Figures ==
  ASSUME RowsInv, NEW c \in CredIDs, NEW fn \in EventFns
  PROVE  /\ Owed(c, fn) \in Nat /\ Done(c, fn) \in Nat
         /\ \A d \in DisplayIDs : Noted(d, fn) \in Nat
         /\ \A d \in DisplayIDs : rows[d] = NoRow => Noted(d, fn) = 0
<1>1. Owed(c, fn) \in Nat
  BY FS_CardinalityType DEF RowsInv, Accounts, Balanced, Owed
<1>2. Done(c, fn) \in Nat
  <2>1. history[c] \in Seq(Events)
    BY DEF RowsInv, AnswersInv, HistoryCurrent
  <2>2. Fns(history[c]) \in Seq({tx.fn : tx \in Tx})
    BY <2>1, FnsCounted
  <2> QED
    BY <2>2, CountInSeq DEF Done
<1>3. \A d \in DisplayIDs : trail[d] \in Seq(EventFns)
  BY DEF RowsInv, Accounts
<1>4. \A d \in DisplayIDs : rows[d] = NoRow => trail[d] = <<>>
  BY DEF RowsInv, Accounts
<1> QED
  BY <1>1, <1>2, <1>3, <1>4, CountInSeq DEF Noted

LEMMA SmallerDebt ==
  ASSUME RowsInv, NEW c \in CredIDs, NEW fn \in EventFns,
         Owing(c, fn)' \subseteq Owing(c, fn)
  PROVE  /\ IsFiniteSet(Owing(c, fn)') /\ Owed(c, fn)' \in Nat
         /\ Owed(c, fn)' <= Owed(c, fn)
         /\ Owing(c, fn)' = Owing(c, fn) => Owed(c, fn)' = Owed(c, fn)
<1>1. IsFiniteSet(Owing(c, fn))
  BY DEF RowsInv, Accounts, Balanced
<1> QED
  BY <1>1, FS_Subset, FS_CardinalityType DEF Owed

\* Steps other than commits and recorded events.
LEMMA QuietAccounts ==
  ASSUME RowsInv, Frame, \A q \in Clients : Turn(q), \A q \in Clients : ~Hears(q),
         \A q \in Clients : ~RecordEvent(q), trail' = trail, history' = history,
         NEW c \in CredIDs, NEW fn \in EventFns
  PROVE  Balanced(c, fn)'
<1>1. /\ Balanced(c, fn)
      /\ mishap => mishap'
  BY DEF RowsInv, Accounts, Frame
<1>2. /\ IsFiniteSet(Owing(c, fn)') /\ Owed(c, fn)' \in Nat
      /\ Owed(c, fn)' <= Owed(c, fn)
      /\ ~mishap' => Owed(c, fn)' = Owed(c, fn)
  BY DebtsStay, SmallerDebt
<1>3. Done(c, fn)' = Done(c, fn) /\ \A d \in DisplayIDs : Noted(d, fn)' = Noted(d, fn)
  BY DEF Done, Noted
<1>4. /\ Owed(c, fn) \in Nat /\ Done(c, fn) \in Nat
      /\ \A d \in DisplayIDs : Noted(d, fn) \in Nat
      /\ \A d \in DisplayIDs : rows[d] = NoRow => Noted(d, fn) = 0
  BY Figures
<1>5. HasNoRow(c)' => HasNoRow(c)
  <2>1. ASSUME NEW d \in DisplayIDs, rows[d].cred = c PROVE rows'[d].cred = c
    <3>1. rows[d] # NoRow
      BY <2>1, GenesisAssumption DEF NoRow
    <3> QED
      BY <2>1, <3>1, RowsFollow DEF RowStays
  <2> QED
    BY <2>1 DEF HasNoRow
<1>6. ASSUME NEW d \in DisplayIDs, rows'[d].cred = c
      PROVE  rows[d].cred = c \/ (HasNoRow(c) /\ Noted(d, fn) = 0)
  <2>1. ASSUME NEW p \in Clients, Inserted(p), d = req[p].d
        PROVE  HasNoRow(c) /\ Noted(d, fn) = 0
    <3>1. Minting(p) /\ rows[d] = NoRow /\ req[p].tx.key = c
      BY <1>6, <2>1, RowInserted
    <3> QED
      BY <1>4, <3>1 DEF RowsInv, Minted, HasNoRow
  <2> QED
    BY <1>6, <2>1, RowsFollow
<1> HIDE DEF Owed, Done, Noted, Owing, HasNoRow
<1>7. HasNoRow(c)' => /\ Owed(c, fn)' <= Done(c, fn)'
                      /\ ~mishap' => Owed(c, fn)' = Done(c, fn)'
  BY <1>1, <1>2, <1>3, <1>4, <1>5 DEF Balanced
<1>8. ASSUME NEW d \in DisplayIDs, rows'[d].cred = c
      PROVE  /\ Noted(d, fn)' + Owed(c, fn)' <= Done(c, fn)'
             /\ ~mishap' => Noted(d, fn)' + Owed(c, fn)' = Done(c, fn)'
  <2>1. /\ Noted(d, fn) + Owed(c, fn) <= Done(c, fn)
        /\ ~mishap => Noted(d, fn) + Owed(c, fn) = Done(c, fn)
    <3>1. CASE rows[d].cred = c
      BY <1>1, <3>1 DEF Balanced
    <3>2. CASE HasNoRow(c) /\ Noted(d, fn) = 0
      BY <1>1, <1>4, <3>2 DEF Balanced
    <3> QED
      BY <1>6, <1>8, <3>1, <3>2
  <2>2. Noted(d, fn)' = Noted(d, fn)
    BY <1>3
  <2> QED
    BY <1>1, <1>2, <1>3, <1>4, <2>1, <2>2
<1> QED
  BY <1>2, <1>7, <1>8 DEF Balanced

\* A recorded event turns what is owed into what is noted.
LEMMA RecordAccounts ==
  ASSUME RowsInv, NEW p \in Clients, RecordEvent(p),
         NEW c \in CredIDs, NEW fn \in EventFns
  PROVE  Balanced(c, fn)' /\ trail' \in [DisplayIDs -> Seq(EventFns)]
         /\ \A d \in DisplayIDs : rows'[d] = NoRow => trail'[d] = <<>>
<1> DEFINE f == req[p].tx.fn
           k == req[p].tx.key
<1>1. /\ req[p].pc = "event" /\ rows' = rows /\ history' = history /\ mishap' = mishap
      /\ trail' = [trail EXCEPT ![req[p].d] = Append(trail[req[p].d], f)]
  BY DEF RecordEvent, ghosts
<1>2. PICK row \in DisplayIDs :
        row = req[p].d /\ rows[row] \in FullRows /\ rows[row].cred = k /\ f \in EventFns
  BY <1>1 DEF RowsInv, Placed, HasRow
<1>3. HandlersInv /\ Accounts /\ Minted
  BY DEF RowsInv, AnswersInv
<1>4. req'[p].pc = "done" /\ \A q \in Clients \ {p} : SameRequest(q)
  BY <1>3, StatementTurn DEF OneTurn, Alone, Proceeds
<1>5. Owing(c, fn)' = Owing(c, fn) \ {p} /\ (p \in Owing(c, fn) <=> c = k /\ fn = f)
  BY <1>1, <1>4 DEF Owing, Owes, SameRequest
<1>6. /\ trail[row] \in Seq(EventFns) /\ trail'[row] = Append(trail[row], f)
      /\ \A d \in DisplayIDs \ {row} : trail'[d] = trail[d]
      /\ trail' \in [DisplayIDs -> Seq(EventFns)]
  <2>1. trail[row] \in Seq(EventFns) /\ trail \in [DisplayIDs -> Seq(EventFns)]
    BY <1>2, <1>3 DEF Accounts
  <2>2. Append(trail[row], f) \in Seq(EventFns)
    BY <1>2, <2>1, AppendProperties
  <2> QED
    BY <1>1, <1>2, <2>1, <2>2
<1> HIDE DEF f, k
<1>7. Noted(row, fn)' = IF fn = f THEN Noted(row, fn) + 1 ELSE Noted(row, fn)
  BY <1>2, <1>6, CountAppend DEF Noted
<1>8. /\ \A d \in DisplayIDs \ {row} : Noted(d, fn)' = Noted(d, fn)
      /\ Done(c, fn)' = Done(c, fn)
  BY <1>1, <1>6 DEF Noted, Done
<1>9. /\ IsFiniteSet(Owing(c, fn)')
      /\ Owed(c, fn)' = IF c = k /\ fn = f THEN Owed(c, fn) - 1 ELSE Owed(c, fn)
  <2>1. IsFiniteSet(Owing(c, fn))
    BY <1>3 DEF Accounts, Balanced
  <2> QED
    BY <1>5, <2>1, FS_RemoveElement DEF Owed
<1>10. /\ Balanced(c, fn) /\ Owed(c, fn) \in Nat /\ Done(c, fn) \in Nat
       /\ \A d \in DisplayIDs : Noted(d, fn) \in Nat
  BY <1>3, Figures DEF Accounts
<1>11. \A d \in DisplayIDs : rows'[d] = NoRow => trail'[d] = <<>>
  BY <1>1, <1>2, <1>3, <1>6, FullRowIsRow DEF Accounts
<1> HIDE DEF Owed, Done, Noted, Owing, HasNoRow
<1>12. CASE c = k /\ fn = f
  <2>1. ~HasNoRow(c)'
    BY <1>1, <1>2, <1>12 DEF HasNoRow
  <2>2. \A d \in DisplayIDs : rows[d].cred = c => d = row
    BY <1>2, <1>3, <1>12, FullRowIsRow DEF Minted
  <2>3. /\ Noted(row, fn)' + Owed(c, fn)' <= Done(c, fn)'
        /\ ~mishap' => Noted(row, fn)' + Owed(c, fn)' = Done(c, fn)'
    BY <1>1, <1>2, <1>7, <1>8, <1>9, <1>10, <1>12 DEF Balanced
  <2>4. Balanced(c, fn)'
    BY <1>1, <1>9, <2>1, <2>2, <2>3 DEF Balanced
  <2> QED
    BY <2>4, <1>6, <1>11
<1>13. CASE ~(c = k /\ fn = f)
  <2>1. HasNoRow(c)' = HasNoRow(c) /\ Owed(c, fn)' = Owed(c, fn)
    BY <1>1, <1>9, <1>13 DEF HasNoRow
  <2>2. \A d \in DisplayIDs : rows[d].cred = c => Noted(d, fn)' = Noted(d, fn)
    BY <1>2, <1>7, <1>8, <1>13
  <2>3. Balanced(c, fn)'
    BY <1>1, <1>8, <1>9, <1>10, <2>1, <2>2 DEF Balanced
  <2> QED
    BY <2>3, <1>6, <1>11
<1> QED
  BY <1>12, <1>13

\* A commit adds one transaction to the history of its credential.
LEMMA CommitAppends ==
  ASSUME AnswersInv, NEW e \in mempool, NetworkCommits(e), NEW c \in CredIDs, NEW fn
  PROVE  Done(c, fn)' = IF c = e.tx.key /\ fn = e.tx.fn THEN Done(c, fn) + 1 ELSE Done(c, fn)
<1> DEFINE k == e.tx.key
           h == [fn |-> e.tx.fn, rec |-> e.write]
<1>1. history' = [history EXCEPT ![k] = Append(history[k], h)]
  BY DEF NetworkCommits
<1>2. h \in Events /\ h.fn = e.tx.fn
  <2>1. e.tx \in Tx /\ Accepts(world, e.tx) /\ e.write = Written(world, e.tx) /\ TypeOK
    BY DEF NetworkCommits, Commit, AnswersInv, HandlersInv, LedgerInv, LedgerTypeOK,
           EndorsementStillHolds
  <2>2. e.write \in Records
    BY <2>1, WrittenType DEF Records, Keys
  <2> QED
    BY <2>1, <2>2 DEF Events
<1>3. history[c] \in Seq(Events) /\ DOMAIN history = CredIDs
  BY DEF AnswersInv, HistoryCurrent
<1> HIDE DEF k, h
<1>4. CASE c = k
  <2>1. history'[c] = Append(history[c], h)
    BY <1>1, <1>3, <1>4
  <2>2. Fns(Append(history[c], h)) = Append(Fns(history[c]), h.fn)
    BY <1>2, <1>3, FnsCounted
  <2>3. Fns(history[c]) \in Seq({tx.fn : tx \in Tx}) /\ h.fn \in {tx.fn : tx \in Tx}
    BY <1>2, <1>3, FnsCounted DEF Events
  <2>4. Done(c, fn)' = Count(Append(Fns(history[c]), h.fn), fn)
    BY <2>1, <2>2 DEF Done
  <2>5. Done(c, fn)' = IF h.fn = fn THEN Done(c, fn) + 1 ELSE Done(c, fn)
    BY <2>3, <2>4, CountAppend DEF Done
  <2> QED
    BY <1>2, <1>4, <2>5 DEF k
<1>5. CASE c # k
  BY <1>1, <1>3, <1>5 DEF Done, k
<1> QED
  BY <1>4, <1>5

LEMMA CommitAccounts ==
  ASSUME RowsInv, NEW e \in mempool, NetworkCommits(e),
         NEW c \in CredIDs, NEW fn \in EventFns
  PROVE  Balanced(c, fn)'
<1> DEFINE hearers == {q \in Clients : call[q].st = "waiting" /\ call[q].id = e.id}
<1>1. /\ req' = req /\ rows' = rows /\ trail' = trail /\ mishap' = mishap
      /\ \A q \in Clients : call'[q] = IF q \in hearers
                                       THEN [call[q] EXCEPT !.st = "committed"]
                                       ELSE call[q]
  BY DEF NetworkCommits, Commit, Tell, dbVars
<1>2. \A q \in hearers : req[q].tx = e.tx /\ req[q].pc = "wait"
  BY HeardOf
<1>3. \A q \in Clients : Owes(q)' <=> Owes(q) \/ q \in hearers
  BY <1>1, <1>2, CallsTyped DEF Owes, RowsInv, AnswersInv
<1>4. \A q \in hearers : ~Owes(q)
  BY <1>2 DEF Owes
<1>5. \A p, q \in hearers : p = q
  BY DEF RowsInv, CallFits
<1>6. ~mishap => hearers # {}
  BY DEF RowsInv, Traced
<1>7. Done(c, fn)' = IF c = e.tx.key /\ fn = e.tx.fn THEN Done(c, fn) + 1 ELSE Done(c, fn)
  BY CommitAppends DEF RowsInv
<1>8. /\ Balanced(c, fn) /\ Owed(c, fn) \in Nat /\ Done(c, fn) \in Nat
      /\ \A d \in DisplayIDs : Noted(d, fn) \in Nat
  BY Figures DEF RowsInv, Accounts
<1>9. \A d \in DisplayIDs : Noted(d, fn)' = Noted(d, fn)
  BY <1>1 DEF Noted
<1>10. HasNoRow(c)' = HasNoRow(c)
  BY <1>1 DEF HasNoRow
<1>11. Owing(c, fn)' = IF c = e.tx.key /\ fn = e.tx.fn
                       THEN Owing(c, fn) \cup hearers ELSE Owing(c, fn)
  BY <1>1, <1>2, <1>3 DEF Owing
<1>12. IsFiniteSet(Owing(c, fn)) /\ hearers \cap Owing(c, fn) = {}
  BY <1>4, <1>8 DEF Balanced, Owing
<1> HIDE DEF hearers
<1>13. CASE c = e.tx.key /\ fn = e.tx.fn
  <2>1. CASE hearers = {}
    <3>1. Owing(c, fn)' = Owing(c, fn) /\ Owed(c, fn)' = Owed(c, fn)
      BY <1>11, <1>13, <2>1 DEF Owed
    <3> HIDE DEF Owed, Done, Noted, Owing, HasNoRow
    <3>2. mishap /\ mishap'
      BY <1>1, <1>6, <2>1
    <3> QED
      BY <1>1, <1>7, <1>8, <1>9, <1>10, <1>12, <1>13, <3>1, <3>2 DEF Balanced
  <2>2. CASE hearers # {}
    <3>1. PICK q : hearers = {q}
      BY <1>5, <2>2
    <3>2. /\ IsFiniteSet(Owing(c, fn)')
          /\ Owed(c, fn)' = Owed(c, fn) + 1
      BY <1>11, <1>12, <1>13, <3>1, OneMore DEF Owed
    <3> HIDE DEF Owed, Done, Noted, Owing, HasNoRow
    <3> QED
      BY <1>1, <1>7, <1>8, <1>9, <1>10, <1>13, <3>2 DEF Balanced
  <2> QED
    BY <2>1, <2>2
<1>14. CASE ~(c = e.tx.key /\ fn = e.tx.fn)
  <2>1. Owing(c, fn)' = Owing(c, fn) /\ Owed(c, fn)' = Owed(c, fn)
    BY <1>11, <1>14 DEF Owed
  <2> HIDE DEF Owed, Done, Noted, Owing, HasNoRow
  <2> QED
    BY <1>1, <1>7, <1>8, <1>9, <1>10, <1>12, <1>14, <2>1 DEF Balanced
<1> QED
  BY <1>13, <1>14

LEMMA AccountsStep ==
  ASSUME RowsInv, CredentialNext, Frame, \A q \in Clients : Turn(q)
  PROVE  Accounts'
<1>1. Accounts /\ RowsTyped
  BY DEF RowsInv, AnswersInv, HandlersInv
<1>2. CASE \E p \in Clients : RecordEvent(p)
  BY <1>2, RecordAccounts, FirstAssumption DEF Accounts, EventFns
<1>3. ASSUME NEW e \in mempool, NetworkCommits(e) PROVE Accounts'
  <2>1. rows' = rows /\ trail' = trail
    BY <1>3 DEF NetworkCommits, dbVars
  <2> QED
    BY <1>1, <1>3, <2>1, CommitAccounts DEF Accounts
<1>4. CASE ~(\E p \in Clients : RecordEvent(p)) /\ ~(\E e \in mempool : NetworkCommits(e))
  <2>1. trail' = trail /\ history' = history /\ \A q \in Clients : ~Hears(q)
    BY <1>4 DEF Frame, Hears
  <2>2. \A d \in DisplayIDs : rows'[d] = NoRow => rows[d] = NoRow
    BY RowsFollow DEF RowStays
  <2>3. \A c \in CredIDs, fn \in EventFns : Balanced(c, fn)'
    BY <1>4, <2>1, QuietAccounts
  <2> QED
    BY <1>1, <2>1, <2>2, <2>3 DEF Accounts
<1> QED
  BY <1>2, <1>3, <1>4

\* Whoever waits for a transaction keeps waiting until it is out of the
\* mempool, or a fault is on record.
LEMMA StillWaiting ==
  ASSUME RowsInv, NEW p \in Clients, Turn(p), call[p].st = "waiting", ~mishap',
         NEW e \in mempool, e \in mempool', call[p].id = e.id
  PROVE  call'[p].st = "waiting" /\ call'[p].id = e.id
<1>1. CallFits(p) /\ req[p].pc = "wait"
  BY DEF RowsInv, CallFits
<1>2. \A f \in mempool : f.id = e.id => f = e
  BY DEF RowsInv, AnswersInv, HandlersInv, LedgerInv, UniqueTransactions
<1>3. \A f \in mempool : NetworkCommits(f) \/ NetworkDiscards(f) => f \notin mempool'
  BY DEF NetworkCommits, NetworkDiscards, Commit, Discard
<1>4. ~Hears(p) /\ ~LosesCall(p)
  BY <1>2, <1>3 DEF Hears, LosesCall
<1> QED
  BY <1>1, <1>4 DEF Turn, SameRequest, AtRest, TakesUp, Sends, NotSent, Resets, GivesUp, Draws,
     Returns, Inserted, NotInserted, PassesMark, PassesAlert, Finishes, Proceeds

LEMMA TracedStep ==
  ASSUME RowsInv, Frame, \A q \in Clients : Turn(q)
  PROVE  Traced'
<1>1. Traced
  BY DEF RowsInv
<1>2. ASSUME NEW c \in CredIDs, history'[c] # <<>> PROVE Done(c, "issueCredential")' >= 1
  <2>1. Done(c, "issueCredential") \in Nat
    BY Figures DEF EventFns
  <2>2. CASE history' = history
    BY <1>1, <1>2, <2>2 DEF Traced, Done
  <2>3. ASSUME NEW e \in mempool, NetworkCommits(e)
        PROVE  Done(c, "issueCredential")' >= 1
    <3>1. Done(c, "issueCredential")' =
            IF c = e.tx.key /\ "issueCredential" = e.tx.fn
            THEN Done(c, "issueCredential") + 1 ELSE Done(c, "issueCredential")
      BY <2>3, CommitAppends DEF RowsInv
    <3>2. CASE history[c] # <<>>
      BY <1>1, <2>1, <3>1, <3>2 DEF Traced
    <3>3. CASE history[c] = <<>>
      <4>1. c = e.tx.key
        BY <1>2, <2>3, <3>3, HistoryGrows DEF RowsInv, AnswersInv
      <4>2. e.tx \in Tx /\ Accepts(world, e.tx)
        BY <2>3 DEF NetworkCommits, Commit, RowsInv, AnswersInv, HandlersInv, LedgerInv,
                    LedgerTypeOK, EndorsementStillHolds
      <4>3. ~IsCredential(world, c)
        <5>1. DOMAIN history[c] = {}
          BY <3>3
        <5> QED
          BY <5>1 DEF RowsInv, AnswersInv, HistoryCurrent
      <4>4. e.tx.fn = "issueCredential"
        BY <4>1, <4>2, <4>3, KeySpacesAssumption
           DEF Tx, HolderTx, IssueTx, UpdateTx, StatusTx, Accepts, Updatable, Revocable,
               Suspendable, Restorable
      <4> QED
        BY <2>1, <3>1, <4>1, <4>4
    <3> QED
      BY <3>2, <3>3
  <2> QED
    BY <2>2, <2>3 DEF Frame
<1>3. ASSUME ~mishap', NEW e \in mempool'
      PROVE  \E p \in Clients : call'[p].st = "waiting" /\ call'[p].id = e.id
  <2>1. CASE e \in mempool
    <3>1. PICK p \in Clients : call[p].st = "waiting" /\ call[p].id = e.id
      BY <1>1, <1>3, <2>1 DEF Traced, Frame
    <3> QED
      BY <1>3, <2>1, <3>1, StillWaiting
  <2>2. CASE e \notin mempool
    <3>1. PICK p \in Clients : Sends(p)
      BY <1>3, <2>2 DEF Frame
    <3> QED
      BY <1>3, <2>2, <3>1 DEF Sends
  <2> QED
    BY <2>1, <2>2
<1> QED
  BY <1>2, <1>3 DEF Traced

-----------------------------------------------------------------------------
(* Display identifiers: there are enough, and none is drawn twice. *)

\* Which steps change the counter, the day and the requests to come.
Supplies ==
  /\ counter' = counter \/ Restarted \/ \E p \in Clients : Draws(p)
  /\ today' = today \/ Tick
  /\ \/ left' = left /\ Issuing' \subseteq Issuing
     \/ /\ left > 0 /\ left' = left - 1 /\ counter' = counter
        /\ \E p \in Clients \ Issuing : Issuing' \subseteq Issuing \cup {p}

\* Only a request that is taken up adds to the issues in progress.
LEMMA OneMoreIssue ==
  ASSUME NEW p \in Clients, OneTurn(p)
  PROVE  /\ Issuing' \subseteq Issuing \cup {p}
         /\ ~AtRest(p) => Issuing' \subseteq Issuing
  BY DEF Issuing, OneTurn, Alone, Turn, SameRequest, AtRest, TakesUp, Sends, NotSent, Hears,
     LosesCall, Resets, GivesUp, Draws, Returns, Inserted, NotInserted, PassesMark,
     PassesAlert, Finishes, Proceeds, AfterMark

LEMMA SuppliesFrame ==
  ASSUME HandlersInv, CredentialNext PROVE Supplies
<1> USE DEF dbVars
<1>1. ASSUME NEW p \in Clients, NEW r, Accept(p, r), OneTurn(p) PROVE Supplies
  BY <1>1, OneMoreIssue DEF Accept, Supplies, AtRest, Issuing
<1>2. ASSUME NEW p \in Clients, OneTurn(p), HandlerStep(p) PROVE Supplies
  <2>1. ~AtRest(p) /\ left' = left /\ today' = today
    BY <1>2 DEF HandlerStep, AtRest, Submit, SubmitRefused, SubmitUnreachable, SubmitSucceeds,
       SubmitFails, InsertRow, InsertRowFails, MarkRow, MarkRowFails, RaiseAlert,
       RaiseAlertFails, RecordEvent, RecordEventFails, UpdateEmail, UpdateEmailFails
  <2>2. counter' = counter \/ SubmitSucceeds(p)
    BY <1>2 DEF HandlerStep, Submit, SubmitRefused, SubmitUnreachable,
       SubmitFails, InsertRow, InsertRowFails, MarkRow, MarkRowFails, RaiseAlert,
       RaiseAlertFails, RecordEvent, RecordEventFails, UpdateEmail, UpdateEmailFails
  <2>3. SubmitSucceeds(p) => Draws(p) \/ counter' = counter
    BY ReturnTurn
  <2> QED
    BY <1>2, <2>1, <2>2, <2>3, OneMoreIssue DEF Supplies
<1>3. CASE \E e \in mempool : NetworkCommits(e) \/ NetworkDiscards(e)
  BY <1>3 DEF NetworkCommits, NetworkDiscards, Supplies, Issuing
<1>4. CASE \E p \in Clients : CallTimesOut(p)
  BY <1>4 DEF CallTimesOut, Supplies, Issuing
<1>5. CASE Tick
  BY <1>5 DEF Tick, Supplies, Issuing
<1>6. CASE Restarted
  BY <1>6 DEF Restarted, BackendRestarts, BackendRestartsUnseeded, Restart, NoReq, Supplies, Issuing
<1>7. ASSUME NEW p \in Clients, HandlerStep(p) PROVE OneTurn(p)
  BY <1>7, SubmitTurn, NotSentTurn, ReturnTurn, StatementTurn DEF HandlerStep
<1>8. CASE \/ \E p \in Clients, h \in HolderIDs, b \in Bodies, e \in Expiries :
                ReadForIssue(p, h, b, e)
           \/ \E p \in Clients, d \in DisplayIDs, fn \in StatusFns : ReadForStatus(p, d, fn)
           \/ \E p \in Clients, d \in DisplayIDs, e \in Expiries : ReadForUpdate(p, d, e)
           \/ \E p \in Clients : ReadFails(p)
  <2>1. PICK p \in Clients :
          \/ \E h \in HolderIDs, b \in Bodies, e \in Expiries : ReadForIssue(p, h, b, e)
          \/ \E d \in DisplayIDs, fn \in StatusFns : ReadForStatus(p, d, fn)
          \/ \E d \in DisplayIDs, e \in Expiries : ReadForUpdate(p, d, e)
          \/ ReadFails(p)
    BY <1>8
  <2>2. OneTurn(p)
    BY <2>1, ReadTurn
  <2>3. \E r : Accept(p, r)
    BY <2>1 DEF ReadForIssue, ReadForStatus, ReadForUpdate, ReadFails
  <2> QED
    BY <1>1, <2>2, <2>3
<1> QED
  BY <1>2, <1>3, <1>4, <1>5, <1>6, <1>7, <1>8 DEF Restarted, CredentialNext

LEMMA LoadShrinks ==
  ASSUME RowsInv, Supplies
  PROVE  /\ left' \in Nat /\ IsFiniteSet(Issuing)' /\ Load \in Nat /\ Load' \in Nat
         /\ Load' <= Load
         /\ \A p \in Clients : Draws(p) => Load' + 1 <= Load
<1>1. /\ left \in Nat /\ IsFiniteSet(Issuing) /\ Cardinality(Issuing) \in Nat
  BY FS_CardinalityType DEF RowsInv, Drawn
<1>2. CASE left' = left /\ Issuing' \subseteq Issuing
  <2>1. /\ IsFiniteSet(Issuing') /\ Cardinality(Issuing') \in Nat
        /\ Cardinality(Issuing') <= Cardinality(Issuing)
    BY <1>1, <1>2, FS_Subset, FS_CardinalityType
  <2>2. ASSUME NEW p \in Clients, Draws(p)
        PROVE  Cardinality(Issuing') <= Cardinality(Issuing) - 1
    <3>1. p \in Issuing /\ Issuing' \subseteq Issuing \ {p}
      BY <1>2, <2>2 DEF Draws, Issuing
    <3>2. IsFiniteSet(Issuing \ {p}) /\ Cardinality(Issuing \ {p}) = Cardinality(Issuing) - 1
      BY <1>1, <3>1, FS_RemoveElement
    <3> QED
      BY <3>1, <3>2, FS_Subset
  <2> HIDE DEF Issuing
  <2> QED
    BY <1>1, <1>2, <2>1, <2>2 DEF Load
<1>3. ASSUME left > 0, left' = left - 1, counter' = counter,
             NEW p \in Clients \ Issuing, Issuing' \subseteq Issuing \cup {p}
      PROVE  /\ left' \in Nat /\ IsFiniteSet(Issuing)' /\ Load \in Nat /\ Load' \in Nat
             /\ Load' <= Load
             /\ \A q \in Clients : ~Draws(q)
  <2>1. /\ IsFiniteSet(Issuing \cup {p})
        /\ Cardinality(Issuing \cup {p}) = Cardinality(Issuing) + 1
    BY <1>1, <1>3, OneMore
  <2>2. /\ IsFiniteSet(Issuing') /\ Cardinality(Issuing') \in Nat
        /\ Cardinality(Issuing') <= Cardinality(Issuing) + 1
    BY <1>3, <2>1, FS_Subset, FS_CardinalityType
  <2>3. \A q \in Clients : ~Draws(q)
    BY <1>1, <1>3 DEF Draws
  <2> HIDE DEF Issuing
  <2> QED
    BY <1>1, <1>3, <2>2, <2>3 DEF Load
<1> QED
  BY <1>2, <1>3 DEF Supplies

LEMMA SeedIsLargest ==
  ASSUME RowsInv
  PROVE  LET n == Max({d \in DisplayIDs : rows[d] # NoRow})
         IN  /\ n \in DisplayIDs /\ rows[n] # NoRow
             /\ \A d \in DisplayIDs : rows[d] # NoRow => n >= d
BY DEF RowsInv, Drawn, Max

\* A request at its insert has drawn its display identifier just now or before.
LEMMA InsertFollows ==
  ASSUME RowsInv, NEW p \in Clients, Turn(p), req'[p].pc = "insert"
  PROVE  (req[p].pc = "insert" /\ req'[p].d = req[p].d) \/ Draws(p)
BY DEF Turn, SameRequest, TakesUp, Sends, NotSent, Hears, RowsInv, CallFits, LosesCall, Resets,
       GivesUp, Returns, Inserted, NotInserted, PassesMark, PassesAlert, Finishes, Proceeds,
       AfterMark

LEMMA Spare ==
  /\ \A c, l, m, n \in Nat :
       c + l <= m + 1 /\ n + 1 <= l => c + 1 \in 1 .. (m + 1) /\ c + 1 + n <= m + 1
  /\ \A c, l, m, n \in Nat : c + l <= m + 1 /\ n <= l => 0 \in Nat /\ 0 + n <= m + 1
OBVIOUS

LEMMA RoomForDraw ==
  ASSUME RowsInv, Supplies, NEW p \in Clients, Draws(p)
  PROVE  counter + 1 \in DisplayIDs /\ counter + 1 + Load' <= MaxRequests + 1
<1>1. counter \in Nat /\ counter + Load <= MaxRequests + 1 /\ MaxRequests \in Nat
  BY RequestsAssumption DEF RowsInv, Drawn, Room
<1>2. Load \in Nat /\ Load' \in Nat /\ Load' + 1 <= Load
  BY LoadShrinks
<1> QED
  BY <1>1, <1>2, Spare, Zenon DEF DisplayIDs

LEMMA DrawnStep ==
  ASSUME RowsInv, Frame, Supplies, \A q \in Clients : Turn(q)
  PROVE  Drawn'
<1> DEFINE top == MaxRequests + 1
<1>1. Drawn /\ top \in Nat /\ DisplayIDs = 1 .. top
  BY RequestsAssumption DEF RowsInv, DisplayIDs
<1>2. /\ left' \in Nat /\ IsFiniteSet(Issuing)' /\ Load \in Nat /\ Load' \in Nat
      /\ Load' <= Load
      /\ \A p \in Clients : Draws(p) => Load' + 1 <= Load
  BY LoadShrinks
<1>3. \A n \in Nat : Room(n) => n + Load' <= top
  <2> HIDE DEF Load
  <2> QED
    BY <1>1, <1>2 DEF Room
<1>4. ASSUME NEW p \in Clients, Draws(p)
      PROVE  counter + 1 \in DisplayIDs /\ counter + 1 + Load' <= top
  BY <1>4, RoomForDraw
<1>5. counter' \in Nat /\ counter' + Load' <= top
  <2>1. CASE counter' = counter
    BY <1>1, <1>3, <2>1 DEF Drawn
  <2>2. CASE \E p \in Clients : Draws(p)
    BY <1>1, <1>4, <2>2 DEF Draws, Drawn
  <2>3. CASE Restarted
    <3>1. counter' = Max({d \in DisplayIDs : rows[d] # NoRow}) \/ counter' = 0
      BY <2>3 DEF Restarted, BackendRestarts, BackendRestartsUnseeded, Restart
    <3>2. Room(Max({d \in DisplayIDs : rows[d] # NoRow}))
          /\ Max({d \in DisplayIDs : rows[d] # NoRow}) \in Nat
      BY <1>1, SeedIsLargest DEF Drawn
    <3>3. counter \in Nat /\ counter + Load <= top
      BY <1>1 DEF Drawn, Room
    <3>4. CASE counter' = 0
      <4>1. Load \in Nat /\ Load' \in Nat /\ Load' <= Load /\ MaxRequests \in Nat
        BY <1>2, RequestsAssumption
      <4> QED
        BY <3>3, <3>4, <4>1, Spare, Zenon
    <3> QED
      BY <1>3, <3>1, <3>2, <3>4
  <2> QED
    BY <2>1, <2>2, <2>3 DEF Supplies
<1>6. today' \in 1 .. MaxDay
  BY <1>1, DaysAssumption DEF Supplies, Tick, Drawn
<1>7. ASSUME NEW d \in DisplayIDs, rows'[d] # NoRow PROVE d + Load' <= top
  <2>1. Room(d)
    <3>1. rows[d] # NoRow => Room(d)
      BY <1>1 DEF Drawn
    <3>2. \A p \in Clients : Inserted(p) => Room(req[p].d)
      BY <1>1 DEF Drawn, Inserted, Proceeds
    <3> QED
      BY <1>7, <3>1, <3>2, RowsFollow
  <2> QED
    BY <1>1, <1>3, <2>1
<1>8. \E d \in DisplayIDs :
        rows'[d] # NoRow /\ \A e \in DisplayIDs : rows'[e] # NoRow => d >= e
  <2>1. PICK d \in DisplayIDs :
          rows[d] # NoRow /\ \A e \in DisplayIDs : rows[e] # NoRow => d >= e
    BY <1>1 DEF Drawn
  <2>2. rows'[d] # NoRow
    BY <2>1, RowsFollow DEF RowStays
  <2>3. ASSUME NEW p \in Clients, Inserted(p)
        PROVE  \E m \in DisplayIDs :
                 rows'[m] # NoRow /\ \A e \in DisplayIDs : rows'[e] # NoRow => m >= e
    <3>1. PICK n \in DisplayIDs :
            n = req[p].d /\ rows'[n] # NoRow /\ \A e \in DisplayIDs \ {n} : rows'[e] = rows[e]
      BY <2>3, RowInserted, FullRowIsRow
    <3>2. CASE n >= d
      <4>1. \A e \in DisplayIDs : rows'[e] # NoRow => n >= e
        BY <1>1, <2>1, <3>1, <3>2
      <4> QED
        BY <3>1, <4>1
    <3>3. CASE d >= n
      <4>1. \A e \in DisplayIDs : rows'[e] # NoRow => d >= e
        BY <2>1, <3>1, <3>3
      <4> QED
        BY <2>2, <4>1
    <3> QED
      BY <1>1, <3>2, <3>3
  <2>4. CASE \A p \in Clients : ~Inserted(p)
    BY <2>1, <2>2, <2>4, RowsFollow
  <2> QED
    BY <2>3, <2>4
<1>9. ASSUME NEW p \in Clients, req'[p].pc = "insert"
      PROVE  req'[p].d \in DisplayIDs /\ req'[p].d + Load' <= top
  <2>1. CASE req[p].pc = "insert" /\ req'[p].d = req[p].d
    BY <1>1, <1>3, <2>1 DEF Drawn
  <2>2. CASE Draws(p)
    BY <1>4, <2>2 DEF Draws
  <2> QED
    BY <1>9, <2>1, <2>2, InsertFollows
<1> HIDE DEF Load
<1> QED
  BY <1>2, <1>5, <1>6, <1>7, <1>8, <1>9 DEF Drawn, Room

LEMMA AheadStep ==
  ASSUME RowsInv, Frame, Supplies, \A q \in Clients : Turn(q)
  PROVE  Ahead'
<1>1. /\ misseeded => mishap
      /\ ~misseeded => \A d \in DisplayIDs : rows[d] # NoRow => d <= counter
      /\ \A p \in Clients : req[p].pc = "insert" =>
           /\ req[p].d <= counter
           /\ ~misseeded => rows[req[p].d] = NoRow
           /\ \A q \in Clients : req[q].pc = "insert" /\ req[q].d = req[p].d => q = p
  BY DEF RowsInv, Ahead
<1>2. /\ counter \in Nat
      /\ \A p \in Clients : req[p].pc = "insert" => req[p].d \in DisplayIDs
      /\ DisplayIDs \subseteq Nat
  BY DEF RowsInv, Drawn, DisplayIDs
<1>3. CASE Restarted
  <2>1. /\ rows' = rows /\ mishap'
        /\ \/ counter' = Max({d \in DisplayIDs : rows[d] # NoRow})
           \/ misseeded'
    BY <1>3 DEF Restarted, BackendRestarts, BackendRestartsUnseeded, Restart
  <2>2. \A p \in Clients : req'[p].pc # "insert"
    BY <1>3 DEF Restarted, BackendRestarts, BackendRestartsUnseeded, Restart, NoReq
  <2>3. ~misseeded' => \A d \in DisplayIDs : rows[d] # NoRow => d <= counter'
    BY <1>2, <2>1, SeedIsLargest
  <2> QED
    BY <2>1, <2>2, <2>3 DEF Ahead
<1>4. ASSUME ~Restarted PROVE misseeded' = misseeded /\ (misseeded' => mishap')
  BY <1>1, <1>4 DEF Frame
<1>5. ASSUME NEW p \in Clients, Draws(p), ~Restarted PROVE Ahead'
  <2>1. /\ rows' = rows /\ counter' = counter + 1 /\ req'[p].d = counter + 1
        /\ \A q \in Clients \ {p} : req'[q] = req[q]
    BY <1>5 DEF Draws, Alone, SameRequest
  <2>2. ~misseeded => \A d \in DisplayIDs : rows'[d] # NoRow => d <= counter'
    BY <1>1, <1>2, <2>1
  <2>3. ~misseeded => rows[counter + 1] = NoRow
    <3>1. counter + 1 \in DisplayIDs
      BY <1>5, RoomForDraw
    <3> QED
      BY <1>1, <1>2, <3>1
  <2>4. \A q \in Clients \ {p} : req'[q].pc = "insert" =>
          /\ req'[q].d \in Nat /\ req'[q].d <= counter
          /\ ~misseeded => rows'[req'[q].d] = NoRow
    BY <1>1, <1>2, <2>1
  <2>5. \A q \in Clients \ {p} : req'[q].pc = "insert" => req'[q].d # req'[p].d
    BY <1>2, <2>1, <2>4
  <2>6. ASSUME NEW r \in Clients, req'[r].pc = "insert"
        PROVE  /\ req'[r].d <= counter'
               /\ ~misseeded => rows'[req'[r].d] = NoRow
               /\ \A q \in Clients :
                    req'[q].pc = "insert" /\ req'[q].d = req'[r].d => q = r
    <3>1. CASE r = p
      BY <1>2, <2>1, <2>3, <2>5, <3>1
    <3>2. CASE r # p
      <4>1. /\ req'[r].d <= counter'
            /\ ~misseeded => rows'[req'[r].d] = NoRow
        BY <1>2, <2>1, <2>4, <2>6, <3>2
      <4>2. \A q \in Clients :
              req'[q].pc = "insert" /\ req'[q].d = req'[r].d => q = r
        BY <1>1, <2>1, <2>5, <2>6, <3>2
      <4> QED
        BY <4>1, <4>2
    <3> QED
      BY <3>1, <3>2
  <2> QED
    BY <1>4, <1>5, <2>2, <2>6 DEF Ahead
<1>6. CASE counter' = counter /\ (\A p \in Clients : ~Draws(p)) /\ ~Restarted
  <2>1. \A d \in DisplayIDs : rows'[d] # NoRow =>
          rows[d] # NoRow \/ \E p \in Clients : Inserted(p) /\ d = req[p].d
    BY RowsFollow
  <2>2. ~misseeded => \A d \in DisplayIDs : rows'[d] # NoRow => d <= counter'
    BY <1>1, <1>6, <2>1 DEF Inserted, Proceeds
  <2>3. \A p \in Clients : req'[p].pc = "insert" =>
          req[p].pc = "insert" /\ req'[p].d = req[p].d
    BY <1>6, InsertFollows
  <2>4. ASSUME ~misseeded, NEW p \in Clients, req'[p].pc = "insert"
        PROVE  rows'[req'[p].d] = NoRow
    <3>1. \A q \in Clients : Inserted(q) => req[q].d # req[p].d
      <4> SUFFICES ASSUME NEW q \in Clients, Inserted(q), req[q].d = req[p].d PROVE FALSE
        OBVIOUS
      <4>1. q = p
        BY <1>1, <2>3, <2>4 DEF Inserted, Proceeds
      <4> QED
        BY <2>4, <4>1 DEF Inserted, Proceeds
    <3>2. req[p].d \in DisplayIDs /\ rows[req[p].d] = NoRow /\ req'[p].d = req[p].d
      BY <1>1, <1>2, <2>3, <2>4
    <3> QED
      BY <2>1, <3>1, <3>2
  <2> QED
    BY <1>1, <1>4, <1>6, <2>2, <2>3, <2>4 DEF Ahead
<1> QED
  BY <1>3, <1>5, <1>6 DEF Supplies

-----------------------------------------------------------------------------
LEMMA RowsStutter ==
  ASSUME RowsInv, UNCHANGED handlerVars PROVE RowsInv'
<1> USE DEF handlerVars, ledgerVars, dbVars, ghosts
<1>1. AnswersInv'
  BY AnswersStep DEF RowsInv
<1>2. \A p \in Clients : CallFits(p)' /\ Placed(p)'
  BY DEF RowsInv, CallFits, Sent, Placed, HasRow
<1>3. Minted'
  BY DEF RowsInv, Minted, Minting, Sent
<1>4. PastShows'
  BY DEF RowsInv, PastShows, Owes, Shown
<1>5. Accounts'
  <2>1. ASSUME NEW c \in CredIDs, NEW fn \in EventFns PROVE Balanced(c, fn)'
    <3>1. Owing(c, fn)' = Owing(c, fn) /\ HasNoRow(c)' = HasNoRow(c)
      BY DEF Owing, Owes, HasNoRow
    <3>2. Owed(c, fn)' = Owed(c, fn) /\ Done(c, fn)' = Done(c, fn)
      BY <3>1 DEF Owed, Done
    <3>3. \A d \in DisplayIDs : Noted(d, fn)' = Noted(d, fn)
      BY DEF Noted
    <3>4. Balanced(c, fn)
      BY DEF RowsInv, Accounts
    <3> QED
      BY <3>1, <3>2, <3>3, <3>4 DEF Balanced
  <2> QED
    BY <2>1 DEF RowsInv, Accounts
<1>6. Traced'
  BY DEF RowsInv, Traced, Done
<1>7. Drawn' /\ Ahead'
  BY DEF RowsInv, Drawn, Issuing, Load, Room, Ahead
<1> QED
  BY <1>1, <1>2, <1>3, <1>4, <1>5, <1>6, <1>7 DEF RowsInv

\* One step of the backend or the network.
LEMMA RowsStep == RowsInv /\ [CredentialNext]_handlerVars => RowsInv'
<1>1. ASSUME RowsInv, CredentialNext PROVE RowsInv'
  <2>1. AnswersInv' /\ HandlersInv
    BY <1>1, AnswersStep DEF RowsInv, AnswersInv
  <2>2. Frame /\ Supplies /\ \A q \in Clients : Turn(q)
    BY <1>1, <2>1, StepFrame, SuppliesFrame, EveryTurn
  <2>3. \A p \in Clients : CallFits(p)' /\ Placed(p)'
    BY <1>1, <2>2, CallStaysFit, StaysPlaced
  <2>4. Minted' /\ PastShows' /\ Accounts' /\ Traced'
    BY <1>1, <2>2, MintedStep, PastShowsStep, AccountsStep, TracedStep
  <2>5. Drawn' /\ Ahead'
    BY <1>1, <2>2, DrawnStep, AheadStep
  <2> QED
    BY <2>1, <2>3, <2>4, <2>5 DEF RowsInv
<1> QED
  BY <1>1, RowsStutter

\* The model starts with First issued, its row in place and its event noted.
LEMMA RowsStart == CredentialInit => RowsInv
<1> SUFFICES ASSUME CredentialInit PROVE RowsInv
  OBVIOUS
<1> DEFINE h0  == CHOOSE h \in HolderIDs : TRUE
           b0  == CHOOSE b \in Bodies : TRUE
           tx0 == [fn |-> "issueCredential", key |-> First, holder |-> h0,
                   body |-> b0, expiry |-> 0, signed |-> Signature(h0, b0, 0),
                   admissible |-> TRUE]
           row0  == NewRow(tx0)
           issue == "issueCredential"
           first == [fn |-> issue, rec |-> NewCredential(tx0)]
<1>1. AnswersInv
  BY AnswersStart
<1>2. /\ rows = [d \in DisplayIDs |-> IF d = 1 THEN row0 ELSE NoRow]
      /\ trail = [d \in DisplayIDs |-> IF d = 1 THEN <<issue>> ELSE <<>>]
      /\ history = [c \in CredIDs |-> IF c = First THEN <<first>> ELSE <<>>]
      /\ req = [p \in Clients |-> NoReq] /\ call = [p \in Clients |-> Idle]
      /\ used = {First} /\ mempool = {} /\ alerts = {} /\ counter = 1 /\ today = 1
      /\ left = MaxRequests /\ mishap = FALSE /\ misseeded = FALSE
  BY DEF CredentialInit
<1>3. /\ row0.cred = First /\ row0.status = first.rec.Status
      /\ row0.expiry = first.rec.ExpiryDate /\ row0.signed = first.rec.Signed
  <2>1. /\ tx0.key = First
        /\ \A t : NewRow(t) = [cred |-> t.key, status |-> "active", expiry |-> t.expiry,
                               signed |-> t.signed]
    BY DEF NewRow
  <2>2. \A t : /\ NewCredential(t).Status = "active" /\ NewCredential(t).Signed = t.signed
               /\ NewCredential(t).ExpiryDate = t.expiry
    BY DEF NewCredential
  <2> HIDE DEF tx0
  <2> QED
    BY <2>1, <2>2
<1>4. /\ First \in CredIDs /\ First # Genesis
      /\ 1 \in DisplayIDs /\ DisplayIDs = 1 .. (MaxRequests + 1)
  BY FirstAssumption, GenesisAssumption, RequestsAssumption DEF DisplayIDs
<1> HIDE DEF row0, tx0, first
<1>5. /\ rows[1] = row0 /\ rows[1] # NoRow
      /\ \A d \in DisplayIDs : rows[d] # NoRow \/ rows[d].cred \in CredIDs => d = 1
      /\ history[First] = <<first>> /\ \A c \in CredIDs \ {First} : history[c] = <<>>
  BY <1>2, <1>3, <1>4, GenesisAssumption DEF NoRow
<1>6. \A p \in Clients : req[p].pc = "idle" /\ call[p].st = "idle"
  BY <1>2 DEF NoReq, Idle
<1>7. \A p \in Clients : CallFits(p) /\ Placed(p) /\ ~Owes(p) /\ ~Minting(p)
  BY <1>6 DEF CallFits, Sent, Placed, HasRow, Owes, Minting
<1>8. Minted
  BY <1>2, <1>3, <1>4, <1>5, <1>7 DEF Minted
<1>9. PastShows
  <2>1. 1 \in DOMAIN history[First] /\ history[First][1] = first
    BY <1>5
  <2> QED
    BY <1>2, <1>3, <1>5, <1>7, <2>1 DEF PastShows
<1>10. /\ Fns(history[First]) = <<issue>> /\ <<issue>> \in Seq(EventFns)
       /\ \A c \in CredIDs \ {First} : Fns(history[c]) = <<>>
       /\ <<>> \in Seq(EventFns)
  <2>1. <<issue>> \in Seq(EventFns) /\ <<>> \in Seq(EventFns)
    BY DEF EventFns
  <2>2. Fns(<<first>>) = <<first.fn>> /\ first.fn = issue
    BY DEF Fns, first
  <2>3. Fns(<<>>) = <<>>
    BY DEF Fns
  <2> QED
    BY <1>5, <2>1, <2>2, <2>3
<1>11. \A c \in CredIDs, fn \in EventFns : Owing(c, fn) = {} /\ Owed(c, fn) = 0
  <2>1. \A c \in CredIDs, fn \in EventFns : Owing(c, fn) = {}
    BY <1>7 DEF Owing
  <2> QED
    BY <2>1, FS_EmptySet DEF Owed
<1>12. /\ trail \in [DisplayIDs -> Seq(EventFns)] /\ trail[1] = <<issue>>
       /\ \A d \in DisplayIDs : rows[d] = NoRow => trail[d] = <<>>
  BY <1>2, <1>4, <1>5, <1>10
<1>13. ASSUME NEW c \in CredIDs, NEW fn \in EventFns PROVE Balanced(c, fn)
  <2>1. IsFiniteSet(Owing(c, fn)) /\ Owed(c, fn) = 0
    BY <1>11, FS_EmptySet
  <2>2. Count(<<issue>>, fn) \in Nat
    BY <1>10, CountInSeq
  <2>3. CASE c = First
    <3>1. Done(c, fn) = Count(<<issue>>, fn) /\ Noted(1, fn) = Count(<<issue>>, fn)
      BY <1>10, <1>12, <2>3 DEF Done, Noted
    <3>2. ~HasNoRow(c)
      BY <1>3, <1>4, <1>5, <2>3 DEF HasNoRow
    <3>3. \A d \in DisplayIDs : rows[d].cred = c => d = 1
      BY <1>5
    <3> HIDE DEF Owing, Owed, Done, Noted, HasNoRow
    <3> QED
      BY <2>1, <2>2, <3>1, <3>2, <3>3 DEF Balanced
  <2>4. CASE c # First
    <3>1. Done(c, fn) = 0
      BY <1>10, <2>4, CountInSeq DEF Done
    <3>2. \A d \in DisplayIDs : rows[d].cred # c
      BY <1>3, <1>5, <2>4
    <3> HIDE DEF Owing, Owed, Done, Noted
    <3> QED
      BY <2>1, <3>1, <3>2 DEF Balanced
  <2> QED
    BY <2>3, <2>4
<1>14. Accounts
  BY <1>12, <1>13 DEF Accounts
<1>15. Traced
  <2>1. Done(First, issue) >= 1
    <3>1. 1 \in DOMAIN <<issue>> /\ <<issue>>[1] = issue
      OBVIOUS
    <3> QED
      BY <1>10, <3>1, CountInSeq DEF Done
  <2> QED
    BY <1>2, <1>5, <2>1 DEF Traced
<1>16. Issuing = {} /\ Cardinality(Issuing) = 0 /\ IsFiniteSet(Issuing)
  <2>1. Issuing = {}
    BY <1>6 DEF Issuing
  <2> QED
    BY <2>1, FS_EmptySet
<1>17. Drawn
  <2>1. Room(1) /\ left \in Nat /\ today \in 1 .. MaxDay
    BY <1>2, <1>16, RequestsAssumption, DaysAssumption DEF Room, Load
  <2>2. rows[1] # NoRow /\ \A e \in DisplayIDs : rows[e] # NoRow => 1 >= e
    BY <1>5
  <2>3. \A p \in Clients : req[p].pc # "insert"
    BY <1>6
  <2> QED
    BY <1>2, <1>4, <1>5, <1>16, <2>1, <2>2, <2>3 DEF Drawn
<1>18. Ahead
  BY <1>2, <1>5, <1>6 DEF Ahead
<1> QED
  BY <1>1, <1>7, <1>8, <1>9, <1>14, <1>15, <1>17, <1>18 DEF RowsInv

\* The steps and answers of the requests.
Coded == \A p \in Clients : req[p].pc \in Pcs /\ req[p].code \in {"none", "ok", "error"}

LEMMA CodesStay ==
  ASSUME HandlersInv, Coded, NEW p \in Clients, NEW pc \in Pcs,
         NEW code \in {"none", "ok", "error"}, NEW x,
         \/ req' = [req EXCEPT ![p] = [pc |-> pc, d |-> x, tx |-> req'[p].tx, code |-> code]]
         \/ req' = [req EXCEPT ![p].pc = pc]
         \/ req' = [req EXCEPT ![p].pc = pc, ![p].tx = x]
         \/ req' = [req EXCEPT ![p].pc = pc, ![p].d = x]
         \/ req' = [req EXCEPT ![p].pc = pc, ![p].code = code]
  PROVE  Coded'
<1>1. RequestShape(p) /\ DOMAIN req = Clients
  BY DEF HandlersInv
<1>2. \A q \in Clients \ {p} : req'[q] = req[q]
  BY <1>1
<1>3. req'[p].pc = pc /\ req'[p].code \in {code, req[p].code}
  BY <1>1 DEF RequestShape
<1> QED
  BY <1>2, <1>3 DEF Coded

LEMMA CodedStep == HandlersInv /\ Coded /\ [CredentialNext]_handlerVars => Coded'
<1> SUFFICES ASSUME HandlersInv, Coded, [CredentialNext]_handlerVars PROVE Coded'
  OBVIOUS
<1> USE DEF Pcs
<1>1. ASSUME NEW p \in Clients, NEW r, Accept(p, r),
             r = [pc |-> r.pc, d |-> r.d, tx |-> r.tx, code |-> r.code],
             r.pc \in Pcs, r.code \in {"none", "ok", "error"}
      PROVE  Coded'
  <2>1. DOMAIN req = Clients /\ req' = [req EXCEPT ![p] = r]
    BY <1>1 DEF Accept, HandlersInv
  <2> QED
    BY <1>1, <2>1 DEF Coded
<1>2. ASSUME NEW p \in Clients, HandlerStep(p) PROVE Coded'
  <2>1. CASE Submit(p) \/ SubmitRefused(p) \/ SubmitUnreachable(p)
    BY <2>1, CodesStay DEF Submit, SubmitRefused, SubmitUnreachable
  <2>2. CASE SubmitSucceeds(p) \/ SubmitFails(p)
    BY <2>2, CodesStay DEF SubmitSucceeds, SubmitFails, AfterError
  <2>3. CASE InsertRow(p) \/ InsertRowFails(p)
    BY <2>3, CodesStay DEF InsertRow, InsertRowFails, Goto, Answer
  <2>4. CASE MarkRow(p) \/ MarkRowFails(p)
    BY <2>4, CodesStay DEF MarkRow, MarkRowFails, AfterMark, Goto
  <2>5. CASE RaiseAlert(p) \/ RaiseAlertFails(p)
    BY <2>5, CodesStay DEF RaiseAlert, RaiseAlertFails, Goto
  <2>6. CASE RecordEvent(p) \/ RecordEventFails(p) \/ UpdateEmail(p) \/ UpdateEmailFails(p)
    BY <2>6, CodesStay DEF RecordEvent, RecordEventFails, UpdateEmail, UpdateEmailFails, Answer
  <2> QED
    BY <1>2, <2>1, <2>2, <2>3, <2>4, <2>5, <2>6 DEF HandlerStep
<1>3. ASSUME NEW p \in Clients, NEW d \in DisplayIDs, NEW e, ReadForUpdate(p, d, e) PROVE Coded'
  BY <1>1, <1>3 DEF ReadForUpdate, Refused
<1>4. CASE \/ \E p \in Clients, h \in HolderIDs, b \in Bodies, e \in Expiries :
                ReadForIssue(p, h, b, e)
           \/ \E p \in Clients, d \in DisplayIDs, fn \in StatusFns : ReadForStatus(p, d, fn)
           \/ \E p \in Clients : ReadFails(p)
  BY <1>1, <1>4 DEF ReadForIssue, ReadForStatus, ReadFails, Refused
<1>5. CASE req' = req
  BY <1>5 DEF Coded
<1>6. CASE Restarted
  BY <1>6 DEF Restarted, BackendRestarts, BackendRestartsUnseeded, Restart, NoReq, Coded
<1> QED
  BY <1>2, <1>3, <1>4, <1>5, <1>6
     DEF Restarted, CredentialNext, handlerVars, NetworkCommits, NetworkDiscards, CallTimesOut, Tick

-----------------------------------------------------------------------------
\* The accounts of all credentials balance at every step.
THEOREM RowsInvariant == CredentialSpec => []RowsInv
  BY RowsStart, RowsStep, PTL DEF CredentialSpec

\* The rows, alerts, counter and requests of the issuer keep their types,
\* and there is a display identifier for every issue.
THEOREM HandlersTypeCorrect == CredentialSpec => []HandlersTypeOK
<1>1. CredentialInit => Coded
  <2>1. CredentialInit => req = [p \in Clients |-> NoReq]
    BY DEF CredentialInit
  <2> QED
    BY <2>1 DEF NoReq, Coded, Pcs
<1>2. RowsInv => HandlersInv
  BY DEF RowsInv, AnswersInv
<1>3. RowsInv /\ Coded => HandlersTypeOK
  <2> SUFFICES ASSUME RowsInv, Coded PROVE HandlersTypeOK
    OBVIOUS
  <2>1. LedgerTypeOK /\ RowsTyped
    BY DEF RowsInv, AnswersInv, HandlersInv, LedgerInv
  <2>2. alerts \subseteq DisplayIDs \X {"suspended", "revoked"}
    BY DEF RowsInv, PastShows
  <2>3. PICK d \in DisplayIDs : rows[d] # NoRow /\ Room(d)
    BY DEF RowsInv, Drawn
  <2>4. /\ d \in 1 .. (MaxRequests + 1) /\ Room(counter) /\ counter \in Nat /\ left \in Nat
        /\ today \in 1 .. MaxDay /\ IsFiniteSet(Issuing)
    BY <2>3 DEF RowsInv, Drawn, DisplayIDs
  <2>5. Cardinality(Issuing) \in Nat
    BY <2>4, FS_CardinalityType
  <2> HIDE DEF Issuing
  <2>6. counter \in 0 .. (MaxRequests + 1) /\ left \in 0 .. MaxRequests
    BY <2>3, <2>4, <2>5, RequestsAssumption DEF Room, Load
  <2> QED
    BY <2>1, <2>2, <2>4, <2>6 DEF RowsTyped, FullRows, Coded, HandlersTypeOK
<1> QED
  BY <1>1, <1>2, <1>3, RowsInvariant, CodedStep, PTL DEF CredentialSpec

\* MySQL never claims what the chain did not do: what a row or an alert shows
\* was on chain, and no event lacks its transaction, whatever failed, timed
\* out or was overtaken.
THEOREM RowsShowOnlyTheChain == CredentialSpec => []RowsShowChain
<1>1. ASSUME RowsInv, NEW d \in DisplayIDs, rows[d] # NoRow, NEW fn \in EventFns
      PROVE  Noted(d, fn) <= Done(rows[d].cred, fn)
  <2>1. rows[d].cred \in CredIDs
    BY <1>1, FullRowIsRow DEF RowsInv, AnswersInv, HandlersInv, RowsTyped
  <2>2. PICK c \in CredIDs : c = rows[d].cred
    BY <2>1
  <2>3. Noted(d, fn) + Owed(c, fn) <= Done(c, fn)
    BY <1>1, <2>2 DEF RowsInv, Accounts, Balanced
  <2>4. Noted(d, fn) \in Nat /\ Owed(c, fn) \in Nat /\ Done(c, fn) \in Nat
    BY <1>1, Figures
  <2>5. Noted(d, fn) <= Done(c, fn)
    <3> HIDE DEF Noted, Owed, Done
    <3> QED
      BY <2>3, <2>4
  <2> QED
    BY <2>2, <2>5
<1>2. RowsInv => RowsShowChain
  <2> SUFFICES ASSUME RowsInv, NEW d \in DisplayIDs, rows[d] # NoRow
               PROVE  LET row == rows[d]
                          past == history[row.cred]
                      IN /\ \E i \in DOMAIN past : past[i].rec.Status = row.status
                         /\ \E i \in DOMAIN past : /\ past[i].rec.ExpiryDate = row.expiry
                                                   /\ past[i].rec.Signed = row.signed
                         /\ \A fn \in StatusFns \cup {"issueCredential"} :
                              Count(trail[d], fn) <= Count(Fns(past), fn)
                         /\ \A a \in alerts :
                              a[1] = d => \E i \in DOMAIN past : past[i].rec.Status = a[2]
    BY DEF RowsShowChain
  <2>1. PastShows
    BY DEF RowsInv
  <2>2. \A fn \in EventFns : Noted(d, fn) <= Done(rows[d].cred, fn)
    BY <1>1
  <2> QED
    BY <2>1, <2>2 DEF PastShows, Noted, Done, EventFns
<1> QED
  BY <1>2, RowsInvariant, PTL

\* A display identifier that is drawn is not that of a row, nor drawn by
\* another handler, and no credential has two rows, through restarts, failed
\* inserts and late commits, as long as the counter was seeded.
THEOREM DisplayIDsStayFresh == CredentialSpec => []DisplayIDsFresh
<1>1. RowsInv => DisplayIDsFresh
  BY DEF RowsInv, Minted, Ahead, DisplayIDsFresh, NeverReusesDisplayID
<1> QED
  BY <1>1, RowsInvariant, PTL

\* Seeded or not, the counter never gives a display identifier away: it stands
\* for the credential it was given to for good.
THEOREM DisplayIDsStandForGood == CredentialSpec => DisplayIDsStand
<1> DEFINE Standing == \A d \in DisplayIDs : rows[d] # NoRow => rows'[d].cred = rows[d].cred
<1>1. RowsInv /\ [CredentialNext]_handlerVars => [Standing]_handlerVars
  <2>1. ASSUME RowsInv, CredentialNext, NEW d \in DisplayIDs, rows[d] # NoRow
        PROVE  rows'[d].cred = rows[d].cred
    <3>1. Frame
      BY <2>1, StepFrame DEF RowsInv, AnswersInv
    <3> QED
      BY <2>1, <3>1, RowsFollow DEF RowStays
  <2> QED
    BY <2>1
<1>2. DisplayIDsStand <=> [][Standing]_handlerVars
  BY DEF DisplayIDsStand
<1> HIDE DEF Standing
<1> QED
  BY <1>1, <1>2, RowsInvariant, PTL DEF CredentialSpec

\* Short of faults, crashes and timeouts every credential on chain has its
\* row, and every issue and status change its event, once the handlers rest.
THEOREM NothingIsLost == CredentialSpec => []NothingLost
<1>1. ASSUME RowsInv, Quiet, ~mishap, NEW c \in CredIDs, history[c] # <<>>
      PROVE  \E d \in DisplayIDs :
               /\ rows[d] # NoRow /\ rows[d].cred = c
               /\ \A fn \in EventFns : Noted(d, fn) = Done(c, fn)
  <2>1. \A fn \in EventFns : Owed(c, fn) = 0
    <3>1. \A fn \in EventFns : Owing(c, fn) = {}
      BY <1>1 DEF Quiet, AtRest, Owing, Owes
    <3> QED
      BY <3>1, FS_EmptySet DEF Owed
  <2>2. \A fn \in EventFns : Balanced(c, fn) /\ Done(c, fn) \in Nat
                             /\ \A d \in DisplayIDs : Noted(d, fn) \in Nat
    BY <1>1, Figures DEF RowsInv, Accounts
  <2>3. Done(c, "issueCredential") >= 1
    BY <1>1 DEF RowsInv, Traced
  <2> HIDE DEF Owed, Done, Noted
  <2>4. ~HasNoRow(c)
    <3>1. "issueCredential" \in EventFns
      BY DEF EventFns
    <3>2. HasNoRow(c) => Done(c, "issueCredential") = 0
      BY <1>1, <2>1, <2>2, <3>1 DEF Balanced
    <3> QED
      BY <2>3, <3>2
  <2>5. PICK d \in DisplayIDs : rows[d].cred = c
    BY <2>4 DEF HasNoRow
  <2>6. rows[d] # NoRow
    BY <2>5, GenesisAssumption DEF NoRow
  <2>7. \A fn \in EventFns : Noted(d, fn) = Done(c, fn)
    <3> SUFFICES ASSUME NEW fn \in EventFns PROVE Noted(d, fn) = Done(c, fn)
      OBVIOUS
    <3>1. Noted(d, fn) + Owed(c, fn) = Done(c, fn)
      BY <1>1, <2>2, <2>5 DEF Balanced
    <3>2. Owed(c, fn) = 0 /\ Noted(d, fn) \in Nat
      BY <2>1, <2>2
    <3> QED
      BY <3>1, <3>2
  <2> QED
    BY <2>5, <2>6, <2>7
<1>2. RowsInv => NothingLost
  <2> SUFFICES ASSUME RowsInv, Quiet, ~mishap, NEW c \in CredIDs, history[c] # <<>>
               PROVE  \E d \in DisplayIDs :
                        /\ rows[d] # NoRow /\ rows[d].cred = c
                        /\ \A fn \in StatusFns \cup {"issueCredential"} :
                             Count(trail[d], fn) = Count(Fns(history[c]), fn)
    BY DEF NothingLost
  <2> QED
    BY <1>1 DEF Noted, Done, EventFns
<1> QED
  BY <1>2, RowsInvariant, PTL
=============================================================================
