------------------------- MODULE CredentialHandlers -------------------------
(***************************************************************************)
(* The issuer's credential handlers of the Go backend, running             *)
(* concurrently over the Fabric network and MySQL: issue, revoke, suspend, *)
(* restore and update.  Each HTTP request is a process that reads the      *)
(* chain, decides, submits a transaction, and only then brings MySQL's     *)
(* row, the verifiers' alerts and the event trail up to date, one          *)
(* statement after another and without a database transaction around them. *)
(*                                                                         *)
(* The audit row a handler writes last, after its event, is left out:      *)
(* no handler here reads it, and its identifiers are the subject of Staff. *)
(*                                                                         *)
(* Clients are the handler goroutines; display identifiers CRED-0001, ...  *)
(* are numbers; a day is a number and expiry 0 is "no expiry".  The model  *)
(* starts after one holder has bound keys and credential First has been    *)
(* issued to it as CRED-0001.                                              *)
(***************************************************************************)
EXTENDS FabricLedger, Sequences, FiniteSetsExt

CONSTANTS
  First,        \* the credential issued before the model starts
  Subscribed,   \* display IDs with a pending or active subscription
  MaxRequests,  \* bound: requests received
  MaxDay,       \* bound: the last day of the calendar
  MayFail,      \* whether MySQL statements and the backend may fail
  SeedMayFail   \* whether the counter's seeding query may fail on a restart

ASSUME Inhabited ==
  HolderIDs # {} /\ WalletKeys # {} /\ Bodies # {} /\ 0 \in Expiries
ASSUME FirstAssumption == First \in CredIDs
ASSUME DaysAssumption == Expiries \subseteq Nat /\ MaxDay \in Nat \ {0}
ASSUME RequestsAssumption == MaxRequests \in Nat /\ {MayFail, SeedMayFail} \subseteq BOOLEAN

VARIABLES
  rows,     \* MySQL credentials, by display ID
  trail,    \* MySQL credential_events, by display ID
  alerts,   \* MySQL alerts: <<display ID, severity>>
  counter,  \* displayCredSeq
  req,      \* the request each handler serves
  today,    \* the UAE calendar date
  left,     \* requests still to come
  history,  \* ghost: what was committed for each credential, in order
  mishap,   \* ghost: a fault, a crash or a timeout has occurred
  misseeded \* ghost: the query that seeded the counter failed

dbVars == <<rows, trail, alerts, counter>>
ghosts == <<history, mishap, misseeded>>
handlerVars == <<ledgerVars, dbVars, req, today, left, ghosts>>

DisplayIDs == 1 .. (MaxRequests + 1)

NoRow == [cred |-> Genesis]
NoTx  == [fn |-> "none"]
NoReq == [pc |-> "idle", d |-> 0, tx |-> NoTx, code |-> "none"]

StatusFns == {"revokeCredential", "suspendCredential", "restoreCredential"}

AtRest(p) == req[p].pc \in {"idle", "done"}
Quiet     == \A p \in Clients : AtRest(p)

-----------------------------------------------------------------------------
(* What the issuer signs. *)

Signature(h, b, e) ==
  SignCommitment([Holder |-> h, Body |-> b, ExpiryDate |-> e])

\* handleUpdateCredential signs the chain's record with the new expiry in
\* place of the old.  (Mutant: the new expiry is not put in.)
ResignMutant(r, e) == SignCommitment(CommitmentOf(r))
Resign(r, e) == SignCommitment([CommitmentOf(r) EXCEPT !.ExpiryDate = e])

\* The row a new credential is cached as, and the cached columns a status
\* change or an expiry update sets.
NewRow(tx) ==
  [cred |-> tx.key, status |-> "active", expiry |-> tx.expiry, signed |-> tx.signed]

CachedStatus(fn) ==
  CASE fn = "revokeCredential"  -> "revoked"
    [] fn = "suspendCredential" -> "suspended"
    [] fn = "restoreCredential" -> "active"

Marked(row, tx) ==
  IF tx.fn = "updateExpiry"
  THEN [row EXCEPT !.expiry = tx.expiry, !.signed = tx.signed]
  ELSE [row EXCEPT !.status = CachedStatus(tx.fn)]

-----------------------------------------------------------------------------
(* Expiry and effective status. *)

Expired(e) == e # 0 /\ today > e

EffectiveStatus(r) ==
  IF r.Status = "active" /\ Expired(r.ExpiryDate) THEN "expired" ELSE r.Status

\* The handlers' own checks, made on the record read before submitting.
Permits(fn, r) ==
  CASE fn = "revokeCredential"  -> r.Status # "revoked"
    [] fn = "suspendCredential" -> EffectiveStatus(r) = "active"
    [] fn = "restoreCredential" -> EffectiveStatus(r) = "suspended"

-----------------------------------------------------------------------------
CredentialInit ==
  LET h0  == CHOOSE h \in HolderIDs : TRUE
      b0  == CHOOSE b \in Bodies : TRUE
      tx0 == [fn |-> "issueCredential", key |-> First, holder |-> h0,
              body |-> b0, expiry |-> 0, signed |-> Signature(h0, b0, 0),
              admissible |-> TRUE]
  IN /\ world = [k \in Keys |->
                   IF k = First THEN NewCredential(tx0)
                   ELSE IF k = h0
                        THEN [NewHolder EXCEPT !.WalletKeys = CHOOSE w \in WalletKeys : TRUE]
                        ELSE NoRecord]
     /\ version = [k \in Keys |-> IF k = First THEN First ELSE Genesis]
     /\ mempool = {}
     /\ committed = {First}
     /\ used = {First}
     /\ call = [p \in Clients |-> Idle]
     /\ rows = [d \in DisplayIDs |-> IF d = 1 THEN NewRow(tx0) ELSE NoRow]
     /\ trail = [d \in DisplayIDs |-> IF d = 1 THEN <<"issueCredential">> ELSE <<>>]
     /\ alerts = {}
     /\ counter = 1
     /\ req = [p \in Clients |-> NoReq]
     /\ today = 1
     /\ left = MaxRequests
     /\ history = [c \in CredIDs |->
                     IF c = First
                     THEN <<[fn |-> "issueCredential", rec |-> NewCredential(tx0)]>>
                     ELSE <<>>]
     /\ mishap = FALSE
     /\ misseeded = FALSE

-----------------------------------------------------------------------------
(* A request arrives and the handler reads: it answers an error, or goes   *)
(* on to submit with what it decided.  The row's chain identifier never    *)
(* changes, so its lookup and the chain read are one step.                 *)

\* loadCredentialForWrite: the display ID has a row, and the credential is on
\* the chain.
Found(d) == rows[d] # NoRow /\ IsCredential(world, rows[d].cred)

Accept(p, r) ==
  /\ AtRest(p)
  /\ left > 0
  /\ left' = left - 1
  /\ req' = [req EXCEPT ![p] = r]
  /\ UNCHANGED <<ledgerVars, dbVars, today, ghosts>>

Refused == [pc |-> "done", d |-> 0, tx |-> NoTx, code |-> "error"]

\* MySQL or the chain cannot be read (or IPFS not written): the handler
\* answers an error before anything has happened.
ReadFails(p) == MayFail /\ Accept(p, Refused)

ReadForIssue(p, h, b, e) ==
  Accept(p, IF Bound(world, h)
            THEN [pc |-> "submit", d |-> 0, code |-> "none",
                  tx |-> [fn |-> "issueCredential", holder |-> h, body |-> b,
                          expiry |-> e, signed |-> Signature(h, b, e),
                          admissible |-> TRUE]]
            ELSE Refused)

ReadForStatus(p, d, fn) ==
  Accept(p, IF Found(d) /\ Permits(fn, world[rows[d].cred])
            THEN [pc |-> "submit", d |-> d, code |-> "none",
                  tx |-> [fn |-> fn, key |-> rows[d].cred, admissible |-> TRUE]]
            ELSE Refused)

\* An unchanged expiry (or an email alone) is not re-signed.
ReadForUpdate(p, d, e) ==
  LET r == world[rows[d].cred] IN
  Accept(p, IF Found(d) /\ r.Status # "revoked"
            THEN [pc   |-> IF e # r.ExpiryDate THEN "submit" ELSE "email",
                  d    |-> d,
                  code |-> "none",
                  tx   |-> [fn |-> "updateExpiry", key |-> rows[d].cred, expiry |-> e,
                            signed |-> Resign(r, e), admissible |-> TRUE]]
            ELSE Refused)

-----------------------------------------------------------------------------
(* chainSubmit. *)

\* The contract derives an issue's key from the transaction ID.
WithKey(tx, id) ==
  IF tx.fn = "issueCredential"
  THEN [fn |-> "issueCredential", key |-> id, holder |-> tx.holder, body |-> tx.body,
        expiry |-> tx.expiry, signed |-> tx.signed, admissible |-> TRUE]
  ELSE tx

\* The transaction is simulated now, on a state later than the one read.
Submit(p) ==
  /\ req[p].pc = "submit"
  /\ \E id \in TxIDs :
       LET tx == WithKey(req[p].tx, id)
       IN /\ Endorse(p, tx) /\ call'[p].id = id
          /\ req' = [req EXCEPT ![p].pc = "wait", ![p].tx = tx]
  /\ UNCHANGED <<dbVars, today, left, ghosts>>

SubmitRefused(p) ==
  /\ req[p].pc = "submit"
  /\ \E id \in FreshIDs : Refuse(p, WithKey(req[p].tx, id))
  /\ req' = [req EXCEPT ![p].pc = "wait"]
  /\ UNCHANGED <<dbVars, today, left, ghosts>>

SubmitUnreachable(p) ==
  /\ MayFail
  /\ req[p].pc = "submit"
  /\ PeerUnreachable(p)
  /\ req' = [req EXCEPT ![p].pc = "wait"]
  /\ UNCHANGED <<dbVars, today, left, ghosts>>

NetworkCommits(e) ==
  /\ Commit(e)
  /\ history' = [history EXCEPT ![e.tx.key] = Append(@, [fn |-> e.tx.fn, rec |-> e.write])]
  /\ UNCHANGED <<dbVars, req, today, left, mishap, misseeded>>

NetworkDiscards(e) ==
  /\ Discard(e)
  /\ UNCHANGED <<dbVars, req, today, left, ghosts>>

CallTimesOut(p) ==
  /\ StatusTimeout(p)
  /\ mishap' = TRUE
  /\ UNCHANGED <<dbVars, req, today, left, history, misseeded>>

\* chainSubmit returns an error: the handler answers 500 and stops.
\* (Mutant: a status change is cached all the same.)
AfterErrorMutant(fn) == IF fn \in StatusFns THEN "mark" ELSE "done"
AfterError(fn) == "done"

SubmitFails(p) ==
  /\ req[p].pc = "wait"
  /\ call[p].st = "failed"
  /\ Return(p)
  /\ req' = [req EXCEPT ![p].pc = AfterError(req[p].tx.fn), ![p].code = "error"]
  /\ UNCHANGED <<dbVars, today, left, ghosts>>

\* chainSubmit succeeds.  An issue draws its display ID here.
\* (Mutant: every handler draws from the value it last saw.)
DrawMutant(n) == n
Draw(n) == n + 1

SubmitSucceeds(p) ==
  /\ req[p].pc = "wait"
  /\ call[p].st = "committed"
  /\ Return(p)
  /\ IF req[p].tx.fn = "issueCredential"
     THEN /\ counter' = Draw(counter)
          /\ req' = [req EXCEPT ![p].pc = "insert", ![p].d = Draw(counter)]
     ELSE /\ req' = [req EXCEPT ![p].pc = "mark"]
          /\ UNCHANGED counter
  /\ UNCHANGED <<rows, trail, alerts, today, left, ghosts>>

-----------------------------------------------------------------------------
(* After the chain write: MySQL, statement by statement. *)

Goto(p, pc) == req' = [req EXCEPT ![p].pc = pc]
Answer(p, code) == req' = [req EXCEPT ![p].pc = "done", ![p].code = code]

\* insertCredential.  A duplicate primary key is an error like any other: the
\* request is answered with it, and the credential stays on chain without a row.
\* (Mutant: the statement replaces the row.)
VacantMutant(d) == TRUE
Vacant(d) == rows[d] = NoRow

InsertRow(p) ==
  /\ req[p].pc = "insert"
  /\ IF Vacant(req[p].d)
     THEN rows' = [rows EXCEPT ![req[p].d] = NewRow(req[p].tx)] /\ Goto(p, "event")
     ELSE UNCHANGED rows /\ Answer(p, "error")
  /\ UNCHANGED <<ledgerVars, trail, alerts, counter, today, left, ghosts>>

InsertRowFails(p) ==
  /\ MayFail
  /\ req[p].pc = "insert"
  /\ Answer(p, "error")
  /\ mishap' = TRUE
  /\ UNCHANGED <<ledgerVars, dbVars, today, left, history, misseeded>>

\* Where a handler goes once its row is marked.  (Mutants: a restore returns
\* without recording its event; it raises an alert like a suspension.)
SkippedEventMutant(fn) ==
  IF fn \in {"updateExpiry", "restoreCredential"} THEN "email" ELSE "alert"
ExtraAlertMutant(fn) ==
  IF fn = "updateExpiry" THEN "email" ELSE "alert"
AfterMark(fn) ==
  CASE fn = "updateExpiry"      -> "email"
    [] fn = "restoreCredential" -> "event"
    [] OTHER                    -> "alert"

\* markCredentialRevoked/Suspended/Restored, updateCredentialCommitment: an
\* UPDATE that sets the columns whatever they hold.
MarkRow(p) ==
  /\ req[p].pc = "mark"
  /\ rows' = [rows EXCEPT ![req[p].d] = Marked(@, req[p].tx)]
  /\ Goto(p, AfterMark(req[p].tx.fn))
  /\ UNCHANGED <<ledgerVars, trail, alerts, counter, today, left, ghosts>>

\* A failed UPDATE is logged and the handler carries on.
MarkRowFails(p) ==
  /\ MayFail
  /\ req[p].pc = "mark"
  /\ Goto(p, AfterMark(req[p].tx.fn))
  /\ mishap' = TRUE
  /\ UNCHANGED <<ledgerVars, dbVars, today, left, history, misseeded>>

\* raiseSubscriptionAlert, for a revocation or a suspension.
RaiseAlert(p) ==
  /\ req[p].pc = "alert"
  /\ alerts' = IF req[p].d \in Subscribed
               THEN alerts \cup {<<req[p].d, CachedStatus(req[p].tx.fn)>>}
               ELSE alerts
  /\ Goto(p, "event")
  /\ UNCHANGED <<ledgerVars, rows, trail, counter, today, left, ghosts>>

RaiseAlertFails(p) ==
  /\ MayFail
  /\ req[p].pc = "alert"
  /\ Goto(p, "event")
  /\ mishap' = TRUE
  /\ UNCHANGED <<ledgerVars, dbVars, today, left, history, misseeded>>

\* insertCredentialEvent, then the 200 answer.
RecordEvent(p) ==
  /\ req[p].pc = "event"
  /\ trail' = [trail EXCEPT ![req[p].d] = Append(@, req[p].tx.fn)]
  /\ Answer(p, "ok")
  /\ UNCHANGED <<ledgerVars, rows, alerts, counter, today, left, ghosts>>

RecordEventFails(p) ==
  /\ MayFail
  /\ req[p].pc = "event"
  /\ Answer(p, "ok")
  /\ mishap' = TRUE
  /\ UNCHANGED <<ledgerVars, dbVars, today, left, history, misseeded>>

\* The end of handleUpdateCredential: the holder's email, if one was sent.
UpdateEmail(p) ==
  /\ req[p].pc = "email"
  /\ Answer(p, "ok")
  /\ UNCHANGED <<ledgerVars, dbVars, today, left, ghosts>>

UpdateEmailFails(p) ==
  /\ MayFail
  /\ req[p].pc = "email"
  /\ Answer(p, "error")
  /\ mishap' = TRUE
  /\ UNCHANGED <<ledgerVars, dbVars, today, left, history, misseeded>>

-----------------------------------------------------------------------------
Tick ==
  /\ today < MaxDay
  /\ today' = today + 1
  /\ UNCHANGED <<ledgerVars, dbVars, req, left, ghosts>>

\* The backend dies and comes back: chain, mempool and MySQL survive, and
\* initDB sets the counter.
Restart(seed) ==
  /\ MayFail
  /\ req' = [p \in Clients |-> NoReq]
  /\ call' = [p \in Clients |-> Idle]
  /\ counter' = seed
  /\ mishap' = TRUE
  /\ UNCHANGED <<world, version, mempool, committed, used, rows, trail, alerts, today,
                 left, history>>

\* The seed is the largest display ID in MySQL.
BackendRestarts ==
  /\ Restart(Max({d \in DisplayIDs : rows[d] # NoRow}))
  /\ misseeded' = FALSE

\* The error of the query that looks it up is dropped, and the counter is 0.
BackendRestartsUnseeded ==
  /\ SeedMayFail
  /\ Restart(0)
  /\ misseeded' = TRUE

HandlerStep(p) ==
  \/ Submit(p)        \/ SubmitRefused(p)   \/ SubmitUnreachable(p)
  \/ SubmitSucceeds(p) \/ SubmitFails(p)
  \/ InsertRow(p)     \/ InsertRowFails(p)
  \/ MarkRow(p)       \/ MarkRowFails(p)
  \/ RaiseAlert(p)    \/ RaiseAlertFails(p)
  \/ RecordEvent(p)   \/ RecordEventFails(p)
  \/ UpdateEmail(p)   \/ UpdateEmailFails(p)

CredentialNext ==
  \/ \E p \in Clients, h \in HolderIDs, b \in Bodies, e \in Expiries : ReadForIssue(p, h, b, e)
  \/ \E p \in Clients, d \in DisplayIDs, fn \in StatusFns : ReadForStatus(p, d, fn)
  \/ \E p \in Clients, d \in DisplayIDs, e \in Expiries : ReadForUpdate(p, d, e)
  \/ \E p \in Clients : ReadFails(p)
  \/ \E p \in Clients : HandlerStep(p)
  \/ \E e \in mempool : NetworkCommits(e)
  \/ \E e \in mempool : NetworkDiscards(e)
  \/ \E p \in Clients : CallTimesOut(p)
  \/ Tick
  \/ BackendRestarts
  \/ BackendRestartsUnseeded

CredentialSpec == CredentialInit /\ [][CredentialNext]_handlerVars

\* A goroutine runs until it blocks, the commit-status timer runs out and
\* MySQL answers; the network and the callers owe nothing.
FairCredentialSpec ==
  /\ CredentialSpec
  /\ \A p \in Clients : /\ WF_handlerVars(HandlerStep(p))
                        /\ WF_handlerVars(CallTimesOut(p))

-----------------------------------------------------------------------------
Pcs == {"idle", "submit", "wait", "insert", "mark", "alert", "event", "email", "done"}

HandlersTypeOK ==
  /\ LedgerTypeOK
  /\ \A d \in DisplayIDs :
       \/ rows[d] = NoRow
       \/ rows[d] \in [cred : CredIDs, status : {"active", "suspended", "revoked"},
                       expiry : Expiries, signed : Signings]
  /\ alerts \subseteq DisplayIDs \X {"suspended", "revoked"}
  /\ counter \in 0 .. (MaxRequests + 1)
  /\ \A p \in Clients : req[p].pc \in Pcs /\ req[p].code \in {"none", "ok", "error"}
  /\ today \in 1 .. MaxDay /\ left \in 0 .. MaxRequests

\* Every credential on chain verifies: its hash and its signature cover the
\* holder, body and expiry its record has now, also when two updates signed
\* records they read before the other one committed.
CommitmentIntact ==
  \A c \in CredIDs :
    IsCredential(world, c) => world[c].Signed = SignCommitment(CommitmentOf(world[c]))

Fns(s) == [i \in DOMAIN s |-> s[i].fn]
Count(s, x) == Cardinality({i \in DOMAIN s : s[i] = x})

\* MySQL never claims what the chain did not do.  The status, the expiry and
\* the signature a row shows each were on chain once, a revoked row is
\* revoked for good, and no event or alert lacks the transaction it reports:
\* whatever failed, timed out or was overtaken.
RowsShowChain ==
  \A d \in DisplayIDs : rows[d] # NoRow =>
    LET row == rows[d]
        past == history[row.cred]
    IN /\ \E i \in DOMAIN past : past[i].rec.Status = row.status
       /\ \E i \in DOMAIN past : /\ past[i].rec.ExpiryDate = row.expiry
                                 /\ past[i].rec.Signed = row.signed
       /\ \A fn \in StatusFns \cup {"issueCredential"} :
            Count(trail[d], fn) <= Count(Fns(past), fn)
       /\ \A a \in alerts : a[1] = d => \E i \in DOMAIN past : past[i].rec.Status = a[2]

\* db.go seeds the counter "so we never re-use a display ID": no insert meets a
\* row that has its display ID.
NeverReusesDisplayID ==
  \A p \in Clients : req[p].pc = "insert" => rows[req[p].d] = NoRow

\* A display ID that is drawn is not that of a row, nor drawn by another
\* handler, and no credential has two rows: through restarts, failed inserts
\* and late commits, unless the query that seeded the counter failed when the
\* backend was started last.  (A number whose insert failed, or was cut short,
\* may be drawn again after a restart; nobody was told of it.)
DisplayIDsFresh ==
  /\ \A d, e \in DisplayIDs : rows[d] # NoRow /\ rows[d].cred = rows[e].cred => d = e
  /\ ~misseeded => NeverReusesDisplayID
  /\ \A p, q \in Clients :
       req[p].pc = "insert" /\ req[q].pc = "insert" /\ p # q => req[p].d # req[q].d

\* A display ID stands for the credential it was given to for good, also when
\* a badly seeded counter draws it again.
DisplayIDsStand ==
  [][\A d \in DisplayIDs : rows[d] # NoRow => rows'[d].cred = rows[d].cred]_handlerVars

\* Short of faults, crashes and timeouts nothing is lost: once the handlers
\* are done every credential has its row, and every issue and status change
\* has its event, in some order.
NothingLost ==
  Quiet /\ ~mishap =>
    \A c \in CredIDs : history[c] # <<>> =>
      \E d \in DisplayIDs :
        /\ rows[d] # NoRow /\ rows[d].cred = c
        /\ \A fn \in StatusFns \cup {"issueCredential"} :
             Count(trail[d], fn) = Count(Fns(history[c]), fn)

\* A 200 is true: the transaction it answers, or for an update the expiry, is
\* in the ledger, and a revocation still stands.
OkIsOnChain ==
  \A p \in Clients : req[p].pc = "done" /\ req[p].code = "ok" =>
    LET tx == req[p].tx
        past == history[tx.key]
    IN /\ \E i \in DOMAIN past : IF tx.fn = "updateExpiry"
                                 THEN past[i].rec.ExpiryDate = tx.expiry
                                 ELSE past[i].fn = tx.fn
       /\ tx.fn = "revokeCredential" => world[tx.key].Status = "revoked"

\* Every request is answered, whatever the network and MySQL do.
RequestsAnswered == \A p \in Clients : ~AtRest(p) ~> AtRest(p)
=============================================================================
