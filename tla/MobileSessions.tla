--------------------------- MODULE MobileSessions ---------------------------
(***************************************************************************)
(* Presentation sessions: the wallet posts a signed presentation and gets  *)
(* a short-lived token (OTP or QR), a verifier resolves the token, the     *)
(* backend reads the chain, verifies, logs and deletes the session.  The   *)
(* chain moves underneath: the contract's transactions (QChaincode) are    *)
(* the environment.                                                        *)
(*                                                                         *)
(* A presentation names a credential and says which wallet key signed it   *)
(* and whether the disclosed fields and salts are the committed ones       *)
(* ("honest").  Session deadlines and expiry dates are points of one       *)
(* clock, and expiry 0 is none.                                            *)
(***************************************************************************)
EXTENDS QChaincode, VerificationLog, FiniteSets

CONSTANTS
  Tokens,       \* session identifiers; wallets draw them at random
  Wallets,      \* concurrent generate requests
  Verifiers,    \* concurrent resolve requests
  TTL,          \* lifetime of a session
  MaxNow,       \* bound: end of the clock
  MaxSessions,  \* bound: sessions inserted
  MaxMoves,     \* bound: transactions of the environment
  MayFail       \* whether MySQL or the chain read may fail

ASSUME SessionBounds ==
  /\ {TTL, MaxNow, MaxSessions, MaxMoves} \subseteq Nat
  /\ Expiries \subseteq Nat
  /\ MayFail \in BOOLEAN

\* There is a holder with a wallet to start from.
ASSUME SessionStart == HolderIDs # {} /\ WalletKeys # {} /\ Bodies # {}

VARIABLES
  sessions,  \* MySQL mobile_sessions
  gen,       \* generate requests
  res,       \* resolve requests
  now,
  log,       \* MySQL verification_logs, each row with its session
  serial,    \* ghost: sessions inserted so far
  verdicts,  \* ghost: verdicts each session has got: none, one, or 2 for more
  closed,    \* ghost: sessions whose verdict was answered and deletion done
  lost,      \* ghost: sessions deleted before they got a verdict
  unlogged,  \* ghost: sessions with a verdict whose row was lost
  moves      \* ghost: transactions of the environment so far

logVars == <<log, unlogged>>
sessionVars ==
  <<world, sessions, gen, res, now, serial, verdicts, closed, lost, moves, logVars>>

Presentations == [cred : CredIDs, key : WalletKeys, honest : BOOLEAN]

NoSession == [serial |-> 0]
\* (Mutant: the deadline is not stored.)
SessionMutant(pres, n) == [serial |-> n, pres |-> pres]
Session(pres, n) == [serial |-> n, pres |-> pres, expires |-> now + TTL]

NoGen == [pc |-> "idle"]
NoRes == [pc |-> "idle"]

-----------------------------------------------------------------------------
(* verifyPresentation. *)

Reasons == <<"REVOKED", "SUSPENDED", "EXPIRED", "SIGNATURE_INVALID", "HASH_MISMATCH",
             "FIELD_HASHES_INVALID", "HOLDER_SIGNATURE_INVALID">>

Expired(r) == r.ExpiryDate # 0 /\ now > r.ExpiryDate

\* effectiveStatus: revoked > suspended > expired > active.  (Mutant: the
\* expiry is looked at first.)
EffectiveStatusMutant(r) == IF Expired(r) THEN "expired" ELSE r.Status
EffectiveStatus(r) ==
  IF r.Status = "active" /\ Expired(r) THEN "expired" ELSE r.Status

\* The signature is checked over the commitment made of the record, never over
\* the hash that is stored, which is compared with it apart.  (Mutant: the
\* signature is checked over the stored hash.)
SignatureValidMutant(r) == r.Signed.Signature = r.Signed.CredentialHash
SignatureValid(r) == r.Signed.Signature = CommitmentOf(r)
HashMatches(r)    == r.Signed.CredentialHash = CommitmentOf(r)
HolderSigned(pres, r) == world[r.Holder].WalletKeys = pres.key

\* The branches of the switch that picks the reason, in the source's order.
Branches(pres, r) ==
  LET status == EffectiveStatus(r) IN
  <<status = "revoked", status = "suspended", status = "expired",
    ~SignatureValid(r), ~HashMatches(r), ~pres.honest, ~HolderSigned(pres, r)>>

\* Every check is made; the reason is that of the first branch taken, and a
\* presentation with none is verified.
Reason(pres, r) ==
  LET taken == {i \in 1 .. 7 : Branches(pres, r)[i]} IN
  IF taken = {} THEN ""
  ELSE Reasons[CHOOSE i \in taken : \A j \in taken : i <= j]

\* What is wrong with the presentation, each fault judged by itself; this is
\* the yardstick of VerdictIsRight and not a part of the code.
Failed(pres, r) ==
  {f \in 1 .. 7 :
     \/ f = 1 /\ r.Status = "revoked"
     \/ f = 2 /\ r.Status = "suspended"
     \/ f = 3 /\ Expired(r)
     \/ f = 4 /\ r.Signed.Signature # CommitmentOf(r)
     \/ f = 5 /\ r.Signed.CredentialHash # CommitmentOf(r)
     \/ f = 6 /\ ~pres.honest
     \/ f = 7 /\ ~HolderSigned(pres, r)}

\* VerifyOutcome.  A credential that is not on chain passes no check.
NotFound ==
  [Reason |-> "NOT_FOUND", Status |-> "", ExistsOnChain |-> FALSE, NotRevoked |-> FALSE,
   SignatureValid |-> FALSE, HashMatches |-> FALSE, FieldHashesValid |-> FALSE,
   failed |-> {0}]

Outcome(pres, r) ==
  IF r = NoRecord THEN NotFound
  ELSE [Reason           |-> Reason(pres, r),
        Status           |-> EffectiveStatus(r),
        ExistsOnChain    |-> TRUE,
        NotRevoked       |-> r.Status = "active",
        SignatureValid   |-> SignatureValid(r),
        HashMatches      |-> HashMatches(r),
        FieldHashesValid |-> pres.honest,
        failed           |-> Failed(pres, r)]

-----------------------------------------------------------------------------
\* A holder with a wallet and a credential issued to it.
SessionInit ==
  LET h == CHOOSE h \in HolderIDs : TRUE
      Issued(e) == [Holder |-> h, Body |-> CHOOSE b \in Bodies : TRUE, ExpiryDate |-> e]
      tx(e) == [holder |-> h, body |-> Issued(e).Body, expiry |-> e,
                signed |-> SignCommitment(Issued(e))]
  IN /\ \E e \in Expiries :
          world = [k \in Keys |->
            CASE k = h -> [NewHolder EXCEPT !.WalletKeys = CHOOSE w \in WalletKeys : TRUE]
              [] k \in CredIDs -> NewCredential(tx(e))
              [] OTHER -> NoRecord]
     /\ sessions = [t \in Tokens |-> NoSession]
     /\ gen = [q \in Wallets |-> NoGen]
     /\ res = [p \in Verifiers |-> NoRes]
     /\ now = 0
     /\ log = {}
     /\ unlogged = {}
     /\ serial = 0
     /\ verdicts = [n \in 1 .. MaxSessions |-> 0]
     /\ closed = {}
     /\ lost = {}
     /\ moves = 0

-----------------------------------------------------------------------------
(* handleGenerateOTP, handleGeneratePresentation. *)

\* One of three draws: a token that is in use is drawn again, and after the
\* third the wallet is told to try again, with nothing changed.
DrawToken(q, t) ==
  /\ gen[q].pc = "idle"
  /\ serial < MaxSessions
  /\ sessions[t] = NoSession
  /\ gen' = [gen EXCEPT ![q] = [pc |-> "insert", token |-> t]]
  /\ UNCHANGED <<world, sessions, res, now, serial, verdicts, closed, lost, moves, logVars>>

\* INSERT of what the wallet has posted: the primary key is the second line of
\* defence.  (Mutant: the statement replaces the row.)
FreeMutant(t) == TRUE
Free(t) == sessions[t] = NoSession

InsertSession(q, pres) ==
  /\ gen[q].pc = "insert"
  /\ serial < MaxSessions
  /\ Free(gen[q].token)
  /\ serial' = serial + 1
  /\ sessions' = [sessions EXCEPT ![gen[q].token] = Session(pres, serial')]
  /\ gen' = [gen EXCEPT ![q] = NoGen]
  /\ UNCHANGED <<world, res, now, verdicts, closed, lost, moves, logVars>>

\* A duplicate key, or any other database error: the wallet gets a 500.
InsertSessionFails(q) ==
  /\ gen[q].pc = "insert"
  /\ MayFail \/ ~Free(gen[q].token)
  /\ gen' = [gen EXCEPT ![q] = NoGen]
  /\ UNCHANGED <<world, sessions, res, now, serial, verdicts, closed, lost, moves, logVars>>

-----------------------------------------------------------------------------
(* handleResolveSession. *)

Revoked(w, c) == IsCredential(w, c) /\ w[c].Status = "revoked"

\* An unknown token is a 404, an expired session a 400; neither touches the row.
ReadSession(p, t) ==
  /\ res[p].pc = "idle"
  /\ LET s == sessions[t] IN
     IF s = NoSession \/ now > s.expires
     THEN res' = [res EXCEPT ![p] = NoRes]
     ELSE res' = [res EXCEPT ![p] =
            [pc |-> "chain", token |-> t, n |-> s.serial, pres |-> s.pres,
             revoked |-> Revoked(world, s.pres.cred)]]
  /\ UNCHANGED <<world, sessions, gen, now, serial, verdicts, closed, lost, moves, logVars>>

\* The chain read returns the credential and its holder; the verdict is final.
VerifyOnChain(p) ==
  /\ res[p].pc = "chain"
  /\ LET pres == res[p].pres
         n    == res[p].n
     IN /\ res' = [res EXCEPT ![p] =
                      [pc |-> "log", token |-> res[p].token, n |-> n,
                       revoked |-> res[p].revoked, out |-> Outcome(pres, world[pres.cred])]]
        /\ verdicts' = [verdicts EXCEPT ![n] = IF @ = 0 THEN 1 ELSE 2]
  /\ UNCHANGED <<world, sessions, gen, now, serial, closed, lost, moves, logVars>>

\* The chain cannot be reached: 502, and the session is kept for a retry.
\* (Mutant: the handler cleans up first.)
AfterUnreachableMutant(r) == [pc |-> "delete", token |-> r.token, n |-> r.n, verified |-> FALSE]
AfterUnreachable(r) == NoRes

ChainUnreachable(p) ==
  /\ MayFail
  /\ res[p].pc = "chain"
  /\ res' = [res EXCEPT ![p] = AfterUnreachable(@)]
  /\ UNCHANGED <<world, sessions, gen, now, serial, verdicts, closed, lost, moves, logVars>>

\* logVerificationToDB, which never stops the handler: the key of the row is
\* the millisecond.  (Mutant: failures are not worth a row.)
LoggableMutant(out) == out.Reason = ""
Loggable(out) == TRUE

Logged(r) == [pc |-> "delete", token |-> r.token, n |-> r.n, verified |-> r.out.Reason = ""]

LogVerdict(p) ==
  /\ res[p].pc = "log"
  /\ log' = IF Loggable(res[p].out)
            THEN log \cup {[n |-> res[p].n, row |-> RowOf(res[p].out)]} ELSE log
  /\ res' = [res EXCEPT ![p] = Logged(@)]
  /\ UNCHANGED <<world, sessions, gen, now, serial, verdicts, closed, lost, moves, unlogged>>

\* The insert fails, or finds another row of the same millisecond under its key.
LogVerdictFails(p) ==
  /\ res[p].pc = "log"
  /\ MayFail \/ log # {}
  /\ unlogged' = unlogged \cup {res[p].n}
  /\ res' = [res EXCEPT ![p] = Logged(@)]
  /\ UNCHANGED <<world, sessions, gen, now, serial, verdicts, closed, lost, moves, log>>

\* DELETE ... WHERE id = token, whichever session has that token now.
\* (Mutant: only a successful verification uses the session up.)
UsedUpMutant(verified) == verified
UsedUp(verified) == TRUE

DeleteSession(p) ==
  /\ res[p].pc = "delete"
  /\ LET s == sessions[res[p].token] IN
     /\ sessions' = IF UsedUp(res[p].verified)
                    THEN [sessions EXCEPT ![res[p].token] = NoSession] ELSE sessions
     /\ lost' = IF s # NoSession /\ verdicts[s.serial] = 0
                THEN lost \cup {s.serial} ELSE lost
  /\ closed' = closed \cup {res[p].n}
  /\ res' = [res EXCEPT ![p] = NoRes]
  /\ UNCHANGED <<world, gen, now, serial, verdicts, moves, logVars>>

\* A failed DELETE is only logged.
DeleteSessionFails(p) ==
  /\ MayFail
  /\ res[p].pc = "delete"
  /\ res' = [res EXCEPT ![p] = NoRes]
  /\ UNCHANGED <<world, sessions, gen, now, serial, verdicts, closed, lost, moves, logVars>>

-----------------------------------------------------------------------------
\* The sessions' credentials have been issued, and their identifiers are made
\* of transaction IDs: none of them is issued again, on a new ledger either.
ChainMoves ==
  /\ moves < MaxMoves
  /\ moves' = moves + 1
  /\ \E tx \in Tx \ IssueTx : Execute(tx)
  /\ UNCHANGED <<sessions, gen, res, now, serial, verdicts, closed, lost, logVars>>

\* The network is set up anew and its ledger is empty; the sessions are not.
LedgerReset ==
  /\ moves < MaxMoves
  /\ moves' = moves + 1
  /\ world' = [k \in Keys |-> NoRecord]
  /\ UNCHANGED <<sessions, gen, res, now, serial, verdicts, closed, lost, logVars>>

Tick ==
  /\ now < MaxNow
  /\ now' = now + 1
  /\ UNCHANGED <<world, sessions, gen, res, serial, verdicts, closed, lost, moves, logVars>>

SessionNext ==
  \/ \E q \in Wallets, t \in Tokens : DrawToken(q, t)
  \/ \E q \in Wallets, pres \in Presentations : InsertSession(q, pres)
  \/ \E q \in Wallets : InsertSessionFails(q)
  \/ \E p \in Verifiers, t \in Tokens : ReadSession(p, t)
  \/ \E p \in Verifiers : VerifyOnChain(p)
  \/ \E p \in Verifiers : ChainUnreachable(p)
  \/ \E p \in Verifiers : LogVerdict(p)
  \/ \E p \in Verifiers : LogVerdictFails(p)
  \/ \E p \in Verifiers : DeleteSession(p)
  \/ \E p \in Verifiers : DeleteSessionFails(p)
  \/ ChainMoves
  \/ LedgerReset
  \/ Tick

SessionSpec == SessionInit /\ [][SessionNext]_sessionVars

-----------------------------------------------------------------------------
Sessions ==
  {NoSession} \cup [serial : 1 .. MaxSessions, pres : Presentations, expires : Nat]

\* A session's token serves one session at a time, and every session that has
\* been inserted and not deleted is in the table once.
SessionTypeOK ==
  /\ TypeOK
  /\ sessions \in [Tokens -> Sessions]
  /\ \A t, u \in Tokens :
       sessions[t] # NoSession /\ sessions[t].serial = sessions[u].serial => t = u
  /\ \A p \in Verifiers : res[p].pc \in {"idle", "chain", "log", "delete"}
  /\ unlogged \subseteq 1 .. serial
  /\ now \in 0 .. MaxNow /\ serial \in 0 .. MaxSessions
  /\ closed \subseteq 1 .. serial /\ lost \subseteq 1 .. serial

\* A credential whose revocation had committed when the verifier asked is
\* never verified, whatever happens to it while the request is served and
\* however long before the presentation was signed.  The reason reported is
\* that of the most important failing check, and none is reported exactly when
\* every check passes.
VerdictIsRight ==
  \A p \in Verifiers : res[p].pc = "log" =>
    LET out == res[p].out IN
    /\ res[p].revoked => out.Reason \in {"REVOKED", "NOT_FOUND"}
    /\ IF out.failed = {} THEN out.Reason = ""
       ELSE \E f \in out.failed :
              /\ out.Reason = IF f = 0 THEN "NOT_FOUND" ELSE Reasons[f]
              /\ \A g \in out.failed : f <= g

\* Once a verdict has been answered and the session deleted, no later request
\* gets to see that session: the next scan of the code is a 404.
UsedUpAfterAnswer ==
  [][\A p \in Verifiers :
       res[p].pc # "chain" /\ res'[p].pc = "chain" => res'[p].n \notin closed]_sessionVars

\* A session is never replaced in place: whoever resolves a token sees the
\* presentation of the wallet that was given it, also when two wallets draw
\* the same token at the same time.
TokenKeepsSession ==
  [][\A t \in Tokens :
       sessions[t] # NoSession => sessions'[t] \in {sessions[t], NoSession}]_sessionVars

\* A session is deleted before it has got a verdict only in the wake of
\* overlapping requests: some session was redeemed twice, and the slower of
\* the two deleted by token what another wallet had inserted since.  Chain
\* failures, failed statements and token reuse alone lose nothing.
LostOnlyByOverlap ==
  lost # {} => \E n \in 1 .. MaxSessions : verdicts[n] = 2

\* The verification log is complete: every verdict that was answered has its
\* row, unless a verdict on the session could not be written because the
\* statement failed or its millisecond was taken.  And it is true: a row
\* stands for a verdict that was given, and no session has more rows of
\* different content than verdicts.
VerdictsLogged ==
  /\ \A n \in closed \ unlogged : \E l \in log : l.n = n
  /\ \A l \in log : verdicts[l.n] >= 1
  /\ \A n \in 1 .. MaxSessions : verdicts[n] = 1 => Cardinality({l \in log : l.n = n}) <= 1

\* Besides, what the portal shows of a row later is what the verifier was
\* answered: result, reason and the checks in the detail view (all but
\* hashMatches, which shows the field hashes), the word on the dashboard, and
\* the history under the filter of that result, where "tampered" finds bad
\* signatures only.
HistoryTellsVerdict ==
  /\ VerdictsLogged
  /\ \A p \in Verifiers : res[p].pc = "log" =>
       LET out == res[p].out
           row == RowOf(out)
           d   == Detail(row)
       IN /\ d.result = "valid" <=> out.Reason = ""
          /\ d.reason = out.Reason
          /\ d.existsOnChain = out.ExistsOnChain /\ d.notRevoked = out.NotRevoked
          /\ d.signatureValid = out.SignatureValid
          /\ RecentStatus(row) = "VALID" <=> out.Reason = ""
          /\ \A f \in Filters \ {""} :
               IF f = "tampered"
               THEN Selects(f, row) <=> out.Reason = "SIGNATURE_INVALID"
               ELSE Selects(f, row) <=> d.result = f

\* The end-to-end test claims that sessions are single-use: one verdict each.
SingleUse == \A n \in 1 .. MaxSessions : verdicts[n] <= 1
=============================================================================
