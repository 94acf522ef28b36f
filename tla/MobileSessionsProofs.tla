------------------------ MODULE MobileSessionsProofs ------------------------
(***************************************************************************)
(* Presentation sessions are single-use as far as the code can promise it, *)
(* their verdicts are right, and the log tells them later as they were     *)
(* answered, for every number of tokens, wallets, verifiers, credentials   *)
(* and sessions.                                                           *)
(***************************************************************************)
EXTENDS MobileSessions, QChaincodeProofs, FiniteSetTheorems

-----------------------------------------------------------------------------
(* The inductive invariant. *)

\* Requests carry what the handlers put into them, and no serial number is
\* ahead of the counter.
RequestsTyped ==
  /\ DOMAIN gen = Wallets
  /\ \A q \in Wallets : gen[q].pc = "insert" => gen[q].token \in Tokens
  /\ DOMAIN res = Verifiers
  /\ \A p \in Verifiers :
       /\ res[p].pc # "idle" => res[p].token \in Tokens /\ res[p].n \in 1 .. serial
       /\ res[p].pc = "chain" => res[p].pres \in Presentations
  /\ \A t \in Tokens : sessions[t].serial <= serial
  /\ verdicts \in [1 .. MaxSessions -> 0 .. 2]

\* The session a request has read is under the token it was asked for, or
\* nowhere.
RequestNamesSession ==
  \A p \in Verifiers, t \in Tokens :
    res[p].pc # "idle" /\ sessions[t].serial = res[p].n => t = res[p].token

\* A session whose verdict was answered and deletion done is not in the table.
ClosedIsGone == \A t \in Tokens : sessions[t].serial \notin closed

\* A revocation seen when the request came is still there when the chain is
\* read, unless the ledger was set up anew.
RevocationStands ==
  \A p \in Verifiers : res[p].pc = "chain" /\ res[p].revoked =>
    LET c == res[p].pres.cred IN world[c] = NoRecord \/ Revoked(world, c)

\* While no session has got two verdicts, nothing is lost, and whoever is about
\* to delete a token deletes the session it has given the verdict on.
Answering(p) == res[p].pc \in {"log", "delete"}

Overlap == \E n \in 1 .. MaxSessions : verdicts[n] = 2

Orderly ==
  /\ lost = {}
  /\ \A p \in Verifiers : Answering(p) =>
       verdicts[res[p].n] = 1 /\ sessions[res[p].token].serial = res[p].n
  /\ \A p, o \in Verifiers :
       Answering(p) /\ Answering(o) /\ res[p].n = res[o].n => p = o
  /\ \A p \in Verifiers : res[p].pc = "chain" =>
       verdicts[res[p].n] = 1 \/ sessions[res[p].token].serial = res[p].n

OrderlyOrOverlap == Overlap \/ Orderly

SessionInv ==
  /\ SessionTypeOK
  /\ RequestsTyped
  /\ RequestNamesSession
  /\ ClosedIsGone
  /\ RevocationStands
  /\ VerdictIsRight
  /\ OrderlyOrOverlap

-----------------------------------------------------------------------------
(* The reason of a verdict. *)

LEMMA LeastOfSeven ==
  ASSUME NEW S \in SUBSET (1 .. 7), S # {}
  PROVE  \E m \in S : \A j \in S : m <= j
<1>1. CASE 1 \in S
  BY <1>1
<1>2. CASE 1 \notin S /\ 2 \in S
  BY <1>2
<1>3. CASE 1 \notin S /\ 2 \notin S /\ 3 \in S
  BY <1>3
<1>4. CASE 1 \notin S /\ 2 \notin S /\ 3 \notin S /\ 4 \in S
  BY <1>4
<1>5. CASE 1 \notin S /\ 2 \notin S /\ 3 \notin S /\ 4 \notin S /\ 5 \in S
  BY <1>5
<1>6. CASE 1 \notin S /\ 2 \notin S /\ 3 \notin S /\ 4 \notin S /\ 5 \notin S /\ 6 \in S
  BY <1>6
<1>7. CASE /\ 1 \notin S /\ 2 \notin S /\ 3 \notin S
           /\ 4 \notin S /\ 5 \notin S /\ 6 \notin S
  <2>1. \A j \in S : j = 7
    BY <1>7
  <2>2. PICK k \in S : TRUE
    OBVIOUS
  <2>3. k = 7 /\ 7 \in S
    BY <2>1, <2>2
  <2> QED
    BY <2>1, <2>3
<1> QED
  BY <1>1, <1>2, <1>3, <1>4, <1>5, <1>6, <1>7

\* The reason is that of the least branch taken.
LEMMA ReasonIsLeast ==
  ASSUME NEW pres, NEW r, NEW m \in 1 .. 7, Branches(pres, r)[m],
         \A j \in 1 .. 7 : Branches(pres, r)[j] => m <= j
  PROVE  Reason(pres, r) = Reasons[m]
<1> DEFINE taken == {i \in 1 .. 7 : Branches(pres, r)[i]}
<1>1. m \in taken /\ taken \subseteq Nat /\ \A j \in taken : m <= j
  OBVIOUS
<1>2. (CHOOSE i \in taken : \A j \in taken : i <= j) = m
  <2> DEFINE c == CHOOSE i \in taken : \A j \in taken : i <= j
  <2> HIDE DEF taken
  <2>1. c \in taken /\ \A j \in taken : c <= j
    BY <1>1
  <2> HIDE DEF c
  <2>2. c = m
    BY <1>1, <2>1
  <2> QED
    BY <2>2 DEF c
<1>3. taken # {}
  BY <1>1
<1> QED
  BY <1>2, <1>3 DEF Reason

\* The branch whose reason is reported is the least fault: a credential that is
\* not active is not looked at for its expiry, but it has a worse fault.
LEMMA OutcomeIsRight ==
  ASSUME NEW pres, NEW r \in {NoRecord} \cup CredentialRecords
  PROVE  LET out == Outcome(pres, r) IN
         IF out.failed = {} THEN out.Reason = ""
         ELSE \E f \in out.failed :
                /\ out.Reason = IF f = 0 THEN "NOT_FOUND" ELSE Reasons[f]
                /\ \A g \in out.failed : f <= g
<1>1. CASE r = NoRecord
  BY <1>1 DEF Outcome, NotFound
<1>2. CASE r \in CredentialRecords
  <2> DEFINE B == Branches(pres, r)
             F == Failed(pres, r)
  <2>1. r # NoRecord /\ r.Status \in {"active", "suspended", "revoked"}
    BY <1>2 DEF CredentialRecords, NoRecord
  <2>2. /\ B[1] <=> 1 \in F
        /\ B[2] <=> 2 \in F
        /\ B[3] => 3 \in F
        /\ 3 \in F => B[1] \/ B[2] \/ B[3]
        /\ B[4] <=> 4 \in F
        /\ B[5] <=> 5 \in F
        /\ B[6] <=> 6 \in F
        /\ B[7] <=> 7 \in F
    <3>1. /\ 1 \in F <=> r.Status = "revoked"
          /\ 2 \in F <=> r.Status = "suspended"
          /\ 3 \in F <=> Expired(r)
          /\ 4 \in F <=> ~SignatureValid(r)
          /\ 5 \in F <=> ~HashMatches(r)
          /\ 6 \in F <=> ~pres.honest
          /\ 7 \in F <=> ~HolderSigned(pres, r)
      BY DEF Failed, SignatureValid, HashMatches
    <3>2. /\ B[1] = (EffectiveStatus(r) = "revoked")
          /\ B[2] = (EffectiveStatus(r) = "suspended")
          /\ B[3] = (EffectiveStatus(r) = "expired")
          /\ B[4] = ~SignatureValid(r)
          /\ B[5] = ~HashMatches(r)
          /\ B[6] = ~pres.honest
          /\ B[7] = ~HolderSigned(pres, r)
      BY DEF Branches
    <3> QED
      BY <2>1, <3>1, <3>2 DEF EffectiveStatus
  <2>3. F \in SUBSET (1 .. 7)
    BY DEF Failed
  <2> HIDE DEF F, B
  <2>4. Outcome(pres, r).failed = F /\ Outcome(pres, r).Reason = Reason(pres, r)
    BY <2>1 DEF Outcome, F
  <2>5. CASE F = {}
    <3>1. {i \in 1 .. 7 : B[i]} = {}
      BY <2>2, <2>5
    <3> QED
      BY <2>4, <2>5, <3>1 DEF Reason, B
  <2>6. CASE F # {}
    <3>1. PICK m \in F : \A j \in F : m <= j
      BY <2>3, <2>6, LeastOfSeven
    <3>2. B[m] /\ m \in 1 .. 7 /\ \A j \in 1 .. 7 : B[j] => m <= j
      BY <2>2, <2>3, <3>1
    <3>3. Reason(pres, r) = Reasons[m] /\ m # 0
      BY <3>2, ReasonIsLeast DEF B
    <3>4. Outcome(pres, r).Reason = IF m = 0 THEN "NOT_FOUND" ELSE Reasons[m]
      BY <2>4, <3>3
    <3> QED
      BY <2>4, <2>6, <3>1, <3>4
  <2> QED
    BY <2>5, <2>6
<1> QED
  BY <1>1, <1>2

\* A revoked credential, and one that is not on chain, is reported as such.
LEMMA RevokedIsReported ==
  ASSUME NEW pres, NEW r, r = NoRecord \/ r.Status = "revoked"
  PROVE  Outcome(pres, r).Reason \in {"REVOKED", "NOT_FOUND"}
<1>1. CASE r = NoRecord
  BY <1>1 DEF Outcome, NotFound
<1>2. CASE r # NoRecord
  <2>1. Branches(pres, r)[1]
    BY <1>2 DEF Branches, EffectiveStatus
  <2>2. Reason(pres, r) = "REVOKED"
    BY <2>1, ReasonIsLeast DEF Reasons
  <2> QED
    BY <1>2, <2>2 DEF Outcome
<1> QED
  BY <1>1, <1>2

-----------------------------------------------------------------------------
(* Type correctness. *)

\* What the session handlers do with the chain: read it.
LEMMA WorldTyped == ASSUME TypeOK, SessionNext PROVE TypeOK'
<1>1. CASE ChainMoves
  BY <1>1, TypePreserved DEF ChainMoves
<1>2. CASE LedgerReset
  BY <1>2 DEF LedgerReset, TypeOK, Keys, Records
<1>3. CASE UNCHANGED world
  BY <1>3 DEF TypeOK
<1> QED
  BY <1>1, <1>2, <1>3
     DEF SessionNext, DrawToken, InsertSession, InsertSessionFails, ReadSession,
         VerifyOnChain, ChainUnreachable, LogVerdict, LogVerdictFails,
         DeleteSession, DeleteSessionFails, Tick

\* The tables and the counters.
TablesTyped ==
  /\ sessions \in [Tokens -> Sessions]
  /\ \A t, u \in Tokens :
       sessions[t] # NoSession /\ sessions[t].serial = sessions[u].serial => t = u
  /\ \A p \in Verifiers : res[p].pc \in {"idle", "chain", "log", "delete"}
  /\ unlogged \subseteq 1 .. serial
  /\ now \in 0 .. MaxNow /\ serial \in 0 .. MaxSessions
  /\ closed \subseteq 1 .. serial /\ lost \subseteq 1 .. serial

LEMMA SessionTypeParts == SessionTypeOK <=> TypeOK /\ TablesTyped
  BY DEF SessionTypeOK, TablesTyped

\* A session in the table has a number, and the number 0 says there is none.
LEMMA SerialTells ==
  ASSUME TablesTyped, NEW t \in Tokens
  PROVE  /\ sessions[t].serial \in 0 .. MaxSessions
         /\ sessions[t] = NoSession <=> sessions[t].serial = 0
<1>1. sessions[t] \in Sessions
  BY DEF TablesTyped
<1> QED
  BY <1>1, SessionBounds DEF Sessions, NoSession

\* A new session is one.
LEMMA InsertedIsSession ==
  ASSUME TablesTyped, NEW pres \in Presentations, NEW n \in 1 .. MaxSessions
  PROVE  Session(pres, n) \in Sessions /\ Session(pres, n).serial = n
  BY SessionBounds DEF TablesTyped, Session, Sessions

LEMMA InsertTyped ==
  ASSUME TablesTyped, RequestsTyped, NEW q \in Wallets, NEW pres \in Presentations,
         InsertSession(q, pres)
  PROVE  TablesTyped' /\ RequestsTyped'
<1> DEFINE k == gen[q].token
<1>1. /\ k \in Tokens
      /\ serial \in Nat /\ serial' = serial + 1 /\ serial' \in 1 .. MaxSessions
      /\ sessions' = [sessions EXCEPT ![k] = Session(pres, serial')]
      /\ gen' = [gen EXCEPT ![q] = NoGen]
  BY SessionBounds DEF TablesTyped, RequestsTyped, InsertSession
<1>2. Session(pres, serial') \in Sessions /\ Session(pres, serial').serial = serial'
  BY <1>1, InsertedIsSession
<1> HIDE DEF k
<1>3. sessions' \in [Tokens -> Sessions]
  BY <1>1, <1>2 DEF TablesTyped
<1>4. \A t \in Tokens : sessions'[t].serial = IF t = k THEN serial' ELSE sessions[t].serial
  BY <1>1, <1>2 DEF TablesTyped
<1>5. \A t \in Tokens : t # k => sessions'[t] = sessions[t]
  BY <1>1 DEF TablesTyped
<1>6. \A t \in Tokens : sessions[t].serial \in Nat /\ sessions[t].serial <= serial
  BY SerialTells, SessionBounds DEF RequestsTyped
<1>7. \A t, u \in Tokens :
        sessions'[t] # NoSession /\ sessions'[t].serial = sessions'[u].serial => t = u
  BY <1>1, <1>4, <1>5, <1>6 DEF TablesTyped
<1>8. TablesTyped'
  <2>1. 1 .. serial \subseteq 1 .. serial' /\ serial' \in 0 .. MaxSessions
    BY <1>1
  <2>2. UNCHANGED <<res, unlogged, now, closed, lost>>
    BY DEF InsertSession, logVars
  <2> QED
    BY <1>3, <1>7, <2>1, <2>2 DEF TablesTyped
<1>9. RequestsTyped'
  <2>1. DOMAIN gen' = Wallets /\ \A w \in Wallets : gen'[w].pc = "insert" => gen'[w].token \in Tokens
    BY <1>1 DEF RequestsTyped, NoGen
  <2>2. \A p \in Verifiers : res[p].pc # "idle" => res[p].n \in 1 .. serial'
    BY <1>1 DEF RequestsTyped
  <2>3. \A t \in Tokens : sessions'[t].serial <= serial'
    BY <1>1, <1>4, <1>6
  <2> QED
    BY <2>1, <2>2, <2>3 DEF RequestsTyped, InsertSession
<1> QED
  BY <1>8, <1>9

\* A step of one resolve request: the token and the number it carries are those
\* it had, or those of the session it has found.
LEMMA ResolveTyped ==
  ASSUME TablesTyped, RequestsTyped, NEW p \in Verifiers, NEW r,
         res' = [res EXCEPT ![p] = r],
         r.pc \in {"idle", "chain", "log", "delete"},
         r.pc # "idle" => r.token \in Tokens /\ r.n \in 1 .. serial,
         r.pc = "chain" => r.pres \in Presentations,
         UNCHANGED <<gen, serial, now>>,
         sessions' \in [Tokens -> Sessions],
         \A t \in Tokens : sessions'[t] \in {sessions[t], NoSession},
         unlogged' \subseteq 1 .. serial, closed' \subseteq 1 .. serial,
         lost' \subseteq 1 .. serial, verdicts' \in [1 .. MaxSessions -> 0 .. 2]
  PROVE  TablesTyped' /\ RequestsTyped'
<1>1. \A o \in Verifiers : res'[o] = IF o = p THEN r ELSE res[o]
  BY DEF RequestsTyped
<1>2. DOMAIN res' = Verifiers
  BY DEF RequestsTyped
<1>3. \A t \in Tokens : sessions'[t].serial = sessions[t].serial \/ sessions'[t] = NoSession
  OBVIOUS
<1>4. \A t, u \in Tokens :
        sessions'[t] # NoSession /\ sessions'[t].serial = sessions'[u].serial => t = u
  <2> SUFFICES ASSUME NEW t \in Tokens, NEW u \in Tokens, sessions'[t] # NoSession,
                      sessions'[t].serial = sessions'[u].serial
               PROVE  t = u
    OBVIOUS
  <2>1. sessions'[t] = sessions[t] /\ sessions[t].serial # 0
    BY SerialTells
  <2>2. sessions'[u] = sessions[u]
    BY <2>1 DEF NoSession
  <2> QED
    BY <2>1, <2>2 DEF TablesTyped
<1>5. TablesTyped'
  <2>1. \A o \in Verifiers : res'[o].pc \in {"idle", "chain", "log", "delete"}
    BY <1>1 DEF TablesTyped
  <2> QED
    BY <1>4, <2>1 DEF TablesTyped
<1>6. RequestsTyped'
  <2>1. \A t \in Tokens : sessions'[t].serial <= serial'
    <3> TAKE t \in Tokens
    <3>1. serial \in Nat /\ sessions[t].serial <= serial
      BY SessionBounds DEF TablesTyped, RequestsTyped
    <3> QED
      BY <1>3, <3>1 DEF NoSession
  <2> QED
    BY <1>1, <1>2, <2>1 DEF RequestsTyped
<1> QED
  BY <1>5, <1>6

LEMMA ReadTyped ==
  ASSUME TablesTyped, RequestsTyped, NEW p \in Verifiers, NEW t \in Tokens, ReadSession(p, t)
  PROVE  TablesTyped' /\ RequestsTyped'
<1>1. CASE res' = [res EXCEPT ![p] = NoRes]
  BY <1>1, ResolveTyped DEF ReadSession, NoRes, TablesTyped, RequestsTyped, logVars
<1>2. CASE res' # [res EXCEPT ![p] = NoRes]
  <2> DEFINE s == sessions[t]
             r == [pc |-> "chain", token |-> t, n |-> s.serial, pres |-> s.pres,
                   revoked |-> Revoked(world, s.pres.cred)]
  <2>1. s # NoSession /\ res' = [res EXCEPT ![p] = r]
    BY <1>2 DEF ReadSession
  <2>2. s.serial \in 1 .. serial /\ s.pres \in Presentations
    BY <2>1, SessionBounds DEF TablesTyped, RequestsTyped, Sessions
  <2> QED
    BY <2>1, <2>2, ResolveTyped DEF ReadSession, TablesTyped, RequestsTyped, logVars
<1> QED
  BY <1>1, <1>2

LEMMA VerifyTyped ==
  ASSUME TablesTyped, RequestsTyped, NEW p \in Verifiers, VerifyOnChain(p)
  PROVE  TablesTyped' /\ RequestsTyped'
<1> DEFINE n == res[p].n
           r == [pc |-> "log", token |-> res[p].token, n |-> n, revoked |-> res[p].revoked,
                 out |-> Outcome(res[p].pres, world[res[p].pres.cred])]
<1>1. res[p].token \in Tokens /\ n \in 1 .. serial
  BY DEF RequestsTyped, VerifyOnChain
<1>2. verdicts' \in [1 .. MaxSessions -> 0 .. 2]
  <2> DEFINE v == IF verdicts[n] = 0 THEN 1 ELSE 2
  <2>1. v \in 0 .. 2 /\ verdicts' = [verdicts EXCEPT ![n] = v]
    BY DEF VerifyOnChain
  <2> HIDE DEF v
  <2> QED
    BY <2>1 DEF RequestsTyped
<1>3. res' = [res EXCEPT ![p] = r] /\ UNCHANGED <<sessions, gen, now, serial, closed, lost, unlogged>>
  BY DEF VerifyOnChain, logVars
<1> QED
  BY <1>1, <1>2, <1>3, ResolveTyped DEF TablesTyped, RequestsTyped

LEMMA LogTyped ==
  ASSUME TablesTyped, RequestsTyped, NEW p \in Verifiers, LogVerdict(p) \/ LogVerdictFails(p)
  PROVE  TablesTyped' /\ RequestsTyped'
<1>1. res[p].token \in Tokens /\ res[p].n \in 1 .. serial
  BY DEF RequestsTyped, LogVerdict, LogVerdictFails
<1>2. res' = [res EXCEPT ![p] = Logged(res[p])]
  BY DEF LogVerdict, LogVerdictFails
<1>3. /\ unlogged' \subseteq 1 .. serial
      /\ UNCHANGED <<sessions, gen, now, serial, closed, lost, verdicts>>
  BY <1>1 DEF LogVerdict, LogVerdictFails, TablesTyped
<1> QED
  BY <1>1, <1>2, <1>3, ResolveTyped DEF Logged, TablesTyped, RequestsTyped

LEMMA DeleteTyped ==
  ASSUME TablesTyped, RequestsTyped, NEW p \in Verifiers, DeleteSession(p)
  PROVE  TablesTyped' /\ RequestsTyped'
<1> DEFINE k == res[p].token
<1>1. k \in Tokens /\ res[p].n \in 1 .. serial
  BY DEF RequestsTyped, DeleteSession
<1>2. /\ sessions' = [sessions EXCEPT ![k] = NoSession]
      /\ res' = [res EXCEPT ![p] = NoRes]
      /\ closed' = closed \cup {res[p].n}
      /\ UNCHANGED <<gen, now, serial, verdicts, unlogged>>
  BY DEF DeleteSession, UsedUp, logVars
<1>3. sessions' \in [Tokens -> Sessions]
  BY <1>2 DEF TablesTyped, Sessions
<1>4. \A t \in Tokens : sessions'[t] \in {sessions[t], NoSession}
  BY <1>2 DEF TablesTyped
<1>5. lost' \subseteq 1 .. serial
  <2>1. sessions[k] # NoSession => sessions[k].serial \in 1 .. serial
    BY <1>1, SerialTells, SessionBounds DEF RequestsTyped, TablesTyped
  <2> QED
    BY <2>1 DEF DeleteSession, TablesTyped
<1>6. closed' \subseteq 1 .. serial
  BY <1>1, <1>2 DEF TablesTyped
<1> QED
  BY <1>2, <1>3, <1>4, <1>5, <1>6, ResolveTyped DEF NoRes, TablesTyped, RequestsTyped

\* Every step keeps the types.
LEMMA TypedStep ==
  ASSUME SessionTypeOK, RequestsTyped, SessionNext
  PROVE  SessionTypeOK' /\ RequestsTyped'
<1>1. TypeOK' /\ TablesTyped
  BY WorldTyped, SessionTypeParts
<1>2. (SessionTypeOK <=> TypeOK /\ TablesTyped)'
  BY SessionTypeParts, PTL
<1>3. ASSUME NEW q \in Wallets, NEW t \in Tokens, DrawToken(q, t)
      PROVE  TablesTyped' /\ RequestsTyped'
  BY <1>1, <1>3 DEF DrawToken, TablesTyped, RequestsTyped, logVars
<1>4. ASSUME NEW q \in Wallets, InsertSessionFails(q)
      PROVE  TablesTyped' /\ RequestsTyped'
  BY <1>1, <1>4 DEF InsertSessionFails, NoGen, TablesTyped, RequestsTyped, logVars
<1>5. ASSUME NEW p \in Verifiers, ChainUnreachable(p) \/ DeleteSessionFails(p)
      PROVE  TablesTyped' /\ RequestsTyped'
  BY <1>1, <1>5, ResolveTyped
     DEF ChainUnreachable, DeleteSessionFails, AfterUnreachable, NoRes, TablesTyped,
         RequestsTyped, logVars
<1>6. ASSUME ChainMoves \/ LedgerReset
      PROVE  TablesTyped' /\ RequestsTyped'
  BY <1>1, <1>6 DEF ChainMoves, LedgerReset, TablesTyped, RequestsTyped, logVars
<1>7. ASSUME Tick
      PROVE  TablesTyped' /\ RequestsTyped'
  BY <1>1, <1>7, SessionBounds DEF Tick, TablesTyped, RequestsTyped, logVars
<1>8. TablesTyped' /\ RequestsTyped'
  BY <1>1, <1>3, <1>4, <1>5, <1>6, <1>7, InsertTyped, ReadTyped, VerifyTyped, LogTyped,
     DeleteTyped DEF SessionNext
<1> QED
  BY <1>1, <1>2, <1>8

-----------------------------------------------------------------------------
(* Where the session of a request is. *)

\* Steps that touch neither a session nor a resolve request.
QuietStep == UNCHANGED <<sessions, res, serial, verdicts, closed, lost>>

LEMMA QuietSteps ==
  /\ \A q \in Wallets, t \in Tokens : DrawToken(q, t) => QuietStep
  /\ \A q \in Wallets : InsertSessionFails(q) => QuietStep
  /\ ChainMoves \/ LedgerReset \/ Tick => QuietStep
  BY DEF QuietStep, DrawToken, InsertSessionFails, ChainMoves, LedgerReset, Tick

\* Steps by which a request goes on with the session it has, or ends.
GoesOn(p) ==
  /\ res[p].pc # "idle"
  /\ \A o \in Verifiers \ {p} : res'[o] = res[o]
  /\ res'[p].pc # "idle" => res'[p].token = res[p].token /\ res'[p].n = res[p].n
  /\ res'[p].pc # "chain"
  /\ \A t \in Tokens : sessions'[t] \in {sessions[t], NoSession}
  /\ serial' = serial

LEMMA GoingOn ==
  ASSUME SessionTypeOK, RequestsTyped, NEW p \in Verifiers,
         \/ VerifyOnChain(p) \/ ChainUnreachable(p) \/ LogVerdict(p)
         \/ LogVerdictFails(p) \/ DeleteSession(p) \/ DeleteSessionFails(p)
  PROVE  GoesOn(p)
<1> USE DEF GoesOn, RequestsTyped, NoRes
<1>1. CASE VerifyOnChain(p)
  BY <1>1 DEF VerifyOnChain
<1>2. CASE ChainUnreachable(p)
  BY <1>2 DEF ChainUnreachable, AfterUnreachable
<1>3. CASE LogVerdict(p) \/ LogVerdictFails(p)
  <2>1. /\ res[p].pc = "log" /\ res' = [res EXCEPT ![p] = Logged(res[p])]
        /\ sessions' = sessions /\ serial' = serial
    BY <1>3 DEF LogVerdict, LogVerdictFails
  <2> QED
    BY <2>1 DEF Logged
<1>4. CASE DeleteSession(p)
  <2>1. /\ res[p].pc = "delete" /\ res' = [res EXCEPT ![p] = NoRes]
        /\ sessions' = [sessions EXCEPT ![res[p].token] = NoSession]
        /\ serial' = serial
    BY <1>4 DEF DeleteSession, UsedUp
  <2>2. \A t \in Tokens : sessions'[t] \in {sessions[t], NoSession}
    BY <2>1 DEF SessionTypeOK
  <2> QED
    BY <2>1, <2>2
<1>5. CASE DeleteSessionFails(p)
  BY <1>5 DEF DeleteSessionFails
<1> QED
  BY <1>1, <1>2, <1>3, <1>4, <1>5

\* What an insertion does to the numbers in the table.
LEMMA InsertedNumbers ==
  ASSUME SessionTypeOK, RequestsTyped, NEW q \in Wallets, NEW pres \in Presentations,
         InsertSession(q, pres)
  PROVE  /\ serial \in Nat /\ serial' = serial + 1
         /\ UNCHANGED <<res, verdicts, closed, lost>>
         /\ sessions[gen[q].token].serial = 0
         /\ \A t \in Tokens : sessions'[t].serial =
              IF t = gen[q].token THEN serial' ELSE sessions[t].serial
<1> DEFINE k == gen[q].token
<1>1. /\ k \in Tokens
      /\ serial \in Nat /\ serial' = serial + 1
      /\ sessions' = [sessions EXCEPT ![k] = Session(pres, serial')]
      /\ sessions[k].serial = 0
  BY SessionBounds DEF SessionTypeOK, RequestsTyped, InsertSession, Free, NoSession
<1>2. Session(pres, serial').serial = serial'
  BY DEF Session
<1> HIDE DEF k
<1>3. \A t \in Tokens : sessions'[t].serial = IF t = k THEN serial' ELSE sessions[t].serial
  BY <1>1, <1>2 DEF SessionTypeOK
<1> QED
  BY <1>1, <1>3 DEF k, InsertSession

\* What a request finds is the session of its token.
LEMMA FoundSession ==
  ASSUME RequestsTyped, NEW p \in Verifiers, NEW t \in Tokens, ReadSession(p, t)
  PROVE  /\ UNCHANGED <<sessions, serial, verdicts, closed, lost>>
         /\ \A o \in Verifiers \ {p} : res'[o] = res[o]
         /\ \/ res'[p] = NoRes
            \/ /\ sessions[t] # NoSession
               /\ res'[p].pc = "chain"
               /\ res'[p].token = t
               /\ res'[p].n = sessions[t].serial
               /\ res'[p].pres = sessions[t].pres
               /\ res'[p].revoked = Revoked(world, sessions[t].pres.cred)
  BY DEF RequestsTyped, ReadSession

LEMMA NamesStep ==
  ASSUME SessionTypeOK, RequestsTyped, RequestNamesSession, SessionNext
  PROVE  RequestNamesSession'
<1>1. ASSUME QuietStep PROVE RequestNamesSession'
  BY <1>1 DEF QuietStep, RequestNamesSession
<1>2. ASSUME NEW q \in Wallets, NEW pres \in Presentations, InsertSession(q, pres)
      PROVE  RequestNamesSession'
  <2>1. \A p \in Verifiers : res[p].pc # "idle" => res[p].n \in Nat /\ res[p].n # serial'
    BY <1>2, InsertedNumbers DEF RequestsTyped
  <2> QED
    BY <1>2, <2>1, InsertedNumbers DEF RequestNamesSession
<1>3. ASSUME NEW p \in Verifiers, NEW t \in Tokens, ReadSession(p, t)
      PROVE  RequestNamesSession'
  BY <1>3, FoundSession DEF RequestNamesSession, SessionTypeOK, NoRes
<1>4. ASSUME NEW p \in Verifiers, GoesOn(p)
      PROVE  RequestNamesSession'
  <2> SUFFICES ASSUME NEW o \in Verifiers, NEW t \in Tokens,
                      res'[o].pc # "idle", sessions'[t].serial = res'[o].n
               PROVE  t = res'[o].token
    BY DEF RequestNamesSession
  <2>1. res[o].pc # "idle" /\ res'[o].token = res[o].token /\ res'[o].n = res[o].n
    BY <1>4 DEF GoesOn
  <2>2. res[o].n # 0
    BY <2>1 DEF RequestsTyped
  <2>3. sessions'[t] = sessions[t]
    BY <1>4, <2>1, <2>2 DEF GoesOn, NoSession
  <2> QED
    BY <2>1, <2>3 DEF RequestNamesSession
<1> QED
  BY <1>1, <1>2, <1>3, <1>4, QuietSteps, GoingOn DEF SessionNext

\* A session whose verdict was answered and deletion done never comes back.
LEMMA ClosedStep ==
  ASSUME SessionTypeOK, RequestsTyped, RequestNamesSession, ClosedIsGone, SessionNext
  PROVE  ClosedIsGone'
<1>0. 0 \notin closed
  BY DEF SessionTypeOK
<1>1. ASSUME QuietStep PROVE ClosedIsGone'
  BY <1>1 DEF QuietStep, ClosedIsGone
<1>2. ASSUME NEW q \in Wallets, NEW pres \in Presentations, InsertSession(q, pres)
      PROVE  ClosedIsGone'
  <2>1. serial' \notin closed
    BY <1>2, InsertedNumbers DEF SessionTypeOK
  <2> QED
    BY <1>2, <2>1, InsertedNumbers DEF ClosedIsGone
<1>3. ASSUME NEW p \in Verifiers, NEW t \in Tokens, ReadSession(p, t)
      PROVE  ClosedIsGone'
  BY <1>3, FoundSession DEF ClosedIsGone
<1>4. ASSUME NEW p \in Verifiers, GoesOn(p), closed' = closed
      PROVE  ClosedIsGone'
  BY <1>0, <1>4 DEF ClosedIsGone, GoesOn, NoSession
<1>5. ASSUME NEW p \in Verifiers, DeleteSession(p)
      PROVE  ClosedIsGone'
  <2> SUFFICES ASSUME NEW t \in Tokens
               PROVE  sessions'[t].serial \notin closed'
    BY DEF ClosedIsGone
  <2>1. /\ res[p].pc # "idle" /\ res[p].token \in Tokens /\ res[p].n # 0
        /\ sessions' = [sessions EXCEPT ![res[p].token] = NoSession]
        /\ closed' = closed \cup {res[p].n}
    BY <1>5 DEF DeleteSession, UsedUp, RequestsTyped
  <2>2. CASE t = res[p].token
    BY <1>0, <2>1, <2>2 DEF SessionTypeOK, NoSession
  <2>3. CASE t # res[p].token
    BY <2>1, <2>3 DEF SessionTypeOK, ClosedIsGone, RequestNamesSession
  <2> QED
    BY <2>2, <2>3
<1>6. \A p \in Verifiers :
        VerifyOnChain(p) \/ ChainUnreachable(p) \/ LogVerdict(p) \/ LogVerdictFails(p)
          \/ DeleteSessionFails(p) => closed' = closed
  BY DEF VerifyOnChain, ChainUnreachable, LogVerdict, LogVerdictFails, DeleteSessionFails
<1> QED
  BY <1>1, <1>2, <1>3, <1>4, <1>5, <1>6, QuietSteps, GoingOn DEF SessionNext

-----------------------------------------------------------------------------
(* The verdict. *)

\* No transaction brings a credential back that was revoked, and none issues
\* again one that the ledger has lost.
LEMMA ChainKeepsRevocation ==
  ASSUME TypeOK, NEW tx \in Tx \ IssueTx, Execute(tx), NEW c \in CredIDs
  PROVE  /\ world[c] = NoRecord => world'[c] = NoRecord
         /\ Revoked(world, c) => Revoked(world', c)
<1>1. c \in Keys /\ Accepts(world, tx)
  BY DEF Keys, Execute
<1>2. ASSUME world[c] = NoRecord PROVE c # tx.key
  BY <1>1, <1>2, CredentialWrites
     DEF Updatable, Revocable, Suspendable, Restorable, IsCredential, NoRecord
<1>3. FrozenNow
  BY FrozenStep
<1> QED
  BY <1>1, <1>2, <1>3, OthersUntouched DEF FrozenNow, Revoked, IsCredential

LEMMA RevocationStep ==
  ASSUME SessionTypeOK, RequestsTyped, RevocationStands, SessionNext
  PROVE  RevocationStands'
<1>1. ASSUME UNCHANGED <<world, res>> PROVE RevocationStands'
  BY <1>1 DEF RevocationStands, Revoked, IsCredential
<1>2. \A p \in Verifiers : res[p].pc = "chain" => res[p].pres.cred \in CredIDs
  BY DEF RequestsTyped, Presentations
<1>3. ASSUME ChainMoves PROVE RevocationStands'
  <2>1. TypeOK /\ res' = res
    BY <1>3 DEF SessionTypeOK, ChainMoves
  <2>2. PICK tx \in Tx \ IssueTx : Execute(tx)
    BY <1>3 DEF ChainMoves
  <2> QED
    BY <1>2, <2>1, <2>2, ChainKeepsRevocation DEF RevocationStands
<1>4. ASSUME LedgerReset PROVE RevocationStands'
  BY <1>2, <1>4 DEF LedgerReset, RevocationStands, Keys
<1>5. ASSUME NEW p \in Verifiers, NEW t \in Tokens, ReadSession(p, t)
      PROVE  RevocationStands'
  <2>1. /\ world' = world /\ \A o \in Verifiers \ {p} : res'[o] = res[o]
        /\ \/ res'[p] = NoRes
           \/ res'[p].revoked = Revoked(world, res'[p].pres.cred)
    BY <1>5, FoundSession DEF ReadSession
  <2>2. \A c : Revoked(world', c) <=> Revoked(world, c)
    BY <2>1 DEF Revoked, IsCredential
  <2>3. NoRes.pc # "chain"
    BY DEF NoRes
  <2> QED
    BY <2>1, <2>2, <2>3 DEF RevocationStands
<1>6. ASSUME NEW p \in Verifiers, GoesOn(p), world' = world
      PROVE  RevocationStands'
  BY <1>6 DEF RevocationStands, GoesOn, Revoked, IsCredential
<1>7. \A p \in Verifiers :
        VerifyOnChain(p) \/ ChainUnreachable(p) \/ LogVerdict(p) \/ LogVerdictFails(p)
          \/ DeleteSession(p) \/ DeleteSessionFails(p) => world' = world
  BY DEF VerifyOnChain, ChainUnreachable, LogVerdict, LogVerdictFails, DeleteSession,
         DeleteSessionFails
<1>8. /\ \A q \in Wallets, t \in Tokens : DrawToken(q, t) => UNCHANGED <<world, res>>
      /\ \A q \in Wallets, pres \in Presentations :
           InsertSession(q, pres) => UNCHANGED <<world, res>>
      /\ \A q \in Wallets : InsertSessionFails(q) => UNCHANGED <<world, res>>
      /\ Tick => UNCHANGED <<world, res>>
  BY DEF DrawToken, InsertSession, InsertSessionFails, Tick
<1> QED
  BY <1>1, <1>3, <1>4, <1>5, <1>6, <1>7, <1>8, GoingOn DEF SessionNext

\* The verdict of one request.
RightVerdict(r) ==
  r.pc = "log" =>
    LET out == r.out IN
    /\ r.revoked => out.Reason \in {"REVOKED", "NOT_FOUND"}
    /\ IF out.failed = {} THEN out.Reason = ""
       ELSE \E f \in out.failed :
              /\ out.Reason = IF f = 0 THEN "NOT_FOUND" ELSE Reasons[f]
              /\ \A g \in out.failed : f <= g

LEMMA VerdictParts == VerdictIsRight <=> \A p \in Verifiers : RightVerdict(res[p])
  BY DEF VerdictIsRight, RightVerdict

LEMMA NoVerdictYet == ASSUME NEW r, r.pc # "log" PROVE RightVerdict(r)
  BY DEF RightVerdict

LEMMA VerdictGiven ==
  ASSUME SessionTypeOK, RequestsTyped, RevocationStands, NEW p \in Verifiers, VerifyOnChain(p)
  PROVE  RightVerdict(res'[p])
<1> DEFINE pres == res[p].pres
           r == world[pres.cred]
<1>1. /\ res[p].pc = "chain"
      /\ res'[p].out = Outcome(pres, r)
      /\ res'[p].revoked = res[p].revoked
  BY DEF VerifyOnChain, RequestsTyped
<1>2. pres.cred \in CredIDs
  BY <1>1 DEF RequestsTyped, Presentations
<1>3. r \in {NoRecord} \cup CredentialRecords
  BY <1>2 DEF SessionTypeOK, TypeOK
<1>4. res[p].revoked => r = NoRecord \/ r.Status = "revoked"
  BY <1>1 DEF RevocationStands, Revoked
<1> HIDE DEF pres, r
<1>5. res[p].revoked => Outcome(pres, r).Reason \in {"REVOKED", "NOT_FOUND"}
  BY <1>4, RevokedIsReported
<1> QED
  BY <1>1, <1>3, <1>5, OutcomeIsRight DEF RightVerdict

LEMMA VerdictStep ==
  ASSUME SessionTypeOK, RequestsTyped, RevocationStands, VerdictIsRight, SessionNext
  PROVE  VerdictIsRight'
<1>0. (VerdictIsRight <=> \A p \in Verifiers : RightVerdict(res[p]))'
  BY VerdictParts, PTL
<1>1. \A p \in Verifiers : RightVerdict(res[p])
  BY VerdictParts
<1>2. ASSUME res' = res PROVE \A o \in Verifiers : RightVerdict(res'[o])
  BY <1>1, <1>2
<1>3. ASSUME NEW p \in Verifiers, RightVerdict(res'[p]),
             \A o \in Verifiers \ {p} : res'[o] = res[o]
      PROVE  \A o \in Verifiers : RightVerdict(res'[o])
  BY <1>1, <1>3
<1>4. \A p \in Verifiers, t \in Tokens : ReadSession(p, t) => RightVerdict(res'[p])
  <2>1. \A p \in Verifiers, t \in Tokens : ReadSession(p, t) => res'[p].pc # "log"
    BY FoundSession DEF NoRes
  <2> QED
    BY <2>1, NoVerdictYet
<1>5. ASSUME NEW p \in Verifiers,
             \/ ChainUnreachable(p) \/ LogVerdict(p) \/ LogVerdictFails(p)
             \/ DeleteSession(p) \/ DeleteSessionFails(p)
      PROVE  RightVerdict(res'[p])
  <2>1. res' = [res EXCEPT ![p] = NoRes] \/ res' = [res EXCEPT ![p] = Logged(res[p])]
    BY <1>5 DEF ChainUnreachable, AfterUnreachable, LogVerdict, LogVerdictFails,
                DeleteSession, DeleteSessionFails
  <2>2. res'[p] = NoRes \/ res'[p] = Logged(res[p])
    BY <2>1 DEF RequestsTyped
  <2>3. NoRes.pc # "log" /\ Logged(res[p]).pc # "log"
    BY DEF NoRes, Logged
  <2> QED
    BY <2>2, <2>3, NoVerdictYet
<1>6. \A p \in Verifiers, t \in Tokens :
        ReadSession(p, t) => \A o \in Verifiers \ {p} : res'[o] = res[o]
  BY FoundSession
<1>7. \A p \in Verifiers : GoesOn(p) => \A o \in Verifiers \ {p} : res'[o] = res[o]
  BY DEF GoesOn
<1>8. QuietStep \/ (\E q \in Wallets, pres \in Presentations : InsertSession(q, pres))
        => res' = res
  BY DEF QuietStep, InsertSession
<1>9. \A o \in Verifiers : RightVerdict(res'[o])
  <2>1. ASSUME NEW p \in Verifiers, NEW t \in Tokens, ReadSession(p, t)
        PROVE  \A o \in Verifiers : RightVerdict(res'[o])
    BY <1>3, <1>4, <1>6, <2>1
  <2>2. ASSUME NEW p \in Verifiers,
               \/ VerifyOnChain(p) \/ ChainUnreachable(p) \/ LogVerdict(p)
               \/ LogVerdictFails(p) \/ DeleteSession(p) \/ DeleteSessionFails(p)
        PROVE  \A o \in Verifiers : RightVerdict(res'[o])
    BY <1>3, <1>5, <1>7, <2>2, GoingOn, VerdictGiven
  <2> QED
    BY <1>2, <1>8, <2>1, <2>2, QuietSteps DEF SessionNext
<1> QED
  BY <1>0, <1>9

-----------------------------------------------------------------------------
(* Lost sessions. *)

LEMMA OverlapStays ==
  ASSUME SessionTypeOK, RequestsTyped, SessionNext, Overlap
  PROVE  Overlap'
<1>1. PICK n \in 1 .. MaxSessions : verdicts[n] = 2
  BY DEF Overlap
<1>2. \A p \in Verifiers : VerifyOnChain(p) => verdicts'[n] = 2
  BY <1>1 DEF VerifyOnChain, RequestsTyped
<1>3. verdicts' = verdicts \/ \E p \in Verifiers : VerifyOnChain(p)
  BY DEF SessionNext, DrawToken, InsertSession, InsertSessionFails, ReadSession,
         ChainUnreachable, LogVerdict, LogVerdictFails, DeleteSession,
         DeleteSessionFails, ChainMoves, LedgerReset, Tick
<1> QED
  BY <1>1, <1>2, <1>3 DEF Overlap

LEMMA OrderlyInsert ==
  ASSUME SessionTypeOK, RequestsTyped, Orderly, NEW q \in Wallets, NEW pres \in Presentations,
         InsertSession(q, pres)
  PROVE  Orderly'
<1>1. /\ UNCHANGED <<res, verdicts, lost>>
      /\ sessions[gen[q].token].serial = 0
      /\ \A t \in Tokens : t # gen[q].token => sessions'[t].serial = sessions[t].serial
  BY InsertedNumbers
<1>2. ASSUME NEW p \in Verifiers, res[p].pc # "idle",
             sessions[res[p].token].serial = res[p].n
      PROVE  sessions'[res[p].token].serial = res[p].n
  BY <1>1, <1>2 DEF RequestsTyped
<1> QED
  BY <1>1, <1>2 DEF Orderly, Answering

LEMMA OrderlyRead ==
  ASSUME RequestsTyped, Orderly, NEW p \in Verifiers, NEW t \in Tokens, ReadSession(p, t)
  PROVE  Orderly'
<1>1. /\ UNCHANGED <<sessions, verdicts, lost>>
      /\ \A o \in Verifiers \ {p} : res'[o] = res[o]
      /\ res'[p].pc \in {"idle", "chain"}
      /\ res'[p].pc = "chain" => sessions[res'[p].token].serial = res'[p].n
  BY FoundSession DEF NoRes
<1> QED
  BY <1>1 DEF Orderly, Answering

\* A first verdict; a second one is an overlap.
LEMMA OrderlyVerify ==
  ASSUME SessionTypeOK, RequestsTyped, Orderly, NEW p \in Verifiers, VerifyOnChain(p)
  PROVE  Overlap' \/ Orderly'
<1> DEFINE n == res[p].n
<1>1. /\ n \in 1 .. MaxSessions /\ verdicts[n] \in 0 .. 2 /\ res[p].pc = "chain"
      /\ verdicts' = [verdicts EXCEPT ![n] = IF verdicts[n] = 0 THEN 1 ELSE 2]
      /\ sessions' = sessions /\ lost' = lost
  BY SessionBounds DEF VerifyOnChain, RequestsTyped, SessionTypeOK
<1>2. /\ \A o \in Verifiers \ {p} : res'[o] = res[o]
      /\ res'[p].pc = "log" /\ res'[p].n = n /\ res'[p].token = res[p].token
  BY DEF VerifyOnChain, RequestsTyped
<1>3. CASE verdicts[n] # 0
  <2>1. verdicts'[n] = 2
    BY <1>1, <1>3 DEF RequestsTyped
  <2> QED
    BY <1>1, <2>1 DEF Overlap
<1>4. CASE verdicts[n] = 0
  <2>1. verdicts'[n] = 1 /\ \A m \in 1 .. MaxSessions : m # n => verdicts'[m] = verdicts[m]
    BY <1>1, <1>4 DEF RequestsTyped
  <2>2. \A o \in Verifiers : res[o].pc # "idle" => res[o].n \in 1 .. MaxSessions
    BY SessionBounds DEF RequestsTyped, SessionTypeOK
  <2>3. \A o \in Verifiers : Answering(o) => res[o].n # n
    BY <1>4 DEF Orderly
  <2>4. sessions[res[p].token].serial = n
    BY <1>1, <1>4 DEF Orderly
  <2> HIDE DEF n
  <2>5. \A o \in Verifiers : (Answering(o))' =>
          verdicts'[res'[o].n] = 1 /\ sessions'[res'[o].token].serial = res'[o].n
    BY <1>1, <1>2, <2>1, <2>2, <2>3, <2>4 DEF Orderly, Answering
  <2>6. \A o, u \in Verifiers :
          (Answering(o))' /\ (Answering(u))' /\ res'[o].n = res'[u].n => o = u
    BY <1>2, <2>3 DEF Orderly, Answering
  <2>7. \A o \in Verifiers : res'[o].pc = "chain" =>
          verdicts'[res'[o].n] = 1 \/ sessions'[res'[o].token].serial = res'[o].n
    BY <1>1, <1>2, <2>1, <2>2 DEF Orderly
  <2> QED
    BY <1>1, <2>5, <2>6, <2>7 DEF Orderly
<1> QED
  BY <1>3, <1>4

LEMMA OrderlyLog ==
  ASSUME RequestsTyped, Orderly, NEW p \in Verifiers, LogVerdict(p) \/ LogVerdictFails(p)
  PROVE  Orderly'
<1>1. /\ res[p].pc = "log" /\ res' = [res EXCEPT ![p] = Logged(res[p])]
      /\ UNCHANGED <<sessions, verdicts, lost>>
  BY DEF LogVerdict, LogVerdictFails
<1>2. /\ \A o \in Verifiers \ {p} : res'[o] = res[o]
      /\ res'[p].pc = "delete" /\ res'[p].n = res[p].n /\ res'[p].token = res[p].token
  BY <1>1 DEF Logged, RequestsTyped
<1> QED
  BY <1>1, <1>2 DEF Orderly, Answering

LEMMA OrderlyGivesUp ==
  ASSUME RequestsTyped, Orderly, NEW p \in Verifiers,
         ChainUnreachable(p) \/ DeleteSessionFails(p)
  PROVE  Orderly'
<1>1. /\ res' = [res EXCEPT ![p] = NoRes]
      /\ UNCHANGED <<sessions, verdicts, lost>>
  BY DEF ChainUnreachable, AfterUnreachable, DeleteSessionFails
<1>2. (\A o \in Verifiers \ {p} : res'[o] = res[o]) /\ res'[p].pc = "idle"
  BY <1>1 DEF NoRes, RequestsTyped
<1> QED
  BY <1>1, <1>2 DEF Orderly, Answering

\* The session deleted has had its verdict, and nobody else is about to delete
\* another one under this token.
LEMMA OrderlyDelete ==
  ASSUME SessionTypeOK, RequestsTyped, Orderly, NEW p \in Verifiers, DeleteSession(p)
  PROVE  Orderly'
<1> DEFINE n == res[p].n
           k == res[p].token
<1>1. /\ Answering(p) /\ k \in Tokens
      /\ sessions' = [sessions EXCEPT ![k] = NoSession]
      /\ res' = [res EXCEPT ![p] = NoRes]
      /\ verdicts' = verdicts
  BY DEF DeleteSession, UsedUp, Answering, RequestsTyped
<1>2. sessions[k].serial = n /\ verdicts[n] = 1
  BY <1>1 DEF Orderly
<1>3. lost' = lost
  BY <1>2 DEF DeleteSession
<1>4. (\A o \in Verifiers \ {p} : res'[o] = res[o]) /\ res'[p].pc = "idle"
  BY <1>1 DEF NoRes, RequestsTyped
<1>5. \A t \in Tokens : t # k => sessions'[t] = sessions[t]
  BY <1>1 DEF SessionTypeOK
<1>6. ASSUME NEW o \in Verifiers \ {p}, Answering(o)
      PROVE  res[o].token # k
  BY <1>1, <1>2, <1>6 DEF Orderly
<1>7. ASSUME NEW o \in Verifiers, res[o].pc = "chain"
      PROVE  verdicts[res[o].n] = 1 \/ sessions'[res[o].token].serial = res[o].n
  <2>1. res[o].token \in Tokens
    BY <1>7 DEF RequestsTyped
  <2> QED
    BY <1>2, <1>5, <1>7, <2>1 DEF Orderly
<1> HIDE DEF k
<1>8. \A o \in Verifiers : (Answering(o))' =>
        verdicts'[res'[o].n] = 1 /\ sessions'[res'[o].token].serial = res'[o].n
  BY <1>1, <1>4, <1>5, <1>6 DEF Orderly, Answering, RequestsTyped
<1> QED
  BY <1>1, <1>3, <1>4, <1>7, <1>8 DEF Orderly, Answering

LEMMA OrderlyStep ==
  ASSUME SessionTypeOK, RequestsTyped, OrderlyOrOverlap, SessionNext
  PROVE  OrderlyOrOverlap'
<1>1. CASE Overlap
  BY <1>1, OverlapStays DEF OrderlyOrOverlap
<1>2. CASE Orderly
  <2>1. QuietStep => Orderly'
    BY <1>2 DEF QuietStep, Orderly, Answering
  <2>2. Overlap' \/ Orderly'
    BY <1>2, <2>1, QuietSteps, OrderlyInsert, OrderlyRead, OrderlyVerify, OrderlyLog,
       OrderlyGivesUp, OrderlyDelete DEF SessionNext
  <2> QED
    BY <2>2 DEF OrderlyOrOverlap
<1> QED
  BY <1>1, <1>2 DEF OrderlyOrOverlap

-----------------------------------------------------------------------------
(* The theorems. *)

LEMMA StartTyped == SessionInit => SessionTypeOK /\ RequestsTyped
<1> SUFFICES ASSUME SessionInit PROVE SessionTypeOK /\ RequestsTyped
  OBVIOUS
<1> DEFINE h == CHOOSE x \in HolderIDs : TRUE
           b == CHOOSE x \in Bodies : TRUE
           w == CHOOSE x \in WalletKeys : TRUE
           Issued(e) == [Holder |-> h, Body |-> b, ExpiryDate |-> e]
           tx(e) == [holder |-> h, body |-> b, expiry |-> e,
                     signed |-> SignCommitment(Issued(e))]
           holder == [NewHolder EXCEPT !.WalletKeys = w]
<1>1. h \in HolderIDs /\ b \in Bodies /\ w \in WalletKeys
  BY SessionStart
<1>2. PICK e \in Expiries :
        world = [k \in Keys |-> CASE k = h -> holder
                                  [] k \in CredIDs -> NewCredential(tx(e))
                                  [] OTHER -> NoRecord]
  BY ZenonT(40) DEF SessionInit
<1> HIDE DEF h, b, w
<1>3. holder \in HolderRecords
  BY <1>1 DEF HolderRecords, NewHolder
<1>4. NewCredential(tx(e)) \in CredentialRecords
  BY <1>1, <1>2 DEF NewCredential, CredentialRecords, SignCommitment, Signings, Commitments
<1> HIDE DEF holder, tx
<1>5. TypeOK
  <2>1. \A x \in HolderIDs : x \notin CredIDs /\ world[x] \in {NoRecord, holder}
    BY <1>2, KeySpacesAssumption DEF Keys
  <2>2. \A c \in CredIDs : world[c] = NewCredential(tx(e))
    BY <1>1, <1>2, KeySpacesAssumption DEF Keys
  <2>3. world \in [Keys -> Records]
    BY <1>2, <1>3, <1>4, <2>1, <2>2 DEF Keys, Records
  <2> QED
    BY <1>3, <1>4, <2>1, <2>2, <2>3 DEF TypeOK
<1>6. /\ \A t \in Tokens : sessions[t] = NoSession
      /\ \A p \in Verifiers : res[p].pc = "idle"
      /\ \A q \in Wallets : gen[q].pc = "idle"
      /\ serial = 0 /\ now = 0 /\ closed = {} /\ lost = {} /\ unlogged = {}
      /\ MaxNow \in Nat /\ MaxSessions \in Nat
  BY SessionBounds DEF SessionInit, NoRes, NoGen
<1>7. sessions \in [Tokens -> Sessions] /\ verdicts \in [1 .. MaxSessions -> 0 .. 2]
  <2>1. sessions = [t \in Tokens |-> NoSession] /\ NoSession \in Sessions
    BY DEF SessionInit, Sessions
  <2>2. verdicts = [n \in 1 .. MaxSessions |-> 0]
    BY DEF SessionInit
  <2> QED
    BY <2>1, <2>2
<1>8. TablesTyped
  BY <1>6, <1>7 DEF TablesTyped
<1>9. RequestsTyped
  <2>1. DOMAIN gen = Wallets /\ DOMAIN res = Verifiers
    BY DEF SessionInit
  <2> QED
    BY <1>6, <1>7, <2>1 DEF RequestsTyped, NoSession
<1> QED
  BY <1>5, <1>8, <1>9, SessionTypeParts

LEMMA Start == SessionInit => SessionInv
<1> SUFFICES ASSUME SessionInit PROVE SessionInv
  OBVIOUS
<1>1. SessionTypeOK /\ RequestsTyped
  BY StartTyped
<1>2. \A p \in Verifiers : res[p].pc = "idle"
  BY DEF SessionInit, NoRes
<1>3. closed = {} /\ lost = {}
  BY DEF SessionInit
<1>4. RequestNamesSession /\ RevocationStands /\ VerdictIsRight /\ ClosedIsGone
  BY <1>2, <1>3 DEF RequestNamesSession, RevocationStands, VerdictIsRight, ClosedIsGone
<1>5. Orderly
  BY <1>2, <1>3 DEF Orderly, Answering
<1> QED
  BY <1>1, <1>4, <1>5 DEF SessionInv, OrderlyOrOverlap

LEMMA InvStep == SessionInv /\ [SessionNext]_sessionVars => SessionInv'
<1>1. SessionInv /\ SessionNext => SessionInv'
  BY TypedStep, NamesStep, ClosedStep, RevocationStep, VerdictStep, OrderlyStep DEF SessionInv
<1>2. SessionInv /\ UNCHANGED sessionVars => SessionInv'
  <2> SUFFICES ASSUME SessionInv, UNCHANGED sessionVars PROVE SessionInv'
    OBVIOUS
  <2> USE DEF SessionInv, sessionVars, logVars
  <2>1. SessionTypeOK' /\ RequestsTyped'
    BY DEF SessionTypeOK, TypeOK, RequestsTyped
  <2>2. RequestNamesSession' /\ ClosedIsGone'
    BY DEF RequestNamesSession, ClosedIsGone
  <2>3. RevocationStands' /\ VerdictIsRight'
    BY DEF RevocationStands, Revoked, IsCredential, VerdictIsRight
  <2>4. OrderlyOrOverlap'
    BY DEF OrderlyOrOverlap, Overlap, Orderly, Answering
  <2> QED
    BY <2>1, <2>2, <2>3, <2>4
<1> QED
  BY <1>1, <1>2

\* The argument's invariant: every request of a wallet or a verifier preserves
\* it, whatever the chain, the clock and MySQL do in between.
THEOREM SessionsInvariant == SessionSpec => []SessionInv
  BY Start, InvStep, PTL DEF SessionSpec

\* Type correctness: no two sessions share a token or a number, and the ghosts
\* speak of sessions that have been inserted.
THEOREM SessionsTypeCorrect == SessionSpec => []SessionTypeOK
<1>1. SessionInv => SessionTypeOK
  BY DEF SessionInv
<1> QED
  BY <1>1, SessionsInvariant, PTL

\* handleResolveSession never verifies a credential whose revocation it could
\* have seen, and reports the worst thing that is wrong with a presentation.
THEOREM VerdictsAreRight == SessionSpec => []VerdictIsRight
<1>1. SessionInv => VerdictIsRight
  BY DEF SessionInv
<1> QED
  BY <1>1, SessionsInvariant, PTL

\* Only requests that overlap on one session can delete another one before it
\* was used: DELETE ... WHERE id = token is safe otherwise.
THEOREM OnlyOverlapLoses == SessionSpec => []LostOnlyByOverlap
<1>1. SessionInv => LostOnlyByOverlap
  BY DEF SessionInv, LostOnlyByOverlap, OrderlyOrOverlap, Overlap, Orderly
<1> QED
  BY <1>1, SessionsInvariant, PTL

\* No verifier reads a session whose verdict has been answered and deleted.
UsedUpNow ==
  \A p \in Verifiers : res[p].pc # "chain" /\ res'[p].pc = "chain" => res'[p].n \notin closed

\* After the answer and the deletion a session cannot be redeemed again.
THEOREM AnswerUsesUp == SessionSpec => UsedUpAfterAnswer
<1>1. SessionInv /\ [SessionNext]_sessionVars => [UsedUpNow]_sessionVars
  <2> SUFFICES ASSUME SessionInv, SessionNext PROVE UsedUpNow
    OBVIOUS
  <2>1. SessionTypeOK /\ RequestsTyped /\ ClosedIsGone
    BY DEF SessionInv
  <2>2. ASSUME res' = res PROVE UsedUpNow
    BY <2>2 DEF UsedUpNow
  <2>3. ASSUME NEW p \in Verifiers, NEW t \in Tokens, ReadSession(p, t) PROVE UsedUpNow
    BY <2>1, <2>3, FoundSession DEF UsedUpNow, ClosedIsGone, NoRes
  <2>4. ASSUME NEW p \in Verifiers, GoesOn(p) PROVE UsedUpNow
    BY <2>4 DEF UsedUpNow, GoesOn
  <2>5. QuietStep \/ (\E q \in Wallets, pres \in Presentations : InsertSession(q, pres))
          => res' = res
    BY DEF QuietStep, InsertSession
  <2> QED
    BY <2>1, <2>2, <2>3, <2>4, <2>5, QuietSteps, GoingOn DEF SessionNext
<1>2. UsedUpAfterAnswer <=> [][UsedUpNow]_sessionVars
  BY DEF UsedUpAfterAnswer, UsedUpNow
<1> QED
  BY <1>1, <1>2, SessionsInvariant, PTL DEF SessionSpec

\* A token's session is replaced only after it is gone.
KeptNow ==
  \A t \in Tokens : sessions[t] # NoSession => sessions'[t] \in {sessions[t], NoSession}

\* The primary key protects a session from a second wallet with its token.
THEOREM TokensKeepSessions == SessionSpec => TokenKeepsSession
<1>1. SessionInv /\ [SessionNext]_sessionVars => [KeptNow]_sessionVars
  <2> SUFFICES ASSUME SessionInv, SessionNext PROVE KeptNow
    OBVIOUS
  <2>1. SessionTypeOK /\ RequestsTyped
    BY DEF SessionInv
  <2>2. ASSUME sessions' = sessions PROVE KeptNow
    BY <2>2 DEF KeptNow
  <2>3. ASSUME NEW q \in Wallets, NEW pres \in Presentations, InsertSession(q, pres)
        PROVE  KeptNow
    BY <2>1, <2>3 DEF KeptNow, InsertSession, Free, SessionTypeOK
  <2>4. ASSUME NEW p \in Verifiers, GoesOn(p) PROVE KeptNow
    BY <2>4 DEF KeptNow, GoesOn
  <2>5. QuietStep \/ (\E p \in Verifiers, t \in Tokens : ReadSession(p, t))
          => sessions' = sessions
    BY DEF QuietStep, ReadSession
  <2> QED
    BY <2>1, <2>2, <2>3, <2>4, <2>5, QuietSteps, GoingOn DEF SessionNext
<1>2. TokenKeepsSession <=> [][KeptNow]_sessionVars
  BY DEF TokenKeepsSession, KeptNow
<1> QED
  BY <1>1, <1>2, SessionsInvariant, PTL DEF SessionSpec

-----------------------------------------------------------------------------
(* The verification log.  Whoever is about to write a row has given the    *)
(* verdict, whoever has passed that point has written it or could not, and *)
(* a session with one verdict has its row or the request that will write   *)
(* it, and never both.                                                     *)

\* What the row of an outcome shows.
LEMMA ReasonsAre ==
  ASSUME NEW pres, NEW r
  PROVE  Reason(pres, r) \in {"", "REVOKED", "SUSPENDED", "EXPIRED", "SIGNATURE_INVALID",
                              "HASH_MISMATCH", "FIELD_HASHES_INVALID", "HOLDER_SIGNATURE_INVALID"}
<1> DEFINE taken == {i \in 1 .. 7 : Branches(pres, r)[i]}
<1>1. CASE taken = {}
  BY <1>1 DEF Reason
<1>2. CASE taken # {}
  <2> HIDE DEF taken
  <2>1. taken \in SUBSET (1 .. 7)
    BY DEF taken
  <2>2. PICK m \in taken : \A j \in taken : m <= j
    BY <1>2, <2>1, LeastOfSeven
  <2>3. m \in 1 .. 7 /\ Branches(pres, r)[m]
        /\ \A j \in 1 .. 7 : Branches(pres, r)[j] => m <= j
    BY <2>2 DEF taken
  <2>4. Reason(pres, r) = Reasons[m]
    BY <2>3, ReasonIsLeast
  <2>5. m = 1 \/ m = 2 \/ m = 3 \/ m = 4 \/ m = 5 \/ m = 6 \/ m = 7
    BY <2>3
  <2>6. /\ Reasons[1] = "REVOKED" /\ Reasons[2] = "SUSPENDED" /\ Reasons[3] = "EXPIRED"
        /\ Reasons[4] = "SIGNATURE_INVALID" /\ Reasons[5] = "HASH_MISMATCH"
        /\ Reasons[6] = "FIELD_HASHES_INVALID" /\ Reasons[7] = "HOLDER_SIGNATURE_INVALID"
    BY DEF Reasons
  <2> QED
    BY <2>4, <2>5, <2>6
<1> QED
  BY <1>1, <1>2

AsksFor(f, result, reason) ==
  VerifyResultAPIToDB(f).result = result /\ VerifyResultAPIToDB(f).reason = reason

LEMMA FilterAsks ==
  ASSUME NEW f
  PROVE  /\ f = "revoked"   => AsksFor(f, "failure", "REVOKED")
         /\ f = "suspended" => AsksFor(f, "failure", "SUSPENDED")
         /\ f = "expired"   => AsksFor(f, "failure", "EXPIRED")
         /\ f = "notFound"  => AsksFor(f, "failure", "NOT_FOUND")
         /\ f = "tampered"  => AsksFor(f, "failure", "SIGNATURE_INVALID")
         /\ f = "valid"     => AsksFor(f, "success", "")
<1>1. /\ StatusWord("REVOKED") = "revoked" /\ StatusWord("SUSPENDED") = "suspended"
      /\ StatusWord("EXPIRED") = "expired" /\ StatusWord("NOT_FOUND") = "notFound"
  BY DEF StatusWord
<1>2. /\ (CHOOSE r \in StatusReasons : StatusWord(r) = "revoked") = "REVOKED"
      /\ (CHOOSE r \in StatusReasons : StatusWord(r) = "suspended") = "SUSPENDED"
      /\ (CHOOSE r \in StatusReasons : StatusWord(r) = "expired") = "EXPIRED"
      /\ (CHOOSE r \in StatusReasons : StatusWord(r) = "notFound") = "NOT_FOUND"
  BY <1>1 DEF StatusReasons
<1>3. ASSUME f \in {"revoked", "suspended", "expired", "notFound"}
      PROVE  AsksFor(f, "failure", CHOOSE r \in StatusReasons : StatusWord(r) = f)
  BY <1>3 DEF VerifyResultAPIToDB, AsksFor
<1>4. (f = "tampered" => AsksFor(f, "failure", "SIGNATURE_INVALID"))
        /\ (f = "valid" => AsksFor(f, "success", ""))
  BY DEF VerifyResultAPIToDB, AsksFor
<1> QED
  BY <1>2, <1>3, <1>4

Shown(out) ==
  LET row == RowOf(out)
      d   == Detail(row)
  IN /\ d.result = "valid" <=> out.Reason = ""
     /\ d.reason = out.Reason
     /\ d.existsOnChain = out.ExistsOnChain /\ d.notRevoked = out.NotRevoked
     /\ d.signatureValid = out.SignatureValid
     /\ RecentStatus(row) = "VALID" <=> out.Reason = ""
     /\ \A f \in Filters \ {""} :
          IF f = "tampered"
          THEN Selects(f, row) <=> out.Reason = "SIGNATURE_INVALID"
          ELSE Selects(f, row) <=> d.result = f

\* What the detail view makes of the stored status and of its own result word.
NotRevokedShown(status, word) ==
  IF status = "" THEN word \in {"valid", "expired"} ELSE status \in {"active", "expired"}

LEMMA ShownOrNot ==
  ASSUME NEW status, NEW word
  PROVE  /\ status \in {"active", "expired"} => NotRevokedShown(status, word) = TRUE
         /\ status \in {"suspended", "revoked"} => NotRevokedShown(status, word) = FALSE
         /\ status = "" /\ word = "notFound" => NotRevokedShown(status, word) = FALSE
<1>1. ASSUME status = "", word = "notFound"
      PROVE  NotRevokedShown(status, word) = FALSE
  <2>1. NotRevokedShown(status, word) = (word \in {"valid", "expired"})
    BY <1>1 DEF NotRevokedShown
  <2>2. word # "valid" /\ word # "expired"
    BY <1>1
  <2>3. (word \in {"valid", "expired"}) = FALSE
    BY <2>2
  <2> QED
    BY <2>1, <2>3, Zenon
<1>2. ASSUME status \in {"suspended", "revoked"}
      PROVE  NotRevokedShown(status, word) = FALSE
  <2>1. NotRevokedShown(status, word) = (status \in {"active", "expired"})
    BY <1>2 DEF NotRevokedShown
  <2>2. (status \in {"active", "expired"}) = FALSE
    BY <1>2
  <2> QED
    BY <2>1, <2>2, Zenon
<1>3. status \in {"active", "expired"} => NotRevokedShown(status, word) = TRUE
  BY DEF NotRevokedShown
<1> QED
  BY <1>1, <1>2, <1>3

LEMMA OutcomeShown ==
  ASSUME NEW pres, NEW r \in {NoRecord} \cup CredentialRecords
  PROVE  Shown(Outcome(pres, r))
<1> DEFINE out == Outcome(pres, r)
           row == RowOf(out)
           d   == Detail(row)
<1>1. /\ out.Reason \in {"", "REVOKED", "SUSPENDED", "EXPIRED", "SIGNATURE_INVALID",
                         "HASH_MISMATCH", "FIELD_HASHES_INVALID", "HOLDER_SIGNATURE_INVALID", "NOT_FOUND"}
      /\ \/ out.Reason = "NOT_FOUND" /\ out.Status = "" /\ out.NotRevoked = FALSE
         \/ out.Status \in {"active", "expired"} /\ out.NotRevoked = TRUE
         \/ out.Status \in {"suspended", "revoked"} /\ out.NotRevoked = FALSE
  <2>1. CASE r = NoRecord
    BY <2>1 DEF Outcome, NotFound
  <2>2. CASE r # NoRecord
    <3>1. r.Status \in {"active", "suspended", "revoked"}
      BY <2>2 DEF CredentialRecords
    <3>2. /\ out.Reason = Reason(pres, r) /\ out.Status = EffectiveStatus(r)
          /\ out.NotRevoked = (r.Status = "active")
      BY <2>2 DEF Outcome
    <3>3. \/ EffectiveStatus(r) \in {"active", "expired"} /\ r.Status = "active"
          \/ EffectiveStatus(r) \in {"suspended", "revoked"} /\ r.Status # "active"
      BY <3>1 DEF EffectiveStatus
    <3>4. \/ out.Status \in {"active", "expired"} /\ out.NotRevoked = TRUE
          \/ out.Status \in {"suspended", "revoked"} /\ out.NotRevoked = FALSE
      <4> HIDE DEF out
      <4> QED
        BY <3>2, <3>3
    <3>5. out.Reason \in {"", "REVOKED", "SUSPENDED", "EXPIRED", "SIGNATURE_INVALID",
                          "HASH_MISMATCH", "FIELD_HASHES_INVALID", "HOLDER_SIGNATURE_INVALID"}
      BY <3>2, ReasonsAre
    <3> HIDE DEF out
    <3> QED
      BY <3>4, <3>5
  <2> QED
    BY <2>1, <2>2
<1> HIDE DEF out
<1>2. /\ row.result = IF out.Reason = "" THEN "success" ELSE "failure"
      /\ row.failure_reason = out.Reason /\ row.chain_verified = out.ExistsOnChain
      /\ row.signature_verified = out.SignatureValid /\ row.status_at_verify = out.Status
  BY DEF RowOf
<1> HIDE DEF row
<1>3. VerifyResultDBToAPI(row) =
        CASE out.Reason = ""          -> "valid"
          [] out.Reason = "REVOKED"   -> "revoked"
          [] out.Reason = "SUSPENDED" -> "suspended"
          [] out.Reason = "EXPIRED"   -> "expired"
          [] out.Reason = "NOT_FOUND" -> "notFound"
          [] OTHER                    -> "tampered"
  BY <1>1, <1>2 DEF VerifyResultDBToAPI, StatusReasons, StatusWord
<1>4. /\ d.result = VerifyResultDBToAPI(row) /\ d.reason = out.Reason
      /\ d.existsOnChain = out.ExistsOnChain /\ d.signatureValid = out.SignatureValid
  BY <1>2 DEF Detail
<1>5. d.notRevoked = out.NotRevoked
  <2>1. d.notRevoked = NotRevokedShown(row.status_at_verify, VerifyResultDBToAPI(row))
    BY DEF Detail, NotRevokedWords, NotRevokedShown
  <2>2. CASE out.Reason = "NOT_FOUND" /\ out.Status = "" /\ out.NotRevoked = FALSE
    BY <1>2, <1>3, <2>1, <2>2, ShownOrNot
  <2>3. CASE out.Status \in {"active", "expired"} /\ out.NotRevoked = TRUE
    BY <1>2, <2>1, <2>3, ShownOrNot
  <2>4. CASE out.Status \in {"suspended", "revoked"} /\ out.NotRevoked = FALSE
    BY <1>2, <2>1, <2>4, ShownOrNot
  <2> QED
    BY <1>1, <2>2, <2>3, <2>4
<1> HIDE DEF d
<1>6. RecentStatus(row) = "VALID" <=> out.Reason = ""
  BY <1>1, <1>2 DEF RecentStatus
<1>7. ASSUME NEW f \in Filters \ {""}
      PROVE  IF f = "tampered"
             THEN Selects(f, row) <=> out.Reason = "SIGNATURE_INVALID"
             ELSE Selects(f, row) <=> VerifyResultDBToAPI(row) = f
  <2>1. Selects(f, row) <=> /\ VerifyResultAPIToDB(f).result \in {"", row.result}
                            /\ VerifyResultAPIToDB(f).reason \in {"", row.failure_reason}
    BY DEF Selects
  <2>2. f \in {"valid", "revoked", "suspended", "expired", "tampered", "notFound"}
    BY DEF Filters
  <2>3. CASE f = "valid"
    <3>1. AsksFor(f, "success", "")
      BY <2>3, FilterAsks
    <3> QED
      BY <1>1, <1>2, <1>3, <2>1, <2>3, <3>1 DEF AsksFor
  <2>4. ASSUME NEW reason \in {"REVOKED", "SUSPENDED", "EXPIRED", "NOT_FOUND", "SIGNATURE_INVALID"},
               AsksFor(f, "failure", reason)
        PROVE  Selects(f, row) <=> out.Reason = reason
    BY <1>2, <2>1, <2>4 DEF AsksFor
  <2>5. CASE f = "tampered"
    <3>1. Selects(f, row) <=> out.Reason = "SIGNATURE_INVALID"
      BY <2>4, <2>5, FilterAsks
    <3> QED
      BY <2>5, <3>1
  <2>6. CASE f = "revoked"
    <3>1. Selects(f, row) <=> out.Reason = "REVOKED"
      BY <2>4, <2>6, FilterAsks
    <3> QED
      BY <1>1, <1>3, <2>6, <3>1
  <2>7. CASE f = "suspended"
    <3>1. Selects(f, row) <=> out.Reason = "SUSPENDED"
      BY <2>4, <2>7, FilterAsks
    <3> QED
      BY <1>1, <1>3, <2>7, <3>1
  <2>8. CASE f = "expired"
    <3>1. Selects(f, row) <=> out.Reason = "EXPIRED"
      BY <2>4, <2>8, FilterAsks
    <3> QED
      BY <1>1, <1>3, <2>8, <3>1
  <2>9. CASE f = "notFound"
    <3>1. Selects(f, row) <=> out.Reason = "NOT_FOUND"
      BY <2>4, <2>9, FilterAsks
    <3> QED
      BY <1>1, <1>3, <2>9, <3>1
  <2> QED
    BY <2>2, <2>3, <2>5, <2>6, <2>7, <2>8, <2>9
<1>8. d.result = "valid" <=> out.Reason = ""
  BY <1>1, <1>3, <1>4
<1> QED
  BY <1>4, <1>5, <1>6, <1>7, <1>8 DEF Shown, out, row, d

-----------------------------------------------------------------------------
(* The rows of the log.  Whoever is about to write a row has given the      *)
(* verdict it is about, whoever has passed that point has written it or     *)
(* could not, and a session with one verdict has its row or the request     *)
(* that will write it, and never both.                                      *)

RowsFit ==
  /\ \A p \in Verifiers : res[p].pc = "log" => Shown(res[p].out) /\ verdicts[res[p].n] >= 1
  /\ \A p \in Verifiers : res[p].pc = "delete" =>
       res[p].n \in unlogged \/ \E l \in log : l.n = res[p].n
  /\ \A n \in closed \ unlogged : \E l \in log : l.n = n
  /\ \A l \in log : l.n \in 1 .. MaxSessions /\ verdicts[l.n] >= 1

Writes(p, n) == res[p].pc = "log" /\ res[p].n = n

OneRowEach ==
  \A n \in 1 .. MaxSessions : verdicts[n] = 1 =>
    /\ \A l, m \in log : l.n = n /\ m.n = n => l = m
    /\ \A p, o \in Verifiers : Writes(p, n) /\ Writes(o, n) => p = o
    /\ \A p \in Verifiers : Writes(p, n) => \A l \in log : l.n # n

\* Steps that neither give a verdict nor write about one.
LogRests ==
  /\ UNCHANGED <<verdicts, log, unlogged, closed>>
  /\ \A p \in Verifiers : res'[p] = res[p] \/ res'[p].pc \in {"idle", "chain"}

LEMMA LogResting ==
  ASSUME RowsFit, OneRowEach, LogRests
  PROVE  RowsFit' /\ OneRowEach'
<1>1. \A p \in Verifiers : res'[p].pc \in {"log", "delete"} => res'[p] = res[p]
  BY DEF LogRests
<1>2. RowsFit'
  BY <1>1 DEF LogRests, RowsFit
<1>3. \A p \in Verifiers, n \in 1 .. MaxSessions : (Writes(p, n))' => Writes(p, n)
  BY <1>1 DEF Writes
<1>4. OneRowEach'
  BY <1>3 DEF LogRests, OneRowEach
<1> QED
  BY <1>2, <1>4

\* What a request has in hand when its step is about the log.
LEMMA RequestNumber ==
  ASSUME SessionTypeOK, RequestsTyped, NEW p \in Verifiers, res[p].pc # "idle"
  PROVE  res[p].n \in 1 .. MaxSessions
  BY SessionBounds DEF SessionTypeOK, RequestsTyped

\* A first verdict finds neither a row nor a writer of its session.
LEMMA VerifyFits ==
  ASSUME SessionTypeOK, RequestsTyped, RowsFit, OneRowEach, NEW p \in Verifiers, VerifyOnChain(p)
  PROVE  RowsFit' /\ OneRowEach'
<1> DEFINE n == res[p].n
           pres == res[p].pres
           r == world[pres.cred]
<1>1. /\ n \in 1 .. MaxSessions /\ pres \in Presentations /\ verdicts[n] \in 0 .. 2
      /\ verdicts \in [1 .. MaxSessions -> 0 .. 2]
  BY RequestNumber DEF RequestsTyped, VerifyOnChain
<1>2. /\ UNCHANGED <<log, unlogged, closed>>
      /\ verdicts' = [verdicts EXCEPT ![n] = IF verdicts[n] = 0 THEN 1 ELSE 2]
      /\ \A o \in Verifiers \ {p} : res'[o] = res[o]
      /\ res'[p].pc = "log" /\ res'[p].n = n /\ res'[p].out = Outcome(pres, r)
  BY DEF VerifyOnChain, RequestsTyped, logVars
<1>3. Shown(Outcome(pres, r))
  <2>1. r \in {NoRecord} \cup CredentialRecords
    BY <1>1 DEF SessionTypeOK, TypeOK, Presentations
  <2> QED
    BY <2>1, OutcomeShown
<1> HIDE DEF n, pres, r
<1>4. /\ verdicts'[n] = IF verdicts[n] = 0 THEN 1 ELSE 2
      /\ \A m \in 1 .. MaxSessions : m # n => verdicts'[m] = verdicts[m]
  BY <1>1, <1>2
<1>5. \A m \in 1 .. MaxSessions : verdicts[m] \in 0 .. 2 /\ (verdicts[m] >= 1 => verdicts'[m] >= 1)
  BY <1>1, <1>4
<1>6. \A o \in Verifiers : res[o].pc = "log" => res[o].n \in 1 .. MaxSessions
  BY RequestNumber
<1>7. RowsFit'
  <2>1. \A o \in Verifiers : res'[o].pc = "log" => Shown(res'[o].out) /\ verdicts'[res'[o].n] >= 1
    <3> TAKE o \in Verifiers
    <3>1. CASE o = p
      BY <1>2, <1>3, <1>4, <3>1
    <3>2. CASE o # p
      BY <1>2, <1>5, <1>6, <3>2 DEF RowsFit
    <3> QED
      BY <3>1, <3>2
  <2>2. \A o \in Verifiers : res'[o].pc = "delete" =>
          res'[o].n \in unlogged' \/ \E l \in log' : l.n = res'[o].n
    BY <1>2 DEF RowsFit
  <2>3. \A l \in log' : l.n \in 1 .. MaxSessions /\ verdicts'[l.n] >= 1
    BY <1>2, <1>5 DEF RowsFit
  <2>4. \A m \in closed' \ unlogged' : \E l \in log' : l.n = m
    BY <1>2 DEF RowsFit
  <2>5. (\A o \in Verifiers : res[o].pc = "log" => Shown(res[o].out) /\ verdicts[res[o].n] >= 1)'
    BY <2>1 DEF Shown
  <2> QED
    BY <2>2, <2>3, <2>4, <2>5 DEF RowsFit
<1>8. ASSUME NEW m \in 1 .. MaxSessions, verdicts'[m] = 1
      PROVE  /\ \A l, k \in log' : l.n = m /\ k.n = m => l = k
             /\ \A u, o \in Verifiers : (Writes(u, m))' /\ (Writes(o, m))' => u = o
             /\ \A u \in Verifiers : (Writes(u, m))' => \A l \in log' : l.n # m
  <2>1. CASE m = n
    <3>1. verdicts[m] = 0
      BY <1>4, <1>8, <2>1
    <3>2. (\A l \in log : l.n # m) /\ (\A o \in Verifiers : ~Writes(o, m))
      BY <3>1 DEF RowsFit, Writes
    <3>3. \A o \in Verifiers : (Writes(o, m))' => o = p
      BY <1>2, <3>2 DEF Writes
    <3> QED
      BY <1>2, <3>2, <3>3
  <2>2. CASE m # n
    <3>1. verdicts[m] = 1
      BY <1>4, <1>8, <2>2
    <3>2. \A o \in Verifiers : (Writes(o, m))' => Writes(o, m)
      BY <1>2, <2>2 DEF Writes
    <3> QED
      BY <1>2, <3>1, <3>2 DEF OneRowEach
  <2> QED
    BY <2>1, <2>2
<1> QED
  BY <1>7, <1>8 DEF OneRowEach

\* The only writer of a session with one verdict writes its first row.
LEMMA LogFits ==
  ASSUME SessionTypeOK, RequestsTyped, RowsFit, OneRowEach, NEW p \in Verifiers,
         LogVerdict(p) \/ LogVerdictFails(p)
  PROVE  RowsFit' /\ OneRowEach'
<1> DEFINE n == res[p].n
           new == [n |-> n, row |-> RowOf(res[p].out)]
<1>1. /\ n \in 1 .. MaxSessions /\ Writes(p, n) /\ verdicts[n] >= 1
      /\ new.n = n
  BY RequestNumber DEF LogVerdict, LogVerdictFails, Writes, RowsFit
<1>2. /\ UNCHANGED <<verdicts, closed>>
      /\ \/ log' = log \cup {new} /\ unlogged' = unlogged
         \/ log' = log /\ unlogged' = unlogged \cup {n}
  BY DEF LogVerdict, LogVerdictFails, Loggable
<1>3. /\ \A o \in Verifiers \ {p} : res'[o] = res[o]
      /\ res'[p].pc = "delete" /\ res'[p].n = n
  <2>1. res' = [res EXCEPT ![p] = Logged(res[p])]
    BY DEF LogVerdict, LogVerdictFails
  <2> QED
    BY <2>1 DEF Logged, RequestsTyped
<1> HIDE DEF new, n
<1>4. log \subseteq log' /\ unlogged \subseteq unlogged'
  BY <1>2
<1>5. n \in unlogged' \/ \E l \in log' : l.n = n
  BY <1>1, <1>2
<1>6. RowsFit'
  <2>1. \A o \in Verifiers : res'[o].pc = "log" => res'[o] = res[o]
    BY <1>3
  <2>2. \A o \in Verifiers : res'[o].pc = "delete" =>
          res'[o].n \in unlogged' \/ \E l \in log' : l.n = res'[o].n
    BY <1>3, <1>4, <1>5 DEF RowsFit
  <2>3. \A l \in log' : l.n \in 1 .. MaxSessions /\ verdicts'[l.n] >= 1
    BY <1>1, <1>2 DEF RowsFit
  <2>4. \A m \in closed' \ unlogged' : \E l \in log' : l.n = m
    BY <1>2, <1>4 DEF RowsFit
  <2>5. \A o \in Verifiers : res'[o].pc = "log" => Shown(res'[o].out) /\ verdicts'[res'[o].n] >= 1
    BY <1>2, <2>1 DEF RowsFit
  <2>6. (\A o \in Verifiers : res[o].pc = "log" => Shown(res[o].out) /\ verdicts[res[o].n] >= 1)'
    BY <2>5 DEF Shown
  <2> QED
    BY <2>2, <2>3, <2>4, <2>6 DEF RowsFit
<1>7. ASSUME NEW m \in 1 .. MaxSessions, verdicts'[m] = 1
      PROVE  /\ \A l, k \in log' : l.n = m /\ k.n = m => l = k
             /\ \A u, o \in Verifiers : (Writes(u, m))' /\ (Writes(o, m))' => u = o
             /\ \A u \in Verifiers : (Writes(u, m))' => \A l \in log' : l.n # m
  <2>1. verdicts[m] = 1
    BY <1>2, <1>7
  <2>2. \A o \in Verifiers : (Writes(o, m))' => Writes(o, m) /\ o # p
    BY <1>3 DEF Writes
  <2>3. CASE m = n
    <3>1. Writes(p, m)
      BY <1>1, <2>3
    <3>2. \A l \in log : l.n # m
      BY <2>1, <3>1 DEF OneRowEach
    <3>3. \A o \in Verifiers : ~(Writes(o, m))'
      BY <2>1, <2>2, <3>1 DEF OneRowEach
    <3>4. \A l, k \in log' : l.n = m /\ k.n = m => l = k
      BY <1>2, <3>2
    <3> QED
      BY <3>3, <3>4
  <2>4. CASE m # n
    <3>1. \A l \in log' : l.n = m => l \in log
      BY <1>1, <1>2, <2>4
    <3> QED
      BY <2>1, <2>2, <3>1 DEF OneRowEach
  <2> QED
    BY <2>3, <2>4
<1> QED
  BY <1>6, <1>7 DEF OneRowEach

LEMMA DeleteFits ==
  ASSUME RequestsTyped, RowsFit, OneRowEach, NEW p \in Verifiers, DeleteSession(p)
  PROVE  RowsFit' /\ OneRowEach'
<1>1. /\ res[p].pc = "delete" /\ closed' = closed \cup {res[p].n}
      /\ UNCHANGED <<verdicts, log, unlogged>>
      /\ \A o \in Verifiers \ {p} : res'[o] = res[o]
      /\ res'[p].pc = "idle"
  BY DEF DeleteSession, RequestsTyped, NoRes, logVars
<1>2. \A o \in Verifiers : res'[o].pc \in {"log", "delete"} => res'[o] = res[o]
  BY <1>1
<1>3. RowsFit'
  BY <1>1, <1>2 DEF RowsFit
<1>4. \A o \in Verifiers, n \in 1 .. MaxSessions : (Writes(o, n))' => Writes(o, n)
  BY <1>2 DEF Writes
<1>5. OneRowEach'
  BY <1>1, <1>4 DEF OneRowEach
<1> QED
  BY <1>3, <1>5

LEMMA RowsStep ==
  ASSUME SessionTypeOK, RequestsTyped, RowsFit, OneRowEach, [SessionNext]_sessionVars
  PROVE  RowsFit' /\ OneRowEach'
<1> USE DEF LogRests, RequestsTyped, logVars, NoRes
<1>1. \A p \in Verifiers, t \in Tokens : ReadSession(p, t) => LogRests
  <2> SUFFICES ASSUME NEW p \in Verifiers, NEW t \in Tokens, ReadSession(p, t)
               PROVE  LogRests
    OBVIOUS
  <2>1. UNCHANGED <<verdicts, closed, log, unlogged>>
    BY DEF ReadSession
  <2> QED
    BY <2>1, FoundSession
<1>2. \A p \in Verifiers : ChainUnreachable(p) \/ DeleteSessionFails(p) => LogRests
  BY DEF ChainUnreachable, AfterUnreachable, DeleteSessionFails
<1>3. /\ \A q \in Wallets, t \in Tokens : DrawToken(q, t) => LogRests
      /\ \A q \in Wallets, pres \in Presentations : InsertSession(q, pres) => LogRests
      /\ \A q \in Wallets : InsertSessionFails(q) => LogRests
      /\ ChainMoves \/ LedgerReset \/ Tick => LogRests
      /\ UNCHANGED sessionVars => LogRests
  BY DEF DrawToken, InsertSession, InsertSessionFails, ChainMoves, LedgerReset, Tick, sessionVars
<1> QED
  BY <1>1, <1>2, <1>3, LogResting, VerifyFits, LogFits, DeleteFits DEF SessionNext

\* What is shown of verdicts, and that each has its row, is what was promised.
LEMMA RowsTell ==
  ASSUME SessionTypeOK, RowsFit, OneRowEach
  PROVE  HistoryTellsVerdict
<1>1. VerdictsLogged
  <2>1. ASSUME NEW n \in 1 .. MaxSessions, verdicts[n] = 1
        PROVE  Cardinality({l \in log : l.n = n}) <= 1
    <3> DEFINE Rows == {l \in log : l.n = n}
    <3>1. \A l, m \in Rows : l = m
      BY <2>1 DEF OneRowEach
    <3>2. Rows = {} \/ \E l \in Rows : Rows = {l}
      <4> HIDE DEF Rows
      <4> QED
        BY <3>1
    <3>3. Cardinality(Rows) = 0 \/ Cardinality(Rows) = 1
      <4> HIDE DEF Rows
      <4> QED
        BY <3>2, FS_EmptySet, FS_Singleton
    <3> QED
      BY <3>3
  <2> QED
    BY <2>1 DEF VerdictsLogged, RowsFit
<1>2. \A p \in Verifiers : res[p].pc = "log" => Shown(res[p].out)
  BY DEF RowsFit
<1> QED
  BY <1>1, <1>2 DEF HistoryTellsVerdict, Shown

LogInv == SessionInv /\ RowsFit /\ OneRowEach

\* logVerificationToDB never drops a row it could write, never writes one for a
\* verdict that was not given, and the history, the filters, the detail view and
\* the dashboard make of a row what the verifier was answered.
THEOREM HistoryTellsVerdictHolds == SessionSpec => []HistoryTellsVerdict
<1>1. SessionInit => LogInv
  <2> SUFFICES ASSUME SessionInit PROVE RowsFit /\ OneRowEach
    BY Start DEF LogInv
  <2>1. /\ \A p \in Verifiers : res[p].pc = "idle"
        /\ log = {} /\ closed = {} /\ verdicts = [n \in 1 .. MaxSessions |-> 0]
    BY DEF SessionInit, NoRes
  <2> QED
    BY <2>1 DEF RowsFit, OneRowEach
<1>2. LogInv /\ [SessionNext]_sessionVars => LogInv'
  BY InvStep, RowsStep DEF LogInv, SessionInv
<1>3. LogInv => HistoryTellsVerdict
  BY RowsTell DEF LogInv, SessionInv
<1> QED
  BY <1>1, <1>2, <1>3, PTL DEF SessionSpec
=============================================================================
