------------------------ MODULE SubscriptionsProofs ------------------------
(***************************************************************************)
(* Who may decide a subscription and how long a decision lasts, how many   *)
(* of one credential there can be, and which alerts are raised, for every  *)
(* number of credentials, holders and concurrent requests.                 *)
(***************************************************************************)
EXTENDS Subscriptions, FiniteSetTheorems, TLAPS

-----------------------------------------------------------------------------
(* The inductive invariant: rows are rows, and requests and wallets name   *)
(* identifiers.  What is in the row they name may have changed, and that   *)
(* is what the statements of the handlers guard against.                   *)

SubRows ==
  [cred : CredIDs, status : {"active", "pending", "rejected", "unsubscribed"}]

SubsTyped ==
  /\ subs \in [SubIDs -> {NoRow} \cup SubRows]
  /\ DOMAIN portal = Portals
  /\ \A p \in Portals :
       /\ portal[p].pc \in {"check", "generate", "insert"} => portal[p].cred \in CredIDs
       /\ portal[p].pc \in {"delete", "unsubscribe"} =>
            portal[p] = [pc |-> portal[p].pc, id |-> portal[p].id] /\ portal[p].id \in SubIDs
  /\ DOMAIN wallet = Holders
  /\ \A h \in Holders : wallet[h] \in {Idle} \cup [pc : {"decide"}, id : SubIDs]

\* Rows are told apart from missing ones by their status.
LEMMA RowTells ==
  ASSUME SubsTyped, NEW s \in SubIDs
  PROVE  /\ subs[s] # NoRow => subs[s] \in SubRows
         /\ subs[s] = NoRow <=> subs[s].status = "none"
  BY DEF SubsTyped, SubRows, NoRow

\* One portal request goes on; the row it writes is a row.
LEMMA PortalTyped ==
  ASSUME SubsTyped, NEW p \in Portals, NEW to, PortalGoes(p, to),
         to.pc \in {"check", "generate", "insert"} => to.cred \in CredIDs,
         to.pc \in {"delete", "unsubscribe"} =>
           to = [pc |-> to.pc, id |-> to.id] /\ to.id \in SubIDs,
         subs' \in [SubIDs -> {NoRow} \cup SubRows]
  PROVE  SubsTyped'
<1>1. /\ portal' = [portal EXCEPT ![p] = to]
      /\ wallet' = wallet
  BY DEF PortalGoes
<1>2. DOMAIN portal' = Portals /\ \A o \in Portals : portal'[o] = IF o = p THEN to ELSE portal[o]
  BY <1>1 DEF SubsTyped
<1> QED
  BY <1>1, <1>2 DEF SubsTyped

\* A new subscription and a deleted one.
LEMMA RowInserted ==
  ASSUME SubsTyped, NEW s, NEW c \in CredIDs
  PROVE  /\ [subs EXCEPT ![s] = [cred |-> c, status |-> "pending"]]
              \in [SubIDs -> {NoRow} \cup SubRows]
         /\ [subs EXCEPT ![s] = NoRow] \in [SubIDs -> {NoRow} \cup SubRows]
<1>1. [cred |-> c, status |-> "pending"] \in SubRows
  BY DEF SubRows
<1> QED
  BY <1>1 DEF SubsTyped

\* A decided one and one that has ended.
LEMMA RowMoved ==
  ASSUME SubsTyped, NEW s \in SubIDs, subs[s] # NoRow,
         NEW v \in {"active", "rejected", "unsubscribed"}
  PROVE  [subs EXCEPT ![s].status = v] \in [SubIDs -> {NoRow} \cup SubRows]
<1>1. [subs[s] EXCEPT !.status = v] \in SubRows
  BY RowTells DEF SubRows
<1> QED
  BY <1>1 DEF SubsTyped

LEMMA SubsStart == SubscriptionsInit => SubsTyped
  BY DEF SubscriptionsInit, SubsTyped, Idle

LEMMA PortalStepTyped ==
  ASSUME SubsTyped, NEW p \in Portals, PortalStep(p)
  PROVE  SubsTyped'
<1>0. /\ Idle.pc = "idle" /\ subs \in [SubIDs -> {NoRow} \cup SubRows]
      /\ (portal[p].pc \in {"check", "generate", "insert"} => portal[p].cred \in CredIDs)
  BY DEF Idle, SubsTyped
<1>1. ASSUME NEW c \in CredIDs, Request(p, c) PROVE SubsTyped'
  <2>1. PortalGoes(p, [pc |-> "check", cred |-> c]) /\ subs' = subs
    BY <1>1 DEF Request
  <2> QED
    BY <1>0, <2>1, PortalTyped
<1>2. CASE CheckExists(p)
  <2> DEFINE next == [portal[p] EXCEPT !.pc = "generate"]
  <2>1. /\ portal[p].pc = "check" /\ subs' = subs
        /\ PortalGoes(p, IF Monitored(portal[p].cred) THEN Idle ELSE next)
    BY <1>2 DEF CheckExists
  <2>2. next.pc = "generate" /\ next.cred = portal[p].cred
    OBVIOUS
  <2>3. PortalGoes(p, Idle) => SubsTyped'
    BY <1>0, <2>1, PortalTyped
  <2>4. PortalGoes(p, next) => SubsTyped'
    <3> HIDE DEF next
    <3> QED
      BY <1>0, <2>1, <2>2, PortalTyped
  <2> QED
    BY <2>1, <2>3, <2>4
<1>3. CASE GenerateSubscriptionID(p)
  <2>1. PICK id : PortalGoes(p, [pc |-> "insert", cred |-> portal[p].cred, id |-> id])
    BY <1>3 DEF GenerateSubscriptionID
  <2>2. portal[p].cred \in CredIDs /\ subs' = subs
    BY <1>0, <1>3 DEF GenerateSubscriptionID
  <2> QED
    BY <1>0, <2>1, <2>2, PortalTyped
<1>4. CASE InsertSubscription(p)
  <2>1. portal[p].cred \in CredIDs /\ PortalGoes(p, Idle)
    BY <1>0, <1>4 DEF InsertSubscription
  <2>2. \/ subs' = subs
        \/ subs' = [subs EXCEPT ![portal[p].id] = [cred |-> portal[p].cred, status |-> "pending"]]
    BY <1>4 DEF InsertSubscription
  <2>3. subs' \in [SubIDs -> {NoRow} \cup SubRows]
    BY <1>0, <2>1, <2>2, RowInserted
  <2> QED
    BY <1>0, <2>1, <2>3, PortalTyped
<1>5. ASSUME NEW s \in SubIDs, AskDelete(p, s) \/ AskUnsubscribe(p, s) PROVE SubsTyped'
  <2>1. PICK pc \in {"delete", "unsubscribe"} : PortalGoes(p, [pc |-> pc, id |-> s])
    BY <1>5 DEF AskDelete, AskUnsubscribe, Asks
  <2>2. subs' = subs
    BY <1>5 DEF AskDelete, AskUnsubscribe, Asks
  <2> QED
    BY <1>0, <2>1, <2>2, PortalTyped
<1>6. CASE DeleteSubscription(p)
  <2>1. /\ PortalGoes(p, Idle)
        /\ subs' = subs \/ subs' = [subs EXCEPT ![portal[p].id] = NoRow]
    BY <1>6 DEF DeleteSubscription
  <2>2. subs' \in [SubIDs -> {NoRow} \cup SubRows]
    BY <1>0, <2>1
  <2> QED
    BY <1>0, <2>1, <2>2, PortalTyped
<1>7. CASE Unsubscribe(p)
  <2> DEFINE k == portal[p].id
  <2>1. /\ PortalGoes(p, Idle) /\ portal[p].pc = "unsubscribe"
        /\ \/ subs' = subs
           \/ subs[k].status = "active" /\ subs' = [subs EXCEPT ![k].status = "unsubscribed"]
    BY <1>7 DEF Unsubscribe, Ended
  <2>2. k \in SubIDs
    BY <2>1 DEF SubsTyped
  <2>3. subs[k].status = "active" => subs[k] # NoRow
    BY <2>2, RowTells
  <2>4. subs' \in [SubIDs -> {NoRow} \cup SubRows]
    BY <1>0, <2>1, <2>2, <2>3, RowMoved
  <2> QED
    BY <1>0, <2>1, <2>4, PortalTyped
<1>8. CASE PortalFails(p)
  BY <1>0, <1>8, PortalTyped DEF PortalFails
<1> QED
  BY <1>1, <1>2, <1>3, <1>4, <1>5, <1>6, <1>7, <1>8 DEF PortalStep

LEMMA WalletStepTyped ==
  ASSUME SubsTyped, NEW h \in Holders, WalletStep(h)
  PROVE  SubsTyped'
<1>1. ASSUME NEW s \in SubIDs, Sees(h, s) PROVE SubsTyped'
  BY <1>1 DEF Sees, SubsTyped, tables
<1>2. ASSUME NEW v \in {"active", "rejected"}, Decide(h, v) PROVE SubsTyped'
  <2> DEFINE k == wallet[h].id
  <2>1. /\ wallet' = [wallet EXCEPT ![h] = Idle] /\ portal' = portal
        /\ \/ subs' = subs
           \/ subs[k] # NoRow /\ subs' = [subs EXCEPT ![k].status = v]
    BY <1>2 DEF Decide
  <2>2. k \in SubIDs
    BY <1>2 DEF Decide, SubsTyped, Idle
  <2>3. subs' \in [SubIDs -> {NoRow} \cup SubRows]
    <3> HIDE DEF k
    <3>1. CASE subs' = subs
      BY <3>1 DEF SubsTyped
    <3>2. CASE subs[k] # NoRow /\ subs' = [subs EXCEPT ![k].status = v]
      BY <2>2, <3>2, RowMoved
    <3> QED
      BY <2>1, <3>1, <3>2
  <2> QED
    BY <2>1, <2>3 DEF SubsTyped
<1> QED
  BY <1>1, <1>2 DEF WalletStep

LEMMA SubsStep == SubsTyped /\ [SubscriptionsNext]_vars => SubsTyped'
<1> SUFFICES ASSUME SubsTyped, [SubscriptionsNext]_vars PROVE SubsTyped'
  OBVIOUS
<1>1. ASSUME UNCHANGED <<subs, portal, wallet>> PROVE SubsTyped'
  BY <1>1 DEF SubsTyped
<1>2. \A r \in Raisers : RaiserStep(r) => UNCHANGED <<subs, portal, wallet>>
  BY DEF RaiserStep, ChangeStatus, LookUp, GenerateAlertID, InsertAlert, RaiseFails, tables
<1>3. (\E c \in CredIDs : Restores(c)) \/ (\E a \in AlertIDs : AcknowledgeAlert(a))
        \/ UNCHANGED vars => UNCHANGED <<subs, portal, wallet>>
  BY DEF Restores, AcknowledgeAlert, vars, tables
<1>4. CASE BackendRestarts
  BY <1>4 DEF BackendRestarts, SubsTyped, Idle, tables
<1> QED
  BY <1>1, <1>2, <1>3, <1>4, PortalStepTyped, WalletStepTyped DEF SubscriptionsNext

-----------------------------------------------------------------------------
(* What a step can do to a subscription. *)

Created(s) == subs[s] = NoRow
Deleted(s) == subs[s].status = "pending" /\ subs'[s] = NoRow

EndedOnRequest(s) ==
  /\ subs[s].status = "active"
  /\ subs'[s] = [subs[s] EXCEPT !.status = "unsubscribed"]
  /\ \E p \in Portals : portal[p] = [pc |-> "unsubscribe", id |-> s]

DecidedByHolder(s) ==
  /\ subs[s].status = "pending"
  /\ \E v \in {"active", "rejected"} : subs'[s] = [subs[s] EXCEPT !.status = v]
  /\ \E h \in Holders : /\ wallet[h] = [pc |-> "decide", id |-> s]
                        /\ wallet'[h] = Idle
                        /\ HolderOf[subs[s].cred] = h

Moves(s) ==
  subs'[s] = subs[s] \/ Created(s) \/ Deleted(s) \/ EndedOnRequest(s) \/ DecidedByHolder(s)

LEMMA PortalMoves ==
  ASSUME SubsTyped, NEW p \in Portals, PortalStep(p), NEW s \in SubIDs
  PROVE  Moves(s)
<1> DEFINE k == portal[p].id
<1>0. s \in DOMAIN subs
  BY DEF SubsTyped
<1>1. ASSUME subs' = subs PROVE Moves(s)
  BY <1>1 DEF Moves
<1>2. CASE InsertSubscription(p)
  <2>1. \/ subs' = subs
        \/ subs[k] = NoRow /\ subs' = [subs EXCEPT ![k] = [cred |-> portal[p].cred, status |-> "pending"]]
    BY <1>2 DEF InsertSubscription
  <2> QED
    BY <1>0, <2>1 DEF Moves, Created
<1>3. CASE DeleteSubscription(p)
  <2>1. \/ subs' = subs
        \/ subs[k].status = "pending" /\ subs' = [subs EXCEPT ![k] = NoRow]
    BY <1>3 DEF DeleteSubscription, Deletable
  <2> QED
    BY <1>0, <2>1 DEF Moves, Deleted
<1>4. CASE Unsubscribe(p)
  <2>1. /\ portal[p].pc = "unsubscribe"
        /\ \/ subs' = subs
           \/ subs[k].status = "active" /\ subs' = [subs EXCEPT ![k].status = "unsubscribed"]
    BY <1>4 DEF Unsubscribe, Ended
  <2>2. portal[p] = [pc |-> "unsubscribe", id |-> k]
    BY <2>1 DEF SubsTyped
  <2> HIDE DEF k
  <2> QED
    BY <1>0, <2>1, <2>2 DEF Moves, EndedOnRequest
<1>5. subs' = subs \/ InsertSubscription(p) \/ DeleteSubscription(p) \/ Unsubscribe(p)
  BY DEF PortalStep, Request, CheckExists, GenerateSubscriptionID, AskDelete, AskUnsubscribe,
         Asks, PortalFails
<1> QED
  BY <1>1, <1>2, <1>3, <1>4, <1>5

LEMMA WalletMoves ==
  ASSUME SubsTyped, NEW h \in Holders, WalletStep(h), NEW s \in SubIDs
  PROVE  Moves(s)
<1>1. ASSUME NEW t \in SubIDs, Sees(h, t) PROVE Moves(s)
  BY <1>1 DEF Sees, tables, Moves
<1>2. ASSUME NEW v \in {"active", "rejected"}, Decide(h, v) PROVE Moves(s)
  <2> DEFINE k == wallet[h].id
  <2>1. /\ wallet' = [wallet EXCEPT ![h] = Idle]
        /\ \/ subs' = subs
           \/ /\ subs[k].status = "pending" /\ HolderOf[subs[k].cred] = h
              /\ subs' = [subs EXCEPT ![k].status = v]
    BY <1>2 DEF Decide, Owns
  <2>2. wallet[h] = [pc |-> "decide", id |-> k]
    BY <1>2 DEF Decide, SubsTyped, Idle
  <2>3. wallet'[h] = Idle /\ s \in DOMAIN subs
    BY <2>1 DEF SubsTyped
  <2> HIDE DEF k
  <2>4. ASSUME s = k, subs' # subs PROVE DecidedByHolder(s)
    BY <2>1, <2>2, <2>3, <2>4 DEF DecidedByHolder
  <2>5. s # k => subs'[s] = subs[s]
    BY <2>1, <2>3
  <2> QED
    BY <2>4, <2>5 DEF Moves
<1> QED
  BY <1>1, <1>2 DEF WalletStep

\* A subscription is created, and while it is pending deleted by the portal or
\* decided by its holder; what the holder approved may be ended on request.
LEMMA SubscriptionMoves ==
  ASSUME SubsTyped, SubscriptionsNext, NEW s \in SubIDs
  PROVE  Moves(s)
<1>1. ASSUME subs' = subs PROVE Moves(s)
  BY <1>1 DEF Moves
<1>2. \/ subs' = subs
      \/ \E p \in Portals : PortalStep(p)
      \/ \E h \in Holders : WalletStep(h)
  BY DEF SubscriptionsNext, RaiserStep, ChangeStatus, LookUp, GenerateAlertID, InsertAlert,
         RaiseFails, Restores, AcknowledgeAlert, BackendRestarts, tables
<1> QED
  BY <1>1, <1>2, PortalMoves, WalletMoves

-----------------------------------------------------------------------------
(* The theorems. *)

\* Rows stay rows, whichever statements of the portal, the wallets and the
\* status handlers come in whichever order.
THEOREM SubsAreTyped == SubscriptionsSpec => []SubsTyped
  BY SubsStart, SubsStep, PTL DEF SubscriptionsSpec

\* What a step does that decides a subscription.
DecidedNow ==
  \A s \in SubIDs :
    subs[s] # NoRow /\ subs[s].status = "pending" /\ subs'[s].status \in {"active", "rejected"}
    => \E h \in Holders : /\ wallet[h] = [pc |-> "decide", id |-> s]
                          /\ wallet'[h] = Idle
                          /\ HolderOf[subs[s].cred] = h

\* updateSubscriptionStatus: the JOIN with the holder's row and the status in
\* the WHERE clause make an identifier that was given away harmless.
THEOREM HolderDecides == SubscriptionsSpec => DecidedByItsHolder
<1>1. SubsTyped /\ [SubscriptionsNext]_vars => [DecidedNow]_vars
  <2> SUFFICES ASSUME SubsTyped, SubscriptionsNext, NEW s \in SubIDs, subs[s] # NoRow,
                      subs[s].status = "pending", subs'[s].status \in {"active", "rejected"}
               PROVE  \E h \in Holders : /\ wallet[h] = [pc |-> "decide", id |-> s]
                                         /\ wallet'[h] = Idle
                                         /\ HolderOf[subs[s].cred] = h
    BY DEF DecidedNow
  <2>1. Moves(s)
    BY SubscriptionMoves
  <2> QED
    BY <2>1 DEF Moves, Created, Deleted, EndedOnRequest, DecidedByHolder, NoRow
<1>2. DecidedByItsHolder <=> [][DecidedNow]_vars
  BY DEF DecidedByItsHolder, DecidedNow
<1> QED
  BY <1>1, <1>2, SubsAreTyped, PTL DEF SubscriptionsSpec

StandsNow ==
  \A s \in SubIDs :
    /\ subs[s].status = "active" =>
         \/ subs'[s] = subs[s]
         \/ /\ subs'[s] = [subs[s] EXCEPT !.status = "unsubscribed"]
            /\ \E p \in Portals : portal[p] = [pc |-> "unsubscribe", id |-> s]
    /\ subs[s].status \in {"rejected", "unsubscribed"} => subs'[s] = subs[s]

\* deleteSubscription and unsubscribe repeat the status they found in the
\* statement, so that a decision made meanwhile stands.
THEOREM DecisionStands == SubscriptionsSpec => DecisionsStand
<1>1. SubsTyped /\ [SubscriptionsNext]_vars => [StandsNow]_vars
  <2> SUFFICES ASSUME SubsTyped, SubscriptionsNext, NEW s \in SubIDs
               PROVE  /\ subs[s].status = "active" => subs'[s] = subs[s] \/ EndedOnRequest(s)
                      /\ subs[s].status \in {"rejected", "unsubscribed"} => subs'[s] = subs[s]
    BY DEF StandsNow, EndedOnRequest
  <2>1. Moves(s)
    BY SubscriptionMoves
  <2> QED
    BY <2>1 DEF Moves, Created, Deleted, EndedOnRequest, DecidedByHolder, NoRow
<1>2. DecisionsStand <=> [][StandsNow]_vars
  BY DEF DecisionsStand, StandsNow
<1> QED
  BY <1>1, <1>2, SubsAreTyped, PTL DEF SubscriptionsSpec

-----------------------------------------------------------------------------
(* Second subscriptions.  A request that has passed the check for one is   *)
(* counted with the subscriptions that are live: it passed because there   *)
(* was none.                                                               *)

Passed(c) == {p \in Portals : portal[p].pc \in {"generate", "insert"} /\ portal[p].cred = c}

FewLive ==
  \A c \in CredIDs :
    Cardinality(Live(c)) + Cardinality(Passed(c)) <= Cardinality(Portals)

LEMMA OneMore ==
  ASSUME NEW S, IsFiniteSet(S), NEW x, x \notin S
  PROVE  /\ IsFiniteSet(S \cup {x}) /\ Cardinality(S) \in Nat
         /\ Cardinality(S \cup {x}) = Cardinality(S) + 1
  BY FS_AddElement, FS_CardinalityType

LEMMA OneLess ==
  ASSUME NEW S, IsFiniteSet(S), NEW x \in S
  PROVE  /\ IsFiniteSet(S \ {x}) /\ Cardinality(S) \in Nat /\ Cardinality(S \ {x}) \in Nat
         /\ Cardinality(S \ {x}) + 1 = Cardinality(S)
  BY FS_RemoveElement, FS_CardinalityType

LEMMA NotMore ==
  ASSUME NEW S, IsFiniteSet(S), NEW T \in SUBSET S
  PROVE  /\ IsFiniteSet(T) /\ Cardinality(T) \in Nat /\ Cardinality(S) \in Nat
         /\ Cardinality(T) <= Cardinality(S)
  BY FS_Subset, FS_CardinalityType

LEMMA LiveIsFinite ==
  ASSUME SubsTyped, NEW c
  PROVE  IsFiniteSet(Live(c)) /\ Passed(c) \in SUBSET Portals /\ IsFiniteSet(Passed(c))
<1>1. IsFiniteSet(SubIDs)
  BY BoundsAssumption, FS_Interval DEF SubIDs
<1>2. Live(c) \subseteq SubIDs
  BY DEF Live, IDsOf, SubsTyped
<1>3. Passed(c) \in SUBSET Portals
  BY DEF Passed
<1> QED
  BY <1>1, <1>2, <1>3, HandlersAssumption, FS_Subset

\* Only an insert makes a row.
LEMMA OnlyInsertsMakeRows ==
  ASSUME SubsTyped, SubscriptionsNext, \A p \in Portals : ~InsertSubscription(p),
         NEW s \in SubIDs, subs[s] = NoRow
  PROVE  subs'[s] = NoRow
<1>0. subs[s].status = "none" /\ s \in DOMAIN subs
  BY DEF NoRow, SubsTyped
<1>1. ASSUME NEW p \in Portals, PortalStep(p) PROVE subs'[s] = NoRow
  BY <1>0, <1>1 DEF PortalStep, Request, CheckExists, GenerateSubscriptionID, AskDelete,
     AskUnsubscribe, Asks, DeleteSubscription, Unsubscribe, PortalFails
<1>2. ASSUME NEW h \in Holders, WalletStep(h) PROVE subs'[s] = NoRow
  BY <1>0, <1>2 DEF WalletStep, Sees, Decide, tables
<1>3. subs' = subs \/ (\E p \in Portals : PortalStep(p)) \/ (\E h \in Holders : WalletStep(h))
  BY DEF SubscriptionsNext, RaiserStep, ChangeStatus, LookUp, GenerateAlertID, InsertAlert,
         RaiseFails, Restores, AcknowledgeAlert, BackendRestarts, tables
<1> QED
  BY <1>1, <1>2, <1>3

LEMMA LiveShrinks ==
  ASSUME SubsTyped, SubscriptionsNext, \A p \in Portals : ~InsertSubscription(p),
         NEW c \in CredIDs
  PROVE  Live(c)' \subseteq Live(c)
<1> SUFFICES ASSUME NEW s \in Live(c)' PROVE s \in Live(c)
  OBVIOUS
<1>1. SubsTyped'
  BY SubsStep
<1>2. s \in SubIDs /\ subs'[s] # NoRow /\ subs'[s].cred = c /\ subs'[s].status \in LiveStatuses
  BY <1>1 DEF Live, IDsOf, SubsTyped
<1>3. subs[s] # NoRow /\ subs[s] \in SubRows /\ s \in DOMAIN subs
  BY <1>2, OnlyInsertsMakeRows, RowTells DEF SubsTyped
<1>4. subs'[s] = subs[s] \/ EndedOnRequest(s) \/ DecidedByHolder(s)
  BY <1>2, <1>3, SubscriptionMoves DEF Moves, Created, Deleted
<1>5. subs[s].cred = c /\ subs[s].status \in LiveStatuses
  BY <1>2, <1>3, <1>4 DEF EndedOnRequest, DecidedByHolder, SubRows, LiveStatuses
<1> QED
  BY <1>3, <1>5 DEF Live, IDsOf

\* A request passes the check of a credential that nobody monitors.
LEMMA PassedGrows ==
  ASSUME SubsTyped, SubscriptionsNext, NEW c \in CredIDs
  PROVE  Passed(c)' \subseteq Passed(c) \/ Live(c) = {}
<1>1. ASSUME NEW p \in Portals, NEW to, PortalGoes(p, to),
             to.pc \in {"generate", "insert"} /\ to.cred = c => p \in Passed(c)
      PROVE  Passed(c)' \subseteq Passed(c)
  <2>1. portal' = [portal EXCEPT ![p] = to] /\ DOMAIN portal = Portals
    BY <1>1 DEF PortalGoes, SubsTyped
  <2> QED
    BY <1>1, <2>1 DEF Passed
<1>2. ASSUME NEW p \in Portals, CheckExists(p)
      PROVE  Passed(c)' \subseteq Passed(c) \/ Live(c) = {}
  <2> DEFINE next == [portal[p] EXCEPT !.pc = "generate"]
  <2>1. \/ PortalGoes(p, Idle)
        \/ PortalGoes(p, next) /\ Live(portal[p].cred) = {}
    BY <1>2 DEF CheckExists, Monitored
  <2>2. CASE PortalGoes(p, Idle)
    BY <1>1, <2>2 DEF Idle
  <2>3. CASE PortalGoes(p, next) /\ Live(portal[p].cred) = {}
    <3>1. next.cred = portal[p].cred
      OBVIOUS
    <3> HIDE DEF next
    <3>2. CASE portal[p].cred = c
      BY <2>3, <3>2
    <3>3. CASE portal[p].cred # c
      BY <1>1, <2>3, <3>1, <3>3
    <3> QED
      BY <3>2, <3>3
  <2> QED
    BY <2>1, <2>2, <2>3
<1>3. ASSUME NEW p \in Portals, PortalStep(p)
      PROVE  Passed(c)' \subseteq Passed(c) \/ Live(c) = {}
  <2>1. Idle.pc = "idle" /\ portal[p].pc = "generate" => (portal[p].cred = c => p \in Passed(c))
    BY DEF Passed
  <2>2. CASE GenerateSubscriptionID(p)
    <3>1. PICK id : PortalGoes(p, [pc |-> "insert", cred |-> portal[p].cred, id |-> id])
      BY <2>2 DEF GenerateSubscriptionID
    <3>2. portal[p].cred = c => p \in Passed(c)
      BY <2>2 DEF GenerateSubscriptionID, Passed
    <3> QED
      BY <1>1, <3>1, <3>2
  <2>3. ASSUME NEW k \in CredIDs, Request(p, k) PROVE Passed(c)' \subseteq Passed(c)
    BY <1>1, <2>3 DEF Request
  <2>4. ASSUME NEW s \in SubIDs, AskDelete(p, s) \/ AskUnsubscribe(p, s)
        PROVE  Passed(c)' \subseteq Passed(c)
    BY <1>1, <2>4 DEF AskDelete, AskUnsubscribe, Asks
  <2>5. CASE InsertSubscription(p) \/ DeleteSubscription(p) \/ Unsubscribe(p) \/ PortalFails(p)
    BY <1>1, <2>5 DEF InsertSubscription, DeleteSubscription, Unsubscribe, PortalFails, Idle
  <2> QED
    BY <1>2, <1>3, <2>2, <2>3, <2>4, <2>5 DEF PortalStep
<1>4. CASE portal' = portal
  BY <1>4 DEF Passed
<1>5. CASE BackendRestarts
  BY <1>5 DEF BackendRestarts, Passed, Idle
<1>6. (portal' = portal) \/ BackendRestarts \/ \E p \in Portals : PortalStep(p)
  BY DEF SubscriptionsNext, WalletStep, Sees, Decide, RaiserStep, ChangeStatus, LookUp,
         GenerateAlertID, InsertAlert, RaiseFails, Restores, AcknowledgeAlert
<1> QED
  BY <1>3, <1>4, <1>5, <1>6

LEMMA AtMostOneMore ==
  ASSUME NEW S, IsFiniteSet(S), NEW x, NEW T, T \subseteq S \cup {x}
  PROVE  /\ IsFiniteSet(T) /\ Cardinality(T) \in Nat /\ Cardinality(S) \in Nat
         /\ Cardinality(T) <= Cardinality(S) + 1
<1>1. /\ IsFiniteSet(S \cup {x}) /\ Cardinality(S) \in Nat
      /\ Cardinality(S \cup {x}) \in {Cardinality(S), Cardinality(S) + 1}
  BY FS_AddElement, FS_CardinalityType
<1>2. /\ IsFiniteSet(T) /\ Cardinality(T) \in Nat /\ Cardinality(S \cup {x}) \in Nat
      /\ Cardinality(T) <= Cardinality(S \cup {x})
  BY <1>1, NotMore
<1> QED
  BY <1>1, <1>2

\* An insert makes one row, and its request is done.
LEMMA InsertCounts ==
  ASSUME SubsTyped, SubsTyped', NEW p \in Portals, InsertSubscription(p), NEW c \in CredIDs
  PROVE  \/ Live(c)' \subseteq Live(c) /\ Passed(c)' \subseteq Passed(c)
         \/ /\ p \in Passed(c)
            /\ Live(c)' \subseteq Live(c) \cup {portal[p].id}
            /\ Passed(c)' \subseteq Passed(c) \ {p}
<1> DEFINE row == [cred |-> portal[p].cred, status |-> "pending"]
           k   == portal[p].id
<1>1. /\ DOMAIN subs = SubIDs /\ DOMAIN subs' = SubIDs /\ DOMAIN portal = Portals
      /\ portal' = [portal EXCEPT ![p] = Idle] /\ Idle.pc = "idle"
      /\ subs' = subs \/ subs' = [subs EXCEPT ![k] = row]
  BY DEF SubsTyped, InsertSubscription, PortalGoes, Idle
<1>2. Passed(c)' \subseteq Passed(c) \ {p}
  BY <1>1 DEF Passed
<1>3. Live(c)' \subseteq Live(c) \cup {k}
  BY <1>1 DEF Live, IDsOf
<1>4. CASE portal[p].cred = c
  BY <1>2, <1>3, <1>4 DEF Passed, InsertSubscription
<1>5. CASE portal[p].cred # c
  <2>1. Live(c)' \subseteq Live(c)
    BY <1>1, <1>5 DEF Live, IDsOf
  <2> QED
    BY <2>1, <1>2
<1> QED
  BY <1>4, <1>5

\* The sum of both, by what a step does to either.
LEMMA CountsStay ==
  ASSUME NEW L, NEW P, NEW M, NEW Q, IsFiniteSet(L), IsFiniteSet(P), P \subseteq Portals,
         Q \subseteq Portals, Cardinality(L) + Cardinality(P) <= Cardinality(Portals),
         \/ M \subseteq L /\ (Q \subseteq P \/ L = {})
         \/ \E p \in P : \E k : M \subseteq L \cup {k} /\ Q \subseteq P \ {p}
  PROVE  Cardinality(M) + Cardinality(Q) <= Cardinality(Portals)
<1>0. /\ Cardinality(L) \in Nat /\ Cardinality(P) \in Nat /\ Cardinality(Portals) \in Nat
      /\ IsFiniteSet(Q) /\ Cardinality(Q) \in Nat /\ Cardinality(Q) <= Cardinality(Portals)
  BY HandlersAssumption, NotMore, FS_CardinalityType
<1>1. CASE M \subseteq L /\ Q \subseteq P
  <2>1. /\ Cardinality(M) \in Nat /\ Cardinality(M) <= Cardinality(L)
        /\ Cardinality(Q) <= Cardinality(P)
    BY <1>1, NotMore
  <2> QED
    BY <1>0, <2>1
<1>2. CASE M \subseteq L /\ L = {}
  <2>1. Cardinality(M) = 0
    BY <1>2, FS_EmptySet
  <2> QED
    BY <1>0, <2>1
<1>3. ASSUME NEW p \in P, NEW k, M \subseteq L \cup {k}, Q \subseteq P \ {p}
      PROVE  Cardinality(M) + Cardinality(Q) <= Cardinality(Portals)
  <2>1. Cardinality(M) \in Nat /\ Cardinality(M) <= Cardinality(L) + 1
    BY <1>3, AtMostOneMore
  <2>2. /\ IsFiniteSet(P \ {p}) /\ Cardinality(P \ {p}) \in Nat
        /\ Cardinality(P \ {p}) + 1 = Cardinality(P)
    BY OneLess
  <2>3. Cardinality(Q) <= Cardinality(P \ {p})
    BY <1>3, <2>2, NotMore
  <2> QED
    BY <1>0, <2>1, <2>2, <2>3
<1> QED
  BY <1>1, <1>2, <1>3

LEMMA FewLiveStep == SubsTyped /\ FewLive /\ [SubscriptionsNext]_vars => FewLive'
<1> SUFFICES ASSUME SubsTyped, FewLive, [SubscriptionsNext]_vars, NEW c \in CredIDs
             PROVE  Cardinality(Live(c)') + Cardinality(Passed(c)') <= Cardinality(Portals)
  BY DEF FewLive
<1>1. SubsTyped'
  BY SubsStep
<1>2. /\ IsFiniteSet(Live(c)) /\ IsFiniteSet(Passed(c)) /\ Passed(c) \subseteq Portals
      /\ Cardinality(Live(c)) + Cardinality(Passed(c)) <= Cardinality(Portals)
  BY LiveIsFinite DEF FewLive
<1>3. Passed(c)' \subseteq Portals
  BY DEF Passed
<1>4. ASSUME NEW p \in Portals, InsertSubscription(p)
      PROVE  \/ Live(c)' \subseteq Live(c) /\ Passed(c)' \subseteq Passed(c)
             \/ /\ p \in Passed(c)
                /\ Live(c)' \subseteq Live(c) \cup {portal[p].id}
                /\ Passed(c)' \subseteq Passed(c) \ {p}
  BY <1>1, <1>4, InsertCounts
<1>5. ASSUME SubscriptionsNext, \A p \in Portals : ~InsertSubscription(p)
      PROVE  Live(c)' \subseteq Live(c) /\ (Passed(c)' \subseteq Passed(c) \/ Live(c) = {})
  BY <1>5, LiveShrinks, PassedGrows
<1>6. ASSUME UNCHANGED vars
      PROVE  Live(c)' \subseteq Live(c) /\ Passed(c)' \subseteq Passed(c)
  BY <1>6 DEF vars, tables, Live, IDsOf, Passed
<1>7. \/ Live(c)' \subseteq Live(c) /\ (Passed(c)' \subseteq Passed(c) \/ Live(c) = {})
      \/ \E p \in Passed(c) : \E k : /\ Live(c)' \subseteq Live(c) \cup {k}
                                     /\ Passed(c)' \subseteq Passed(c) \ {p}
  BY <1>4, <1>5, <1>6
<1> QED
  BY <1>2, <1>3, <1>7, CountsStay

LEMMA FewLiveStart == SubscriptionsInit => FewLive
<1> SUFFICES ASSUME SubscriptionsInit, NEW c \in CredIDs
             PROVE  Cardinality(Live(c)) + Cardinality(Passed(c)) <= Cardinality(Portals)
  BY DEF FewLive
<1>1. Live(c) = {} /\ Passed(c) = {}
  BY DEF SubscriptionsInit, Live, IDsOf, Passed, Idle
<1> QED
  BY <1>1, FS_EmptySet, HandlersAssumption, FS_CardinalityType

\* activeSubscriptionExists and the INSERT are two statements, and no index
\* keeps the second of two rows out; but requests that follow one another find
\* the first.
THEOREM DuplicatesNeedOverlapHolds == SubscriptionsSpec => []DuplicatesNeedOverlap
<1>1. SubsTyped /\ FewLive => DuplicatesNeedOverlap
  <2> SUFFICES ASSUME SubsTyped, FewLive, NEW c \in CredIDs
               PROVE  Cardinality(Live(c)) <= Cardinality(Portals)
    BY DEF DuplicatesNeedOverlap
  <2>1. /\ Cardinality(Live(c)) \in Nat /\ Cardinality(Passed(c)) \in Nat
        /\ Cardinality(Portals) \in Nat
    BY LiveIsFinite, HandlersAssumption, FS_CardinalityType
  <2>2. Cardinality(Live(c)) + Cardinality(Passed(c)) <= Cardinality(Portals)
    BY DEF FewLive
  <2> QED
    BY <2>1, <2>2
<1> QED
  BY <1>1, FewLiveStart, FewLiveStep, SubsAreTyped, PTL DEF SubscriptionsSpec

-----------------------------------------------------------------------------
(* Alerts.  Their identifiers are the first ones, without a gap, and every *)
(* handler that is about to insert knows some of them: the identifier it   *)
(* made is taken by now, or it is the next.  The rest is counting: what is *)
(* in the table and under way was owed, and what is owed was changed.      *)

AlertRows ==
  [cred : CredIDs, severity : Severities, status : {"unread", "acknowledged"}]

Begun     == [pc : {"look", "generate"}, cred : CredIDs, severity : Severities]
Inserting == [pc : {"insert"}, cred : CredIDs, severity : Severities,
              id : Nat, seen : SUBSET Nat]

AlertsTyped ==
  /\ status \in [CredIDs -> Chain!Statuses]
  /\ alerts \in [AlertIDs -> {NoRow} \cup AlertRows]
  /\ DOMAIN raise = Raisers
  /\ \A r \in Raisers : raise[r] \in {Idle} \cup Begun \cup Inserting
  /\ changes \in [CredIDs -> [Severities -> Nat]]
  /\ owed \in Nat

PortalTypes ==
  /\ requests \in 0 .. MaxRequests
  /\ DOMAIN portal = Portals
  /\ \A p \in Portals :
       portal[p].pc \in {"idle", "check", "generate", "insert", "delete", "unsubscribe"}

\* The identifiers in the table, and those that the handlers made.
FirstOnes ==
  \E n \in 0 .. MaxChanges :
    /\ n <= Wide
    /\ IDsOf(alerts) = 1 .. n
    /\ \A r \in Raisers : raise[r].pc = "insert" =>
         \E m \in 0 .. n : raise[r].seen = 1 .. m /\ raise[r].id = NextID(1 .. m)

TokensOf(counts) ==
  UNION {{<<d, n>> : n \in 1 .. counts[d[1]][d[2]]} : d \in CredIDs \X Severities}
Tokens == TokensOf(changes)

Looking  == {r \in Raisers : raise[r].pc = "look"}
Underway == {r \in Raisers : Raising(r)}

Busy(c, v) ==
  {r \in Raisers : raise[r].pc # "idle" /\ raise[r].cred = c /\ raise[r].severity = v}

AlertsOf(c, v) == {a \in IDsOf(alerts) : alerts[a].cred = c /\ alerts[a].severity = v}

Accounted ==
  /\ IsFiniteSet(Tokens) /\ Cardinality(Tokens) <= MaxChanges
  /\ owed + Cardinality(Looking) <= Cardinality(Tokens)
  /\ Cardinality(IDsOf(alerts)) + Cardinality(Underway) <= owed
  /\ MaxChanges <= Wide => Cardinality(IDsOf(alerts)) + Cardinality(Underway) = owed

Told ==
  \A c \in CredIDs, v \in Severities :
    Cardinality(AlertsOf(c, v)) + Cardinality(Busy(c, v)) <= changes[c][v]

AlertsInv == AlertsTyped /\ FirstOnes /\ Accounted /\ Told

-----------------------------------------------------------------------------
(* The generator over the first identifiers: the next one, as long as it   *)
(* fits the padding, and from then on the same again and again.            *)

LEMMA MaxOfFirst ==
  ASSUME NEW m \in Nat, 1 <= m, m <= Wide
  PROVE  StringMax(1 .. m) = IF m < Wide THEN m ELSE Wide - 1
<1> DEFINE top == IF m < Wide THEN m ELSE Wide - 1
<1>0. Wide \in Nat /\ Wide >= 10
  BY WideAssumption
<1>1. top \in 1 .. m /\ top < Wide
  BY <1>0
<1>2. ASSUME NEW n \in (1 .. m) \ {top} PROVE Precedes(n, top)
  <2>1. CASE n < Wide
    <3>1. n < top
      BY <1>0, <1>1, <2>1
    <3> QED
      BY <1>0, <1>1, <2>1, <3>1 DEF Precedes
  <2>2. CASE n >= Wide
    <3>1. n = Wide /\ m = Wide /\ top = Wide - 1
      BY <1>0, <2>2
    <3>2. Wide \div 10 < Wide - 1
      BY <1>0
    <3> HIDE DEF top
    <3> QED
      BY <1>0, <1>1, <3>1, <3>2 DEF Precedes
  <2> QED
    BY <1>0, <2>1, <2>2
<1>3. ASSUME NEW x \in 1 .. m, \A n \in (1 .. m) \ {x} : Precedes(n, x), x # top
      PROVE  FALSE
  <2>1. Precedes(top, x)
    BY <1>1, <1>3
  <2>2. CASE x < Wide
    <3>1. x < top
      BY <1>0, <1>3, <2>2
    <3> QED
      BY <1>0, <1>1, <2>1, <2>2, <3>1 DEF Precedes
  <2>3. CASE x >= Wide
    <3>1. x = Wide /\ top = Wide - 1
      BY <1>0, <2>3
    <3>2. ~(Wide - 1 <= Wide \div 10)
      BY <1>0
    <3> HIDE DEF top
    <3> QED
      BY <1>0, <1>1, <2>1, <3>1, <3>2 DEF Precedes
  <2> QED
    BY <1>0, <2>2, <2>3
<1> HIDE DEF top
<1>4. StringMax(1 .. m) = top
  BY <1>1, <1>2, <1>3 DEF StringMax
<1> QED
  BY <1>4 DEF top

LEMMA NextOfFirst ==
  ASSUME NEW m \in Nat, m <= Wide
  PROVE  NextID(1 .. m) = IF m < Wide THEN m + 1 ELSE Wide
<1>0. Wide \in Nat /\ Wide >= 10
  BY WideAssumption
<1>1. CASE m = 0
  <2>1. 1 .. m = {}
    BY <1>1
  <2> QED
    BY <1>0, <1>1, <2>1 DEF NextID
<1>2. CASE m # 0
  <2>1. 1 .. m # {} /\ 1 <= m
    BY <1>2
  <2>2. StringMax(1 .. m) = IF m < Wide THEN m ELSE Wide - 1
    BY <2>1, MaxOfFirst
  <2>3. NextID(1 .. m) = StringMax(1 .. m) + 1
    BY <2>1 DEF NextID
  <2> QED
    BY <1>0, <2>2, <2>3
<1> QED
  BY <1>1, <1>2

-----------------------------------------------------------------------------
(* What the steps of the status handlers do to the sets that are counted. *)

LEMMA RaiseParts ==
  ASSUME DOMAIN raise = Raisers, NEW r \in Raisers, NEW to, raise' = [raise EXCEPT ![r] = to]
  PROVE  /\ Looking' = IF to.pc = "look" THEN Looking \cup {r} ELSE Looking \ {r}
         /\ Underway' = IF to.pc \in {"generate", "insert"} THEN Underway \cup {r}
                        ELSE Underway \ {r}
         /\ \A c, v : Busy(c, v)' = IF to.pc # "idle" /\ to.cred = c /\ to.severity = v
                                    THEN Busy(c, v) \cup {r} ELSE Busy(c, v) \ {r}
<1>1. \A o \in Raisers : raise'[o] = IF o = r THEN to ELSE raise[o]
  OBVIOUS
<1>2. Looking' = IF to.pc = "look" THEN Looking \cup {r} ELSE Looking \ {r}
  BY <1>1 DEF Looking
<1>3. Underway' = IF to.pc \in {"generate", "insert"} THEN Underway \cup {r} ELSE Underway \ {r}
  BY <1>1 DEF Underway, Raising
<1>4. ASSUME NEW c, NEW v
      PROVE  Busy(c, v)' = IF to.pc # "idle" /\ to.cred = c /\ to.severity = v
                           THEN Busy(c, v) \cup {r} ELSE Busy(c, v) \ {r}
  BY <1>1 DEF Busy
<1> QED
  BY <1>2, <1>3, <1>4

LEMMA RaisersFinite ==
  /\ IsFiniteSet(Looking) /\ IsFiniteSet(Underway) /\ \A c, v : IsFiniteSet(Busy(c, v))
  /\ Cardinality(Looking) \in Nat /\ Cardinality(Underway) \in Nat
  /\ \A c, v : Cardinality(Busy(c, v)) \in Nat
<1>1. /\ Looking \in SUBSET Raisers /\ Underway \in SUBSET Raisers
      /\ \A c, v : Busy(c, v) \in SUBSET Raisers
  BY DEF Looking, Underway, Busy
<1>2. \A T \in SUBSET Raisers : IsFiniteSet(T) /\ Cardinality(T) \in Nat
  BY HandlersAssumption, NotMore
<1> QED
  BY <1>1, <1>2

LEMMA AlertsFinite ==
  ASSUME AlertsTyped
  PROVE  /\ IDsOf(alerts) \in SUBSET AlertIDs /\ IsFiniteSet(IDsOf(alerts))
         /\ Cardinality(IDsOf(alerts)) \in Nat
         /\ \A c, v : IsFiniteSet(AlertsOf(c, v)) /\ Cardinality(AlertsOf(c, v)) \in Nat
<1>1. IDsOf(alerts) \in SUBSET AlertIDs
  BY DEF IDsOf, AlertsTyped
<1>2. IsFiniteSet(AlertIDs)
  BY BoundsAssumption, FS_Interval DEF AlertIDs
<1>3. IsFiniteSet(IDsOf(alerts)) /\ Cardinality(IDsOf(alerts)) \in Nat
  BY <1>1, <1>2, NotMore
<1>4. \A c, v : AlertsOf(c, v) \in SUBSET IDsOf(alerts)
  BY DEF AlertsOf
<1> QED
  BY <1>1, <1>3, <1>4, NotMore

LEMMA TokensAre ==
  ASSUME NEW x, NEW counts
  PROVE  x \in TokensOf(counts) <=> \E c \in CredIDs, v \in Severities :
                            \E n \in 1 .. counts[c][v] : x = <<<<c, v>>, n>>
<1>1. ASSUME x \in TokensOf(counts)
      PROVE  \E c \in CredIDs, v \in Severities : \E n \in 1 .. counts[c][v] : x = <<<<c, v>>, n>>
  <2>1. PICK d \in CredIDs \X Severities : x \in {<<d, n>> : n \in 1 .. counts[d[1]][d[2]]}
    BY <1>1 DEF TokensOf
  <2>2. d[1] \in CredIDs /\ d[2] \in Severities /\ d = <<d[1], d[2]>>
    OBVIOUS
  <2> QED
    BY <2>1, <2>2
<1>2. ASSUME NEW c \in CredIDs, NEW v \in Severities, NEW n \in 1 .. counts[c][v],
             x = <<<<c, v>>, n>>
      PROVE  x \in TokensOf(counts)
  <2>1. <<c, v>> \in CredIDs \X Severities
    OBVIOUS
  <2>2. x \in {<<<<c, v>>, k>> : k \in 1 .. counts[<<c, v>>[1]][<<c, v>>[2]]}
    BY <1>2
  <2> QED
    BY <2>1, <2>2 DEF TokensOf
<1> QED
  BY <1>1, <1>2

LEMMA OneMoreIs ==
  ASSUME NEW S, IsFiniteSet(S), NEW x, x \notin S, NEW T, T = S \cup {x}
  PROVE  IsFiniteSet(T) /\ Cardinality(T) = Cardinality(S) + 1
  BY OneMore

\* One more suspension or revocation, one more token.
CountedOnce(old, new, c, v) ==
  /\ old \in [CredIDs -> [Severities -> Nat]] /\ new \in [CredIDs -> [Severities -> Nat]]
  /\ \A d \in CredIDs, w \in Severities :
       new[d][w] = IF d = c /\ w = v THEN old[d][w] + 1 ELSE old[d][w]

LEMMA OneToken ==
  ASSUME NEW old, NEW new, NEW c \in CredIDs, NEW v \in Severities, CountedOnce(old, new, c, v),
         IsFiniteSet(TokensOf(old))
  PROVE  /\ IsFiniteSet(TokensOf(new))
         /\ Cardinality(TokensOf(new)) = Cardinality(TokensOf(old)) + 1
<1> USE DEF CountedOnce
<1> DEFINE t == <<<<c, v>>, old[c][v] + 1>>
<1>3. t \notin TokensOf(old)
  <2>1. SUFFICES ASSUME t \in TokensOf(old) PROVE FALSE
    OBVIOUS
  <2>2. PICK d \in CredIDs, w \in Severities : \E n \in 1 .. old[d][w] : t = <<<<d, w>>, n>>
    BY <2>1, TokensAre
  <2>3. d = c /\ w = v /\ old[c][v] + 1 \in 1 .. old[c][v]
    BY <2>2
  <2>4. old[c][v] \in Nat
    OBVIOUS
  <2> QED
    BY <2>3, <2>4
<1>5. TokensOf(new) = TokensOf(old) \cup {t}
  <2>1. ASSUME NEW x \in TokensOf(new) PROVE x \in TokensOf(old) \cup {t}
    <3>1. PICK d \in CredIDs, w \in Severities :
            \E n \in 1 .. new[d][w] : x = <<<<d, w>>, n>>
      BY TokensAre
    <3>0. PICK n \in 1 .. new[d][w] : x = <<<<d, w>>, n>>
      BY <3>1
    <3>2. CASE d = c /\ w = v
      <4>1. old[c][v] \in Nat /\ n \in 1 .. old[c][v] + 1
        BY <3>2
      <4>2. n = old[c][v] + 1 \/ n \in 1 .. old[c][v]
        BY <4>1
      <4> QED
        BY <3>0, <3>2, <4>2, TokensAre
    <3>3. CASE ~(d = c /\ w = v)
      BY <3>0, <3>3, TokensAre
    <3> QED
      BY <3>2, <3>3
  <2>2. ASSUME NEW x \in TokensOf(old) PROVE x \in TokensOf(new)
    <3>1. PICK d \in CredIDs, w \in Severities : \E n \in 1 .. old[d][w] : x = <<<<d, w>>, n>>
      BY TokensAre
    <3>2. old[d][w] \in Nat /\ new[d][w] \in {old[d][w], old[d][w] + 1}
      OBVIOUS
    <3>3. 1 .. old[d][w] \subseteq 1 .. new[d][w]
      BY <3>2
    <3> QED
      BY TokensAre, <3>1, <3>3
  <2>3. t \in TokensOf(new)
    <3>1. old[c][v] \in Nat /\ new[c][v] = old[c][v] + 1
      OBVIOUS
    <3>2. old[c][v] + 1 \in 1 .. new[c][v]
      BY <3>1
    <3> QED
      BY TokensAre, <3>2
  <2> QED
    BY <2>1, <2>2, <2>3
<1> HIDE DEF t
<1>4. /\ IsFiniteSet(TokensOf(new))
      /\ Cardinality(TokensOf(new)) = Cardinality(TokensOf(old)) + 1
  BY <1>3, <1>5, OneMoreIs
<1> QED
  BY <1>4

-----------------------------------------------------------------------------
(* The steps of the status handlers, as the counting sees them. *)

Kept == UNCHANGED <<alerts, raise, changes, owed>>

Started(r, c, v) ==
  /\ raise[r].pc = "idle" /\ Cardinality(Tokens) < MaxChanges
  /\ \A d \in CredIDs, w \in Severities :
       changes'[d][w] = IF d = c /\ w = v THEN changes[d][w] + 1 ELSE changes[d][w]
  /\ raise' = [raise EXCEPT ![r] = [pc |-> "look", cred |-> c, severity |-> v]]
  /\ alerts' = alerts /\ owed' = owed

LEMMA ElsewhereKept ==
  ASSUME AlertsTyped, SubscriptionsNext
  PROVE  \/ \E r \in Raisers : RaiserStep(r)
         \/ \E a \in AlertIDs : AcknowledgeAlert(a)
         \/ BackendRestarts
         \/ Kept /\ status' \in [CredIDs -> Chain!Statuses]
<1>1. \A p \in Portals : PortalStep(p) => Kept /\ status' = status
  BY DEF PortalStep, Request, CheckExists, GenerateSubscriptionID, InsertSubscription, AskDelete,
     AskUnsubscribe, Asks, DeleteSubscription, Unsubscribe, PortalFails, PortalGoes, Kept, ghosts
<1>2. \A h \in Holders : WalletStep(h) => Kept /\ status' = status
  BY DEF WalletStep, Sees, Decide, Kept, ghosts, tables
<1>3. \A c \in CredIDs : Restores(c) => Kept /\ status' \in [CredIDs -> Chain!Statuses]
  BY DEF Restores, Kept, ghosts, tables, AlertsTyped, Chain!Restore, Chain!Move, Chain!Statuses
<1> QED
  BY <1>1, <1>2, <1>3 DEF SubscriptionsNext, AlertsTyped

LEMMA ChangeStarts ==
  ASSUME AlertsTyped, NEW r \in Raisers, NEW c \in CredIDs, ChangeStatus(r, c)
  PROVE  /\ \E v \in Severities : Started(r, c, v)
         /\ changes' \in [CredIDs -> [Severities -> Nat]]
         /\ status' \in [CredIDs -> Chain!Statuses]
<1>1. PICK v \in Severities : status' = [status EXCEPT ![c] = v]
  BY DEF ChangeStatus, Chain!Suspend, Chain!Revoke, Chain!Move, Severities
<1>2. status'[c] = v /\ status' \in [CredIDs -> Chain!Statuses]
  BY <1>1 DEF AlertsTyped, Chain!Statuses, Severities
<1>3. changes' = [changes EXCEPT ![c][v] = @ + 1] /\ changes \in [CredIDs -> [Severities -> Nat]]
  BY <1>2 DEF ChangeStatus, AlertsTyped
<1>4. /\ changes' \in [CredIDs -> [Severities -> Nat]]
      /\ \A d \in CredIDs, w \in Severities :
           changes'[d][w] = IF d = c /\ w = v THEN changes[d][w] + 1 ELSE changes[d][w]
  BY <1>3
<1>5. /\ raise[r].pc = "idle" /\ alerts' = alerts /\ owed' = owed
      /\ raise' = [raise EXCEPT ![r] = [pc |-> "look", cred |-> c, severity |-> v]]
  BY <1>2 DEF ChangeStatus, Severity, tables
<1>6. Cardinality(Tokens) < MaxChanges
  BY DEF ChangeStatus, TotalChanges, Tokens, TokensOf
<1> QED
  BY <1>2, <1>4, <1>5, <1>6 DEF Started

\* One handler goes on, the changes are what they were.
Goes(r, to) ==
  raise' = [raise EXCEPT ![r] = to] /\ changes' = changes

Dropped(r) ==  \* nobody monitors the credential, or the query failed
  raise[r].pc = "look" /\ Goes(r, Idle) /\ alerts' = alerts /\ owed' = owed
SetOut(r) ==  \* somebody does
  /\ raise[r].pc = "look" /\ alerts' = alerts /\ owed' = owed + 1
  /\ Goes(r, [pc |-> "generate", cred |-> raise[r].cred, severity |-> raise[r].severity])
Numbered(r) ==  \* an identifier is made
  /\ raise[r].pc = "generate" /\ alerts' = alerts /\ owed' = owed
  /\ \E seen \in {IDsOf(alerts), {}} :
       Goes(r, [pc |-> "insert", cred |-> raise[r].cred, severity |-> raise[r].severity,
                id |-> NextID(seen), seen |-> seen])
Inserted(r) ==  \* the alert is there
  /\ raise[r].pc = "insert" /\ alerts[raise[r].id] = NoRow /\ Goes(r, Idle) /\ owed' = owed
  /\ alerts' = [alerts EXCEPT ![raise[r].id] =
                  [cred |-> raise[r].cred, severity |-> raise[r].severity, status |-> "unread"]]
Lost(r) ==  \* the alert is lost, to a duplicate key or a fault
  /\ Raising(r) /\ Goes(r, Idle) /\ alerts' = alerts
  /\ \/ owed' = owed - 1
     \/ /\ owed' = owed /\ raise[r].pc = "insert"
        /\ alerts[raise[r].id] # NoRow /\ IDsOf(alerts) = raise[r].seen

RaiserTurn(r) ==
  \/ \E c \in CredIDs, v \in Severities : Started(r, c, v)
  \/ Dropped(r) \/ SetOut(r) \/ Numbered(r) \/ Inserted(r) \/ Lost(r)

LEMMA RaiserTurns ==
  ASSUME AlertsTyped, NEW r \in Raisers, RaiserStep(r)
  PROVE  RaiserTurn(r)
<1>0. raise[r] \in {Idle} \cup Begun \cup Inserting /\ Idle.pc = "idle"
  BY DEF AlertsTyped, Idle
<1>1. CASE LookUp(r)
  <2>1. raise[r] \in Begun /\ raise[r].pc = "look"
    BY <1>0, <1>1 DEF LookUp, Begun, Inserting
  <2>2. [raise[r] EXCEPT !.pc = "generate"]
          = [pc |-> "generate", cred |-> raise[r].cred, severity |-> raise[r].severity]
    BY <2>1 DEF Begun
  <2>3. /\ alerts' = alerts /\ changes' = changes
        /\ \/ /\ raise' = [raise EXCEPT ![r] = [raise[r] EXCEPT !.pc = "generate"]]
              /\ owed' = owed + 1
           \/ raise' = [raise EXCEPT ![r] = Idle] /\ owed' = owed
    BY <1>1 DEF LookUp, tables
  <2> QED
    BY <2>1, <2>2, <2>3 DEF RaiserTurn, Dropped, SetOut, Goes
<1>2. CASE GenerateAlertID(r)
  BY <1>2 DEF GenerateAlertID, RaiserTurn, Numbered, Goes, tables, ghosts
<1>3. CASE InsertAlert(r)
  BY <1>3 DEF InsertAlert, RaiserTurn, Inserted, Lost, Goes, Raising
<1>4. CASE RaiseFails(r)
  <2>1. /\ alerts' = alerts /\ raise' = [raise EXCEPT ![r] = Idle] /\ changes' = changes
        /\ raise[r].pc # "idle" /\ owed' = IF Raising(r) THEN owed - 1 ELSE owed
    BY <1>4 DEF RaiseFails, tables
  <2>2. raise[r].pc \in {"look", "generate", "insert"}
    BY <1>0, <2>1 DEF Begun, Inserting
  <2> QED
    BY <2>1, <2>2 DEF RaiserTurn, Dropped, Lost, Goes, Raising
<1>5. ASSUME NEW c \in CredIDs, ChangeStatus(r, c) PROVE RaiserTurn(r)
  BY <1>5, ChangeStarts DEF RaiserTurn
<1> QED
  BY <1>1, <1>2, <1>3, <1>4, <1>5 DEF RaiserStep

\* What a query of the identifiers finds, if it finds anything.
LEMMA FirstAgain ==
  ASSUME FirstOnes, NEW seen \in {IDsOf(alerts), {}}
  PROVE  \E m \in Nat : m <= Wide /\ seen = 1 .. m
<1>1. PICK n \in 0 .. MaxChanges : n <= Wide /\ IDsOf(alerts) = 1 .. n
  BY DEF FirstOnes
<1>2. n \in Nat /\ 0 \in Nat /\ 0 <= Wide /\ {} = 1 .. 0
  BY BoundsAssumption, WideAssumption
<1> QED
  BY <1>1, <1>2

\* What each of these steps leaves typed.
LEMMA RaiserTyped ==
  ASSUME AlertsTyped, FirstOnes, Accounted, NEW r \in Raisers, RaiserStep(r)
  PROVE  AlertsTyped'
<1>0. /\ raise[r] \in {Idle} \cup Begun \cup Inserting /\ Idle.pc = "idle"
      /\ DOMAIN raise = Raisers /\ owed \in Nat /\ MaxChanges \in Nat
      /\ alerts \in [AlertIDs -> {NoRow} \cup AlertRows]
      /\ \A o \in Raisers : raise[o] \in {Idle} \cup Begun \cup Inserting
  BY BoundsAssumption DEF AlertsTyped, Idle
<1>1. /\ changes' \in [CredIDs -> [Severities -> Nat]]
      /\ status' \in [CredIDs -> Chain!Statuses]
  <2>1. (\E c \in CredIDs : ChangeStatus(r, c)) \/ (changes' = changes /\ status' = status)
    BY DEF RaiserStep, LookUp, GenerateAlertID, InsertAlert, RaiseFails, ghosts
  <2> QED
    BY <2>1, ChangeStarts DEF AlertsTyped
<1>2. RaiserTurn(r)
  BY RaiserTurns
<1>3. ASSUME NEW to \in {Idle} \cup Begun \cup Inserting, raise' = [raise EXCEPT ![r] = to],
             alerts' \in [AlertIDs -> {NoRow} \cup AlertRows], owed' \in Nat
      PROVE  AlertsTyped'
  <2>1. \A o \in Raisers : raise'[o] = IF o = r THEN to ELSE raise[o]
    BY <1>0, <1>3
  <2>2. DOMAIN raise' = Raisers
    BY <1>0, <1>3
  <2>3. \A o \in Raisers : raise'[o] \in {Idle} \cup Begun \cup Inserting
    BY <1>0, <2>1
  <2> QED
    BY <1>1, <1>3, <2>2, <2>3 DEF AlertsTyped
<1>4. ASSUME NEW c \in CredIDs, NEW v \in Severities, Started(r, c, v) PROVE AlertsTyped'
  BY <1>0, <1>3, <1>4 DEF Started, Begun
<1>5. CASE Dropped(r)
  BY <1>0, <1>3, <1>5 DEF Dropped, Goes
<1>6. CASE SetOut(r)
  <2>1. raise[r].cred \in CredIDs /\ raise[r].severity \in Severities
    BY <1>0, <1>6 DEF SetOut, Begun, Inserting
  <2>2. [pc |-> "generate", cred |-> raise[r].cred, severity |-> raise[r].severity] \in Begun
    BY <2>1 DEF Begun
  <2>3. owed' \in Nat /\ alerts' = alerts
    BY <1>0, <1>6 DEF SetOut
  <2> QED
    BY <1>0, <1>3, <1>6, <2>2, <2>3 DEF SetOut, Goes
<1>7. CASE Numbered(r)
  <2>1. PICK seen \in {IDsOf(alerts), {}} :
          raise' = [raise EXCEPT ![r] =
                      [pc |-> "insert", cred |-> raise[r].cred, severity |-> raise[r].severity,
                       id |-> NextID(seen), seen |-> seen]]
    BY <1>7 DEF Numbered, Goes
  <2>2. raise[r].cred \in CredIDs /\ raise[r].severity \in Severities
    BY <1>0, <1>7 DEF Numbered, Begun, Inserting
  <2>3. seen \in SUBSET Nat /\ NextID(seen) \in Nat
    <3>1. PICK m \in Nat : m <= Wide /\ seen = 1 .. m
      BY FirstAgain
    <3>2. NextID(1 .. m) = IF m < Wide THEN m + 1 ELSE Wide
      BY <3>1, NextOfFirst
    <3> QED
      BY <3>1, <3>2, WideAssumption
  <2>4. [pc |-> "insert", cred |-> raise[r].cred, severity |-> raise[r].severity,
         id |-> NextID(seen), seen |-> seen] \in Inserting
    BY <2>2, <2>3 DEF Inserting
  <2>5. owed' \in Nat /\ alerts' = alerts
    BY <1>0, <1>7 DEF Numbered
  <2> QED
    BY <1>0, <1>3, <2>1, <2>4, <2>5
<1>8. CASE Inserted(r)
  <2>1. raise[r].cred \in CredIDs /\ raise[r].severity \in Severities
    BY <1>0, <1>8 DEF Inserted, Begun, Inserting
  <2>2. [cred |-> raise[r].cred, severity |-> raise[r].severity, status |-> "unread"] \in AlertRows
    BY <2>1 DEF AlertRows
  <2>3. alerts' \in [AlertIDs -> {NoRow} \cup AlertRows] /\ owed' = owed
    BY <1>0, <1>8, <2>2 DEF Inserted
  <2> QED
    BY <1>0, <1>3, <1>8, <2>3 DEF Inserted, Goes
<1>9. CASE Lost(r)
  <2>1. r \in Underway
    BY <1>9 DEF Lost, Underway
  <2>2. Cardinality(Underway) >= 1
    <3>1. /\ Cardinality(Underway \ {r}) \in Nat
          /\ Cardinality(Underway \ {r}) + 1 = Cardinality(Underway)
      BY <2>1, RaisersFinite, OneLess
    <3> QED
      BY <3>1, RaisersFinite
  <2>3. owed >= 1
    BY <1>0, <2>2, RaisersFinite, AlertsFinite DEF Accounted
  <2>4. owed' \in Nat /\ alerts' = alerts
    BY <1>0, <1>9, <2>3 DEF Lost
  <2> QED
    BY <1>0, <1>3, <1>9, <2>4 DEF Lost, Goes
<1> QED
  BY <1>2, <1>4, <1>5, <1>6, <1>7, <1>8, <1>9 DEF RaiserTurn

LEMMA AlertsTypedStep ==
  ASSUME AlertsInv, SubscriptionsNext
  PROVE  AlertsTyped'
<1>0. AlertsTyped /\ FirstOnes /\ Accounted
  BY DEF AlertsInv
<1>1. CASE \E r \in Raisers : RaiserStep(r)
  BY <1>0, <1>1, RaiserTyped
<1>2. CASE \E a \in AlertIDs : AcknowledgeAlert(a)
  <2>1. PICK a \in AlertIDs : AcknowledgeAlert(a)
    BY <1>2
  <2>2. alerts[a] \in AlertRows /\ alerts' = [alerts EXCEPT ![a] = [alerts[a] EXCEPT !.status = "acknowledged"]]
    BY <1>0, <2>1 DEF AcknowledgeAlert, AlertsTyped
  <2>3. [alerts[a] EXCEPT !.status = "acknowledged"] \in AlertRows
    BY <2>2 DEF AlertRows
  <2>4. alerts' \in [AlertIDs -> {NoRow} \cup AlertRows]
    BY <1>0, <2>2, <2>3 DEF AlertsTyped
  <2> QED
    BY <1>0, <2>1, <2>4 DEF AcknowledgeAlert, AlertsTyped, ghosts
<1>3. CASE BackendRestarts
  <2>1. /\ raise' = [r \in Raisers |-> Idle] /\ UNCHANGED <<status, alerts, changes>>
        /\ owed' = owed - Cardinality(Underway)
    BY <1>3 DEF BackendRestarts, tables, Underway
  <2>2. owed' \in Nat
    BY <1>0, <2>1, RaisersFinite, AlertsFinite DEF Accounted, AlertsTyped
  <2> QED
    BY <1>0, <2>1, <2>2 DEF AlertsTyped
<1>4. CASE Kept /\ status' \in [CredIDs -> Chain!Statuses]
  BY <1>0, <1>4 DEF Kept, AlertsTyped
<1> QED
  BY <1>0, <1>1, <1>2, <1>3, <1>4, ElsewhereKept

-----------------------------------------------------------------------------
(* Identifiers stay the first ones. *)

\* An identifier that is free when its handler inserts is the next.
LEMMA FreeIsNext ==
  ASSUME AlertsTyped, Accounted, NEW r \in Raisers, raise[r].pc = "insert",
         NEW n \in 0 .. MaxChanges, n <= Wide, IDsOf(alerts) = 1 .. n,
         NEW m \in 0 .. n, raise[r].id = NextID(1 .. m)
  PROVE  /\ n < MaxChanges /\ raise[r].id \in 1 .. (n + 1)
         /\ raise[r].id = n + 1 => m = n /\ n < Wide
         /\ MaxChanges <= Wide => raise[r].id = m + 1
<1>0. /\ MaxChanges \in Nat /\ Wide \in Nat /\ Wide >= 10 /\ n \in Nat /\ m \in Nat
      /\ m <= n /\ m <= Wide
  BY BoundsAssumption, WideAssumption
<1>1. n < MaxChanges
  <2>1. Cardinality(1 .. n) = n
    BY <1>0, FS_Interval
  <2>2. r \in Underway
    BY DEF Underway, Raising
  <2>3. /\ Cardinality(Underway \ {r}) \in Nat
        /\ Cardinality(Underway \ {r}) + 1 = Cardinality(Underway)
    BY <2>2, RaisersFinite, OneLess
  <2>4. Cardinality(Tokens) \in Nat
    BY FS_CardinalityType DEF Accounted
  <2>5. /\ n + Cardinality(Underway) <= owed /\ owed + Cardinality(Looking) <= Cardinality(Tokens)
        /\ Cardinality(Tokens) <= MaxChanges
    BY <2>1 DEF Accounted
  <2> QED
    BY <1>0, <2>3, <2>4, <2>5, RaisersFinite DEF AlertsTyped
<1>2. NextID(1 .. m) = IF m < Wide THEN m + 1 ELSE Wide
  BY <1>0, NextOfFirst
<1> QED
  BY <1>0, <1>1, <1>2

LEMMA OthersKnow ==
  ASSUME DOMAIN raise = Raisers, NEW n \in Nat, NEW k \in Nat, n <= k, k <= MaxChanges, k <= Wide,
         NEW r \in Raisers, NEW to, raise' = [raise EXCEPT ![r] = to],
         to.pc = "insert" => \E m \in 0 .. k : to.seen = 1 .. m /\ to.id = NextID(1 .. m),
         \A o \in Raisers : raise[o].pc = "insert" =>
           \E m \in 0 .. n : raise[o].seen = 1 .. m /\ raise[o].id = NextID(1 .. m),
         IDsOf(alerts)' = 1 .. k
  PROVE  FirstOnes'
<1>1. k \in 0 .. MaxChanges /\ 0 .. n \subseteq 0 .. k
  BY BoundsAssumption
<1>2. \A o \in Raisers : raise'[o] = IF o = r THEN to ELSE raise[o]
  OBVIOUS
<1>3. \A o \in Raisers : raise'[o].pc = "insert" =>
        \E m \in 0 .. k : raise'[o].seen = 1 .. m /\ raise'[o].id = NextID(1 .. m)
  BY <1>1, <1>2
<1> QED
  BY <1>1, <1>3 DEF FirstOnes

LEMMA FirstOnesStep ==
  ASSUME AlertsInv, SubscriptionsNext
  PROVE  FirstOnes'
<1>0. AlertsTyped /\ Accounted /\ DOMAIN raise = Raisers /\ DOMAIN alerts = AlertIDs
  BY DEF AlertsInv, AlertsTyped
<1>1. PICK n \in 0 .. MaxChanges :
        /\ n <= Wide
        /\ IDsOf(alerts) = 1 .. n
        /\ \A o \in Raisers : raise[o].pc = "insert" =>
             \E m \in 0 .. n : raise[o].seen = 1 .. m /\ raise[o].id = NextID(1 .. m)
  BY DEF AlertsInv, FirstOnes
<1>2. n \in Nat /\ n <= MaxChanges /\ n \in 0 .. n /\ 0 \in 0 .. n /\ {} = 1 .. 0 /\ Idle.pc = "idle"
  BY BoundsAssumption DEF Idle
<1>3. ASSUME IDsOf(alerts)' = IDsOf(alerts), NEW r \in Raisers, NEW to,
             raise' = [raise EXCEPT ![r] = to],
             to.pc = "insert" => \E m \in 0 .. n : to.seen = 1 .. m /\ to.id = NextID(1 .. m)
      PROVE  FirstOnes'
  <2>1. \A o \in Raisers : raise'[o] = IF o = r THEN to ELSE raise[o]
    BY <1>0, <1>3
  <2>2. \A o \in Raisers : raise'[o].pc = "insert" =>
          \E m \in 0 .. n : raise'[o].seen = 1 .. m /\ raise'[o].id = NextID(1 .. m)
    BY <1>1, <1>3, <2>1
  <2> QED
    BY <1>1, <1>3, <2>2 DEF FirstOnes
<1>4. ASSUME alerts' = alerts PROVE IDsOf(alerts)' = IDsOf(alerts)
  BY <1>4 DEF IDsOf
<1>5. ASSUME NEW r \in Raisers, RaiserTurn(r) PROVE FirstOnes'
  <2>1. ASSUME NEW c \in CredIDs, NEW v \in Severities, Started(r, c, v) PROVE FirstOnes'
    BY <1>3, <1>4, <2>1 DEF Started
  <2>2. CASE Dropped(r) \/ SetOut(r) \/ Lost(r)
    BY <1>2, <1>3, <1>4, <2>2 DEF Dropped, SetOut, Lost, Goes
  <2>3. CASE Numbered(r)
    <3>1. PICK seen \in {IDsOf(alerts), {}} :
            raise' = [raise EXCEPT ![r] =
                        [pc |-> "insert", cred |-> raise[r].cred, severity |-> raise[r].severity,
                         id |-> NextID(seen), seen |-> seen]]
      BY <2>3 DEF Numbered, Goes
    <3>2. \E m \in 0 .. n : seen = 1 .. m
      BY <1>1, <1>2
    <3> QED
      BY <1>3, <1>4, <2>3, <3>1, <3>2 DEF Numbered
  <2>4. CASE Inserted(r)
    <3>1. PICK m \in 0 .. n : raise[r].seen = 1 .. m /\ raise[r].id = NextID(1 .. m)
      BY <1>1, <2>4 DEF Inserted
    <3>2. /\ n < MaxChanges /\ raise[r].id \in 1 .. (n + 1)
          /\ raise[r].id = n + 1 => m = n /\ n < Wide
      BY <1>0, <1>1, <2>4, <3>1, FreeIsNext DEF Inserted
    <3>3. raise[r].id \notin 1 .. n
      BY <1>0, <1>1, <1>2, <2>4 DEF Inserted, IDsOf
    <3>4. raise[r].id = n + 1 /\ n < Wide /\ n + 1 \in AlertIDs
      BY <1>2, <3>2, <3>3, BoundsAssumption DEF AlertIDs
    <3>5. IDsOf(alerts)' = IDsOf(alerts) \cup {n + 1}
      <4>1. [cred |-> raise[r].cred, severity |-> raise[r].severity, status |-> "unread"] # NoRow
        BY DEF NoRow
      <4> QED
        BY <1>0, <2>4, <3>4, <4>1 DEF Inserted, IDsOf
    <3>6. IDsOf(alerts)' = 1 .. (n + 1)
      BY <1>1, <1>2, <3>5
    <3>7. n + 1 \in Nat /\ n <= n + 1 /\ n + 1 <= MaxChanges /\ n + 1 <= Wide
      BY <1>2, <3>2, <3>4, BoundsAssumption, WideAssumption
    <3>8. raise' = [raise EXCEPT ![r] = Idle]
      BY <2>4 DEF Inserted, Goes
    <3> QED
      BY <1>0, <1>1, <1>2, <3>6, <3>7, <3>8, OthersKnow
  <2> QED
    BY <1>5, <2>1, <2>2, <2>3, <2>4 DEF RaiserTurn
<1>6. ASSUME IDsOf(alerts)' = IDsOf(alerts), raise' = raise PROVE FirstOnes'
  BY <1>1, <1>6 DEF FirstOnes
<1>7. ASSUME NEW a \in AlertIDs, AcknowledgeAlert(a) PROVE FirstOnes'
  <2>1. /\ alerts[a] # NoRow /\ raise' = raise
        /\ alerts' = [alerts EXCEPT ![a] = [alerts[a] EXCEPT !.status = "acknowledged"]]
    BY <1>7 DEF AcknowledgeAlert
  <2>2. [alerts[a] EXCEPT !.status = "acknowledged"] # NoRow
    <3>1. alerts[a] \in AlertRows
      BY <1>0, <2>1 DEF AlertsTyped
    <3> QED
      BY <3>1 DEF AlertRows, NoRow
  <2>3. IDsOf(alerts)' = IDsOf(alerts)
    BY <1>0, <2>1, <2>2 DEF IDsOf
  <2> QED
    BY <1>6, <2>1, <2>3
<1>8. CASE BackendRestarts
  BY <1>1, <1>2, <1>8 DEF BackendRestarts, FirstOnes, IDsOf, tables
<1>9. CASE Kept
  BY <1>4, <1>6, <1>9 DEF Kept
<1>10. CASE \E r \in Raisers : RaiserStep(r)
  BY <1>0, <1>5, <1>10, RaiserTurns
<1> QED
  BY <1>0, <1>7, <1>8, <1>9, <1>10, ElsewhereKept

-----------------------------------------------------------------------------
(* The counts. *)

\* Identifiers, by what a step does to the table.
LEMMA AcknowledgedCounts ==
  ASSUME AlertsTyped, NEW a \in AlertIDs, AcknowledgeAlert(a)
  PROVE  /\ IDsOf(alerts)' = IDsOf(alerts)
         /\ \A c, v : AlertsOf(c, v)' = AlertsOf(c, v)
<1>1. /\ alerts[a] \in AlertRows /\ DOMAIN alerts = AlertIDs
      /\ alerts' = [alerts EXCEPT ![a] = [alerts[a] EXCEPT !.status = "acknowledged"]]
  BY DEF AcknowledgeAlert, AlertsTyped
<1> DEFINE row == [alerts[a] EXCEPT !.status = "acknowledged"]
<1>2. row # NoRow /\ row.cred = alerts[a].cred /\ row.severity = alerts[a].severity
  BY <1>1 DEF AlertRows, NoRow
<1>3. alerts[a] # NoRow
  BY DEF AcknowledgeAlert
<1> HIDE DEF row
<1>4. \A i \in AlertIDs : alerts'[i] = IF i = a THEN row ELSE alerts[i]
  BY <1>1 DEF row
<1>5. DOMAIN alerts' = AlertIDs
  BY <1>1
<1>6. IDsOf(alerts)' = IDsOf(alerts)
  BY <1>1, <1>2, <1>3, <1>4, <1>5 DEF IDsOf
<1>7. ASSUME NEW c, NEW v PROVE AlertsOf(c, v)' = AlertsOf(c, v)
  BY <1>1, <1>2, <1>4, <1>6 DEF AlertsOf, IDsOf
<1> QED
  BY <1>6, <1>7

LEMMA InsertedCounts ==
  ASSUME AlertsInv, NEW r \in Raisers, Inserted(r)
  PROVE  /\ raise[r].id \notin IDsOf(alerts)
         /\ IDsOf(alerts)' = IDsOf(alerts) \cup {raise[r].id}
         /\ \A c, v : AlertsOf(c, v)' =
              IF raise[r].cred = c /\ raise[r].severity = v
              THEN AlertsOf(c, v) \cup {raise[r].id} ELSE AlertsOf(c, v)
<1> DEFINE k   == raise[r].id
           row == [cred |-> raise[r].cred, severity |-> raise[r].severity, status |-> "unread"]
<1>0. DOMAIN alerts = AlertIDs /\ AlertsTyped /\ Accounted
  BY DEF AlertsInv, AlertsTyped
<1>1. k \in AlertIDs
  <2>1. PICK n \in 0 .. MaxChanges :
          /\ n <= Wide
          /\ IDsOf(alerts) = 1 .. n
          /\ \A o \in Raisers : raise[o].pc = "insert" =>
               \E m \in 0 .. n : raise[o].seen = 1 .. m /\ raise[o].id = NextID(1 .. m)
    BY DEF AlertsInv, FirstOnes
  <2>2. PICK m \in 0 .. n : raise[r].id = NextID(1 .. m)
    BY <2>1 DEF Inserted
  <2>3. n < MaxChanges /\ k \in 1 .. (n + 1)
    BY <1>0, <2>1, <2>2, FreeIsNext DEF Inserted
  <2> QED
    BY <2>3, BoundsAssumption DEF AlertIDs
<1>2. /\ row # NoRow /\ alerts[k] = NoRow /\ row.cred = raise[r].cred
      /\ row.severity = raise[r].severity
      /\ alerts' = [alerts EXCEPT ![k] = row]
  BY DEF Inserted, NoRow
<1> HIDE DEF k, row
<1>3. DOMAIN alerts' = AlertIDs /\ \A i \in AlertIDs : alerts'[i] = IF i = k THEN row ELSE alerts[i]
  BY <1>0, <1>2
<1>4. k \notin IDsOf(alerts) /\ IDsOf(alerts)' = IDsOf(alerts) \cup {k}
  BY <1>0, <1>1, <1>2, <1>3 DEF IDsOf
<1>5. ASSUME NEW c, NEW v
      PROVE  AlertsOf(c, v)' = IF raise[r].cred = c /\ raise[r].severity = v
                               THEN AlertsOf(c, v) \cup {k} ELSE AlertsOf(c, v)
  BY <1>0, <1>1, <1>2, <1>3, <1>4 DEF AlertsOf, IDsOf
<1> QED
  BY <1>4, <1>5 DEF k

\* How the sets of handlers move.
LEMMA TurnParts ==
  ASSUME AlertsTyped, NEW r \in Raisers, RaiserTurn(r)
  PROVE  /\ (\E c \in CredIDs, v \in Severities : Started(r, c, v)) =>
              r \notin Looking /\ Looking' = Looking \cup {r} /\ Underway' = Underway
         /\ Dropped(r) => r \in Looking /\ Looking' = Looking \ {r} /\ Underway' = Underway
         /\ SetOut(r) => /\ r \in Looking /\ Looking' = Looking \ {r}
                         /\ r \notin Underway /\ Underway' = Underway \cup {r}
         /\ Numbered(r) => Looking' = Looking /\ Underway' = Underway
         /\ Inserted(r) \/ Lost(r) =>
              Looking' = Looking /\ r \in Underway /\ Underway' = Underway \ {r}
<1>0. DOMAIN raise = Raisers /\ Idle.pc = "idle"
  BY DEF AlertsTyped, Idle
<1>1. ASSUME NEW to, raise' = [raise EXCEPT ![r] = to]
      PROVE  /\ Looking' = IF to.pc = "look" THEN Looking \cup {r} ELSE Looking \ {r}
             /\ Underway' = IF to.pc \in {"generate", "insert"} THEN Underway \cup {r}
                            ELSE Underway \ {r}
  BY <1>0, <1>1, RaiseParts
<1>2. /\ r \in Looking <=> raise[r].pc = "look"
      /\ r \in Underway <=> raise[r].pc \in {"generate", "insert"}
  BY DEF Looking, Underway, Raising
<1>3. ASSUME NEW c \in CredIDs, NEW v \in Severities, Started(r, c, v)
      PROVE  r \notin Looking /\ Looking' = Looking \cup {r} /\ Underway' = Underway
  <2> DEFINE to == [pc |-> "look", cred |-> c, severity |-> v]
  <2>1. raise' = [raise EXCEPT ![r] = to] /\ to.pc = "look"
    BY <1>3 DEF Started
  <2> HIDE DEF to
  <2>2. Looking' = Looking \cup {r} /\ Underway' = Underway \ {r}
    BY <1>1, <2>1
  <2> QED
    BY <1>2, <1>3, <2>2 DEF Started
<1>4. ASSUME Dropped(r)
      PROVE  r \in Looking /\ Looking' = Looking \ {r} /\ Underway' = Underway
  <2>1. Looking' = Looking \ {r} /\ Underway' = Underway \ {r}
    BY <1>0, <1>1, <1>4 DEF Dropped, Goes
  <2> QED
    BY <1>2, <1>4, <2>1 DEF Dropped
<1>5. ASSUME SetOut(r)
      PROVE  /\ r \in Looking /\ Looking' = Looking \ {r}
             /\ r \notin Underway /\ Underway' = Underway \cup {r}
  <2> DEFINE to == [pc |-> "generate", cred |-> raise[r].cred, severity |-> raise[r].severity]
  <2>1. raise' = [raise EXCEPT ![r] = to] /\ to.pc = "generate"
    BY <1>5 DEF SetOut, Goes
  <2> HIDE DEF to
  <2>2. Looking' = Looking \ {r} /\ Underway' = Underway \cup {r}
    BY <1>1, <2>1
  <2> QED
    BY <1>2, <1>5, <2>2 DEF SetOut
<1>6. ASSUME Numbered(r) PROVE Looking' = Looking /\ Underway' = Underway
  <2>0. PICK seen : raise' =
          [raise EXCEPT ![r] = [pc |-> "insert", cred |-> raise[r].cred,
             severity |-> raise[r].severity, id |-> NextID(seen), seen |-> seen]]
    BY <1>6 DEF Numbered, Goes
  <2> DEFINE to == [pc |-> "insert", cred |-> raise[r].cred, severity |-> raise[r].severity,
                    id |-> NextID(seen), seen |-> seen]
  <2>1. raise' = [raise EXCEPT ![r] = to] /\ to.pc = "insert"
    BY <2>0
  <2> HIDE DEF to
  <2>2. Looking' = Looking \ {r} /\ Underway' = Underway \cup {r}
    BY <1>1, <2>1
  <2> QED
    BY <1>2, <1>6, <2>2 DEF Numbered
<1>7. ASSUME Inserted(r) \/ Lost(r)
      PROVE  Looking' = Looking /\ r \in Underway /\ Underway' = Underway \ {r}
  <2>1. Looking' = Looking \ {r} /\ Underway' = Underway \ {r}
    BY <1>0, <1>1, <1>7 DEF Inserted, Lost, Goes
  <2> QED
    BY <1>2, <1>7, <2>1 DEF Inserted, Lost, Raising
<1> QED
  BY <1>3, <1>4, <1>5, <1>6, <1>7

\* Alerts of one kind and their handlers, by what a step does to either.
LEMMA KindCounts ==
  ASSUME NEW A, IsFiniteSet(A), NEW B, IsFiniteSet(B), NEW r, NEW n \in Nat, NEW next \in Nat,
         Cardinality(A) + Cardinality(B) <= n,
         NEW C, NEW D,
         \/ C \subseteq A /\ D \subseteq B /\ next = n
         \/ C \subseteq A /\ D \subseteq B \cup {r} /\ next = n + 1
  PROVE  Cardinality(C) + Cardinality(D) <= next
<1>0. Cardinality(A) \in Nat /\ Cardinality(B) \in Nat
  BY FS_CardinalityType
<1>1. CASE C \subseteq A /\ D \subseteq B /\ next = n
  <2>1. /\ Cardinality(C) \in Nat /\ Cardinality(C) <= Cardinality(A)
        /\ Cardinality(D) \in Nat /\ Cardinality(D) <= Cardinality(B)
    BY <1>1, NotMore
  <2> QED
    BY <1>0, <1>1, <2>1
<1>2. CASE C \subseteq A /\ D \subseteq B \cup {r} /\ next = n + 1
  <2>1. Cardinality(C) \in Nat /\ Cardinality(C) <= Cardinality(A)
    BY <1>2, NotMore
  <2>2. Cardinality(D) \in Nat /\ Cardinality(D) <= Cardinality(B) + 1
    BY <1>2, AtMostOneMore
  <2> QED
    BY <1>0, <1>2, <2>1, <2>2
<1> QED
  BY <1>1, <1>2

LEMMA ToldStep ==
  ASSUME AlertsInv, SubscriptionsNext
  PROVE  Told'
<1> SUFFICES ASSUME NEW c \in CredIDs, NEW v \in Severities
             PROVE  Cardinality(AlertsOf(c, v)') + Cardinality(Busy(c, v)') <= changes'[c][v]
  BY DEF Told
<1>0. /\ AlertsTyped /\ DOMAIN raise = Raisers /\ changes[c][v] \in Nat /\ changes'[c][v] \in Nat
      /\ Cardinality(AlertsOf(c, v)) + Cardinality(Busy(c, v)) <= changes[c][v]
      /\ IsFiniteSet(AlertsOf(c, v)) /\ IsFiniteSet(Busy(c, v)) /\ Idle.pc = "idle"
  BY AlertsTypedStep, AlertsFinite, RaisersFinite DEF AlertsInv, AlertsTyped, Told, Idle
<1>1. ASSUME AlertsOf(c, v)' \subseteq AlertsOf(c, v), Busy(c, v)' \subseteq Busy(c, v),
             changes' = changes
      PROVE  Cardinality(AlertsOf(c, v)') + Cardinality(Busy(c, v)') <= changes'[c][v]
  BY <1>0, <1>1, KindCounts
<1>2. ASSUME alerts' = alerts PROVE AlertsOf(c, v)' = AlertsOf(c, v)
  BY <1>2 DEF AlertsOf, IDsOf
<1>3. ASSUME NEW r \in Raisers, RaiserTurn(r)
      PROVE  Cardinality(AlertsOf(c, v)') + Cardinality(Busy(c, v)') <= changes'[c][v]
  <2>0. ASSUME NEW to, raise' = [raise EXCEPT ![r] = to]
        PROVE  Busy(c, v)' = IF to.pc # "idle" /\ to.cred = c /\ to.severity = v
                             THEN Busy(c, v) \cup {r} ELSE Busy(c, v) \ {r}
    <3>1. \A o \in Raisers : raise'[o] = IF o = r THEN to ELSE raise[o]
      BY <1>0, <2>0
    <3> QED
      BY <3>1 DEF Busy
  <2>1. r \in Busy(c, v) <=> raise[r].pc # "idle" /\ raise[r].cred = c /\ raise[r].severity = v
    BY DEF Busy
  <2>2. ASSUME NEW d \in CredIDs, NEW w \in Severities, Started(r, d, w)
        PROVE  Cardinality(AlertsOf(c, v)') + Cardinality(Busy(c, v)') <= changes'[c][v]
    <3> DEFINE to == [pc |-> "look", cred |-> d, severity |-> w]
    <3>1. raise' = [raise EXCEPT ![r] = to] /\ to.pc # "idle" /\ to.cred = d /\ to.severity = w
      BY <2>2 DEF Started
    <3> HIDE DEF to
    <3>2. AlertsOf(c, v)' = AlertsOf(c, v)
      BY <1>2, <2>2 DEF Started
    <3>3. CASE d = c /\ w = v
      <4>1. Busy(c, v)' = Busy(c, v) \cup {r} /\ changes'[c][v] = changes[c][v] + 1
        BY <2>0, <2>2, <3>1, <3>3 DEF Started
      <4> QED
        BY <1>0, <3>2, <4>1, KindCounts
    <3>4. CASE ~(d = c /\ w = v)
      <4>1. Busy(c, v)' = Busy(c, v) \ {r} /\ changes'[c][v] = changes[c][v]
        BY <2>0, <2>2, <3>1, <3>4 DEF Started
      <4> QED
        BY <1>0, <3>2, <4>1, KindCounts
    <3> QED
      BY <3>3, <3>4
  <2>3. CASE Dropped(r) \/ Lost(r)
    <3>1. raise' = [raise EXCEPT ![r] = Idle] /\ changes' = changes /\ alerts' = alerts
      BY <2>3 DEF Dropped, Lost, Goes
    <3>2. Busy(c, v)' = Busy(c, v) \ {r}
      BY <1>0, <2>0, <3>1
    <3> QED
      BY <1>1, <1>2, <3>1, <3>2
  <2>4. CASE SetOut(r)
    <3> DEFINE to == [pc |-> "generate", cred |-> raise[r].cred, severity |-> raise[r].severity]
    <3>1. /\ raise' = [raise EXCEPT ![r] = to] /\ to.cred = raise[r].cred
          /\ to.severity = raise[r].severity /\ raise[r].pc # "idle"
          /\ changes' = changes /\ alerts' = alerts
      BY <2>4 DEF SetOut, Goes
    <3> HIDE DEF to
    <3>2. Busy(c, v)' \subseteq Busy(c, v)
      BY <2>0, <2>1, <3>1
    <3> QED
      BY <1>1, <1>2, <3>1, <3>2
  <2>5. CASE Numbered(r)
    <3>0. PICK seen : raise' =
            [raise EXCEPT ![r] = [pc |-> "insert", cred |-> raise[r].cred,
               severity |-> raise[r].severity, id |-> NextID(seen), seen |-> seen]]
      BY <2>5 DEF Numbered, Goes
    <3> DEFINE to == [pc |-> "insert", cred |-> raise[r].cred, severity |-> raise[r].severity,
                      id |-> NextID(seen), seen |-> seen]
    <3>1. /\ raise' = [raise EXCEPT ![r] = to] /\ to.cred = raise[r].cred
          /\ to.severity = raise[r].severity /\ raise[r].pc # "idle"
          /\ changes' = changes /\ alerts' = alerts
      BY <2>5, <3>0 DEF Numbered, Goes
    <3> HIDE DEF to
    <3>2. Busy(c, v)' \subseteq Busy(c, v)
      BY <2>0, <2>1, <3>1
    <3> QED
      BY <1>1, <1>2, <3>1, <3>2
  <2>6. CASE Inserted(r)
    <3>1. raise' = [raise EXCEPT ![r] = Idle] /\ changes' = changes /\ raise[r].pc = "insert"
      BY <2>6 DEF Inserted, Goes
    <3>2. Busy(c, v)' = Busy(c, v) \ {r}
      BY <1>0, <2>0, <3>1
    <3>3. AlertsOf(c, v)' = IF raise[r].cred = c /\ raise[r].severity = v
                            THEN AlertsOf(c, v) \cup {raise[r].id} ELSE AlertsOf(c, v)
      BY <2>6, InsertedCounts
    <3>4. CASE r \in Busy(c, v)
      <4>1. /\ AlertsOf(c, v)' \subseteq AlertsOf(c, v) \cup {raise[r].id}
            /\ Busy(c, v)' \subseteq Busy(c, v) \ {r} /\ changes'[c][v] = changes[c][v]
        BY <3>1, <3>2, <3>3
      <4> DEFINE A == AlertsOf(c, v)
                 B == Busy(c, v)
                 n == changes[c][v]
                 C == AlertsOf(c, v)'
                 D == Busy(c, v)'
                 k == raise[r].id
      <4>2. /\ IsFiniteSet(A) /\ IsFiniteSet(B) /\ r \in B /\ n \in Nat
            /\ Cardinality(A) + Cardinality(B) <= n
            /\ C \subseteq A \cup {k} /\ D \subseteq B \ {r}
        BY <1>0, <3>4, <4>1
      <4> HIDE DEF A, B, C, D, n, k
      <4>3. Cardinality(C) + Cardinality(D) <= n
        <5>0. Cardinality(A) \in Nat /\ Cardinality(B) \in Nat
          BY <4>2, FS_CardinalityType
        <5>1. Cardinality(C) \in Nat /\ Cardinality(C) <= Cardinality(A) + 1
          BY <4>2, AtMostOneMore
        <5>2. /\ IsFiniteSet(B \ {r}) /\ Cardinality(B \ {r}) \in Nat
              /\ Cardinality(B \ {r}) + 1 = Cardinality(B)
          BY <4>2, OneLess
        <5>3. Cardinality(D) \in Nat /\ Cardinality(D) <= Cardinality(B \ {r})
          BY <4>2, <5>2, NotMore
        <5> QED
          BY <4>2, <5>0, <5>1, <5>2, <5>3
      <4> QED
        BY <4>1, <4>3 DEF C, D, n
    <3>5. CASE r \notin Busy(c, v)
      BY <1>1, <2>1, <3>1, <3>2, <3>3, <3>5
    <3> QED
      BY <3>4, <3>5
  <2> QED
    BY <1>3, <2>2, <2>3, <2>4, <2>5, <2>6 DEF RaiserTurn
<1>4. ASSUME NEW a \in AlertIDs, AcknowledgeAlert(a)
      PROVE  Cardinality(AlertsOf(c, v)') + Cardinality(Busy(c, v)') <= changes'[c][v]
  <2>1. AlertsOf(c, v)' = AlertsOf(c, v)
    BY <1>0, <1>4, AcknowledgedCounts
  <2> QED
    BY <1>1, <1>4, <2>1 DEF AcknowledgeAlert, Busy, ghosts
<1>5. CASE BackendRestarts
  <2>1. Busy(c, v)' = {} /\ changes' = changes /\ alerts' = alerts
    BY <1>0, <1>5 DEF BackendRestarts, Busy, tables
  <2> QED
    BY <1>1, <1>2, <2>1
<1>6. CASE Kept
  BY <1>1, <1>2, <1>6 DEF Kept, Busy
<1>7. CASE \E r \in Raisers : RaiserStep(r)
  BY <1>0, <1>3, <1>7, RaiserTurns
<1> QED
  BY <1>0, <1>4, <1>5, <1>6, <1>7, ElsewhereKept

\* What is in the table and under way, and what was set out to be.
Balance(ids, underway, sum) ==
  /\ IsFiniteSet(ids) /\ IsFiniteSet(underway)
  /\ Cardinality(ids) + Cardinality(underway) <= sum
  /\ MaxChanges <= Wide => Cardinality(ids) + Cardinality(underway) = sum

LEMMA BalanceMoves ==
  ASSUME NEW I, NEW U, NEW n \in Nat, Balance(I, U, n), NEW r, NEW k
  PROVE  /\ r \notin U => Balance(I, U \cup {r}, n + 1)
         /\ r \in U /\ k \notin I => Balance(I \cup {k}, U \ {r}, n)
         /\ r \in U => Balance(I, U \ {r}, n - 1) /\ n - 1 \in Nat
         /\ r \in U /\ ~(MaxChanges <= Wide) => Balance(I, U \ {r}, n)
         /\ Balance(I, {}, n - Cardinality(U)) /\ n - Cardinality(U) \in Nat
<1>0. /\ IsFiniteSet(I) /\ IsFiniteSet(U) /\ Cardinality(I) \in Nat /\ Cardinality(U) \in Nat
      /\ Cardinality(I) + Cardinality(U) <= n
      /\ MaxChanges <= Wide => Cardinality(I) + Cardinality(U) = n
  BY FS_CardinalityType DEF Balance
<1>1. ASSUME r \notin U PROVE Balance(I, U \cup {r}, n + 1)
  <2>1. IsFiniteSet(U \cup {r}) /\ Cardinality(U \cup {r}) = Cardinality(U) + 1
    BY <1>0, <1>1, OneMore
  <2> QED
    BY <1>0, <2>1 DEF Balance
<1>2. ASSUME r \in U
      PROVE  /\ k \notin I => Balance(I \cup {k}, U \ {r}, n)
             /\ Balance(I, U \ {r}, n - 1) /\ n - 1 \in Nat
             /\ ~(MaxChanges <= Wide) => Balance(I, U \ {r}, n)
  <2>1. /\ IsFiniteSet(U \ {r}) /\ Cardinality(U \ {r}) \in Nat
        /\ Cardinality(U \ {r}) + 1 = Cardinality(U)
    BY <1>0, <1>2, OneLess
  <2>2. ASSUME k \notin I PROVE Balance(I \cup {k}, U \ {r}, n)
    <3>1. IsFiniteSet(I \cup {k}) /\ Cardinality(I \cup {k}) = Cardinality(I) + 1
      BY <1>0, <2>2, OneMore
    <3> QED
      BY <1>0, <2>1, <3>1 DEF Balance
  <2>3. Balance(I, U \ {r}, n - 1) /\ n - 1 \in Nat
    BY <1>0, <2>1 DEF Balance
  <2>4. ~(MaxChanges <= Wide) => Balance(I, U \ {r}, n)
    BY <1>0, <2>1 DEF Balance
  <2> QED
    BY <2>2, <2>3, <2>4
<1>3. Balance(I, {}, n - Cardinality(U)) /\ n - Cardinality(U) \in Nat
  BY <1>0, FS_EmptySet DEF Balance
<1> QED
  BY <1>1, <1>2, <1>3

LEMMA AccountsAre ==
  ASSUME AlertsTyped
  PROVE  Accounted <=>
           /\ IsFiniteSet(Tokens) /\ Cardinality(Tokens) <= MaxChanges
           /\ owed + Cardinality(Looking) <= Cardinality(Tokens)
           /\ Balance(IDsOf(alerts), Underway, owed)
  BY AlertsFinite, RaisersFinite DEF Accounted, Balance

\* A duplicate key needs another alert since the query, as long as the
\* identifiers fit their padding.
LEMMA OvertakenOnly ==
  ASSUME AlertsInv, NEW r \in Raisers, raise[r].pc = "insert",
         alerts[raise[r].id] # NoRow, IDsOf(alerts) = raise[r].seen
  PROVE  ~(MaxChanges <= Wide)
<1> SUFFICES ASSUME MaxChanges <= Wide PROVE FALSE
  OBVIOUS
<1>0. AlertsTyped /\ Accounted /\ DOMAIN alerts = AlertIDs
  BY DEF AlertsInv, AlertsTyped
<1>1. PICK n \in 0 .. MaxChanges :
        /\ n <= Wide
        /\ IDsOf(alerts) = 1 .. n
        /\ \A o \in Raisers : raise[o].pc = "insert" =>
             \E m \in 0 .. n : raise[o].seen = 1 .. m /\ raise[o].id = NextID(1 .. m)
  BY DEF AlertsInv, FirstOnes
<1>2. PICK m \in 0 .. n : raise[r].seen = 1 .. m /\ raise[r].id = NextID(1 .. m)
  BY <1>1
<1>3. n < MaxChanges /\ raise[r].id = m + 1
  BY <1>0, <1>1, <1>2, FreeIsNext
<1>4. n \in Nat /\ m \in Nat /\ MaxChanges \in Nat
  BY BoundsAssumption
<1>5. m = n
  <2>1. 1 .. m = 1 .. n
    BY <1>1, <1>2
  <2>2. n # 0 => n \in 1 .. m
    BY <1>4, <2>1
  <2> QED
    BY <1>2, <1>4, <2>2
<1>6. n + 1 \in AlertIDs /\ n + 1 \notin 1 .. n
  BY <1>3, <1>4 DEF AlertIDs
<1>7. n + 1 \in IDsOf(alerts)
  BY <1>0, <1>3, <1>5, <1>6 DEF IDsOf
<1> QED
  BY <1>1, <1>6, <1>7

LEMMA TokensKept ==
  ASSUME changes' = changes
  PROVE  Tokens' = Tokens
  BY DEF Tokens, TokensOf

LEMMA AccountedStep ==
  ASSUME AlertsInv, SubscriptionsNext
  PROVE  Accounted'
<1>0. /\ AlertsTyped /\ AlertsTyped' /\ owed \in Nat /\ owed' \in Nat
      /\ changes \in [CredIDs -> [Severities -> Nat]] /\ changes' \in [CredIDs -> [Severities -> Nat]]
  BY AlertsTypedStep DEF AlertsInv, AlertsTyped
<1>1. /\ IsFiniteSet(Tokens) /\ Cardinality(Tokens) \in Nat /\ Cardinality(Tokens) <= MaxChanges
      /\ owed + Cardinality(Looking) <= Cardinality(Tokens)
      /\ Balance(IDsOf(alerts), Underway, owed)
      /\ MaxChanges \in Nat /\ IsFiniteSet(Looking) /\ Cardinality(Looking) \in Nat
  BY <1>0, AccountsAre, RaisersFinite, FS_CardinalityType, BoundsAssumption DEF AlertsInv
<1>3. ASSUME alerts' = alerts PROVE IDsOf(alerts)' = IDsOf(alerts)
  BY <1>3 DEF IDsOf
<1> DEFINE Fits == /\ IsFiniteSet(Tokens') /\ Cardinality(Tokens') <= MaxChanges
                   /\ owed' + Cardinality(Looking') <= Cardinality(Tokens')
                   /\ Balance(IDsOf(alerts)', Underway', owed')
<1>2. SUFFICES Fits
  BY DEF Accounted, Balance
<1>4. ASSUME changes' = changes, Looking' \subseteq Looking,
             owed' <= owed \/ (owed' = owed + 1 /\ \E r \in Looking : Looking' = Looking \ {r}),
             Balance(IDsOf(alerts)', Underway', owed')
      PROVE  Fits
  <2>1. Tokens' = Tokens
    BY <1>4, TokensKept
  <2>2. Cardinality(Looking') \in Nat /\ Cardinality(Looking') <= Cardinality(Looking)
    BY <1>1, <1>4, NotMore
  <2>3. CASE owed' <= owed
    BY <1>0, <1>1, <1>4, <2>1, <2>2, <2>3
  <2>4. ASSUME owed' = owed + 1, NEW r \in Looking, Looking' = Looking \ {r} PROVE Fits
    <3>1. Cardinality(Looking') + 1 = Cardinality(Looking)
      BY <1>1, <2>4, OneLess
    <3> QED
      BY <1>0, <1>1, <1>4, <2>1, <2>2, <2>4, <3>1
  <2> QED
    BY <1>4, <2>3, <2>4
<1>5. ASSUME NEW r \in Raisers, RaiserTurn(r) PROVE Fits
  <2>1. ASSUME NEW c \in CredIDs, NEW v \in Severities, Started(r, c, v) PROVE Fits
    <3>1. /\ IsFiniteSet(TokensOf(changes'))
          /\ Cardinality(TokensOf(changes')) = Cardinality(TokensOf(changes)) + 1
      <4> DEFINE old == changes
                 new == changes'
      <4>1. CountedOnce(old, new, c, v) /\ IsFiniteSet(TokensOf(old))
        BY <1>0, <1>1, <2>1 DEF Started, Tokens, CountedOnce
      <4> HIDE DEF old, new
      <4>2. /\ IsFiniteSet(TokensOf(new))
            /\ Cardinality(TokensOf(new)) = Cardinality(TokensOf(old)) + 1
        BY <4>1, OneToken
      <4> QED
        BY <4>2 DEF old, new
    <3>2. Tokens' = TokensOf(changes') /\ Tokens = TokensOf(changes)
      BY DEF Tokens, TokensOf
    <3>3. Looking' = Looking \cup {r} /\ r \notin Looking /\ Underway' = Underway
      BY <1>0, <2>1, <1>5, TurnParts
    <3>4. Cardinality(Looking') = Cardinality(Looking) + 1
      BY <1>1, <3>3, OneMore
    <3>5. Cardinality(Tokens) < MaxChanges /\ owed' = owed /\ alerts' = alerts
      BY <2>1 DEF Started
    <3>6. Balance(IDsOf(alerts)', Underway', owed')
      BY <1>1, <1>3, <3>3, <3>5
    <3> HIDE DEF Fits
    <3>7. IsFiniteSet(Tokens') /\ Cardinality(Tokens') = Cardinality(Tokens) + 1
      BY <3>1, <3>2
    <3> QED
      BY <1>0, <1>1, <3>4, <3>5, <3>6, <3>7 DEF Fits
  <2>2. CASE Dropped(r)
    <3>1. Looking' = Looking \ {r} /\ Underway' = Underway /\ owed' = owed
          /\ alerts' = alerts /\ changes' = changes
      BY <1>0, <1>5, <2>2, TurnParts DEF Dropped, Goes
    <3> QED
      BY <1>0, <1>1, <1>3, <1>4, <3>1
  <2>3. CASE SetOut(r)
    <3>1. /\ r \in Looking /\ Looking' = Looking \ {r} /\ r \notin Underway
          /\ Underway' = Underway \cup {r}
          /\ owed' = owed + 1 /\ alerts' = alerts /\ changes' = changes
      BY <1>0, <1>5, <2>3, TurnParts DEF SetOut, Goes
    <3>2. Balance(IDsOf(alerts)', Underway', owed')
      BY <1>0, <1>1, <1>3, <3>1, BalanceMoves
    <3> QED
      BY <1>4, <3>1, <3>2
  <2>4. CASE Numbered(r)
    <3>1. /\ Looking' = Looking /\ Underway' = Underway
          /\ owed' = owed /\ alerts' = alerts /\ changes' = changes
      BY <1>0, <1>5, <2>4, TurnParts DEF Numbered, Goes
    <3> QED
      BY <1>0, <1>1, <1>3, <1>4, <3>1
  <2>5. CASE Inserted(r)
    <3>1. /\ Looking' = Looking /\ r \in Underway /\ Underway' = Underway \ {r}
          /\ owed' = owed /\ changes' = changes
      BY <1>0, <1>5, <2>5, TurnParts DEF Inserted, Goes
    <3>2. /\ raise[r].id \notin IDsOf(alerts)
          /\ IDsOf(alerts)' = IDsOf(alerts) \cup {raise[r].id}
      BY <2>5, InsertedCounts
    <3>3. Balance(IDsOf(alerts) \cup {raise[r].id}, Underway \ {r}, owed)
      BY <1>0, <1>1, <3>1, <3>2, BalanceMoves
    <3>4. Balance(IDsOf(alerts)', Underway', owed')
      BY <3>1, <3>2, <3>3
    <3> QED
      BY <1>0, <1>4, <3>1, <3>4
  <2>6. CASE Lost(r)
    <3>1. /\ Looking' = Looking /\ r \in Underway /\ Underway' = Underway \ {r}
          /\ alerts' = alerts /\ changes' = changes
      BY <1>0, <1>5, <2>6, TurnParts DEF Lost, Goes
    <3>2. owed' = owed - 1 \/ (owed' = owed /\ ~(MaxChanges <= Wide))
      BY <2>6, OvertakenOnly DEF Lost
    <3>3. /\ Balance(IDsOf(alerts), Underway \ {r}, owed - 1)
          /\ ~(MaxChanges <= Wide) => Balance(IDsOf(alerts), Underway \ {r}, owed)
      BY <1>0, <1>1, <3>1, BalanceMoves
    <3>4. Balance(IDsOf(alerts)', Underway', owed')
      BY <1>3, <3>1, <3>2, <3>3
    <3> QED
      BY <1>0, <1>4, <3>1, <3>2, <3>4
  <2> QED
    BY <1>5, <2>1, <2>2, <2>3, <2>4, <2>5, <2>6 DEF RaiserTurn
<1>6. ASSUME IDsOf(alerts)' = IDsOf(alerts), raise' = raise, owed' = owed, changes' = changes
      PROVE  Fits
  <2>1. Looking' = Looking /\ Underway' = Underway
    BY <1>6 DEF Looking, Underway, Raising
  <2> QED
    BY <1>0, <1>1, <1>4, <1>6, <2>1
<1>7. CASE \E a \in AlertIDs : AcknowledgeAlert(a)
  BY <1>0, <1>6, <1>7, AcknowledgedCounts DEF AcknowledgeAlert, ghosts
<1>8. CASE BackendRestarts
  <2>1. /\ raise' = [r \in Raisers |-> Idle] /\ alerts' = alerts /\ changes' = changes
        /\ owed' = owed - Cardinality(Underway)
    BY <1>8 DEF BackendRestarts, tables, Underway
  <2>2. Looking' = {} /\ Underway' = {}
    BY <2>1 DEF Looking, Underway, Raising, Idle
  <2>3. Balance(IDsOf(alerts)', Underway', owed')
    BY <1>0, <1>1, <1>3, <2>1, <2>2, BalanceMoves
  <2>4. owed' <= owed
    BY <1>0, <2>1, RaisersFinite
  <2> QED
    BY <1>4, <2>1, <2>2, <2>3, <2>4
<1>9. CASE Kept
  BY <1>3, <1>6, <1>9 DEF Kept
<1>10. CASE \E r \in Raisers : RaiserStep(r)
  BY <1>0, <1>5, <1>10, RaiserTurns
<1> HIDE DEF Fits
<1> QED
  BY <1>0, <1>7, <1>8, <1>9, <1>10, ElsewhereKept

LEMMA AlertsStart == SubscriptionsInit => AlertsInv
<1> SUFFICES ASSUME SubscriptionsInit PROVE AlertsInv
  OBVIOUS
<1>0. Idle.pc = "idle" /\ MaxChanges \in Nat /\ Wide \in Nat
  BY BoundsAssumption, WideAssumption DEF Idle
<1>1. /\ IDsOf(alerts) = {} /\ Looking = {} /\ Underway = {}
      /\ \A c, v : AlertsOf(c, v) = {} /\ Busy(c, v) = {}
  BY DEF SubscriptionsInit, IDsOf, Looking, Underway, Raising, AlertsOf, Busy, Idle
<1>2. Tokens = {}
  <2>1. \A c \in CredIDs, v \in Severities : changes[c][v] = 0
    BY DEF SubscriptionsInit
  <2>2. 1 .. 0 = {}
    OBVIOUS
  <2>3. \A x : x \notin Tokens
    BY <2>1, <2>2, TokensAre DEF Tokens
  <2> QED
    BY <2>3
<1>3. AlertsTyped
  BY <1>0 DEF SubscriptionsInit, AlertsTyped, Chain!Statuses
<1>4. FirstOnes
  <2>1. 0 \in 0 .. MaxChanges /\ 0 <= Wide /\ {} = 1 .. 0
    BY <1>0
  <2> QED
    BY <1>0, <1>1, <2>1 DEF FirstOnes, SubscriptionsInit
<1>5. Cardinality({}) = 0 /\ IsFiniteSet({})
  BY FS_EmptySet
<1>6. Accounted
  <2>1. /\ IsFiniteSet(Tokens) /\ Cardinality(Tokens) = 0 /\ Cardinality(Looking) = 0
        /\ Cardinality(Underway) = 0 /\ Cardinality(IDsOf(alerts)) = 0 /\ owed = 0
    BY <1>1, <1>2, <1>5 DEF SubscriptionsInit
  <2> QED
    BY <1>0, <2>1 DEF Accounted
<1>7. Told
  BY <1>1, <1>5 DEF Told, SubscriptionsInit
<1> QED
  BY <1>3, <1>4, <1>6, <1>7 DEF AlertsInv

LEMMA AlertsStep == AlertsInv /\ [SubscriptionsNext]_vars => AlertsInv'
<1> SUFFICES ASSUME AlertsInv, [SubscriptionsNext]_vars PROVE AlertsInv'
  OBVIOUS
<1>1. CASE SubscriptionsNext
  BY <1>1, AlertsTypedStep, FirstOnesStep, AccountedStep, ToldStep DEF AlertsInv
<1>2. CASE UNCHANGED vars
  BY <1>2 DEF vars, tables, ghosts, AlertsInv, AlertsTyped, FirstOnes, Accounted, Told, IDsOf,
     Tokens, TokensOf, Looking, Underway, Raising, Busy, AlertsOf
<1> QED
  BY <1>1, <1>2

THEOREM AlertsInvariant == SubscriptionsSpec => []AlertsInv
  BY AlertsStart, AlertsStep, PTL DEF SubscriptionsSpec

\* The counters of the requests and where the portal is with each.
LEMMA PortalTypesStart == SubscriptionsInit => PortalTypes
  BY BoundsAssumption DEF SubscriptionsInit, PortalTypes, Idle

LEMMA PortalTypesStep == PortalTypes /\ [SubscriptionsNext]_vars => PortalTypes'
<1> SUFFICES ASSUME PortalTypes, [SubscriptionsNext]_vars PROVE PortalTypes'
  OBVIOUS
<1> DEFINE places == {"idle", "check", "generate", "insert", "delete", "unsubscribe"}
<1>1. ASSUME NEW p \in Portals, NEW to, PortalGoes(p, to), to.pc \in places,
             requests' \in 0 .. MaxRequests
      PROVE  PortalTypes'
  BY <1>1 DEF PortalGoes, PortalTypes
<1>2. ASSUME NEW p \in Portals, PortalStep(p) PROVE PortalTypes'
  <2>0. /\ Idle.pc = "idle" /\ requests \in 0 .. MaxRequests /\ MaxRequests \in Nat
        /\ requests < MaxRequests => requests + 1 \in 0 .. MaxRequests
    BY BoundsAssumption DEF PortalTypes, Idle
  <2>1. ASSUME NEW c \in CredIDs, Request(p, c) PROVE PortalTypes'
    BY <1>1, <2>0, <2>1 DEF Request
  <2>2. CASE CheckExists(p)
    <3> DEFINE next == [portal[p] EXCEPT !.pc = "generate"]
    <3>1. portal[p].pc = "check" /\ requests' = requests
      BY <2>2 DEF CheckExists
    <3>2. PortalGoes(p, Idle) \/ PortalGoes(p, next)
      BY <2>2 DEF CheckExists
    <3>3. next.pc \in places
      BY <3>1
    <3> HIDE DEF next
    <3> QED
      BY <1>1, <2>0, <3>1, <3>2, <3>3
  <2>3. CASE GenerateSubscriptionID(p)
    BY <1>1, <2>0, <2>3 DEF GenerateSubscriptionID
  <2>4. ASSUME NEW s \in SubIDs, AskDelete(p, s) \/ AskUnsubscribe(p, s) PROVE PortalTypes'
    BY <1>1, <2>0, <2>4 DEF AskDelete, AskUnsubscribe, Asks
  <2>5. CASE InsertSubscription(p) \/ DeleteSubscription(p) \/ Unsubscribe(p) \/ PortalFails(p)
    BY <1>1, <2>0, <2>5 DEF InsertSubscription, DeleteSubscription, Unsubscribe, PortalFails
  <2> QED
    BY <1>2, <2>1, <2>2, <2>3, <2>4, <2>5 DEF PortalStep
<1>3. CASE UNCHANGED <<portal, requests>>
  BY <1>3 DEF PortalTypes
<1>4. CASE BackendRestarts
  BY <1>4 DEF BackendRestarts, PortalTypes, Idle
<1>5. UNCHANGED <<portal, requests>> \/ BackendRestarts \/ \E p \in Portals : PortalStep(p)
  BY DEF SubscriptionsNext, WalletStep, Sees, Decide, RaiserStep, ChangeStatus, LookUp,
         GenerateAlertID, InsertAlert, RaiseFails, Restores, AcknowledgeAlert, vars
<1> QED
  BY <1>2, <1>3, <1>4, <1>5

\* What the tables, the requests and the status handlers hold.
THEOREM SubscriptionsTypeOKHolds == SubscriptionsSpec => []SubscriptionsTypeOK
<1>1. SubsTyped /\ AlertsInv /\ PortalTypes => SubscriptionsTypeOK
  <2> SUFFICES ASSUME SubsTyped, AlertsInv, PortalTypes PROVE SubscriptionsTypeOK
    OBVIOUS
  <2>1. status \in [CredIDs -> Chain!Statuses]
    BY DEF AlertsInv, AlertsTyped
  <2>2. \A s \in IDsOf(subs) :
          subs[s] \in [cred : CredIDs,
                       status : {"active", "pending", "expired", "rejected", "unsubscribed"}]
    BY DEF SubsTyped, IDsOf, SubRows
  <2>3. \A a \in IDsOf(alerts) :
          alerts[a] \in [cred : CredIDs, severity : Severities,
                         status : {"unread", "acknowledged"}]
    BY DEF AlertsInv, AlertsTyped, IDsOf, AlertRows
  <2>4. owed \in 0 .. MaxChanges
    <3>1. /\ owed \in Nat /\ Cardinality(Looking) \in Nat /\ Cardinality(Tokens) \in Nat
          /\ owed + Cardinality(Looking) <= Cardinality(Tokens)
          /\ Cardinality(Tokens) <= MaxChanges /\ MaxChanges \in Nat
      BY RaisersFinite, FS_CardinalityType, BoundsAssumption DEF AlertsInv, AlertsTyped, Accounted
    <3> QED
      BY <3>1
  <2> QED
    BY <2>1, <2>2, <2>3, <2>4 DEF SubscriptionsTypeOK, PortalTypes
<1> QED
  BY <1>1, SubsAreTyped, AlertsInvariant, PortalTypesStart, PortalTypesStep, PTL
     DEF SubscriptionsSpec

\* raiseSubscriptionAlert: only a committed change of the credential's status
\* comes to it, with the word for that change, and it inserts at most one row.
THEOREM AlertsAreTrueHolds == SubscriptionsSpec => []AlertsAreTrue
<1>1. AlertsInv => AlertsAreTrue
  <2> SUFFICES ASSUME AlertsInv, NEW c \in CredIDs, NEW v \in Severities
               PROVE  Cardinality(AlertsOf(c, v)) <= changes[c][v]
    BY DEF AlertsAreTrue, AlertsOf
  <2>1. /\ Cardinality(AlertsOf(c, v)) \in Nat /\ Cardinality(Busy(c, v)) \in Nat
        /\ changes[c][v] \in Nat
        /\ Cardinality(AlertsOf(c, v)) + Cardinality(Busy(c, v)) <= changes[c][v]
    BY AlertsFinite, RaisersFinite DEF AlertsInv, AlertsTyped, Told
  <2> QED
    BY <2>1
<1> QED
  BY <1>1, AlertsInvariant, PTL

\* handleRevokeCredential and handleSuspendCredential, as the comment of
\* subscriptions.go promises, as long as there are no more alerts than numbers
\* of three digits: from then on the promise fails.
THEOREM AlertRaisedHolds ==
  ASSUME MaxChanges <= Wide
  PROVE  SubscriptionsSpec => []AlertRaised
<1>1. AlertsInv => AlertRaised
  <2> SUFFICES ASSUME AlertsInv, \A r \in Raisers : ~Raising(r)
               PROVE  Cardinality(IDsOf(alerts)) = owed
    BY DEF AlertRaised
  <2>1. Underway = {}
    BY DEF Underway
  <2>2. Cardinality(Underway) = 0
    BY <2>1, FS_EmptySet
  <2>3. Cardinality(IDsOf(alerts)) + Cardinality(Underway) = owed /\ Cardinality(IDsOf(alerts)) \in Nat
    BY AlertsFinite DEF AlertsInv, Accounted
  <2> QED
    BY <2>2, <2>3
<1> QED
  BY <1>1, AlertsInvariant, PTL
=============================================================================
