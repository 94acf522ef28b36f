---------------------------- MODULE Subscriptions ----------------------------
(***************************************************************************)
(* Verifiers ask to monitor credentials, holders approve or reject in the  *)
(* wallet, and the handlers that suspend or revoke a credential raise an   *)
(* alert if somebody monitors it.  Requests of the portal, decisions of    *)
(* the wallets and the issuer's status handlers run concurrently over two  *)
(* MySQL tables whose primary keys are made from SELECT MAX.               *)
(*                                                                         *)
(* The chain is the abstract life cycle of credentials, which QChaincode   *)
(* implements: the model starts when all of them have been issued.         *)
(***************************************************************************)
EXTENDS SequentialIDs, FiniteSets

CONSTANTS
  CredIDs,      \* the issued credentials
  Holders,      \* wallets, by their Emirates ID
  HolderOf,     \* whose credential it is
  Portals,      \* requests of the verifiers' portal that run at the same time
  Raisers,      \* revoke and suspend handlers that run at the same time
  MaxRequests,  \* bound: requests of the portal, of any kind
  MaxChanges,   \* bound: suspensions and revocations
  MayFail       \* whether MySQL statements and the backend may fail

ASSUME HolderOfAssumption == HolderOf \in [CredIDs -> Holders]
ASSUME HandlersAssumption == IsFiniteSet(Portals) /\ IsFiniteSet(Raisers)
ASSUME BoundsAssumption ==
  {MaxRequests, MaxChanges} \subseteq Nat /\ MayFail \in BOOLEAN

VARIABLES
  status,    \* on chain
  subs,      \* MySQL subscriptions
  alerts,    \* MySQL alerts
  portal,    \* what each portal request does
  wallet,    \* the subscription each holder has on the screen
  raise,     \* what each status handler does after its transaction
  requests,  \* requests received
  changes,   \* ghost: suspensions and revocations of each credential
  owed       \* ghost: alerts set out to be raised, less those lost to a race or a fault

tables == <<subs, alerts>>
ghosts == <<changes, owed>>
vars   == <<status, tables, portal, wallet, raise, requests, ghosts>>

Chain == INSTANCE CredentialLifecycle

SubIDs   == 1 .. MaxRequests
AlertIDs == 1 .. MaxChanges

NoRow == [status |-> "none"]
Idle  == [pc |-> "idle"]

Severities == {"suspended", "revoked"}

IDsOf(table) == {i \in DOMAIN table : table[i] # NoRow}

\* activeSubscriptionExists counts these.  (Mutant: only approved ones.)
LiveStatusesMutant == {"active"}
LiveStatuses == {"active", "pending"}

Live(c) == {s \in IDsOf(subs) : subs[s].cred = c /\ subs[s].status \in LiveStatuses}
Monitored(c) == Live(c) # {}

-----------------------------------------------------------------------------
SubscriptionsInit ==
  /\ status = [c \in CredIDs |-> "active"]
  /\ subs = [s \in SubIDs |-> NoRow]
  /\ alerts = [a \in AlertIDs |-> NoRow]
  /\ portal = [p \in Portals |-> Idle]
  /\ wallet = [h \in Holders |-> Idle]
  /\ raise = [r \in Raisers |-> Idle]
  /\ requests = 0
  /\ changes = [c \in CredIDs |-> [v \in Severities |-> 0]]
  /\ owed = 0

-----------------------------------------------------------------------------
(* The portal: handleRequestSubscription, handleDeleteSubscription,        *)
(* handleUnsubscribe.                                                      *)

PortalGoes(p, to) ==
  /\ portal' = [portal EXCEPT ![p] = to]
  /\ UNCHANGED <<status, alerts, wallet, raise, ghosts>>

\* The chain is read: a revoked credential cannot be monitored.
Request(p, c) ==
  /\ portal[p].pc = "idle"
  /\ requests < MaxRequests
  /\ status[c] # "revoked"
  /\ requests' = requests + 1
  /\ PortalGoes(p, [pc |-> "check", cred |-> c])
  /\ UNCHANGED subs

\* A second subscription is answered 409.
CheckExists(p) ==
  /\ portal[p].pc = "check"
  /\ PortalGoes(p, IF Monitored(portal[p].cred) THEN Idle
                   ELSE [portal[p] EXCEPT !.pc = "generate"])
  /\ UNCHANGED <<subs, requests>>

GenerateSubscriptionID(p) ==
  /\ portal[p].pc = "generate"
  /\ \E id \in GeneratedIDs(IDsOf(subs), MayFail) :
       PortalGoes(p, [pc |-> "insert", cred |-> portal[p].cred, id |-> id])
  /\ UNCHANGED <<subs, requests>>

\* The primary key refuses an identifier that is taken.
InsertSubscription(p) ==
  /\ portal[p].pc = "insert"
  /\ LET id == portal[p].id IN
     subs' = IF subs[id] = NoRow
             THEN [subs EXCEPT ![id] = [cred |-> portal[p].cred, status |-> "pending"]]
             ELSE subs
  /\ PortalGoes(p, Idle)
  /\ UNCHANGED requests

\* The status is read first, and the statement asks for it once more.
Asks(p, s, pc) ==
  /\ portal[p].pc = "idle"
  /\ requests < MaxRequests
  /\ requests' = requests + 1
  /\ PortalGoes(p, [pc |-> pc, id |-> s])
  /\ UNCHANGED subs

AskDelete(p, s)      == subs[s].status = "pending" /\ Asks(p, s, "delete")
AskUnsubscribe(p, s) == subs[s].status = "active" /\ Asks(p, s, "unsubscribe")

\* (Mutant: DELETE by identifier alone.)
DeletableMutant(row) == TRUE
Deletable(row) == row.status = "pending"

DeleteSubscription(p) ==
  /\ portal[p].pc = "delete"
  /\ subs' = IF Deletable(subs[portal[p].id])
             THEN [subs EXCEPT ![portal[p].id] = NoRow] ELSE subs
  /\ PortalGoes(p, Idle)
  /\ UNCHANGED requests

\* (Mutant: a word the table's ENUM does not have.)
EndedMutant == "inactive"
Ended == "unsubscribed"

Unsubscribe(p) ==
  /\ portal[p].pc = "unsubscribe"
  /\ subs' = IF subs[portal[p].id].status = "active"
             THEN [subs EXCEPT ![portal[p].id].status = Ended] ELSE subs
  /\ PortalGoes(p, Idle)
  /\ UNCHANGED requests

\* A query or statement fails: the request is answered with an error.
PortalFails(p) ==
  /\ MayFail
  /\ portal[p].pc # "idle"
  /\ PortalGoes(p, Idle)
  /\ UNCHANGED <<subs, requests>>

-----------------------------------------------------------------------------
(* The wallet: it lists the holder's requests, and later decides by ID.    *)

Sees(h, s) ==
  /\ wallet[h].pc = "idle"
  /\ subs[s] # NoRow /\ subs[s].status = "pending" /\ HolderOf[subs[s].cred] = h
  /\ wallet' = [wallet EXCEPT ![h] = [pc |-> "decide", id |-> s]]
  /\ UNCHANGED <<status, tables, portal, raise, requests, ghosts>>

\* updateSubscriptionStatus joins the subscription with the holder's row.
\* (Mutant: by identifier and status alone.)
OwnsMutant(h, row) == TRUE
Owns(h, row) == HolderOf[row.cred] = h

Decide(h, verdict) ==
  /\ wallet[h].pc = "decide"
  /\ LET row == subs[wallet[h].id] IN
     subs' = IF row # NoRow /\ row.status = "pending" /\ Owns(h, row)
             THEN [subs EXCEPT ![wallet[h].id].status = verdict] ELSE subs
  /\ wallet' = [wallet EXCEPT ![h] = Idle]
  /\ UNCHANGED <<status, alerts, portal, raise, requests, ghosts>>

-----------------------------------------------------------------------------
(* The issuer's side: raiseSubscriptionAlert after a committed transaction. *)

TotalChanges ==
  LET Of(d) == {<<d, n>> : n \in 1 .. changes[d[1]][d[2]]}
  IN Cardinality(UNION {Of(d) : d \in CredIDs \X Severities})

\* What the handler passes on.  (Mutant: both pass the same word.)
SeverityMutant(to) == "suspended"
Severity(to) == to

ChangeStatus(r, c) ==
  /\ raise[r].pc = "idle"
  /\ TotalChanges < MaxChanges
  /\ Chain!Suspend(c) \/ Chain!Revoke(c)
  /\ changes' = [changes EXCEPT ![c][status'[c]] = @ + 1]
  /\ raise' = [raise EXCEPT ![r] =
                 [pc |-> "look", cred |-> c, severity |-> Severity(status'[c])]]
  /\ UNCHANGED <<tables, portal, wallet, requests, owed>>

\* A restore raises no alert.
Restores(c) ==
  /\ Chain!Restore(c)
  /\ UNCHANGED <<tables, portal, wallet, raise, requests, ghosts>>

LookUp(r) ==
  /\ raise[r].pc = "look"
  /\ IF Monitored(raise[r].cred)
     THEN raise' = [raise EXCEPT ![r].pc = "generate"] /\ owed' = owed + 1
     ELSE raise' = [raise EXCEPT ![r] = Idle] /\ UNCHANGED owed
  /\ UNCHANGED <<status, tables, portal, wallet, requests, changes>>

\* The ghost field seen is what the query found, nothing if it failed.
GenerateAlertID(r) ==
  /\ raise[r].pc = "generate"
  /\ \E seen \in {IDsOf(alerts)} \cup (IF MayFail THEN {{}} ELSE {}) :
       raise' = [raise EXCEPT ![r] =
         [pc |-> "insert", cred |-> raise[r].cred, severity |-> raise[r].severity,
          id |-> NextID(seen), seen |-> seen]]
  /\ UNCHANGED <<status, tables, portal, wallet, requests, ghosts>>

\* insertAlertForCredential: a duplicate key is logged, and the alert is lost.
InsertAlert(r) ==
  /\ raise[r].pc = "insert"
  /\ LET a == raise[r] IN
     IF alerts[a.id] = NoRow
     THEN /\ alerts' = [alerts EXCEPT ![a.id] =
                          [cred |-> a.cred, severity |-> a.severity, status |-> "unread"]]
          /\ UNCHANGED owed
     ELSE /\ owed' = IF IDsOf(alerts) # a.seen THEN owed - 1 ELSE owed
          /\ UNCHANGED alerts
  /\ raise' = [raise EXCEPT ![r] = Idle]
  /\ UNCHANGED <<status, subs, portal, wallet, requests, changes>>

Raising(r) == raise[r].pc \in {"generate", "insert"}

\* A query or the insert fails, which is logged at most.
RaiseFails(r) ==
  /\ MayFail
  /\ raise[r].pc # "idle"
  /\ raise' = [raise EXCEPT ![r] = Idle]
  /\ owed' = IF Raising(r) THEN owed - 1 ELSE owed
  /\ UNCHANGED <<status, tables, portal, wallet, requests, changes>>

AcknowledgeAlert(a) ==
  /\ alerts[a] # NoRow
  /\ alerts' = [alerts EXCEPT ![a].status = "acknowledged"]
  /\ UNCHANGED <<status, subs, portal, wallet, raise, requests, ghosts>>

BackendRestarts ==
  /\ MayFail
  /\ portal' = [p \in Portals |-> Idle]
  /\ raise' = [r \in Raisers |-> Idle]
  /\ owed' = owed - Cardinality({r \in Raisers : Raising(r)})
  /\ UNCHANGED <<status, tables, wallet, requests, changes>>

-----------------------------------------------------------------------------
PortalStep(p) ==
  \/ \E c \in CredIDs : Request(p, c)
  \/ CheckExists(p)
  \/ GenerateSubscriptionID(p)
  \/ InsertSubscription(p)
  \/ \E s \in SubIDs : AskDelete(p, s) \/ AskUnsubscribe(p, s)
  \/ DeleteSubscription(p)
  \/ Unsubscribe(p)
  \/ PortalFails(p)

WalletStep(h) ==
  \/ \E s \in SubIDs : Sees(h, s)
  \/ \E verdict \in {"active", "rejected"} : Decide(h, verdict)

RaiserStep(r) ==
  \/ \E c \in CredIDs : ChangeStatus(r, c)
  \/ LookUp(r)
  \/ GenerateAlertID(r)
  \/ InsertAlert(r)
  \/ RaiseFails(r)

SubscriptionsNext ==
  \/ \E p \in Portals : PortalStep(p)
  \/ \E h \in Holders : WalletStep(h)
  \/ \E r \in Raisers : RaiserStep(r)
  \/ \E c \in CredIDs : Restores(c)
  \/ \E a \in AlertIDs : AcknowledgeAlert(a)
  \/ BackendRestarts

SubscriptionsSpec == SubscriptionsInit /\ [][SubscriptionsNext]_vars

-----------------------------------------------------------------------------
SubscriptionsTypeOK ==
  /\ status \in [CredIDs -> Chain!Statuses]
  /\ \A s \in IDsOf(subs) :
       subs[s] \in [cred : CredIDs,
                    status : {"active", "pending", "expired", "rejected", "unsubscribed"}]
  /\ \A a \in IDsOf(alerts) :
       alerts[a] \in [cred : CredIDs, severity : Severities,
                      status : {"unread", "acknowledged"}]
  /\ \A p \in Portals : portal[p].pc \in {"idle", "check", "generate", "insert", "delete",
                                          "unsubscribe"}
  /\ requests \in 0 .. MaxRequests /\ owed \in 0 .. MaxChanges

\* The check for a second subscription and the insert are two statements, so
\* that overlapping requests may each make one.  Requests that follow one
\* another never do: no credential has more live subscriptions than requests
\* can overlap.
DuplicatesNeedOverlap ==
  \A c \in CredIDs : Cardinality(Live(c)) <= Cardinality(Portals)

\* A subscription is approved or rejected by the holder of its credential and
\* nobody else, although wallets name it by an identifier which may since have
\* been deleted and given to a request about another holder's credential.
DecidedByItsHolder ==
  [][\A s \in SubIDs :
       subs[s] # NoRow /\ subs[s].status = "pending"
         /\ subs'[s].status \in {"active", "rejected"}
       => \E h \in Holders : /\ wallet[h] = [pc |-> "decide", id |-> s]
                             /\ wallet'[h] = Idle
                             /\ HolderOf[subs[s].cred] = h]_vars

\* A decision stands: an approved subscription is never deleted, also not by a
\* request that found it pending, and ends only by an unsubscribe request that
\* found it approved; a rejected or ended one stays as the record of itself.
DecisionsStand ==
  [][\A s \in SubIDs :
       /\ subs[s].status = "active" =>
            \/ subs'[s] = subs[s]
            \/ /\ subs'[s] = [subs[s] EXCEPT !.status = "unsubscribed"]
               /\ \E p \in Portals : portal[p] = [pc |-> "unsubscribe", id |-> s]
       /\ subs[s].status \in {"rejected", "unsubscribed"} => subs'[s] = subs[s]]_vars

\* No alert is invented: each stands for a suspension or revocation of its
\* credential that is on chain, and one such change has one alert at most.
AlertsAreTrue ==
  \A c \in CredIDs, v \in Severities :
    Cardinality({a \in IDsOf(alerts) : alerts[a].cred = c /\ alerts[a].severity = v})
      <= changes[c][v]

\* The file comment of subscriptions.go: a subscribed credential's status
\* changes and an alert is raised.  Once the handlers are done every alert they
\* set out to raise is there, but for those whose statements failed and those
\* that another alert overtook between the making of their ID and the insert.
AlertRaised ==
  (\A r \in Raisers : ~Raising(r)) => Cardinality(IDsOf(alerts)) = owed
=============================================================================
