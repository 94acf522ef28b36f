-------------------------- MODULE QChaincodeProofs --------------------------
(***************************************************************************)
(* The chaincode's invariants hold for every set of holders, credentials,  *)
(* keys, bodies and expiry dates, and the contract implements the abstract *)
(* credential life cycle.                                                  *)
(***************************************************************************)
EXTENDS QChaincode, TLAPS

\* Every action of the contract executes one accepted transaction.
LEMMA NextExecutes == Next => \E tx \in Tx : Execute(tx)
  BY DEF Next, RegisterHolder, BindHolderKeys, IssueCredential, UpdateExpiry,
         RevokeCredential, SuspendCredential, RestoreCredential, Tx

\* Moving the status keeps a record a credential record.
LEMMA StatusUpdates ==
  ASSUME NEW r \in CredentialRecords
  PROVE  /\ AsRevoked(r) \in CredentialRecords
         /\ AsSuspended(r) \in CredentialRecords
         /\ AsRestored(r) \in CredentialRecords
<1>1. /\ r.Stamps \cup {"RevokedAt"} \in SUBSET StampNames
      /\ r.Stamps \cup {"SuspendedAt"} \in SUBSET StampNames
      /\ (r.Stamps \ {"SuspendedAt"}) \cup {"RestoredAt"} \in SUBSET StampNames
  BY DEF CredentialRecords, StampNames
<1>2. AsRevoked(r) \in CredentialRecords
  BY <1>1 DEF AsRevoked, CredentialRecords
<1>3. AsSuspended(r) \in CredentialRecords
  BY <1>1 DEF AsSuspended, CredentialRecords
<1>4. AsRestored(r) \in CredentialRecords
  BY <1>1 DEF AsRestored, CredentialRecords
<1> QED
  BY <1>2, <1>3, <1>4

\* So does a new expiry with its signature.
LEMMA ExpiryUpdate ==
  ASSUME NEW r \in CredentialRecords, NEW tx \in UpdateTx
  PROVE  WithExpiry(r, tx) \in CredentialRecords
<1>1. r.Stamps \cup {"ExpiryUpdatedAt"} \in SUBSET StampNames
  BY DEF CredentialRecords, StampNames
<1>2. tx.expiry \in Expiries /\ tx.signed \in Signings
  BY DEF UpdateTx
<1> QED
  BY <1>1, <1>2 DEF WithExpiry, CredentialRecords

\* What a transaction writes is a holder record under a holder identifier,
\* a credential record under a credential identifier.
LEMMA WrittenType ==
  ASSUME TypeOK, NEW tx \in Tx, Accepts(world, tx)
  PROVE  /\ tx.key \in Keys
         /\ tx.key \in HolderIDs => Written(world, tx) \in HolderRecords
         /\ tx.key \in CredIDs => Written(world, tx) \in CredentialRecords
<1> USE KeySpacesAssumption DEF Keys, TypeOK
<1>1. CASE tx \in HolderTx
  <2>1. CASE tx.fn = "registerHolder"
    BY <1>1, <2>1 DEF HolderTx, Written, NewHolder, HolderRecords
  <2>2. CASE tx.fn = "bindHolderKeys"
    <3>1. tx.key \in HolderIDs /\ tx.keys \in WalletKeys
      BY <1>1, <2>2 DEF HolderTx
    <3>2. world[tx.key] \in HolderRecords
      BY <2>2, <3>1 DEF Accepts, IsHolder, NoRecord
    <3>3. Written(world, tx) = WithKeys(world[tx.key], tx)
      BY <2>2 DEF Written
    <3> QED
      BY <3>1, <3>2, <3>3 DEF WithKeys, HolderRecords
  <2> QED
    BY <1>1, <2>1, <2>2 DEF HolderTx
<1>2. CASE tx \in IssueTx
  BY <1>2 DEF IssueTx, Written, NewCredential, CredentialRecords
<1>3. CASE tx \in UpdateTx
  <2>1. tx.key \in CredIDs /\ tx.fn = "updateExpiry"
    BY <1>3 DEF UpdateTx
  <2>2. world[tx.key] \in CredentialRecords
    BY <2>1 DEF Accepts, Updatable, IsCredential, NoRecord
  <2>3. Written(world, tx) = WithExpiry(world[tx.key], tx)
    BY <2>1 DEF Written
  <2>4. WithExpiry(world[tx.key], tx) \in CredentialRecords
    BY <1>3, <2>2, ExpiryUpdate
  <2> QED
    BY <2>1, <2>3, <2>4
<1>4. CASE tx \in StatusTx
  <2>1. tx.key \in CredIDs
        /\ tx.fn \in {"revokeCredential", "suspendCredential", "restoreCredential"}
    BY <1>4 DEF StatusTx
  <2>2. world[tx.key] \in CredentialRecords
    BY <2>1 DEF Accepts, Revocable, Suspendable, Restorable, IsCredential, NoRecord
  <2>3. Written(world, tx) \in {AsRevoked(world[tx.key]), AsSuspended(world[tx.key]),
                                AsRestored(world[tx.key])}
    BY <2>1 DEF Written
  <2>4. Written(world, tx) \in CredentialRecords
    BY <2>2, <2>3, StatusUpdates
  <2> QED
    BY <2>1, <2>4
<1> QED
  BY <1>1, <1>2, <1>3, <1>4 DEF Tx

LEMMA TypePreserved ==
  ASSUME TypeOK, NEW tx \in Tx, Execute(tx)
  PROVE  TypeOK'
<1>1. Accepts(world, tx) /\ world' = [world EXCEPT ![tx.key] = Written(world, tx)]
  BY DEF Execute
<1>2. HolderRecords \subseteq Records /\ CredentialRecords \subseteq Records
  BY DEF Records
<1> QED
  BY <1>1, <1>2, WrittenType, KeySpacesAssumption DEF TypeOK, Keys

\* Type correctness: holder identifiers only ever hold holder records, and
\* credential identifiers credential records.
THEOREM TypeCorrect == Spec => []TypeOK
<1>1. Init => TypeOK
  BY DEF Init, TypeOK, Keys, Records
<1>2. TypeOK /\ [Next]_world => TypeOK'
  <2>1. TypeOK /\ Next => TypeOK'
    BY NextExecutes, TypePreserved
  <2>2. TypeOK /\ UNCHANGED world => TypeOK'
    BY DEF TypeOK
  <2> QED
    BY <2>1, <2>2
<1> QED
  BY <1>1, <1>2, PTL DEF Spec
-----------------------------------------------------------------------------
\* The record a transaction on a credential writes is one of five.
LEMMA CredentialWrites ==
  ASSUME TypeOK, NEW tx \in Tx, Accepts(world, tx), tx.key \in CredIDs
  PROVE  \/ /\ tx \in IssueTx
            /\ world[tx.key] = NoRecord
            /\ Bound(world, tx.holder)
            /\ Written(world, tx) = NewCredential(tx)
         \/ /\ tx \in UpdateTx
            /\ Updatable(world, tx.key)
            /\ Written(world, tx) = WithExpiry(world[tx.key], tx)
         \/ /\ Revocable(world, tx.key)
            /\ Written(world, tx) = AsRevoked(world[tx.key])
         \/ /\ Suspendable(world, tx.key)
            /\ Written(world, tx) = AsSuspended(world[tx.key])
         \/ /\ Restorable(world, tx.key)
            /\ Written(world, tx) = AsRestored(world[tx.key])
<1>1. tx \notin HolderTx
  BY KeySpacesAssumption DEF HolderTx
<1>2. CASE tx \in IssueTx
  BY <1>2 DEF IssueTx, Accepts, Written
<1>3. CASE tx \in UpdateTx
  BY <1>3 DEF UpdateTx, Accepts, Written
<1>4. CASE tx \in StatusTx
  BY <1>4 DEF StatusTx, Accepts, Written
<1> QED
  BY <1>1, <1>2, <1>3, <1>4 DEF Tx

\* A transaction leaves every record but the one under its key alone.
LEMMA OthersUntouched ==
  ASSUME TypeOK, NEW tx \in Tx, Execute(tx), NEW k \in Keys
  PROVE  /\ k # tx.key => world'[k] = world[k]
         /\ k = tx.key => world'[k] = Written(world, tx)
  BY DEF Execute, TypeOK

LEMMA StampsPreserved ==
  ASSUME TypeOK, StampsMatchStatus, NEW tx \in Tx, Execute(tx)
  PROVE  StampsMatchStatus'
<1> SUFFICES ASSUME NEW c \in CredIDs, world'[c].DocType = "credential"
             PROVE  StampsAgree(world'[c])
  BY DEF StampsMatchStatus, IsCredential
<1>0. c \in Keys /\ Accepts(world, tx)
  BY DEF Keys, Execute
<1>1. CASE c # tx.key
  BY <1>0, <1>1, OthersUntouched DEF StampsMatchStatus, IsCredential
<1>2. CASE c = tx.key
  <2>1. world'[c] = Written(world, tx)
    BY <1>0, <1>2, OthersUntouched
  <2>2. CASE tx \in IssueTx /\ Written(world, tx) = NewCredential(tx)
    BY <2>1, <2>2 DEF NewCredential, StampsAgree
  <2>3. ASSUME IsCredential(world, c)
        PROVE  world[c] \in CredentialRecords /\ StampsAgree(world[c])
    BY <2>3 DEF TypeOK, StampsMatchStatus, IsCredential, NoRecord
  <2>4. CASE Updatable(world, c) /\ Written(world, tx) = WithExpiry(world[c], tx)
    BY <2>1, <2>3, <2>4 DEF Updatable, WithExpiry, StampsAgree, CredentialRecords
  <2>5. CASE Revocable(world, c) /\ Written(world, tx) = AsRevoked(world[c])
    BY <2>1, <2>3, <2>5 DEF Revocable, AsRevoked, StampsAgree, CredentialRecords
  <2>6. CASE Suspendable(world, c) /\ Written(world, tx) = AsSuspended(world[c])
    BY <2>1, <2>3, <2>6 DEF Suspendable, AsSuspended, StampsAgree, CredentialRecords
  <2>7. CASE Restorable(world, c) /\ Written(world, tx) = AsRestored(world[c])
    BY <2>1, <2>3, <2>7 DEF Restorable, AsRestored, StampsAgree, CredentialRecords
  <2> QED
    BY <1>0, <1>2, <2>2, <2>4, <2>5, <2>6, <2>7, CredentialWrites
<1> QED
  BY <1>1, <1>2

\* The timestamps of every record agree with its status.
THEOREM StampsAlwaysMatch == Spec => []StampsMatchStatus
<1>1. Init => StampsMatchStatus
  BY DEF Init, StampsMatchStatus, IsCredential, NoRecord, Keys
<1>2. TypeOK /\ StampsMatchStatus /\ [Next]_world => StampsMatchStatus'
  <2>1. TypeOK /\ StampsMatchStatus /\ Next => StampsMatchStatus'
    BY NextExecutes, StampsPreserved
  <2>2. StampsMatchStatus /\ UNCHANGED world => StampsMatchStatus'
    BY DEF StampsMatchStatus, IsCredential
  <2> QED
    BY <2>1, <2>2
<1> QED
  BY <1>1, <1>2, TypeCorrect, PTL DEF Spec

-----------------------------------------------------------------------------
LEMMA HoldersStayBound ==
  ASSUME TypeOK, NEW tx \in Tx, Execute(tx), NEW h \in HolderIDs, Bound(world, h)
  PROVE  Bound(world', h)
<1>1. h \in Keys /\ Accepts(world, tx) /\ world[h] \in HolderRecords
  BY DEF Keys, Execute, TypeOK, Bound, IsHolder, NoRecord
<1>2. CASE h # tx.key
  BY <1>1, <1>2, OthersUntouched DEF Bound, IsHolder
<1>3. CASE h = tx.key
  <2>1. tx \in HolderTx
    BY <1>3, KeySpacesAssumption DEF Tx, IssueTx, UpdateTx, StatusTx
  <2>2. tx.fn = "bindHolderKeys"
    BY <1>1, <1>3, <2>1 DEF HolderTx, Accepts, Unregistered, Bound, IsHolder, NoRecord
  <2>3. tx.keys \in WalletKeys /\ Written(world, tx) = WithKeys(world[h], tx)
    BY <1>3, <2>1, <2>2 DEF HolderTx, Written
  <2> QED
    BY <1>1, <1>3, <2>3, OthersUntouched, NoKeysAssumption
       DEF WithKeys, Bound, IsHolder, HolderRecords
<1> QED
  BY <1>2, <1>3

LEMMA HolderBoundPreserved ==
  ASSUME TypeOK, CredentialHolderBound, NEW tx \in Tx, Execute(tx)
  PROVE  CredentialHolderBound'
<1> SUFFICES ASSUME NEW c \in CredIDs, world'[c].DocType = "credential"
             PROVE  Bound(world', world'[c].Holder)
  BY DEF CredentialHolderBound, IsCredential, Bound, IsHolder
<1>0. c \in Keys /\ Accepts(world, tx)
  BY DEF Keys, Execute
<1>1. ASSUME IsCredential(world, c), world'[c].Holder = world[c].Holder
      PROVE  Bound(world', world'[c].Holder)
  <2>1. world[c].Holder \in HolderIDs /\ Bound(world, world[c].Holder)
    BY <1>1 DEF TypeOK, CredentialHolderBound, IsCredential, CredentialRecords, NoRecord
  <2> QED
    BY <1>1, <2>1, HoldersStayBound
<1>2. CASE c # tx.key
  BY <1>0, <1>1, <1>2, OthersUntouched DEF IsCredential
<1>3. CASE c = tx.key
  <2>1. world'[c] = Written(world, tx)
    BY <1>0, <1>3, OthersUntouched
  <2>2. CASE tx \in IssueTx /\ Bound(world, tx.holder) /\ Written(world, tx) = NewCredential(tx)
    <3>1. tx.holder \in HolderIDs /\ world'[c].Holder = tx.holder
      BY <2>1, <2>2 DEF IssueTx, NewCredential
    <3> QED
      BY <2>2, <3>1, HoldersStayBound
  <2>3. ASSUME IsCredential(world, c)
        PROVE  world[c] \in CredentialRecords
    BY <2>3 DEF TypeOK, IsCredential, NoRecord
  <2>4. CASE Updatable(world, c) /\ Written(world, tx) = WithExpiry(world[c], tx)
    BY <1>1, <2>1, <2>3, <2>4 DEF Updatable, WithExpiry, CredentialRecords
  <2>5. CASE Revocable(world, c) /\ Written(world, tx) = AsRevoked(world[c])
    BY <1>1, <2>1, <2>3, <2>5 DEF Revocable, AsRevoked, CredentialRecords
  <2>6. CASE Suspendable(world, c) /\ Written(world, tx) = AsSuspended(world[c])
    BY <1>1, <2>1, <2>3, <2>6 DEF Suspendable, AsSuspended, CredentialRecords
  <2>7. CASE Restorable(world, c) /\ Written(world, tx) = AsRestored(world[c])
    BY <1>1, <2>1, <2>3, <2>7 DEF Restorable, AsRestored, CredentialRecords
  <2> QED
    BY <1>0, <1>3, <2>2, <2>4, <2>5, <2>6, <2>7, CredentialWrites
<1> QED
  BY <1>2, <1>3

\* No credential ever belongs to a holder without bound keys.
THEOREM HolderAlwaysBound == Spec => []CredentialHolderBound
<1>1. Init => CredentialHolderBound
  BY DEF Init, CredentialHolderBound, IsCredential, NoRecord, Keys
<1>2. TypeOK /\ CredentialHolderBound /\ [Next]_world => CredentialHolderBound'
  <2>1. TypeOK /\ CredentialHolderBound /\ Next => CredentialHolderBound'
    BY NextExecutes, HolderBoundPreserved
  <2>2. CredentialHolderBound /\ UNCHANGED world => CredentialHolderBound'
    BY DEF CredentialHolderBound, IsCredential, Bound, IsHolder
  <2> QED
    BY <2>1, <2>2
<1> QED
  BY <1>1, <1>2, TypeCorrect, PTL DEF Spec

-----------------------------------------------------------------------------
\* What no step does to a revoked record.
FrozenNow == \A c \in CredIDs :
               (IsCredential(world, c) /\ world[c].Status = "revoked")
                 => world'[c] = world[c]

LEMMA FrozenStep ==
  ASSUME TypeOK, NEW tx \in Tx, Execute(tx)
  PROVE  FrozenNow
<1> SUFFICES ASSUME NEW c \in CredIDs, IsCredential(world, c), world[c].Status = "revoked"
             PROVE  world'[c] = world[c]
  BY DEF FrozenNow
<1>1. c \in Keys /\ Accepts(world, tx)
  BY DEF Keys, Execute
<1>2. c # tx.key
  <2> SUFFICES ASSUME c = tx.key
               PROVE  FALSE
    OBVIOUS
  <2>1. world[c] # NoRecord
    BY DEF IsCredential, NoRecord
  <2> QED
    BY <1>1, <2>1, CredentialWrites
       DEF Updatable, Revocable, Suspendable, Restorable
<1> QED
  BY <1>1, <1>2, OthersUntouched

\* Revocation is permanent: nothing changes a revoked record again.
THEOREM RevokedStaysFrozen == Spec => RevokedIsFrozen
<1>1. TypeOK /\ [Next]_world => [FrozenNow]_world
  BY NextExecutes, FrozenStep
<1>2. RevokedIsFrozen <=> [][FrozenNow]_world
  BY DEF RevokedIsFrozen, FrozenNow
<1> QED
  BY <1>1, <1>2, TypeCorrect, PTL DEF Spec

-----------------------------------------------------------------------------
\* One executed transaction is one step, or none, of the life cycle.
LEMMA ExecuteIsLifecycleStep ==
  ASSUME TypeOK, NEW tx \in Tx, Execute(tx)
  PROVE  Lifecycle!Next \/ lifeStatus' = lifeStatus
<1>0. Accepts(world, tx) /\ tx.key \in Keys
  BY WrittenType DEF Execute
<1>1. CASE tx.key \notin CredIDs
  <2>1. ASSUME NEW c \in CredIDs PROVE world'[c] = world[c]
    BY <1>1, OthersUntouched DEF Keys
  <2> QED
    BY <2>1 DEF lifeStatus
<1>2. CASE tx.key \in CredIDs
  <2> DEFINE k == tx.key
             new == StatusOf(Written(world, tx))
  <2>1. lifeStatus' = [lifeStatus EXCEPT ![k] = new]
    <3>1. ASSUME NEW c \in CredIDs
          PROVE  lifeStatus'[c] = IF c = k THEN new ELSE lifeStatus[c]
      BY <1>2, OthersUntouched DEF lifeStatus, Keys
    <3> QED
      BY <1>2, <3>1 DEF lifeStatus
  <2>2. lifeStatus[k] = StatusOf(world[k])
    BY <1>2 DEF lifeStatus
  <2>3. ASSUME IsCredential(world, k)
        PROVE  world[k] \in CredentialRecords /\ lifeStatus[k] = world[k].Status
    BY <1>2, <2>2, <2>3 DEF TypeOK, IsCredential, NoRecord, StatusOf
  <2>4. CASE world[k] = NoRecord /\ Written(world, tx) = NewCredential(tx)
    <3>1. lifeStatus[k] = "absent" /\ new = "active"
      BY <2>2, <2>4 DEF StatusOf, NoRecord, NewCredential
    <3> QED
      BY <1>2, <2>1, <3>1 DEF Lifecycle!Next, Lifecycle!Issue, Lifecycle!Move
  <2>5. CASE Updatable(world, k) /\ Written(world, tx) = WithExpiry(world[k], tx)
    <3>1. new = lifeStatus[k]
      BY <2>3, <2>5 DEF Updatable, StatusOf, WithExpiry, CredentialRecords
    <3> QED
      BY <2>1, <3>1 DEF lifeStatus
  <2>6. CASE Revocable(world, k) /\ Written(world, tx) = AsRevoked(world[k])
    <3>1. lifeStatus[k] \in {"active", "suspended"} /\ new = "revoked"
      BY <2>3, <2>6 DEF Revocable, StatusOf, AsRevoked, CredentialRecords
    <3> QED
      BY <1>2, <2>1, <3>1 DEF Lifecycle!Next, Lifecycle!Revoke, Lifecycle!Move
  <2>7. CASE Suspendable(world, k) /\ Written(world, tx) = AsSuspended(world[k])
    <3>1. lifeStatus[k] = "active" /\ new = "suspended"
      BY <2>3, <2>7 DEF Suspendable, StatusOf, AsSuspended, CredentialRecords
    <3> QED
      BY <1>2, <2>1, <3>1 DEF Lifecycle!Next, Lifecycle!Suspend, Lifecycle!Move
  <2>8. CASE Restorable(world, k) /\ Written(world, tx) = AsRestored(world[k])
    <3>1. lifeStatus[k] = "suspended" /\ new = "active"
      BY <2>3, <2>8 DEF Restorable, StatusOf, AsRestored, CredentialRecords
    <3> QED
      BY <1>2, <2>1, <3>1 DEF Lifecycle!Next, Lifecycle!Restore, Lifecycle!Move
  <2> QED
    BY <1>0, <1>2, <2>4, <2>5, <2>6, <2>7, <2>8, CredentialWrites
<1> QED
  BY <1>1, <1>2

\* The contract implements the abstract credential life cycle.
THEOREM ChaincodeImplementsLifecycle == Spec => ImplementsLifecycle
<1>1. Init => Lifecycle!Init
  BY DEF Init, Lifecycle!Init, lifeStatus, StatusOf, NoRecord, Keys
<1>2. TypeOK /\ [Next]_world => [Lifecycle!Next]_lifeStatus
  <2>1. TypeOK /\ Next => [Lifecycle!Next]_lifeStatus
    BY NextExecutes, ExecuteIsLifecycleStep
  <2>2. UNCHANGED world => UNCHANGED lifeStatus
    BY DEF lifeStatus
  <2> QED
    BY <2>1, <2>2
<1> QED
  BY <1>1, <1>2, TypeCorrect, PTL DEF Spec, ImplementsLifecycle, Lifecycle!Spec
=============================================================================
