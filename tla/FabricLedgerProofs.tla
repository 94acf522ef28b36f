------------------------- MODULE FabricLedgerProofs -------------------------
(***************************************************************************)
(* The network implements the contract, for every set of clients,          *)
(* transactions, holders and keys: transactions that overlap commit only   *)
(* as if the contract had run them one at a time.  The argument is the     *)
(* invariant EndorsementStillHolds: while the versions a transaction read  *)
(* are in force, the records it read are unchanged, because versions are   *)
(* never reused (UniqueTransactions).                                      *)
(***************************************************************************)
EXTENDS FabricLedger, QChaincodeProofs

LedgerInv == LedgerTypeOK /\ UniqueTransactions /\ EndorsementStillHolds

\* Acceptance and the record written depend on the keys read alone.
LEMMA ReadsDecide ==
  ASSUME NEW w, NEW v, NEW tx \in Tx,
         \A k \in ReadKeys(tx) : v[k] = w[k]
  PROVE  /\ Accepts(v, tx) <=> Accepts(w, tx)
         /\ Written(v, tx) = Written(w, tx)
<1>1. tx.key \in ReadKeys(tx)
  BY DEF ReadKeys
<1>2. tx.fn = "issueCredential" => tx.holder \in ReadKeys(tx)
  BY DEF ReadKeys
<1>3. v[tx.key] = w[tx.key]
  BY <1>1
<1>4. tx.fn = "issueCredential" => v[tx.holder] = w[tx.holder]
  BY <1>2
<1>5. Accepts(v, tx) <=> Accepts(w, tx)
  BY <1>3, <1>4 DEF Accepts, Unregistered, IsHolder, Bound, Updatable, Revocable,
                    Suspendable, Restorable, IsCredential
<1>6. Written(v, tx) = Written(w, tx)
  BY <1>3 DEF Written
<1> QED
  BY <1>5, <1>6

LEMMA ReadKeysAreKeys ==
  ASSUME NEW tx \in Tx
  PROVE  ReadKeys(tx) \subseteq Keys /\ tx.key \in ReadKeys(tx)
  BY DEF ReadKeys, Tx, HolderTx, IssueTx, UpdateTx, StatusTx, Keys

-----------------------------------------------------------------------------
\* Endorsing adds one entry whose ID is new and whose reads are current.
LEMMA EndorsePreserves ==
  ASSUME LedgerInv, NEW p \in Clients, NEW tx \in Tx, Endorse(p, tx)
  PROVE  LedgerInv'
<1> USE DEF LedgerInv
<1>1. PICK id \in TxIDs \ used :
        /\ mempool' = mempool \cup {Entry(id, tx)}
        /\ used' = used \cup {id}
        /\ call' = [call EXCEPT ![p] = [st |-> "waiting", id |-> id]]
  BY DEF Endorse, FreshIDs
<1>2. Accepts(world, tx) /\ world' = world /\ version' = version /\ committed' = committed
  BY DEF Endorse
<1> DEFINE n == Entry(id, tx)
<1>3. n.id = id /\ n.tx = tx /\ n.write = Written(world, tx) /\ n.reads = ReadVersions(tx)
  BY DEF Entry
<1>4. ReadKeys(tx) \subseteq Keys
  BY ReadKeysAreKeys
<1>5. n.reads \in [ReadKeys(tx) -> committed \cup {Genesis}]
  BY <1>3, <1>4 DEF ReadVersions, UniqueTransactions
<1>6. LedgerTypeOK'
  <2>1. TypeOK'
    BY <1>2 DEF LedgerTypeOK, TypeOK
  <2>2. call' \in [Clients -> [st : CallStates, id : TxIDs \cup {Genesis}]]
    BY <1>1 DEF LedgerTypeOK, CallStates
  <2>3. ASSUME NEW e \in mempool'
        PROVE  /\ e.id \in used' \ committed'
               /\ e.tx \in Tx
               /\ e.reads \in [ReadKeys(e.tx) -> committed' \cup {Genesis}]
    <3>1. CASE e \in mempool
      BY <1>1, <1>2, <3>1 DEF LedgerTypeOK
    <3>2. CASE e = n
      BY <1>1, <1>2, <1>3, <1>5, <3>2 DEF LedgerTypeOK
    <3> QED
      BY <1>1, <3>1, <3>2
  <2>4. version' \in [Keys -> TxIDs \cup {Genesis}] /\ committed' \subseteq used'
        /\ used' \subseteq TxIDs
    BY <1>1, <1>2 DEF LedgerTypeOK
  <2> QED
    BY <2>1, <2>2, <2>3, <2>4 DEF LedgerTypeOK
<1>7. UniqueTransactions'
  <2>1. \A e \in mempool : e.id # n.id
    BY <1>1, <1>3 DEF LedgerTypeOK
  <2> QED
    BY <1>1, <1>2, <2>1 DEF UniqueTransactions
<1>8. EndorsementStillHolds'
  <2> SUFFICES ASSUME NEW e \in mempool', Current(e)'
               PROVE  Accepts(world, e.tx) /\ e.write = Written(world, e.tx)
    BY <1>2 DEF EndorsementStillHolds
  <2>1. CASE e \in mempool
    BY <1>2, <2>1 DEF EndorsementStillHolds, Current
  <2>2. CASE e = n
    BY <1>2, <1>3, <2>2
  <2> QED
    BY <1>1, <2>1, <2>2
<1> QED
  BY <1>6, <1>7, <1>8

\* A commit is an atomic execution of its transaction by the contract.
LEMMA CommitExecutes ==
  ASSUME LedgerInv, NEW e \in mempool, Commit(e)
  PROVE  e.tx \in Tx /\ Execute(e.tx)
  BY DEF LedgerInv, LedgerTypeOK, EndorsementStillHolds, Commit, Execute

\* Committing gives the written key a version nobody has read.
LEMMA CommitPreserves ==
  ASSUME LedgerInv, NEW e \in mempool, Commit(e)
  PROVE  LedgerInv'
<1> USE DEF LedgerInv
<1>1. /\ e.tx \in Tx
      /\ world' = [world EXCEPT ![e.tx.key] = e.write]
      /\ version' = [version EXCEPT ![e.tx.key] = e.id]
      /\ committed' = committed \cup {e.id}
      /\ mempool' = mempool \ {e}
      /\ used' = used
  BY DEF Commit, LedgerTypeOK
<1>2. e.id \in used /\ e.id \notin committed /\ e.id \in TxIDs
  BY DEF LedgerTypeOK
<1>3. TypeOK'
  BY CommitExecutes, TypePreserved DEF LedgerTypeOK
<1>4. e.tx.key \in Keys
  BY <1>1, ReadKeysAreKeys
<1>5. ASSUME NEW f \in mempool'
      PROVE  f \in mempool /\ f.id # e.id
  BY <1>1, <1>5 DEF UniqueTransactions
<1>6. LedgerTypeOK'
  <2>1. call' \in [Clients -> [st : CallStates, id : TxIDs \cup {Genesis}]]
    BY DEF Commit, Tell, LedgerTypeOK, CallStates
  <2>2. version' \in [Keys -> TxIDs \cup {Genesis}]
    BY <1>1, <1>2 DEF LedgerTypeOK
  <2>3. ASSUME NEW f \in mempool'
        PROVE  /\ f.id \in used' \ committed'
               /\ f.tx \in Tx
               /\ f.reads \in [ReadKeys(f.tx) -> committed' \cup {Genesis}]
    BY <1>1, <1>5 DEF LedgerTypeOK
  <2>4. committed' \subseteq used' /\ used' \subseteq TxIDs
    BY <1>1, <1>2 DEF LedgerTypeOK
  <2> QED
    BY <1>3, <2>1, <2>2, <2>3, <2>4 DEF LedgerTypeOK
<1>7. UniqueTransactions'
  <2>1. ASSUME NEW k \in Keys
        PROVE  version'[k] \in committed' \cup {Genesis}
    BY <1>1 DEF UniqueTransactions, LedgerTypeOK
  <2> QED
    BY <1>1, <1>5, <2>1 DEF UniqueTransactions
<1>8. EndorsementStillHolds'
  <2> SUFFICES ASSUME NEW f \in mempool', Current(f)'
               PROVE  Accepts(world', f.tx) /\ f.write = Written(world', f.tx)
    BY DEF EndorsementStillHolds, Accepts, Written, Unregistered, IsHolder, Bound,
           Updatable, Revocable, Suspendable, Restorable, IsCredential
  <2>1. f \in mempool /\ f.tx \in Tx /\ f.reads \in [ReadKeys(f.tx) -> committed \cup {Genesis}]
    BY <1>5 DEF LedgerTypeOK
  <2>2. \A k \in ReadKeys(f.tx) : f.reads[k] = version'[k]
    BY DEF Current
  <2>3. ReadKeys(f.tx) \subseteq Keys
    BY <2>1, ReadKeysAreKeys
  <2>4. e.tx.key \notin ReadKeys(f.tx)
    <3> SUFFICES ASSUME e.tx.key \in ReadKeys(f.tx)
                 PROVE  FALSE
      OBVIOUS
    <3>1. f.reads[e.tx.key] = e.id
      BY <1>1, <1>4, <2>2 DEF LedgerTypeOK
    <3>2. f.reads[e.tx.key] \in committed \cup {Genesis}
      BY <2>1
    <3> QED
      BY <1>2, <3>1, <3>2, GenesisAssumption DEF TxIDs
  <2>5. \A k \in ReadKeys(f.tx) : version'[k] = version[k] /\ world'[k] = world[k]
    BY <1>1, <2>3, <2>4 DEF LedgerTypeOK, TypeOK
  <2>6. Accepts(world, f.tx) /\ f.write = Written(world, f.tx)
    BY <2>1, <2>2, <2>5 DEF EndorsementStillHolds, Current
  <2> QED
    BY <2>1, <2>5, <2>6, ReadsDecide
<1> QED
  BY <1>6, <1>7, <1>8

\* The other steps touch neither the world state nor a version, and only
\* ever remove entries.
LEMMA OthersPreserve ==
  ASSUME LedgerInv,
         mempool' \subseteq mempool,
         UNCHANGED <<world, version, committed, used>>,
         call' \in [Clients -> [st : CallStates, id : TxIDs \cup {Genesis}]]
  PROVE  LedgerInv'
<1> USE DEF LedgerInv
<1>1. LedgerTypeOK'
  BY DEF LedgerTypeOK, TypeOK
<1>2. UniqueTransactions'
  BY DEF UniqueTransactions
<1>3. EndorsementStillHolds'
  BY DEF EndorsementStillHolds, Current
<1> QED
  BY <1>1, <1>2, <1>3

LEMMA StepPreserves == LedgerInv /\ [LedgerNext]_ledgerVars => LedgerInv'
<1> SUFFICES ASSUME LedgerInv, [LedgerNext]_ledgerVars
             PROVE  LedgerInv'
  OBVIOUS
<1> DEFINE Calls == [Clients -> [st : CallStates, id : TxIDs \cup {Genesis}]]
<1>0. call \in Calls /\ Idle \in [st : CallStates, id : TxIDs \cup {Genesis}]
  BY DEF LedgerInv, LedgerTypeOK, Idle, CallStates
<1>1. ASSUME NEW p \in Clients, NEW tx \in Tx, Endorse(p, tx)
      PROVE  LedgerInv'
  BY <1>1, EndorsePreserves
<1>2. ASSUME NEW p \in Clients, NEW tx \in Tx, Refuse(p, tx)
      PROVE  LedgerInv'
  <2>1. call' \in Calls
    BY <1>0, <1>2 DEF Refuse, CallStates
  <2> QED
    BY <1>2, <2>1, OthersPreserve DEF Refuse
<1>3. ASSUME NEW e \in mempool, Commit(e)
      PROVE  LedgerInv'
  BY <1>3, CommitPreserves
<1>4. ASSUME NEW e \in mempool, Discard(e)
      PROVE  LedgerInv'
  <2>1. call' \in Calls
    BY <1>0, <1>4 DEF Discard, Tell, InvalidVerdict, CallStates
  <2> QED
    BY <1>4, <2>1, OthersPreserve DEF Discard
<1>5. ASSUME NEW p \in Clients, StatusTimeout(p)
      PROVE  LedgerInv'
  <2>1. call' \in Calls
    BY <1>0, <1>5 DEF StatusTimeout, CallStates
  <2> QED
    BY <1>5, <2>1, OthersPreserve DEF StatusTimeout
<1>6. ASSUME NEW p \in Clients, Return(p)
      PROVE  LedgerInv'
  <2>1. call' \in Calls
    BY <1>0, <1>6 DEF Return
  <2> QED
    BY <1>6, <2>1, OthersPreserve DEF Return
<1>7. ASSUME ClientsCrash
      PROVE  LedgerInv'
  <2>1. call' \in Calls
    BY <1>0, <1>7 DEF ClientsCrash
  <2> QED
    BY <1>7, <2>1, OthersPreserve DEF ClientsCrash
<1>9. ASSUME NEW p \in Clients, PeerUnreachable(p)
      PROVE  LedgerInv'
  <2>1. call' \in Calls
    BY <1>0, <1>9 DEF PeerUnreachable, CallStates
  <2> QED
    BY <1>9, <2>1, OthersPreserve DEF PeerUnreachable
<1>8. CASE UNCHANGED ledgerVars
  BY <1>0, <1>8, OthersPreserve DEF ledgerVars
<1> QED
  BY <1>1, <1>2, <1>3, <1>4, <1>5, <1>6, <1>7, <1>8, <1>9 DEF LedgerNext

LEMMA InitEstablishes == LedgerInit => LedgerInv
<1> SUFFICES ASSUME LedgerInit
             PROVE  LedgerInv
  OBVIOUS
<1>1. TypeOK
  BY DEF LedgerInit, Init, TypeOK, Keys, Records
<1>2. LedgerTypeOK
  BY <1>1 DEF LedgerInit, LedgerTypeOK, Idle, CallStates
<1> QED
  BY <1>2 DEF LedgerInit, LedgerInv, UniqueTransactions, EndorsementStillHolds

\* The inductive invariant of the network.
THEOREM LedgerInvariant == LedgerSpec => []LedgerInv
  BY InitEstablishes, StepPreserves, PTL DEF LedgerSpec

\* Type correctness of the network, for every instance.
THEOREM LedgerTypeCorrect == LedgerSpec => []LedgerTypeOK
  BY LedgerInvariant, PTL DEF LedgerInv

\* A transaction whose reads are current would be endorsed again.
THEOREM EndorsementsHold == LedgerSpec => []EndorsementStillHolds
  BY LedgerInvariant, PTL DEF LedgerInv

\* An executed transaction is a step of the contract's next-state relation.
LEMMA ExecuteIsNext ==
  ASSUME NEW tx \in Tx, Execute(tx)
  PROVE  Next
  BY DEF Tx, HolderTx, IssueTx, UpdateTx, StatusTx, Next, RegisterHolder, BindHolderKeys,
         IssueCredential, UpdateExpiry, RevokeCredential, SuspendCredential,
         RestoreCredential

LEMMA LedgerStepsAreContractSteps ==
  LedgerInv /\ [LedgerNext]_ledgerVars => [Next]_world
<1> SUFFICES ASSUME LedgerInv, [LedgerNext]_ledgerVars
             PROVE  [Next]_world
  OBVIOUS
<1>1. ASSUME NEW e \in mempool, Commit(e)
      PROVE  Next
  BY <1>1, CommitExecutes, ExecuteIsNext
<1>2. CASE ~(\E e \in mempool : Commit(e))
  BY <1>2 DEF LedgerNext, Endorse, Refuse, PeerUnreachable, Discard, StatusTimeout, Return,
              ClientsCrash,
              ledgerVars
<1> QED
  BY <1>1, <1>2

\* The network implements the contract: however endorsements, commits,
\* timeouts and crashes interleave, the world state evolves as if accepted
\* transactions ran atomically, one at a time.
THEOREM LedgerImplementsChaincode == LedgerSpec => SerializedCommits
<1>1. LedgerInit => Init
  BY DEF LedgerInit
<1> QED
  BY <1>1, LedgerInvariant, LedgerStepsAreContractSteps, PTL
     DEF LedgerSpec, Spec, SerializedCommits

\* So what is proved of the contract holds of the network: overlapping calls
\* never thaw a revoked credential, and every record's timestamps agree with
\* its status.
THEOREM RevokedStaysFrozenOnNetwork == LedgerSpec => RevokedIsFrozen
  BY LedgerImplementsChaincode, RevokedStaysFrozen DEF SerializedCommits

THEOREM StampsMatchOnNetwork == LedgerSpec => []StampsMatchStatus
  BY LedgerImplementsChaincode, StampsAlwaysMatch DEF SerializedCommits
=============================================================================
