---------------------------- MODULE FabricLedger ----------------------------
(***************************************************************************)
(* The chaincode as a Fabric network runs it for chainSubmit.  A gateway   *)
(* call first has the contract simulated on the current world state        *)
(* (endorsement), which fixes the versions of the keys it read and the     *)
(* record it will write; later the transaction is ordered and validated    *)
(* against the versions then in force, and the caller hears of it, or      *)
(* gives up after the commit-status timeout while the transaction may      *)
(* still commit.                                                           *)
(*                                                                         *)
(* The version of a key is the transaction that last wrote it.  A          *)
(* transaction ID names the credential the transaction would issue         *)
(* (CRED-<txID>), so TxIDs is the set of credential identifiers.           *)
(***************************************************************************)
EXTENDS QChaincode, FiniteSets

CONSTANTS
  Clients,  \* the concurrent gateway calls of the backend
  Genesis   \* the version of a key nobody has written

ASSUME GenesisAssumption == Genesis \notin CredIDs

TxIDs == CredIDs

VARIABLES
  version,    \* version of every key
  mempool,    \* endorsed transactions that may still commit
  committed,  \* IDs of the valid transactions in the block store
  used,       \* IDs drawn so far
  call        \* what each client knows of its current call

ledgerVars == <<world, version, mempool, committed, used, call>>

Idle == [st |-> "idle", id |-> Genesis]

LedgerInit ==
  /\ Init
  /\ version = [k \in Keys |-> Genesis]
  /\ mempool = {}
  /\ committed = {}
  /\ used = {}
  /\ call = [p \in Clients |-> Idle]

-----------------------------------------------------------------------------
\* The versions of the keys tx reads, as its simulation saw them.
ReadVersions(tx) == [k \in ReadKeys(tx) |-> version[k]]

Entry(id, tx) ==
  [id |-> id, tx |-> tx, reads |-> ReadVersions(tx), write |-> Written(world, tx)]

\* A transaction ID is a hash over a nonce: never one drawn before.
FreshIDs == TxIDs \ used

\* The contract runs without throwing: the call now waits for its commit.
Endorse(p, tx) ==
  /\ call[p].st = "idle"
  /\ Accepts(world, tx)
  /\ \E id \in FreshIDs :
       /\ tx.fn = "issueCredential" => tx.key = id
       /\ mempool' = mempool \cup {Entry(id, tx)}
       /\ used' = used \cup {id}
       /\ call' = [call EXCEPT ![p] = [st |-> "waiting", id |-> id]]
  /\ UNCHANGED <<world, version, committed>>

\* The contract throws: the call returns the error, nothing is submitted.
Refuse(p, tx) ==
  /\ call[p].st = "idle"
  /\ ~Accepts(world, tx)
  /\ call' = [call EXCEPT ![p] = [st |-> "failed", id |-> Genesis]]
  /\ UNCHANGED <<world, version, mempool, committed, used>>

\* The connection or the endorsement fails or times out: the call returns an
\* error, and nothing was submitted.
PeerUnreachable(p) ==
  /\ call[p].st = "idle"
  /\ call' = [call EXCEPT ![p] = [st |-> "failed", id |-> Genesis]]
  /\ UNCHANGED <<world, version, mempool, committed, used>>

\* Tell the client still waiting for transaction id, if there is one.
Tell(id, st) ==
  call' = [p \in Clients |->
             IF call[p].st = "waiting" /\ call[p].id = id
             THEN [call[p] EXCEPT !.st = st]
             ELSE call[p]]

\* Validation: every key read still has the version the simulation saw.
Current(e) == \A k \in ReadKeys(e.tx) : e.reads[k] = version[k]

\* The verdict the client of an invalid transaction hears.
InvalidVerdict == "failed"

Commit(e) ==
  /\ Current(e)
  /\ world' = [world EXCEPT ![e.tx.key] = e.write]
  /\ version' = [version EXCEPT ![e.tx.key] = e.id]
  /\ committed' = committed \cup {e.id}
  /\ mempool' = mempool \ {e}
  /\ Tell(e.id, "committed")
  /\ UNCHANGED used

\* A transaction whose reads are stale is marked invalid; so is one that
\* never reaches a block.  Either way the waiting client gets an error.
Discard(e) ==
  /\ mempool' = mempool \ {e}
  /\ Tell(e.id, InvalidVerdict)
  /\ UNCHANGED <<world, version, committed, used>>

\* (Mutant: the timer does not cover the wait itself.)
TimedStatesMutant == {"committed"}
TimedStates == {"waiting", "committed"}

\* WithCommitStatusTimeout: the client stops waiting, whatever became of its
\* transaction.
StatusTimeout(p) ==
  /\ call[p].st \in TimedStates
  /\ call' = [call EXCEPT ![p].st = "failed"]
  /\ UNCHANGED <<world, version, mempool, committed, used>>

\* chainSubmit returns and the connection is closed.
Return(p) ==
  /\ call[p].st \in {"committed", "failed"}
  /\ call' = [call EXCEPT ![p] = Idle]
  /\ UNCHANGED <<world, version, mempool, committed, used>>

\* The backend dies: the outcomes of its calls are lost, the network's
\* state is not.
ClientsCrash ==
  /\ \E p \in Clients : call[p].st # "idle"
  /\ call' = [p \in Clients |-> Idle]
  /\ UNCHANGED <<world, version, mempool, committed, used>>

LedgerNext ==
  \/ \E p \in Clients : \E tx \in Tx : Endorse(p, tx)
  \/ \E p \in Clients : \E tx \in Tx : Refuse(p, tx)
  \/ \E p \in Clients : PeerUnreachable(p)
  \/ \E e \in mempool : Commit(e)
  \/ \E e \in mempool : Discard(e)
  \/ \E p \in Clients : StatusTimeout(p)
  \/ \E p \in Clients : Return(p)
  \/ ClientsCrash

LedgerSpec == LedgerInit /\ [][LedgerNext]_ledgerVars

-----------------------------------------------------------------------------
CallStates == {"idle", "waiting", "committed", "failed"}

\* Every pending entry was drawn and is not committed, and carries one read
\* version per key its transaction reads.
LedgerTypeOK ==
  /\ TypeOK
  /\ version \in [Keys -> TxIDs \cup {Genesis}]
  /\ committed \subseteq used
  /\ used \subseteq TxIDs
  /\ call \in [Clients -> [st : CallStates, id : TxIDs \cup {Genesis}]]
  /\ \A e \in mempool :
       /\ e.id \in used \ committed
       /\ e.tx \in Tx
       /\ e.reads \in [ReadKeys(e.tx) -> committed \cup {Genesis}]

\* A transaction ID is drawn once and commits at most once: the endorsed
\* transactions have IDs of their own, none of them committed, and every
\* version in force or read is that of a committed transaction.
UniqueTransactions ==
  /\ \A e, f \in mempool : e.id = f.id => e = f
  /\ \A k \in Keys : version[k] \in committed \cup {Genesis}

\* An endorsed transaction whose reads are still current would be endorsed
\* again, with the same write.  This is what makes the version check enough.
EndorsementStillHolds ==
  \A e \in mempool :
    Current(e) => Accepts(world, e.tx) /\ e.write = Written(world, e.tx)

\* Concurrent calls, timeouts and late commits included, the world state
\* changes only as if the accepted transactions ran one at a time: the
\* network implements the contract, so a revoked credential stays revoked
\* however the calls of several clerks overlap.
SerializedCommits == Spec

\* What chainSubmit's comment claims: an error means nothing was written.
ErrorWroteNothing ==
  \A p \in Clients : call[p].st = "failed" => call[p].id \notin committed
=============================================================================
