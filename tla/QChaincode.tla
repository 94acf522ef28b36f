----------------------------- MODULE QChaincode -----------------------------
(***************************************************************************)
(* The chaincode contract: the world state and the seven transactions that *)
(* write it.  A transaction is a record of its arguments; the contract     *)
(* either throws (the transaction is not accepted and nothing is written)  *)
(* or puts exactly one record under the key the transaction names.  This   *)
(* module runs each accepted transaction as one atomic step; FabricLedger  *)
(* runs the same contract the way a Fabric network does.                   *)
(*                                                                         *)
(* Abstractions.  A body stands for the credential's issue-time fields     *)
(* (type, issuedAt, issuerOrgID, CID, field hashes).  A CredentialHash is  *)
(* the commitment it was computed over, and so is a Signature with its     *)
(* PublicKey: either is good exactly when that commitment is the record's. *)
(* The contract does not compare the two.                                  *)
(* A wallet key pair stands for the ML-KEM and ML-DSA keys bound together. *)
(* "admissible" says whether the caller holds the issuer role and the      *)
(* arguments pass the _require checks.                                     *)
(***************************************************************************)
EXTENDS Naturals

CONSTANTS
  HolderIDs,   \* identifiers the backend mints for holders (H-0001, ...)
  CredIDs,     \* CRED-<transaction id>
  WalletKeys,  \* public key pairs of wallets
  NoKeys,      \* a holder that has bound none
  Bodies,      \* issue-time contents of credentials
  Expiries     \* expiry dates, "" among them

ASSUME KeySpacesAssumption == HolderIDs \cap CredIDs = {}
ASSUME NoKeysAssumption == NoKeys \notin WalletKeys

Keys == HolderIDs \cup CredIDs

NoRecord == [DocType |-> "none"]

Commitments == [Holder : HolderIDs, Body : Bodies, ExpiryDate : Expiries]
Signings    == [CredentialHash : Commitments, Signature : Commitments]

StampNames == {"SuspendedAt", "RestoredAt", "RevokedAt", "ExpiryUpdatedAt"}

HolderRecords == [DocType : {"holder"}, WalletKeys : WalletKeys \cup {NoKeys}]

CredentialRecords ==
  [DocType    : {"credential"},
   Holder     : HolderIDs,
   Body       : Bodies,
   ExpiryDate : Expiries,
   Signed     : Signings,
   Status     : {"active", "suspended", "revoked"},
   Stamps     : SUBSET StampNames]

Records == {NoRecord} \cup HolderRecords \cup CredentialRecords

HolderTx ==
  [fn : {"registerHolder"}, key : HolderIDs, admissible : BOOLEAN]
    \cup [fn : {"bindHolderKeys"}, key : HolderIDs, keys : WalletKeys, admissible : BOOLEAN]

IssueTx ==
  [fn : {"issueCredential"}, key : CredIDs, holder : HolderIDs, body : Bodies,
   expiry : Expiries, signed : Signings, admissible : BOOLEAN]

UpdateTx ==
  [fn : {"updateExpiry"}, key : CredIDs, expiry : Expiries, signed : Signings,
   admissible : BOOLEAN]

StatusTx ==
  [fn : {"revokeCredential", "suspendCredential", "restoreCredential"},
   key : CredIDs, admissible : BOOLEAN]

Tx == HolderTx \cup IssueTx \cup UpdateTx \cup StatusTx

\* What the issuer must have signed for a credential record.
CommitmentOf(r) ==
  [Holder |-> r.Holder, Body |-> r.Body, ExpiryDate |-> r.ExpiryDate]

SignCommitment(commitment) == [CredentialHash |-> commitment, Signature |-> commitment]

(***************************************************************************)
(* The contract as functions of the world state w.                         *)
(***************************************************************************)
IsHolder(w, k)     == w[k].DocType = "holder"
IsCredential(w, k) == w[k].DocType = "credential"
Bound(w, h)        == IsHolder(w, h) /\ w[h].WalletKeys # NoKeys

\* registerHolder refuses any record under the identifier.  (Mutant: it only
\* checks that the identifier is not a credential's.)
UnregisteredMutant(w, k) == ~IsCredential(w, k)
Unregistered(w, k)       == w[k] = NoRecord

\* Mutants: the status test of updateExpiry is missing; restoreCredential
\* refuses only the credentials that are active already.
UpdatableMutant(w, c)  == IsCredential(w, c)
RestorableMutant(w, c) == IsCredential(w, c) /\ w[c].Status # "active"

Updatable(w, c)   == IsCredential(w, c) /\ w[c].Status # "revoked"
Revocable(w, c)   == IsCredential(w, c) /\ w[c].Status # "revoked"
Suspendable(w, c) == IsCredential(w, c) /\ w[c].Status = "active"
Restorable(w, c)  == IsCredential(w, c) /\ w[c].Status = "suspended"

\* The transaction does not throw.
Accepts(w, tx) ==
  /\ tx.admissible
  /\ \/ tx.fn = "registerHolder"    /\ Unregistered(w, tx.key)
     \/ tx.fn = "bindHolderKeys"    /\ IsHolder(w, tx.key)
     \/ tx.fn = "issueCredential"   /\ Bound(w, tx.holder) /\ w[tx.key] = NoRecord
     \/ tx.fn = "updateExpiry"      /\ Updatable(w, tx.key)
     \/ tx.fn = "revokeCredential"  /\ Revocable(w, tx.key)
     \/ tx.fn = "suspendCredential" /\ Suspendable(w, tx.key)
     \/ tx.fn = "restoreCredential" /\ Restorable(w, tx.key)

NewHolder == [DocType |-> "holder", WalletKeys |-> NoKeys]

\* Mutant: the status is initialised to a word no other function tests for.
NewCredentialMutant(tx) ==
  [DocType |-> "credential", Holder |-> tx.holder, Body |-> tx.body,
   ExpiryDate |-> tx.expiry, Signed |-> tx.signed, Status |-> "valid", Stamps |-> {}]

NewCredential(tx) ==
  [DocType    |-> "credential",
   Holder     |-> tx.holder,
   Body       |-> tx.body,
   ExpiryDate |-> tx.expiry,
   Signed     |-> tx.signed,
   Status     |-> "active",
   Stamps     |-> {}]

WithKeys(r, tx) == [r EXCEPT !.WalletKeys = tx.keys]

WithExpiry(r, tx) ==
  [r EXCEPT !.ExpiryDate = tx.expiry,
            !.Signed     = tx.signed,
            !.Stamps     = @ \cup {"ExpiryUpdatedAt"}]

AsRevoked(r) ==
  [r EXCEPT !.Status = "revoked", !.Stamps = @ \cup {"RevokedAt"}]

AsSuspended(r) ==
  [r EXCEPT !.Status = "suspended", !.Stamps = @ \cup {"SuspendedAt"}]

\* Mutant: the suspension stamps are not deleted.
AsRestoredMutant(r) ==
  [r EXCEPT !.Status = "active", !.Stamps = @ \cup {"RestoredAt"}]

AsRestored(r) ==
  [r EXCEPT !.Status = "active",
            !.Stamps = (@ \ {"SuspendedAt"}) \cup {"RestoredAt"}]

\* The record the transaction puts under tx.key.
Written(w, tx) ==
  CASE tx.fn = "registerHolder"    -> NewHolder
    [] tx.fn = "bindHolderKeys"    -> WithKeys(w[tx.key], tx)
    [] tx.fn = "issueCredential"   -> NewCredential(tx)
    [] tx.fn = "updateExpiry"      -> WithExpiry(w[tx.key], tx)
    [] tx.fn = "revokeCredential"  -> AsRevoked(w[tx.key])
    [] tx.fn = "suspendCredential" -> AsSuspended(w[tx.key])
    [] tx.fn = "restoreCredential" -> AsRestored(w[tx.key])

\* The keys the transaction reads (getState), and so the keys its outcome
\* depends on.  (Mutant: the record of a credential that exists is taken from
\* the contract's memory.)
ReadKeysMutant(tx) ==
  IF tx.fn = "issueCredential" THEN {tx.key, tx.holder} ELSE {}
ReadKeys(tx) ==
  IF tx.fn = "issueCredential" THEN {tx.key, tx.holder} ELSE {tx.key}

-----------------------------------------------------------------------------
VARIABLE world

Init == world = [k \in Keys |-> NoRecord]

Execute(tx) ==
  /\ Accepts(world, tx)
  /\ world' = [world EXCEPT ![tx.key] = Written(world, tx)]

RegisterHolder    == \E tx \in HolderTx : tx.fn = "registerHolder" /\ Execute(tx)
BindHolderKeys    == \E tx \in HolderTx : tx.fn = "bindHolderKeys" /\ Execute(tx)
IssueCredential   == \E tx \in IssueTx  : Execute(tx)
UpdateExpiry      == \E tx \in UpdateTx : Execute(tx)
RevokeCredential  == \E tx \in StatusTx : tx.fn = "revokeCredential" /\ Execute(tx)
SuspendCredential == \E tx \in StatusTx : tx.fn = "suspendCredential" /\ Execute(tx)
RestoreCredential == \E tx \in StatusTx : tx.fn = "restoreCredential" /\ Execute(tx)

Next ==
  \/ RegisterHolder
  \/ BindHolderKeys
  \/ IssueCredential
  \/ UpdateExpiry
  \/ RevokeCredential
  \/ SuspendCredential
  \/ RestoreCredential

Spec == Init /\ [][Next]_world

-----------------------------------------------------------------------------
\* Holder identifiers hold holder records and credential identifiers hold
\* credential records (the DocType field written by every put).
TypeOK ==
  /\ world \in [Keys -> Records]
  /\ \A h \in HolderIDs : world[h] \in {NoRecord} \cup HolderRecords
  /\ \A c \in CredIDs : world[c] \in {NoRecord} \cup CredentialRecords

\* A credential's holder is registered and has bound keys, whatever is
\* registered or rebound after it was issued: registerHolder refuses a known
\* holder because it would wipe the bound keys.
CredentialHolderBound ==
  \A c \in CredIDs : IsCredential(world, c) => Bound(world, world[c].Holder)

\* The timestamps a record shows agree with its status through any sequence
\* of suspend, restore, update and revoke: RevokedAt exactly on a revoked
\* record, SuspendedAt on a suspended one and never on an active one.
StampsAgree(r) ==
  /\ "RevokedAt" \in r.Stamps <=> r.Status = "revoked"
  /\ r.Status = "suspended" => "SuspendedAt" \in r.Stamps
  /\ r.Status = "active" => "SuspendedAt" \notin r.Stamps

StampsMatchStatus ==
  \A c \in CredIDs : IsCredential(world, c) => StampsAgree(world[c])

\* Revocation is permanent, and a revoked record is frozen: no transaction
\* changes any part of it again, its expiry and signature included.
RevokedIsFrozen ==
  [][\A c \in CredIDs :
       (IsCredential(world, c) /\ world[c].Status = "revoked")
         => world'[c] = world[c]]_world

StatusOf(r) == IF r.DocType = "credential" THEN r.Status ELSE "absent"
lifeStatus == [c \in CredIDs |-> StatusOf(world[c])]

Lifecycle == INSTANCE CredentialLifecycle WITH status <- lifeStatus

\* Every behaviour of the contract is a legal life of its credentials: they
\* are issued once, suspended and restored in turn, and revoked for good.
ImplementsLifecycle == Lifecycle!Spec
=============================================================================
