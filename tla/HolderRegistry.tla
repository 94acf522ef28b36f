--------------------------- MODULE HolderRegistry ---------------------------
(***************************************************************************)
(* How a person comes to be a holder: the setup script registers them on   *)
(* the chain and in MySQL, their wallets make key pairs and bind them, and *)
(* after a reset of the ledger bootstrap replays MySQL to the chain.       *)
(*                                                                         *)
(* The ledger is the contract of QChaincode without credentials.  A call   *)
(* that fails may have left a transaction behind that commits afterwards   *)
(* (FabricLedger): it is in late.  A pair stands for the ML-KEM and ML-DSA *)
(* keys, which are made, stored and bound together.                        *)
(***************************************************************************)
EXTENDS QChaincode, FiniteSets, FiniteSetsExt

CONSTANTS
  Persons,    \* Emirates IDs
  Devices,    \* phones with the wallet
  OwnerOf,    \* whose phone it is
  NoDevice,   \* the client of a request has gone
  Requests,   \* registerHolderKeys requests that the backend serves at once
  MaxRuns,    \* bound: runs of bootstrap
  MaxWipes,   \* bound: wallets that are reinstalled
  MaxPosts,   \* bound: key registrations that wallets post
  MaxLate     \* bound: transactions left behind at a time

ASSUME HolderIDsAssumption == HolderIDs \subseteq Nat \ {0} /\ CredIDs = {}
ASSUME OwnerOfAssumption == OwnerOf \in [Devices -> Persons] /\ NoDevice \notin Devices

VARIABLES
  names,      \* the name on a holder's chain record
  rows,       \* MySQL holders; a row has the chain's identifier
  holderSeq,  \* the backend's counter of holder IDs
  server,     \* serving requests, or running bootstrap with it stopped
  reg,        \* the setup script's request
  bind,       \* requests to bind keys
  wallet,     \* phones: what is stored, and where onboarding stands
  minted,     \* key pairs made so far
  late,       \* transactions whose calls failed and that may yet commit
  runs,       \* runs of bootstrap so far, re-runs after failures left out
  posts,      \* key registrations posted so far
  everBound,  \* ghost: pairs that have ever been bound for a holder
  lost        \* ghost: pairs lost with a reinstalled wallet

backend  == <<rows, holderSeq, server>>
requests == <<reg, bind>>
counts   == <<runs, posts>>
registryVars ==
  <<world, names, backend, requests, wallet, minted, late, counts, everBound, lost>>

Nobody == "nobody"
NoRow  == [person |-> Nobody]
Idle   == [pc |-> "idle"]

Seeds == {id \in HolderIDs : rows[id] # NoRow}
RowsOf(p) == {id \in Seeds : rows[id].person = p}

RegisterTx(id)   == [fn |-> "registerHolder", key |-> id, admissible |-> TRUE]
BindTx(id, keys) == [fn |-> "bindHolderKeys", key |-> id, keys |-> keys, admissible |-> TRUE]

\* The ghost field stale says that keys were bound for the holder since the
\* wallet asked whether there are any.
Registration(p, id)       == [tx |-> RegisterTx(id), person |-> p]
Binding(id, keys, stale)  == [tx |-> BindTx(id, keys), stale |-> stale]

Registering == {Registration(r.person, r.id) : r \in {x \in {reg} : x.pc = "submit"}}
BindingOf(b) == Binding(bind[b].id, bind[b].keys, bind[b].stale)
InFlight ==
  Registering \cup {BindingOf(b) : b \in {x \in Requests : bind[x].pc = "submit"}}

\* Calls fail: their transactions may be left behind, or were never endorsed.
LeftBehind(E) ==
  \E F \in SUBSET E : Cardinality(late \cup F) <= MaxLate /\ late' = late \cup F

NewWallet == [pc |-> "start", keys |-> NoKeys, public |-> FALSE,
              hand |-> NoKeys, stale |-> FALSE]

-----------------------------------------------------------------------------
RegistryInit ==
  /\ Init
  /\ names = [id \in HolderIDs |-> Nobody]
  /\ rows = [id \in HolderIDs |-> NoRow]
  /\ holderSeq = 0
  /\ server = [mode |-> "serving"]
  /\ reg = Idle
  /\ bind = [b \in Requests |-> Idle]
  /\ wallet = [d \in Devices |-> NewWallet]
  /\ minted = {} /\ late = {}
  /\ runs = 0 /\ posts = 0
  /\ everBound = {} /\ lost = {}

Serving == server.mode = "serving"

\* The contract registers the holder under the name.
Registers(p, id) ==
  /\ Execute(RegisterTx(id))
  /\ names' = [names EXCEPT ![id] = p]
  /\ UNCHANGED everBound

\* The contract binds the pair.
Binds(id, keys) ==
  /\ Execute(BindTx(id, keys))
  /\ everBound' = everBound \cup {<<id, keys>>}
  /\ UNCHANGED names

\* Everyone who asked before a pair was bound for id is behind.
Behind(e, id) == IF e.tx.fn = "bindHolderKeys" /\ e.tx.key = id
                 THEN [e EXCEPT !.stale = TRUE] ELSE e
WalletsBehind(id) ==
  [d \in Devices |->
     IF wallet[d].pc \in {"public", "post"} /\ id \in RowsOf(OwnerOf[d])
     THEN [wallet[d] EXCEPT !.stale = TRUE] ELSE wallet[d]]
RequestsBehind(id) ==
  [b \in Requests |->
     IF bind[b].pc = "submit" /\ bind[b].id = id
     THEN [bind[b] EXCEPT !.stale = TRUE] ELSE bind[b]]

-----------------------------------------------------------------------------
(* handleRegisterHolder. *)

StartRegister(p) ==
  /\ Serving
  /\ reg = Idle
  /\ holderSeq + 1 \in HolderIDs
  /\ holderSeq' = holderSeq + 1
  /\ reg' = [pc |-> "submit", person |-> p, id |-> holderSeq + 1]
  /\ UNCHANGED <<world, names, rows, server, bind, wallet, minted, late, counts,
                 everBound, lost>>

RegisterCommits ==
  /\ reg.pc = "submit"
  /\ Registers(reg.person, reg.id)
  /\ reg' = [reg EXCEPT !.pc = "insert"]
  /\ UNCHANGED <<backend, bind, wallet, minted, late, counts, lost>>

\* The handler answers with the error.  (Mutant: it logs it and goes on.)
AfterRegisterErrorMutant(r) == [r EXCEPT !.pc = "insert"]
AfterRegisterError(r) == Idle

\* The contract throws, the peer is out of reach, or the call times out.
RegisterFails ==
  /\ reg.pc = "submit"
  /\ LeftBehind(Registering)
  /\ reg' = AfterRegisterError(reg)
  /\ UNCHANGED <<world, names, backend, bind, wallet, minted, counts, everBound, lost>>

\* (Mutant: the columns of the keys are left out.)
NewRowMutant(p) == [person |-> p]
NewRow(p) == [person |-> p, keys |-> NoKeys]

\* insertHolder: holder_id and emirates_id are unique, and an error is logged.
InsertHolder ==
  /\ reg.pc = "insert"
  /\ rows' = IF rows[reg.id] = NoRow /\ RowsOf(reg.person) = {}
             THEN [rows EXCEPT ![reg.id] = NewRow(reg.person)]
             ELSE rows
  /\ reg' = Idle
  /\ UNCHANGED <<world, names, holderSeq, server, bind, wallet, minted, late, counts,
                 everBound, lost>>

InsertHolderFails ==
  /\ reg.pc = "insert"
  /\ reg' = Idle
  /\ UNCHANGED <<world, names, backend, bind, wallet, minted, late, counts, everBound, lost>>

-----------------------------------------------------------------------------
(* Onboarding in the wallet. *)

WalletGoes(d, to) ==
  /\ wallet' = [wallet EXCEPT ![d] = to]
  /\ UNCHANGED <<world, names, backend, reg, late, runs, everBound>>

Restarted(w) == [w EXCEPT !.pc = "start", !.hand = NoKeys, !.stale = FALSE]

\* handleCheckKeys: what the chain has for the holder, and nothing for an Emirates
\* ID that is unknown.  A holder whom MySQL knows and the chain does not is an error.
BoundFor(p) == {world[id].WalletKeys : id \in RowsOf(p)}
CheckKeys(d) ==
  /\ Serving
  /\ wallet[d].pc = "start"
  /\ \A id \in RowsOf(OwnerOf[d]) : IsHolder(world, id)

\* Keys that are bound are never replaced: with its own pair bound the wallet has
\* nothing to do, and with another one it stops.  (Mutant: it does not compare.)
NoneBoundMutant(p) == TRUE
NoneBound(p) == BoundFor(p) \subseteq {NoKeys}

\* No keys bound and a pair on the phone: it is registered once more.
ReuseKeys(d) ==
  /\ CheckKeys(d)
  /\ NoneBound(OwnerOf[d])
  /\ wallet[d].keys # NoKeys /\ wallet[d].public
  /\ WalletGoes(d, [wallet[d] EXCEPT !.pc = "post", !.hand = wallet[d].keys])
  /\ UNCHANGED <<bind, minted, posts, lost>>

\* What secure storage holds after a write of k, which is read back and compared.
\* (Mutant: the check is missing, and the keychain has truncated the value.)
StoredMutant(old, k) == old
Stored(old, k) == k

\* No keys on either side: a pair is made, and its private keys are stored first.
GenerateKeys(d) ==
  /\ CheckKeys(d)
  /\ NoneBound(OwnerOf[d])
  /\ wallet[d].keys = NoKeys
  /\ \E k \in WalletKeys \ minted :
       /\ minted' = minted \cup {k}
       /\ WalletGoes(d, [wallet[d] EXCEPT !.pc = "public", !.keys = Stored(@, k), !.hand = k])
  /\ UNCHANGED <<bind, posts, lost>>

StorePublicKeys(d) ==
  /\ wallet[d].pc = "public"
  /\ WalletGoes(d, [wallet[d] EXCEPT !.pc = "post", !.public = TRUE])
  /\ UNCHANGED <<bind, minted, posts, lost>>

PostKeys(d, b, id) ==
  /\ Serving
  /\ wallet[d].pc = "post"
  /\ bind[b] = Idle
  /\ posts < MaxPosts
  /\ id \in RowsOf(OwnerOf[d])
  /\ posts' = posts + 1
  /\ bind' = [bind EXCEPT ![b] = [pc |-> "submit", id |-> id, keys |-> wallet[d].hand,
                                  stale |-> wallet[d].stale, device |-> d]]
  /\ WalletGoes(d, [Restarted(wallet[d]) EXCEPT !.pc = "posted"])
  /\ UNCHANGED <<minted, lost>>

Deserted(d) == [b \in Requests |->
  IF bind[b] # Idle /\ bind[b].device = d THEN [bind[b] EXCEPT !.device = NoDevice] ELSE bind[b]]

\* Onboarding is over: keys on both sides agree, or it stops with an error (they
\* do not match, a half is missing, no answer for 15 seconds), or the application
\* is closed.
StopOnboarding(d) ==
  /\ wallet[d].pc # "start"
  /\ WalletGoes(d, Restarted(wallet[d]))
  /\ bind' = Deserted(d)
  /\ UNCHANGED <<minted, posts, lost>>

Reinstall(d) ==
  /\ wallet[d].keys # NoKeys
  /\ Cardinality(lost) < MaxWipes
  /\ lost' = lost \cup {<<d, wallet[d].keys>>}
  /\ WalletGoes(d, NewWallet)
  /\ bind' = Deserted(d)
  /\ UNCHANGED <<minted, posts>>

-----------------------------------------------------------------------------
(* handleRegisterHolderKeys, after holderByEmiratesID. *)

\* With whatever answer onboarding is over; after an error it may be retried.
Answer(d) ==
  wallet' = IF d = NoDevice THEN wallet ELSE [wallet EXCEPT ![d] = Restarted(@)]

BindCommits(b) ==
  /\ bind[b].pc = "submit"
  /\ Binds(bind[b].id, bind[b].keys)
  /\ bind' = [RequestsBehind(bind[b].id) EXCEPT ![b] = [bind[b] EXCEPT !.pc = "cache"]]
  /\ wallet' = WalletsBehind(bind[b].id)
  /\ late' = {Behind(e, bind[b].id) : e \in late}
  /\ UNCHANGED <<backend, reg, minted, counts, lost>>

\* (Mutant: the keys are cached whatever the chain says.)
AfterBindErrorMutant(r) == [r EXCEPT !.pc = "cache"]
AfterBindError(r) == Idle

BindFails(b) ==
  /\ bind[b].pc = "submit"
  /\ LeftBehind({BindingOf(b)})
  /\ bind' = [bind EXCEPT ![b] = AfterBindError(bind[b])]
  /\ Answer(bind[b].device)
  /\ UNCHANGED <<world, names, backend, reg, minted, counts, everBound, lost>>

CacheKeys(b) ==
  /\ bind[b].pc = "cache"
  /\ rows' = [rows EXCEPT ![bind[b].id].keys = bind[b].keys]
  /\ bind' = [bind EXCEPT ![b] = Idle]
  /\ Answer(bind[b].device)
  /\ UNCHANGED <<world, names, holderSeq, server, reg, minted, late, counts, everBound, lost>>

\* The error is logged, and the answer is the same.
CacheKeysFails(b) ==
  /\ bind[b].pc = "cache"
  /\ bind' = [bind EXCEPT ![b] = Idle]
  /\ Answer(bind[b].device)
  /\ UNCHANGED <<world, names, backend, reg, minted, late, counts, everBound, lost>>

LateCommits(e) ==
  /\ \/ /\ e.tx.fn = "registerHolder"
        /\ Registers(e.person, e.tx.key)
        /\ late' = late \ {e}
        /\ UNCHANGED <<bind, wallet>>
     \/ /\ e.tx.fn = "bindHolderKeys"
        /\ Binds(e.tx.key, e.tx.keys)
        /\ late' = {Behind(f, e.tx.key) : f \in late \ {e}}
        /\ bind' = RequestsBehind(e.tx.key)
        /\ wallet' = WalletsBehind(e.tx.key)
  /\ UNCHANGED <<backend, reg, minted, counts, lost>>

-----------------------------------------------------------------------------
(* Restarts, ledger resets and bootstrap. *)

\* initDB: an error of the seeding query is dropped.
Seeded == holderSeq' \in {0, Max(Seeds \cup {0})}

Interrupted ==
  /\ reg' = Idle
  /\ bind' = [b \in Requests |-> Idle]

Stopped == Interrupted /\ holderSeq' = 0

\* Bootstrap starts with the rows of MySQL; fresh says the ledger is empty.
Bootstrapping(fresh) ==
  [mode |-> "bootstrap", todo |-> Seeds, failed |-> FALSE, fresh |-> fresh]

BackendRestarts ==
  /\ Serving
  /\ Interrupted
  /\ Seeded
  /\ LeftBehind(InFlight)
  /\ UNCHANGED <<world, names, rows, server, wallet, minted, counts, everBound, lost>>

RunBootstrap ==
  /\ Serving
  /\ runs < MaxRuns
  /\ runs' = runs + 1
  /\ Stopped
  /\ server' = Bootstrapping(FALSE)
  /\ LeftBehind(InFlight)
  /\ UNCHANGED <<world, names, rows, wallet, minted, posts, everBound, lost>>

\* A new, empty ledger; the transactions of the old one are gone with it.
ResetLedger ==
  /\ Serving
  /\ runs < MaxRuns
  /\ runs' = runs + 1
  /\ Stopped
  /\ world' = [k \in Keys |-> NoRecord]
  /\ names' = [id \in HolderIDs |-> Nobody]
  /\ wallet' = [d \in Devices |-> [wallet[d] EXCEPT !.stale = FALSE]]
  /\ server' = Bootstrapping(TRUE)
  /\ late' = {}
  /\ UNCHANGED <<rows, minted, posts, everBound, lost>>

\* Which rows are left when id has been registered.  (Mutant: registering it
\* finishes the row.)
AfterRegisterMutant(todo, id) == todo \ {id}
AfterRegister(todo, id) == todo

BootRegister(id) ==
  /\ Registers(rows[id].person, id)
  /\ server' = [server EXCEPT !.todo = AfterRegister(@, id)]
  /\ UNCHANGED <<bind, wallet, late>>

BootBind(id) ==
  /\ IsHolder(world, id)
  /\ rows[id].keys \notin {NoKeys, world[id].WalletKeys}
  /\ Binds(id, rows[id].keys)
  /\ server' = [server EXCEPT !.todo = @ \ {id}]
  /\ late' = {Behind(e, id) : e \in late}
  /\ bind' = RequestsBehind(id)
  /\ wallet' = WalletsBehind(id)

BootSkip(id) ==
  /\ IsHolder(world, id)
  /\ rows[id].keys \in {NoKeys, world[id].WalletKeys}
  /\ server' = [server EXCEPT !.todo = @ \ {id}]
  /\ UNCHANGED <<world, names, everBound, bind, wallet, late>>

\* Its transaction too may commit late, and it binds over other keys knowingly.
BootFails(id) ==
  /\ LeftBehind(IF ~IsHolder(world, id) THEN {Registration(rows[id].person, id)}
                ELSE IF rows[id].keys = NoKeys THEN {}
                ELSE {Binding(id, rows[id].keys, TRUE)})
  /\ server' = [server EXCEPT !.todo = @ \ {id}, !.failed = TRUE]
  /\ UNCHANGED <<world, names, everBound, bind, wallet>>

BootstrapStep ==
  /\ ~Serving
  /\ \E id \in server.todo : BootRegister(id) \/ BootBind(id) \/ BootSkip(id) \/ BootFails(id)
  /\ UNCHANGED <<rows, holderSeq, reg, minted, counts, lost>>

\* "fix the errors above and re-run": the server starts after a clean run.
BootstrapEnds ==
  /\ ~Serving
  /\ server.todo = {}
  /\ IF server.failed
     THEN server' = [server EXCEPT !.todo = Seeds, !.failed = FALSE] /\ UNCHANGED holderSeq
     ELSE server' = [mode |-> "serving"] /\ Seeded
  /\ UNCHANGED <<world, names, rows, requests, wallet, minted, late, counts, everBound, lost>>

-----------------------------------------------------------------------------
RegisterStep ==
  \/ \E p \in Persons : StartRegister(p)
  \/ RegisterCommits
  \/ RegisterFails
  \/ InsertHolder
  \/ InsertHolderFails

WalletStep(d) ==
  \/ ReuseKeys(d)
  \/ GenerateKeys(d)
  \/ StorePublicKeys(d)
  \/ \E b \in Requests, id \in HolderIDs : PostKeys(d, b, id)
  \/ StopOnboarding(d)
  \/ Reinstall(d)

BindStep(b) ==
  \/ BindCommits(b)
  \/ BindFails(b)
  \/ CacheKeys(b)
  \/ CacheKeysFails(b)

RegistryNext ==
  \/ RegisterStep
  \/ \E d \in Devices : WalletStep(d)
  \/ \E b \in Requests : BindStep(b)
  \/ \E e \in late : LateCommits(e)
  \/ BackendRestarts
  \/ RunBootstrap
  \/ ResetLedger
  \/ BootstrapStep
  \/ BootstrapEnds

RegistrySpec == RegistryInit /\ [][RegistryNext]_registryVars

-----------------------------------------------------------------------------
RegistryTypeOK ==
  /\ TypeOK
  /\ \A id \in Seeds : rows[id] \in [person : Persons, keys : WalletKeys \cup {NoKeys}]
  /\ holderSeq \in Nat
  /\ \A d \in Devices :
       wallet[d] \in [pc : {"start", "public", "post", "posted"},
                      keys : minted \cup {NoKeys}, public : BOOLEAN,
                      hand : WalletKeys \cup {NoKeys}, stale : BOOLEAN]
  /\ ~Serving => server.todo \subseteq Seeds

\* A row of MySQL leads to the chain record of the same person, whatever became
\* of calls, rows and the counter's seed: an identifier that is drawn twice is
\* refused by the chain before it gets a row.  And "the chain is the source of
\* truth for holder keys, so it is written first": MySQL caches no pair that was
\* never bound on the chain for that holder, and so bootstrap invents none.
RowsNameTheirHolder ==
  \A id \in Seeds :
    /\ IsHolder(world, id) => names[id] = rows[id].person
    /\ rows[id].keys # NoKeys => <<id, rows[id].keys>> \in everBound

\* An envelope is sealed to the pair that is bound when the credential is issued.
\* Its private keys are, or were until a reinstallation, on a phone of the
\* holder: no wallet, killed at any point, registers what it has not stored.
BoundKeysAreHeld ==
  \A bk \in everBound :
    \E d \in Devices :
      /\ rows[bk[1]] # NoRow /\ rows[bk[1]].person = OwnerOf[d]
      /\ wallet[d].keys = bk[2] \/ <<d, bk[2]>> \in lost

\* onboard_3_screen.dart: new keys "would overwrite the server pub and orphan
\* already-issued envelopes".  Bound keys are replaced only by a wallet which
\* had asked before they were bound (two phones, or a late commit), or by
\* bootstrap with the pair that MySQL has.
OverwritesNeedOverlap ==
  [][\A id \in HolderIDs :
       Bound(world, id) /\ Bound(world', id) /\ world'[id] # world[id]
         => \/ \E e \in InFlight \cup late :
                 /\ e.tx.fn = "bindHolderKeys" /\ e.tx.key = id /\ e.stale
                 /\ e.tx.keys = world'[id].WalletKeys
            \/ ~Serving /\ rows[id].keys = world'[id].WalletKeys]_registryVars

\* bootstrap.go: it "re-creates holders on a freshly reset ledger".  After a run
\* without failures every row has its holder on the new ledger, with the pair
\* that MySQL had, though earlier runs were cut short and committed late.
BootstrapRestores ==
  (~Serving /\ server.fresh /\ server.todo = {} /\ ~server.failed)
    => \A id \in Seeds :
         /\ IsHolder(world, id) /\ names[id] = rows[id].person
         /\ world[id].WalletKeys = rows[id].keys
=============================================================================
