------------------------ MODULE HolderRegistryProofs ------------------------
(***************************************************************************)
(* Who is a holder and whose keys are bound, for every number of persons,  *)
(* phones, key pairs, requests and runs of bootstrap, with calls that fail *)
(* and commit late.                                                        *)
(***************************************************************************)
EXTENDS HolderRegistry, QChaincodeProofs, FiniteSetTheorems

-----------------------------------------------------------------------------
(* The inductive invariant. *)

FullRows == [person : Persons, keys : WalletKeys \cup {NoKeys}]

Posts == [pc : {"submit", "cache"}, id : HolderIDs, keys : WalletKeys, stale : BOOLEAN,
          device : Devices \cup {NoDevice}]

WalletStates == [pc : {"start", "public", "post", "posted"}, keys : WalletKeys \cup {NoKeys},
                 public : BOOLEAN, hand : WalletKeys \cup {NoKeys}, stale : BOOLEAN]

Registrations == [tx : [fn : {"registerHolder"}, key : HolderIDs, admissible : {TRUE}],
                  person : Persons]
Bindings == [tx : [fn : {"bindHolderKeys"}, key : HolderIDs, keys : WalletKeys,
                   admissible : {TRUE}],
             stale : BOOLEAN]

BootStates == [mode : {"bootstrap"}, todo : SUBSET HolderIDs, failed : BOOLEAN,
               fresh : BOOLEAN]

Typed ==
  /\ TypeOK
  /\ names \in [HolderIDs -> Persons \cup {Nobody}]
  /\ rows \in [HolderIDs -> {NoRow} \cup FullRows]
  /\ IsFiniteSet(Seeds) /\ holderSeq \in Nat
  /\ server \in {[mode |-> "serving"]} \cup BootStates
  /\ reg \in {Idle} \cup [pc : {"submit", "insert"}, person : Persons, id : HolderIDs]
  /\ bind \in [Requests -> {Idle} \cup Posts]
  /\ wallet \in [Devices -> WalletStates]
  /\ minted \subseteq WalletKeys
  /\ late \subseteq Registrations \cup Bindings
  /\ everBound \subseteq HolderIDs \X WalletKeys

\* Who has a row is on the chain, until the ledger is reset and bootstrap has
\* come to the row.
OnChain ==
  \A id \in Seeds :
    Serving \/ (~server.failed /\ id \notin server.todo) => IsHolder(world, id)

\* A registration that may still reach the chain is that of the person whose
\* row the identifier leads to.
RegistrationsFit ==
  /\ reg.pc = "insert" => IsHolder(world, reg.id) /\ names[reg.id] = reg.person
  /\ \A id \in Seeds :
       IF IsHolder(world, id) THEN names[id] = rows[id].person
       ELSE /\ reg.pc = "submit" /\ reg.id = id => reg.person = rows[id].person
            /\ \A e \in late \cap Registrations :
                 e.tx.key = id => e.person = rows[id].person

\* The pair k is, or was until a reinstallation, on a phone of the holder id.
Held(id, k) ==
  \E d \in Devices :
    /\ rows[id] # NoRow /\ rows[id].person = OwnerOf[d]
    /\ wallet[d].keys = k \/ <<d, k>> \in lost

\* A wallet keeps no pair that was not made.
Minted == \A d \in Devices : wallet[d].keys \in minted \cup {NoKeys}

\* What a wallet is about to post it has stored.
InHand ==
  \A d \in Devices : wallet[d].pc \in {"public", "post"} =>
    wallet[d].keys # NoKeys /\ wallet[d].hand = wallet[d].keys

\* Every pair on its way to the chain, bound or cached is held.
KeysHeld ==
  /\ \A bk \in everBound : Held(bk[1], bk[2])
  /\ \A b \in Requests : bind[b] # Idle =>
       /\ Held(bind[b].id, bind[b].keys)
       /\ bind[b].pc = "cache" => <<bind[b].id, bind[b].keys>> \in everBound
  /\ \A e \in late \cap Bindings : Held(e.tx.key, e.tx.keys)
  /\ \A id \in Seeds : rows[id].keys # NoKeys => <<id, rows[id].keys>> \in everBound
  /\ \A id \in HolderIDs : Bound(world, id) => <<id, world[id].WalletKeys>> \in everBound

\* Who is not behind has asked since keys were bound last: none are.
UnlessStale ==
  /\ \A b \in Requests : bind[b].pc = "submit" /\ ~bind[b].stale => ~Bound(world, bind[b].id)
  /\ \A e \in late \cap Bindings : ~e.stale => ~Bound(world, e.tx.key)
  /\ \A d \in Devices : wallet[d].pc \in {"public", "post"} /\ ~wallet[d].stale =>
       \A id \in RowsOf(OwnerOf[d]) : ~Bound(world, id)

\* On a new ledger bootstrap binds what MySQL has, and so does what it has left
\* behind.
Restoring ==
  ~Serving /\ server.fresh =>
    /\ \A e \in late \cap Bindings : e.tx.keys = rows[e.tx.key].keys
    /\ \A id \in Seeds : IsHolder(world, id) =>
         /\ world[id].WalletKeys \in {NoKeys, rows[id].keys}
         /\ ~server.failed /\ id \notin server.todo =>
              world[id].WalletKeys = rows[id].keys

\* Bootstrap runs with the server stopped, over rows of MySQL.
Quiet ==
  ~Serving => /\ reg = Idle /\ \A b \in Requests : bind[b] = Idle
              /\ server.todo \subseteq Seeds

RegistryInv ==
  /\ Typed /\ Quiet /\ OnChain /\ RegistrationsFit
  /\ Minted /\ InHand /\ KeysHeld /\ UnlessStale /\ Restoring

-----------------------------------------------------------------------------
(* A finite set of naturals has a largest. *)

LEMMA FiniteSetHasMax ==
  ASSUME NEW S \in SUBSET Nat, IsFiniteSet(S), S # {}
  PROVE  Max(S) \in S /\ \A y \in S : Max(S) >= y
<1> DEFINE HasMax(A) == \E m \in A : \A y \in A : m >= y
           T == {A \in SUBSET S : A # {} /\ ~HasMax(A)}
<1>1. T = {}
  <2> SUFFICES ASSUME T # {} PROVE FALSE
    OBVIOUS
  <2>1. IsWellFoundedOn(StrictSubsetOrdering(S), SUBSET S)
    BY FS_StrictSubsetOrderingWellFounded, FS_FiniteSubsetsOfFinite
  <2>2. T \subseteq SUBSET S
    OBVIOUS
  <2> HIDE DEF T
  <2>3. PICK A \in T : \A B \in T : <<B, A>> \notin StrictSubsetOrdering(S)
    BY <2>1, <2>2, WFMin
  <2> USE DEF T
  <2>4. PICK x \in A : TRUE
    OBVIOUS
  <2> DEFINE B == A \ {x}
  <2>5. <<B, A>> \in StrictSubsetOrdering(S)
    BY <2>4 DEF StrictSubsetOrdering
  <2>6. B = {} \/ HasMax(B)
    BY <2>3, <2>5
  <2>7. CASE B = {}
    BY <2>4, <2>7
  <2>8. CASE HasMax(B)
    <3>1. PICK m \in B : \A y \in B : m >= y
      BY <2>8
    <3>2. m \in Nat /\ x \in Nat
      BY <2>4, <3>1
    <3>3. CASE m >= x
      BY <2>4, <3>1, <3>2, <3>3
    <3>4. CASE x >= m
      BY <2>4, <3>1, <3>2, <3>4
    <3> QED
      BY <3>2, <3>3, <3>4
  <2> QED
    BY <2>6, <2>7, <2>8
<1>2. HasMax(S)
  BY <1>1
<1> QED
  BY <1>2 DEF Max

-----------------------------------------------------------------------------
(* What the contract does with holders. *)

LEMMA RegisterOnChain ==
  ASSUME Typed, NEW p \in Persons, NEW id \in HolderIDs, Registers(p, id)
  PROVE  /\ TypeOK' /\ names' \in [HolderIDs -> Persons \cup {Nobody}]
         /\ world[id] = NoRecord /\ world'[id] = NewHolder
         /\ names'[id] = p /\ everBound' = everBound
         /\ \A j \in HolderIDs \ {id} : world'[j] = world[j] /\ names'[j] = names[j]
<1> DEFINE tx == RegisterTx(id)
<1>1. tx \in Tx /\ Execute(tx)
  BY DEF RegisterTx, Registers, Tx, HolderTx
<1>2. TypeOK'
  BY <1>1, TypePreserved DEF Typed
<1>3. world' = [world EXCEPT ![id] = NewHolder] /\ world[id] = NoRecord
  BY <1>1 DEF RegisterTx, Execute, Accepts, Written, Unregistered
<1>4. names' = [names EXCEPT ![id] = p] /\ everBound' = everBound
  BY DEF Registers
<1>5. \A j \in HolderIDs : j \in DOMAIN world
  BY DEF Typed, TypeOK, Keys
<1> QED
  BY <1>2, <1>3, <1>4, <1>5 DEF Typed

LEMMA BindOnChain ==
  ASSUME Typed, NEW id \in HolderIDs, NEW k \in WalletKeys, Binds(id, k)
  PROVE  /\ TypeOK' /\ names' = names
         /\ IsHolder(world, id) /\ IsHolder(world', id) /\ world'[id].WalletKeys = k
         /\ everBound' = everBound \cup {<<id, k>>}
         /\ everBound' \subseteq HolderIDs \X WalletKeys
         /\ \A j \in HolderIDs \ {id} : world'[j] = world[j]
<1> DEFINE tx == BindTx(id, k)
<1>1. tx \in Tx /\ Execute(tx)
  BY DEF BindTx, Binds, Tx, HolderTx
<1>2. TypeOK'
  BY <1>1, TypePreserved DEF Typed
<1>3. world' = [world EXCEPT ![id] = Written(world, tx)] /\ IsHolder(world, id)
  BY <1>1 DEF BindTx, Execute, Accepts
<1>4. \A j \in HolderIDs : j \in DOMAIN world
  BY DEF Typed, TypeOK, Keys
<1>5. world[id] \in HolderRecords
  BY <1>3 DEF Typed, TypeOK, IsHolder, NoRecord
<1>6. Written(world, tx) = [world[id] EXCEPT !.WalletKeys = k]
  BY DEF BindTx, Written, WithKeys
<1>7. world'[id] = [world[id] EXCEPT !.WalletKeys = k]
  BY <1>3, <1>4, <1>6
<1>8. IsHolder(world', id) /\ world'[id].WalletKeys = k
  BY <1>5, <1>7 DEF HolderRecords, IsHolder
<1>9. everBound' = everBound \cup {<<id, k>>} /\ names' = names
  BY DEF Binds
<1>10. \A j \in HolderIDs \ {id} : world'[j] = world[j]
  BY <1>3, <1>4
<1> QED
  BY <1>2, <1>3, <1>8, <1>9, <1>10 DEF Typed

-----------------------------------------------------------------------------
(* Types. *)

LEMMA ModeIsServing ==
  ASSUME Typed
  PROVE  /\ Serving => server = [mode |-> "serving"]
         /\ ~Serving => server \in BootStates
BY DEF Typed, Serving, BootStates

LEMMA BehindTyped ==
  ASSUME NEW E \in SUBSET (Registrations \cup Bindings), NEW id
  PROVE  {Behind(e, id) : e \in E} \subseteq Registrations \cup Bindings
<1> SUFFICES ASSUME NEW e \in E PROVE Behind(e, id) \in Registrations \cup Bindings
  OBVIOUS
<1>1. CASE e \in Registrations
  BY <1>1 DEF Registrations, Behind
<1>2. CASE e \in Bindings
  BY <1>2 DEF Bindings, Behind
<1> QED
  BY <1>1, <1>2

LEMMA WalletsBehindTyped ==
  ASSUME Typed, NEW id PROVE WalletsBehind(id) \in [Devices -> WalletStates]
BY ZenonT(40) DEF Typed, WalletsBehind, WalletStates

LEMMA RequestsBehindTyped ==
  ASSUME Typed, NEW id PROVE RequestsBehind(id) \in [Requests -> {Idle} \cup Posts]
<1> SUFFICES ASSUME NEW b \in Requests, bind[b].pc = "submit"
             PROVE  [bind[b] EXCEPT !.stale = TRUE] \in Posts
  BY DEF Typed, RequestsBehind
<1>1. bind[b] \in Posts
  BY DEF Typed, Idle
<1> QED
  BY <1>1 DEF Posts

LEMMA InFlightTyped ==
  ASSUME Typed PROVE InFlight \subseteq Registrations \cup Bindings
<1>1. Registering \subseteq Registrations
  <2> SUFFICES ASSUME reg.pc = "submit" PROVE Registration(reg.person, reg.id) \in Registrations
    BY DEF Registering
  <2>1. reg \in [pc : {"submit", "insert"}, person : Persons, id : HolderIDs]
    BY DEF Typed, Idle
  <2> QED
    BY <2>1 DEF Registration, RegisterTx, Registrations
<1>2. ASSUME NEW b \in Requests, bind[b].pc = "submit" PROVE BindingOf(b) \in Bindings
  <2>1. bind[b] \in Posts
    BY <1>2 DEF Typed, Idle
  <2> QED
    BY <2>1 DEF Posts, BindingOf, Binding, BindTx, Bindings
<1> QED
  BY <1>1, <1>2 DEF InFlight

LEMMA LeftBehindTyped ==
  ASSUME Typed, NEW E \in SUBSET (Registrations \cup Bindings), LeftBehind(E)
  PROVE  /\ late' \subseteq Registrations \cup Bindings
         /\ late \subseteq late' /\ late' \subseteq late \cup E
BY DEF Typed, LeftBehind

LEMMA SeededTyped ==
  ASSUME Typed, Seeded PROVE holderSeq' \in Nat
<1> DEFINE S == Seeds \cup {0}
<1>1. S \in SUBSET Nat
  <2>1. Seeds \subseteq HolderIDs
    BY DEF Seeds
  <2> QED
    BY <2>1, HolderIDsAssumption
<1>2. IsFiniteSet(S)
  BY FS_AddElement DEF Typed
<1>3. Max(S) \in Nat
  <2> HIDE DEF S
  <2>1. S # {}
    BY DEF S
  <2> QED
    BY <1>1, <1>2, <2>1, FiniteSetHasMax
<1> QED
  BY <1>3 DEF Seeded

\* Answers of requests, and what else onboarding does to a wallet.
LEMMA AnswerTyped ==
  ASSUME Typed, NEW d \in Devices \cup {NoDevice}, Answer(d)
  PROVE  /\ wallet' \in [Devices -> WalletStates]
         /\ \A e \in Devices : wallet'[e].keys = wallet[e].keys
                              /\ (wallet'[e] = wallet[e] \/ wallet'[e].pc = "start")
<1>1. CASE d = NoDevice
  BY <1>1 DEF Answer, Typed
<1>2. CASE d # NoDevice
  BY ZenonT(40), <1>2, NoKeysAssumption DEF Answer, Typed, Restarted, WalletStates
<1> QED
  BY <1>1, <1>2

LEMMA DesertedTyped ==
  ASSUME Typed, NEW d \in Devices
  PROVE  /\ Deserted(d) \in [Requests -> {Idle} \cup Posts]
         /\ \A b \in Requests :
              \/ Deserted(d)[b] = bind[b]
              \/ /\ bind[b] # Idle
                 /\ Deserted(d)[b].pc = bind[b].pc /\ Deserted(d)[b].id = bind[b].id
                 /\ Deserted(d)[b].keys = bind[b].keys /\ Deserted(d)[b].stale = bind[b].stale
<1> SUFFICES ASSUME NEW b \in Requests, bind[b] # Idle
             PROVE  LET c == [bind[b] EXCEPT !.device = NoDevice]
                    IN  /\ c \in Posts
                        /\ c.pc = bind[b].pc /\ c.id = bind[b].id
                        /\ c.keys = bind[b].keys /\ c.stale = bind[b].stale
  BY DEF Typed, Deserted
<1>1. bind[b] \in Posts
  BY DEF Typed
<1> QED
  BY <1>1 DEF Posts

\* The types of what bootstrap has to do.
LEMMA BootTyped ==
  ASSUME Typed, ~Serving
  PROVE  /\ server.todo \subseteq HolderIDs
         /\ server.failed \in BOOLEAN /\ server.fresh \in BOOLEAN
         /\ \A T \in SUBSET HolderIDs :
              /\ [server EXCEPT !.todo = T] \in BootStates
              /\ [server EXCEPT !.todo = T, !.failed = TRUE] \in BootStates
              /\ [server EXCEPT !.todo = T, !.failed = FALSE] \in BootStates
              /\ [server EXCEPT !.todo = T].todo = T
              /\ [server EXCEPT !.todo = T].failed = server.failed
              /\ [server EXCEPT !.todo = T].fresh = server.fresh
              /\ [server EXCEPT !.todo = T].mode = "bootstrap"
              /\ [server EXCEPT !.todo = T, !.failed = TRUE].todo = T
              /\ [server EXCEPT !.todo = T, !.failed = TRUE].failed
              /\ [server EXCEPT !.todo = T, !.failed = TRUE].fresh = server.fresh
              /\ [server EXCEPT !.todo = T, !.failed = TRUE].mode = "bootstrap"
              /\ [server EXCEPT !.todo = T, !.failed = FALSE].todo = T
              /\ ~[server EXCEPT !.todo = T, !.failed = FALSE].failed
              /\ [server EXCEPT !.todo = T, !.failed = FALSE].fresh = server.fresh
              /\ [server EXCEPT !.todo = T, !.failed = FALSE].mode = "bootstrap"
<1>1. server \in BootStates
  BY ModeIsServing
<1> QED
  BY <1>1 DEF BootStates

\* A row that is inserted or given keys.
LEMMA RowsTyped ==
  ASSUME Typed, NEW id \in HolderIDs, NEW r \in FullRows, rows' = [rows EXCEPT ![id] = r]
  PROVE  /\ rows' \in [HolderIDs -> {NoRow} \cup FullRows]
         /\ Seeds' = Seeds \cup {id} /\ IsFiniteSet(Seeds')
         /\ rows'[id] = r
         /\ \A j \in HolderIDs \ {id} : rows'[j] = rows[j]
<1>1. rows' \in [HolderIDs -> {NoRow} \cup FullRows]
  BY DEF Typed
<1>2. rows'[id] = r /\ \A j \in HolderIDs \ {id} : rows'[j] = rows[j]
  BY DEF Typed
<1>3. r # NoRow
  <2>1. r.person \in Persons /\ DOMAIN r = {"person", "keys"}
    BY DEF FullRows
  <2>2. DOMAIN NoRow = {"person"}
    BY DEF NoRow
  <2> QED
    BY <2>1, <2>2
<1>4. Seeds' = Seeds \cup {id}
  BY <1>2, <1>3 DEF Seeds
<1> QED
  BY <1>1, <1>2, <1>4, FS_AddElement DEF Typed

\* A request that binds keys, step by step.
LEMMA PostTyped ==
  ASSUME Typed, NEW b \in Requests, bind[b] # Idle
  PROVE  /\ bind[b] \in Posts /\ bind[b].id \in HolderIDs /\ bind[b].keys \in WalletKeys
         /\ bind[b].device \in Devices \cup {NoDevice}
         /\ [bind[b] EXCEPT !.pc = "cache"] \in Posts
<1>1. bind[b] \in Posts
  BY DEF Typed
<1> QED
  BY <1>1 DEF Posts

LEMMA RegTyped ==
  ASSUME Typed, reg # Idle
  PROVE  /\ reg.person \in Persons /\ reg.id \in HolderIDs
         /\ [reg EXCEPT !.pc = "insert"] \in [pc : {"submit", "insert"}, person : Persons, id : HolderIDs]
         /\ [reg EXCEPT !.pc = "insert"].id = reg.id
         /\ [reg EXCEPT !.pc = "insert"].person = reg.person
         /\ [reg EXCEPT !.pc = "insert"].pc = "insert"
BY DEF Typed

\* The parts of Typed that an action may change.
LEMMA TypedRegister ==
  ASSUME Typed, RegisterStep PROVE Typed'
<1> USE DEF Typed, Idle
<1>1. ASSUME NEW p \in Persons, StartRegister(p) PROVE Typed'
  <2>1. holderSeq' \in Nat
    BY <1>1 DEF StartRegister
  <2>2. reg' \in [pc : {"submit", "insert"}, person : Persons, id : HolderIDs]
    BY <1>1 DEF StartRegister
  <2>3. Seeds' = Seeds /\ TypeOK'
    BY <1>1 DEF StartRegister, Seeds, TypeOK, IsHolder
  <2> QED
    BY <1>1, <2>1, <2>2, <2>3 DEF StartRegister
<1>2. ASSUME RegisterCommits PROVE Typed'
  <2>1. reg.person \in Persons /\ reg.id \in HolderIDs
    BY <1>2, RegTyped DEF RegisterCommits
  <2>2. TypeOK' /\ names' \in [HolderIDs -> Persons \cup {Nobody}] /\ everBound' = everBound
    BY <1>2, <2>1, RegisterOnChain DEF RegisterCommits
  <2>3. Seeds' = Seeds
    BY <1>2 DEF RegisterCommits, backend, Seeds
  <2>4. reg' \in [pc : {"submit", "insert"}, person : Persons, id : HolderIDs]
    BY <1>2, RegTyped DEF RegisterCommits
  <2> QED
    BY <1>2, <2>2, <2>3, <2>4 DEF RegisterCommits, backend
<1>3. ASSUME RegisterFails PROVE Typed'
  <2>1. late' \subseteq Registrations \cup Bindings
    <3>1. Registering \subseteq InFlight
      BY DEF InFlight
    <3> QED
      BY <1>3, <3>1, InFlightTyped, LeftBehindTyped DEF RegisterFails
  <2>2. Seeds' = Seeds /\ TypeOK'
    BY <1>3 DEF RegisterFails, backend, Seeds, TypeOK
  <2> QED
    BY <1>3, <2>1, <2>2 DEF RegisterFails, AfterRegisterError, backend
<1>4. ASSUME InsertHolder PROVE Typed'
  <2>1. reg.person \in Persons /\ reg.id \in HolderIDs
    BY <1>4, RegTyped DEF InsertHolder
  <2>2. NewRow(reg.person) \in FullRows
    BY <2>1 DEF NewRow, FullRows
  <2>3. rows' \in [HolderIDs -> {NoRow} \cup FullRows] /\ IsFiniteSet(Seeds')
    <3>1. CASE rows' = rows
      BY <3>1 DEF Seeds
    <3>2. CASE rows' = [rows EXCEPT ![reg.id] = NewRow(reg.person)]
      BY <3>2, <2>1, <2>2, RowsTyped
    <3> QED
      BY <1>4, <3>1, <3>2 DEF InsertHolder
  <2>4. TypeOK'
    BY <1>4 DEF InsertHolder, TypeOK
  <2> QED
    BY <1>4, <2>3, <2>4 DEF InsertHolder, counts
<1>5. ASSUME InsertHolderFails PROVE Typed'
  BY <1>5 DEF InsertHolderFails, backend, TypeOK, Seeds
<1> QED
  BY <1>1, <1>2, <1>3, <1>4, <1>5 DEF RegisterStep

LEMMA TypedWallet ==
  ASSUME Typed, InHand, NEW d \in Devices, WalletStep(d) PROVE  Typed'
<1>0. wallet[d] \in WalletStates
  BY DEF Typed
<1>a. ASSUME NEW to \in WalletStates, WalletGoes(d, to), minted' \subseteq WalletKeys,
             bind' \in [Requests -> {Idle} \cup Posts]
      PROVE  Typed'
  BY <1>a DEF Typed, WalletGoes, backend, TypeOK, Seeds
<1>1. ASSUME ReuseKeys(d) PROVE Typed'
  <2>1. [wallet[d] EXCEPT !.pc = "post", !.hand = wallet[d].keys] \in WalletStates
    BY <1>0 DEF WalletStates
  <2> QED
    BY <1>1, <1>a, <2>1 DEF ReuseKeys, Typed
<1>2. ASSUME GenerateKeys(d) PROVE Typed'
  <2>1. PICK k \in WalletKeys : /\ minted' = minted \cup {k}
                                /\ WalletGoes(d, [wallet[d] EXCEPT !.pc = "public", !.keys = k, !.hand = k])
    BY <1>2 DEF GenerateKeys, Stored
  <2>2. [wallet[d] EXCEPT !.pc = "public", !.keys = k, !.hand = k] \in WalletStates
    BY <1>0 DEF WalletStates
  <2> QED
    BY <1>2, <1>a, <2>1, <2>2 DEF GenerateKeys, Typed
<1>3. ASSUME StorePublicKeys(d) PROVE Typed'
  <2>1. [wallet[d] EXCEPT !.pc = "post", !.public = TRUE] \in WalletStates
    BY <1>0 DEF WalletStates
  <2> QED
    BY <1>3, <1>a, <2>1 DEF StorePublicKeys, Typed
<1>4. ASSUME NEW b \in Requests, NEW id \in HolderIDs, PostKeys(d, b, id) PROVE Typed'
  <2>0. wallet[d].hand \in WalletKeys
    BY <1>0, <1>4 DEF InHand, PostKeys, WalletStates
  <2>1. [Restarted(wallet[d]) EXCEPT !.pc = "posted"] \in WalletStates
    BY <1>0, NoKeysAssumption DEF WalletStates, Restarted
  <2>2. [pc |-> "submit", id |-> id, keys |-> wallet[d].hand, stale |-> wallet[d].stale,
         device |-> d] \in Posts
    BY <1>0, <2>0 DEF WalletStates, Posts
  <2>3. bind' \in [Requests -> {Idle} \cup Posts]
    BY <1>4, <2>2 DEF PostKeys, Typed
  <2> QED
    BY <1>4, <1>a, <2>1, <2>3 DEF PostKeys, Typed
<1>5. ASSUME StopOnboarding(d) PROVE Typed'
  <2>1. Restarted(wallet[d]) \in WalletStates
    BY <1>0 DEF WalletStates, Restarted
  <2> QED
    BY <1>5, <1>a, <2>1, DesertedTyped DEF StopOnboarding, Typed
<1>6. ASSUME Reinstall(d) PROVE Typed'
  <2>1. NewWallet \in WalletStates
    BY DEF WalletStates, NewWallet
  <2> QED
    BY <1>6, <1>a, <2>1, DesertedTyped DEF Reinstall, Typed
<1> QED
  BY <1>1, <1>2, <1>3, <1>4, <1>5, <1>6 DEF WalletStep

LEMMA TypedBind ==
  ASSUME Typed, KeysHeld, NEW b \in Requests, BindStep(b) PROVE Typed'
<1>1. ASSUME BindCommits(b) PROVE Typed'
  <2>1. bind[b].id \in HolderIDs /\ bind[b].keys \in WalletKeys
        /\ [bind[b] EXCEPT !.pc = "cache"] \in Posts
    BY <1>1, PostTyped DEF BindCommits, Idle
  <2>2. /\ TypeOK' /\ names' = names
        /\ everBound' \subseteq HolderIDs \X WalletKeys
    BY <1>1, <2>1, BindOnChain DEF BindCommits
  <2>3. bind' \in [Requests -> {Idle} \cup Posts] /\ wallet' \in [Devices -> WalletStates]
    BY <1>1, <2>1, RequestsBehindTyped, WalletsBehindTyped DEF BindCommits
  <2>4. late' \subseteq Registrations \cup Bindings
    BY <1>1, BehindTyped DEF BindCommits, Typed
  <2> QED
    BY <1>1, <2>2, <2>3, <2>4 DEF BindCommits, Typed, backend, Seeds
<1>2. ASSUME BindFails(b) PROVE Typed'
  <2>1. late' \subseteq Registrations \cup Bindings
    <3>1. {BindingOf(b)} \subseteq InFlight
      BY <1>2 DEF InFlight, BindFails
    <3> QED
      BY <1>2, <3>1, InFlightTyped, LeftBehindTyped DEF BindFails
  <2>0. bind[b] # Idle
    BY <1>2 DEF BindFails, Idle
  <2>2. wallet' \in [Devices -> WalletStates]
    BY <1>2, <2>0, PostTyped, AnswerTyped DEF BindFails
  <2>3. bind' \in [Requests -> {Idle} \cup Posts]
    BY <1>2 DEF BindFails, AfterBindError, Typed
  <2> QED
    BY <1>2, <2>1, <2>2, <2>3 DEF BindFails, Typed, backend, Seeds, TypeOK
<1>3. ASSUME CacheKeys(b) PROVE Typed'
  <2>0. bind[b] # Idle
    BY <1>3 DEF CacheKeys, Idle
  <2>1. bind[b].id \in HolderIDs /\ bind[b].keys \in WalletKeys
        /\ wallet' \in [Devices -> WalletStates]
    BY <1>3, <2>0, PostTyped, AnswerTyped DEF CacheKeys
  <2>2. bind' \in [Requests -> {Idle} \cup Posts]
    BY <1>3 DEF CacheKeys, Typed
  <2>3. rows' \in [HolderIDs -> {NoRow} \cup FullRows] /\ IsFiniteSet(Seeds')
    <3>1. rows[bind[b].id] \in FullRows
      BY <2>0, <2>1 DEF KeysHeld, Held, Typed
    <3>2. [rows[bind[b].id] EXCEPT !.keys = bind[b].keys] \in FullRows
      BY <2>1, <3>1 DEF FullRows
    <3> QED
      BY <1>3, <2>1, <3>2, RowsTyped DEF CacheKeys
  <2> QED
    BY <1>3, <2>1, <2>2, <2>3 DEF CacheKeys, Typed, counts, TypeOK
<1>4. ASSUME CacheKeysFails(b) PROVE Typed'
  <2>0. bind[b] # Idle
    BY <1>4 DEF CacheKeysFails, Idle
  <2>1. wallet' \in [Devices -> WalletStates]
    BY <1>4, <2>0, PostTyped, AnswerTyped DEF CacheKeysFails
  <2>2. bind' \in [Requests -> {Idle} \cup Posts]
    BY <1>4 DEF CacheKeysFails, Typed
  <2> QED
    BY <1>4, <2>1, <2>2 DEF CacheKeysFails, Typed, backend, Seeds, TypeOK
<1> QED
  BY <1>1, <1>2, <1>3, <1>4 DEF BindStep

LEMMA TypedLate ==
  ASSUME Typed, NEW e \in late, LateCommits(e) PROVE Typed'
<1>1. late \subseteq Registrations \cup Bindings
  BY DEF Typed
<1>2. rows' = rows /\ Seeds' = Seeds
  BY DEF LateCommits, backend, Seeds
<1>3. CASE e \in Registrations
  <2>1. e.person \in Persons /\ e.tx.key \in HolderIDs
    BY <1>3 DEF Registrations
  <2>2. Registers(e.person, e.tx.key) /\ late' = late \ {e} /\ UNCHANGED <<bind, wallet>>
    BY <1>3 DEF Registrations, LateCommits
  <2>3. TypeOK' /\ names' \in [HolderIDs -> Persons \cup {Nobody}] /\ everBound' = everBound
    BY <2>1, <2>2, RegisterOnChain
  <2> QED
    BY <1>2, <2>2, <2>3 DEF LateCommits, Typed, backend
<1>4. CASE e \in Bindings
  <2>1. e.tx.keys \in WalletKeys /\ e.tx.key \in HolderIDs
    BY <1>4 DEF Bindings
  <2>2. /\ Binds(e.tx.key, e.tx.keys)
        /\ late' = {Behind(f, e.tx.key) : f \in late \ {e}}
        /\ bind' = RequestsBehind(e.tx.key)
        /\ wallet' = WalletsBehind(e.tx.key)
    BY <1>4 DEF Bindings, LateCommits
  <2>3. /\ TypeOK' /\ names' = names
        /\ everBound' \subseteq HolderIDs \X WalletKeys
    BY <2>1, <2>2, BindOnChain
  <2>4. late' \subseteq Registrations \cup Bindings
    BY <1>1, <2>2, BehindTyped
  <2>5. bind' \in [Requests -> {Idle} \cup Posts] /\ wallet' \in [Devices -> WalletStates]
    BY <2>2, RequestsBehindTyped, WalletsBehindTyped
  <2> QED
    BY <1>2, <2>3, <2>4, <2>5 DEF LateCommits, Typed, backend
<1> QED
  BY <1>1, <1>3, <1>4

LEMMA TypedRestart ==
  ASSUME Typed, BackendRestarts \/ RunBootstrap \/ ResetLedger \/ BootstrapEnds
  PROVE  Typed'
<1>1. rows' = rows /\ Seeds' = Seeds
  BY DEF BackendRestarts, RunBootstrap, ResetLedger, BootstrapEnds, Seeds
<1>2. Interrupted => reg' = Idle /\ bind' \in [Requests -> {Idle} \cup Posts]
  BY DEF Interrupted
<1>3. LeftBehind(InFlight) => late' \subseteq Registrations \cup Bindings
  BY InFlightTyped, LeftBehindTyped
<1>4. \A f \in BOOLEAN : Bootstrapping(f) \in BootStates
  BY DEF Bootstrapping, BootStates, Seeds
<1>5. CASE BackendRestarts
  <2>1. holderSeq' \in Nat
    BY <1>5, SeededTyped DEF BackendRestarts
  <2> QED
    BY <1>1, <1>2, <1>3, <1>5, <2>1 DEF BackendRestarts, Typed, TypeOK
<1>6. CASE RunBootstrap
  BY <1>1, <1>2, <1>3, <1>4, <1>6 DEF RunBootstrap, Stopped, Typed, TypeOK
<1>7. CASE ResetLedger
  <2>1. TypeOK' /\ names' \in [HolderIDs -> Persons \cup {Nobody}]
    BY <1>7 DEF ResetLedger, TypeOK, Records, Keys
  <2>2. wallet' \in [Devices -> WalletStates]
    BY <1>7 DEF ResetLedger, Typed, WalletStates
  <2> QED
    BY <1>1, <1>2, <1>4, <1>7, <2>1, <2>2 DEF ResetLedger, Stopped, Typed
<1>8. CASE BootstrapEnds
  <2>1. holderSeq' \in Nat
    BY <1>8, SeededTyped DEF BootstrapEnds, Typed
  <2>2. Seeds \subseteq HolderIDs
    BY DEF Seeds
  <2>3. server' \in {[mode |-> "serving"]} \cup BootStates
    BY <1>8, <2>2, BootTyped DEF BootstrapEnds
  <2> QED
    BY <1>1, <1>8, <2>1, <2>3 DEF BootstrapEnds, Typed, requests, TypeOK
<1> QED
  BY <1>5, <1>6, <1>7, <1>8

\* A row that bootstrap has to do.
LEMMA RowToDo ==
  ASSUME Typed, Quiet, ~Serving, NEW id \in server.todo
  PROVE  /\ id \in HolderIDs /\ id \in Seeds /\ rows[id] \in FullRows
         /\ rows[id].person \in Persons /\ rows[id].keys \in WalletKeys \cup {NoKeys}
<1>1. id \in HolderIDs /\ id \in Seeds
  BY DEF Quiet, Seeds
<1>2. rows[id] \in FullRows
  BY <1>1 DEF Typed, Seeds
<1> QED
  BY <1>1, <1>2 DEF FullRows

LEMMA TypedBootstrap ==
  ASSUME Typed, Quiet, BootstrapStep PROVE Typed'
<1>1. PICK id \in server.todo : BootRegister(id) \/ BootBind(id) \/ BootSkip(id) \/ BootFails(id)
  BY DEF BootstrapStep
<1>2. /\ id \in HolderIDs /\ rows[id].person \in Persons
      /\ rows[id].keys \in WalletKeys \cup {NoKeys}
  BY RowToDo DEF BootstrapStep
<1>3. rows' = rows /\ Seeds' = Seeds
  BY DEF BootstrapStep, Seeds
<1>4. server' \in BootStates
  <2>1. server.todo \in SUBSET HolderIDs /\ server.todo \ {id} \in SUBSET HolderIDs
    BY BootTyped DEF BootstrapStep
  <2>2. \/ server' = [server EXCEPT !.todo = server.todo]
        \/ server' = [server EXCEPT !.todo = server.todo \ {id}]
        \/ server' = [server EXCEPT !.todo = server.todo \ {id}, !.failed = TRUE]
    BY <1>1 DEF BootRegister, BootBind, BootSkip, BootFails, AfterRegister
  <2>3. ~Serving
    BY DEF BootstrapStep
  <2> QED
    BY ZenonT(40), <2>1, <2>2, <2>3, BootTyped
<1>5. CASE BootRegister(id)
  <2>1. TypeOK' /\ names' \in [HolderIDs -> Persons \cup {Nobody}] /\ everBound' = everBound
    BY <1>2, <1>5, RegisterOnChain DEF BootRegister
  <2> QED
    BY <1>3, <1>4, <1>5, <2>1 DEF BootstrapStep, BootRegister, Typed
<1>6. CASE BootBind(id)
  <2>1. rows[id].keys \in WalletKeys
    BY <1>2, <1>6 DEF BootBind
  <2>2. /\ TypeOK' /\ names' = names
        /\ everBound' \subseteq HolderIDs \X WalletKeys
    BY <1>2, <1>6, <2>1, BindOnChain DEF BootBind
  <2>3. late' \subseteq Registrations \cup Bindings
    BY <1>6, BehindTyped DEF BootBind, Typed
  <2>4. bind' \in [Requests -> {Idle} \cup Posts] /\ wallet' \in [Devices -> WalletStates]
    BY <1>6, RequestsBehindTyped, WalletsBehindTyped DEF BootBind
  <2> QED
    BY <1>3, <1>4, <2>2, <2>3, <2>4 DEF BootstrapStep, Typed
<1>7. CASE BootSkip(id)
  BY <1>3, <1>4, <1>7 DEF BootstrapStep, BootSkip, Typed, TypeOK
<1>8. CASE BootFails(id)
  <2> DEFINE E == IF ~IsHolder(world, id) THEN {Registration(rows[id].person, id)}
                  ELSE IF rows[id].keys = NoKeys THEN {}
                  ELSE {Binding(id, rows[id].keys, TRUE)}
  <2>1. E \subseteq Registrations \cup Bindings
    <3>1. Registration(rows[id].person, id) \in Registrations
      BY <1>2 DEF Registration, RegisterTx, Registrations
    <3>2. rows[id].keys # NoKeys => Binding(id, rows[id].keys, TRUE) \in Bindings
      BY <1>2 DEF Binding, BindTx, Bindings
    <3> QED
      BY <3>1, <3>2
  <2>2. late' \subseteq Registrations \cup Bindings
    BY <1>8, <2>1, LeftBehindTyped DEF BootFails
  <2> QED
    BY <1>3, <1>4, <1>8, <2>2 DEF BootstrapStep, BootFails, Typed, TypeOK
<1> QED
  BY <1>1, <1>5, <1>6, <1>7, <1>8

LEMMA TypedStep ==
  ASSUME RegistryInv, [RegistryNext]_registryVars PROVE Typed'
<1> USE DEF RegistryInv
<1>1. CASE UNCHANGED registryVars
  BY <1>1 DEF registryVars, backend, requests, Typed, TypeOK, Seeds
<1>2. CASE RegistryNext
  BY <1>2, TypedRegister, TypedWallet, TypedBind, TypedLate, TypedRestart, TypedBootstrap
     DEF RegistryNext
<1> QED
  BY <1>1, <1>2

-----------------------------------------------------------------------------
(* What a step may do to the ledger, to the rows and to the server. *)

\* Registrations and bindings that may reach the ledger, and whose they are.
MayRegister(p, id) ==
  \/ reg.pc = "submit" /\ reg.person = p /\ reg.id = id
  \/ \E e \in late \cap Registrations : e.person = p /\ e.tx.key = id
  \/ ~Serving /\ id \in server.todo /\ rows[id].person = p

MayBind(id, k) ==
  \/ \E b \in Requests : bind[b].pc = "submit" /\ bind[b].id = id /\ bind[b].keys = k
  \/ \E e \in late \cap Bindings : e.tx.key = id /\ e.tx.keys = k
  \/ ~Serving /\ id \in server.todo /\ rows[id].keys = k

\* After a binding for id everyone who asked before is behind.
BindStale(id) ==
  /\ \A b \in Requests : bind'[b].pc = "submit" /\ bind'[b].id = id => bind'[b].stale
  /\ \A e \in late' \cap Bindings : e.tx.key = id => e.stale
  /\ wallet' = WalletsBehind(id)
  /\ \A b \in Requests : bind'[b] # Idle =>
       /\ bind[b] # Idle /\ bind'[b].id = bind[b].id /\ bind'[b].keys = bind[b].keys
       /\ bind'[b].pc \in {bind[b].pc, "cache"}
       /\ bind'[b].pc = "cache" /\ bind[b].pc # "cache" =>
            bind[b].id = id /\ <<id, bind[b].keys>> \in everBound'
       /\ ~bind'[b].stale => ~bind[b].stale
  /\ \A e \in late' \cap Bindings : \E f \in late \cap Bindings :
       f.tx = e.tx /\ (~e.stale => ~f.stale)
  /\ late' \cap Registrations \subseteq late

LedgerRegisters ==
  \E p \in Persons, id \in HolderIDs :
    /\ Registers(p, id) /\ MayRegister(p, id)
    /\ late' \subseteq late /\ UNCHANGED <<rows, bind, wallet, lost>>

LedgerBinds ==
  \E id \in HolderIDs, k \in WalletKeys :
    /\ Binds(id, k) /\ MayBind(id, k)
    /\ BindStale(id) /\ UNCHANGED <<rows, reg, lost>>

LedgerStays == UNCHANGED <<world, names, everBound>>

LEMMA BehindStale ==
  ASSUME Typed, NEW E \in SUBSET late, NEW id \in HolderIDs,
         late' = {Behind(e, id) : e \in E}
  PROVE  /\ \A e \in late' \cap Bindings : e.tx.key = id => e.stale
         /\ \A e \in late' \cap Bindings : \E f \in late \cap Bindings :
              f.tx = e.tx /\ (~e.stale => ~f.stale)
         /\ late' \cap Registrations \subseteq late
<1>1. ASSUME NEW e \in E
      PROVE  \/ e \in Registrations /\ Behind(e, id) = e /\ e \notin Bindings
             \/ /\ e \in Bindings /\ Behind(e, id) \in Bindings
                /\ Behind(e, id) \notin Registrations
                /\ Behind(e, id).tx = e.tx
                /\ ~Behind(e, id).stale => ~e.stale
                /\ e.tx.key = id => Behind(e, id).stale
  <2>1. CASE e \in Registrations
    <3>1. e.tx.fn = "registerHolder"
      BY <2>1 DEF Registrations
    <3>2. e \notin Bindings
      BY <3>1 DEF Bindings
    <3> QED
      BY <2>1, <3>1, <3>2 DEF Behind
  <2>2. CASE e \in Bindings
    <3>1. e.tx.fn = "bindHolderKeys" /\ e.stale \in BOOLEAN
      BY <2>2 DEF Bindings
    <3>2. Behind(e, id) \in Bindings /\ Behind(e, id).tx = e.tx
      BY <2>2 DEF Bindings, Behind
    <3>3. e.tx.key = id => Behind(e, id).stale
      BY <2>2, <3>1 DEF Bindings, Behind
    <3>4. e.tx.key # id => Behind(e, id) = e
      BY DEF Behind
    <3>5. Behind(e, id) \notin Registrations
      BY <3>1, <3>2 DEF Registrations
    <3> QED
      BY <2>2, <3>2, <3>3, <3>4, <3>5
  <2> QED
    BY <2>1, <2>2 DEF Typed
<1> QED
  BY <1>1

LEMMA RequestsBehindStale ==
  ASSUME Typed, NEW id \in HolderIDs, NEW b \in Requests
  PROVE  LET c == RequestsBehind(id)[b]
         IN  /\ c.pc = "submit" /\ c.id = id => c.stale
             /\ c # Idle => /\ bind[b] # Idle /\ c.id = bind[b].id /\ c.keys = bind[b].keys
                            /\ c.pc = bind[b].pc /\ (~c.stale => ~bind[b].stale)
<1>1. CASE bind[b] = Idle
  BY <1>1 DEF RequestsBehind, Idle
<1>2. CASE bind[b] # Idle
  <2>1. bind[b] \in Posts
    BY <1>2 DEF Typed
  <2>2. CASE bind[b].pc = "submit" /\ bind[b].id = id
    <3>1. RequestsBehind(id)[b] = [bind[b] EXCEPT !.stale = TRUE]
      BY <2>2 DEF RequestsBehind
    <3> QED
      BY <1>2, <2>1, <3>1 DEF Posts
  <2>3. CASE ~(bind[b].pc = "submit" /\ bind[b].id = id)
    <3>1. RequestsBehind(id)[b] = bind[b]
      BY <2>3 DEF RequestsBehind
    <3> QED
      BY <1>2, <2>3, <3>1
  <2> QED
    BY <2>2, <2>3
<1> QED
  BY <1>1, <1>2

LEMMA LedgerStep ==
  ASSUME RegistryInv, RegistryNext
  PROVE  LedgerStays \/ LedgerRegisters \/ LedgerBinds \/ ResetLedger
<1> USE DEF RegistryInv
<1>1. ASSUME RegisterCommits PROVE LedgerRegisters
  <2>1. reg.person \in Persons /\ reg.id \in HolderIDs
    BY <1>1, RegTyped DEF RegisterCommits, Idle
  <2> QED
    BY <1>1, <2>1 DEF RegisterCommits, LedgerRegisters, MayRegister, backend
<1>2. ASSUME NEW b \in Requests, BindCommits(b) PROVE LedgerBinds
  <2>1. /\ bind[b] # Idle /\ bind[b].id \in HolderIDs /\ bind[b].keys \in WalletKeys
        /\ bind[b] \in Posts
    <3>1. bind[b] # Idle
      BY <1>2 DEF BindCommits, Idle
    <3> QED
      BY <3>1, PostTyped
  <2> DEFINE id == bind[b].id
  <2>2. MayBind(id, bind[b].keys) /\ Binds(id, bind[b].keys)
    BY <1>2 DEF BindCommits, MayBind
  <2>3. /\ bind'[b] = [bind[b] EXCEPT !.pc = "cache"]
        /\ \A c \in Requests \ {b} : bind'[c] = RequestsBehind(id)[c]
    BY <1>2 DEF BindCommits, RequestsBehind
  <2>4. /\ bind'[b].pc = "cache" /\ bind'[b].id = id /\ bind'[b].keys = bind[b].keys
        /\ bind'[b].stale = bind[b].stale
    BY <2>1, <2>3 DEF Posts
  <2>5. <<id, bind[b].keys>> \in everBound'
    BY <2>2 DEF Binds
  <2>6. BindStale(id)
    <3>1. /\ \A e \in late' \cap Bindings : e.tx.key = id => e.stale
          /\ \A e \in late' \cap Bindings : \E f \in late \cap Bindings :
               f.tx = e.tx /\ (~e.stale => ~f.stale)
          /\ late' \cap Registrations \subseteq late
      BY <1>2, <2>1, BehindStale DEF BindCommits
    <3>2. ASSUME NEW c \in Requests
          PROVE  /\ bind'[c].pc = "submit" /\ bind'[c].id = id => bind'[c].stale
                 /\ bind'[c] # Idle =>
                      /\ bind[c] # Idle /\ bind'[c].id = bind[c].id
                      /\ bind'[c].keys = bind[c].keys
                      /\ bind'[c].pc \in {bind[c].pc, "cache"}
                      /\ bind'[c].pc = "cache" /\ bind[c].pc # "cache" =>
                           bind[c].id = id /\ <<id, bind[c].keys>> \in everBound'
                      /\ ~bind'[c].stale => ~bind[c].stale
      <4>1. CASE c = b
        BY <2>1, <2>4, <2>5, <4>1
      <4>2. CASE c # b
        BY <2>1, <2>3, <4>2, RequestsBehindStale
      <4> QED
        BY <4>1, <4>2
    <3> QED
      BY <1>2, <3>1, <3>2 DEF BindStale, BindCommits
  <2> QED
    BY <1>2, <2>1, <2>2, <2>6 DEF LedgerBinds, BindCommits, backend
<1>3. ASSUME NEW id \in HolderIDs, NEW k \in WalletKeys, Binds(id, k), MayBind(id, k),
             NEW E \in SUBSET late, late' = {Behind(e, id) : e \in E},
             bind' = RequestsBehind(id), wallet' = WalletsBehind(id),
             UNCHANGED <<rows, reg, lost>>
      PROVE  LedgerBinds
  <2>1. /\ \A e \in late' \cap Bindings : e.tx.key = id => e.stale
        /\ \A e \in late' \cap Bindings : \E f \in late \cap Bindings :
             f.tx = e.tx /\ (~e.stale => ~f.stale)
        /\ late' \cap Registrations \subseteq late
    BY <1>3, BehindStale
  <2>2. BindStale(id)
    BY <1>3, <2>1, RequestsBehindStale DEF BindStale
  <2> QED
    BY <1>3, <2>2 DEF LedgerBinds
<1>4. ASSUME NEW e \in late, LateCommits(e) PROVE LedgerRegisters \/ LedgerBinds
  <2>1. CASE e \in Registrations
    <3>1. e.person \in Persons /\ e.tx.key \in HolderIDs
      BY <2>1 DEF Registrations
    <3>2. Registers(e.person, e.tx.key) /\ late' = late \ {e} /\ UNCHANGED <<bind, wallet>>
      BY <1>4, <2>1 DEF Registrations, LateCommits
    <3> QED
      BY <1>4, <2>1, <3>1, <3>2 DEF LedgerRegisters, MayRegister, LateCommits, backend
  <2>2. CASE e \in Bindings
    <3>1. e.tx.keys \in WalletKeys /\ e.tx.key \in HolderIDs /\ late \ {e} \in SUBSET late
      BY <2>2 DEF Bindings
    <3>2. /\ Binds(e.tx.key, e.tx.keys)
          /\ late' = {Behind(f, e.tx.key) : f \in late \ {e}}
          /\ bind' = RequestsBehind(e.tx.key)
          /\ wallet' = WalletsBehind(e.tx.key)
      BY <1>4, <2>2 DEF Bindings, LateCommits
    <3>3. MayBind(e.tx.key, e.tx.keys)
      BY <2>2 DEF MayBind
    <3> QED
      BY <1>3, <1>4, <3>1, <3>2, <3>3 DEF LateCommits, backend
  <2> QED
    BY <2>1, <2>2 DEF Typed
<1>5. ASSUME BootstrapStep PROVE LedgerStays \/ LedgerRegisters \/ LedgerBinds
  <2>1. PICK id \in server.todo : BootRegister(id) \/ BootBind(id) \/ BootSkip(id) \/ BootFails(id)
    BY <1>5 DEF BootstrapStep
  <2>2. /\ ~Serving /\ id \in HolderIDs /\ rows[id].person \in Persons
        /\ rows[id].keys \in WalletKeys \cup {NoKeys}
    BY <1>5, RowToDo DEF BootstrapStep
  <2>3. CASE BootRegister(id)
    BY <1>5, <2>2, <2>3 DEF BootRegister, LedgerRegisters, MayRegister, BootstrapStep
  <2>4. CASE BootBind(id)
    <3>1. rows[id].keys \in WalletKeys /\ MayBind(id, rows[id].keys) /\ late \in SUBSET late
      BY <2>2, <2>4 DEF BootBind, MayBind
    <3> QED
      BY <1>3, <1>5, <2>2, <2>4, <3>1 DEF BootBind, BootstrapStep
  <2>5. CASE BootSkip(id) \/ BootFails(id)
    BY <2>5 DEF BootSkip, BootFails, LedgerStays
  <2> QED
    BY <2>1, <2>3, <2>4, <2>5
<1>6. ASSUME NEW d \in Devices, WalletStep(d) PROVE LedgerStays
  BY <1>6 DEF WalletStep, ReuseKeys, GenerateKeys, StorePublicKeys, PostKeys, StopOnboarding,
     Reinstall, WalletGoes, LedgerStays
<1>7. ASSUME NEW b \in Requests, BindStep(b) PROVE LedgerStays \/ LedgerBinds
  BY <1>2, <1>7 DEF BindStep, BindFails, CacheKeys, CacheKeysFails, LedgerStays
<1>8. ASSUME RegisterStep PROVE LedgerStays \/ LedgerRegisters
  BY <1>1, <1>8 DEF RegisterStep, StartRegister, RegisterFails, InsertHolder,
     InsertHolderFails, LedgerStays
<1> QED
  BY <1>4, <1>5, <1>6, <1>7, <1>8
     DEF RegistryNext, BackendRestarts, RunBootstrap, BootstrapEnds, LedgerStays

RowInserted ==
  /\ reg.pc = "insert" /\ rows[reg.id] = NoRow
  /\ rows' = [rows EXCEPT ![reg.id] = NewRow(reg.person)]
  /\ UNCHANGED <<world, names, everBound, server, bind, wallet, late, lost>>

KeysCached ==
  \E b \in Requests :
    /\ bind[b].pc = "cache"
    /\ rows' = [rows EXCEPT ![bind[b].id].keys = bind[b].keys]
    /\ UNCHANGED <<world, names, everBound, server, reg, late, lost>>

LEMMA RowsStep ==
  ASSUME RegistryInv, RegistryNext
  PROVE  /\ rows' = rows \/ RowInserted \/ KeysCached
         /\ \A id \in Seeds : id \in Seeds' /\ rows'[id].person = rows[id].person
         /\ \A id \in Seeds' \ Seeds :
              /\ RowInserted /\ id = reg.id /\ rows'[id].person = reg.person
              /\ rows'[id].keys = NoKeys
         /\ \A id \in Seeds' :
              \/ id \in Seeds /\ rows'[id].keys = rows[id].keys
              \/ rows'[id].keys = NoKeys
              \/ <<id, rows'[id].keys>> \in everBound /\ KeysCached
<1> USE DEF RegistryInv
<1>1. rows' = rows \/ RowInserted \/ KeysCached
  <2>1. RegisterStep => rows' = rows \/ RowInserted
    BY DEF RegisterStep, StartRegister, RegisterCommits, RegisterFails, InsertHolder,
       InsertHolderFails, RowInserted, backend
  <2>2. ASSUME NEW b \in Requests, BindStep(b) PROVE rows' = rows \/ KeysCached
    BY <2>2 DEF BindStep, BindCommits, BindFails, CacheKeys, CacheKeysFails, KeysCached, backend
  <2>3. ASSUME NEW d \in Devices, WalletStep(d) PROVE rows' = rows
    BY <2>3 DEF WalletStep, ReuseKeys, GenerateKeys, StorePublicKeys, PostKeys, StopOnboarding,
       Reinstall, WalletGoes, backend
  <2> QED
    BY <2>1, <2>2, <2>3 DEF RegistryNext, LateCommits, BackendRestarts, RunBootstrap,
       ResetLedger, BootstrapStep, BootstrapEnds, backend
<1>2. CASE rows' = rows
  BY <1>2 DEF Seeds
<1>3. CASE RowInserted
  <2>1. reg.person \in Persons /\ reg.id \in HolderIDs
    BY <1>3, RegTyped DEF RowInserted, Idle
  <2>2. NewRow(reg.person) \in FullRows
    BY <2>1 DEF NewRow, FullRows
  <2>3. NewRow(reg.person).person = reg.person /\ NewRow(reg.person).keys = NoKeys
    BY DEF NewRow
  <2> QED
    BY <1>3, <2>1, <2>2, <2>3, RowsTyped DEF RowInserted, Seeds
<1>4. CASE KeysCached
  <2>1. PICK b \in Requests : /\ bind[b].pc = "cache"
                              /\ rows' = [rows EXCEPT ![bind[b].id].keys = bind[b].keys]
    BY <1>4 DEF KeysCached
  <2>2. bind[b] # Idle
    BY <2>1 DEF Idle
  <2>3. bind[b].id \in HolderIDs /\ bind[b].keys \in WalletKeys
    BY <2>2, PostTyped
  <2>4. <<bind[b].id, bind[b].keys>> \in everBound /\ rows[bind[b].id] # NoRow
    BY <2>1, <2>2 DEF KeysHeld, Held
  <2> DEFINE r == [rows[bind[b].id] EXCEPT !.keys = bind[b].keys]
  <2>5. rows[bind[b].id] \in FullRows
    BY <2>3, <2>4 DEF Typed
  <2>6. r \in FullRows /\ r.person = rows[bind[b].id].person /\ r.keys = bind[b].keys
    BY <2>3, <2>5 DEF FullRows
  <2>7. rows' = [rows EXCEPT ![bind[b].id] = r]
    BY <2>1
  <2>8. /\ Seeds' = Seeds \cup {bind[b].id} /\ rows'[bind[b].id] = r
        /\ \A j \in HolderIDs \ {bind[b].id} : rows'[j] = rows[j]
    <3> HIDE DEF r
    <3> QED
      BY <2>3, <2>6, <2>7, RowsTyped
  <2>9. bind[b].id \in Seeds /\ Seeds \subseteq HolderIDs
    BY <2>3, <2>4 DEF Seeds
  <2> HIDE DEF r
  <2> QED
    BY <1>4, <2>4, <2>6, <2>8, <2>9
<1> QED
  BY <1>1, <1>2, <1>3, <1>4

\* A pair that is made or lost stays with its holder.
LEMMA WalletKeysStep ==
  ASSUME RegistryInv, RegistryNext, NEW d \in Devices
  PROVE  /\ lost \subseteq lost' /\ minted \subseteq minted'
         /\ \/ wallet'[d].keys = wallet[d].keys
            \/ wallet[d].keys = NoKeys /\ wallet'[d].keys \in minted'
            \/ <<d, wallet[d].keys>> \in lost' /\ wallet'[d].keys = NoKeys
<1> USE DEF RegistryInv
<1>0. \A c \in Devices : wallet[c] \in WalletStates
  BY DEF Typed
<1>1. ASSUME NEW c \in Devices, WalletStep(c)
      PROVE  /\ lost \subseteq lost' /\ minted \subseteq minted'
             /\ \/ wallet'[d].keys = wallet[d].keys
                \/ wallet[d].keys = NoKeys /\ wallet'[d].keys \in minted'
                \/ <<d, wallet[d].keys>> \in lost' /\ wallet'[d].keys = NoKeys
  <2>1. wallet'[d] = wallet[d] \/ c = d
    BY <1>1 DEF WalletStep, ReuseKeys, GenerateKeys, StorePublicKeys, PostKeys, StopOnboarding,
       Reinstall, WalletGoes, Typed
  <2>2. lost \subseteq lost' /\ minted \subseteq minted'
    BY <1>1 DEF WalletStep, ReuseKeys, GenerateKeys, StorePublicKeys, PostKeys, StopOnboarding,
       Reinstall
  <2>3. Reinstall(c) => <<c, wallet[c].keys>> \in lost' /\ wallet'[c].keys = NoKeys
    BY DEF Reinstall, WalletGoes, Typed, NewWallet
  <2>4. GenerateKeys(c) => wallet[c].keys = NoKeys /\ wallet'[c].keys \in minted'
    <3> SUFFICES ASSUME GenerateKeys(c)
                 PROVE  wallet[c].keys = NoKeys /\ wallet'[c].keys \in minted'
      OBVIOUS
    <3>1. PICK k \in WalletKeys :
            /\ minted' = minted \cup {k}
            /\ WalletGoes(c, [wallet[c] EXCEPT !.pc = "public", !.keys = k, !.hand = k])
      BY DEF GenerateKeys, Stored
    <3>2. wallet'[c] = [wallet[c] EXCEPT !.pc = "public", !.keys = k, !.hand = k]
      BY <3>1 DEF WalletGoes, Typed
    <3>3. wallet'[c].keys = k
      BY <1>0, <3>2 DEF WalletStates
    <3> QED
      BY <3>1, <3>3 DEF GenerateKeys
  <2>5. ASSUME ReuseKeys(c) \/ StorePublicKeys(c) \/ StopOnboarding(c)
               \/ \E b \in Requests, id \in HolderIDs : PostKeys(c, b, id)
        PROVE  wallet'[c].keys = wallet[c].keys
    <3>1. \A to : WalletGoes(c, to) => wallet'[c] = to
      BY DEF WalletGoes, Typed
    <3>2. /\ [wallet[c] EXCEPT !.pc = "post", !.hand = wallet[c].keys].keys = wallet[c].keys
          /\ [wallet[c] EXCEPT !.pc = "post", !.public = TRUE].keys = wallet[c].keys
          /\ Restarted(wallet[c]).keys = wallet[c].keys
          /\ [Restarted(wallet[c]) EXCEPT !.pc = "posted"].keys = wallet[c].keys
      BY <1>0 DEF Restarted, WalletStates
    <3> QED
      BY <2>5, <3>1, <3>2 DEF ReuseKeys, StorePublicKeys, PostKeys, StopOnboarding
  <2> QED
    BY <1>1, <2>1, <2>2, <2>3, <2>4, <2>5 DEF WalletStep
<1>2. ASSUME NEW id, wallet' = WalletsBehind(id) PROVE wallet'[d].keys = wallet[d].keys
  BY <1>0, <1>2 DEF WalletsBehind, WalletStates
<1>3. ASSUME NEW b \in Requests, BindStep(b)
      PROVE  UNCHANGED <<lost, minted>> /\ wallet'[d].keys = wallet[d].keys
  <2>1. bind[b] # Idle
    BY <1>3 DEF BindStep, BindCommits, BindFails, CacheKeys, CacheKeysFails, Idle
  <2>2. bind[b].device \in Devices \cup {NoDevice}
    BY <2>1, PostTyped
  <2> QED
    BY <1>2, <1>3, <2>2, AnswerTyped
       DEF BindStep, BindCommits, BindFails, CacheKeys, CacheKeysFails
<1>4. ASSUME NEW e \in late, LateCommits(e)
      PROVE  UNCHANGED <<lost, minted>> /\ wallet'[d].keys = wallet[d].keys
  BY <1>2, <1>4 DEF LateCommits
<1>5. ASSUME ResetLedger PROVE UNCHANGED <<lost, minted>> /\ wallet'[d].keys = wallet[d].keys
  BY <1>0, <1>5 DEF ResetLedger, WalletStates
<1>6. ASSUME BootstrapStep PROVE UNCHANGED <<lost, minted>> /\ wallet'[d].keys = wallet[d].keys
  BY <1>2, <1>6 DEF BootstrapStep, BootRegister, BootBind, BootSkip, BootFails
<1>7. ASSUME RegisterStep \/ BackendRestarts \/ RunBootstrap \/ BootstrapEnds
      PROVE UNCHANGED <<lost, minted>> /\ wallet' = wallet
  BY <1>7 DEF RegisterStep, StartRegister, RegisterCommits, RegisterFails, InsertHolder,
     InsertHolderFails, BackendRestarts, RunBootstrap, BootstrapEnds
<1> QED
  BY <1>1, <1>3, <1>4, <1>5, <1>6, <1>7 DEF RegistryNext

LEMMA HeldStep ==
  ASSUME RegistryInv, RegistryNext, NEW id \in HolderIDs, NEW k \in WalletKeys, Held(id, k)
  PROVE  Held(id, k)'
<1>1. PICK d \in Devices : /\ rows[id] # NoRow /\ rows[id].person = OwnerOf[d]
                           /\ wallet[d].keys = k \/ <<d, k>> \in lost
  BY DEF Held
<1>2. rows'[id] # NoRow /\ rows'[id].person = OwnerOf[d]
  BY <1>1, RowsStep DEF Seeds
<1>3. wallet'[d].keys = k \/ <<d, k>> \in lost'
  BY <1>1, WalletKeysStep, NoKeysAssumption
<1> QED
  BY <1>2, <1>3 DEF Held

\* What is left behind was in flight, or is bootstrap's.
LEMMA LateStep ==
  ASSUME RegistryInv, RegistryNext
  PROVE  /\ \A e \in late' \cap Registrations : MayRegister(e.person, e.tx.key)
         /\ \A e \in late' \cap Bindings :
              /\ MayBind(e.tx.key, e.tx.keys)
              /\ ~e.stale =>
                   \/ \E b \in Requests : /\ bind[b].pc = "submit" /\ ~bind[b].stale
                                          /\ bind[b].id = e.tx.key
                   \/ \E f \in late \cap Bindings : f.tx = e.tx /\ ~f.stale
<1> USE DEF RegistryInv
<1> DEFINE RegFits(e) == MayRegister(e.person, e.tx.key)
           BindFits(e) ==
              /\ MayBind(e.tx.key, e.tx.keys)
              /\ ~e.stale =>
                   \/ \E b \in Requests : /\ bind[b].pc = "submit" /\ ~bind[b].stale
                                          /\ bind[b].id = e.tx.key
                   \/ \E f \in late \cap Bindings : f.tx = e.tx /\ ~f.stale
           Fits(e) == /\ e \in Registrations => RegFits(e)
                      /\ e \in Bindings => BindFits(e)
<1> SUFFICES \A e \in late' : Fits(e)
  OBVIOUS
<1>1. \A e \in late : Fits(e)
  BY DEF MayRegister, MayBind
<1>2. \A e \in InFlight : Fits(e)
  <2>1. ASSUME reg.pc = "submit" PROVE Fits(Registration(reg.person, reg.id))
    <3>1. Registration(reg.person, reg.id).tx.fn = "registerHolder"
      BY DEF Registration, RegisterTx
    <3>2. Registration(reg.person, reg.id) \notin Bindings
      BY <3>1 DEF Bindings
    <3>3. MayRegister(reg.person, reg.id)
      BY <2>1 DEF MayRegister
    <3> QED
      BY <3>2, <3>3 DEF Registration, RegisterTx
  <2>2. ASSUME NEW b \in Requests, bind[b].pc = "submit" PROVE Fits(BindingOf(b))
    <3>1. BindingOf(b).tx.fn = "bindHolderKeys"
      BY DEF BindingOf, Binding, BindTx
    <3>2. BindingOf(b) \notin Registrations
      BY <3>1 DEF Registrations
    <3>3. MayBind(bind[b].id, bind[b].keys)
      BY <2>2 DEF MayBind
    <3>4. /\ BindingOf(b).tx.key = bind[b].id /\ BindingOf(b).tx.keys = bind[b].keys
          /\ BindingOf(b).stale = bind[b].stale
      BY DEF BindingOf, Binding, BindTx
    <3> QED
      BY <2>2, <3>2, <3>3, <3>4
  <2> QED
    BY <2>1, <2>2 DEF InFlight, Registering
<1> HIDE DEF Fits
<1>3. ASSUME NEW E, LeftBehind(E), \A e \in E : Fits(e) PROVE \A e \in late' : Fits(e)
  BY <1>1, <1>3 DEF LeftBehind
<1>4. ASSUME NEW id \in HolderIDs, NEW E \in SUBSET late, late' = {Behind(e, id) : e \in E}
      PROVE  \A e \in late' : Fits(e)
  <2>1. /\ \A e \in late' \cap Bindings : \E g \in late \cap Bindings :
             g.tx = e.tx /\ (~e.stale => ~g.stale)
        /\ late' \cap Registrations \subseteq late
    BY <1>4, BehindStale
  <2>2. \A e \in late' : e \in Bindings => BindFits(e)
    BY <2>1 DEF MayBind
  <2> QED
    BY <1>1, <2>1, <2>2 DEF Fits
<1>5. CASE RegisterStep
  <2>1. RegisterFails => \A e \in late' : Fits(e)
    BY <1>2, <1>3 DEF RegisterFails, InFlight
  <2> QED
    BY <1>1, <1>5, <2>1 DEF RegisterStep, StartRegister, RegisterCommits, InsertHolder,
       InsertHolderFails
<1>6. CASE \E d \in Devices : WalletStep(d)
  BY <1>1, <1>6 DEF WalletStep, ReuseKeys, GenerateKeys, StorePublicKeys, PostKeys,
     StopOnboarding, Reinstall, WalletGoes
<1>7. ASSUME NEW b \in Requests, BindStep(b) PROVE \A e \in late' : Fits(e)
  <2>1. BindFails(b) => \A e \in late' : Fits(e)
    BY <1>2, <1>3 DEF BindFails, InFlight
  <2>2. ASSUME BindCommits(b) PROVE \A e \in late' : Fits(e)
    <3>1. bind[b] # Idle
      BY <2>2 DEF BindCommits, Idle
    <3>2. bind[b].id \in HolderIDs /\ late \in SUBSET late
      BY <3>1, PostTyped
    <3> QED
      BY <1>4, <2>2, <3>2 DEF BindCommits
  <2> QED
    BY <1>1, <1>7, <2>1, <2>2 DEF BindStep, CacheKeys, CacheKeysFails
<1>8. ASSUME NEW e \in late, LateCommits(e) PROVE \A f \in late' : Fits(f)
  <2>1. e.tx.fn = "bindHolderKeys" => e.tx.key \in HolderIDs
    BY DEF Typed, Registrations, Bindings
  <2>2. late \ {e} \in SUBSET late
    OBVIOUS
  <2> QED
    BY <1>1, <1>4, <1>8, <2>1, <2>2 DEF LateCommits
<1>9. CASE BootstrapStep
  <2>1. PICK id \in server.todo : BootRegister(id) \/ BootBind(id) \/ BootSkip(id) \/ BootFails(id)
    BY <1>9 DEF BootstrapStep
  <2>2. /\ ~Serving /\ id \in HolderIDs
    BY <1>9, RowToDo DEF BootstrapStep
  <2>3. CASE BootFails(id)
    <3>1. Fits(Registration(rows[id].person, id))
      <4>1. Registration(rows[id].person, id).tx.fn = "registerHolder"
        BY DEF Registration, RegisterTx
      <4>2. Registration(rows[id].person, id) \notin Bindings
        BY <4>1 DEF Bindings
      <4>3. MayRegister(rows[id].person, id)
        BY <2>2 DEF MayRegister
      <4> QED
        BY <4>2, <4>3 DEF Registration, RegisterTx, Fits
    <3>2. Fits(Binding(id, rows[id].keys, TRUE))
      <4>1. Binding(id, rows[id].keys, TRUE).tx.fn = "bindHolderKeys"
        BY DEF Binding, BindTx
      <4>2. Binding(id, rows[id].keys, TRUE) \notin Registrations
        BY <4>1 DEF Registrations
      <4>3. MayBind(id, rows[id].keys)
        BY <2>2 DEF MayBind
      <4> QED
        BY <4>2, <4>3 DEF Binding, BindTx, Fits
    <3> DEFINE E == IF ~IsHolder(world, id) THEN {Registration(rows[id].person, id)}
                    ELSE IF rows[id].keys = NoKeys THEN {}
                    ELSE {Binding(id, rows[id].keys, TRUE)}
    <3>3. \A e \in E : Fits(e)
      BY <3>1, <3>2
    <3>4. LeftBehind(E)
      BY <2>3 DEF BootFails
    <3> HIDE DEF E
    <3> QED
      BY <1>3, <3>3, <3>4
  <2>4. CASE BootBind(id)
    BY <1>4, <2>2, <2>4 DEF BootBind
  <2> QED
    BY <1>1, <2>1, <2>3, <2>4 DEF BootRegister, BootSkip
<1>10. CASE BackendRestarts \/ RunBootstrap
  BY <1>2, <1>3, <1>10 DEF BackendRestarts, RunBootstrap
<1>11. CASE ResetLedger
  BY <1>11 DEF ResetLedger
<1>12. CASE BootstrapEnds
  BY <1>1, <1>12 DEF BootstrapEnds
<1> QED
  BY <1>5, <1>6, <1>7, <1>8, <1>9, <1>10, <1>11, <1>12 DEF RegistryNext

\* A request is posted by a wallet, and then goes its way.
KeysPosted(b) ==
  \E d \in Devices :
    /\ wallet[d].pc = "post" /\ bind'[b].pc = "submit"
    /\ bind'[b].keys = wallet[d].hand /\ bind'[b].stale = wallet[d].stale
    /\ bind'[b].id \in RowsOf(OwnerOf[d])
    /\ Serving /\ LedgerStays /\ server' = server

LEMMA RequestStep ==
  ASSUME RegistryInv, RegistryNext, NEW b \in Requests, bind'[b] # Idle
  PROVE  \/ KeysPosted(b)
         \/ /\ bind[b] # Idle /\ bind'[b].id = bind[b].id /\ bind'[b].keys = bind[b].keys
            /\ \/ bind'[b].pc = bind[b].pc
               \/ bind'[b].pc = "cache" /\ <<bind[b].id, bind[b].keys>> \in everBound'
            /\ ~bind'[b].stale => ~bind[b].stale
            /\ server' = server \/ BootstrapStep \/ BootstrapEnds
<1> USE DEF RegistryInv
<1> DEFINE Stays == /\ bind[b] # Idle /\ bind'[b].id = bind[b].id /\ bind'[b].keys = bind[b].keys
                    /\ \/ bind'[b].pc = bind[b].pc
                       \/ bind'[b].pc = "cache" /\ <<bind[b].id, bind[b].keys>> \in everBound'
                    /\ ~bind'[b].stale => ~bind[b].stale
           Posted == KeysPosted(b)
<1>1. CASE RegisterStep
  BY <1>1 DEF RegisterStep, StartRegister, RegisterCommits, RegisterFails, InsertHolder,
     InsertHolderFails, backend
<1>2. ASSUME NEW d \in Devices, WalletStep(d) PROVE Stays \/ Posted
  <2>1. ASSUME NEW c \in Requests, NEW id \in HolderIDs, PostKeys(d, c, id)
        PROVE  Stays \/ Posted
    <3>1. CASE c = b
      <4>1. bind'[b] = [pc |-> "submit", id |-> id, keys |-> wallet[d].hand,
                        stale |-> wallet[d].stale, device |-> d]
        BY <2>1, <3>1 DEF PostKeys, Typed
      <4> QED
        BY <2>1, <4>1 DEF PostKeys, KeysPosted, WalletGoes, LedgerStays, backend
    <3>2. CASE c # b
      BY <2>1, <3>2 DEF PostKeys, Typed
    <3> QED
      BY <3>1, <3>2
  <2>2. CASE StopOnboarding(d) \/ Reinstall(d)
    BY <2>2, DesertedTyped DEF StopOnboarding, Reinstall
  <2>3. CASE ReuseKeys(d) \/ GenerateKeys(d) \/ StorePublicKeys(d)
    BY <2>3 DEF ReuseKeys, GenerateKeys, StorePublicKeys
  <2> QED
    BY <1>2, <2>1, <2>2, <2>3 DEF WalletStep
<1>3. ASSUME NEW id \in HolderIDs, bind' = RequestsBehind(id) PROVE Stays
  BY <1>3, RequestsBehindStale
<1>4. ASSUME NEW c \in Requests, BindStep(c) PROVE Stays
  <2>1. CASE BindCommits(c)
    <3>0. bind[c] # Idle
      BY <2>1 DEF BindCommits, Idle
    <3>1. bind[c] \in Posts /\ bind[c].id \in HolderIDs
      BY <3>0, PostTyped
    <3>2. CASE c = b
      <4>1. bind'[b] = [bind[b] EXCEPT !.pc = "cache"]
        BY <2>1, <3>2 DEF BindCommits, RequestsBehind
      <4>2. <<bind[b].id, bind[b].keys>> \in everBound'
        BY <2>1, <3>2 DEF BindCommits, Binds
      <4> QED
        BY <3>0, <3>1, <3>2, <4>1, <4>2 DEF Posts
    <3>3. CASE c # b
      <4>1. bind'[b] = RequestsBehind(bind[c].id)[b]
        BY <2>1, <3>3 DEF BindCommits, RequestsBehind
      <4> QED
        BY <3>1, <4>1, RequestsBehindStale
    <3> QED
      BY <3>2, <3>3
  <2>2. CASE BindFails(c) \/ CacheKeys(c) \/ CacheKeysFails(c)
    BY <2>2 DEF BindFails, CacheKeys, CacheKeysFails, AfterBindError, Typed
  <2> QED
    BY <1>4, <2>1, <2>2 DEF BindStep
<1>5. ASSUME NEW e \in late, LateCommits(e) PROVE Stays
  <2>1. e.tx.fn = "bindHolderKeys" => e.tx.key \in HolderIDs
    BY DEF Typed, Registrations, Bindings
  <2> QED
    BY <1>3, <1>5, <2>1 DEF LateCommits
<1>6. CASE BootstrapStep
  <2>1. PICK id \in server.todo : BootRegister(id) \/ BootBind(id) \/ BootSkip(id) \/ BootFails(id)
    BY <1>6 DEF BootstrapStep
  <2>2. id \in HolderIDs
    BY <1>6, RowToDo DEF BootstrapStep
  <2> QED
    BY <1>3, <1>6, <2>1, <2>2 DEF BootRegister, BootBind, BootSkip, BootFails
<1>7. ~(BackendRestarts \/ RunBootstrap \/ ResetLedger)
  BY DEF BackendRestarts, RunBootstrap, ResetLedger, Interrupted, Stopped
<1>8. CASE BootstrapEnds
  BY <1>8 DEF BootstrapEnds, requests
<1>9. (\E d \in Devices : WalletStep(d)) => server' = server
  BY DEF WalletStep, ReuseKeys, GenerateKeys, StorePublicKeys, PostKeys,
     StopOnboarding, Reinstall, WalletGoes, backend
<1>10. (\E c \in Requests : BindStep(c)) \/ (\E e \in late : LateCommits(e)) => server' = server
  BY DEF BindStep, BindCommits, BindFails, CacheKeys, CacheKeysFails, LateCommits, backend
<1> QED
  BY <1>1, <1>2, <1>4, <1>5, <1>6, <1>7, <1>8, <1>9, <1>10 DEF RegistryNext

\* A wallet asks the backend before it is about to post.
LEMMA PhoneStep ==
  ASSUME RegistryInv, RegistryNext, NEW d \in Devices, wallet'[d].pc \in {"public", "post"}
  PROVE  /\ wallet'[d].keys # NoKeys /\ wallet'[d].hand = wallet'[d].keys
         /\ \/ CheckKeys(d) /\ NoneBound(OwnerOf[d]) /\ LedgerStays /\ rows' = rows
            \/ wallet[d].pc \in {"public", "post"} /\ (~wallet'[d].stale => ~wallet[d].stale)
            \/ ResetLedger
<1> USE DEF RegistryInv
<1> DEFINE W == wallet'[d]
           Goal == /\ W.keys # NoKeys /\ W.hand = W.keys
                   /\ \/ CheckKeys(d) /\ NoneBound(OwnerOf[d]) /\ LedgerStays /\ rows' = rows
                      \/ wallet[d].pc \in {"public", "post"} /\ (~W.stale => ~wallet[d].stale)
                      \/ ResetLedger
<1>0. /\ wallet[d] \in WalletStates
      /\ wallet[d].pc \in {"public", "post"} =>
           wallet[d].keys # NoKeys /\ wallet[d].hand = wallet[d].keys
  BY DEF Typed, InHand
<1>1. CASE wallet'[d] = wallet[d]
  BY <1>0, <1>1
<1>2. ASSUME NEW c \in Devices, WalletStep(c) PROVE Goal
  <2>1. CASE c # d
    <3>1. wallet'[d] = wallet[d]
      BY <1>2, <2>1 DEF WalletStep, ReuseKeys, GenerateKeys, StorePublicKeys, PostKeys,
         StopOnboarding, Reinstall, WalletGoes, Typed
    <3> QED
      BY <1>1, <3>1
  <2>2. CASE c = d
    <3>0. \A to : WalletGoes(d, to) => wallet'[d] = to /\ LedgerStays /\ rows' = rows
      BY DEF WalletGoes, Typed, LedgerStays, backend
    <3>1. CASE ReuseKeys(d)
      <4>1. wallet'[d] = [wallet[d] EXCEPT !.pc = "post", !.hand = wallet[d].keys]
        BY <3>0, <3>1 DEF ReuseKeys
      <4> QED
        BY <1>0, <3>0, <3>1, <4>1 DEF ReuseKeys, WalletStates
    <3>2. CASE GenerateKeys(d)
      <4>1. PICK k \in WalletKeys :
              WalletGoes(d, [wallet[d] EXCEPT !.pc = "public", !.keys = k, !.hand = k])
        BY <3>2 DEF GenerateKeys, Stored
      <4>2. wallet'[d].keys = k /\ wallet'[d].hand = k
        <5>1. W = [wallet[d] EXCEPT !.pc = "public", !.keys = k, !.hand = k]
          BY <3>0, <4>1
        <5> QED
          BY <1>0, <5>1 DEF WalletStates
      <4> QED
        BY <3>0, <3>2, <4>1, <4>2, NoKeysAssumption DEF GenerateKeys
    <3>3. CASE StorePublicKeys(d)
      <4>1. wallet'[d] = [wallet[d] EXCEPT !.pc = "post", !.public = TRUE]
        BY <3>0, <3>3 DEF StorePublicKeys
      <4> QED
        BY <1>0, <3>3, <4>1 DEF StorePublicKeys, WalletStates
    <3>4. ~(StopOnboarding(d) \/ Reinstall(d)
            \/ \E b \in Requests, id \in HolderIDs : PostKeys(d, b, id))
      <4>1. Restarted(wallet[d]).pc = "start" /\ NewWallet.pc = "start"
            /\ [Restarted(wallet[d]) EXCEPT !.pc = "posted"].pc = "posted"
        BY <1>0 DEF Restarted, NewWallet, WalletStates
      <4> QED
        BY <3>0, <4>1 DEF StopOnboarding, Reinstall, PostKeys
    <3> QED
      BY <1>2, <2>2, <3>1, <3>2, <3>3, <3>4 DEF WalletStep
  <2> QED
    BY <2>1, <2>2
<1>3. ASSUME NEW id, wallet' = WalletsBehind(id) PROVE Goal
  <2>1. W = wallet[d] \/ W = [wallet[d] EXCEPT !.stale = TRUE]
    BY <1>3 DEF WalletsBehind
  <2>2. CASE W = [wallet[d] EXCEPT !.stale = TRUE]
    <3>1. W.pc = wallet[d].pc /\ W.keys = wallet[d].keys /\ W.hand = wallet[d].hand /\ W.stale
      BY <1>0, <2>2 DEF WalletStates
    <3> QED
      BY <1>0, <3>1
  <2> QED
    BY <1>1, <2>1, <2>2
<1>4. ASSUME NEW b \in Requests, BindStep(b) PROVE Goal
  <2>1. bind[b] # Idle
    BY <1>4 DEF BindStep, BindCommits, BindFails, CacheKeys, CacheKeysFails, Idle
  <2>2. bind[b].device \in Devices \cup {NoDevice}
    BY <2>1, PostTyped
  <2>3. Answer(bind[b].device) => W = wallet[d] \/ W.pc = "start"
    BY <2>2, AnswerTyped
  <2> QED
    BY <1>1, <1>3, <1>4, <2>3 DEF BindStep, BindCommits, BindFails, CacheKeys, CacheKeysFails
<1>5. ASSUME NEW e \in late, LateCommits(e) PROVE Goal
  BY <1>1, <1>3, <1>5 DEF LateCommits
<1>6. CASE ResetLedger
  <2>1. wallet'[d] = [wallet[d] EXCEPT !.stale = FALSE]
    BY <1>6 DEF ResetLedger
  <2>2. W.pc = wallet[d].pc /\ W.keys = wallet[d].keys /\ W.hand = wallet[d].hand
    BY <1>0, <2>1 DEF WalletStates
  <2> QED
    BY <1>0, <1>6, <2>2
<1>7. CASE BootstrapStep
  BY <1>1, <1>3, <1>7 DEF BootstrapStep, BootRegister, BootBind, BootSkip, BootFails
<1>8. ASSUME RegisterStep \/ BackendRestarts \/ RunBootstrap \/ BootstrapEnds PROVE Goal
  BY <1>1, <1>8 DEF RegisterStep, StartRegister, RegisterCommits, RegisterFails, InsertHolder,
     InsertHolderFails, BackendRestarts, RunBootstrap, BootstrapEnds
<1> QED
  BY <1>2, <1>4, <1>5, <1>6, <1>7, <1>8 DEF RegistryNext

LEMMA RegStep ==
  ASSUME RegistryInv, RegistryNext, reg' # Idle
  PROVE  \/ reg' = reg
         \/ reg'.pc = "submit" /\ Serving /\ Serving' /\ LedgerStays
         \/ /\ reg.pc = "submit" /\ Registers(reg.person, reg.id) /\ UNCHANGED <<rows, server>>
            /\ reg'.pc = "insert" /\ reg'.person = reg.person /\ reg'.id = reg.id
<1> USE DEF RegistryInv
<1>1. CASE RegisterStep
  <2>1. CASE RegisterCommits
    <3>1. reg # Idle
      BY <2>1 DEF RegisterCommits, Idle
    <3> QED
      BY <2>1, <3>1, RegTyped DEF RegisterCommits, backend
  <2>2. CASE \E p \in Persons : StartRegister(p)
    BY <2>2 DEF StartRegister, LedgerStays, Serving
  <2> QED
    BY <1>1, <2>1, <2>2 DEF RegisterStep, RegisterFails, AfterRegisterError, InsertHolder,
       InsertHolderFails
<1>2. (\E d \in Devices : WalletStep(d)) => reg' = reg
  BY DEF WalletStep, ReuseKeys, GenerateKeys, StorePublicKeys, PostKeys, StopOnboarding,
     Reinstall, WalletGoes
<1>3. (\E b \in Requests : BindStep(b)) => reg' = reg
  BY DEF BindStep, BindCommits, BindFails, CacheKeys, CacheKeysFails
<1>4. ~(BackendRestarts \/ RunBootstrap \/ ResetLedger)
  BY DEF BackendRestarts, RunBootstrap, ResetLedger, Interrupted, Stopped
<1> QED
  BY <1>1, <1>2, <1>3, <1>4 DEF RegistryNext, LateCommits, BootstrapStep, BootstrapEnds, requests

\* The server stops for a run of bootstrap, which takes one row after the other.
LEMMA ServerStep ==
  ASSUME RegistryInv, RegistryNext
  PROVE  \/ server' = server /\ (~Serving => rows' = rows)
         \/ /\ Serving
            /\ RunBootstrap \/ ResetLedger
            /\ ~Serving' /\ rows' = rows /\ server'.todo = Seeds /\ ~server'.failed
            /\ server'.fresh <=> ResetLedger
            /\ reg' = Idle /\ \A b \in Requests : bind'[b] = Idle
         \/ /\ ~Serving /\ ~Serving' /\ BootstrapStep /\ rows' = rows
            /\ server'.todo \subseteq server.todo /\ server'.fresh = server.fresh
            /\ \/ server'.failed
               \/ /\ ~server.failed
                  /\ \A id \in server.todo \ server'.todo :
                       /\ IsHolder(world, id)
                       /\ BootBind(id) \/ BootSkip(id)
         \/ /\ ~Serving /\ server.todo = {} /\ LedgerStays /\ rows' = rows
            /\ IF server.failed
               THEN /\ ~Serving' /\ server'.todo = Seeds
                    /\ ~server'.failed /\ server'.fresh = server.fresh
               ELSE Serving'
<1> USE DEF RegistryInv
<1>1. CASE RegisterStep
  <2>1. Serving
    BY <1>1 DEF Quiet, RegisterStep, StartRegister, RegisterCommits, RegisterFails, InsertHolder,
       InsertHolderFails, Idle
  <2>2. server' = server
    BY <1>1 DEF RegisterStep, StartRegister, RegisterCommits, RegisterFails, InsertHolder,
       InsertHolderFails, backend
  <2> QED
    BY <2>1, <2>2
<1>2. ASSUME NEW d \in Devices, WalletStep(d) PROVE server' = server /\ rows' = rows
  BY <1>2 DEF WalletStep, ReuseKeys, GenerateKeys, StorePublicKeys, PostKeys, StopOnboarding,
     Reinstall, WalletGoes, backend
<1>3. ASSUME NEW b \in Requests, BindStep(b) PROVE server' = server /\ Serving
  <2>1. bind[b] # Idle
    BY <1>3 DEF BindStep, BindCommits, BindFails, CacheKeys, CacheKeysFails, Idle
  <2>2. Serving
    BY <2>1 DEF Quiet
  <2> QED
    BY <1>3, <2>2 DEF BindStep, BindCommits, BindFails, CacheKeys, CacheKeysFails, backend
<1>4. ASSUME NEW e \in late, LateCommits(e) PROVE server' = server /\ rows' = rows
  BY <1>4 DEF LateCommits, backend
<1>5. CASE BackendRestarts
  BY <1>5 DEF BackendRestarts
<1>6. CASE RunBootstrap \/ ResetLedger
  <2>1. CASE RunBootstrap /\ ~ResetLedger
    BY <2>1 DEF RunBootstrap, Stopped, Interrupted, Bootstrapping, Serving
  <2>2. CASE ResetLedger
    BY <2>2 DEF ResetLedger, Stopped, Interrupted, Bootstrapping, Serving
  <2> QED
    BY <1>6, <2>1, <2>2
<1>7. CASE BootstrapStep
  <2>0. ~Serving /\ rows' = rows
    BY <1>7 DEF BootstrapStep
  <2>1. PICK id \in server.todo : BootRegister(id) \/ BootBind(id) \/ BootSkip(id) \/ BootFails(id)
    BY <1>7 DEF BootstrapStep
  <2>2. server.todo \in SUBSET HolderIDs /\ server.todo \ {id} \in SUBSET HolderIDs
    BY <2>0, BootTyped
  <2>3. CASE BootRegister(id)
    <3>1. server' = [server EXCEPT !.todo = server.todo]
      BY <2>3 DEF BootRegister, AfterRegister
    <3>2. server'.todo = server.todo /\ server'.failed = server.failed
          /\ server'.fresh = server.fresh /\ server'.mode = "bootstrap"
      BY <2>0, <2>2, <3>1, BootTyped
    <3> QED
      BY <1>7, <2>0, <3>2, BootTyped DEF Serving
  <2>4. CASE BootBind(id) \/ BootSkip(id)
    <3>1. server' = [server EXCEPT !.todo = server.todo \ {id}] /\ IsHolder(world, id)
      BY <2>4 DEF BootBind, BootSkip
    <3>2. server'.todo = server.todo \ {id} /\ server'.failed = server.failed
          /\ server'.fresh = server.fresh /\ server'.mode = "bootstrap"
      BY <2>0, <2>2, <3>1, BootTyped
    <3> QED
      BY <1>7, <2>0, <2>4, <3>1, <3>2, BootTyped DEF Serving
  <2>5. CASE BootFails(id)
    <3>1. server' = [server EXCEPT !.todo = server.todo \ {id}, !.failed = TRUE]
      BY <2>5 DEF BootFails
    <3>2. server'.todo = server.todo \ {id} /\ server'.failed
          /\ server'.fresh = server.fresh /\ server'.mode = "bootstrap"
      BY <2>0, <2>2, <3>1, BootTyped
    <3> QED
      BY <1>7, <2>0, <3>2 DEF Serving
  <2> QED
    BY <2>1, <2>3, <2>4, <2>5
<1>8. CASE BootstrapEnds
  <2>0. ~Serving /\ server.todo = {} /\ rows' = rows /\ LedgerStays
    BY <1>8 DEF BootstrapEnds, LedgerStays
  <2>1. CASE server.failed
    <3>1. server' = [server EXCEPT !.todo = Seeds, !.failed = FALSE] /\ Seeds \in SUBSET HolderIDs
      BY <1>8, <2>1 DEF BootstrapEnds, Seeds
    <3>2. server'.todo = Seeds /\ ~server'.failed
          /\ server'.fresh = server.fresh /\ server'.mode = "bootstrap"
      BY <2>0, <3>1, BootTyped
    <3> QED
      BY <2>0, <2>1, <3>2 DEF Serving
  <2>2. CASE ~server.failed
    BY <1>8, <2>0, <2>2 DEF BootstrapEnds, Serving
  <2> QED
    BY <2>1, <2>2
<1> QED
  BY <1>1, <1>2, <1>3, <1>4, <1>5, <1>6, <1>7, <1>8 DEF RegistryNext

-----------------------------------------------------------------------------
(* Every step keeps the invariant, one part after the other. *)

\* Who is on the chain stays, with the name, until the ledger is reset.
LEMMA HoldersStay ==
  ASSUME RegistryInv, RegistryNext, ~ResetLedger, NEW id \in HolderIDs, IsHolder(world, id)
  PROVE  IsHolder(world', id) /\ names'[id] = names[id]
<1> USE DEF RegistryInv
<1>1. CASE LedgerStays
  BY <1>1 DEF LedgerStays
<1>2. CASE LedgerRegisters
  <2>1. PICK p \in Persons, j \in HolderIDs : Registers(p, j)
    BY <1>2 DEF LedgerRegisters
  <2>2. world[j] = NoRecord /\ (j # id => world'[id] = world[id] /\ names'[id] = names[id])
    BY <2>1, RegisterOnChain
  <2> QED
    BY <2>2 DEF IsHolder, NoRecord
<1>3. CASE LedgerBinds
  <2>1. PICK j \in HolderIDs, k \in WalletKeys : Binds(j, k)
    BY <1>3 DEF LedgerBinds
  <2>2. names' = names /\ IsHolder(world', j) /\ (j # id => world'[id] = world[id])
    BY <2>1, BindOnChain
  <2> QED
    BY <2>2 DEF IsHolder
<1> QED
  BY <1>1, <1>2, <1>3, LedgerStep

LEMMA QuietStep ==
  ASSUME RegistryInv, RegistryNext PROVE Quiet'
<1> USE DEF RegistryInv
<1> SUFFICES ASSUME ~Serving'
             PROVE  /\ reg' = Idle /\ \A b \in Requests : bind'[b] = Idle
                    /\ server'.todo \subseteq Seeds'
  BY DEF Quiet
<1>1. Seeds \subseteq Seeds'
  BY RowsStep
<1>2. server'.todo \subseteq Seeds'
  BY <1>1, ServerStep DEF Quiet, Serving
<1>3. CASE RunBootstrap \/ ResetLedger
  BY <1>2, <1>3 DEF RunBootstrap, ResetLedger, Stopped, Interrupted
<1>4. CASE ~(RunBootstrap \/ ResetLedger)
  <2>1. ~Serving
    BY <1>4, ServerStep DEF Serving
  <2>2. reg = Idle /\ \A b \in Requests : bind[b] = Idle
    BY <2>1 DEF Quiet
  <2>3. reg' = Idle
    BY <2>1, <2>2, RegStep DEF Idle
  <2>4. \A b \in Requests : bind'[b] = Idle
    BY <2>1, <2>2, RequestStep DEF KeysPosted
  <2> QED
    BY <1>2, <2>3, <2>4
<1> QED
  BY <1>3, <1>4

LEMMA OnChainStep ==
  ASSUME RegistryInv, RegistryNext PROVE OnChain'
<1> USE DEF RegistryInv
<1> SUFFICES ASSUME NEW id \in Seeds', Serving' \/ (~server'.failed /\ id \notin server'.todo)
             PROVE  IsHolder(world', id)
  BY DEF OnChain
<1>0. id \in HolderIDs
  BY DEF Seeds
<1>1. ~ResetLedger
  <2> SUFFICES ASSUME ResetLedger PROVE FALSE
    OBVIOUS
  <2>1. Serving /\ server' = Bootstrapping(TRUE) /\ Seeds' = Seeds
    BY DEF ResetLedger, Seeds
  <2> QED
    BY <2>1 DEF Bootstrapping, Serving
<1> SUFFICES IsHolder(world, id)
  BY <1>0, <1>1, HoldersStay
<1>2. CASE id \in Seeds
  <2>1. CASE server' = server
    BY <1>2, <2>1 DEF OnChain, Serving
  <2>2. CASE server' # server
    BY <1>1, <1>2, <2>2, ServerStep DEF OnChain
  <2> QED
    BY <2>1, <2>2
<1>3. CASE id \notin Seeds
  <2>1. RowInserted /\ id = reg.id
    BY <1>3, RowsStep
  <2> QED
    BY <2>1 DEF RegistrationsFit, RowInserted
<1> QED
  BY <1>2, <1>3

LEMMA RegistrationsFitStep ==
  ASSUME RegistryInv, RegistryNext PROVE RegistrationsFit'
<1> USE DEF RegistryInv
<1>a. reg # Idle => reg.person \in Persons /\ reg.id \in HolderIDs
  BY RegTyped
<1>1. ASSUME reg'.pc = "insert" PROVE IsHolder(world', reg'.id) /\ names'[reg'.id] = reg'.person
  <2>1. reg' # Idle
    BY <1>1 DEF Idle
  <2>2. CASE reg' = reg
    <3>1. ~ResetLedger
      BY <2>1 DEF ResetLedger, Stopped, Interrupted
    <3> QED
      BY <1>1, <1>a, <2>1, <2>2, <3>1, HoldersStay DEF RegistrationsFit
  <2>3. CASE reg' # reg
    <3>1. /\ reg.pc = "submit" /\ Registers(reg.person, reg.id)
          /\ reg'.person = reg.person /\ reg'.id = reg.id
      BY <1>1, <2>1, <2>3, RegStep
    <3>2. reg # Idle
      BY <3>1 DEF Idle
    <3>3. world'[reg.id] = NewHolder /\ names'[reg.id] = reg.person
      BY <1>a, <3>1, <3>2, RegisterOnChain
    <3> QED
      BY <3>1, <3>3 DEF IsHolder, NewHolder
  <2> QED
    BY <2>2, <2>3
<1>2. ASSUME NEW id \in Seeds'
      PROVE  IF IsHolder(world', id) THEN names'[id] = rows'[id].person
             ELSE /\ reg'.pc = "submit" /\ reg'.id = id => reg'.person = rows'[id].person
                  /\ \A e \in late' \cap Registrations :
                       e.tx.key = id => e.person = rows'[id].person
  <2>0. id \in HolderIDs
    BY DEF Seeds
  <2>1. CASE ResetLedger
    <3>1. late' = {} /\ reg' = Idle
      BY <2>1 DEF ResetLedger, Stopped, Interrupted
    <3>2. ~IsHolder(world', id)
      BY <2>0, <2>1 DEF ResetLedger, IsHolder, NoRecord, Keys
    <3> QED
      BY <3>1, <3>2 DEF Idle
  <2>2. CASE ~ResetLedger /\ id \notin Seeds
    <3>1. RowInserted /\ id = reg.id /\ rows'[id].person = reg.person
      BY <2>2, RowsStep
    <3>2. IsHolder(world, id) /\ names[id] = reg.person
      BY <3>1 DEF RegistrationsFit, RowInserted
    <3> QED
      BY <3>1, <3>2 DEF RowInserted
  <2>3. CASE ~ResetLedger /\ id \in Seeds /\ IsHolder(world, id)
    <3>1. IsHolder(world', id) /\ names'[id] = names[id]
      BY <2>0, <2>3, HoldersStay
    <3>2. rows'[id].person = rows[id].person
      BY <2>3, RowsStep
    <3> QED
      BY <2>3, <3>1, <3>2 DEF RegistrationsFit
  <2>4. CASE ~ResetLedger /\ id \in Seeds /\ ~IsHolder(world, id)
    <3>1. rows'[id].person = rows[id].person
      BY <2>4, RowsStep
    <3>2. ASSUME NEW p, MayRegister(p, id) PROVE p = rows[id].person
      BY <2>4, <3>2 DEF MayRegister, RegistrationsFit
    <3>3. IsHolder(world', id) => names'[id] = rows[id].person
      <4>1. CASE LedgerRegisters
        <5>1. PICK p \in Persons, j \in HolderIDs : Registers(p, j) /\ MayRegister(p, j)
          BY <4>1 DEF LedgerRegisters
        <5>2. names'[j] = p /\ (id # j => world'[id] = world[id])
          BY <2>0, <5>1, RegisterOnChain
        <5> QED
          BY <2>4, <3>2, <5>1, <5>2 DEF IsHolder
      <4>2. CASE LedgerBinds
        <5>1. PICK j \in HolderIDs, k \in WalletKeys : Binds(j, k)
          BY <4>2 DEF LedgerBinds
        <5>2. IsHolder(world, j) /\ (id # j => world'[id] = world[id])
          BY <2>0, <5>1, BindOnChain
        <5> QED
          BY <2>4, <5>2 DEF IsHolder
      <4> QED
        BY <2>4, <4>1, <4>2, LedgerStep DEF LedgerStays
    <3>4. \A e \in late' \cap Registrations : e.tx.key = id => e.person = rows[id].person
      BY <3>2, LateStep
    <3>5. reg'.pc = "submit" /\ reg'.id = id => IsHolder(world, id) \/ reg'.person = rows[id].person
      <4>1. Serving => IsHolder(world, id)
        BY <2>4 DEF OnChain
      <4> QED
        BY <2>4, <3>2, <4>1, RegStep DEF MayRegister, Idle
    <3> QED
      BY <2>4, <3>1, <3>3, <3>4, <3>5
  <2> QED
    BY <2>1, <2>2, <2>3, <2>4
<1> QED
  BY <1>1, <1>2 DEF RegistrationsFit

LEMMA MintedStep ==
  ASSUME RegistryInv, RegistryNext PROVE Minted'
BY WalletKeysStep DEF RegistryInv, Minted

LEMMA InHandStep ==
  ASSUME RegistryInv, RegistryNext PROVE InHand'
BY PhoneStep DEF InHand

\* A pair that may be bound is held.
LEMMA MayBindHeld ==
  ASSUME RegistryInv, NEW id \in HolderIDs, NEW k \in WalletKeys, MayBind(id, k)
  PROVE  Held(id, k)
<1> USE DEF RegistryInv
<1>1. ASSUME NEW b \in Requests, bind[b].pc = "submit", bind[b].id = id, bind[b].keys = k
      PROVE  Held(id, k)
  <2>1. bind[b] # Idle
    BY <1>1 DEF Idle
  <2> QED
    BY <1>1, <2>1 DEF KeysHeld
<1>2. ASSUME ~Serving, id \in server.todo, rows[id].keys = k PROVE Held(id, k)
  <2>1. <<id, k>> \in everBound
    BY <1>2, NoKeysAssumption DEF Quiet, KeysHeld
  <2> QED
    BY <2>1 DEF KeysHeld
<1> QED
  BY <1>1, <1>2 DEF MayBind, KeysHeld

LEMMA KeysHeldStep ==
  ASSUME RegistryInv, RegistryNext PROVE KeysHeld'
<1> USE DEF RegistryInv
<1>1. /\ LedgerStays \/ LedgerRegisters \/ ResetLedger => everBound' = everBound
      /\ everBound \subseteq everBound'
      /\ everBound' \subseteq HolderIDs \X WalletKeys
      /\ \A bk \in everBound' \ everBound :
           /\ LedgerBinds
           /\ MayBind(bk[1], bk[2])
  <2>1. CASE LedgerBinds
    <3>1. PICK id \in HolderIDs, k \in WalletKeys : Binds(id, k) /\ MayBind(id, k)
      BY <2>1 DEF LedgerBinds
    <3>2. everBound' = everBound \cup {<<id, k>>}
      BY <3>1 DEF Binds
    <3>3. LedgerStays => everBound' = everBound
      BY DEF LedgerStays
    <3>4. LedgerRegisters => everBound' = everBound
      BY DEF LedgerRegisters, Registers
    <3>5. ResetLedger => everBound' = everBound
      BY DEF ResetLedger
    <3> QED
      BY <2>1, <3>1, <3>2, <3>3, <3>4, <3>5 DEF Typed
  <2>2. CASE LedgerStays \/ LedgerRegisters \/ ResetLedger
    BY <2>2 DEF LedgerStays, LedgerRegisters, ResetLedger, Registers, Typed
  <2> QED
    BY <2>1, <2>2, LedgerStep
<1> DEFINE HeldNow(i, k) == \E d \in Devices :
              /\ rows'[i] # NoRow /\ rows'[i].person = OwnerOf[d]
              /\ wallet'[d].keys = k \/ <<d, k>> \in lost'
<1>h. \A i \in HolderIDs, k \in WalletKeys : Held(i, k) => HeldNow(i, k)
  BY HeldStep DEF Held
<1> HIDE DEF HeldNow
<1>2. ASSUME NEW bk \in everBound' PROVE HeldNow(bk[1], bk[2])
  <2>1. bk[1] \in HolderIDs /\ bk[2] \in WalletKeys
    BY <1>1
  <2>2. Held(bk[1], bk[2])
    BY <1>1, <2>1, MayBindHeld DEF KeysHeld
  <2> QED
    BY <1>h, <2>1, <2>2
<1>3. ASSUME NEW b \in Requests, bind'[b] # Idle
      PROVE  /\ HeldNow(bind'[b].id, bind'[b].keys)
             /\ bind'[b].pc = "cache" => <<bind'[b].id, bind'[b].keys>> \in everBound'
  <2>1. CASE KeysPosted(b)
    <3>1. PICK d \in Devices : /\ wallet[d].pc = "post" /\ bind'[b].pc = "submit"
                               /\ bind'[b].keys = wallet[d].hand
                               /\ bind'[b].id \in RowsOf(OwnerOf[d])
      BY <2>1 DEF KeysPosted
    <3>2. wallet[d].keys = bind'[b].keys /\ bind'[b].keys \in WalletKeys
      BY <3>1 DEF InHand, Typed, WalletStates
    <3>3. bind'[b].id \in HolderIDs /\ Held(bind'[b].id, bind'[b].keys)
      BY <3>1, <3>2 DEF RowsOf, Seeds, Held
    <3> QED
      BY <1>h, <3>1, <3>2, <3>3
  <2>2. CASE ~KeysPosted(b)
    <3>1. /\ bind[b] # Idle /\ bind'[b].id = bind[b].id /\ bind'[b].keys = bind[b].keys
          /\ \/ bind'[b].pc = bind[b].pc
             \/ bind'[b].pc = "cache" /\ <<bind[b].id, bind[b].keys>> \in everBound'
      BY <1>3, <2>2, RequestStep
    <3>2. bind[b].id \in HolderIDs /\ bind[b].keys \in WalletKeys
      BY <3>1, PostTyped
    <3>3. /\ Held(bind[b].id, bind[b].keys)
          /\ bind[b].pc = "cache" => <<bind[b].id, bind[b].keys>> \in everBound
      BY <3>1 DEF KeysHeld
    <3> QED
      BY <1>h, <1>1, <3>1, <3>2, <3>3
  <2> QED
    BY <2>1, <2>2
<1>4. ASSUME NEW e \in late' \cap Bindings PROVE HeldNow(e.tx.key, e.tx.keys)
  <2>1. e.tx.key \in HolderIDs /\ e.tx.keys \in WalletKeys
    BY DEF Bindings
  <2>2. Held(e.tx.key, e.tx.keys)
    BY <2>1, LateStep, MayBindHeld
  <2> QED
    BY <1>h, <2>1, <2>2
<1>5. ASSUME NEW id \in Seeds', rows'[id].keys # NoKeys PROVE <<id, rows'[id].keys>> \in everBound'
  BY <1>1, <1>5, RowsStep DEF KeysHeld
<1>6. ASSUME NEW id \in HolderIDs, Bound(world', id)
      PROVE  <<id, world'[id].WalletKeys>> \in everBound'
  <2>1. CASE LedgerStays
    BY <1>1, <1>6, <2>1 DEF LedgerStays, KeysHeld
  <2>2. CASE LedgerRegisters
    <3>1. PICK p \in Persons, j \in HolderIDs : Registers(p, j)
      BY <2>2 DEF LedgerRegisters
    <3>2. world'[j] = NewHolder /\ (id # j => world'[id] = world[id])
      BY <3>1, RegisterOnChain
    <3> QED
      BY <1>1, <1>6, <3>2 DEF KeysHeld, Bound, IsHolder, NewHolder
  <2>3. CASE LedgerBinds
    <3>1. PICK j \in HolderIDs, k \in WalletKeys : Binds(j, k)
      BY <2>3 DEF LedgerBinds
    <3>2. /\ world'[j].WalletKeys = k /\ everBound' = everBound \cup {<<j, k>>}
          /\ id # j => world'[id] = world[id]
      BY <3>1, BindOnChain
    <3> QED
      BY <1>6, <3>2 DEF KeysHeld, Bound, IsHolder
  <2>4. CASE ResetLedger
    BY <1>6, <2>4 DEF ResetLedger, Bound, IsHolder, NoRecord, Keys
  <2> QED
    BY <2>1, <2>2, <2>3, <2>4, LedgerStep
<1> QED
  BY <1>2, <1>3, <1>4, <1>5, <1>6 DEF KeysHeld, Held, HeldNow

\* A new binding leaves everyone who asked before behind.
LEMMA UnlessStaleStep ==
  ASSUME RegistryInv, RegistryNext PROVE UnlessStale'
<1> USE DEF RegistryInv
<1>0. CASE ResetLedger
  <2>1. \A id \in HolderIDs : ~Bound(world', id)
    BY <1>0 DEF ResetLedger, Bound, IsHolder, NoRecord, Keys
  <2>2. late' = {} /\ \A b \in Requests : bind'[b] = Idle
    BY <1>0 DEF ResetLedger, Stopped, Interrupted
  <2> QED
    BY <2>1, <2>2 DEF UnlessStale, Idle, RowsOf, Seeds
\* What becomes bound in a step.
<1> DEFINE Fresh(id) == ~Bound(world, id) /\ Bound(world', id)
<1>a. ASSUME ~ResetLedger, NEW id \in HolderIDs, Fresh(id) PROVE LedgerBinds /\ BindStale(id)
  <2>1. ~LedgerStays
    BY <1>a DEF LedgerStays
  <2>2. ~LedgerRegisters
    <3> SUFFICES ASSUME NEW p \in Persons, NEW j \in HolderIDs, Registers(p, j) PROVE FALSE
      BY DEF LedgerRegisters
    <3>1. world'[j] = NewHolder /\ (id # j => world'[id] = world[id])
      BY RegisterOnChain
    <3> QED
      BY <1>a, <3>1 DEF Bound, IsHolder, NewHolder
  <2>3. PICK j \in HolderIDs, k \in WalletKeys : Binds(j, k) /\ BindStale(j)
    BY <1>a, <2>1, <2>2, LedgerStep DEF LedgerBinds
  <2>4. id # j => world'[id] = world[id]
    BY <2>3, BindOnChain
  <2>5. id = j
    BY <1>a, <2>4 DEF Bound, IsHolder
  <2> QED
    BY <1>a, <2>1, <2>2, <2>3, <2>5, LedgerStep
<1>b. CASE ~ResetLedger
  <2>1. ASSUME NEW b \in Requests, bind'[b].pc = "submit", ~bind'[b].stale
        PROVE  ~Bound(world', bind'[b].id)
    <3>1. bind'[b] # Idle
      BY <2>1 DEF Idle
    <3>2. CASE KeysPosted(b)
      <4>1. PICK d \in Devices : /\ wallet[d].pc = "post" /\ ~wallet[d].stale
                                 /\ bind'[b].id \in RowsOf(OwnerOf[d]) /\ LedgerStays
        BY <2>1, <3>2 DEF KeysPosted
      <4> QED
        BY <4>1 DEF UnlessStale, LedgerStays
    <3>3. CASE ~KeysPosted(b)
      <4>1. bind[b] # Idle /\ bind'[b].id = bind[b].id /\ bind[b].pc = "submit" /\ ~bind[b].stale
        BY <2>1, <3>1, <3>3, RequestStep
      <4>2. bind'[b].id \in HolderIDs /\ ~Bound(world, bind'[b].id)
        BY <4>1, PostTyped DEF UnlessStale
      <4> QED
        BY <1>b, <1>a, <2>1, <4>2 DEF BindStale
    <3> QED
      BY <3>2, <3>3
  <2>2. ASSUME NEW e \in late' \cap Bindings, ~e.stale PROVE ~Bound(world', e.tx.key)
    <3>1. ~Bound(world, e.tx.key)
      BY <2>2, LateStep DEF UnlessStale
    <3>2. e.tx.key \in HolderIDs
      BY DEF Bindings
    <3> QED
      BY <1>b, <1>a, <2>2, <3>1, <3>2 DEF BindStale
  <2>3. ASSUME NEW d \in Devices, wallet'[d].pc \in {"public", "post"}, ~wallet'[d].stale,
               NEW id \in Seeds', rows'[id].person = OwnerOf[d]
        PROVE  ~Bound(world', id)
    <3>0. id \in HolderIDs
      BY DEF Seeds
    <3>1. CASE id \notin Seeds
      <4>1. RowInserted /\ rows[id] = NoRow
        BY <3>0, <3>1, RowsStep DEF Seeds
      <4>2. ~Bound(world, id)
        BY <3>0, <4>1 DEF KeysHeld, Held
      <4> QED
        BY <4>1, <4>2 DEF RowInserted
    <3>2. CASE id \in Seeds
      <4>1. id \in RowsOf(OwnerOf[d])
        BY <2>3, <3>2, RowsStep DEF RowsOf
      <4>2. CASE CheckKeys(d) /\ NoneBound(OwnerOf[d]) /\ LedgerStays
        BY <4>1, <4>2 DEF NoneBound, BoundFor, LedgerStays, Bound
      <4>3. CASE wallet[d].pc \in {"public", "post"} /\ ~wallet[d].stale
        <5>1. ~Bound(world, id)
          BY <4>1, <4>3 DEF UnlessStale
        <5>2. ASSUME Fresh(id) PROVE FALSE
          <6>1. wallet' = WalletsBehind(id)
            BY <1>b, <1>a, <3>0, <5>2 DEF BindStale
          <6>2. wallet'[d] = [wallet[d] EXCEPT !.stale = TRUE]
            BY <4>1, <4>3, <6>1 DEF WalletsBehind
          <6>3. wallet[d] \in WalletStates
            BY DEF Typed
          <6> QED
            BY <2>3, <6>2, <6>3 DEF WalletStates
        <5> QED
          BY <5>1, <5>2
      <4> QED
        BY <1>b, <2>3, <4>2, <4>3, PhoneStep
    <3> QED
      BY <3>1, <3>2
  <2> QED
    BY <2>1, <2>2, <2>3 DEF UnlessStale, RowsOf
<1> QED
  BY <1>0, <1>b

LEMMA RestoringStep ==
  ASSUME RegistryInv, RegistryNext PROVE Restoring'
<1> USE DEF RegistryInv
<1> SUFFICES ASSUME ~Serving', server'.fresh
             PROVE  /\ \A e \in late' \cap Bindings : e.tx.keys = rows'[e.tx.key].keys
                    /\ \A id \in Seeds' : IsHolder(world', id) =>
                         /\ world'[id].WalletKeys \in {NoKeys, rows'[id].keys}
                         /\ ~server'.failed /\ id \notin server'.todo =>
                              world'[id].WalletKeys = rows'[id].keys
  BY DEF Restoring
<1>1. CASE ResetLedger
  <2>1. late' = {} /\ \A id \in HolderIDs : ~IsHolder(world', id)
    BY <1>1 DEF ResetLedger, IsHolder, NoRecord, Keys
  <2> QED
    BY <2>1 DEF Seeds
<1>2. CASE ~ResetLedger
  <2>1. /\ ~Serving /\ server.fresh /\ rows' = rows
        /\ server' = server \/ BootstrapStep \/ (server.todo = {} /\ LedgerStays)
    BY <1>2, ServerStep DEF Serving
  <2>2. Seeds' = Seeds
    BY <2>1 DEF Seeds
  <2>3. ASSUME NEW id \in HolderIDs, NEW k, MayBind(id, k) PROVE k = rows[id].keys
    <3>1. \A b \in Requests : bind[b].pc # "submit"
      BY <2>1 DEF Quiet, Idle
    <3> QED
      BY <2>1, <2>3, <3>1 DEF MayBind, Restoring
  <2>4. \A e \in late' \cap Bindings : e.tx.keys = rows'[e.tx.key].keys
    <3>1. \A e \in Bindings : e.tx.key \in HolderIDs
      BY DEF Bindings
    <3> QED
      BY <2>1, <2>3, <3>1, LateStep
  <2>5. ASSUME NEW id \in Seeds, IsHolder(world', id)
        PROVE  \/ world'[id] = world[id]
               \/ world'[id].WalletKeys = rows[id].keys
               \/ world'[id] = NewHolder /\ ~IsHolder(world, id) /\ LedgerRegisters
    <3>0. id \in HolderIDs
      BY DEF Seeds
    <3>1. CASE LedgerStays
      BY <3>1 DEF LedgerStays
    <3>2. CASE LedgerRegisters
      <4>1. PICK p \in Persons, j \in HolderIDs : Registers(p, j)
        BY <3>2 DEF LedgerRegisters
      <4>2. world[j] = NoRecord /\ world'[j] = NewHolder /\ (id # j => world'[id] = world[id])
        BY <3>0, <4>1, RegisterOnChain
      <4> QED
        BY <3>2, <4>2 DEF IsHolder, NoRecord
    <3>3. CASE LedgerBinds
      <4>1. PICK j \in HolderIDs, k \in WalletKeys : Binds(j, k) /\ MayBind(j, k)
        BY <3>3 DEF LedgerBinds
      <4>2. world'[j].WalletKeys = k /\ (id # j => world'[id] = world[id])
        BY <3>0, <4>1, BindOnChain
      <4> QED
        BY <2>3, <4>1, <4>2
    <3> QED
      BY <1>2, <3>1, <3>2, <3>3, LedgerStep
  <2>6. ASSUME NEW id \in Seeds, IsHolder(world', id)
        PROVE  world'[id].WalletKeys \in {NoKeys, rows[id].keys}
    <3>1. CASE world'[id] = world[id]
      <4>1. IsHolder(world, id)
        BY <2>6, <3>1 DEF IsHolder
      <4> QED
        BY <2>1, <3>1, <4>1 DEF Restoring
    <3>2. CASE world'[id] = NewHolder
      BY <3>2 DEF NewHolder
    <3> QED
      BY <2>5, <2>6, <3>1, <3>2
  <2>7. ASSUME NEW id \in Seeds, IsHolder(world', id), ~server'.failed, id \notin server'.todo
        PROVE  world'[id].WalletKeys = rows[id].keys
    <3>0. id \in HolderIDs
      BY DEF Seeds
    <3>1. CASE BootBind(id) \/ BootSkip(id)
      <4>1. CASE BootBind(id)
        <5>1. rows[id].keys \in WalletKeys
          BY <4>1 DEF BootBind, Typed, Seeds, FullRows
        <5> QED
          BY <3>0, <4>1, <5>1, BindOnChain DEF BootBind
      <4>2. CASE BootSkip(id)
        BY <2>1, <4>2 DEF BootSkip, Restoring
      <4> QED
        BY <3>1, <4>1, <4>2
    <3>2. CASE ~(BootBind(id) \/ BootSkip(id))
      <4>1. ~server.failed /\ id \notin server.todo
        BY <1>2, <2>1, <2>7, <3>2, ServerStep DEF Serving
      <4>2. IsHolder(world, id) /\ world[id].WalletKeys = rows[id].keys
        BY <2>1, <4>1 DEF Restoring, OnChain
      <4> QED
        BY <2>5, <2>7, <4>2
    <3> QED
      BY <3>1, <3>2
  <2> QED
    BY <2>1, <2>2, <2>4, <2>6, <2>7
<1> QED
  BY <1>1, <1>2

-----------------------------------------------------------------------------
(* The theorems. *)

LEMMA RegistryInvInit == RegistryInit => RegistryInv
<1> SUFFICES ASSUME RegistryInit PROVE RegistryInv
  OBVIOUS
<1> USE DEF RegistryInit
<1>1. Seeds = {}
  BY DEF Seeds
<1>2. TypeOK /\ \A id \in HolderIDs : ~IsHolder(world, id)
  BY DEF Init, TypeOK, Records, Keys, IsHolder, NoRecord
<1>3. wallet \in [Devices -> WalletStates] /\ \A d \in Devices : wallet[d].pc = "start"
  BY DEF NewWallet, WalletStates
<1>a. Minted
  BY DEF Minted, NewWallet
<1>4. Typed
  BY <1>1, <1>2, <1>3, FS_EmptySet DEF Typed
<1>5. Quiet /\ OnChain
  BY <1>1 DEF Quiet, OnChain, Serving
<1>6. RegistrationsFit
  BY <1>1 DEF RegistrationsFit, Idle
<1>7. InHand /\ KeysHeld /\ UnlessStale
  BY <1>1, <1>2, <1>3 DEF InHand, KeysHeld, UnlessStale, Idle, Bound
<1>8. Restoring
  BY DEF Restoring, Serving
<1> QED
  BY <1>a, <1>4, <1>5, <1>6, <1>7, <1>8 DEF RegistryInv

LEMMA RegistryInvStep ==
  RegistryInv /\ [RegistryNext]_registryVars => RegistryInv'
<1> SUFFICES ASSUME RegistryInv, [RegistryNext]_registryVars PROVE RegistryInv'
  OBVIOUS
<1>1. CASE RegistryNext
  BY <1>1, TypedStep, QuietStep, OnChainStep, RegistrationsFitStep, MintedStep, InHandStep, KeysHeldStep,
     UnlessStaleStep, RestoringStep DEF RegistryInv
<1>2. CASE UNCHANGED registryVars
  <2>1. Typed'
    BY <1>2, TypedStep
  <2>2. Quiet' /\ OnChain' /\ RegistrationsFit'
    BY <1>2 DEF RegistryInv, registryVars, backend, requests, Quiet, OnChain, RegistrationsFit,
       Serving, Seeds, IsHolder
  <2>3. Minted' /\ InHand' /\ KeysHeld'
    BY <1>2 DEF RegistryInv, registryVars, Minted, backend, requests, InHand, KeysHeld, Held, Seeds,
       Bound, IsHolder
  <2>4. UnlessStale' /\ Restoring'
    BY <1>2 DEF RegistryInv, registryVars, backend, requests, UnlessStale, Restoring,
       Serving, Seeds, RowsOf, Bound, IsHolder
  <2> QED
    BY <2>1, <2>2, <2>3, <2>4 DEF RegistryInv
<1> QED
  BY <1>1, <1>2

LEMMA RegistryInvHolds == RegistrySpec => []RegistryInv
BY RegistryInvInit, RegistryInvStep, PTL DEF RegistrySpec

\* Every holder, row and wallet has its type, wallets keep pairs that were made
\* (RegistryTypeOK), and bootstrap replays rows of MySQL.
THEOREM RegistryTypeOKHolds == RegistrySpec => []RegistryTypeOK
<1>1. RegistryInv => RegistryTypeOK
  <2> SUFFICES ASSUME RegistryInv PROVE RegistryTypeOK
    OBVIOUS
  <2>1. \A id \in Seeds : rows[id] \in FullRows
    BY DEF RegistryInv, Typed, Seeds
  <2>2. \A d \in Devices :
          wallet[d] \in [pc : {"start", "public", "post", "posted"},
                        keys : minted \cup {NoKeys}, public : BOOLEAN,
                        hand : WalletKeys \cup {NoKeys}, stale : BOOLEAN]
    <3> SUFFICES ASSUME NEW d \in Devices
                 PROVE  wallet[d] \in [pc : {"start", "public", "post", "posted"},
                                      keys : minted \cup {NoKeys}, public : BOOLEAN,
                                      hand : WalletKeys \cup {NoKeys}, stale : BOOLEAN]
      OBVIOUS
    <3>1. wallet[d] \in WalletStates /\ wallet[d].keys \in minted \cup {NoKeys}
      BY DEF RegistryInv, Typed, Minted
    <3> QED
      BY <3>1 DEF WalletStates
  <2> QED
    BY <2>1, <2>2 DEF RegistryInv, Typed, Quiet, RegistryTypeOK, FullRows
<1> QED
  BY <1>1, RegistryInvHolds, PTL

\* Whatever calls, rows and the counter's seed come to, a row of MySQL leads to the
\* chain record of the same person, and keeps no pair that was never bound
\* (RowsNameTheirHolder).
THEOREM RowsNameTheirHolderHolds == RegistrySpec => []RowsNameTheirHolder
<1>1. RegistryInv => RowsNameTheirHolder
  BY DEF RegistryInv, RegistrationsFit, KeysHeld, RowsNameTheirHolder
<1> QED
  BY <1>1, RegistryInvHolds, PTL

\* The private keys of every pair ever bound are, or were until a reinstallation,
\* on a phone of the holder (BoundKeysAreHeld).
THEOREM BoundKeysAreHeldHolds == RegistrySpec => []BoundKeysAreHeld
<1>1. RegistryInv => BoundKeysAreHeld
  BY DEF RegistryInv, KeysHeld, Held, BoundKeysAreHeld
<1> QED
  BY <1>1, RegistryInvHolds, PTL

\* After a run of bootstrap without failures every row has its holder on the new
\* ledger, with the pair that MySQL had (BootstrapRestores).
THEOREM BootstrapRestoresHolds == RegistrySpec => []BootstrapRestores
<1>1. RegistryInv => BootstrapRestores
  BY DEF RegistryInv, OnChain, RegistrationsFit, Restoring, BootstrapRestores
<1> QED
  BY <1>1, RegistryInvHolds, PTL

\* Bound keys are replaced only by a wallet that asked before they were bound, or
\* by bootstrap (OverwritesNeedOverlap).
THEOREM OverwritesNeedOverlapHolds == RegistrySpec => OverwritesNeedOverlap
<1> DEFINE Overwrite(id) ==
      Bound(world, id) /\ Bound(world', id) /\ world'[id] # world[id]
         => \/ \E e \in InFlight \cup late :
                 /\ e.tx.fn = "bindHolderKeys" /\ e.tx.key = id /\ e.stale
                 /\ e.tx.keys = world'[id].WalletKeys
            \/ ~Serving /\ rows[id].keys = world'[id].WalletKeys
<1>1. ASSUME RegistryInv, RegistryNext, NEW id \in HolderIDs PROVE Overwrite(id)
  <2> SUFFICES ASSUME Bound(world, id), Bound(world', id), world'[id] # world[id]
               PROVE  \/ \E e \in InFlight \cup late :
                           /\ e.tx.fn = "bindHolderKeys" /\ e.tx.key = id /\ e.stale
                           /\ e.tx.keys = world'[id].WalletKeys
                      \/ ~Serving /\ rows[id].keys = world'[id].WalletKeys
    OBVIOUS
  <2> USE <1>1 DEF RegistryInv
  <2>1. ~ResetLedger
    <3>1. ResetLedger => ~IsHolder(world', id)
      BY DEF ResetLedger, IsHolder, NoRecord, Keys
    <3> QED
      BY <3>1 DEF Bound
  <2>2. ~LedgerStays
    BY DEF LedgerStays
  <2>3. ~LedgerRegisters
    <3> SUFFICES ASSUME NEW p \in Persons, NEW j \in HolderIDs, Registers(p, j) PROVE FALSE
      BY DEF LedgerRegisters
    <3>1. world'[j] = NewHolder /\ (id # j => world'[id] = world[id])
      BY RegisterOnChain
    <3> QED
      BY <3>1 DEF Bound, NewHolder
  <2>4. PICK j \in HolderIDs, k \in WalletKeys : Binds(j, k) /\ MayBind(j, k)
    BY <2>1, <2>2, <2>3, LedgerStep DEF LedgerBinds
  <2>5. j = id /\ world'[id].WalletKeys = k
    BY <2>4, BindOnChain
  <2>6. CASE \E b \in Requests : bind[b].pc = "submit" /\ bind[b].id = j /\ bind[b].keys = k
    <3>1. PICK b \in Requests : bind[b].pc = "submit" /\ bind[b].id = j /\ bind[b].keys = k
      BY <2>6
    <3>2. bind[b].stale /\ BindingOf(b) \in InFlight
      BY <2>5, <3>1 DEF UnlessStale, InFlight
    <3>3. /\ BindingOf(b).tx.fn = "bindHolderKeys" /\ BindingOf(b).tx.key = id
          /\ BindingOf(b).stale /\ BindingOf(b).tx.keys = k
      BY <2>5, <3>1, <3>2 DEF BindingOf, Binding, BindTx
    <3> QED
      BY <2>5, <3>2, <3>3
  <2>7. CASE \E e \in late \cap Bindings : e.tx.key = j /\ e.tx.keys = k
    <3>1. PICK e \in late \cap Bindings : e.tx.key = j /\ e.tx.keys = k
      BY <2>7
    <3>2. e.stale
      BY <2>5, <3>1 DEF UnlessStale
    <3>3. e.tx.fn = "bindHolderKeys"
      BY DEF Bindings
    <3> QED
      BY <2>5, <3>1, <3>2, <3>3
  <2> QED
    BY <2>4, <2>5, <2>6, <2>7 DEF MayBind
<1>2. ASSUME UNCHANGED registryVars, NEW id \in HolderIDs PROVE Overwrite(id)
  BY <1>2 DEF registryVars
<1>3. RegistryInv /\ [RegistryNext]_registryVars => [\A id \in HolderIDs : Overwrite(id)]_registryVars
  BY <1>1, <1>2
<1> QED
  BY <1>3, RegistryInvHolds, PTL DEF RegistrySpec, OverwritesNeedOverlap
=============================================================================
