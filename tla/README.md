# QChain in TLA+

QChain issues academic credentials on a Hyperledger Fabric channel. An issuer's
Go backend signs a commitment to each credential with ML-DSA, keeps the
encrypted body on IPFS and a copy of what it needs in MySQL, and writes the
signed commitment to the ledger through a JavaScript contract. Holders keep
their keys in a Flutter wallet and post signed presentations; verifiers redeem
a short-lived token for a verdict.

These modules model the contract, the way Fabric executes it for concurrent
callers, the issuer's credential handlers, the presentation sessions,
subscriptions and alerts, the registration of holders with their wallets'
keys, the portal's and the wallet's reads of many credentials, and the staff
tables with their audit log. TLC checks them on small instances; TLAPS proves,
for every value of the constants, nearly every safety property of the contract,
the network, the credential handlers, the presentation sessions, the
subscriptions and their alerts, the registration of holders and the staff tables.

## Inventory

| Part | State | Operations | Speaks to |
|---|---|---|---|
| Contract, `chaincode/QChaincode.js` | world state: holder records (names, keys), credential records (commitment, signature, status, stamps) | `registerHolder`, `bindHolderKeys`, `issueCredential`, `updateExpiry`, `revokeCredential`, `suspendCredential`, `restoreCredential`; four queries | called by peers to simulate a transaction |
| Fabric network (external) | versions of keys, endorsed transactions, blocks | endorse, order, validate, commit; report the status | contract; gateway client |
| Gateway client, `chain.go`, `fabric.go` | one connection per call | `chainSubmit`, `chainEvaluate`, batch reads | network; every handler |
| Credential handlers, `credentials.go`, `db_credentials.go`, `db.go` | MySQL `credentials`, `credential_events`, `alerts`; in-memory display counter | issue, revoke, suspend, restore, update; listings | gateway, MySQL, IPFS |
| Commitments, `commitment.go`, `crypto.go` | none | commit, sign, recompute | handlers, verifier |
| Sessions and verification, `mobile.go`, `db_mobile.go`, `verification.go`, `db_verification.go` | MySQL `mobile_sessions`, `verification_logs` | generate OTP or QR, resolve, verify | wallet, portal, gateway, MySQL |
| Subscriptions and alerts, `subscriptions.go`, `db_subscriptions.go`, `db_util.go` | MySQL `subscriptions`, `alerts` | request, approve, reject, delete, unsubscribe, raise, acknowledge | portal, wallet, status handlers |
| Holders, `db_holders.go`, parts of `credentials.go` and `mobile.go` | MySQL `holders`; in-memory holder counter | register, check keys, bind keys | gateway, MySQL, wallet |
| Bootstrap, `bootstrap.go` | none | replay MySQL holders to the chain | gateway, MySQL |
| Staff, `staff.go`, `db_staff.go`, `db_audit.go` | MySQL `staff`, `portal_audit_log` | invite, change role, soft-delete, count | MySQL |
| Reads of many credentials, `chainReadCredentials` of `chain.go`, `credentials.go` 519-729, `dashboard.go` | none | list and page, show one, count, fetch the wallet | gateway, MySQL |
| Envelopes, `envelope.go`, `kem.go` | none | seal to the holder's key | issue handler |
| Server, configuration | routes, settings | | |
| Wallet (`UI_App`) | key pairs in secure storage; the list of credentials | onboard keys, present, decide on subscriptions, load the list, decrypt, mark favourites, fetch documents | HTTP API |
| Portal (`UI_WebApp`), gateway, scripts | user interface | | HTTP API |

What is hard here is concurrency without transactions. A handler is a goroutine
that reads the chain, decides, has a transaction simulated on a later state and
committed on a later one still, and then runs several MySQL statements, none of
them in a database transaction and most of them with errors that are only
logged. The commit-status timeout may end a call whose transaction commits
afterwards; the backend may die between any two steps and re-seeds its counters
from MySQL. Sessions are read, verified against a chain that keeps moving, and
deleted by token. Reads are no safer: a list is read batch by batch from a
chain that moves, a dashboard is a series of counts, and the phone keeps
indices into a list that is replaced under it. `PROJECT.json` lists these hazards one by one, each at its
line with the properties that would catch it.

What makes each part correct:

* contract: records stay well-formed, credentials belong to bound holders,
  stamps and status agree, revocation is final;
* network: overlapping calls amount to calls one after another; what a caller
  is told is true;
* handlers: signatures on chain always cover the record, MySQL never shows what
  the chain never was, a display ID drawn is free and never passes to another
  credential, nothing is lost short of a fault, a 200 is true, every request is
  answered;
* sessions: a revoked credential is never verified, the reason is the most
  important one, tokens do not change hands, a redeemed session is gone; the
  log has every verdict, and the history shows what the answer said;
* subscriptions: only the holder decides, decisions stand, alerts are true and
  are not lost;
* holders: MySQL and chain mean the same person by an identifier, bound keys are
  held by a phone and are not replaced blindly, bootstrap brings them back;
* reads: what is shown is what the chain said at some time of the read, once
  and in order; attributes and favourites belong to the card they are shown on;
* staff: what was answered stays so, one person is invited once, and the audit
  log says what happened.

## Modules

```
CredentialLifecycle            abstract: one credential's life
   ^ implemented by (INSTANCE, per credential)
QChaincode                     the contract, one transaction at a time
   ^ implemented by (SerializedCommits)          ^ environment of
FabricLedger                   endorse / commit  MobileSessions   sessions, verdicts
   ^ composed with
CredentialHandlers             the issuer's handlers over ledger and MySQL

QChaincode <- HolderRegistry   registration, wallets' keys, bootstrap
CredentialLifecycle <- Subscriptions <- SequentialIDs
                               monitoring, alerts, MAX-based identifiers
SequentialIDs <- Staff         staff, audit log, the dashboard's staff counts
VerificationLog <- MobileSessions
                               the log's rows and what is read from them
Listings <- MobileWallet       reads in batches; the phone's list
```

| Module | Code | State and actions |
|---|---|---|
| `CredentialLifecycle` | what `QChaincode.js` promises of a credential | `status`; `Issue`, `Suspend`, `Restore`, `Revoke` |
| `QChaincode` | `QChaincode.js` 39-433, commitments of `commitment.go` | `world`, a function from keys to records; one action per transaction. `Accepts` is everything a transaction may throw on, `Written` the record it puts, `ReadKeys` the keys it reads |
| `FabricLedger` | `chainSubmit`, `withContract`, `getContract`; Fabric itself is external | adds `version`, `mempool`, `committed`, `used` and `call`; `Endorse`, `Refuse`, `PeerUnreachable`, `Commit`, `Discard`, `StatusTimeout`, `Return`, `ClientsCrash` |
| `CredentialHandlers` | the five writing handlers of `credentials.go`, their statements, `initDB` | each request is a program counter that walks `submit`, `wait`, then `insert`/`event` or `mark`/`alert`/`event` or `mark`/`email`; every statement has an action for its failure; `BackendRestarts` with a counter seeded from the table, `BackendRestartsUnseeded` with one whose query failed, `Tick` |
| `MobileSessions` | generate and resolve handlers of `mobile.go`, `db_mobile.go`, `verifyPresentation` | `sessions` by token, `gen` and `res` as program counters of concurrent requests, a clock; `ChainMoves` is any transaction of the contract but an issue (an identifier made of a transaction ID is never issued again), `LedgerReset` an empty ledger |
| `SequentialIDs` | the generators of `db_util.go` | none: the next identifier after the largest, as strings sort |
| `Subscriptions` | `subscriptions.go`, `db_subscriptions.go`, approve and reject of `mobile.go`, `raiseSubscriptionAlert` | `subs`, `alerts`; each portal request and each status handler is a program counter over its statements; a wallet remembers the request it shows. The chain is `CredentialLifecycle` |
| `HolderRegistry` | `handleRegisterHolder`, `handleCheckKeys`, `handleRegisterHolderKeys`, `db_holders.go`, `bootstrap.go`, the wallet's `onboard_3_screen.dart` | `rows`, `names`, `wallet`, `bind`, `late`, the holder counter; `ResetLedger`, `RunBootstrap` and a bootstrap that goes through the rows one by one |
| `VerificationLog` | `logVerificationToDB`, the mappings of `verification.go`, `recentVerifications` | none: a row from an outcome, and the words, filters and checks made of a row |
| `Listings` | `chainReadCredentials` and `chunkIDs`, `handleGetAllCredentials`, `handleGetCredentialDetail`, `credentialStatsFromSnapshot` | `chain`, `expired`, `rows`, and per request the batches left and the snapshot so far; the chain, the clock and the issuer's rows move between batches |
| `MobileWallet` | `wallet_controller.dart`, and of `mobile.go` `getCredentialsByHolder`, `toggleFavorite`, `fetchDocument` | adds `credentials`, the phone's list; loads, decryptions and taps are requests that overlap, time out and end in any order |
| `Staff` | `staff.go`, `db_staff.go`, `insertAuditLog`, the staff counts of `dashboard.go` | `staff`, `audit`, per request a program counter over its statements, and `dash`, the counts read so far |
| `QChaincodeProofs`, `FabricLedgerProofs`, `CredentialHandlersProofs`, `MobileSessionsProofs`, `SubscriptionsProofs`, `HolderRegistryProofs`, `StaffProofs`, `MobileWalletProofs` | | the theorems about the module of that name; `MobileWalletProofs` is about `Listings` too |
| `MC*` | | symmetry sets for TLC |

How the code's data is abstracted:

* A **signature**, like a stored hash, is the commitment it was made of. Both
  arrive with the backend's transaction and the contract compares neither with
  the record, so that in `QChaincode` they may be of any body, expiry and
  holder. The verifier checks them apart, each against the commitment it
  recomputes from the record: `SignatureValid` and `HashMatches`. `Bodies`
  stands for credential type, issue time, issuer, CID and field hashes.
* A **transaction** is a record with the function's name and arguments;
  `admissible` says whether the checks that look at no state pass (formats,
  lengths, the clock skew of a timestamp, the caller's organisation).
* A **key's version** is the transaction that last wrote it, and a transaction
  ID doubles as the identifier of the credential it issues, because the
  contract derives `CRED-<txID>`.
* In `CredentialHandlers` a **display ID** `CRED-0007` is the number 7; the row carries the chain
  identifier and the cached columns the properties speak about.
* **Dates** are small numbers, and 0 is "no expiry". In `MobileSessions` one
  clock serves both session deadlines and expiry dates.
* A call of `HolderRegistry` is one step of the contract, which is what
  `SerializedCommits` allows; one that failed may leave its transaction in
  `late`. `Subscriptions` starts when the credentials have been issued, without
  expiry dates, and a status change is one step of the life cycle.
* An **identifier** of `SequentialIDs` is its number; `Wide` is the first that
  outgrows the padding, and `Precedes` the order of the padded strings.
* In `Listings` a **credential** is the place of its display ID among all of them
  as strings sort (`CRED-10000` before `CRED-9999`), which is how
  `credentials.go:602` and MySQL compare them; the chain is its stored status, and expiry a set of credentials whose date has passed. There
  is one holder and one organisation; a service of the catalog is the set of
  credentials its pattern matches. The rows come in the order of the primary
  key, and a credential's body is the credential it was decrypted from.
* A **member of staff** is known by an email. `Staff` keeps of an audit row the
  action, the member and the portal named.
* Ghost variables (`history`, `mishap`, `misseeded`, `serial`, `verdicts`, `closed`, `lost`,
  `unlogged`, `moves`, `changes`, `owed`, `everBound`, `told`, `between`,
  `mixed`, `misplaced`, and the fields `seen`, `stale`, `was`, `crossed`,
  `moved`, `shifted`, `from`, `revoked` and `failed`) record what happened, and no guard of
  the code's actions reads them, bounds apart.

Atomicity follows the code: one action per gateway call phase and one per MySQL
statement. Two reads are joined with the step before them because nothing that
happens between can be told apart: the display ID's row lookup with the chain
read (the row's chain identifier never changes), and in `CredentialHandlers` the
subscription lookup with the alert's insert (the set of subscriptions is
constant there; `Subscriptions` separates them). The wallet's answer from
`checkKeys` and the pair it makes of it are one step, since between them only
the phone's own storage is touched; registering the pair is a later one. In
`MobileSessions` the verdict and the row it gives are one step, the insert the
next. A query of one statement reads one state of MySQL.

## Runs

| Run | What it shows | Bounds |
|---|---|---|
| `ledger` | the contract's transactions as overlapping calls run them, with timeouts, late commits, invalidation and crashes: `LedgerTypeOK` (which contains `TypeOK`), `RevokedIsFrozen` (a revocation may come between a transaction's simulation and its commit), `ImplementsLifecycle` for each credential, and `SerializedCommits`: the network implements the contract | 2 clients, 1 holder, 5 transaction IDs: registration, keys, issue and two status changes of one credential, or two credentials and one |
| `ledger_error` | violation: an error although the transaction commits | 1 client |
| `handlers` | two handlers, failing statements, timeouts, restarts (the seeding query may fail), midnight: `CommitmentIntact`, `RowsShowChain`, `DisplayIDsFresh`, `DisplayIDsStand`, `NothingLost`, `OkIsOnChain`; and every accepted request is answered, `RequestsAnswered` | 2 requests after a first credential, in every overlap, 2 days, 1 holder, a transaction ID for every request, so that none is short; two are what it takes for one to overtake the other on a credential, or for an issue to fail and the next to draw again; no symmetry, for the sake of liveness |
| `display_ids` | violation: a display ID drawn that has a row, `NeverReusesDisplayID` | 1 handler, 1 request after a first credential, restarts |
| `sessions` | token reuse, redeemed sessions, the log: `UsedUpAfterAnswer`, `TokenKeepsSession`, `LostOnlyByOverlap`, `HistoryTellsVerdict` | 2 wallets and 2 verifiers on 1 token, 2 sessions, 2 wallet keys (a wrong signature), one move of the chain, clock 0..2 |
| `verdicts` | verdicts and reasons while the chain keeps moving: `VerdictIsRight`; and `StampsMatchStatus` through any three changes of a credential | 1 wallet, 1 verifier, 1 session, 2 wallet keys, 2 expiries, clock 0..2; 3 moves of the chain: signature, stored hash, status or wallet key may go wrong before the request comes, a revocation may be what it sees, and there is a move left while it is served |
| `sessions_single_use` | violation: one session, two verdicts | nothing fails |
| `subscriptions` | who decides, what a decision is worth, duplicates, alerts: `DecidedByItsHolder`, `DecisionsStand`, `DuplicatesNeedOverlap`, `AlertsAreTrue`, `AlertRaised` | 2 portal requests, 2 wallets, 2 status handlers, 2 credentials; 3 requests (so that an identifier is deleted and given again) and 2 status changes; identifiers keep their width |
| `alerts_lost` | violation: alerts lost for good once identifiers outgrow their padding | 1 handler, nothing fails; one digit stands for three (`Wide` = 10), 11 status changes |
| `holders` | registration, onboarding, bootstrap: `RowsNameTheirHolder` (with the keys a row caches), `BoundKeysAreHeld`, `OverwritesNeedOverlap`, `BootstrapRestores` | 2 persons, 2 identifiers, 2 phones, 2 key pairs, 2 posts, 1 reinstallation, 1 run of bootstrap, 1 late transaction at a time: two of each is what an overlap takes |
| `staff` | invitations, role changes, removals, audit rows, staff counts: `InvitedOnce`, `AnswersHold`, `AuditTrue`, `DashboardAddsUp` | 2 requests at a time, 3 in all, 2 newcomers besides the 2 seeded administrators, 1 role besides theirs in each portal: enough to invite one twice, or to invite, move and remove one; with faults |
| `wallet` | lists, counts, details, the wallet and its requests: `ReadsTellTheChain`, `AttributesOfTheCard`, `FavouritesAgree`, `FetchTellsTruth` | 4 credentials, 3 of them issued, 2 at the same time; batches of 2 (a full one, and one cut short), the first 2 pages of 2, 2 requests at a time, 3 in all, 1 move of chain or clock |

Bounds named in the modules: `MaxRequests`, `MaxDay`, `MaxNow`, `MaxSessions`,
`MaxMoves`, `MaxChanges`, `MaxRuns`, `MaxWipes`, `MaxPosts`, `MaxLate`, and the
finite sets of the constants. A ghost counter,
`verdicts`, stops at 2, "more than one". `CHECK_DEADLOCK FALSE` stands in the
configurations whose requests run out; the ledger is checked for deadlock.

The four violations are disagreements between the code and what its comments or
tests say; `PROJECT.json` quotes the lines:

* `chain.go` says an error of `chainSubmit` means that nothing was written; the
  commit-status timeout makes it otherwise.
* `db.go` says that the display counter is seeded "so we never re-use a display
  ID". The error of the seeding query is dropped; when it fails the counter
  starts at 1 again and an issue draws an identifier that has a row. The insert
  is refused, the credential is on chain without a row. `DisplayIDsFresh` shows
  that nothing else makes a drawn identifier a taken one, and `DisplayIDsStand`
  that even then the old row stays what it was.
* The end-to-end test says sessions are single-use; two overlapping resolves
  both redeem one. Beyond that, the slower of the two may delete a session that
  was created since under the same token. `LostOnlyByOverlap` shows that this is
  the only way an unredeemed session disappears.
* `subscriptions.go` says a change of a monitored credential raises an alert, and
  `db_util.go` that MAX-based identifiers are safe at low concurrency. MAX is
  taken over strings, where `ALT-999` sorts after `ALT-1000`: from then on every
  alert gets `ALT-1000`, is refused by the primary key and only logged. Below
  that bound `AlertRaised` holds: nothing but a race of two alerts or a failing
  statement loses one.

What the models show besides, and no comment of the repository denies outright:

* Of two overlapping status changes the one that committed first may update the
  row last: the row's status then stays behind the chain's for good, with
  nothing failing. The APIs report the chain's status, so that only readers of
  the table see it. `RowsShowChain` says no more than that the row's status was
  on chain once.
* A display ID whose insert failed, or was cut short by a restart, may be drawn
  again: the seed is the largest that has a row. Nobody was told of it.
* Two phones of one holder that onboard at the same time both make keys, and the
  later one wins: `OverwritesNeedOverlap` shows that it takes such an overlap, or
  a run of bootstrap with a stale cache. A wallet that is killed after it has
  stored its private keys and before it has stored the public ones can neither
  register them nor make others until its data is cleared.
* A member of staff who was removed can never be invited again: the look-up of
  the email counts deleted rows, though its message says "already invited or
  active". A role change is applied to a member removed in the meantime, and to
  an administrator, whom the endpoint says it does not modify.
* The filter "tampered" of the history finds bad signatures only (the source
  says so); rows with a wrong stored hash, wrong field values or a wrong holder
  signature are listed as tampered and found by no filter. `hashMatches` in the
  detail view is what the answer called the result of the field hashes
  (`mobile.go:812`, `verification.go:304`), and not whether the stored hash
  equals the recomputed one (`verification.go:18`): altered values are shown
  there with a hash that does not match, and a stored hash that does not match is
  shown as matching. A verdict whose row meets another of the same millisecond is
  answered and not logged.
* The phone takes an error answer to its list (a 502 of a batch that failed) for
  an empty wallet. A card that is decrypted while the list is loaded anew puts
  its attributes into whatever card has its old index, and reports success.
  `AttributesOfTheCard` shows that it takes a load that moved that very card:
  the index is right for as long as no load has. A favourite whose answer comes
  late is flipped on one side only.
* A list judges the statuses it has read by the clock at its end: a credential
  read active, suspended since and then past its expiry is shown expired, which
  it never was. The ghost of `ReadsTellTheChain` allows for that.

## Fairness

Only `RequestsAnswered` needs any. `FairCredentialSpec` asks that a handler whose
next step is possible takes it (goroutines are scheduled, and every MySQL call
returns with a result or an error) and that the commit-status timer of a waiting
call runs out (`client.WithCommitStatusTimeout`, `fabric.go:134`). The network
owes nothing: endorsed transactions may stay in the mempool for ever. Callers
owe nothing either.

## Proofs

`QChaincodeProofs` proves for any sets of holders, credentials, keys and dates:
`TypeCorrect`, `StampsAlwaysMatch`, `HolderAlwaysBound`, `RevokedStaysFrozen` and
`ChaincodeImplementsLifecycle`. The invariants are inductive together with
`TypeOK`; the frozen revocation and the life cycle follow step by step from
`Accepts` and `Written`.

`FabricLedgerProofs` proves, for any number of clients and transactions, that
the network implements the contract (`LedgerImplementsChaincode`), and so that
the contract's theorems hold of it (`RevokedStaysFrozenOnNetwork`,
`StampsMatchOnNetwork`). `SerializedCommits` is not an invariant: it follows
because a commit whose read versions are current writes what the contract would
write now. The inductive invariant `LedgerInv` says why. To `LedgerTypeOK` and
`UniqueTransactions` it adds, for every pending transaction, that if the
versions it read are in force then the world state gives its keys the values it
saw (`EndorsementStillHolds` in the form of `Accepts` and `Written`). A commit
gives a key a version nobody has read, since identifiers are never drawn twice:
that is where `UniqueTransactions` is needed. The proofs rest on the named assumptions about the
constants only: that holder and credential identifiers, the missing record and
the genesis version are different things.

`CredentialHandlersProofs` proves, for any number of handlers and requests and
with everything that may fail failing, that every credential on chain verifies
(`CommitmentsVerify`) and that no handler, late commit or restart thaws a revoked
one (`RevokedStaysFrozenInBackend`). A handler signs what it read some time
before its transaction is simulated, and that is simulated some time before it
commits. `HandlersInv` adds to `LedgerInv` why the signature still fits: what a
request is about to submit, and every transaction in the mempool, is signed over
the holder and body of the record it will write (`Backed`), and no transaction
of the contract changes these once the credential is there, while the expiry
date signed is the one written.

The same module proves that a 200 is true (`OkAnswersAreTrue`): the transaction
it answers, or for an update the expiry, is in the ledger, and a revocation it
reports stands. `AnswersInv` follows a transaction to its answer. While a call
waits, any entry of the mempool under its transaction ID holds the very
transaction its request has decided on (`Pending`), which identifiers drawn once
make true; when the entry commits, history and world state show that transaction
(`Settled`), and neither forgets it, since history only grows and a revoked
record is frozen. An update that leaves the expiry as it is submits nothing and
answers 200: it relies on the record it read, and so the history must hold the
record of every credential on chain (`HistoryCurrent`).

The rest of that module proves what the handlers leave in MySQL:
`HandlersTypeCorrect`, `RowsShowOnlyTheChain`, `DisplayIDsStayFresh`,
`DisplayIDsStandForGood` and `NothingIsLost`. Freshness and loss are about every request at once, and
each needs a count. For every credential and every function, the transactions
the history has seen (`Done`) are those whose event is in the trail (`Noted`)
and those somebody has still to record (`Owed`): never more, and exactly as many
as long as nothing failed (`Balanced`). A step of a handler changes the account
of one credential by one and moves one request, so that most of the argument is a
table of what each step does to one request (`Turn`) and to the accounts. That a
credential gets one row follows from the transaction ID it is named by
(`Minted`), and that what a row shows was on chain from what is still owed to it
(`PastShows`): a handler may write a status only after its transaction has
committed. For the display IDs, what handlers have drawn since the last start is at or
below the counter, each number drawn once, and so are the rows unless the seeding
query failed at that start, which `misseeded` records (`Ahead`); whether it may
fail is left open. That an identifier never passes on needs no such condition:
an insert is made only where there is no row. Requests left and requests issuing
bound what can be drawn yet (`Drawn`), so that the finite set `DisplayIDs` is never exhausted.

`MobileSessionsProofs` proves the properties of the sessions for any number of
tokens, wallets, verifiers and sessions. `SessionInv` adds to them that a
request's session is under its token or nowhere (`RequestNamesSession`), that a
session answered and deleted is not in the table (`ClosedIsGone`), and that a
revocation seen when a request came is still there when it reads the chain,
unless the ledger was set up anew (`RevocationStands`). `VerdictsAreRight` compares
the reason with what is wrong with the presentation, each of seven faults judged
by itself and in the documented order, `HASH_MISMATCH` between signature and
field hashes. The delicate one is
`OnlyOverlapLoses`: as long as no session has got two verdicts, whoever is about
to delete a token deletes the session its verdict was about, and nothing is lost
(`OrderlyOrOverlap`). That needs two verifiers of one session not to be past
their verdict together, which is just what an overlap is.

`HistoryTellsVerdictHolds` is about the log. One half is a fact about
`VerificationLog` alone: whatever presentation and record a verdict is about, the
row made of it is shown by detail view, dashboard, history and filters as the
verdict was answered, `hashMatches` excepted (`OutcomeShown`; it takes the seven
reasons a check can give, none, and `NOT_FOUND`, see `ReasonsAre`). The other is inductive: whoever is past writing has its row
or is counted among those that could not (`RowsFit`), and while a session has one
verdict there is one row, or one request that will write it, and never both
(`OneRowEach`). A second verdict on a session makes the last void, as it does in
the code.

`SubscriptionsProofs` proves that only the credential's holder decides
(`HolderDecides`) and that decisions stand (`DecisionStands`). Little is true
between the statements of a handler: the identifier a request or a wallet
remembers may have been deleted and given to another request. `SubsTyped`
therefore says nothing of the row it names, and the theorems follow from what
the statements repeat in their WHERE clauses. `DuplicatesNeedOverlapHolds` counts:
live rows of a credential and the requests that have passed its duplicate check
are together never more than there are portals (`FewLive`), because a request
passes the check only when no row is live, and then all those past it are portals
of their own. For the alerts (`AlertsInv`), identifiers in the table are always
1 to some n (`FirstOnes`): what a handler has read was such a set too, smaller or
equal, so that the identifier it made of the largest is the next one or is taken,
and an insert leaves no gap. With that the alerts can be counted: rows and
handlers about to insert together are what is owed (`Accounted`), and for each
credential and word no more than the changes it went through (`Told`), which gives
`AlertsAreTrueHolds` and `AlertRaisedHolds`. The latter
assumes that there are no more status changes than identifiers that fit their padding
(`MaxChanges <= Wide`); the run `alerts_lost` shows that it is false without.

`HolderRegistryProofs` proves `RegistryTypeOKHolds`, `RowsNameTheirHolderHolds`,
`BoundKeysAreHeldHolds`, `BootstrapRestoresHolds` and
`OverwritesNeedOverlapHolds`, for any number of persons, devices and requests.
`RegistryInv` says of everything that may still reach the chain, a call in
progress or one in `late` whose caller has given up, what it will do there. A
registration is of the person whose row the identifier leads to
(`RegistrationsFit`), for which everybody with a row must be on the chain unless
it was set up anew and bootstrap has not come to the row (`OnChain`). A binding
carries a pair that is held on a phone (`KeysHeld`), since a wallet posts only
what it has stored (`InHand`). Whoever asked since keys were bound last finds
none bound (`UnlessStale`), which is what makes overwriting take an overlap. On a
new ledger all that is bound, or will be, is what MySQL has (`Restoring`).

`StaffProofs` proves `StaffTypeOKHolds`, `InvitedOnceHolds`, `AnswersHoldHolds`,
`AuditTrueHolds` and `DashboardAddsUpHolds`. `StaffInv` follows each entry of the
audit log from the statement it is about to the insert and to the answer
(`Subjects`). Invitations are logged once (`AddedOnce`); a removal may be logged
as often as requests can find the member present together, and so entries and
requests that have removed and not logged yet are counted against the slots
(`RemovedTogether`). The figures of the dashboard are compared with what each
query would count now, up to the changes made since the first (`DashFits`).

`MobileWalletProofs` proves `ReadsTellTheChainHolds`, `AttributesOfTheCardHolds`,
`FavouritesAgreeHolds`, `FetchTellsTruthHolds` and `WalletTypeOKHolds`, for any
number of credentials and slots and any batch and page size. Two facts about operators
carry it. A sorted list holds each element of the set once and in order
(`SortedIs`): element number i is the one with i - 1 before it, and in a strict
total order that is one to one with 1 to the set's size. And the batches of
`ChunkIDs` hold every identifier they were cut from and no other (`ChunksCover`). The
inductive invariant `FlagsInv` says of each request what it may rely on
(`Request`): what a reader has retrieved so far and its remaining batches cover
every credential that has been on the chain since it began (`Chunked`), and each
status it has was one of the chain's since then (`Reading`); an answer
keeps to that until it is taken (`Telling`); what a fetch has yet to mark and what
is in the wallet cover what is due (`Marking`). For the favourites it counts.
Card and row of a credential differ exactly when the number of taps the backend
has yet to see is odd (`FlagsApart`); a rollback undoes one such tap, which is
sound because a tap that crossed nothing is alone on its card (`TapsAlone`), and
a load that crossed no tap brings the flags of the rows (`LoadsClean`). For the
attributes it says where a decryption aims: unless a load has moved its card
since it took the index, the card at that index is its own (`Aimed`), and only
a decryption that a load has shifted so sets `misplaced`.

The proofs rest on the assumptions each module names, and TLC evaluates them in
every run: that numbers are numbers and `MaxDay` is at least 1; that slots,
portals and status handlers are finitely many (goroutines are), for what is
counted by them, and so are the credentials of `Listings`, whose lists are
sorted; that a holder's identifier is not a credential's. In `Staff` the
identifiers tried are within `StaffIDs` and `AuditIDs`, bounds that are part of
the model.

Only model-checked: `RequestsAnswered`. Liveness, and what `ENABLED` would be
needed for, is out of the prover's reach. Every invariant and every action
property of the passing runs has its theorem.

## Plan

1. Done: `QChaincode`, `FabricLedger` and `CredentialHandlers` with proofs,
   `MobileSessions` with `VerificationLog`, `Subscriptions` and `Staff` over
   `SequentialIDs`, `HolderRegistry`, `MobileWallet` over `Listings`.
2. Proofs: done for every invariant and action property of the passing runs.
   Left: nothing but liveness, which stays model-checked.
3. The activity feed and the dashboard's charts by weekday, as pure operators.

## Not modelled

Cryptography itself (ML-DSA, ML-KEM, AES, hashes, canonical JSON): symbolic.
IPFS: its failures end an issue before anything happened. The audit rows the
credential handlers write last (`credentials.go:255`, 337, 391, 436 and 504),
whose errors are logged and change nothing; `Staff` models the table. User interfaces,
routing and configuration: nothing the properties speak of depends on them. The
rest of the dashboard (recent activity, charts by weekday, expiry warnings, role
breakdown) and the paging of audit log and history: formatting of rows that are
modelled. The listings of holders, subscriptions, alerts, staff, directory and
catalog: one query each, nothing written. The two organisations' backends share one
peer by default (`config.go:47-49`), so reads do not lag behind commits.
