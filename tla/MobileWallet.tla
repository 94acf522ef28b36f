---------------------------- MODULE MobileWallet ----------------------------
(***************************************************************************)
(* The holder's wallet: the phone's list of credentials, loaded anew at    *)
(* any time, credentials decrypted into it and favourites marked in it     *)
(* while requests are under way, and the backend's side of it, next to the *)
(* portal's reads of the same rows and the same chain.                     *)
(*                                                                         *)
(* The phone is WalletController of UI_App, the backend mobile.go.         *)
(***************************************************************************)
EXTENDS Listings

CONSTANTS
  InWallet,  \* the credentials in the wallet at the start
  Services,  \* services of the issuer's catalog
  Pattern    \* the credentials whose type each one's pattern matches

ASSUME WalletAssumption ==
  /\ InWallet \subseteq Issued
  /\ Pattern \in [Services -> SUBSET Creds]

VARIABLES
  credentials,  \* the phone's list
  mixed,        \* ghost: a favourite got out of step since the last clean load
  misplaced     \* ghost: since the last load, a shifted decryption ended

phone == <<credentials, mixed, misplaced>>
vars  == <<listing, phone>>

Encrypted == 0

Model(c, status, fav) == [cred |-> c, status |-> status, fav |-> fav, body |-> Encrypted]

\* The wallet is open and was loaded before.
WalletInit ==
  /\ ListingsInit(InWallet)
  /\ LET order == Sorted(InWallet, NewestFirst)
     IN credentials = [i \in DOMAIN order |-> Model(order[i], "active", FALSE)]
  /\ mixed = FALSE
  /\ misplaced = FALSE

\* indexWhere, 0 for none.  (Mutant: the position before.)
IndexOfMutant(c) ==
  LET found == {i \in DOMAIN credentials : credentials[i].cred = c}
  IN IF found = {} THEN 0 ELSE (CHOOSE i \in found : TRUE) - 1
IndexOf(c) ==
  IF \E i \in DOMAIN credentials : credentials[i].cred = c
  THEN CHOOSE i \in DOMAIN credentials : credentials[i].cred = c
  ELSE 0

-----------------------------------------------------------------------------
(* Ghosts: loads of the list, and taps on a favourite, that overlap.       *)

IsLoad(r) == r.pc \in {"read", "told"} /\ r.kind = "wallet"
IsTap(r, c) == r.pc \in {"tap", "flipped", "late"} /\ r.cred = c

Meets(r, kind, c) ==
  IF kind = "wallet" THEN IsLoad(r) \/ \E d \in Creds : IsTap(r, d)
  ELSE IsLoad(r) \/ IsTap(r, c)

\* Slot p begins r, which crosses what it overlaps and is crossed by it.
Begin(p, r, kind, c) ==
  /\ req[p] = Idle
  /\ requests < MaxRequests
  /\ requests' = requests + 1
  /\ req' = [q \in Slots |->
       CASE q = p -> [r EXCEPT !.crossed = \E o \in Slots : Meets(req[o], kind, c)]
         [] q # p /\ Meets(req[q], kind, c) -> [req[q] EXCEPT !.crossed = TRUE]
         [] OTHER -> req[q]]
  /\ UNCHANGED <<ledger, rows>>

-----------------------------------------------------------------------------
(* handleMobileGetCredentialsByHolder and fetchMyCredentials.  There may   *)
(* be several at a time, and they may end in any order.                    *)

\* getMobileCredentialRefs.
FetchMyCredentials(p) ==
  /\ Begin(p, Read("wallet", 0, {c \in Rows : rows[c].wallet}), "wallet", 0)
  /\ UNCHANGED phone

\* A stable sort: of one time, in the order of the rows.
WalletOrder ==
  {cd \in Creds \X Creds :
     \/ IssuedAt[cd[1]] > IssuedAt[cd[2]]
     \/ IssuedAt[cd[1]] = IssuedAt[cd[2]] /\ cd[1] < cd[2]}

GetCredentialsByHolder(p) ==
  /\ AllRead(p, "wallet")
  /\ LET items == Sorted(Listed(p), WalletOrder)
         r == req[p]
     IN req' = [req EXCEPT ![p] =
          Told(r, [list |-> [i \in DOMAIN items |->
                     Model(items[i], Reported(p, items[i]), r.refs[items[i]].fav)]])]
  /\ UNCHANGED <<ledger, rows, requests, phone>>

\* 502 when a chunk fails.
LoadRefused(p) ==
  /\ req[p].pc = "read"
  /\ req[p].kind = "wallet"
  /\ req[p].left # <<>>
  /\ req' = [req EXCEPT ![p] = Told(@, [error |-> 502])]
  /\ UNCHANGED <<ledger, rows, requests, phone>>

\* getMyCredentials: the phone takes an error answer for an empty wallet.
Data(answer) == IF "list" \in DOMAIN answer THEN answer.list ELSE <<>>

\* credentials.value = data: new models, not yet decrypted.  A decryption
\* under way keeps its index.  (Mutant: the new ones are appended.)
AppendedMutant(data) == credentials \o data
Loaded(data) == data

\* Ghost: the index a decryption keeps is no longer its card's.
OffIndex(r, list) == r.index \notin DOMAIN list \/ list[r.index].cred # r.cred

LoadArrives(p) ==
  /\ req[p].pc = "told"
  /\ req[p].kind = "wallet"
  /\ credentials' = Loaded(Data(req[p].answer))
  /\ mixed' = req[p].crossed
  /\ misplaced' = FALSE
  /\ req' = [q \in Slots |->
       CASE q = p -> Idle
         [] q # p /\ req[q].pc = "decrypt" ->
              [req[q] EXCEPT !.shifted = OffIndex(req[q], credentials')]
         [] OTHER -> req[q]]
  /\ UNCHANGED <<ledger, rows, requests>>

\* No answer within 15 seconds: a ConnectionException, and the list stays.
LoadTimesOut(p) ==
  /\ IsLoad(req[p])
  /\ req' = [req EXCEPT ![p] = Idle]
  /\ UNCHANGED <<ledger, rows, requests, phone>>

-----------------------------------------------------------------------------
(* decryptCredentialById: the index is taken before the envelope is        *)
(* fetched and used after.                                                 *)

\* (A retry for a credential that is no longer listed has no index, and
\* changes nothing; it is left out.)
Decrypt(p, c) ==
  /\ IndexOf(c) # 0
  /\ Take(p, [pc |-> "decrypt", cred |-> c, index |-> IndexOf(c), shifted |-> FALSE])
  /\ UNCHANGED phone

\* The attributes go to the model at the index.  Beyond the end of the list
\* the assignment throws, in the handler of the exception again.
DecryptEnds(p, body) ==
  /\ req[p].pc = "decrypt"
  /\ LET r == req[p] IN
     IF r.index \in DOMAIN credentials
     THEN /\ credentials' = [credentials EXCEPT ![r.index].body = body]
          /\ misplaced' = (misplaced \/ (body # Encrypted /\ r.shifted))
     ELSE UNCHANGED <<credentials, misplaced>>
  /\ req' = [req EXCEPT ![p] = Idle]
  /\ UNCHANGED <<ledger, rows, requests, mixed>>

DecryptSucceeds(p) == DecryptEnds(p, req[p].cred)
DecryptFails(p)    == DecryptEnds(p, Encrypted)

-----------------------------------------------------------------------------
(* toggleFavoriteStatus and handleToggleFavorite. *)

Tap(p, i) ==
  /\ LET c == credentials[i].cred
         original == credentials[i].fav
     IN /\ Begin(p, [pc |-> "tap", cred |-> c, index |-> i, original |-> original,
                      crossed |-> FALSE], "tap", c)
        /\ credentials' = [credentials EXCEPT ![i].fav = ~original]
  /\ UNCHANGED <<mixed, misplaced>>

\* SET is_favorite = NOT is_favorite: not the value the phone shows.
ToggleFavorite(p, next) ==
  /\ rows' = [rows EXCEPT ![req[p].cred].fav = ~@]
  /\ req' = [req EXCEPT ![p] = next]
  /\ UNCHANGED <<ledger, requests, credentials, misplaced>>

ServerToggles(p) ==
  /\ req[p].pc = "tap"
  /\ ToggleFavorite(p, [req[p] EXCEPT !.pc = "flipped"])
  /\ UNCHANGED mixed

TapAnswered(p) ==
  /\ req[p].pc = "flipped"
  /\ req' = [req EXCEPT ![p] = Idle]
  /\ UNCHANGED <<ledger, rows, requests, phone>>

\* The rollback, to what this tap found and at the index it found it.
\* (Mutant: none.)
RollBackMutant(r) == credentials
RollBack(r) ==
  IF r.index \in DOMAIN credentials
  THEN [credentials EXCEPT ![r.index].fav = r.original] ELSE credentials

TapRefused(p) ==
  /\ req[p].pc = "tap"
  /\ credentials' = RollBack(req[p])
  /\ mixed' = (mixed \/ req[p].crossed)
  /\ req' = [req EXCEPT ![p] = Idle]
  /\ UNCHANGED <<ledger, rows, requests, misplaced>>

\* Ten seconds without an answer: the phone rolls back what the backend has
\* done, or may still do.
TapTimesOut(p) ==
  /\ req[p].pc \in {"tap", "flipped"}
  /\ credentials' = RollBack(req[p])
  /\ mixed' = (mixed \/ req[p].crossed \/ req[p].pc = "flipped")
  /\ req' = [req EXCEPT ![p] = IF req[p].pc = "tap" THEN [@ EXCEPT !.pc = "late"] ELSE Idle]
  /\ UNCHANGED <<ledger, rows, requests, misplaced>>

TogglesLate(p) ==
  /\ req[p].pc = "late"
  /\ ToggleFavorite(p, Idle)
  /\ mixed' = TRUE

LateLost(p) ==
  /\ req[p].pc = "late"
  /\ req' = [req EXCEPT ![p] = Idle]
  /\ UNCHANGED <<ledger, rows, requests, phone>>

-----------------------------------------------------------------------------
(* handleFetchDocument. *)

\* holderCredentialRefsForOrg, whether in the wallet or not.
FetchDocument(p, service) ==
  /\ Take(p, Read("fetch", service, Rows))
  /\ UNCHANGED phone

Matched(p) == Listed(p) \cap Pattern[req[p].arg]

\* in_wallet is the row's of before the read of the chain.
ToAdd(p) == {c \in Matched(p) : ~req[p].refs[c].wallet}

FetchNothing(p) ==
  /\ AllRead(p, "fetch")
  /\ ToAdd(p) = {}
  /\ Answer(p, IF Matched(p) = {} THEN "not issued" ELSE "already in wallet")
  /\ UNCHANGED phone

\* (Mutant: only the first is added.)
AddsMutant(p) == SubSeq(Ascending(ToAdd(p)), 1, 1)
Adds(p) == Ascending(ToAdd(p))

FetchFinds(p) ==
  /\ AllRead(p, "fetch")
  /\ ToAdd(p) # {}
  /\ req' = [req EXCEPT ![p].pc = "mark", ![p].left = Adds(p)]
  /\ UNCHANGED <<ledger, rows, requests, phone>>

\* markInWallet, one statement for each.
MarkInWallet(p) ==
  /\ req[p].pc = "mark"
  /\ req[p].left # <<>>
  /\ rows' = [rows EXCEPT ![Head(req[p].left)].wallet = TRUE]
  /\ req' = [req EXCEPT ![p].left = Tail(@)]
  /\ UNCHANGED <<ledger, requests, phone>>

\* One fails: 500, those before it stay.
MarkFails(p) ==
  /\ req[p].pc = "mark"
  /\ req[p].left # <<>>
  /\ req' = [req EXCEPT ![p] = Idle]
  /\ UNCHANGED <<ledger, rows, requests, phone>>

FetchDone(p) ==
  /\ req[p].pc = "mark"
  /\ req[p].left = <<>>
  /\ Answer(p, "retrieved")
  /\ UNCHANGED phone

-----------------------------------------------------------------------------
WalletStep(p) ==
  \/ FetchMyCredentials(p)
  \/ GetCredentialsByHolder(p)
  \/ LoadArrives(p)
  \/ LoadRefused(p)
  \/ LoadTimesOut(p)
  \/ \E c \in Creds : Decrypt(p, c)
  \/ DecryptSucceeds(p)
  \/ DecryptFails(p)
  \/ \E i \in DOMAIN credentials : Tap(p, i)
  \/ ServerToggles(p)
  \/ TapAnswered(p)
  \/ TapRefused(p)
  \/ TapTimesOut(p)
  \/ TogglesLate(p)
  \/ LateLost(p)
  \/ \E service \in Services : FetchDocument(p, service)
  \/ FetchNothing(p)
  \/ FetchFinds(p)
  \/ MarkInWallet(p)
  \/ MarkFails(p)
  \/ FetchDone(p)

WalletNext ==
  \/ \E p \in Slots : WalletStep(p)
  \/ \E p \in Slots : ListingsStep(p) /\ UNCHANGED phone
  \/ WorldStep /\ UNCHANGED phone

WalletSpec == WalletInit /\ [][WalletNext]_vars

-----------------------------------------------------------------------------
\* Rows, requests and models are well formed, and the phone never shows a
\* credential twice.
WalletTypeOK ==
  /\ chain \in [Creds -> Stored \cup {"absent"}] /\ expired \subseteq Creds
  /\ rows \in [Creds -> [wallet : BOOLEAN, fav : BOOLEAN, there : BOOLEAN]]
  /\ \A p \in Slots : req[p].pc \in {"idle", "read", "told", "mark", "decrypt", "tap",
                                     "flipped", "late"}
  /\ \A i \in DOMAIN credentials :
       /\ credentials[i].cred \in Rows /\ credentials[i].status \in Statuses
       /\ credentials[i].fav \in BOOLEAN /\ credentials[i].body \in Creds \cup {Encrypted}
       /\ \A j \in DOMAIN credentials : credentials[i].cred = credentials[j].cred => i = j

\* decryptCredentialById puts plaintext into the model at an index it took
\* before it waited.  A card shows another credential's attributes only when a
\* load answered while a decryption was under way, the last of them moved that
\* decryption's card from its index, and no load has come since it ended.
AttributesOfTheCard ==
  ~misplaced => \A i \in DOMAIN credentials :
                  credentials[i].body \in {Encrypted, credentials[i].cred}

\* The backend flips the flag it has, the phone the flag it shows.  They agree
\* when nothing is under way, unless since the last clean load an answer was
\* lost after the flip, a tap failed that had overlapped another on the same
\* card or a load, or the load itself overlapped a tap; a clean load mends it.
FavouritesAgree ==
  (\A p \in Slots : ~IsLoad(req[p]) /\ \A c \in Creds : ~IsTap(req[p], c)) /\ ~mixed =>
    \A i \in DOMAIN credentials : credentials[i].fav = rows[credentials[i].cred].fav

\* handleFetchDocument tells the truth: what it calls retrieved, or already in
\* the wallet, is every credential of that service that was on the chain
\* throughout, also when another request, or one that failed half way, had
\* added some of them; and not issued is said only if there was none.
FetchTellsTruth ==
  \A p \in Slots : req[p].pc = "told" /\ req[p].kind = "fetch" =>
    LET due == (req[p].refs \ Ever(req[p], "absent")) \cap Pattern[req[p].arg] IN
    IF req[p].answer = "not issued" THEN due = {} ELSE \A c \in due : rows[c].wallet
=============================================================================
