------------------------------ MODULE Listings ------------------------------
(***************************************************************************)
(* Reads of many credentials.  MySQL says which credentials there are, the *)
(* chain what they are worth: a handler reads the rows, reads the          *)
(* credentials from the chain in batches (chain.go chainReadCredentials),  *)
(* drops what the chain does not have, and filters, sorts, counts or pages *)
(* the rest.  The chain moves between two batches.                         *)
(*                                                                         *)
(* A credential is known by the place of its display ID among all of them, *)
(* in the order of strings: MySQL's primary key and the handlers compare   *)
(* them so, and CRED-10000 comes before CRED-9999.                         *)
(***************************************************************************)
EXTENDS Integers, FiniteSets, SequencesExt

CONSTANTS
  Creds,         \* places of credentials
  IssuedAt,      \* the time each is issued at
  Issued,        \* the credentials there are at the start
  Slots,         \* requests served at the same time
  BatchSize,     \* chainBatchSize, 500 in the code
  DefaultLimit,  \* entries of a page, 25 and at most 100 in the code
  MaxLimit,
  Limits,        \* limits and pages the portal asks for
  Pages,
  MaxRequests,   \* bound: requests
  MaxMoves       \* bound: changes of the chain and of the clock

ASSUME CredsAssumption ==
  /\ Creds \subseteq Nat /\ IsFiniteSet(Creds) /\ Issued \subseteq Creds
  /\ IssuedAt \in [Creds -> Nat]
ASSUME SlotsAssumption == IsFiniteSet(Slots)
ASSUME BatchAssumption == BatchSize \in Nat \ {0}
ASSUME PageAssumption ==
  /\ DefaultLimit \in Nat \ {0} /\ MaxLimit \in Nat \ {0}
  /\ Limits \subseteq Int /\ Pages \subseteq Nat \ {0}

VARIABLES
  chain,     \* the stored status of each credential, or "absent"
  expired,   \* the credentials whose expiry has passed
  rows,      \* MySQL credentials
  req,       \* the request each slot serves
  requests,  \* requests taken so far
  moves      \* changes of chain and clock so far

ledger  == <<chain, expired, moves>>
listing == <<ledger, rows, req, requests>>

Stored   == {"active", "suspended", "revoked"}
Statuses == Stored \cup {"expired"}

NoRow == [wallet |-> FALSE, fav |-> FALSE, there |-> FALSE]
Idle  == [pc |-> "idle"]

Rows == {c \in Creds : rows[c].there}

\* effectiveStatus.
Effective(status, c) == IF status = "active" /\ c \in expired THEN "expired" ELSE status

-----------------------------------------------------------------------------
ListingsInit(wallet) ==
  /\ chain = [c \in Creds |-> IF c \in Issued THEN "active" ELSE "absent"]
  /\ expired = {}
  /\ rows = [c \in Creds |-> [wallet |-> c \in wallet, fav |-> FALSE, there |-> c \in Issued]]
  /\ req = [p \in Slots |-> Idle]
  /\ requests = 0
  /\ moves = 0

-----------------------------------------------------------------------------
(* chain.go. *)

AtMost(n, bound) == IF n > bound THEN bound ELSE n

\* chunkIDs, ids cut every step.  (Mutant: every BatchSize + 1.)
Cut(ids, step) ==
  [k \in 1 .. ((Len(ids) + step - 1) \div step) |->
     LET start == (k - 1) * step
     IN ToSet(SubSeq(ids, start + 1, AtMost(start + BatchSize, Len(ids))))]
ChunkIDsMutant(ids) == Cut(ids, BatchSize + 1)
ChunkIDs(ids) == Cut(ids, BatchSize)

\* The elements of S in the order R: each has as many of S before it as come
\* before it in the sequence.
Sorted(S, R) ==
  [i \in 1 .. Cardinality(S) |->
     CHOOSE c \in S : Cardinality({d \in S : <<d, c>> \in R}) = i - 1]

Increasing == {cd \in Creds \X Creds : cd[1] < cd[2]}
Ascending(S) == Sorted(S, Increasing)

\* A read begins with the rows refs, in the order of the primary key.  The
\* ghost was collects what the chain has said of each credential since, and
\* crossed is a ghost of the wallet's loads.
Read(kind, arg, refs) ==
  [pc |-> "read", kind |-> kind, arg |-> arg,
   refs |-> [c \in refs |-> rows[c]],
   left |-> ChunkIDs(Ascending(refs)),
   snap |-> [c \in {} |-> "absent"],
   was |-> [c \in Creds |-> {chain[c]}],
   crossed |-> FALSE]

Take(p, r) ==
  /\ req[p] = Idle
  /\ requests < MaxRequests
  /\ requests' = requests + 1
  /\ req' = [req EXCEPT ![p] = r]
  /\ UNCHANGED <<ledger, rows>>

\* One chunk: getCredentials, which leaves out what it does not find.
ReadChunk(p) ==
  /\ req[p].pc = "read"
  /\ req[p].left # <<>>
  /\ LET found == {c \in Head(req[p].left) : chain[c] # "absent"} IN
     req' = [req EXCEPT ![p].left = Tail(@),
                        ![p].snap = [c \in found \cup DOMAIN @ |->
                                       IF c \in found THEN chain[c] ELSE @[c]]]
  /\ UNCHANGED <<ledger, rows, requests>>

\* One chunk fails and with it the whole read: 502.
ReadFails(p) ==
  /\ req[p].pc = "read"
  /\ req[p].left # <<>>
  /\ req[p].kind # "wallet"
  /\ req' = [req EXCEPT ![p] = Idle]
  /\ UNCHANGED <<ledger, rows, requests>>

AllRead(p, kind) == req[p].pc = "read" /\ req[p].left = <<>> /\ req[p].kind = kind

\* What the snapshot has, with the status every API reports.
Listed(p) == DOMAIN req[p].snap
Reported(p, c) == Effective(req[p].snap[c], c)

\* The answer, on its way, with what it could have been: each credential as it
\* was at some time of the read, judged by the clock at its end.  (So one read
\* active, suspended since and then past its expiry is reported expired, which
\* it was at no time.)
Told(r, answer) ==
  [pc |-> "told", kind |-> r.kind, arg |-> r.arg, refs |-> DOMAIN r.refs, crossed |-> r.crossed,
   was |-> [c \in Creds |-> {Effective(s, c) : s \in r.was[c]}], answer |-> answer]

Answer(p, answer) ==
  /\ req' = [req EXCEPT ![p] = Told(@, answer)]
  /\ UNCHANGED <<ledger, rows, requests>>

-----------------------------------------------------------------------------
(* The portal.  The lists of all credentials and the dashboard read the    *)
(* same rows; what is asked of them matters only in the end.               *)

\* listCredentialRefs.
ReadPortal(p) == Take(p, Read("portal", 0, Rows))

\* credentialRefByID, chainReadCredential.
ReadDetail(p, c) == c \in Rows /\ Take(p, Read("detail", c, {c}))

\* validCredentialStatus: an unknown filter is none.
StatusFilters == Statuses \cup {""}

\* Zero is refused.
LimitOf(v) == IF v < 0 THEN DefaultLimit ELSE AtMost(v, MaxLimit)

\* Of those issued together the last in the order of strings comes first.
NewestFirst ==
  {cd \in Creds \X Creds :
     \/ IssuedAt[cd[1]] > IssuedAt[cd[2]]
     \/ IssuedAt[cd[1]] = IssuedAt[cd[2]] /\ cd[1] > cd[2]}

Page(items, page, limit) ==
  LET start == AtMost((page - 1) * limit, Len(items))
  IN SubSeq(items, start + 1, AtMost(start + limit, Len(items)))

ListCredentials(p, status, page, v) ==
  /\ AllRead(p, "portal")
  /\ v # 0
  /\ LET shown == {c \in Listed(p) : status \in {"", Reported(p, c)}}
         items == Sorted(shown, NewestFirst)
     IN Answer(p, [list |-> [i \in DOMAIN Page(items, page, LimitOf(v)) |->
                               [cred |-> Page(items, page, LimitOf(v))[i],
                                status |-> Reported(p, Page(items, page, LimitOf(v))[i])]],
                   total |-> Len(items), status |-> status, page |-> page,
                   limit |-> LimitOf(v)])

\* credentialStatsFromSnapshot.  (Mutant: the stored status is counted.)
CountedMutant(p, c) == req[p].snap[c]
Counted(p, c) == Reported(p, c)

DashboardStats(p) ==
  /\ AllRead(p, "portal")
  /\ Answer(p, [totalIssued |-> Cardinality(Listed(p)),
                of |-> [s \in Statuses |-> Cardinality({c \in Listed(p) : Counted(p, c) = s})]])

\* 404 when the chain does not have it.
ShowDetail(p) ==
  /\ AllRead(p, "detail")
  /\ Answer(p, IF Listed(p) = {} THEN "absent" ELSE Reported(p, req[p].arg))

Answered(p) ==
  /\ req[p].pc = "told"
  /\ req[p].kind \in {"portal", "detail", "fetch"}
  /\ req' = [req EXCEPT ![p] = Idle]
  /\ UNCHANGED <<ledger, rows, requests>>

-----------------------------------------------------------------------------
(* What goes on meanwhile: the chain, the clock and the issuer's rows.     *)

Moves(newChain, newExpired) ==
  /\ moves < MaxMoves
  /\ moves' = moves + 1
  /\ chain' = newChain
  /\ expired' = newExpired
  /\ req' = [p \in Slots |-> IF req[p].pc \notin {"read", "mark"} THEN req[p]
                ELSE [req[p] EXCEPT !.was = [c \in Creds |-> @[c] \cup {newChain[c]}]]]
  /\ UNCHANGED <<rows, requests>>

IssueOnChain(c) ==
  /\ chain[c] = "absent" /\ c \notin Rows
  /\ Moves([chain EXCEPT ![c] = "active"], expired)

\* The row follows the commit, or never comes.
InsertRow(c) ==
  /\ chain[c] # "absent" /\ c \notin Rows
  /\ rows' = [rows EXCEPT ![c].there = TRUE]
  /\ UNCHANGED <<ledger, req, requests>>

ChangeStatus(c, status) ==
  /\ <<chain[c], status>> \in
       {<<"active", "suspended">>, <<"suspended", "active">>,
        <<"active", "revoked">>, <<"suspended", "revoked">>}
  /\ Moves([chain EXCEPT ![c] = status], expired)

ExpiryPasses(c) ==
  /\ chain[c] # "absent" /\ c \notin expired
  /\ Moves(chain, expired \cup {c})

\* The network is set up anew, and MySQL is not.
LedgerReset == Moves([c \in Creds |-> "absent"], expired)

ListingsStep(p) ==
  \/ ReadPortal(p)
  \/ \E c \in Creds : ReadDetail(p, c)
  \/ ReadChunk(p)
  \/ ReadFails(p)
  \/ \E status \in StatusFilters, page \in Pages, v \in Limits :
       ListCredentials(p, status, page, v)
  \/ DashboardStats(p)
  \/ ShowDetail(p)
  \/ Answered(p)

WorldStep ==
  \/ \E c \in Creds : \/ IssueOnChain(c) \/ InsertRow(c) \/ ExpiryPasses(c)
                      \/ \E status \in Stored : ChangeStatus(c, status)
  \/ LedgerReset

-----------------------------------------------------------------------------
(* What an answer may say. *)

\* Credentials that were s at some time of the read, and those that were
\* nothing else.
Ever(r, s)   == {c \in r.refs : s \in r.was[c]}
Always(r, s) == {c \in r.refs : r.was[c] = {s}}

\* A page holds different credentials, newest first, each with a status it
\* had, of the kind asked for; it is as long as the total allows, and the
\* total counts each credential with a row that was of this kind throughout.
ListIsTrue(r) ==
  LET a == r.answer
      before == (a.page - 1) * a.limit
  IN /\ \A i \in DOMAIN a.list :
          /\ a.list[i].cred \in r.refs
          /\ a.list[i].status \in r.was[a.list[i].cred] \ {"absent"}
          /\ a.status \in {"", a.list[i].status}
          /\ \A j \in DOMAIN a.list : i < j => <<a.list[i].cred, a.list[j].cred>> \in NewestFirst
     /\ Len(a.list) = IF before >= a.total THEN 0
                      ELSE IF a.total - before < a.limit THEN a.total - before ELSE a.limit
     /\ LET sure == IF a.status = "" THEN r.refs \ Ever(r, "absent") ELSE Always(r, a.status)
            maybe == IF a.status = "" THEN r.refs \ Always(r, "absent") ELSE Ever(r, a.status)
        IN Cardinality(sure) <= a.total /\ a.total <= Cardinality(maybe)

StatsAreTrue(r) ==
  LET a == r.answer IN
  /\ \A s \in Statuses : /\ Cardinality(Always(r, s)) <= a.of[s]
                         /\ a.of[s] <= Cardinality(Ever(r, s))
  /\ a.totalIssued = a.of["active"] + a.of["expired"] + a.of["suspended"] + a.of["revoked"]

\* The wallet holds each credential once, newest first, and all that were on
\* the chain throughout.
WalletIsTrue(r) ==
  LET list == r.answer.list IN
  /\ r.refs \ Ever(r, "absent") \subseteq {list[i].cred : i \in DOMAIN list}
  /\ \A i \in DOMAIN list :
       /\ list[i].cred \in r.refs
       /\ list[i].status \in r.was[list[i].cred] \ {"absent"}
       /\ \A j \in DOMAIN list : i < j =>
            /\ IssuedAt[list[i].cred] >= IssuedAt[list[j].cred]
            /\ list[i].cred # list[j].cred

\* What the portal and the wallet are shown is what the chain said of each
\* credential at some time of the read, however the chain moves between the
\* batches: nothing with a row that is on the chain throughout is left out, at
\* a boundary between two batches least of all, and nothing is shown twice.
ReadsTellTheChain ==
  \A p \in Slots : req[p].pc = "told" =>
    LET r == req[p] IN
    CASE r.kind = "portal" /\ "list" \in DOMAIN r.answer -> ListIsTrue(r)
      [] r.kind = "portal" /\ "of" \in DOMAIN r.answer   -> StatsAreTrue(r)
      [] r.kind = "detail" -> r.answer \in r.was[r.arg]
      [] r.kind = "wallet" /\ "list" \in DOMAIN r.answer -> WalletIsTrue(r)
      [] OTHER -> TRUE
=============================================================================
