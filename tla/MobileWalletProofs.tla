------------------------- MODULE MobileWalletProofs -------------------------
(***************************************************************************)
(* What the portal and the wallet are shown is what the chain said, and    *)
(* the phone's list agrees with it as far as the code can promise, for any *)
(* number of credentials, requests and batches.                            *)
(***************************************************************************)
EXTENDS MobileWallet, FiniteSetTheorems, TLAPS

-----------------------------------------------------------------------------
(* Sorting and cutting. *)

\* R orders the members of S one after another.
Orders(R, S) ==
  /\ \A c \in S : <<c, c>> \notin R
  /\ \A c, d \in S : c # d => <<c, d>> \in R \/ <<d, c>> \in R
  /\ \A c, d, e \in S : <<c, d>> \in R /\ <<d, e>> \in R => <<c, e>> \in R

Below(c, S, R) == {d \in S : <<d, c>> \in R}
Rank(c, S, R) == Cardinality(Below(c, S, R))

\* What comes before another has the lower rank.
LEMMA RanksOrder ==
  ASSUME NEW S, IsFiniteSet(S), NEW R, Orders(R, S), NEW c \in S, NEW d \in S,
         <<c, d>> \in R
  PROVE  Rank(c, S, R) < Rank(d, S, R)
<1>1. Below(c, S, R) \subseteq Below(d, S, R)
  BY DEF Orders, Below
<1>2. c \in Below(d, S, R) /\ c \notin Below(c, S, R)
  BY DEF Orders, Below
<1>3. IsFiniteSet(Below(d, S, R))
  BY FS_Subset DEF Below
<1> DEFINE B == Below(c, S, R)
           D == Below(d, S, R)
<1> HIDE DEF B, D
<1>4. IsFiniteSet(D) /\ B \in SUBSET D /\ B # D
  BY <1>1, <1>2, <1>3 DEF B, D
<1>5. /\ IsFiniteSet(B) /\ Cardinality(B) <= Cardinality(D)
      /\ Cardinality(D) = Cardinality(B) => D = B
  BY <1>4, FS_Subset
<1>6. Cardinality(B) \in Nat /\ Cardinality(D) \in Nat
  BY <1>4, <1>5, FS_CardinalityType
<1> QED
  BY <1>4, <1>5, <1>6 DEF Rank, B, D

\* A rank is a place in the order.
LEMMA RanksBounded ==
  ASSUME NEW S, IsFiniteSet(S), NEW R, Orders(R, S), NEW c \in S
  PROVE  Cardinality(S) \in Nat /\ Rank(c, S, R) \in 0 .. (Cardinality(S) - 1)
<1> DEFINE B == Below(c, S, R)
<1>1. B \in SUBSET (S \ {c})
  BY DEF Below, Orders
<1>2. IsFiniteSet(S \ {c}) /\ Cardinality(S \ {c}) = Cardinality(S) - 1
  BY FS_RemoveElement
<1> HIDE DEF B
<1>3. IsFiniteSet(B) /\ Cardinality(B) <= Cardinality(S) - 1
  BY <1>1, <1>2, FS_Subset
<1>4. Cardinality(B) \in Nat /\ Cardinality(S) \in Nat
  BY <1>3, FS_CardinalityType
<1> QED
  BY <1>3, <1>4 DEF Rank, B

\* Equal ranks are the same member's.
LEMMA RanksDiffer ==
  ASSUME NEW S, IsFiniteSet(S), NEW R, Orders(R, S), NEW c \in S, NEW d \in S,
         Rank(c, S, R) = Rank(d, S, R)
  PROVE  c = d
<1> SUFFICES ASSUME c # d PROVE FALSE
  OBVIOUS
<1>1. Rank(c, S, R) < Rank(d, S, R) \/ Rank(d, S, R) < Rank(c, S, R)
  BY RanksOrder DEF Orders
<1>2. Rank(c, S, R) \in Nat /\ Rank(d, S, R) \in Nat
  BY RanksBounded
<1> QED
  BY <1>1, <1>2

\* Every place in the order is taken.
LEMMA RanksTaken ==
  ASSUME NEW S, IsFiniteSet(S), NEW R, Orders(R, S), NEW k \in 0 .. (Cardinality(S) - 1)
  PROVE  \E c \in S : Rank(c, S, R) = k
<1> DEFINE T == 0 .. (Cardinality(S) - 1)
           f == [c \in S |-> Rank(c, S, R)]
<1>1. Cardinality(S) \in Nat
  BY FS_CardinalityType
<1>2. IsFiniteSet(T) /\ Cardinality(T) = Cardinality(S)
  BY <1>1, FS_Interval
<1>3. f \in [S -> T]
  BY RanksBounded
<1>4. \A c, d \in S : f[c] = f[d] => c = d
  BY RanksDiffer
<1>5. f \in Injection(S, T)
  BY <1>3, <1>4 DEF Injection, IsInjective
<1> HIDE DEF f, T
<1>6. f \in Surjection(S, T)
  BY <1>2, <1>5, FS_Injection
<1>7. \E c \in S : f[c] = k
  BY <1>6 DEF Surjection, T
<1> QED
  BY <1>7 DEF f

\* What sorting returns: every member once, in the order.
LEMMA SortedIs ==
  ASSUME NEW S, IsFiniteSet(S), NEW R, Orders(R, S)
  PROVE  /\ Cardinality(S) \in Nat
         /\ Sorted(S, R) \in Seq(S) /\ Len(Sorted(S, R)) = Cardinality(S)
         /\ DOMAIN Sorted(S, R) = 1 .. Cardinality(S)
         /\ \A c \in S : \E i \in DOMAIN Sorted(S, R) : Sorted(S, R)[i] = c
         /\ \A i \in DOMAIN Sorted(S, R) : Sorted(S, R)[i] \in S
         /\ \A i, j \in DOMAIN Sorted(S, R) :
              i < j => <<Sorted(S, R)[i], Sorted(S, R)[j]>> \in R
<1> DEFINE n == Cardinality(S)
           s == Sorted(S, R)
<1>1. n \in Nat
  BY FS_CardinalityType
<1>2. s = [i \in 1 .. n |-> CHOOSE c \in S : Rank(c, S, R) = i - 1]
  BY DEF Sorted, Rank, Below
<1>3. \A i \in 1 .. n : s[i] \in S /\ Rank(s[i], S, R) = i - 1
  <2> TAKE i \in 1 .. n
  <2>1. i - 1 \in 0 .. (n - 1)
    BY <1>1
  <2>2. \E c \in S : Rank(c, S, R) = i - 1
    BY <2>1, RanksTaken
  <2> QED
    BY <1>2, <2>2
<1>4. DOMAIN s = 1 .. n
  BY <1>2
<1> HIDE DEF s
<1>5. s \in Seq(S) /\ Len(s) = n
  <2>1. s \in [1 .. n -> S]
    BY <1>2, <1>3
  <2> HIDE DEF n
  <2> QED
    BY <1>1, <2>1
<1>6. ASSUME NEW c \in S PROVE \E i \in 1 .. n : s[i] = c
  <2> DEFINE i == Rank(c, S, R) + 1
  <2>1. i \in 1 .. n /\ i - 1 = Rank(c, S, R)
    BY <1>1, RanksBounded
  <2>2. s[i] \in S /\ Rank(s[i], S, R) = Rank(c, S, R)
    BY <1>3, <2>1
  <2>3. s[i] = c
    BY <2>2, RanksDiffer
  <2> QED
    BY <2>1, <2>3
<1>7. ASSUME NEW i \in 1 .. n, NEW j \in 1 .. n, i < j
      PROVE  <<s[i], s[j]>> \in R
  <2>1. s[i] \in S /\ s[j] \in S /\ Rank(s[i], S, R) < Rank(s[j], S, R)
        /\ Rank(s[i], S, R) \in Int /\ Rank(s[j], S, R) \in Int
    BY <1>1, <1>3, <1>7
  <2>2. s[i] # s[j]
    BY <2>1
  <2>3. <<s[j], s[i]>> \notin R
    <3>1. <<s[j], s[i]>> \in R => Rank(s[j], S, R) < Rank(s[i], S, R)
      BY <2>1, RanksOrder
    <3> QED
      BY <2>1, <3>1
  <2> QED
    BY <2>1, <2>2, <2>3 DEF Orders
<1> QED
  BY <1>1, <1>3, <1>4, <1>5, <1>6, <1>7 DEF s

\* What the chunks of a sorted set hold: its members, each of them.
LEMMA ChunksCover ==
  ASSUME NEW S \in SUBSET Creds
  PROVE  /\ ChunkIDs(Ascending(S)) \in Seq(SUBSET S)
         /\ \A c \in S : \E k \in DOMAIN ChunkIDs(Ascending(S)) :
                            c \in ChunkIDs(Ascending(S))[k]
<1>1. IsFiniteSet(S) /\ Orders(Increasing, S)
  <2>1. IsFiniteSet(S)
    BY CredsAssumption, FS_Subset
  <2>2. \A c \in S : c \in Creds /\ c \in Nat
    BY CredsAssumption
  <2> QED
    BY <2>1, <2>2 DEF Orders, Increasing
<1> DEFINE ids == Ascending(S)
           n == Len(ids)
           B == BatchSize
           m == (n + B - 1) \div B
           cut == ChunkIDs(ids)
<1>2. /\ ids \in Seq(S) /\ n \in Nat /\ DOMAIN ids = 1 .. n
      /\ \A c \in S : \E i \in 1 .. n : ids[i] = c
      /\ \A i \in 1 .. n : ids[i] \in S
  BY <1>1, SortedIs DEF Ascending
<1> HIDE DEF ids
<1>3. B \in Nat \ {0} /\ m \in Nat
  BY <1>2, BatchAssumption
<1>4. DOMAIN cut = 1 .. m
  BY DEF ChunkIDs, Cut
<1>5. ASSUME NEW k \in 1 .. m
      PROVE  /\ (k - 1) * B \in Nat
             /\ cut[k] = {ids[i] : i \in ((k - 1) * B + 1) .. AtMost((k - 1) * B + B, n)}
  <2> DEFINE start == (k - 1) * B
             end == AtMost(start + B, n)
  <2>1. start \in Nat
    BY <1>3
  <2>2. cut[k] = ToSet(SubSeq(ids, start + 1, end))
    BY <1>3 DEF ChunkIDs, Cut
  <2> HIDE DEF start
  <2>3. end \in Nat /\ end <= n
    BY <1>2, <1>3, <2>1 DEF AtMost
  <2> HIDE DEF end
  <2>4. SubSeq(ids, start + 1, end) = [i \in 1 .. (end - start) |-> ids[i + start]]
    BY <1>2, <2>1, <2>3
  <2> DEFINE part == SubSeq(ids, start + 1, end)
  <2>5. ToSet(part) = {ids[i] : i \in (start + 1) .. end}
    <3>1. \A i \in 1 .. (end - start) : i + start \in (start + 1) .. end
      BY <2>1, <2>3
    <3>2. \A i \in (start + 1) .. end : i - start \in 1 .. (end - start) /\ (i - start) + start = i
      BY <2>1, <2>3
    <3>3. DOMAIN part = 1 .. (end - start) /\ \A i \in 1 .. (end - start) : part[i] = ids[i + start]
      BY <2>4
    <3> HIDE DEF part
    <3>4. ASSUME NEW i \in DOMAIN part PROVE part[i] \in {ids[x] : x \in (start + 1) .. end}
      BY <3>1, <3>3
    <3>5. ASSUME NEW x \in (start + 1) .. end PROVE \E i \in DOMAIN part : part[i] = ids[x]
      BY <3>2, <3>3
    <3>6. ToSet(part) = {part[i] : i \in DOMAIN part}
      BY DEF ToSet
    <3> QED
      BY <3>4, <3>5, <3>6
  <2> QED
    BY <2>1, <2>2, <2>5 DEF start, end
<1>6. ASSUME NEW k \in 1 .. m PROVE cut[k] \in SUBSET S
  <2> DEFINE start == (k - 1) * B
  <2>1. start \in Nat /\ cut[k] = {ids[i] : i \in (start + 1) .. AtMost(start + B, n)}
    BY <1>5
  <2> HIDE DEF start
  <2>2. \A i \in (start + 1) .. AtMost(start + B, n) : i \in 1 .. n
    BY <1>2, <1>3, <2>1 DEF AtMost
  <2> HIDE DEF cut
  <2> QED
    BY <1>2, <2>1, <2>2
<1>7. ASSUME NEW c \in S PROVE \E k \in 1 .. m : c \in cut[k]
  <2>1. PICK x \in 1 .. n : ids[x] = c
    BY <1>2
  <2> DEFINE k == ((x - 1) \div B) + 1
  <2> DEFINE y == x - 1
  <2>y. y \in Nat /\ y < n
    BY <1>2
  <2> HIDE DEF y
  <2>div. /\ y \div B \in Nat /\ (y \div B) + 1 <= (n + B - 1) \div B
        /\ (y \div B) * B <= y /\ y < (y \div B) * B + B
    BY <1>2, <1>3, <2>y
  <2>2. k \in 1 .. m /\ (k - 1) * B <= x - 1 /\ x - 1 < (k - 1) * B + B
    BY <1>3, <2>div DEF y
  <2> HIDE DEF k
  <2>3. (k - 1) * B \in Nat
    BY <1>5, <2>2
  <2>4. x \in ((k - 1) * B + 1) .. AtMost((k - 1) * B + B, n)
    BY <1>2, <1>3, <2>2, <2>3 DEF AtMost
  <2> QED
    BY <1>5, <2>1, <2>2, <2>4
<1>8. cut \in Seq(SUBSET S)
  <2>1. \A k \in 1 .. m : cut[k] \in SUBSET S
    BY <1>6
  <2>2. cut = [k \in 1 .. m |-> cut[k]]
    BY DEF ChunkIDs, Cut
  <2> HIDE DEF cut, m
  <2> QED
    BY <1>3, <2>1, <2>2
<1> QED
  BY <1>4, <1>7, <1>8 DEF ids

-----------------------------------------------------------------------------
(* What is true of a request r, of the chain ch, the rows rw and the       *)
(* phone's list cs.                                                        *)

RowSet == [wallet : BOOLEAN, fav : BOOLEAN, there : BOOLEAN]
Words  == Stored \cup {"absent"}
Kinds  == {"portal", "detail", "wallet", "fetch"}

\* What r has read so far is of rows that stay, and the chain said it.
Reading(r, ch, rw) ==
  /\ DOMAIN r = {"pc", "kind", "arg", "refs", "left", "snap", "was", "crossed"}
  /\ r.kind \in Kinds /\ r.crossed \in BOOLEAN
  /\ r.kind = "detail" => DOMAIN r.refs = {r.arg}
  /\ DOMAIN r.refs \subseteq Creds
  /\ \A c \in DOMAIN r.refs :
       rw[c].there /\ r.refs[c].fav \in BOOLEAN /\ (r.refs[c].wallet => rw[c].wallet)
  /\ r.was \in [Creds -> SUBSET Words] /\ \A c \in Creds : ch[c] \in r.was[c]
  /\ DOMAIN r.snap \subseteq DOMAIN r.refs
  /\ \A c \in DOMAIN r.snap : r.snap[c] \in r.was[c] \ {"absent"}

\* Nothing is lost between the chunks.
Chunked(r) ==
  /\ r.left \in Seq(SUBSET DOMAIN r.refs)
  /\ \A c \in DOMAIN r.refs : \/ c \in DOMAIN r.snap
                              \/ "absent" \in r.was[c]
                              \/ \E k \in DOMAIN r.left : c \in r.left[k]

\* Nor between the statements.
Marking(r, rw) ==
  /\ r.kind = "fetch"
  /\ r.left \in Seq(DOMAIN r.refs)
  /\ \A c \in DOMAIN r.refs \cap Pattern[r.arg] :
       \/ rw[c].wallet
       \/ "absent" \in r.was[c]
       \/ \E k \in DOMAIN r.left : r.left[k] = c

FetchIsTrue(r, rw) ==
  LET due == (r.refs \ Ever(r, "absent")) \cap Pattern[r.arg]
  IN IF r.answer = "not issued" THEN due = {} ELSE \A c \in due : rw[c].wallet

\* What the phone will show, and that it is new.
Models == [cred : Creds, status : Statuses, fav : BOOLEAN, body : {Encrypted}]
Loadable(r, rw) ==
  /\ DOMAIN r.answer.list \subseteq Nat
  /\ \A i \in DOMAIN r.answer.list :
       r.answer.list[i] \in Models /\ rw[r.answer.list[i].cred].there

Telling(r, rw) ==
  /\ DOMAIN r = {"pc", "kind", "arg", "refs", "crossed", "was", "answer"}
  /\ r.kind \in Kinds /\ r.crossed \in BOOLEAN
  /\ r.refs \subseteq Creds
  /\ r.kind = "portal" /\ "list" \in DOMAIN r.answer => ListIsTrue(r)
  /\ r.kind = "portal" /\ "of" \in DOMAIN r.answer => StatsAreTrue(r)
  /\ r.kind = "detail" => r.answer \in r.was[r.arg]
  /\ r.kind = "wallet" /\ "list" \in DOMAIN r.answer => WalletIsTrue(r) /\ Loadable(r, rw)
  /\ r.kind = "fetch" => FetchIsTrue(r, rw)

Request(r, ch, rw) ==
  \/ r = Idle
  \/ r.pc = "read" /\ Reading(r, ch, rw) /\ Chunked(r)
  \/ r.pc = "mark" /\ Reading(r, ch, rw) /\ Marking(r, rw)
  \/ r.pc = "told" /\ Telling(r, rw)
  \/ /\ r.pc = "decrypt" /\ DOMAIN r = {"pc", "cred", "index", "shifted"}
     /\ r.cred \in Creds /\ r.shifted \in BOOLEAN
  \/ /\ r.pc \in {"tap", "flipped", "late"}
     /\ DOMAIN r = {"pc", "cred", "index", "original", "crossed"}
     /\ r.cred \in Creds /\ r.original \in BOOLEAN /\ r.crossed \in BOOLEAN

Cards(cs, rw) ==
  /\ \A i \in DOMAIN cs : /\ cs[i] \in [cred : Creds, status : Statuses, fav : BOOLEAN,
                                        body : Creds \cup {Encrypted}]
                          /\ rw[cs[i].cred].there
  /\ \A i, j \in DOMAIN cs : cs[i].cred = cs[j].cred => i = j

\* A decryption that no load has shifted has the index of its card.
Aimed == \A q \in Slots : req[q].pc = "decrypt" /\ ~req[q].shifted =>
           /\ req[q].index \in DOMAIN credentials
           /\ credentials[req[q].index].cred = req[q].cred

\* Attributes are of the card they are shown on, unless misplaced.
Bodies == ~misplaced => \A i \in DOMAIN credentials :
                          credentials[i].body \in {Encrypted, credentials[i].cred}

Typed ==
  /\ chain \in [Creds -> Words] /\ expired \subseteq Creds
  /\ rows \in [Creds -> RowSet]
  /\ DOMAIN req = Slots
  /\ misplaced \in BOOLEAN /\ mixed \in BOOLEAN

RequestsInv == Typed /\ \A p \in Slots : Request(req[p], chain, rows)

-----------------------------------------------------------------------------
(* Favourites. *)

\* The taps on c that the backend has yet to see.
Unseen(c) == {p \in Slots : req[p].pc = "tap" /\ req[p].cred = c}

\* A load that crosses no tap has the flags of the rows.
LoadIsClean(r) ==
  /\ \A q \in Slots, c \in Creds : ~IsTap(req[q], c)
  /\ r.pc = "read" => \A c \in DOMAIN r.refs : r.refs[c].fav = rows[c].fav
  /\ r.pc = "told" /\ "list" \in DOMAIN r.answer =>
       \A i \in DOMAIN r.answer.list :
         r.answer.list[i].fav = rows[r.answer.list[i].cred].fav

LoadsClean == \A p \in Slots : IsLoad(req[p]) /\ ~req[p].crossed => LoadIsClean(req[p])

\* A tap that crosses nothing is the only one on its card, and the card is
\* where it was and shows what it was made to show.
TapIsAlone(p) ==
  /\ req[p].index \in DOMAIN credentials
  /\ credentials[req[p].index].cred = req[p].cred
  /\ credentials[req[p].index].fav = ~req[p].original
  /\ \A q \in Slots : IsTap(req[q], req[p].cred) => q = p

TapsAlone == ~mixed => \A p \in Slots : req[p].pc = "tap" /\ ~req[p].crossed => TapIsAlone(p)

\* Card and row differ by the taps the backend has yet to see.
FlagsApart ==
  ~mixed => \A i \in DOMAIN credentials :
    (credentials[i].fav = rows[credentials[i].cred].fav)
      <=> Cardinality(Unseen(credentials[i].cred)) % 2 = 0

-----------------------------------------------------------------------------
(* Requests and what moves under them. *)

\* Rows and their marks stay.
Grows(rw, new) ==
  \A c \in Creds : (rw[c].there => new[c].there) /\ (rw[c].wallet => new[c].wallet)

\* A request stays true while rows only come and enter the wallet.
LEMMA RequestGrows ==
  ASSUME NEW r, NEW ch, NEW rw, NEW new, Request(r, ch, rw), Grows(rw, new)
  PROVE  Request(r, ch, new)
<1>1. ASSUME Reading(r, ch, rw) PROVE Reading(r, ch, new)
  BY <1>1 DEF Reading, Grows
<1>2. ASSUME Reading(r, ch, rw), Marking(r, rw) PROVE Marking(r, new)
  BY <1>2 DEF Reading, Marking, Grows
<1>3. ASSUME Telling(r, rw) PROVE Telling(r, new)
  <2>1. Loadable(r, rw) => Loadable(r, new)
    BY DEF Loadable, Models, Grows
  <2>2. r.refs \subseteq Creds /\ (FetchIsTrue(r, rw) => FetchIsTrue(r, new))
    BY <1>3 DEF Telling, FetchIsTrue, Grows
  <2> QED
    BY <1>3, <2>1, <2>2 DEF Telling
<1> QED
  BY <1>1, <1>2, <1>3 DEF Request

Crossed(r, b) == [r EXCEPT !.crossed = b]

\* The ghost changes nothing of it.
LEMMA RequestCrossed ==
  ASSUME NEW r, NEW ch, NEW rw, Request(r, ch, rw),
         r.pc \in {"read", "told", "tap", "flipped", "late"}, NEW b \in BOOLEAN
  PROVE  Request(Crossed(r, b), ch, rw)
<1> DEFINE x == Crossed(r, b)
<1>1. \A f \in DOMAIN r : f # "crossed" => x[f] = r[f]
  BY DEF Crossed
<1>2. DOMAIN x = DOMAIN r /\ ("crossed" \in DOMAIN r => x.crossed = b)
  BY DEF Crossed
<1> HIDE DEF x
<1>3. CASE r.pc = "read" /\ Reading(r, ch, rw) /\ Chunked(r)
  <2>1. /\ x.pc = r.pc /\ x.kind = r.kind /\ x.arg = r.arg /\ x.refs = r.refs
        /\ x.left = r.left /\ x.snap = r.snap /\ x.was = r.was /\ x.crossed = b
    BY <1>1, <1>2, <1>3 DEF Reading
  <2>2. Reading(x, ch, rw)
    BY <1>2, <1>3, <2>1 DEF Reading
  <2>3. Chunked(x)
    BY <1>3, <2>1 DEF Chunked
  <2> QED
    BY <1>3, <2>1, <2>2, <2>3 DEF Request, x
<1>4. CASE r.pc = "told" /\ Telling(r, rw)
  <2>1. /\ x.pc = r.pc /\ x.kind = r.kind /\ x.arg = r.arg /\ x.refs = r.refs
        /\ x.was = r.was /\ x.answer = r.answer /\ x.crossed = b
    BY <1>1, <1>2, <1>4 DEF Telling
  <2>2. /\ ListIsTrue(r) <=> ListIsTrue(x)
        /\ StatsAreTrue(r) <=> StatsAreTrue(x)
        /\ WalletIsTrue(r) <=> WalletIsTrue(x)
    BY <2>1 DEF ListIsTrue, StatsAreTrue, WalletIsTrue, Ever, Always
  <2>3. /\ Loadable(r, rw) <=> Loadable(x, rw)
        /\ FetchIsTrue(r, rw) <=> FetchIsTrue(x, rw)
    BY <2>1 DEF Loadable, FetchIsTrue, Ever
  <2>4. Telling(x, rw)
    BY <1>2, <1>4, <2>1, <2>2, <2>3 DEF Telling
  <2> QED
    BY <1>4, <2>1, <2>4 DEF Request, x
<1>5. CASE /\ r.pc \in {"tap", "flipped", "late"}
           /\ DOMAIN r = {"pc", "cred", "index", "original", "crossed"}
           /\ r.cred \in Creds /\ r.original \in BOOLEAN /\ r.crossed \in BOOLEAN
  BY <1>1, <1>2, <1>5 DEF Request, x
<1> QED
  BY <1>3, <1>4, <1>5 DEF Request, Idle

Moved(r, ch) == [r EXCEPT !.was = [c \in Creds |-> @[c] \cup {ch[c]}]]

\* Nor does the chain, which adds to what a read may have seen.
LEMMA RequestMoved ==
  ASSUME NEW r, NEW ch, NEW rw, Request(r, ch, rw), NEW new \in [Creds -> Words]
  PROVE  Request(IF r.pc \notin {"read", "mark"} THEN r ELSE Moved(r, new), new, rw)
<1>1. CASE r.pc \notin {"read", "mark"}
  BY <1>1 DEF Request
<1>2. CASE r.pc \in {"read", "mark"}
  <2> DEFINE x == Moved(r, new)
  <2>1. Reading(r, ch, rw)
    BY <1>2 DEF Request, Idle
  <2>2. /\ DOMAIN x = DOMAIN r /\ x.pc = r.pc /\ x.kind = r.kind /\ x.arg = r.arg
        /\ x.refs = r.refs /\ x.left = r.left /\ x.snap = r.snap /\ x.crossed = r.crossed
        /\ x.was = [c \in Creds |-> r.was[c] \cup {new[c]}]
    BY <2>1 DEF Reading, Moved
  <2> HIDE DEF x
  <2>3. x.was \in [Creds -> SUBSET Words]
    BY <2>1, <2>2 DEF Reading
  <2>4. \A c \in Creds : r.was[c] \subseteq x.was[c] /\ new[c] \in x.was[c]
    BY <2>2
  <2>5. Reading(x, new, rw)
    BY <2>1, <2>2, <2>3, <2>4 DEF Reading
  <2>6. Chunked(r) => Chunked(x)
    BY <2>1, <2>2, <2>4 DEF Reading, Chunked
  <2>7. Marking(r, rw) => Marking(x, rw)
    BY <2>1, <2>2, <2>4 DEF Reading, Marking
  <2>8. Request(x, new, rw)
    BY <1>2, <2>2, <2>5, <2>6, <2>7 DEF Request, Idle
  <2> QED
    BY <1>2, <2>8 DEF x
<1> QED
  BY <1>1, <1>2

\* A step of one slot.
LEMMA SlotSteps ==
  ASSUME RequestsInv, NEW p \in Slots,
         DOMAIN req' = Slots, \A q \in Slots : q # p => req'[q] = req[q],
         chain' = chain, expired' = expired,
         rows' \in [Creds -> RowSet], Grows(rows, rows'),
         Request(req'[p], chain, rows'),
         mixed' \in BOOLEAN, misplaced' \in BOOLEAN
  PROVE  RequestsInv'
<1>1. Typed'
  BY DEF RequestsInv, Typed
<1>2. ASSUME NEW q \in Slots PROVE Request(req'[q], chain', rows')
  <2>1. CASE q = p
    BY <2>1
  <2>2. CASE q # p
    BY <2>2, RequestGrows DEF RequestsInv
  <2> QED
    BY <2>1, <2>2
<1> QED
  BY <1>1, <1>2 DEF RequestsInv

\* A read that begins.
LEMMA ReadBegins ==
  ASSUME RequestsInv, NEW kind \in Kinds, NEW arg, NEW refs \in SUBSET Rows,
         kind = "detail" => refs = {arg}
  PROVE  LET r == Read(kind, arg, refs) IN
           Request(r, chain, rows) /\ r.pc = "read" /\ r.kind = kind
           /\ DOMAIN r.refs = refs /\ \A c \in refs : r.refs[c] = rows[c]
<1> DEFINE r == Read(kind, arg, refs)
<1>1. /\ DOMAIN r = {"pc", "kind", "arg", "refs", "left", "snap", "was", "crossed"}
      /\ r.pc = "read" /\ r.kind = kind /\ r.arg = arg /\ r.crossed = FALSE
      /\ DOMAIN r.refs = refs /\ (\A c \in refs : r.refs[c] = rows[c])
      /\ r.left = ChunkIDs(Ascending(refs))
      /\ DOMAIN r.snap = {} /\ r.was = [c \in Creds |-> {chain[c]}]
  BY DEF Read
<1> HIDE DEF r
<1>2. refs \in SUBSET Creds /\ \A c \in refs : rows[c].there
  BY DEF Rows
<1>3. \A c \in Creds : chain[c] \in Words /\ rows[c] \in RowSet
  BY DEF RequestsInv, Typed
<1>4. r.was \in [Creds -> SUBSET Words] /\ \A c \in Creds : chain[c] \in r.was[c]
  BY <1>1, <1>3
<1>5. \A c \in refs : r.refs[c].fav \in BOOLEAN
  BY <1>1, <1>2, <1>3 DEF RowSet
<1>6. Reading(r, chain, rows)
  BY <1>1, <1>2, <1>4, <1>5 DEF Reading
<1>7. Chunked(r)
  BY <1>1, <1>2, ChunksCover DEF Chunked
<1> QED
  BY <1>1, <1>6, <1>7 DEF Request, r

\* A chunk that is read.
ChunkRead(r, x, ch, found) ==
  /\ \A c : c \in found <=> c \in Head(r.left) /\ ch[c] # "absent"
  /\ DOMAIN x = DOMAIN r /\ x.pc = r.pc /\ x.kind = r.kind /\ x.arg = r.arg
  /\ x.refs = r.refs /\ x.was = r.was /\ x.crossed = r.crossed /\ x.left = Tail(r.left)
  /\ DOMAIN x.snap = found \cup DOMAIN r.snap
  /\ \A c \in DOMAIN x.snap : x.snap[c] = IF c \in found THEN ch[c] ELSE r.snap[c]

\* It keeps what is true of the read.
LEMMA ChunkIsRead ==
  ASSUME NEW r, NEW ch, NEW rw, Reading(r, ch, rw), Chunked(r), r.left # <<>>,
         NEW found, NEW x, ChunkRead(r, x, ch, found)
  PROVE  Reading(x, ch, rw) /\ Chunked(x)
<1> USE DEF ChunkRead
<1> DEFINE D == DOMAIN r.refs
           left == r.left
<1>1. left \in Seq(SUBSET D) /\ left # <<>>
  BY DEF Chunked
<1> HIDE DEF left, D
<1>2. /\ Len(left) \in Nat \ {0} /\ DOMAIN left = 1 .. Len(left)
      /\ Head(left) = left[1] /\ left[1] \in SUBSET D
      /\ Tail(left) \in Seq(SUBSET D) /\ DOMAIN Tail(left) = 1 .. (Len(left) - 1)
      /\ \A k \in 1 .. (Len(left) - 1) : Tail(left)[k] = left[k + 1]
  BY <1>1
<1>3. found \subseteq D /\ D \subseteq Creds
  BY <1>2 DEF Reading, D, left
<1>4. \A c \in DOMAIN x.snap : x.snap[c] \in x.was[c] \ {"absent"}
  BY <1>3 DEF Reading
<1>5. Reading(x, ch, rw)
  BY <1>3, <1>4 DEF Reading, D
<1>6. ASSUME NEW c \in D, c \notin DOMAIN x.snap, "absent" \notin x.was[c]
      PROVE  \E k \in DOMAIN Tail(left) : c \in Tail(left)[k]
  <2>1. PICK k \in DOMAIN left : c \in left[k]
    BY <1>6 DEF Chunked, D, left
  <2>2. ch[c] # "absent"
    BY <1>3, <1>6 DEF Reading
  <2>3. k # 1
    BY <1>2, <1>6, <2>1, <2>2 DEF left
  <2>4. k - 1 \in 1 .. (Len(left) - 1) /\ (k - 1) + 1 = k
    BY <1>2, <2>1, <2>3
  <2> QED
    BY <1>2, <2>1, <2>4
<1>7. Chunked(x)
  BY <1>2, <1>6 DEF Chunked, D, left
<1> QED
  BY <1>5, <1>7

-----------------------------------------------------------------------------
(* What an answer says. *)

\* What a read that is complete has found, and what the answer is held to.
Found(r) == DOMAIN r.snap
Says(r, c) == Effective(r.snap[c], c)

\* All that is not found was absent at some time.
LEMMA ReadIsComplete ==
  ASSUME NEW r, Reading(r, chain, rows), Chunked(r), r.left = <<>>,
         NEW answer, NEW t, t = Told(r, answer)
  PROVE  /\ DOMAIN t = {"pc", "kind", "arg", "refs", "crossed", "was", "answer"}
         /\ t.pc = "told" /\ t.kind = r.kind /\ t.arg = r.arg /\ t.crossed = r.crossed
         /\ t.refs = DOMAIN r.refs /\ t.answer = answer
         /\ Found(r) \subseteq t.refs /\ t.refs \subseteq Creds
         /\ \A c \in Found(r) : /\ Says(r, c) \in t.was[c] \ {"absent"}
                                /\ Says(r, c) \in Statuses
         /\ \A c \in t.refs \ Found(r) : "absent" \in t.was[c]
<1>1. /\ DOMAIN t = {"pc", "kind", "arg", "refs", "crossed", "was", "answer"}
      /\ t.pc = "told" /\ t.kind = r.kind /\ t.arg = r.arg /\ t.crossed = r.crossed
      /\ t.refs = DOMAIN r.refs /\ t.answer = answer
      /\ t.was = [c \in Creds |-> {Effective(s, c) : s \in r.was[c]}]
  BY DEF Told
<1>2. DOMAIN r.snap \subseteq DOMAIN r.refs /\ DOMAIN r.refs \subseteq Creds
  BY DEF Reading
<1>3. ASSUME NEW c \in DOMAIN r.snap
      PROVE  /\ Effective(r.snap[c], c) \in t.was[c]
             /\ Effective(r.snap[c], c) \in Statuses
             /\ Effective(r.snap[c], c) # "absent"
  <2>1. r.snap[c] \in r.was[c] /\ r.snap[c] # "absent" /\ c \in Creds
    BY <1>2 DEF Reading
  <2>2. r.snap[c] \in Stored
    BY <2>1 DEF Reading, Words
  <2>3. Effective(r.snap[c], c) \in t.was[c]
    BY <1>1, <2>1
  <2> QED
    BY <2>2, <2>3 DEF Effective, Stored, Statuses
<1>4. ASSUME NEW c \in t.refs \ DOMAIN r.snap
      PROVE  "absent" \in t.was[c]
  <2>1. "absent" \in r.was[c]
    BY <1>1 DEF Chunked
  <2>2. Effective("absent", c) = "absent"
    BY DEF Effective
  <2>3. c \in Creds
    BY <1>1, <1>2
  <2> QED
    BY <1>1, <2>1, <2>2, <2>3
<1> QED
  BY <1>1, <1>2, <1>3, <1>4 DEF Found, Says

\* Both orders tell any two credentials apart.
LEMMA NewestFirstOrders ==
  ASSUME NEW S \in SUBSET Creds
  PROVE  IsFiniteSet(S) /\ Orders(NewestFirst, S) /\ Orders(WalletOrder, S)
<1>1. IsFiniteSet(S)
  BY CredsAssumption, FS_Subset
<1>2. \A c \in S : c \in Creds /\ c \in Nat /\ IssuedAt[c] \in Nat
  BY CredsAssumption
<1>3. Orders(NewestFirst, S)
  BY <1>2 DEF Orders, NewestFirst
<1>4. Orders(WalletOrder, S)
  BY <1>2 DEF Orders, WalletOrder
<1> QED
  BY <1>1, <1>3, <1>4

LEMMA LimitIsPositive ==
  ASSUME NEW v \in Limits, v # 0
  PROVE  LimitOf(v) \in Nat \ {0}
BY PageAssumption DEF LimitOf, AtMost

\* What a page has of n items.
LEMMA PageIs ==
  ASSUME NEW T, NEW items \in Seq(T), NEW page \in Pages, NEW limit \in Nat \ {0}
  PROVE  LET n == Len(items)
             before == (page - 1) * limit
             start == AtMost(before, n)
             P == Page(items, page, limit)
         IN /\ before \in Nat /\ n \in Nat /\ start \in Nat
            /\ DOMAIN P = 1 .. Len(P) /\ Len(P) \in Nat
            /\ Len(P) = IF before >= n THEN 0
                        ELSE IF n - before < limit THEN n - before ELSE limit
            /\ \A i \in DOMAIN P : i + start \in DOMAIN items /\ P[i] = items[i + start]
<1> DEFINE n == Len(items)
           before == (page - 1) * limit
           start == AtMost(before, n)
           end == AtMost(start + limit, n)
           P == Page(items, page, limit)
<1>1. before \in Nat
  BY PageAssumption
<1>2. P = SubSeq(items, start + 1, end)
  BY DEF Page
<1> HIDE DEF before, P
<1>3. n \in Nat /\ DOMAIN items = 1 .. n
  OBVIOUS
<1> HIDE DEF n
<1>start. start \in Nat /\ start <= n /\ (start = IF before > n THEN n ELSE before)
  BY <1>1, <1>3 DEF AtMost
<1> HIDE DEF start
<1>end. end \in Nat /\ start <= end /\ end <= n
      /\ (end = IF start + limit > n THEN n ELSE start + limit)
  BY <1>3, <1>start DEF AtMost
<1> HIDE DEF end
<1>4. /\ start \in Nat /\ start <= n /\ end \in Nat /\ start <= end /\ end <= n
      /\ end - start = IF before >= n THEN 0
                       ELSE IF n - before < limit THEN n - before ELSE limit
  BY <1>1, <1>3, <1>start, <1>end
<1>5. P = [i \in 1 .. (end - start) |-> items[i + start]]
  BY <1>2, <1>3, <1>4
<1>6. P \in Seq(T) /\ Len(P) = end - start /\ DOMAIN P = 1 .. (end - start)
  <2>1. \A i \in 1 .. (end - start) : i + start \in 1 .. n /\ items[i + start] \in T
    BY <1>3, <1>4 DEF n
  <2>2. P \in [1 .. (end - start) -> T]
    BY <1>5, <2>1
  <2> DEFINE m == end - start
  <2>3. m \in Nat
    BY <1>4
  <2> HIDE DEF m
  <2> QED
    BY <2>2, <2>3 DEF m
<1>7. \A i \in DOMAIN P : i + start \in DOMAIN items /\ P[i] = items[i + start]
  BY <1>3, <1>4, <1>5
<1> QED
  BY <1>1, <1>3, <1>4, <1>6, <1>7 DEF P, start, before, n

LEMMA ShiftKeepsOrder ==
  ASSUME NEW m \in Nat, NEW i \in 1 .. m, NEW j \in 1 .. m, NEW start \in Nat, i < j
  PROVE  i + start < j + start
OBVIOUS

\* A page of the list: shown is what the filter leaves of the credentials
\* found, says what is reported of each, items the n of them sorted; the list
\* has m of them, those after start.
PageOf(t, found, says, status, shown, items, n, before, limit, m, start) ==
  /\ status \in StatusFilters
  /\ found \subseteq t.refs /\ t.refs \subseteq Creds
  /\ \A c \in found : says[c] \in t.was[c] \ {"absent"}
  /\ \A c \in t.refs \ found : "absent" \in t.was[c]
  /\ \A c : c \in shown <=> c \in found /\ status \in {"", says[c]}
  /\ n \in Nat /\ n = Cardinality(shown)
  /\ \A i \in DOMAIN items : items[i] \in shown
  /\ \A i, j \in DOMAIN items : i < j => <<items[i], items[j]>> \in NewestFirst
  /\ m \in Nat
  /\ m = (IF before >= n THEN 0 ELSE IF n - before < limit THEN n - before ELSE limit)
  /\ start \in Nat
  /\ Len(t.answer.list) = m /\ DOMAIN t.answer.list = 1 .. m
  /\ \A i \in 1 .. m : /\ i + start \in DOMAIN items
                       /\ t.answer.list[i].cred = items[i + start]
                       /\ t.answer.list[i].status = says[items[i + start]]
  /\ t.answer.total = n /\ t.answer.status = status
  /\ (t.answer.page - 1) * t.answer.limit = before /\ t.answer.limit = limit

\* Such a page tells the truth.
LEMMA ListTells ==
  ASSUME NEW t, NEW found, NEW says, NEW status, NEW shown, NEW items, NEW n, NEW before,
         NEW limit, NEW m, NEW start,
         PageOf(t, found, says, status, shown, items, n, before, limit, m, start)
  PROVE  ListIsTrue(t)
<1> DEFINE list == t.answer.list
<1>page. PageOf(t, found, says, status, shown, items, n, before, limit, m, start)
  OBVIOUS
<1>1. /\ shown \in SUBSET Creds /\ shown \subseteq found /\ found \subseteq t.refs
      /\ t.refs \subseteq Creds
  BY <1>page DEF PageOf
<1>2. IsFiniteSet(shown)
  BY <1>1, NewestFirstOrders
<1>3. n = Cardinality(shown)
  BY <1>page DEF PageOf
<1>4. m \in Nat /\ start \in Nat /\ DOMAIN list = 1 .. m
  BY <1>page DEF PageOf
<1>5. \A i \in 1 .. m : /\ i + start \in DOMAIN items
                        /\ list[i].cred = items[i + start]
                        /\ list[i].status = says[items[i + start]]
  BY <1>page DEF PageOf
<1>6. /\ \A i \in DOMAIN items : items[i] \in shown
      /\ \A i, j \in DOMAIN items : i < j => <<items[i], items[j]>> \in NewestFirst
      /\ \A c \in shown : says[c] \in t.was[c] \ {"absent"} /\ status \in {"", says[c]}
  BY <1>page DEF PageOf
<1>7. /\ t.answer.total = n /\ t.answer.status = status
      /\ (t.answer.page - 1) * t.answer.limit = before /\ t.answer.limit = limit
      /\ Len(list)
           = (IF before >= n THEN 0 ELSE IF n - before < limit THEN n - before ELSE limit)
  BY <1>page DEF PageOf
<1> HIDE DEF list
<1>8. ASSUME NEW i \in DOMAIN list
      PROVE  /\ list[i].cred \in t.refs
             /\ list[i].status \in t.was[list[i].cred] \ {"absent"}
             /\ status \in {"", list[i].status}
             /\ \A j \in DOMAIN list : i < j => <<list[i].cred, list[j].cred>> \in NewestFirst
  <2>1. items[i + start] \in shown
    BY <1>4, <1>5, <1>6
  <2>2. ASSUME NEW j \in DOMAIN list, i < j
        PROVE  <<items[i + start], items[j + start]>> \in NewestFirst
    <3>1. i + start < j + start
      BY <1>4, <2>2, ShiftKeepsOrder
    <3>2. i + start \in DOMAIN items /\ j + start \in DOMAIN items
      BY <1>4, <1>5
    <3> QED
      BY <1>6, <3>1, <3>2
  <2> QED
    BY <1>1, <1>4, <1>5, <1>6, <2>1, <2>2
<1> DEFINE sure == IF status = "" THEN t.refs \ Ever(t, "absent") ELSE Always(t, status)
           maybe == IF status = "" THEN t.refs \ Always(t, "absent") ELSE Ever(t, status)
<1>9. sure \subseteq shown
  <2>1. CASE status = ""
    BY <1>page, <2>1 DEF Ever, PageOf
  <2>2. CASE status # ""
    <3>1. status # "absent"
      BY <1>page, <2>2 DEF PageOf, StatusFilters, Statuses, Stored
    <3> QED
      BY <1>page, <2>2, <3>1 DEF Always, PageOf
  <2> QED
    BY <2>1, <2>2
<1>10. shown \subseteq maybe /\ maybe \in SUBSET Creds
  <2>1. CASE status = ""
    BY <1>1, <1>6, <2>1 DEF Always
  <2>2. CASE status # ""
    BY <1>1, <1>6, <2>2 DEF Ever
  <2> QED
    BY <2>1, <2>2
<1> HIDE DEF sure, maybe
<1>11. Cardinality(sure) <= n
  BY <1>2, <1>3, <1>9, FS_Subset
<1>12. n <= Cardinality(maybe)
  <2>1. IsFiniteSet(maybe)
    BY <1>10, CredsAssumption, FS_Subset
  <2> QED
    BY ONLY <1>3, <1>10, <2>1, FS_Subset
<1> QED
  BY <1>7, <1>8, <1>11, <1>12 DEF ListIsTrue, list, sure, maybe

\* Two parts that have nothing in common add up.
LEMMA ApartAddUp ==
  ASSUME NEW A, IsFiniteSet(A), NEW B, IsFiniteSet(B), \A c \in A : c \notin B
  PROVE  /\ IsFiniteSet(A \cup B)
         /\ Cardinality(A \cup B) = Cardinality(A) + Cardinality(B)
<1>1. A \cap B = {}
  OBVIOUS
<1>2. Cardinality(A) \in Nat /\ Cardinality(B) \in Nat
  BY FS_CardinalityType
<1>3. /\ IsFiniteSet(A \cup B)
      /\ Cardinality(A \cup B) = Cardinality(A) + Cardinality(B) - 0
  BY ONLY <1>1, FS_Union, FS_EmptySet, IsFiniteSet(A), IsFiniteSet(B)
<1> QED
  BY ONLY <1>2, <1>3

\* The counts tell the truth.
LEMMA StatsTell ==
  ASSUME NEW t, NEW found, NEW says,
         found \subseteq t.refs, t.refs \subseteq Creds,
         \A c \in found : says[c] \in t.was[c] \ {"absent"} /\ says[c] \in Statuses,
         \A c \in t.refs \ found : "absent" \in t.was[c],
         t.answer.totalIssued = Cardinality(found),
         \A s \in Statuses : t.answer.of[s] = Cardinality({c \in found : says[c] = s})
  PROVE  StatsAreTrue(t)
<1> DEFINE part(s) == {c \in found : says[c] = s}
<1>1. IsFiniteSet(t.refs) /\ IsFiniteSet(found)
  BY CredsAssumption, FS_Subset
<1>2. ASSUME NEW s \in Statuses
      PROVE  /\ IsFiniteSet(part(s)) /\ Cardinality(part(s)) \in Nat
             /\ Cardinality(Always(t, s)) <= Cardinality(part(s))
             /\ Cardinality(part(s)) <= Cardinality(Ever(t, s))
  <2>1. Always(t, s) \in SUBSET part(s)
    <3>1. s # "absent"
      BY DEF Statuses, Stored
    <3> QED
      BY <3>1 DEF Always
  <2>2. part(s) \in SUBSET Ever(t, s) /\ Ever(t, s) \in SUBSET t.refs
    BY DEF Ever
  <2>3. IsFiniteSet(part(s)) /\ IsFiniteSet(Ever(t, s))
    BY <1>1, <2>2, FS_Subset
  <2> HIDE DEF part
  <2> QED
    BY <2>1, <2>2, <2>3, FS_Subset, FS_CardinalityType
<1>3. found = ((part("active") \cup part("expired")) \cup part("suspended")) \cup part("revoked")
  BY DEF Statuses, Stored
<1>4. /\ \A c \in part("active") : c \notin part("expired")
      /\ \A c \in part("active") \cup part("expired") : c \notin part("suspended")
      /\ \A c \in (part("active") \cup part("expired")) \cup part("suspended") :
           c \notin part("revoked")
  OBVIOUS
<1>5. \A s \in Statuses : t.answer.of[s] = Cardinality(part(s))
  OBVIOUS
<1> HIDE DEF part
<1>6. {"active", "expired", "suspended", "revoked"} \subseteq Statuses
  BY DEF Statuses, Stored
<1>7. /\ IsFiniteSet(part("active") \cup part("expired"))
      /\ Cardinality(part("active") \cup part("expired"))
           = Cardinality(part("active")) + Cardinality(part("expired"))
  BY ONLY <1>2, <1>4, <1>6, ApartAddUp
<1>8. /\ IsFiniteSet((part("active") \cup part("expired")) \cup part("suspended"))
      /\ Cardinality((part("active") \cup part("expired")) \cup part("suspended"))
           = Cardinality(part("active") \cup part("expired")) + Cardinality(part("suspended"))
  BY ONLY <1>2, <1>4, <1>6, <1>7, ApartAddUp
<1>9. Cardinality(found)
        = Cardinality((part("active") \cup part("expired")) \cup part("suspended"))
            + Cardinality(part("revoked"))
  BY ONLY <1>2, <1>3, <1>4, <1>6, <1>8, ApartAddUp
<1>10. Cardinality(found) = Cardinality(part("active")) + Cardinality(part("expired"))
                            + Cardinality(part("suspended")) + Cardinality(part("revoked"))
  BY <1>7, <1>8, <1>9
<1>11. t.answer.totalIssued = t.answer.of["active"] + t.answer.of["expired"]
                              + t.answer.of["suspended"] + t.answer.of["revoked"]
  BY <1>5, <1>6, <1>10
<1> QED
  BY <1>2, <1>5, <1>11 DEF StatsAreTrue

\* The wallet's list, each card with the flag of its row.
WalletOf(t, found, says, fav, rw) ==
  /\ found \subseteq t.refs /\ t.refs \subseteq Creds
  /\ \A c \in found : says[c] \in t.was[c] \ {"absent"} /\ says[c] \in Statuses
  /\ \A c \in t.refs \ found : "absent" \in t.was[c]
  /\ \A c \in found : fav[c] \in BOOLEAN /\ rw[c].there
  /\ t.answer.list = [i \in DOMAIN Sorted(found, WalletOrder) |->
                         Model(Sorted(found, WalletOrder)[i],
                               says[Sorted(found, WalletOrder)[i]],
                               fav[Sorted(found, WalletOrder)[i]])]

\* It tells the truth.
LEMMA WalletTells ==
  ASSUME NEW t, NEW found, NEW says, NEW fav, NEW rw, WalletOf(t, found, says, fav, rw)
  PROVE  /\ WalletIsTrue(t) /\ Loadable(t, rw)
         /\ \A i \in DOMAIN t.answer.list :
              /\ t.answer.list[i].cred \in found
              /\ t.answer.list[i].fav = fav[t.answer.list[i].cred]
<1> USE DEF WalletOf
<1> DEFINE items == Sorted(found, WalletOrder)
           list == t.answer.list
<1>1. IsFiniteSet(found) /\ Orders(WalletOrder, found) /\ found \subseteq Creds
  BY NewestFirstOrders
<1>2. /\ DOMAIN items \subseteq Nat
      /\ \A c \in found : \E i \in DOMAIN items : items[i] = c
      /\ \A i \in DOMAIN items : items[i] \in found
      /\ \A i, j \in DOMAIN items : i < j => <<items[i], items[j]>> \in WalletOrder
  BY <1>1, SortedIs
<1>3. /\ DOMAIN list = DOMAIN items
      /\ \A i \in DOMAIN items : list[i] = Model(items[i], says[items[i]], fav[items[i]])
  OBVIOUS
<1> HIDE DEF items, list
<1>4. \A i \in DOMAIN items : /\ list[i].cred = items[i] /\ list[i].status = says[items[i]]
                              /\ list[i].fav = fav[items[i]] /\ list[i] \in Models
  BY <1>1, <1>2, <1>3 DEF Model, Models
<1>5. t.refs \ Ever(t, "absent") \subseteq {list[i].cred : i \in DOMAIN list}
  <2> SUFFICES ASSUME NEW c \in t.refs \ Ever(t, "absent")
               PROVE  \E i \in DOMAIN list : list[i].cred = c
    OBVIOUS
  <2>1. c \in found
    BY DEF Ever
  <2> QED
    BY <1>2, <1>3, <1>4, <2>1
<1>6. ASSUME NEW i \in DOMAIN list, NEW j \in DOMAIN list, i < j
      PROVE  /\ IssuedAt[list[i].cred] >= IssuedAt[list[j].cred]
             /\ list[i].cred # list[j].cred
  <2>1. <<items[i], items[j]>> \in WalletOrder
    BY <1>2, <1>3, <1>6
  <2>2. /\ items[i] \in Nat /\ items[j] \in Nat
        /\ IssuedAt[items[i]] \in Nat /\ IssuedAt[items[j]] \in Nat
    BY <1>1, <1>2, <1>3, CredsAssumption
  <2> QED
    BY <1>3, <1>4, <2>1, <2>2 DEF WalletOrder
<1>7. \A i \in DOMAIN list : /\ list[i].cred \in t.refs
                             /\ list[i].status \in t.was[list[i].cred] \ {"absent"}
  BY <1>2, <1>3, <1>4
<1>8. WalletIsTrue(t)
  BY <1>5, <1>6, <1>7 DEF WalletIsTrue, list
<1>9. Loadable(t, rw)
  BY <1>2, <1>3, <1>4 DEF Loadable, list
<1> QED
  BY <1>2, <1>3, <1>4, <1>8, <1>9 DEF list

-----------------------------------------------------------------------------
(* Steps of one slot that leave the list of the phone alone. *)

Unmoved == chain' = chain /\ expired' = expired

LEMMA GrowsItself == \A rw : Grows(rw, rw)
BY DEF Grows

\* The reads of the portal, of the wallet and for a service.
LEMMA TakesAreRequests ==
  ASSUME RequestsInv, NEW p \in Slots, NEW r, Take(p, r), Request(r, chain, rows),
         UNCHANGED phone
  PROVE  RequestsInv'
<1>1. Typed
  BY DEF RequestsInv
<1>2. /\ DOMAIN req' = Slots /\ req'[p] = r /\ (\A q \in Slots : q # p => req'[q] = req[q])
      /\ chain' = chain /\ expired' = expired /\ rows' = rows
      /\ mixed' = mixed /\ misplaced' = misplaced
  BY <1>1 DEF Take, ledger, phone, Typed
<1> QED
  BY <1>1, <1>2, GrowsItself, SlotSteps DEF Typed

\* A slot that is free again, or that changes to x.
LEMMA ChangesAreRequests ==
  ASSUME RequestsInv, NEW p \in Slots, NEW x, req' = [req EXCEPT ![p] = x],
         UNCHANGED <<chain, expired, rows>>, Request(x, chain, rows),
         mixed' \in BOOLEAN, misplaced' \in BOOLEAN
  PROVE  RequestsInv'
<1>1. Typed
  BY DEF RequestsInv
<1>2. DOMAIN req' = Slots /\ req'[p] = x /\ (\A q \in Slots : q # p => req'[q] = req[q])
  BY <1>1 DEF Typed
<1> QED
  BY <1>1, <1>2, GrowsItself, SlotSteps DEF Typed

LEMMA IdleIsRequest == \A ch, rw : Request(Idle, ch, rw)
BY DEF Request

\* An answer.
LEMMA AnswersAreRequests ==
  ASSUME RequestsInv, NEW p \in Slots, NEW answer, Answer(p, answer),
         UNCHANGED phone, Request(Told(req[p], answer), chain, rows)
  PROVE  RequestsInv'
<1>1. /\ req' = [req EXCEPT ![p] = Told(req[p], answer)]
      /\ UNCHANGED <<chain, expired, rows>> /\ mixed' = mixed /\ misplaced' = misplaced
  BY DEF Answer, ledger, phone, RequestsInv, Typed
<1>2. mixed \in BOOLEAN /\ misplaced \in BOOLEAN
  BY DEF RequestsInv, Typed
<1> QED
  BY <1>1, <1>2, ChangesAreRequests

\* What holds of a request by what it is doing.
LEMMA RequestBy ==
  ASSUME NEW r, NEW ch, NEW rw, Request(r, ch, rw)
  PROVE  /\ r.pc = "read" => Reading(r, ch, rw) /\ Chunked(r)
         /\ r.pc = "mark" => Reading(r, ch, rw) /\ Marking(r, rw)
         /\ r.pc = "told" => Telling(r, rw)
         /\ r.pc = "decrypt" =>
              /\ DOMAIN r = {"pc", "cred", "index", "shifted"}
              /\ r.cred \in Creds /\ r.shifted \in BOOLEAN
         /\ r.pc \in {"tap", "flipped", "late"} =>
              /\ DOMAIN r = {"pc", "cred", "index", "original", "crossed"}
              /\ r.cred \in Creds /\ r.original \in BOOLEAN /\ r.crossed \in BOOLEAN
BY DEF Request, Idle

\* A slot that has read everything.
LEMMA AllReadIs ==
  ASSUME RequestsInv, NEW p \in Slots, NEW kind, AllRead(p, kind)
  PROVE  /\ Reading(req[p], chain, rows) /\ Chunked(req[p]) /\ req[p].left = <<>>
         /\ req[p].kind = kind /\ req[p].pc = "read"
BY RequestBy DEF AllRead, RequestsInv

-----------------------------------------------------------------------------
(* The listings. *)

\* The list, the dashboard, the detail.
LEMMA ListCredentialsKeeps ==
  ASSUME RequestsInv, NEW p \in Slots, NEW status \in StatusFilters, NEW page \in Pages,
         NEW v \in Limits, ListCredentials(p, status, page, v), UNCHANGED phone
  PROVE  RequestsInv'
<1> DEFINE r == req[p]
           shown == {c \in Listed(p) : status \in {"", Reported(p, c)}}
           items == Sorted(shown, NewestFirst)
           limit == LimitOf(v)
           P == Page(items, page, limit)
           list == [i \in DOMAIN P |-> [cred |-> P[i], status |-> Reported(p, P[i])]]
           answer == [list |-> list, total |-> Len(items), status |-> status,
                      page |-> page, limit |-> limit]
           t == Told(r, answer)
<1>1. AllRead(p, "portal") /\ v # 0 /\ Answer(p, answer)
  BY DEF ListCredentials
<1>2. Reading(r, chain, rows) /\ Chunked(r) /\ r.left = <<>> /\ r.kind = "portal"
  BY <1>1, AllReadIs
<1>3. /\ answer.list = list /\ answer.total = Len(items) /\ answer.status = status
      /\ answer.page = page /\ answer.limit = limit /\ "of" \notin DOMAIN answer
  OBVIOUS
<1> HIDE DEF answer
<1>4. /\ DOMAIN t = {"pc", "kind", "arg", "refs", "crossed", "was", "answer"}
      /\ t.pc = "told" /\ t.kind = "portal" /\ t.crossed = r.crossed
      /\ t.answer = answer
      /\ Found(r) \subseteq t.refs /\ t.refs \subseteq Creds
      /\ \A c \in Found(r) : /\ Says(r, c) \in t.was[c] \ {"absent"}
                             /\ Says(r, c) \in Statuses
      /\ \A c \in t.refs \ Found(r) : "absent" \in t.was[c]
      /\ t.refs = DOMAIN r.refs
  BY <1>2, ReadIsComplete
<1> HIDE DEF t
<1> DEFINE says == [c \in Found(r) |-> Says(r, c)]
<1>5. /\ \A c \in Found(r) : says[c] = Reported(p, c) /\ says[c] = Says(r, c)
      /\ Found(r) = Listed(p)
  BY DEF Reported, Says, Found, Listed
<1>6. \A c : c \in shown <=> c \in Found(r) /\ status \in {"", says[c]}
  BY <1>5
<1>7. shown \in SUBSET Creds
  BY <1>4, <1>5
<1> HIDE DEF says, shown
<1>8. /\ items \in Seq(shown) /\ Len(items) = Cardinality(shown) /\ Cardinality(shown) \in Nat
      /\ \A i \in DOMAIN items : items[i] \in shown
      /\ \A i, j \in DOMAIN items : i < j => <<items[i], items[j]>> \in NewestFirst
  BY <1>7, NewestFirstOrders, SortedIs
<1>9. limit \in Nat \ {0}
  BY <1>1, LimitIsPositive
<1> HIDE DEF items, limit
<1> DEFINE n == Len(items)
           before == (page - 1) * limit
           start == AtMost(before, n)
<1>10. /\ start \in Nat /\ DOMAIN P = 1 .. Len(P) /\ Len(P) \in Nat
       /\ Len(P) = IF before >= n THEN 0 ELSE IF n - before < limit THEN n - before ELSE limit
       /\ \A i \in DOMAIN P : i + start \in DOMAIN items /\ P[i] = items[i + start]
  BY <1>8, <1>9, PageIs
<1> HIDE DEF P
<1>11. /\ DOMAIN list = DOMAIN P
       /\ \A i \in DOMAIN P : list[i].cred = P[i] /\ list[i].status = Reported(p, P[i])
  OBVIOUS
<1> HIDE DEF list
<1>12. Len(list) = Len(P)
  BY <1>10, <1>11
<1>13. ASSUME NEW i \in 1 .. Len(P)
       PROVE  /\ i + start \in DOMAIN items /\ list[i].cred = items[i + start]
              /\ list[i].status = says[items[i + start]]
  <2>1. i + start \in DOMAIN items /\ P[i] = items[i + start]
    BY <1>10
  <2>2. list[i].cred = P[i] /\ list[i].status = Reported(p, P[i])
    BY <1>10, <1>11
  <2>3. P[i] \in Found(r)
    BY <1>6, <1>8, <2>1
  <2> QED
    BY <1>5, <2>1, <2>2, <2>3
<1> DEFINE m == Len(P)
<1>14. m \in Nat /\ n \in Nat
       /\ m = (IF before >= n THEN 0 ELSE IF n - before < limit THEN n - before ELSE limit)
  BY <1>8, <1>10
<1>15. /\ (t.answer.page - 1) * t.answer.limit = before /\ t.answer.limit = limit
       /\ t.answer.list = list /\ t.answer.total = n /\ t.answer.status = status
  BY <1>3, <1>4
<1> HIDE DEF n, start, before, m
<1>16. ListIsTrue(t)
  <2>1. /\ \A c \in Found(r) : says[c] \in t.was[c] \ {"absent"}
        /\ n = Cardinality(shown) /\ start \in Nat
    BY <1>4, <1>5, <1>8, <1>10 DEF n
  <2>2. /\ Len(t.answer.list) = m /\ DOMAIN t.answer.list = 1 .. m
        /\ \A i \in 1 .. m : /\ i + start \in DOMAIN items
                             /\ t.answer.list[i].cred = items[i + start]
                             /\ t.answer.list[i].status = says[items[i + start]]
    BY <1>10, <1>11, <1>12, <1>13, <1>15 DEF m
  <2>3. PageOf(t, Found(r), says, status, shown, items, n, before, limit, m, start)
    BY <1>4, <1>6, <1>8, <1>14, <1>15, <2>1, <2>2 DEF PageOf
  <2> QED
    BY <2>3, ListTells
<1>17. Telling(t, rows)
  <2>1. r.crossed \in BOOLEAN
    BY <1>2 DEF Reading
  <2> QED
    BY <1>3, <1>4, <1>16, <2>1 DEF Telling, Kinds
<1>18. Request(t, chain, rows)
  BY <1>4, <1>17 DEF Request
<1> QED
  BY <1>1, <1>18, AnswersAreRequests DEF t

LEMMA DashboardStatsKeeps ==
  ASSUME RequestsInv, NEW p \in Slots, DashboardStats(p), UNCHANGED phone
  PROVE  RequestsInv'
<1> DEFINE r == req[p]
           of == [s \in Statuses |-> Cardinality({c \in Listed(p) : Counted(p, c) = s})]
           answer == [totalIssued |-> Cardinality(Listed(p)), of |-> of]
           t == Told(r, answer)
           says == [c \in Found(r) |-> Says(r, c)]
<1>1. AllRead(p, "portal") /\ Answer(p, answer)
  BY DEF DashboardStats
<1>2. Reading(r, chain, rows) /\ Chunked(r) /\ r.left = <<>> /\ r.kind = "portal"
  BY <1>1, AllReadIs
<1>3. /\ answer.totalIssued = Cardinality(Listed(p)) /\ answer.of = of
      /\ "list" \notin DOMAIN answer
  OBVIOUS
<1> HIDE DEF answer
<1>4. /\ DOMAIN t = {"pc", "kind", "arg", "refs", "crossed", "was", "answer"}
      /\ t.pc = "told" /\ t.kind = "portal" /\ t.crossed = r.crossed
      /\ t.answer = answer
      /\ Found(r) \subseteq t.refs /\ t.refs \subseteq Creds
      /\ \A c \in Found(r) : /\ Says(r, c) \in t.was[c] \ {"absent"}
                             /\ Says(r, c) \in Statuses
      /\ \A c \in t.refs \ Found(r) : "absent" \in t.was[c]
  BY <1>2, ReadIsComplete
<1> HIDE DEF t
<1>5. /\ \A c \in Found(r) : says[c] = Counted(p, c) /\ says[c] = Says(r, c)
      /\ Found(r) = Listed(p)
  BY DEF Counted, Reported, Says, Found, Listed
<1> HIDE DEF says
<1>6. ASSUME NEW s \in Statuses
      PROVE  t.answer.of[s] = Cardinality({c \in Found(r) : says[c] = s})
  <2>1. {c \in Listed(p) : Counted(p, c) = s} = {c \in Found(r) : says[c] = s}
    BY <1>5
  <2>2. of[s] = Cardinality({c \in Listed(p) : Counted(p, c) = s})
    OBVIOUS
  <2> HIDE DEF of
  <2> QED
    BY <1>3, <1>4, <2>1, <2>2
<1>7. /\ t.answer.totalIssued = Cardinality(Found(r))
      /\ \A c \in Found(r) : says[c] \in t.was[c] \ {"absent"} /\ says[c] \in Statuses
  BY <1>3, <1>4, <1>5
<1> HIDE DEF of
<1>8. StatsAreTrue(t)
  BY ONLY <1>4, <1>6, <1>7, StatsTell
<1>9. Telling(t, rows)
  <2>1. r.crossed \in BOOLEAN
    BY <1>2 DEF Reading
  <2> QED
    BY <1>3, <1>4, <1>8, <2>1 DEF Telling, Kinds
<1>10. Request(t, chain, rows)
  BY <1>4, <1>9 DEF Request
<1> QED
  BY <1>1, <1>10, AnswersAreRequests DEF t

LEMMA ShowDetailKeeps ==
  ASSUME RequestsInv, NEW p \in Slots, ShowDetail(p), UNCHANGED phone
  PROVE  RequestsInv'
<1> DEFINE r == req[p]
           answer == IF Listed(p) = {} THEN "absent" ELSE Reported(p, req[p].arg)
           t == Told(r, answer)
<1>1. AllRead(p, "detail") /\ Answer(p, answer)
  BY DEF ShowDetail
<1>2. Reading(r, chain, rows) /\ Chunked(r) /\ r.left = <<>> /\ r.kind = "detail"
  BY <1>1, AllReadIs
<1>3. DOMAIN r.refs = {r.arg}
  BY <1>2 DEF Reading
<1> HIDE DEF answer
<1>4. /\ DOMAIN t = {"pc", "kind", "arg", "refs", "crossed", "was", "answer"}
      /\ t.pc = "told" /\ t.kind = "detail" /\ t.crossed = r.crossed
      /\ t.answer = answer /\ t.arg = r.arg /\ t.refs = DOMAIN r.refs
      /\ Found(r) \subseteq t.refs /\ t.refs \subseteq Creds
      /\ \A c \in Found(r) : Says(r, c) \in t.was[c]
      /\ \A c \in t.refs \ Found(r) : "absent" \in t.was[c]
  BY <1>2, ReadIsComplete
<1> HIDE DEF t
<1>5. answer \in t.was[r.arg]
  <2>1. CASE Listed(p) = {}
    <3>1. r.arg \in t.refs \ Found(r)
      BY <1>3, <1>4, <2>1 DEF Listed, Found
    <3> QED
      BY <1>4, <2>1, <3>1 DEF answer
  <2>2. CASE Listed(p) # {}
    <3>1. r.arg \in Found(r)
      BY <1>3, <1>4, <2>2 DEF Listed, Found
    <3>2. answer = Says(r, r.arg)
      BY <2>2 DEF answer, Reported, Says
    <3> QED
      BY <1>4, <3>1, <3>2
  <2> QED
    BY <2>1, <2>2
<1>6. Telling(t, rows)
  <2>1. r.crossed \in BOOLEAN
    BY <1>2 DEF Reading
  <2> QED
    BY <1>4, <1>5, <2>1 DEF Telling, Kinds
<1>7. Request(t, chain, rows)
  BY <1>4, <1>6 DEF Request
<1> QED
  BY <1>1, <1>7, AnswersAreRequests DEF t

LEMMA ReadChunkKeeps ==
  ASSUME RequestsInv, NEW p \in Slots, ReadChunk(p), UNCHANGED phone
  PROVE  RequestsInv'
<1> DEFINE r == req[p]
           found == {c \in Head(r.left) : chain[c] # "absent"}
           snap == [c \in found \cup DOMAIN r.snap |->
                      IF c \in found THEN chain[c] ELSE r.snap[c]]
           x == [r EXCEPT !.left = Tail(r.left), !.snap = snap]
<1>1. r.pc = "read" /\ r.left # <<>>
  BY DEF ReadChunk
<1>2. Reading(r, chain, rows) /\ Chunked(r)
  BY <1>1, RequestBy DEF RequestsInv
<1>3. req' = [req EXCEPT ![p] = x] /\ UNCHANGED <<chain, expired, rows>>
  BY DEF ReadChunk, ledger, RequestsInv, Typed
<1> HIDE DEF snap
<1>4. /\ DOMAIN x = DOMAIN r /\ x.pc = r.pc /\ x.kind = r.kind /\ x.arg = r.arg
      /\ x.refs = r.refs /\ x.was = r.was /\ x.crossed = r.crossed /\ x.left = Tail(r.left)
      /\ x.snap = snap
  BY <1>2 DEF Reading
<1> HIDE DEF x
<1>5. Reading(x, chain, rows) /\ Chunked(x)
  <2>1. ChunkRead(r, x, chain, found)
    BY <1>4 DEF ChunkRead, snap
  <2> QED
    BY <1>1, <1>2, <2>1, ChunkIsRead
<1>6. Request(x, chain, rows)
  BY <1>1, <1>4, <1>5 DEF Request
<1>7. mixed' \in BOOLEAN /\ misplaced' \in BOOLEAN
  BY DEF RequestsInv, Typed, phone
<1> QED
  BY <1>3, <1>6, <1>7, ChangesAreRequests DEF x

\* A slot that is free again.
LEMMA FreesAreRequests ==
  ASSUME RequestsInv, NEW p \in Slots, req' = [req EXCEPT ![p] = Idle],
         UNCHANGED <<chain, expired, rows>>,
         mixed' \in BOOLEAN, misplaced' \in BOOLEAN
  PROVE  RequestsInv'
BY IdleIsRequest, ChangesAreRequests

\* Every step of the portal.
LEMMA ListingsStepKeeps ==
  ASSUME RequestsInv, NEW p \in Slots, ListingsStep(p), UNCHANGED phone
  PROVE  RequestsInv'
<1>0. mixed' \in BOOLEAN /\ misplaced' \in BOOLEAN
  BY DEF RequestsInv, Typed, phone
<1>1. CASE ReadPortal(p)
  <2>1. Take(p, Read("portal", 0, Rows))
    BY <1>1 DEF ReadPortal
  <2>2. Request(Read("portal", 0, Rows), chain, rows)
    BY ReadBegins DEF Kinds
  <2> QED
    BY <2>1, <2>2, TakesAreRequests
<1>2. ASSUME NEW c \in Creds, ReadDetail(p, c) PROVE RequestsInv'
  <2>1. Take(p, Read("detail", c, {c})) /\ {c} \in SUBSET Rows
    BY <1>2 DEF ReadDetail
  <2>2. Request(Read("detail", c, {c}), chain, rows)
    BY <2>1, ReadBegins DEF Kinds
  <2> QED
    BY <2>1, <2>2, TakesAreRequests
<1>3. CASE ReadChunk(p)
  BY <1>3, ReadChunkKeeps
<1>4. CASE ReadFails(p)
  BY <1>0, <1>4, FreesAreRequests DEF ReadFails, ledger
<1>5. ASSUME NEW status \in StatusFilters, NEW page \in Pages, NEW v \in Limits,
             ListCredentials(p, status, page, v)
      PROVE  RequestsInv'
  BY <1>5, ListCredentialsKeeps
<1>6. CASE DashboardStats(p)
  BY <1>6, DashboardStatsKeeps
<1>7. CASE ShowDetail(p)
  BY <1>7, ShowDetailKeeps
<1>8. CASE Answered(p)
  BY <1>0, <1>8, FreesAreRequests DEF Answered, ledger
<1> QED
  BY <1>1, <1>2, <1>3, <1>4, <1>5, <1>6, <1>7, <1>8 DEF ListingsStep

\* The chain, the clock and the rows.
LEMMA MovesKeep ==
  ASSUME RequestsInv, NEW new \in [Creds -> Words], NEW gone \in SUBSET Creds,
         Moves(new, gone), UNCHANGED phone
  PROVE  RequestsInv'
<1>1. Typed'
  BY DEF RequestsInv, Typed, Moves, phone
<1>2. ASSUME NEW q \in Slots PROVE Request(req'[q], chain', rows')
  <2>1. req'[q] = (IF req[q].pc \notin {"read", "mark"} THEN req[q] ELSE Moved(req[q], new))
    BY DEF Moves, Moved
  <2>2. chain' = new /\ rows' = rows
    BY DEF Moves
  <2> QED
    BY <2>1, <2>2, RequestMoved DEF RequestsInv
<1> QED
  BY <1>1, <1>2 DEF RequestsInv

LEMMA WorldStepKeeps ==
  ASSUME RequestsInv, WorldStep, UNCHANGED phone
  PROVE  RequestsInv'
<1>1. Typed
  BY DEF RequestsInv
<1>2. ASSUME NEW c \in Creds, IssueOnChain(c) PROVE RequestsInv'
  <2>1. [chain EXCEPT ![c] = "active"] \in [Creds -> Words]
    BY <1>1 DEF Typed, Words, Stored
  <2> QED
    BY <1>1, <1>2, <2>1, MovesKeep DEF IssueOnChain, Typed
<1>3. ASSUME NEW c \in Creds, InsertRow(c) PROVE RequestsInv'
  <2>1. /\ rows' = [rows EXCEPT ![c].there = TRUE] /\ req' = req
        /\ chain' = chain /\ expired' = expired /\ mixed' = mixed /\ misplaced' = misplaced
    BY <1>3 DEF InsertRow, ledger, phone
  <2>2. rows \in [Creds -> RowSet]
    BY <1>1 DEF Typed
  <2>3. rows' \in [Creds -> RowSet] /\ Grows(rows, rows')
    BY <2>1, <2>2 DEF RowSet, Grows
  <2>4. Typed'
    BY <1>1, <2>1, <2>3 DEF Typed
  <2>5. ASSUME NEW q \in Slots PROVE Request(req'[q], chain', rows')
    BY <2>1, <2>3, RequestGrows DEF RequestsInv
  <2> QED
    BY <2>4, <2>5 DEF RequestsInv
<1>4. ASSUME NEW c \in Creds, ExpiryPasses(c) PROVE RequestsInv'
  <2>1. chain \in [Creds -> Words] /\ expired \cup {c} \in SUBSET Creds
    BY <1>1 DEF Typed
  <2> QED
    BY <1>4, <2>1, MovesKeep DEF ExpiryPasses
<1>5. ASSUME NEW c \in Creds, NEW status \in Stored, ChangeStatus(c, status)
      PROVE  RequestsInv'
  <2>1. [chain EXCEPT ![c] = status] \in [Creds -> Words] /\ expired \in SUBSET Creds
    BY <1>1 DEF Typed, Words
  <2> QED
    BY <1>5, <2>1, MovesKeep DEF ChangeStatus
<1>6. CASE LedgerReset
  <2>1. [c \in Creds |-> "absent"] \in [Creds -> Words] /\ expired \in SUBSET Creds
    BY <1>1 DEF Typed, Words
  <2> QED
    BY <1>6, <2>1, MovesKeep DEF LedgerReset
<1> QED
  BY <1>2, <1>3, <1>4, <1>5, <1>6 DEF WorldStep

-----------------------------------------------------------------------------
(* The wallet. *)

\* A load or a tap that begins.
LEMMA BeginsAreRequests ==
  ASSUME RequestsInv, NEW p \in Slots, NEW r, NEW kind, NEW c, Begin(p, r, kind, c),
         Request(r, chain, rows), r.pc \in {"read", "tap"},
         UNCHANGED <<mixed, misplaced>>
  PROVE  RequestsInv'
<1>1. Typed'
  BY DEF RequestsInv, Typed, Begin, ledger
<1>2. ASSUME NEW q \in Slots PROVE Request(req'[q], chain', rows')
  <2>1. chain' = chain /\ rows' = rows /\ Request(req[q], chain, rows)
    BY DEF Begin, ledger, RequestsInv
  <2>2. CASE q = p
    <3> DEFINE b == \E o \in Slots : Meets(req[o], kind, c)
    <3>1. req'[q] = Crossed(r, b) /\ b \in BOOLEAN
      BY <2>2 DEF Begin, Crossed
    <3> HIDE DEF b
    <3> QED
      BY <2>1, <3>1, RequestCrossed
  <2>3. CASE q # p /\ Meets(req[q], kind, c)
    <3>1. req'[q] = Crossed(req[q], TRUE)
      BY <2>3 DEF Begin, Crossed
    <3>2. req[q].pc \in {"read", "told", "tap", "flipped", "late"}
      BY <2>3 DEF Meets, IsLoad, IsTap
    <3> QED
      BY <2>1, <3>1, <3>2, RequestCrossed
  <2>4. CASE q # p /\ ~Meets(req[q], kind, c)
    <3>1. req'[q] = req[q]
      BY <2>4 DEF Begin
    <3> QED
      BY <2>1, <3>1
  <2> QED
    BY <2>2, <2>3, <2>4
<1> QED
  BY <1>1, <1>2 DEF RequestsInv

\* A load begins.
LEMMA FetchMyCredentialsKeeps ==
  ASSUME RequestsInv, NEW p \in Slots, FetchMyCredentials(p)
  PROVE  RequestsInv'
<1> DEFINE refs == {c \in Rows : rows[c].wallet}
           r == Read("wallet", 0, refs)
<1>1. Begin(p, r, "wallet", 0) /\ UNCHANGED <<mixed, misplaced>>
  BY DEF FetchMyCredentials, phone
<1>2. refs \in SUBSET Rows /\ "wallet" \in Kinds
  BY DEF Kinds
<1> HIDE DEF refs
<1>3. Request(r, chain, rows) /\ r.pc = "read"
  BY <1>2, ReadBegins
<1> HIDE DEF r
<1> QED
  BY <1>1, <1>3, BeginsAreRequests

\* The answer of a load, and what it shows.
LEMMA LoadIsTold ==
  ASSUME RequestsInv, NEW p \in Slots, GetCredentialsByHolder(p)
  PROVE  /\ RequestsInv'
         /\ req[p].pc = "read" /\ req[p].kind = "wallet"
         /\ req'[p].pc = "told" /\ req'[p].kind = "wallet"
         /\ req'[p].crossed = req[p].crossed
         /\ \A q \in Slots : q # p => req'[q] = req[q]
         /\ "list" \in DOMAIN req'[p].answer
         /\ \A i \in DOMAIN req'[p].answer.list :
              /\ req'[p].answer.list[i].cred \in DOMAIN req[p].refs
              /\ req'[p].answer.list[i].fav = req[p].refs[req'[p].answer.list[i].cred].fav
<1> DEFINE r == req[p]
           items == Sorted(Listed(p), WalletOrder)
           list == [i \in DOMAIN items |->
                      Model(items[i], Reported(p, items[i]), r.refs[items[i]].fav)]
           answer == [list |-> list]
           t == Told(r, answer)
           says == [c \in Found(r) |-> Says(r, c)]
           fav == [c \in Found(r) |-> r.refs[c].fav]
<1>1. AllRead(p, "wallet") /\ req' = [req EXCEPT ![p] = t]
      /\ UNCHANGED <<chain, expired, rows, mixed, misplaced>>
  BY DEF GetCredentialsByHolder, ledger, phone
<1>2. /\ Reading(r, chain, rows) /\ Chunked(r) /\ r.left = <<>>
      /\ r.kind = "wallet" /\ r.pc = "read"
  BY <1>1, AllReadIs
<1>3. answer.list = list /\ "list" \in DOMAIN answer
  OBVIOUS
<1> HIDE DEF answer
<1>4. /\ DOMAIN t = {"pc", "kind", "arg", "refs", "crossed", "was", "answer"}
      /\ t.pc = "told" /\ t.kind = "wallet" /\ t.crossed = r.crossed
      /\ t.answer = answer /\ t.refs = DOMAIN r.refs
      /\ Found(r) \subseteq t.refs /\ t.refs \subseteq Creds
      /\ \A c \in Found(r) : /\ Says(r, c) \in t.was[c] \ {"absent"}
                             /\ Says(r, c) \in Statuses
      /\ \A c \in t.refs \ Found(r) : "absent" \in t.was[c]
  BY <1>2, ReadIsComplete
<1> HIDE DEF t
<1>5. Found(r) = Listed(p)
  BY DEF Found, Listed
<1>6. /\ \A c \in Found(r) : says[c] = Reported(p, c) /\ says[c] = Says(r, c)
      /\ \A c \in Found(r) : fav[c] = r.refs[c].fav
  BY <1>5 DEF Reported, Says
<1> HIDE DEF says, fav
<1>7. /\ \A c \in Found(r) : says[c] \in t.was[c] \ {"absent"} /\ says[c] \in Statuses
      /\ \A c \in Found(r) : fav[c] \in BOOLEAN /\ rows[c].there
  BY <1>2, <1>4, <1>6 DEF Reading
<1>8. IsFiniteSet(Found(r)) /\ Orders(WalletOrder, Found(r))
  BY <1>4, NewestFirstOrders
<1>9. \A i \in DOMAIN items : items[i] \in Found(r)
  BY <1>5, <1>8, SortedIs
<1> HIDE DEF items
<1>10. list = [i \in DOMAIN items |-> Model(items[i], says[items[i]], fav[items[i]])]
  BY <1>6, <1>9
<1> HIDE DEF list
<1>11. t.answer.list
         = [i \in DOMAIN Sorted(Found(r), WalletOrder) |->
              Model(Sorted(Found(r), WalletOrder)[i],
                    says[Sorted(Found(r), WalletOrder)[i]],
                    fav[Sorted(Found(r), WalletOrder)[i]])]
  BY <1>3, <1>4, <1>5, <1>10 DEF items
<1>12. /\ WalletIsTrue(t) /\ Loadable(t, rows)
       /\ \A i \in DOMAIN t.answer.list :
            /\ t.answer.list[i].cred \in Found(r)
            /\ t.answer.list[i].fav = fav[t.answer.list[i].cred]
  <2>1. WalletOf(t, Found(r), says, fav, rows)
    BY ONLY <1>4, <1>7, <1>11 DEF WalletOf
  <2> QED
    BY <2>1, WalletTells
<1>13. Telling(t, rows)
  <2>1. r.crossed \in BOOLEAN
    BY <1>2 DEF Reading
  <2> QED
    BY <1>4, <1>12, <2>1 DEF Telling, Kinds
<1>14. Request(t, chain, rows)
  BY <1>4, <1>13 DEF Request
<1>15. mixed' \in BOOLEAN /\ misplaced' \in BOOLEAN
  BY <1>1 DEF RequestsInv, Typed
<1>16. RequestsInv'
  BY <1>1, <1>14, <1>15, ChangesAreRequests
<1>17. req'[p] = t /\ \A q \in Slots : q # p => req'[q] = req[q]
  BY <1>1 DEF RequestsInv, Typed
<1> QED
  BY <1>2, <1>3, <1>4, <1>6, <1>12, <1>16, <1>17

\* What an answer keeps of its request.
LEMMA ToldIs ==
  ASSUME NEW r, Reading(r, chain, rows), NEW answer, NEW t, t = Told(r, answer)
  PROVE  /\ DOMAIN t = {"pc", "kind", "arg", "refs", "crossed", "was", "answer"}
         /\ t.pc = "told" /\ t.kind = r.kind /\ t.arg = r.arg /\ t.crossed = r.crossed
         /\ t.refs = DOMAIN r.refs /\ t.refs \subseteq Creds /\ t.answer = answer
         /\ t.crossed \in BOOLEAN /\ t.kind \in Kinds
         /\ \A c \in t.refs : "absent" \in r.was[c] => "absent" \in t.was[c]
<1>1. /\ DOMAIN t = {"pc", "kind", "arg", "refs", "crossed", "was", "answer"}
      /\ t.pc = "told" /\ t.kind = r.kind /\ t.arg = r.arg /\ t.crossed = r.crossed
      /\ t.refs = DOMAIN r.refs /\ t.answer = answer
      /\ t.was = [c \in Creds |-> {Effective(s, c) : s \in r.was[c]}]
  BY DEF Told
<1>2. DOMAIN r.refs \subseteq Creds /\ r.crossed \in BOOLEAN /\ r.kind \in Kinds
  BY DEF Reading
<1>3. \A c : Effective("absent", c) = "absent"
  BY DEF Effective
<1> QED
  BY <1>1, <1>2, <1>3

\* A load that is answered with an error.
LEMMA LoadRefusedKeeps ==
  ASSUME RequestsInv, NEW p \in Slots, LoadRefused(p)
  PROVE  /\ RequestsInv'
         /\ IsLoad(req[p]) /\ req'[p].pc = "told" /\ req'[p].kind = "wallet"
         /\ req'[p].crossed = req[p].crossed /\ "list" \notin DOMAIN req'[p].answer
         /\ \A q \in Slots : q # p => req'[q] = req[q]
<1> DEFINE answer == [error |-> 502]
           t == Told(req[p], answer)
<1>1. /\ req[p].pc = "read" /\ req[p].kind = "wallet" /\ req' = [req EXCEPT ![p] = t]
      /\ UNCHANGED <<chain, expired, rows, mixed, misplaced>>
  BY DEF LoadRefused, ledger, phone, RequestsInv, Typed
<1>2. Reading(req[p], chain, rows)
  BY <1>1, RequestBy DEF RequestsInv
<1>3. "list" \notin DOMAIN answer
  OBVIOUS
<1> HIDE DEF answer
<1>4. /\ DOMAIN t = {"pc", "kind", "arg", "refs", "crossed", "was", "answer"}
      /\ t.pc = "told" /\ t.kind = "wallet" /\ t.refs \subseteq Creds /\ t.answer = answer
      /\ t.crossed \in BOOLEAN /\ t.kind \in Kinds /\ t.crossed = req[p].crossed
  BY <1>1, <1>2, ToldIs
<1> HIDE DEF t
<1>5. Request(t, chain, rows)
  BY <1>3, <1>4 DEF Telling, Request
<1>6. mixed' \in BOOLEAN /\ misplaced' \in BOOLEAN
  BY <1>1 DEF RequestsInv, Typed
<1>7. RequestsInv'
  BY <1>1, <1>5, <1>6, ChangesAreRequests
<1>8. req'[p] = t /\ \A q \in Slots : q # p => req'[q] = req[q]
  BY <1>1 DEF RequestsInv, Typed
<1> QED
  BY <1>1, <1>3, <1>4, <1>7, <1>8 DEF IsLoad

\* A load that arrives frees its slot and tells the decryptions under way
\* whether their index is off.
LEMMA LoadArrivesFrees ==
  ASSUME RequestsInv, NEW p \in Slots, LoadArrives(p)
  PROVE  /\ RequestsInv' /\ req'[p] = Idle
         /\ \A q \in Slots : q # p =>
              \/ req[q].pc # "decrypt" /\ req'[q] = req[q]
              \/ /\ req[q].pc = "decrypt" /\ req'[q].pc = "decrypt"
                 /\ req'[q].index = req[q].index /\ req'[q].cred = req[q].cred
                 /\ req'[q].shifted = OffIndex(req[q], credentials')
<1>1. /\ DOMAIN req' = Slots /\ req'[p] = Idle
      /\ req[p].pc = "told" /\ req[p].kind = "wallet"
      /\ mixed' = req[p].crossed /\ misplaced' = FALSE
      /\ UNCHANGED <<chain, expired, rows>>
  BY DEF LoadArrives, ledger
<1>2. \A q \in Slots : Request(req[q], chain, rows)
  BY DEF RequestsInv
<1>3. ASSUME NEW q \in Slots, q # p, req[q].pc # "decrypt" PROVE req'[q] = req[q]
  BY <1>3 DEF LoadArrives
<1>4. ASSUME NEW q \in Slots, q # p, req[q].pc = "decrypt"
      PROVE  /\ Request(req'[q], chain, rows) /\ req'[q].pc = "decrypt"
             /\ req'[q].index = req[q].index /\ req'[q].cred = req[q].cred
             /\ req'[q].shifted = OffIndex(req[q], credentials')
  <2> DEFINE b == OffIndex(req[q], credentials')
  <2>1. req'[q] = [req[q] EXCEPT !.shifted = b] /\ b \in BOOLEAN
    BY <1>4 DEF LoadArrives, OffIndex
  <2> HIDE DEF b
  <2>2. DOMAIN req[q] = {"pc", "cred", "index", "shifted"} /\ req[q].cred \in Creds
    BY <1>2, <1>4, RequestBy
  <2>3. /\ DOMAIN req'[q] = {"pc", "cred", "index", "shifted"}
        /\ req'[q].pc = "decrypt" /\ req'[q].index = req[q].index
        /\ req'[q].cred = req[q].cred /\ req'[q].shifted = b
    BY <1>4, <2>1, <2>2
  <2> QED
    BY <2>1, <2>2, <2>3 DEF b, Request
<1>5. \A q \in Slots : Request(req'[q], chain, rows)
  BY <1>1, <1>2, <1>3, <1>4, IdleIsRequest
<1>6. Telling(req[p], rows)
  BY <1>1, <1>2, RequestBy
<1>7. Typed'
  BY <1>1, <1>6 DEF RequestsInv, Typed, Telling
<1> QED
  BY <1>1, <1>3, <1>4, <1>5, <1>7 DEF RequestsInv

\* A load that arrives brings cards that are new.
LEMMA LoadArrivesBrings ==
  ASSUME RequestsInv, NEW p \in Slots, LoadArrives(p)
  PROVE  /\ RequestsInv'
         /\ Cards(credentials', rows')
         /\ Bodies'
<1>1. /\ req[p].pc = "told" /\ req[p].kind = "wallet"
      /\ credentials' = Data(req[p].answer)
      /\ mixed' = req[p].crossed /\ misplaced' = FALSE
      /\ UNCHANGED <<chain, expired, rows>>
  BY DEF LoadArrives, Loaded, ledger
<1>2. Telling(req[p], rows)
  BY <1>1, RequestBy DEF RequestsInv
<1>3. RequestsInv'
  BY LoadArrivesFrees
<1>4. CASE "list" \in DOMAIN req[p].answer
  <2> DEFINE list == req[p].answer.list
  <2>1. credentials' = list
    BY <1>1, <1>4 DEF Data
  <2>2. WalletIsTrue(req[p]) /\ Loadable(req[p], rows)
    BY <1>1, <1>2, <1>4 DEF Telling
  <2>3. \A i \in DOMAIN list : list[i] \in Models /\ rows[list[i].cred].there
    BY <2>2 DEF Loadable
  <2> SUFFICES Cards(list, rows) /\ \A i \in DOMAIN list : list[i].body = Encrypted
    BY <1>1, <1>3, <2>1 DEF Bodies
  <2>4. \A i \in DOMAIN list : /\ list[i].body = Encrypted /\ rows[list[i].cred].there
                               /\ list[i] \in [cred : Creds, status : Statuses, fav : BOOLEAN,
                                               body : Creds \cup {Encrypted}]
    BY <2>3 DEF Models
  <2>5. \A i, j \in DOMAIN list : i < j => list[i].cred # list[j].cred
    BY <2>2 DEF WalletIsTrue
  <2>6. DOMAIN list \subseteq Nat
    BY <2>2 DEF Loadable
  <2> HIDE DEF list
  <2>7. \A i, j \in DOMAIN list : list[i].cred = list[j].cred => i = j
    BY <2>5, <2>6
  <2> QED
    BY <2>4, <2>7 DEF Cards
<1>5. CASE "list" \notin DOMAIN req[p].answer
  <2>1. credentials' = <<>> /\ DOMAIN (<<>>) = {}
    BY <1>1, <1>5 DEF Data
  <2> QED
    BY <1>3, <2>1 DEF Cards, Bodies
<1> QED
  BY <1>4, <1>5

\* A fetch that adds nothing.
LEMMA FetchNothingKeeps ==
  ASSUME RequestsInv, NEW p \in Slots, FetchNothing(p)
  PROVE  RequestsInv'
<1> DEFINE r == req[p]
           answer == IF Matched(p) = {} THEN "not issued" ELSE "already in wallet"
           t == Told(r, answer)
<1>1. AllRead(p, "fetch") /\ ToAdd(p) = {} /\ Answer(p, answer) /\ UNCHANGED phone
  BY DEF FetchNothing
<1>2. Reading(r, chain, rows) /\ Chunked(r) /\ r.left = <<>> /\ r.kind = "fetch"
  BY <1>1, AllReadIs
<1>3. answer = "not issued" <=> Matched(p) = {}
  OBVIOUS
<1> HIDE DEF answer
<1>4. /\ DOMAIN t = {"pc", "kind", "arg", "refs", "crossed", "was", "answer"}
      /\ t.pc = "told" /\ t.kind = "fetch" /\ t.crossed = r.crossed
      /\ t.answer = answer /\ t.arg = r.arg /\ t.refs = DOMAIN r.refs
      /\ t.refs \subseteq Creds
      /\ \A c \in t.refs \ Found(r) : "absent" \in t.was[c]
  BY <1>2, ReadIsComplete
<1> HIDE DEF t
<1>5. ASSUME NEW c \in t.refs, c \notin Ever(t, "absent"), c \in Pattern[t.arg]
      PROVE  c \in Matched(p) /\ rows[c].wallet
  <2>1. c \in Found(r)
    BY <1>4, <1>5 DEF Ever
  <2>2. c \in Matched(p)
    BY <1>4, <1>5, <2>1 DEF Matched, Listed, Found
  <2>3. r.refs[c].wallet
    BY <1>1, <2>2 DEF ToAdd
  <2> QED
    BY <1>2, <1>4, <1>5, <2>2, <2>3 DEF Reading
<1>6. FetchIsTrue(t, rows)
  BY <1>3, <1>4, <1>5 DEF FetchIsTrue
<1>7. Telling(t, rows)
  <2>1. r.crossed \in BOOLEAN
    BY <1>2 DEF Reading
  <2> QED
    BY <1>4, <1>6, <2>1 DEF Telling, Kinds
<1>8. Request(t, chain, rows)
  BY <1>4, <1>7 DEF Request
<1> QED
  BY <1>1, <1>8, AnswersAreRequests DEF t

\* A fetch that has found what to add.
LEMMA FetchFindsKeeps ==
  ASSUME RequestsInv, NEW p \in Slots, FetchFinds(p)
  PROVE  RequestsInv'
<1> DEFINE r == req[p]
           x == [r EXCEPT !.pc = "mark", !.left = Adds(p)]
<1>1. AllRead(p, "fetch") /\ req' = [req EXCEPT ![p] = x]
      /\ UNCHANGED <<chain, expired, rows, mixed, misplaced>>
  BY DEF FetchFinds, ledger, phone, RequestsInv, Typed
<1>2. Reading(r, chain, rows) /\ Chunked(r) /\ r.left = <<>> /\ r.kind = "fetch"
  BY <1>1, AllReadIs
<1>3. /\ DOMAIN x = DOMAIN r /\ x.pc = "mark" /\ x.kind = r.kind /\ x.arg = r.arg
      /\ x.refs = r.refs /\ x.left = Adds(p) /\ x.snap = r.snap /\ x.was = r.was
      /\ x.crossed = r.crossed
  BY <1>2 DEF Reading
<1> HIDE DEF x
<1>4. Reading(x, chain, rows)
  BY <1>2, <1>3 DEF Reading
<1>5. ToAdd(p) \in SUBSET DOMAIN r.refs /\ ToAdd(p) \in SUBSET Creds
  BY <1>2 DEF Reading, ToAdd, Matched, Listed
<1>6. IsFiniteSet(ToAdd(p)) /\ Orders(Increasing, ToAdd(p))
  <2>1. IsFiniteSet(ToAdd(p))
    BY <1>5, CredsAssumption, FS_Subset
  <2>2. \A c \in ToAdd(p) : c \in Creds /\ c \in Nat
    BY <1>5, CredsAssumption
  <2> QED
    BY <2>1, <2>2 DEF Orders, Increasing
<1>7. /\ Adds(p) \in Seq(ToAdd(p))
      /\ \A c \in ToAdd(p) : \E k \in DOMAIN Adds(p) : Adds(p)[k] = c
  BY <1>6, SortedIs DEF Adds, Ascending
<1>8. Adds(p) \in Seq(DOMAIN r.refs)
  BY <1>5, <1>7
<1>9. ASSUME NEW c \in DOMAIN r.refs, c \in Pattern[r.arg], "absent" \notin r.was[c],
             ~rows[c].wallet
      PROVE  \E k \in DOMAIN Adds(p) : Adds(p)[k] = c
  <2>1. c \in Listed(p)
    BY <1>2, <1>9 DEF Chunked, Listed
  <2>2. ~r.refs[c].wallet
    BY <1>2, <1>9 DEF Reading
  <2>3. c \in ToAdd(p)
    BY <1>9, <2>1, <2>2 DEF ToAdd, Matched
  <2> QED
    BY <1>7, <2>3
<1>10. Marking(x, rows)
  BY <1>2, <1>3, <1>8, <1>9 DEF Marking
<1>11. Request(x, chain, rows)
  BY <1>3, <1>4, <1>10 DEF Request
<1>12. mixed' \in BOOLEAN /\ misplaced' \in BOOLEAN
  BY <1>1 DEF RequestsInv, Typed
<1> QED
  BY <1>1, <1>11, <1>12, ChangesAreRequests DEF x

\* One of them.
LEMMA MarkInWalletKeeps ==
  ASSUME RequestsInv, NEW p \in Slots, MarkInWallet(p)
  PROVE  /\ RequestsInv' /\ Grows(rows, rows')
         /\ \A c \in Creds : rows'[c].fav = rows[c].fav
<1> DEFINE r == req[p]
           left == r.left
           new == [rows EXCEPT ![Head(left)].wallet = TRUE]
           x == [r EXCEPT !.left = Tail(left)]
<1>1. /\ r.pc = "mark" /\ left # <<>> /\ req' = [req EXCEPT ![p] = x] /\ rows' = new
      /\ UNCHANGED <<chain, expired, mixed, misplaced>>
  BY DEF MarkInWallet, ledger, phone, RequestsInv, Typed
<1>2. Reading(r, chain, rows) /\ Marking(r, rows)
  BY <1>1, RequestBy DEF RequestsInv
<1>3. left \in Seq(DOMAIN r.refs) /\ DOMAIN r.refs \subseteq Creds
  BY <1>2 DEF Reading, Marking
<1>4. /\ DOMAIN x = DOMAIN r /\ x.pc = "mark" /\ x.kind = r.kind /\ x.arg = r.arg
      /\ x.refs = r.refs /\ x.left = Tail(left) /\ x.snap = r.snap /\ x.was = r.was
      /\ x.crossed = r.crossed
  BY <1>1, <1>2 DEF Reading
<1> HIDE DEF x, left
<1> DEFINE D == DOMAIN r.refs
<1> HIDE DEF D
<1>5. /\ Head(left) \in D /\ Head(left) = left[1]
      /\ Tail(left) \in Seq(D) /\ DOMAIN Tail(left) = 1 .. (Len(left) - 1)
      /\ DOMAIN left = 1 .. Len(left) /\ Len(left) \in Nat
      /\ \A k \in 1 .. (Len(left) - 1) : Tail(left)[k] = left[k + 1]
  <2>1. left \in Seq(D) /\ left # <<>>
    BY <1>1, <1>3 DEF D, left
  <2> QED
    BY <2>1
<1>6. rows \in [Creds -> RowSet] /\ Head(left) \in Creds
  BY <1>3, <1>5 DEF RequestsInv, Typed, D
<1>7. /\ new \in [Creds -> RowSet] /\ Grows(rows, new) /\ new[Head(left)].wallet
      /\ \A c \in Creds : new[c].fav = rows[c].fav
  BY <1>6 DEF RowSet, Grows
<1> HIDE DEF new
<1>8. Reading(x, chain, rows)
  BY <1>2, <1>4 DEF Reading
<1>9. Reading(x, chain, new)
  BY <1>7, <1>8 DEF Reading, Grows
<1>10. ASSUME NEW c \in D, c \in Pattern[r.arg], ~new[c].wallet, "absent" \notin r.was[c]
       PROVE  \E k \in DOMAIN Tail(left) : Tail(left)[k] = c
  <2>1. ~rows[c].wallet
    BY <1>3, <1>7, <1>10 DEF Grows, D
  <2>2. PICK k \in DOMAIN left : left[k] = c
    BY <1>2, <1>10, <2>1 DEF Marking, D, left
  <2>3. k # 1
    BY <1>5, <1>7, <1>10, <2>2
  <2>4. k - 1 \in 1 .. (Len(left) - 1) /\ (k - 1) + 1 = k
    BY <1>5, <2>2, <2>3
  <2> QED
    BY <1>5, <2>2, <2>4
<1>11. Marking(x, new)
  BY <1>2, <1>4, <1>5, <1>10 DEF Marking, D
<1>12. Request(x, chain, new)
  BY <1>4, <1>9, <1>11 DEF Request
<1>13. /\ DOMAIN req' = Slots /\ req'[p] = x /\ (\A q \in Slots : q # p => req'[q] = req[q])
       /\ mixed' \in BOOLEAN /\ misplaced' \in BOOLEAN
  BY <1>1 DEF RequestsInv, Typed
<1>14. RequestsInv'
  BY <1>1, <1>7, <1>12, <1>13, SlotSteps
<1> QED
  BY <1>1, <1>7, <1>14

\* All of them.
LEMMA FetchDoneKeeps ==
  ASSUME RequestsInv, NEW p \in Slots, FetchDone(p)
  PROVE  RequestsInv'
<1> DEFINE r == req[p]
           t == Told(r, "retrieved")
<1>1. r.pc = "mark" /\ r.left = <<>> /\ Answer(p, "retrieved") /\ UNCHANGED phone
  BY DEF FetchDone
<1>2. Reading(r, chain, rows) /\ Marking(r, rows)
  BY <1>1, RequestBy DEF RequestsInv
<1>3. /\ DOMAIN t = {"pc", "kind", "arg", "refs", "crossed", "was", "answer"}
      /\ t.pc = "told" /\ t.kind = "fetch" /\ t.crossed \in BOOLEAN
      /\ t.answer = "retrieved" /\ t.arg = r.arg /\ t.refs = DOMAIN r.refs
      /\ t.refs \subseteq Creds
      /\ \A c \in t.refs : "absent" \in r.was[c] => "absent" \in t.was[c]
  BY <1>2, ToldIs DEF Marking
<1> HIDE DEF t
<1>4. DOMAIN r.left = {}
  BY <1>1
<1>5. ASSUME NEW c \in t.refs, c \notin Ever(t, "absent"), c \in Pattern[t.arg]
      PROVE  rows[c].wallet
  <2>1. "absent" \notin r.was[c]
    BY <1>3, <1>5 DEF Ever
  <2> QED
    BY <1>2, <1>3, <1>4, <1>5, <2>1 DEF Marking
<1>6. FetchIsTrue(t, rows)
  BY <1>3, <1>5 DEF FetchIsTrue
<1>7. Request(t, chain, rows)
  BY <1>3, <1>6 DEF Request, Telling, Kinds
<1> QED
  BY <1>1, <1>7, AnswersAreRequests DEF t

-----------------------------------------------------------------------------
(* The cards. *)

\* Cards and their rows stay.
LEMMA CardsStay ==
  ASSUME Cards(credentials, rows), Bodies, Grows(rows, rows'),
         UNCHANGED <<credentials, misplaced>>
  PROVE  Cards(credentials, rows)' /\ Bodies'
BY DEF Cards, Bodies, Grows

\* Only the flag of a card changes.
LEMMA FlagChanges ==
  ASSUME Cards(credentials, rows), Bodies, Grows(rows, rows'),
         NEW i, NEW b \in BOOLEAN, credentials' = [credentials EXCEPT ![i].fav = b],
         misplaced' = misplaced
  PROVE  /\ Cards(credentials, rows)' /\ Bodies'
         /\ DOMAIN credentials' = DOMAIN credentials
         /\ \A j \in DOMAIN credentials :
              /\ credentials'[j].cred = credentials[j].cred
              /\ credentials'[j].fav = IF j = i THEN b ELSE credentials[j].fav
<1> DEFINE Card == [cred : Creds, status : Statuses, fav : BOOLEAN, body : Creds \cup {Encrypted}]
<1>1. \A j \in DOMAIN credentials : credentials[j] \in Card
  BY DEF Cards
<1>2. /\ DOMAIN credentials' = DOMAIN credentials
      /\ \A j \in DOMAIN credentials :
           credentials'[j] = IF j = i THEN [credentials[j] EXCEPT !.fav = b] ELSE credentials[j]
  OBVIOUS
<1>3. \A j \in DOMAIN credentials :
        /\ credentials'[j] \in Card
        /\ credentials'[j].cred = credentials[j].cred
        /\ credentials'[j].body = credentials[j].body
        /\ credentials'[j].fav = IF j = i THEN b ELSE credentials[j].fav
  BY <1>1, <1>2
<1>4. \A j \in DOMAIN credentials : credentials[j].cred \in Creds
  BY <1>1
<1> HIDE DEF Card
<1>5. Cards(credentials, rows)'
  BY <1>2, <1>3, <1>4 DEF Cards, Grows, Card
<1>6. Bodies'
  BY <1>2, <1>3 DEF Bodies
<1> QED
  BY <1>2, <1>3, <1>5, <1>6

\* A rollback changes one flag, or nothing.
LEMMA RollBackKeeps ==
  ASSUME Cards(credentials, rows), Bodies, Grows(rows, rows'),
         NEW r, r.original \in BOOLEAN, credentials' = RollBack(r), misplaced' = misplaced
  PROVE  /\ Cards(credentials, rows)' /\ Bodies'
         /\ DOMAIN credentials' = DOMAIN credentials
         /\ \A j \in DOMAIN credentials :
              /\ credentials'[j].cred = credentials[j].cred
              /\ credentials'[j].fav = IF j = r.index THEN r.original ELSE credentials[j].fav
<1>1. CASE r.index \in DOMAIN credentials
  <2> DEFINE i == r.index
             b == r.original
  <2>1. credentials' = [credentials EXCEPT ![i].fav = b] /\ b \in BOOLEAN
    BY <1>1 DEF RollBack
  <2> HIDE DEF i, b
  <2>2. /\ Cards(credentials, rows)' /\ Bodies'
        /\ DOMAIN credentials' = DOMAIN credentials
        /\ \A j \in DOMAIN credentials :
             /\ credentials'[j].cred = credentials[j].cred
             /\ credentials'[j].fav = IF j = i THEN b ELSE credentials[j].fav
    BY <2>1, FlagChanges
  <2> QED
    BY <2>2 DEF i, b
<1>2. CASE r.index \notin DOMAIN credentials
  <2>1. credentials' = credentials
    BY <1>2 DEF RollBack
  <2> QED
    BY <1>2, <2>1, CardsStay
<1> QED
  BY <1>1, <1>2

\* A decryption changes one body, of its own card unless it was shifted.
LEMMA DecryptEndsKeeps ==
  ASSUME RequestsInv, Cards(credentials, rows), Bodies, Aimed, NEW p \in Slots, NEW body,
         DecryptEnds(p, body), body \in {Encrypted, req[p].cred}
  PROVE  /\ RequestsInv' /\ Cards(credentials, rows)' /\ Bodies'
         /\ DOMAIN credentials' = DOMAIN credentials
         /\ \A j \in DOMAIN credentials :
              /\ credentials'[j].cred = credentials[j].cred
              /\ credentials'[j].fav = credentials[j].fav
<1> DEFINE Card == [cred : Creds, status : Statuses, fav : BOOLEAN, body : Creds \cup {Encrypted}]
           i == req[p].index
<1>1. /\ req[p].pc = "decrypt" /\ req' = [req EXCEPT ![p] = Idle]
      /\ UNCHANGED <<chain, expired, rows, mixed>>
  BY DEF DecryptEnds, ledger
<1>2. req[p].cred \in Creds
  BY <1>1, RequestBy DEF RequestsInv
<1>3. misplaced' \in BOOLEAN /\ mixed' \in BOOLEAN
  BY <1>1 DEF DecryptEnds, RequestsInv, Typed
<1>4. RequestsInv'
  BY <1>1, <1>3, FreesAreRequests
<1>5. CASE i \notin DOMAIN credentials
  BY <1>1, <1>4, <1>5, GrowsItself, CardsStay DEF DecryptEnds
<1>6. CASE i \in DOMAIN credentials
  <2>1. /\ credentials' = [credentials EXCEPT ![i].body = body]
        /\ misplaced' = (misplaced \/ (body # Encrypted /\ req[p].shifted))
        /\ ~req[p].shifted => credentials[i].cred = req[p].cred
    BY <1>1, <1>6 DEF DecryptEnds, Aimed
  <2>2. \A j \in DOMAIN credentials : credentials[j] \in Card
    BY DEF Cards
  <2>3. /\ DOMAIN credentials' = DOMAIN credentials
        /\ \A j \in DOMAIN credentials :
             credentials'[j] = IF j = i THEN [credentials[j] EXCEPT !.body = body]
                               ELSE credentials[j]
    BY <2>1
  <2>4. body \in Creds \cup {Encrypted}
    BY <1>2
  <2>5. \A j \in DOMAIN credentials :
          /\ credentials'[j] \in Card
          /\ credentials'[j].cred = credentials[j].cred
          /\ credentials'[j].fav = credentials[j].fav
          /\ credentials'[j].body = IF j = i THEN body ELSE credentials[j].body
    BY <2>2, <2>3, <2>4
  <2> HIDE DEF Card
  <2>6. Cards(credentials, rows)'
    <3>1. \A j \in DOMAIN credentials' :
            credentials'[j] \in Card /\ rows'[credentials'[j].cred].there
      BY <1>1, <2>3, <2>5 DEF Cards
    <3>2. \A j, k \in DOMAIN credentials' : credentials'[j].cred = credentials'[k].cred => j = k
      BY <2>3, <2>5 DEF Cards
    <3> QED
      BY <3>1, <3>2 DEF Cards, Card
  <2>7. Bodies'
    <3> SUFFICES ASSUME ~misplaced', NEW j \in DOMAIN credentials
                 PROVE  credentials'[j].body \in {Encrypted, credentials[j].cred}
      BY <2>3, <2>5 DEF Bodies
    <3>1. CASE j = i
      BY <2>1, <2>5, <3>1
    <3>2. CASE j # i
      BY <2>1, <2>5, <3>2 DEF Bodies
    <3> QED
      BY <3>1, <3>2
  <2> QED
    BY <1>4, <2>3, <2>5, <2>6, <2>7
<1> QED
  BY <1>5, <1>6

-----------------------------------------------------------------------------
(* The taps. *)

\* A tap changes the flag it taps.
LEMMA TapBegins ==
  ASSUME RequestsInv, Cards(credentials, rows), Bodies, NEW p \in Slots,
         NEW i \in DOMAIN credentials, Tap(p, i)
  PROVE  /\ RequestsInv' /\ Cards(credentials, rows)' /\ Bodies'
         /\ DOMAIN credentials' = DOMAIN credentials
         /\ \A j \in DOMAIN credentials :
              /\ credentials'[j].cred = credentials[j].cred
              /\ credentials'[j].fav = IF j = i THEN ~credentials[i].fav ELSE credentials[j].fav
<1> DEFINE c == credentials[i].cred
           r == [pc |-> "tap", cred |-> c, index |-> i, original |-> credentials[i].fav,
                 crossed |-> FALSE]
<1>1. /\ Begin(p, r, "tap", c) /\ UNCHANGED <<mixed, misplaced>>
      /\ credentials' = [credentials EXCEPT ![i].fav = ~credentials[i].fav]
  BY DEF Tap
<1>2. c \in Creds /\ credentials[i].fav \in BOOLEAN
  BY DEF Cards
<1>3. Request(r, chain, rows) /\ r.pc = "tap"
  BY <1>2 DEF Request
<1> HIDE DEF r
<1>4. RequestsInv'
  BY <1>1, <1>3, BeginsAreRequests
<1>5. rows' = rows /\ misplaced' = misplaced
  BY <1>1 DEF Begin
<1> DEFINE b == ~credentials[i].fav
<1>6. b \in BOOLEAN /\ credentials' = [credentials EXCEPT ![i].fav = b]
  BY <1>1, <1>2
<1> HIDE DEF b
<1>7. /\ Cards(credentials, rows)' /\ Bodies'
      /\ DOMAIN credentials' = DOMAIN credentials
      /\ \A j \in DOMAIN credentials :
           /\ credentials'[j].cred = credentials[j].cred
           /\ credentials'[j].fav = IF j = i THEN b ELSE credentials[j].fav
  BY <1>5, <1>6, GrowsItself, FlagChanges
<1> QED
  BY <1>4, <1>7 DEF b

\* The backend flips the flag of the row.
LEMMA ToggleKeeps ==
  ASSUME RequestsInv, Cards(credentials, rows), Bodies, NEW p \in Slots, NEW next,
         ToggleFavorite(p, next), req[p].pc \in {"tap", "late"},
         next = Idle \/ next = [req[p] EXCEPT !.pc = "flipped"], mixed' \in BOOLEAN
  PROVE  /\ RequestsInv' /\ Cards(credentials, rows)' /\ Bodies'
         /\ req[p].cred \in Creds /\ credentials' = credentials
         /\ \A c \in Creds : rows'[c].fav = IF c = req[p].cred THEN ~rows[c].fav ELSE rows[c].fav
         /\ req'[p] = next /\ \A q \in Slots : q # p => req'[q] = req[q]
<1> DEFINE d == req[p].cred
           new == [rows EXCEPT ![d].fav = ~rows[d].fav]
<1>1. /\ rows' = new /\ req' = [req EXCEPT ![p] = next]
      /\ UNCHANGED <<chain, expired, credentials, misplaced>>
  BY DEF ToggleFavorite, ledger, RequestsInv, Typed
<1>2. d \in Creds /\ rows \in [Creds -> RowSet]
  BY RequestBy DEF RequestsInv, Typed
<1>3. /\ new \in [Creds -> RowSet] /\ Grows(rows, new)
      /\ \A c \in Creds : new[c].fav = IF c = d THEN ~rows[c].fav ELSE rows[c].fav
  <2>1. rows[d] \in RowSet
    BY <1>2
  <2>2. [rows[d] EXCEPT !.fav = ~rows[d].fav] \in RowSet
    BY <2>1 DEF RowSet
  <2>3. \A c \in Creds : new[c] = IF c = d THEN [rows[d] EXCEPT !.fav = ~rows[d].fav] ELSE rows[c]
    BY <1>2
  <2>4. new \in [Creds -> RowSet]
    BY <1>2, <2>2, <2>3
  <2>5. LET x == [rows[d] EXCEPT !.fav = ~rows[d].fav]
        IN x.fav = ~rows[d].fav /\ x.there = rows[d].there /\ x.wallet = rows[d].wallet
    BY <2>1 DEF RowSet
  <2> HIDE DEF new
  <2>6. Grows(rows, new)
    BY <2>3, <2>5 DEF Grows
  <2> QED
    BY <2>3, <2>4, <2>5, <2>6
<1> HIDE DEF new
<1>4. Request(next, chain, new)
  <2>1. CASE next = Idle
    BY <2>1, IdleIsRequest
  <2>2. CASE next = [req[p] EXCEPT !.pc = "flipped"]
    <3>1. /\ DOMAIN req[p] = {"pc", "cred", "index", "original", "crossed"}
          /\ req[p].cred \in Creds /\ req[p].original \in BOOLEAN /\ req[p].crossed \in BOOLEAN
      BY RequestBy DEF RequestsInv
    <3> QED
      BY <2>2, <3>1 DEF Request
  <2> QED
    BY <2>1, <2>2
<1>5. /\ DOMAIN req' = Slots /\ req'[p] = next /\ (\A q \in Slots : q # p => req'[q] = req[q])
      /\ misplaced' \in BOOLEAN
  BY <1>1 DEF RequestsInv, Typed
<1>6. RequestsInv'
  BY <1>1, <1>3, <1>4, <1>5, SlotSteps
<1>7. Cards(credentials, rows)' /\ Bodies'
  BY <1>1, <1>3, CardsStay
<1> QED
  BY <1>1, <1>2, <1>3, <1>5, <1>6, <1>7

\* A tap that is refused, and one that times out.
LEMMA TapRefusedKeeps ==
  ASSUME RequestsInv, Cards(credentials, rows), Bodies, NEW p \in Slots, TapRefused(p)
  PROVE  RequestsInv' /\ Cards(credentials, rows)' /\ Bodies'
<1>1. /\ req[p].pc = "tap" /\ credentials' = RollBack(req[p])
      /\ req' = [req EXCEPT ![p] = Idle] /\ mixed' = (mixed \/ req[p].crossed)
      /\ UNCHANGED <<chain, expired, rows, misplaced>>
  BY DEF TapRefused, ledger
<1>2. req[p].original \in BOOLEAN
  BY <1>1, RequestBy DEF RequestsInv
<1>3. mixed' \in BOOLEAN /\ misplaced' \in BOOLEAN
  BY <1>1 DEF RequestsInv, Typed
<1>4. RequestsInv'
  BY <1>1, <1>3, FreesAreRequests
<1> QED
  BY <1>1, <1>2, <1>4, GrowsItself, RollBackKeeps

LEMMA TapTimesOutKeeps ==
  ASSUME RequestsInv, Cards(credentials, rows), Bodies, NEW p \in Slots, TapTimesOut(p)
  PROVE  RequestsInv' /\ Cards(credentials, rows)' /\ Bodies'
<1> DEFINE x == IF req[p].pc = "tap" THEN [req[p] EXCEPT !.pc = "late"] ELSE Idle
<1>1. /\ req[p].pc \in {"tap", "flipped"} /\ credentials' = RollBack(req[p])
      /\ req' = [req EXCEPT ![p] = x] /\ mixed' \in BOOLEAN
      /\ UNCHANGED <<chain, expired, rows, misplaced>>
  BY DEF TapTimesOut, ledger, RequestsInv, Typed
<1>2. /\ DOMAIN req[p] = {"pc", "cred", "index", "original", "crossed"}
      /\ req[p].cred \in Creds /\ req[p].original \in BOOLEAN /\ req[p].crossed \in BOOLEAN
  BY <1>1, RequestBy DEF RequestsInv
<1>3. Request(x, chain, rows)
  <2>1. CASE req[p].pc = "tap"
    BY <1>2, <2>1 DEF Request
  <2>2. CASE req[p].pc # "tap"
    BY <2>2, IdleIsRequest
  <2> QED
    BY <2>1, <2>2
<1> HIDE DEF x
<1>4. misplaced' \in BOOLEAN
  BY <1>1 DEF RequestsInv, Typed
<1>5. RequestsInv'
  BY <1>1, <1>3, <1>4, ChangesAreRequests
<1> QED
  BY <1>1, <1>2, <1>5, GrowsItself, RollBackKeeps

-----------------------------------------------------------------------------
CardsInv == RequestsInv /\ Cards(credentials, rows) /\ Bodies

\* Every step of the wallet.
LEMMA WalletStepKeeps ==
  ASSUME CardsInv, Aimed, NEW p \in Slots, WalletStep(p)
  PROVE  CardsInv'
<1> USE DEF CardsInv
<1>0. mixed \in BOOLEAN /\ misplaced \in BOOLEAN
  BY DEF RequestsInv, Typed
<1>1. CASE FetchMyCredentials(p)
  <2>1. rows' = rows /\ UNCHANGED <<credentials, misplaced>>
    BY <1>1 DEF FetchMyCredentials, Begin, phone
  <2> QED
    BY <1>1, <2>1, GrowsItself, CardsStay, FetchMyCredentialsKeeps
<1>2. CASE GetCredentialsByHolder(p)
  <2>1. rows' = rows /\ UNCHANGED <<credentials, misplaced>>
    BY <1>2 DEF GetCredentialsByHolder, phone
  <2> QED
    BY <1>2, <2>1, GrowsItself, CardsStay, LoadIsTold
<1>3. CASE LoadArrives(p)
  BY <1>3, LoadArrivesBrings
<1>4. CASE LoadRefused(p)
  <2>1. rows' = rows /\ UNCHANGED <<credentials, misplaced>>
    BY <1>4 DEF LoadRefused, phone
  <2> QED
    BY <1>4, <2>1, GrowsItself, CardsStay, LoadRefusedKeeps
<1>5. CASE LoadTimesOut(p) \/ LateLost(p) \/ TapAnswered(p) \/ MarkFails(p)
  <2>1. /\ req' = [req EXCEPT ![p] = Idle] /\ UNCHANGED <<chain, expired, rows>>
        /\ UNCHANGED <<credentials, mixed, misplaced>>
    BY <1>5 DEF LoadTimesOut, LateLost, TapAnswered, MarkFails, ledger, phone
  <2> QED
    BY <1>0, <2>1, GrowsItself, CardsStay, FreesAreRequests
<1>6. ASSUME NEW c \in Creds, Decrypt(p, c) PROVE CardsInv'
  <2> DEFINE r == [pc |-> "decrypt", cred |-> c, index |-> IndexOf(c), shifted |-> FALSE]
  <2>1. Take(p, r) /\ UNCHANGED phone
    BY <1>6 DEF Decrypt
  <2>2. Request(r, chain, rows)
    BY DEF Request
  <2> HIDE DEF r
  <2>3. rows' = rows /\ UNCHANGED <<credentials, misplaced>>
    BY <2>1 DEF Take, phone
  <2> QED
    BY <2>1, <2>2, <2>3, GrowsItself, CardsStay, TakesAreRequests
<1>7. CASE DecryptSucceeds(p)
  BY <1>7, DecryptEndsKeeps DEF DecryptSucceeds
<1>8. CASE DecryptFails(p)
  BY <1>8, DecryptEndsKeeps DEF DecryptFails
<1>9. ASSUME NEW i \in DOMAIN credentials, Tap(p, i) PROVE CardsInv'
  BY <1>9, TapBegins
<1>10. CASE ServerToggles(p)
  BY <1>0, <1>10, ToggleKeeps DEF ServerToggles
<1>11. CASE TogglesLate(p)
  BY <1>11, ToggleKeeps DEF TogglesLate
<1>12. CASE TapRefused(p)
  BY <1>12, TapRefusedKeeps
<1>13. CASE TapTimesOut(p)
  BY <1>13, TapTimesOutKeeps
<1>14. ASSUME NEW service \in Services, FetchDocument(p, service) PROVE CardsInv'
  <2>1. Take(p, Read("fetch", service, Rows)) /\ UNCHANGED phone
    BY <1>14 DEF FetchDocument
  <2>2. Request(Read("fetch", service, Rows), chain, rows)
    BY ReadBegins DEF Kinds
  <2>3. rows' = rows /\ UNCHANGED <<credentials, misplaced>>
    BY <2>1 DEF Take, phone
  <2> QED
    BY <2>1, <2>2, <2>3, GrowsItself, CardsStay, TakesAreRequests
<1>15. CASE FetchNothing(p)
  <2>1. rows' = rows /\ UNCHANGED <<credentials, misplaced>>
    BY <1>15 DEF FetchNothing, Answer, phone
  <2> QED
    BY <1>15, <2>1, GrowsItself, CardsStay, FetchNothingKeeps
<1>16. CASE FetchFinds(p)
  <2>1. rows' = rows /\ UNCHANGED <<credentials, misplaced>>
    BY <1>16 DEF FetchFinds, phone
  <2> QED
    BY <1>16, <2>1, GrowsItself, CardsStay, FetchFindsKeeps
<1>17. CASE MarkInWallet(p)
  <2>1. UNCHANGED <<credentials, misplaced>>
    BY <1>17 DEF MarkInWallet, phone
  <2> QED
    BY <1>17, <2>1, CardsStay, MarkInWalletKeeps
<1>18. CASE FetchDone(p)
  <2>1. rows' = rows /\ UNCHANGED <<credentials, misplaced>>
    BY <1>18 DEF FetchDone, Answer, phone
  <2> QED
    BY <1>18, <2>1, GrowsItself, CardsStay, FetchDoneKeeps
<1> QED
  BY <1>1, <1>2, <1>3, <1>4, <1>5, <1>6, <1>7, <1>8, <1>9, <1>10, <1>11, <1>12, <1>13,
     <1>14, <1>15, <1>16, <1>17, <1>18 DEF WalletStep

-----------------------------------------------------------------------------
(* Favourites. *)

FlagsInv == CardsInv /\ LoadsClean /\ TapsAlone /\ FlagsApart

\* The flags of cards and rows are what they were.
FlagsStay ==
  /\ \A c \in Creds : rows'[c].fav = rows[c].fav
  /\ DOMAIN credentials' = DOMAIN credentials
  /\ \A j \in DOMAIN credentials : /\ credentials'[j].cred = credentials[j].cred
                                   /\ credentials'[j].fav = credentials[j].fav
  /\ mixed' = mixed

\* The taps are those there were, none more alone than it was.
TapsStay ==
  /\ \A q \in Slots, c \in Creds : IsTap(req'[q], c) => IsTap(req[q], c)
  /\ \A q \in Slots : req'[q].pc = "tap" <=> req[q].pc = "tap"
  /\ \A q \in Slots : req'[q].pc = "tap" =>
       /\ req'[q].cred = req[q].cred /\ req'[q].index = req[q].index
       /\ req'[q].original = req[q].original
       /\ ~req'[q].crossed => ~req[q].crossed

\* Such a step keeps what is true of the taps.
LEMMA NothingTapped ==
  ASSUME FlagsInv, CardsInv', FlagsStay, TapsStay
  PROVE  TapsAlone' /\ FlagsApart'
<1>1. ASSUME NEW c PROVE Unseen(c)' = Unseen(c)
  BY DEF Unseen, TapsStay
<1>2. ASSUME ~mixed', NEW q \in Slots, req'[q].pc = "tap", ~req'[q].crossed
      PROVE  TapIsAlone(q)'
  <2>1. TapIsAlone(q)
    BY <1>2 DEF FlagsInv, TapsAlone, FlagsStay, TapsStay
  <2>2. req'[q].cred \in Creds
    BY <1>2, RequestBy DEF CardsInv, RequestsInv
  <2> QED
    BY <1>2, <2>1, <2>2 DEF TapIsAlone, FlagsStay, TapsStay
<1>3. TapsAlone'
  BY <1>2 DEF TapsAlone
<1>4. \A i \in DOMAIN credentials : credentials[i].cred \in Creds
  BY DEF FlagsInv, CardsInv, Cards
<1>5. FlagsApart'
  BY <1>1, <1>4 DEF FlagsInv, FlagsApart, FlagsStay
<1> QED
  BY <1>3, <1>5

\* The load x is the load r, or its answer.
Carries(r, x) ==
  /\ IsLoad(r) /\ ~r.crossed
  /\ x.pc = "read" => r.pc = "read" /\ x.refs = r.refs
  /\ x.pc = "told" /\ "list" \in DOMAIN x.answer =>
       \/ r.pc = "told" /\ x.answer = r.answer
       \/ /\ r.pc = "read"
          /\ \A i \in DOMAIN x.answer.list :
               /\ x.answer.list[i].cred \in DOMAIN r.refs
               /\ x.answer.list[i].fav = r.refs[x.answer.list[i].cred].fav

\* Loads stay clean while no flag of a row changes and no tap begins.
LEMMA LoadsCarry ==
  ASSUME FlagsInv, \A c \in Creds : rows'[c].fav = rows[c].fav,
         \A q \in Slots, c \in Creds : IsTap(req'[q], c) => IsTap(req[q], c),
         \A q \in Slots : IsLoad(req'[q]) /\ ~req'[q].crossed => Carries(req[q], req'[q])
  PROVE  LoadsClean'
<1> SUFFICES ASSUME NEW p \in Slots, IsLoad(req'[p]), ~req'[p].crossed
             PROVE  LoadIsClean(req[p])'
  BY DEF LoadsClean
<1> DEFINE r == req[p]
           x == req'[p]
<1>1. Carries(r, x)
  OBVIOUS
<1>2. LoadIsClean(r)
  BY <1>1 DEF FlagsInv, LoadsClean, Carries
<1>3. Request(r, chain, rows)
  BY DEF FlagsInv, CardsInv, RequestsInv
<1>4. r.pc = "read" => DOMAIN r.refs \subseteq Creds
  BY <1>3, RequestBy DEF Reading
<1>5. r.pc = "told" /\ "list" \in DOMAIN r.answer =>
        \A i \in DOMAIN r.answer.list : r.answer.list[i].cred \in Creds
  <2> HAVE r.pc = "told" /\ "list" \in DOMAIN r.answer
  <2>1. Telling(r, rows) /\ r.kind = "wallet"
    BY <1>1, <1>3, RequestBy DEF Carries, IsLoad
  <2>2. \A i \in DOMAIN r.answer.list : r.answer.list[i] \in Models
    BY <2>1 DEF Telling, Loadable
  <2> QED
    BY <2>2 DEF Models
<1>6. \A q \in Slots, c \in Creds : ~IsTap(req'[q], c)
  BY <1>2 DEF LoadIsClean
<1>7. x.pc = "read" => \A c \in DOMAIN x.refs : x.refs[c].fav = rows'[c].fav
  BY <1>1, <1>2, <1>4 DEF Carries, LoadIsClean
<1>8. x.pc = "told" /\ "list" \in DOMAIN x.answer =>
        \A i \in DOMAIN x.answer.list :
          x.answer.list[i].fav = rows'[x.answer.list[i].cred].fav
  <2> HAVE x.pc = "told" /\ "list" \in DOMAIN x.answer
  <2>1. CASE r.pc = "told" /\ x.answer = r.answer
    BY <1>2, <1>5, <2>1 DEF LoadIsClean
  <2>2. CASE /\ r.pc = "read"
             /\ \A i \in DOMAIN x.answer.list :
                  /\ x.answer.list[i].cred \in DOMAIN r.refs
                  /\ x.answer.list[i].fav = r.refs[x.answer.list[i].cred].fav
    BY <1>2, <1>4, <2>2 DEF LoadIsClean
  <2> QED
    BY <1>1, <2>1, <2>2 DEF Carries
<1> QED
  BY <1>6, <1>7, <1>8 DEF LoadIsClean

\* A tap keeps every load from being clean.
LEMMA TapsDirty ==
  ASSUME FlagsInv, NEW p \in Slots, req[p].pc \in {"tap", "flipped", "late"},
         NEW q \in Slots, IsLoad(req[q])
  PROVE  req[q].crossed
<1>1. req[p].cred \in Creds
  BY RequestBy DEF FlagsInv, CardsInv, RequestsInv
<1>2. IsTap(req[p], req[p].cred)
  BY DEF IsTap
<1> QED
  BY <1>1, <1>2 DEF FlagsInv, LoadsClean, LoadIsClean

\* A step of one slot that is no tap.
LEMMA QuietSteps ==
  ASSUME FlagsInv, CardsInv', FlagsStay, NEW p \in Slots,
         \A q \in Slots : q # p => req'[q] = req[q],
         req[p].pc # "tap", req'[p].pc \notin {"tap", "flipped", "late"},
         IsLoad(req'[p]) /\ ~req'[p].crossed => Carries(req[p], req'[p])
  PROVE  FlagsInv'
<1>1. TapsStay
  BY DEF TapsStay, IsTap
<1>2. TapsAlone' /\ FlagsApart'
  BY <1>1, NothingTapped
<1>3. \A q \in Slots : IsLoad(req'[q]) /\ ~req'[q].crossed => Carries(req[q], req'[q])
  BY DEF Carries, IsLoad
<1>4. LoadsClean'
  BY <1>1, <1>3, LoadsCarry DEF FlagsStay, TapsStay
<1> QED
  BY <1>2, <1>4 DEF FlagsInv

\* Odd and even alternate.
LEMMA Parity ==
  ASSUME NEW n \in Nat
  PROVE  (n + 1) % 2 = 0 <=> ~(n % 2 = 0)
OBVIOUS

LEMMA UnseenGrows ==
  ASSUME NEW S, IsFiniteSet(S), NEW p, p \notin S
  PROVE  Cardinality(S \cup {p}) % 2 = 0 <=> ~(Cardinality(S) % 2 = 0)
<1>1. Cardinality(S \cup {p}) = Cardinality(S) + 1 /\ Cardinality(S) \in Nat
  BY FS_AddElement, FS_CardinalityType
<1> QED
  BY <1>1, Parity

LEMMA UnseenFinite ==
  ASSUME NEW c
  PROVE  IsFiniteSet(Unseen(c))
BY SlotsAssumption, FS_Subset DEF Unseen

\* The same of the next state.
UnseenNext(c) == {p \in Slots : req'[p].pc = "tap" /\ req'[p].cred = c}

LEMMA FlagsApartNext ==
  ASSUME ~mixed' => \A i \in DOMAIN credentials' :
           (credentials'[i].fav = rows'[credentials'[i].cred].fav)
             <=> Cardinality(UnseenNext(credentials'[i].cred)) % 2 = 0
  PROVE  FlagsApart'
BY DEF FlagsApart, Unseen, UnseenNext

\* A load begins: everything it meets is crossed with it.
LEMMA LoadBeginsClean ==
  ASSUME FlagsInv, CardsInv', NEW p \in Slots, FetchMyCredentials(p)
  PROVE  FlagsInv'
<1> DEFINE refs == {c \in Rows : rows[c].wallet}
           r == Read("wallet", 0, refs)
<1>1. Begin(p, r, "wallet", 0) /\ UNCHANGED <<credentials, mixed, rows>> /\ req[p] = Idle
  BY DEF FetchMyCredentials, phone, Begin
<1>2. refs \in SUBSET Rows /\ "wallet" \in Kinds
  BY DEF Kinds
<1> HIDE DEF refs
<1>3. /\ r.pc = "read" /\ r.kind = "wallet" /\ DOMAIN r.refs = refs
      /\ \A c \in refs : r.refs[c] = rows[c]
      /\ DOMAIN r = {"pc", "kind", "arg", "refs", "left", "snap", "was", "crossed"}
  <2>1. RequestsInv
    BY DEF FlagsInv, CardsInv
  <2>2. Request(r, chain, rows)
    BY <1>2, <2>1, ReadBegins
  <2>3. r.pc = "read" /\ r.kind = "wallet" /\ DOMAIN r.refs = refs
        /\ \A c \in refs : r.refs[c] = rows[c]
    BY <1>2, <2>1, ReadBegins
  <2>4. Reading(r, chain, rows)
    BY <2>2, <2>3, RequestBy
  <2> QED
    BY <2>3, <2>4 DEF Reading
<1> HIDE DEF r
<1>4. /\ req'[p].pc = "read" /\ req'[p].refs = r.refs
      /\ req'[p].crossed = (\E o \in Slots : Meets(req[o], "wallet", 0))
  BY <1>1, <1>3 DEF Begin
<1>5. ASSUME NEW q \in Slots, q # p
      PROVE  /\ req'[q] = req[q] \/ req'[q] = [req[q] EXCEPT !.crossed = TRUE]
             /\ IsLoad(req[q]) => req'[q] = [req[q] EXCEPT !.crossed = TRUE]
  BY <1>1, <1>5 DEF Begin, Meets
<1>6. \A q \in Slots : Request(req[q], chain, rows)
  BY DEF FlagsInv, CardsInv, RequestsInv
<1>7. ASSUME NEW q \in Slots, q # p
      PROVE  /\ req'[q].pc = req[q].pc
             /\ req[q].pc \in {"tap", "flipped", "late"} =>
                  /\ req'[q].cred = req[q].cred /\ req'[q].index = req[q].index
                  /\ req'[q].original = req[q].original
                  /\ ~req'[q].crossed => ~req[q].crossed
             /\ IsLoad(req'[q]) => req'[q].crossed
  <2>1. CASE req'[q] = req[q]
    <3>1. ASSUME IsLoad(req[q]) PROVE req'[q].crossed
      <4>1. "crossed" \in DOMAIN req[q]
        BY <1>6, <3>1, RequestBy DEF IsLoad, Reading, Telling
      <4> QED
        BY <1>5, <1>7, <3>1, <4>1
    <3> QED
      BY <2>1, <3>1
  <2>2. CASE req'[q] = [req[q] EXCEPT !.crossed = TRUE]
    <3>1. req[q].pc \in {"tap", "flipped", "late"} =>
            DOMAIN req[q] = {"pc", "cred", "index", "original", "crossed"}
      BY <1>6, RequestBy
    <3>2. req'[q].pc = req[q].pc
      BY <2>2
    <3>3. IsLoad(req'[q]) => "crossed" \in DOMAIN req[q]
      BY <1>6, <3>2, RequestBy DEF IsLoad, Reading, Telling
    <3> QED
      BY <2>2, <3>1, <3>2, <3>3
  <2> QED
    BY <1>5, <1>7, <2>1, <2>2
<1>8. TapsStay
  <2>1. req[p].pc = "idle" /\ req'[p].pc = "read"
    BY <1>1, <1>4 DEF Idle
  <2>2. \A q \in Slots, c \in Creds : IsTap(req'[q], c) => IsTap(req[q], c)
    BY <1>7, <2>1 DEF IsTap
  <2>3. \A q \in Slots : req'[q].pc = "tap" <=> req[q].pc = "tap"
    BY <1>7, <2>1
  <2>4. \A q \in Slots : req'[q].pc = "tap" =>
          /\ req'[q].cred = req[q].cred /\ req'[q].index = req[q].index
          /\ req'[q].original = req[q].original
          /\ ~req'[q].crossed => ~req[q].crossed
    BY <1>7, <2>1
  <2> QED
    BY <2>2, <2>3, <2>4 DEF TapsStay
<1>9. FlagsStay
  BY <1>1 DEF FlagsStay
<1>10. ASSUME NEW q \in Slots, IsLoad(req'[q]), ~req'[q].crossed
       PROVE  LoadIsClean(req[q])'
  <2>1. q = p
    BY <1>7, <1>10
  <2>2. \A o \in Slots, c \in Creds : ~IsTap(req[o], c)
    BY <1>4, <1>10, <2>1 DEF Meets
  <2>3. \A o \in Slots, c \in Creds : ~IsTap(req'[o], c)
    BY <1>8, <2>2 DEF TapsStay
  <2> QED
    BY <1>1, <1>3, <1>4, <2>1, <2>3 DEF LoadIsClean
<1>11. LoadsClean'
  BY <1>10 DEF LoadsClean
<1> QED
  BY <1>8, <1>9, <1>11, NothingTapped DEF FlagsInv

\* A load that arrives clean brings the flags of the rows.
LEMMA LoadArrivesClean ==
  ASSUME FlagsInv, CardsInv', NEW p \in Slots, LoadArrives(p)
  PROVE  FlagsInv'
<1>1. /\ req[p].pc = "told" /\ req[p].kind = "wallet"
      /\ credentials' = Data(req[p].answer) /\ mixed' = req[p].crossed
      /\ rows' = rows /\ req'[p] = Idle
      /\ \A q \in Slots : q # p =>
           req'[q] = req[q] \/ (req[q].pc = "decrypt" /\ req'[q].pc = "decrypt")
  <2>1. RequestsInv
    BY DEF FlagsInv, CardsInv
  <2> QED
    BY <2>1, LoadArrivesFrees DEF LoadArrives, Loaded
<1>2. /\ ~IsLoad(req'[p]) /\ req'[p].pc # "tap"
      /\ \A q \in Slots, c \in Creds : IsTap(req'[q], c) => IsTap(req[q], c)
  BY <1>1 DEF Idle, IsLoad, IsTap
<1>3. \A q \in Slots : IsLoad(req'[q]) /\ ~req'[q].crossed => Carries(req[q], req'[q])
  BY <1>1, <1>2 DEF Carries, IsLoad
<1>4. LoadsClean'
  BY <1>1, <1>2, <1>3, LoadsCarry
<1>5. ASSUME ~mixed'
      PROVE  /\ \A q \in Slots : req'[q].pc # "tap"
             /\ \A i \in DOMAIN credentials' :
                  credentials'[i].fav = rows'[credentials'[i].cred].fav
  <2>1. LoadIsClean(req[p])
    BY <1>1, <1>5 DEF FlagsInv, LoadsClean, IsLoad
  <2>2. ASSUME NEW q \in Slots, req'[q].pc = "tap" PROVE FALSE
    <3>1. q # p /\ req[q].pc = "tap"
      BY <1>1, <1>2, <2>2
    <3> QED
      BY <1>1, <1>5, <3>1, TapsDirty DEF IsLoad
  <2>3. CASE "list" \in DOMAIN req[p].answer
    <3>1. credentials' = req[p].answer.list
      BY <1>1, <2>3 DEF Data
    <3> QED
      BY <1>1, <2>1, <2>2, <2>3, <3>1 DEF LoadIsClean
  <2>4. CASE "list" \notin DOMAIN req[p].answer
    <3>1. credentials' = <<>> /\ DOMAIN (<<>>) = {}
      BY <1>1, <2>4 DEF Data
    <3> QED
      BY <2>2, <3>1
  <2> QED
    BY <2>3, <2>4
<1>6. TapsAlone'
  BY <1>5 DEF TapsAlone
<1>7. ASSUME ~mixed', NEW c PROVE Cardinality(Unseen(c)') % 2 = 0
  <2>1. Unseen(c)' = {}
    BY <1>5, <1>7 DEF Unseen
  <2> QED
    BY <2>1, FS_EmptySet
<1>8. FlagsApart'
  BY <1>5, <1>7 DEF FlagsApart
<1> QED
  BY <1>4, <1>6, <1>8 DEF FlagsInv

\* A tap begins: what it meets is crossed, and it is alone if it meets nothing.
LEMMA TapBeginsAlone ==
  ASSUME FlagsInv, CardsInv', NEW p \in Slots, NEW i \in DOMAIN credentials, Tap(p, i)
  PROVE  FlagsInv'
<1> DEFINE c == credentials[i].cred
<1>1. /\ Begin(p, [pc |-> "tap", cred |-> c, index |-> i, original |-> credentials[i].fav,
                   crossed |-> FALSE], "tap", c)
      /\ mixed' = mixed /\ rows' = rows /\ req[p] = Idle
  BY DEF Tap, Begin
<1>2. /\ Cards(credentials, rows) /\ RequestsInv /\ Bodies
      /\ c \in Creds /\ credentials[i].fav \in BOOLEAN
  BY DEF FlagsInv, CardsInv, Cards
<1>3. /\ DOMAIN credentials' = DOMAIN credentials
      /\ \A j \in DOMAIN credentials :
           /\ credentials'[j].cred = credentials[j].cred
           /\ credentials'[j].fav = IF j = i THEN ~credentials[i].fav ELSE credentials[j].fav
  BY <1>2, TapBegins
<1>4. /\ req'[p].pc = "tap" /\ req'[p].cred = c /\ req'[p].index = i
      /\ req'[p].original = credentials[i].fav
      /\ req'[p].crossed = (\E o \in Slots : Meets(req[o], "tap", c))
  BY <1>1 DEF Begin
<1>5. ASSUME NEW q \in Slots, q # p
      PROVE  /\ req'[q] = req[q] \/ req'[q] = [req[q] EXCEPT !.crossed = TRUE]
             /\ IsLoad(req[q]) \/ IsTap(req[q], c) =>
                  req'[q] = [req[q] EXCEPT !.crossed = TRUE]
  BY <1>1, <1>5 DEF Begin, Meets
<1>6. \A q \in Slots : Request(req[q], chain, rows)
  BY <1>2 DEF RequestsInv
<1>7. ASSUME NEW q \in Slots, q # p
      PROVE  /\ req'[q].pc = req[q].pc
             /\ req[q].pc \in {"tap", "flipped", "late"} =>
                  /\ req'[q].cred = req[q].cred /\ req'[q].index = req[q].index
                  /\ req'[q].original = req[q].original
                  /\ ~req'[q].crossed => ~req[q].crossed /\ req[q].cred # c
             /\ IsLoad(req'[q]) => req'[q].crossed
  <2>1. req[q].pc \in {"tap", "flipped", "late"} =>
          DOMAIN req[q] = {"pc", "cred", "index", "original", "crossed"}
    BY <1>6, RequestBy
  <2>2. req'[q].pc = req[q].pc
    <3>1. CASE req'[q] = req[q]
      BY <3>1
    <3>2. CASE req'[q] = [req[q] EXCEPT !.crossed = TRUE]
      BY <3>2
    <3> QED
      BY <1>5, <1>7, <3>1, <3>2
  <2>3. ASSUME IsLoad(req'[q]) PROVE req'[q].crossed
    <3>1. IsLoad(req[q]) /\ "crossed" \in DOMAIN req[q]
      <4>1. "crossed" \in DOMAIN req[q]
        BY <1>6, <2>2, <2>3, RequestBy DEF IsLoad, Reading, Telling
      <4>2. req[q].pc \in {"read", "told"}
            => "kind" \in DOMAIN req[q]
        BY <1>6, RequestBy DEF Reading, Telling
      <4> QED
        BY <1>5, <1>7, <2>2, <2>3, <4>1, <4>2 DEF IsLoad
    <3> QED
      BY <1>5, <1>7, <3>1
  <2>4. ASSUME req[q].pc \in {"tap", "flipped", "late"}, req[q].cred = c
        PROVE  req'[q].crossed
    <3>1. IsTap(req[q], c)
      BY <2>4 DEF IsTap
    <3> QED
      BY <1>5, <1>7, <2>1, <2>4, <3>1
  <2>5. req[q].pc \in {"tap", "flipped", "late"} =>
          /\ req'[q].cred = req[q].cred /\ req'[q].index = req[q].index
          /\ req'[q].original = req[q].original
          /\ ~req'[q].crossed => ~req[q].crossed
    BY <1>5, <1>7, <2>1
  <2> QED
    BY <2>2, <2>3, <2>4, <2>5
<1>8. LoadsClean'
  <2>1. ~IsLoad(req'[p])
    BY <1>4 DEF IsLoad
  <2> QED
    BY <1>7, <2>1 DEF LoadsClean
<1>9. ASSUME ~mixed', NEW q \in Slots, req'[q].pc = "tap", ~req'[q].crossed
      PROVE  TapIsAlone(q)'
  <2>1. CASE q = p
    <3>1. \A o \in Slots : ~IsTap(req[o], c)
      BY <1>4, <1>9, <2>1 DEF Meets
    <3>2. \A o \in Slots : IsTap(req'[o], c) => o = p
      BY <1>7, <3>1 DEF IsTap
    <3> QED
      BY <1>2, <1>3, <1>4, <2>1, <3>2 DEF TapIsAlone
  <2>2. CASE q # p
    <3>1. /\ req[q].pc = "tap" /\ ~req[q].crossed /\ req[q].cred # c
          /\ req'[q].cred = req[q].cred /\ req'[q].index = req[q].index
          /\ req'[q].original = req[q].original
      BY <1>7, <1>9, <2>2
    <3>2. TapIsAlone(q)
      BY <1>1, <1>9, <3>1 DEF FlagsInv, TapsAlone
    <3>3. req[q].index # i
      BY <3>1, <3>2 DEF TapIsAlone
    <3>4. \A o \in Slots : IsTap(req'[o], req[q].cred) => o = q
      BY <1>4, <1>7, <3>1, <3>2 DEF IsTap, TapIsAlone
    <3> QED
      BY <1>3, <3>1, <3>2, <3>3, <3>4 DEF TapIsAlone
  <2> QED
    BY <2>1, <2>2
<1>10. TapsAlone'
  BY <1>9 DEF TapsAlone
<1>11. p \notin Unseen(c) /\ IsFiniteSet(Unseen(c)) /\ UnseenNext(c) = Unseen(c) \cup {p}
  <2>1. p \notin Unseen(c)
    BY <1>1 DEF Unseen, Idle
  <2>2. UnseenNext(c) = Unseen(c) \cup {p}
    BY <1>4, <1>7, <2>1 DEF Unseen, UnseenNext
  <2> QED
    BY <2>1, <2>2, UnseenFinite
<1>12. \A d : d # c => UnseenNext(d) = Unseen(d)
  BY <1>1, <1>4, <1>7 DEF Unseen, UnseenNext, Idle
<1>13. ASSUME ~mixed', NEW j \in DOMAIN credentials
       PROVE  (credentials'[j].fav = rows'[credentials'[j].cred].fav)
                <=> Cardinality(UnseenNext(credentials[j].cred)) % 2 = 0
  <2>1. (credentials[j].fav = rows[credentials[j].cred].fav)
          <=> Cardinality(Unseen(credentials[j].cred)) % 2 = 0
    BY <1>1, <1>13 DEF FlagsInv, FlagsApart
  <2>2. CASE j = i
    <3>1. rows[c].fav \in BOOLEAN
      BY <1>2 DEF RequestsInv, Typed, RowSet
    <3>2. Cardinality(UnseenNext(c)) % 2 = 0 <=> ~(Cardinality(Unseen(c)) % 2 = 0)
      BY <1>11, UnseenGrows
    <3>3. credentials'[j].fav = rows'[credentials'[j].cred].fav
            <=> ~(credentials[j].fav = rows[credentials[j].cred].fav)
      BY <1>1, <1>2, <1>3, <2>2, <3>1
    <3> QED
      BY <2>1, <2>2, <3>2, <3>3
  <2>3. CASE j # i
    <3>1. credentials[j].cred # c
      BY <1>2, <2>3 DEF Cards
    <3>2. UnseenNext(credentials[j].cred) = Unseen(credentials[j].cred)
      BY <1>12, <3>1
    <3> QED
      BY <1>1, <1>3, <2>1, <2>3, <3>2
  <2> QED
    BY <2>2, <2>3
<1>14. FlagsApart'
  BY <1>3, <1>13, FlagsApartNext
<1> QED
  BY <1>8, <1>10, <1>14 DEF FlagsInv

\* The backend sees a tap.
LEMMA TapIsSeen ==
  ASSUME FlagsInv, CardsInv', NEW p \in Slots, ServerToggles(p)
  PROVE  FlagsInv'
<1>1. /\ req[p].pc = "tap" /\ ToggleFavorite(p, [req[p] EXCEPT !.pc = "flipped"])
      /\ mixed' = mixed /\ mixed \in BOOLEAN
  BY DEF ServerToggles, FlagsInv, CardsInv, RequestsInv, Typed
<1>2. RequestsInv /\ Cards(credentials, rows) /\ Bodies
  BY DEF FlagsInv, CardsInv
<1>3. /\ req[p].cred \in Creds /\ credentials' = credentials
      /\ \A c \in Creds : rows'[c].fav = IF c = req[p].cred THEN ~rows[c].fav ELSE rows[c].fav
      /\ req'[p] = [req[p] EXCEPT !.pc = "flipped"]
      /\ \A q \in Slots : q # p => req'[q] = req[q]
  BY <1>1, <1>2, ToggleKeeps
<1>4. DOMAIN req[p] = {"pc", "cred", "index", "original", "crossed"}
  BY <1>1, <1>2, RequestBy DEF RequestsInv
<1>5. req'[p].pc = "flipped" /\ req'[p].cred = req[p].cred
  BY <1>3, <1>4
<1>6. LoadsClean'
  <2> SUFFICES ASSUME NEW q \in Slots, IsLoad(req'[q]) PROVE req'[q].crossed
    BY DEF LoadsClean
  <2>1. q # p
    BY <1>5 DEF IsLoad
  <2> QED
    BY <1>1, <1>3, <2>1, TapsDirty
<1>7. ASSUME ~mixed', NEW q \in Slots, req'[q].pc = "tap", ~req'[q].crossed
      PROVE  TapIsAlone(q)'
  <2>1. q # p /\ req'[q] = req[q]
    BY <1>3, <1>5, <1>7
  <2>2. TapIsAlone(q)
    BY <1>1, <1>7, <2>1 DEF FlagsInv, TapsAlone
  <2>3. \A o \in Slots : IsTap(req'[o], req[q].cred) => IsTap(req[o], req[q].cred)
    BY <1>1, <1>3, <1>5 DEF IsTap
  <2> QED
    BY <1>3, <2>1, <2>2, <2>3 DEF TapIsAlone
<1>8. TapsAlone'
  BY <1>7 DEF TapsAlone
<1> DEFINE d == req[p].cred
<1>9. p \notin UnseenNext(d) /\ IsFiniteSet(UnseenNext(d)) /\ Unseen(d) = UnseenNext(d) \cup {p}
  <2>1. p \notin UnseenNext(d)
    BY <1>5 DEF UnseenNext
  <2>2. Unseen(d) = UnseenNext(d) \cup {p}
    BY <1>1, <1>3, <1>5 DEF Unseen, UnseenNext
  <2>3. UnseenNext(d) \in SUBSET Slots
    BY DEF UnseenNext
  <2> QED
    BY <2>1, <2>2, <2>3, SlotsAssumption, FS_Subset
<1>10. ASSUME NEW c, c # d PROVE UnseenNext(c) = Unseen(c)
  <2>1. \A q \in Slots : q # p => req'[q] = req[q]
    BY <1>3
  <2> QED
    BY <1>5, <1>10, <2>1 DEF Unseen, UnseenNext
<1>11. ASSUME ~mixed', NEW j \in DOMAIN credentials
       PROVE  (credentials[j].fav = rows'[credentials[j].cred].fav)
                <=> Cardinality(UnseenNext(credentials[j].cred)) % 2 = 0
  <2>1. (credentials[j].fav = rows[credentials[j].cred].fav)
          <=> Cardinality(Unseen(credentials[j].cred)) % 2 = 0
    BY <1>1, <1>11 DEF FlagsInv, FlagsApart
  <2>2. CASE credentials[j].cred = d
    <3>1. rows[d].fav \in BOOLEAN /\ credentials[j].fav \in BOOLEAN
      BY <1>2, <1>3 DEF RequestsInv, Typed, RowSet, Cards
    <3>2. Cardinality(Unseen(d)) % 2 = 0 <=> ~(Cardinality(UnseenNext(d)) % 2 = 0)
      BY <1>9, UnseenGrows
    <3>3. rows'[d].fav = ~rows[d].fav
      BY <1>3
    <3> QED
      BY <2>1, <2>2, <3>1, <3>2, <3>3
  <2>3. CASE credentials[j].cred # d
    <3>1. credentials[j].cred \in Creds
      BY <1>2 DEF Cards
    <3>2. UnseenNext(credentials[j].cred) = Unseen(credentials[j].cred)
      BY <1>10, <2>3
    <3> QED
      BY <1>3, <2>1, <2>3, <3>1, <3>2
  <2> QED
    BY <2>2, <2>3
<1>12. FlagsApart'
  BY <1>3, <1>11, FlagsApartNext
<1> QED
  BY <1>6, <1>8, <1>12 DEF FlagsInv

\* The phone takes a tap back before the backend has seen it: alone it takes
\* back its own, and a tap that was crossed leaves the flags mixed.
LEMMA TapTakenBack ==
  ASSUME FlagsInv, CardsInv', NEW p \in Slots, req[p].pc = "tap",
         credentials' = RollBack(req[p]), mixed' = (mixed \/ req[p].crossed),
         rows' = rows, misplaced' = misplaced,
         req'[p] = Idle \/ req'[p] = [req[p] EXCEPT !.pc = "late"],
         \A q \in Slots : q # p => req'[q] = req[q]
  PROVE  FlagsInv'
<1>1. RequestsInv /\ Cards(credentials, rows) /\ Bodies
  BY DEF FlagsInv, CardsInv
<1>2. /\ DOMAIN req[p] = {"pc", "cred", "index", "original", "crossed"}
      /\ req[p].cred \in Creds /\ req[p].original \in BOOLEAN
  BY <1>1, RequestBy DEF RequestsInv
<1>3. /\ DOMAIN credentials' = DOMAIN credentials
      /\ \A j \in DOMAIN credentials :
           /\ credentials'[j].cred = credentials[j].cred
           /\ credentials'[j].fav
                = IF j = req[p].index THEN req[p].original ELSE credentials[j].fav
  BY <1>1, <1>2, GrowsItself, RollBackKeeps
<1>4. /\ req'[p].pc \in {"idle", "late"}
      /\ \A c : IsTap(req'[p], c) => IsTap(req[p], c)
  BY <1>2 DEF Idle, IsTap
<1>5. LoadsClean'
  <2> SUFFICES ASSUME NEW q \in Slots, IsLoad(req'[q]) PROVE req'[q].crossed
    BY DEF LoadsClean
  <2>1. q # p
    BY <1>4 DEF IsLoad
  <2> QED
    BY <2>1, TapsDirty
<1> DEFINE d == req[p].cred
           k == req[p].index
<1>6. ~mixed' => ~mixed /\ ~req[p].crossed /\ TapIsAlone(p)
  BY DEF FlagsInv, TapsAlone
<1>7. ASSUME ~mixed', NEW q \in Slots, req'[q].pc = "tap", ~req'[q].crossed
      PROVE  TapIsAlone(q)'
  <2>1. q # p /\ req'[q] = req[q]
    BY <1>4, <1>7
  <2>2. TapIsAlone(q)
    BY <1>6, <1>7, <2>1 DEF FlagsInv, TapsAlone
  <2>3. req[q].cred # d
    BY <2>1, <2>2 DEF TapIsAlone, IsTap
  <2>4. req[q].index # k
    BY <1>6, <1>7, <2>2, <2>3 DEF TapIsAlone
  <2>5. \A o \in Slots : IsTap(req'[o], req[q].cred) => IsTap(req[o], req[q].cred)
    BY <1>4
  <2> QED
    BY <1>3, <2>1, <2>2, <2>4, <2>5 DEF TapIsAlone
<1>8. TapsAlone'
  BY <1>7 DEF TapsAlone
<1>9. p \notin UnseenNext(d) /\ IsFiniteSet(UnseenNext(d)) /\ Unseen(d) = UnseenNext(d) \cup {p}
  <2>1. p \notin UnseenNext(d)
    BY <1>4 DEF UnseenNext
  <2>2. Unseen(d) = UnseenNext(d) \cup {p}
    BY <1>4 DEF Unseen, UnseenNext
  <2>3. UnseenNext(d) \in SUBSET Slots
    BY DEF UnseenNext
  <2> QED
    BY <2>1, <2>2, <2>3, SlotsAssumption, FS_Subset
<1>10. \A c : c # d => UnseenNext(c) = Unseen(c)
  BY <1>4 DEF Unseen, UnseenNext
<1>11. ASSUME ~mixed', NEW j \in DOMAIN credentials
       PROVE  (credentials'[j].fav = rows[credentials[j].cred].fav)
                <=> Cardinality(UnseenNext(credentials[j].cred)) % 2 = 0
  <2>1. (credentials[j].fav = rows[credentials[j].cred].fav)
          <=> Cardinality(Unseen(credentials[j].cred)) % 2 = 0
    BY <1>6, <1>11 DEF FlagsInv, FlagsApart
  <2>2. /\ k \in DOMAIN credentials /\ credentials[k].cred = d
        /\ credentials[k].fav = ~req[p].original
    BY <1>6, <1>11 DEF TapIsAlone
  <2>3. CASE j = k
    <3>1. rows[d].fav \in BOOLEAN
      BY <1>1, <1>2 DEF RequestsInv, Typed, RowSet
    <3>2. Cardinality(Unseen(d)) % 2 = 0 <=> ~(Cardinality(UnseenNext(d)) % 2 = 0)
      BY <1>9, UnseenGrows
    <3>3. credentials'[j].fav = req[p].original
      BY <1>3, <2>3
    <3> QED
      BY <1>2, <2>1, <2>2, <2>3, <3>1, <3>2, <3>3
  <2>4. CASE j # k
    <3>1. credentials[j].cred # d
      BY <1>1, <2>2, <2>4 DEF Cards
    <3>2. UnseenNext(credentials[j].cred) = Unseen(credentials[j].cred)
      BY <1>10, <3>1
    <3> QED
      BY <1>3, <2>1, <2>4, <3>2
  <2> QED
    BY <2>3, <2>4
<1>12. FlagsApart'
  BY <1>3, <1>11, FlagsApartNext
<1> QED
  BY <1>5, <1>8, <1>12 DEF FlagsInv

\* What leaves the flags mixed has nothing to keep of them but the loads.
LEMMA FlagsMixed ==
  ASSUME FlagsInv, CardsInv', mixed', NEW p \in Slots,
         req[p].pc \in {"tap", "flipped", "late"}, ~IsLoad(req'[p]),
         \A q \in Slots : q # p => req'[q] = req[q]
  PROVE  FlagsInv'
<1>1. LoadsClean'
  <2> SUFFICES ASSUME NEW q \in Slots, IsLoad(req'[q]) PROVE req'[q].crossed
    BY DEF LoadsClean
  <2> QED
    BY TapsDirty
<1> QED
  BY <1>1 DEF FlagsInv, TapsAlone, FlagsApart

\* A tap that times out before or after the backend saw it.
LEMMA TapTimesOutFlags ==
  ASSUME FlagsInv, CardsInv', NEW p \in Slots, TapTimesOut(p)
  PROVE  FlagsInv'
<1> DEFINE x == IF req[p].pc = "tap" THEN [req[p] EXCEPT !.pc = "late"] ELSE Idle
<1>1. /\ req[p].pc \in {"tap", "flipped"} /\ credentials' = RollBack(req[p])
      /\ mixed' = (mixed \/ req[p].crossed \/ req[p].pc = "flipped")
      /\ req'[p] = x /\ (\A q \in Slots : q # p => req'[q] = req[q])
      /\ rows' = rows /\ misplaced' = misplaced
  BY DEF TapTimesOut, FlagsInv, CardsInv, RequestsInv, Typed
<1>2. CASE req[p].pc = "tap"
  <2>1. mixed' = (mixed \/ req[p].crossed) /\ req'[p] = [req[p] EXCEPT !.pc = "late"]
    BY <1>1, <1>2
  <2> QED
    BY <1>1, <1>2, <2>1, TapTakenBack
<1>3. CASE req[p].pc = "flipped"
  <2>1. mixed' /\ req'[p] = Idle
    BY <1>1, <1>3
  <2>2. ~IsLoad(req'[p])
    BY <2>1 DEF Idle, IsLoad
  <2> QED
    BY <1>1, <1>3, <2>1, <2>2, FlagsMixed
<1> QED
  BY <1>1, <1>2, <1>3

-----------------------------------------------------------------------------
(* The steps. *)

\* A chunk leaves the rows read and the flags as they are.
LEMMA ReadChunkQuiet ==
  ASSUME RequestsInv, NEW p \in Slots, ReadChunk(p)
  PROVE  /\ req[p].pc = "read" /\ req'[p].pc = "read"
         /\ req'[p].kind = req[p].kind /\ req'[p].refs = req[p].refs
         /\ req'[p].crossed = req[p].crossed
         /\ rows' = rows /\ \A q \in Slots : q # p => req'[q] = req[q]
<1>1. req[p].pc = "read" /\ rows' = rows
  BY DEF ReadChunk
<1>2. Reading(req[p], chain, rows)
  BY <1>1, RequestBy DEF RequestsInv
<1> QED
  BY <1>1, <1>2 DEF ReadChunk, Reading, RequestsInv, Typed

\* The steps of the portal, and of the wallet where it changes no flag, leave
\* the slot with no load that it had not.
Calm(p) ==
  /\ rows' = rows \/ \A c \in Creds : rows'[c].fav = rows[c].fav
  /\ \A q \in Slots : q # p => req'[q] = req[q]
  /\ req[p].pc # "tap" /\ req'[p].pc \notin {"tap", "flipped", "late"}
  /\ IsLoad(req'[p]) /\ ~req'[p].crossed => Carries(req[p], req'[p])

\* A request that begins, ends or is answered.
LEMMA TakeIsCalm ==
  ASSUME RequestsInv, NEW p \in Slots, NEW r, Take(p, r),
         r.pc = "decrypt" \/ (r.pc = "read" /\ r.kind # "wallet")
  PROVE  Calm(p)
BY DEF Take, Calm, Idle, IsLoad, RequestsInv, Typed

LEMMA FreeIsCalm ==
  ASSUME RequestsInv, NEW p \in Slots, req' = [req EXCEPT ![p] = Idle], rows' = rows,
         req[p].pc # "tap"
  PROVE  Calm(p)
BY DEF Calm, Idle, IsLoad, RequestsInv, Typed

LEMMA AnswerIsCalm ==
  ASSUME RequestsInv, NEW p \in Slots, NEW answer, Answer(p, answer),
         req[p].pc \in {"read", "mark"}, req[p].kind # "wallet"
  PROVE  Calm(p)
<1>1. /\ req'[p] = Told(req[p], answer) /\ rows' = rows
      /\ \A q \in Slots : q # p => req'[q] = req[q]
  BY DEF Answer, RequestsInv, Typed
<1>2. req'[p].pc = "told" /\ req'[p].kind = req[p].kind
  BY <1>1 DEF Told
<1> QED
  BY <1>1, <1>2 DEF Calm, IsLoad

\* The steps of the portal.
LEMMA ListingsCalm ==
  ASSUME RequestsInv, NEW p \in Slots, ListingsStep(p)
  PROVE  Calm(p)
<1>1. CASE ReadPortal(p)
  <2> DEFINE r == Read("portal", 0, Rows)
  <2>1. Take(p, r) /\ r.pc = "read" /\ r.kind = "portal"
    BY <1>1 DEF ReadPortal, Read
  <2> HIDE DEF r
  <2> QED
    BY <2>1, TakeIsCalm
<1>2. ASSUME NEW c \in Creds, ReadDetail(p, c) PROVE Calm(p)
  <2> DEFINE r == Read("detail", c, {c})
  <2>1. Take(p, r) /\ r.pc = "read" /\ r.kind = "detail"
    BY <1>2 DEF ReadDetail, Read
  <2> HIDE DEF r
  <2> QED
    BY <2>1, TakeIsCalm
<1>3. CASE ReadChunk(p)
  BY <1>3, ReadChunkQuiet DEF Calm, Carries, IsLoad
<1>4. CASE ReadFails(p)
  BY <1>4, FreeIsCalm DEF ReadFails
<1>5. ASSUME NEW status \in StatusFilters, NEW page \in Pages, NEW v \in Limits,
             ListCredentials(p, status, page, v)
      PROVE  Calm(p)
  <2>1. AllRead(p, "portal") /\ \E answer : Answer(p, answer)
    BY <1>5 DEF ListCredentials
  <2> QED
    BY <2>1, AnswerIsCalm DEF AllRead
<1>6. CASE DashboardStats(p)
  <2>1. AllRead(p, "portal") /\ \E answer : Answer(p, answer)
    BY <1>6 DEF DashboardStats
  <2> QED
    BY <2>1, AnswerIsCalm DEF AllRead
<1>7. CASE ShowDetail(p)
  <2>1. AllRead(p, "detail") /\ \E answer : Answer(p, answer)
    BY <1>7 DEF ShowDetail
  <2> QED
    BY <2>1, AnswerIsCalm DEF AllRead
<1>8. CASE Answered(p)
  BY <1>8, FreeIsCalm DEF Answered
<1> QED
  BY <1>1, <1>2, <1>3, <1>4, <1>5, <1>6, <1>7, <1>8 DEF ListingsStep

\* A calm step keeps the flags apart as they were.
LEMMA CalmKeeps ==
  ASSUME FlagsInv, CardsInv', NEW p \in Slots, Calm(p), mixed' = mixed,
         DOMAIN credentials' = DOMAIN credentials,
         \A j \in DOMAIN credentials : /\ credentials'[j].cred = credentials[j].cred
                                       /\ credentials'[j].fav = credentials[j].fav
  PROVE  FlagsInv'
<1>1. FlagsStay
  BY DEF FlagsStay, Calm
<1> QED
  BY <1>1, QuietSteps DEF Calm

\* No step of chain, clock or issuer touches a flag.
LEMMA WorldStepFlags ==
  ASSUME FlagsInv, CardsInv', WorldStep, UNCHANGED phone
  PROVE  FlagsInv'
<1>1. FlagsStay
  <2>1. rows' = rows \/ \E c \in Creds : rows' = [rows EXCEPT ![c].there = TRUE]
    BY DEF WorldStep, IssueOnChain, InsertRow, ExpiryPasses, ChangeStatus, LedgerReset, Moves
  <2>2. rows \in [Creds -> RowSet]
    BY DEF FlagsInv, CardsInv, RequestsInv, Typed
  <2>3. \A c \in Creds : rows'[c].fav = rows[c].fav
    BY <2>1, <2>2 DEF RowSet
  <2> QED
    BY <2>3 DEF FlagsStay, phone
<1>2. ASSUME NEW q \in Slots
      PROVE  \/ req'[q] = req[q]
             \/ req[q].pc \in {"read", "mark"} /\ \E new : req'[q] = Moved(req[q], new)
  <2>1. ASSUME NEW new, NEW gone, Moves(new, gone)
        PROVE  \/ req'[q] = req[q]
               \/ req[q].pc \in {"read", "mark"} /\ req'[q] = Moved(req[q], new)
    BY <2>1 DEF Moves, Moved
  <2>2. (\E new, gone : Moves(new, gone)) \/ req' = req
    BY DEF WorldStep, IssueOnChain, InsertRow, ExpiryPasses, ChangeStatus, LedgerReset
  <2> QED
    BY <2>1, <2>2
<1>3. ASSUME NEW q \in Slots
      PROVE  \/ req'[q] = req[q]
             \/ /\ req[q].pc \in {"read", "mark"} /\ req'[q].pc = req[q].pc
                /\ req'[q].kind = req[q].kind /\ req'[q].refs = req[q].refs
                /\ req'[q].crossed = req[q].crossed
  <2>1. ASSUME req[q].pc \in {"read", "mark"}, NEW new, req'[q] = Moved(req[q], new)
        PROVE  /\ req[q].pc \in {"read", "mark"} /\ req'[q].pc = req[q].pc
               /\ req'[q].kind = req[q].kind /\ req'[q].refs = req[q].refs
               /\ req'[q].crossed = req[q].crossed
    <3>1. Reading(req[q], chain, rows)
      BY <2>1, RequestBy DEF FlagsInv, CardsInv, RequestsInv
    <3> QED
      BY <2>1, <3>1 DEF Moved, Reading
  <2> QED
    BY <1>2, <2>1
<1>4. TapsStay
  BY <1>3 DEF TapsStay, IsTap
<1>5. \A q \in Slots : IsLoad(req'[q]) /\ ~req'[q].crossed => Carries(req[q], req'[q])
  BY <1>3 DEF Carries, IsLoad
<1>6. LoadsClean'
  BY <1>1, <1>4, <1>5, LoadsCarry DEF FlagsStay, TapsStay
<1>7. TapsAlone' /\ FlagsApart'
  BY <1>1, <1>4, NothingTapped
<1> QED
  BY <1>6, <1>7 DEF FlagsInv

\* Every step of the wallet, by what it does to the flags.
LEMMA WalletStepFlags ==
  ASSUME FlagsInv, CardsInv', Aimed, NEW p \in Slots, WalletStep(p)
  PROVE  FlagsInv'
<1>0. CardsInv /\ RequestsInv /\ Cards(credentials, rows) /\ Bodies
  BY DEF FlagsInv, CardsInv
<1>1. ASSUME UNCHANGED phone, Calm(p) PROVE FlagsInv'
  BY <1>1, CalmKeeps DEF phone
<1>2. CASE FetchMyCredentials(p)
  BY <1>2, LoadBeginsClean
<1>3. CASE GetCredentialsByHolder(p)
  <2>1. UNCHANGED phone /\ rows' = rows
    BY <1>3 DEF GetCredentialsByHolder
  <2>2. Calm(p)
    BY <1>0, <1>3, <2>1, LoadIsTold DEF Calm, Carries, IsLoad
  <2> QED
    BY <1>1, <2>1, <2>2
<1>4. CASE LoadArrives(p)
  BY <1>4, LoadArrivesClean
<1>5. CASE LoadRefused(p)
  <2>1. UNCHANGED phone /\ rows' = rows
    BY <1>5 DEF LoadRefused
  <2>2. Calm(p)
    BY <1>0, <1>5, <2>1, LoadRefusedKeeps DEF Calm, Carries, IsLoad
  <2> QED
    BY <1>1, <2>1, <2>2
<1>6. CASE LoadTimesOut(p) \/ LateLost(p) \/ TapAnswered(p) \/ MarkFails(p)
  <2>1. /\ req' = [req EXCEPT ![p] = Idle] /\ rows' = rows /\ UNCHANGED phone
        /\ req[p].pc # "tap"
    BY <1>6 DEF LoadTimesOut, LateLost, TapAnswered, MarkFails, IsLoad
  <2> QED
    BY <1>0, <1>1, <2>1, FreeIsCalm
<1>7. ASSUME NEW c \in Creds, Decrypt(p, c) PROVE FlagsInv'
  <2> DEFINE r == [pc |-> "decrypt", cred |-> c, index |-> IndexOf(c), shifted |-> FALSE]
  <2>1. Take(p, r) /\ UNCHANGED phone /\ r.pc = "decrypt"
    BY <1>7 DEF Decrypt
  <2> HIDE DEF r
  <2> QED
    BY <1>0, <1>1, <2>1, TakeIsCalm
<1>8. CASE DecryptSucceeds(p) \/ DecryptFails(p)
  <2>1. PICK body : DecryptEnds(p, body) /\ body \in {Encrypted, req[p].cred}
    BY <1>8 DEF DecryptSucceeds, DecryptFails
  <2>2. /\ req' = [req EXCEPT ![p] = Idle] /\ rows' = rows /\ req[p].pc # "tap"
        /\ mixed' = mixed
    BY <2>1 DEF DecryptEnds
  <2>3. /\ DOMAIN credentials' = DOMAIN credentials
        /\ \A j \in DOMAIN credentials :
             /\ credentials'[j].cred = credentials[j].cred
             /\ credentials'[j].fav = credentials[j].fav
    BY <1>0, <2>1, DecryptEndsKeeps
  <2> QED
    BY <1>0, <2>2, <2>3, FreeIsCalm, CalmKeeps
<1>9. ASSUME NEW i \in DOMAIN credentials, Tap(p, i) PROVE FlagsInv'
  BY <1>9, TapBeginsAlone
<1>10. CASE ServerToggles(p)
  BY <1>10, TapIsSeen
<1>11. CASE TapRefused(p)
  <2>1. /\ req[p].pc = "tap" /\ credentials' = RollBack(req[p])
        /\ mixed' = (mixed \/ req[p].crossed) /\ rows' = rows /\ misplaced' = misplaced
        /\ req'[p] = Idle /\ \A q \in Slots : q # p => req'[q] = req[q]
    BY <1>0, <1>11 DEF TapRefused, RequestsInv, Typed
  <2> QED
    BY <2>1, TapTakenBack
<1>12. CASE TapTimesOut(p)
  BY <1>12, TapTimesOutFlags
<1>13. CASE TogglesLate(p)
  <2>1. /\ req[p].pc = "late" /\ mixed' /\ req'[p] = Idle
        /\ \A q \in Slots : q # p => req'[q] = req[q]
    BY <1>0, <1>13 DEF TogglesLate, ToggleFavorite, RequestsInv, Typed
  <2>2. ~IsLoad(req'[p])
    BY <2>1 DEF Idle, IsLoad
  <2> QED
    BY <2>1, <2>2, FlagsMixed
<1>14. ASSUME NEW service \in Services, FetchDocument(p, service) PROVE FlagsInv'
  <2> DEFINE r == Read("fetch", service, Rows)
  <2>1. Take(p, r) /\ UNCHANGED phone /\ r.pc = "read" /\ r.kind = "fetch"
    BY <1>14 DEF FetchDocument, Read
  <2> HIDE DEF r
  <2> QED
    BY <1>0, <1>1, <2>1, TakeIsCalm
<1>15. CASE FetchNothing(p)
  <2>1. AllRead(p, "fetch") /\ (\E answer : Answer(p, answer)) /\ UNCHANGED phone
    BY <1>15 DEF FetchNothing
  <2> QED
    BY <1>0, <1>1, <2>1, AnswerIsCalm DEF AllRead
<1>16. CASE FetchFinds(p)
  <2> DEFINE x == [req[p] EXCEPT !.pc = "mark", !.left = Adds(p)]
  <2>1. /\ AllRead(p, "fetch") /\ req' = [req EXCEPT ![p] = x] /\ rows' = rows /\ UNCHANGED phone
    BY <1>0, <1>16 DEF FetchFinds, RequestsInv, Typed
  <2>2. Reading(req[p], chain, rows) /\ req[p].pc = "read"
    BY <1>0, <2>1, AllReadIs
  <2>3. x.pc = "mark"
    BY <2>2 DEF Reading
  <2> HIDE DEF x
  <2>4. Calm(p)
    BY <1>0, <2>1, <2>2, <2>3 DEF Calm, IsLoad, RequestsInv, Typed
  <2> QED
    BY <1>1, <2>1, <2>4
<1>17. CASE MarkInWallet(p)
  <2> DEFINE x == [req[p] EXCEPT !.left = Tail(req[p].left)]
  <2>1. /\ req[p].pc = "mark" /\ req' = [req EXCEPT ![p] = x] /\ UNCHANGED phone
    BY <1>0, <1>17 DEF MarkInWallet, RequestsInv, Typed
  <2>2. Reading(req[p], chain, rows)
    BY <1>0, <2>1, RequestBy DEF RequestsInv
  <2>3. x.pc = "mark"
    BY <2>1, <2>2 DEF Reading
  <2> HIDE DEF x
  <2>4. \A c \in Creds : rows'[c].fav = rows[c].fav
    BY <1>0, <1>17, MarkInWalletKeeps
  <2>5. Calm(p)
    BY <1>0, <2>1, <2>3, <2>4 DEF Calm, IsLoad, RequestsInv, Typed
  <2> QED
    BY <1>1, <2>1, <2>5
<1>18. CASE FetchDone(p)
  <2>1. /\ req[p].pc = "mark" /\ Answer(p, "retrieved") /\ UNCHANGED phone
    BY <1>18 DEF FetchDone
  <2>2. req[p].kind = "fetch"
    BY <1>0, <2>1, RequestBy DEF RequestsInv, Marking
  <2> QED
    BY <1>0, <1>1, <2>1, <2>2, AnswerIsCalm
<1> QED
  BY <1>2, <1>3, <1>4, <1>5, <1>6, <1>7, <1>8, <1>9, <1>10, <1>11, <1>12, <1>13, <1>14,
     <1>15, <1>16, <1>17, <1>18 DEF WalletStep

-----------------------------------------------------------------------------
(* Where the decryptions aim. *)

CardsWhere ==
  /\ DOMAIN credentials' = DOMAIN credentials
  /\ \A j \in DOMAIN credentials : credentials'[j].cred = credentials[j].cred

\* The aim stays with the cards, when no decryption begins.
LEMMA AimStays ==
  ASSUME Aimed, CardsWhere,
         \A q \in Slots : req'[q] = req[q] \/ req'[q].pc # "decrypt"
  PROVE  Aimed'
BY DEF Aimed, CardsWhere

\* A slot that is free again, that changes to x, or that answers.
LEMMA SlotAims ==
  ASSUME Aimed, RequestsInv, CardsWhere, NEW p \in Slots, NEW x,
         req' = [req EXCEPT ![p] = x], x.pc # "decrypt"
  PROVE  Aimed'
<1>1. \A q \in Slots : req'[q] = req[q] \/ req'[q].pc # "decrypt"
  BY DEF RequestsInv, Typed
<1> QED
  BY <1>1, AimStays

LEMMA FreeAims ==
  ASSUME Aimed, RequestsInv, CardsWhere, NEW p \in Slots, req' = [req EXCEPT ![p] = Idle]
  PROVE  Aimed'
<1>1. Idle.pc # "decrypt"
  BY DEF Idle
<1> QED
  BY <1>1, SlotAims

LEMMA AnswerAims ==
  ASSUME Aimed, RequestsInv, CardsWhere, NEW p \in Slots, NEW answer, Answer(p, answer)
  PROVE  Aimed'
<1> DEFINE x == Told(req[p], answer)
<1>1. req' = [req EXCEPT ![p] = x] /\ x.pc = "told"
  BY DEF Answer, Told, RequestsInv, Typed
<1> HIDE DEF x
<1> QED
  BY <1>1, SlotAims

\* A load or a tap that begins meets no decryption.
LEMMA BeginAims ==
  ASSUME Aimed, CardsWhere, NEW p \in Slots, NEW r, NEW kind, NEW c, Begin(p, r, kind, c),
         "pc" \in DOMAIN r, r.pc \in {"read", "tap"}
  PROVE  Aimed'
<1>1. ASSUME NEW q \in Slots PROVE req'[q] = req[q] \/ req'[q].pc # "decrypt"
  <2>1. CASE q = p
    <3> DEFINE b == \E o \in Slots : Meets(req[o], kind, c)
    <3>1. req'[q] = [r EXCEPT !.crossed = b]
      BY <2>1 DEF Begin
    <3> HIDE DEF b
    <3> QED
      BY <3>1
  <2>2. CASE q # p /\ Meets(req[q], kind, c)
    <3>1. req'[q] = [req[q] EXCEPT !.crossed = TRUE]
      BY <2>2 DEF Begin
    <3>2. req[q].pc \in {"read", "told", "tap", "flipped", "late"}
      BY <2>2 DEF Meets, IsLoad, IsTap
    <3> QED
      BY <3>1, <3>2
  <2>3. CASE q # p /\ ~Meets(req[q], kind, c)
    BY <2>3 DEF Begin
  <2> QED
    BY <2>1, <2>2, <2>3
<1> QED
  BY <1>1, AimStays

\* A load tells every decryption under way where its card is now.
LEMMA LoadArrivesAims ==
  ASSUME RequestsInv, NEW p \in Slots, LoadArrives(p)
  PROVE  Aimed'
<1> SUFFICES ASSUME NEW q \in Slots, req'[q].pc = "decrypt", ~req'[q].shifted
             PROVE  /\ req'[q].index \in DOMAIN credentials'
                    /\ credentials'[req'[q].index].cred = req'[q].cred
  BY DEF Aimed
<1>1. q # p
  BY LoadArrivesFrees DEF Idle
<1>2. /\ req'[q].index = req[q].index /\ req'[q].cred = req[q].cred
      /\ ~OffIndex(req[q], credentials')
  BY <1>1, LoadArrivesFrees
<1> QED
  BY <1>2 DEF OffIndex

\* A decryption begins at the index of its card.
LEMMA DecryptAims ==
  ASSUME Aimed, RequestsInv, NEW p \in Slots, NEW c \in Creds, Decrypt(p, c)
  PROVE  Aimed'
<1> DEFINE r == [pc |-> "decrypt", cred |-> c, index |-> IndexOf(c), shifted |-> FALSE]
<1>1. /\ req'[p] = r /\ (\A q \in Slots : q # p => req'[q] = req[q])
      /\ credentials' = credentials
  BY DEF Decrypt, Take, phone, RequestsInv, Typed
<1>2. r.index \in DOMAIN credentials /\ credentials[r.index].cred = r.cred
  BY DEF Decrypt, IndexOf
<1> HIDE DEF r
<1> QED
  BY <1>1, <1>2 DEF Aimed

\* The portal's steps.
LEMMA ListingsAim ==
  ASSUME Aimed, RequestsInv, NEW p \in Slots, ListingsStep(p), credentials' = credentials
  PROVE  Aimed'
<1>0. CardsWhere
  BY DEF CardsWhere
<1>1. ASSUME NEW r, Take(p, r), r.pc = "read" PROVE Aimed'
  BY <1>0, <1>1, SlotAims DEF Take
<1>2. CASE ReadPortal(p)
  <2>1. Take(p, Read("portal", 0, Rows)) /\ Read("portal", 0, Rows).pc = "read"
    BY <1>2 DEF ReadPortal, Read
  <2> QED
    BY <1>1, <2>1
<1>3. ASSUME NEW c \in Creds, ReadDetail(p, c) PROVE Aimed'
  <2>1. Take(p, Read("detail", c, {c})) /\ Read("detail", c, {c}).pc = "read"
    BY <1>3 DEF ReadDetail, Read
  <2> QED
    BY <1>1, <2>1
<1>4. CASE ReadChunk(p)
  <2>1. \A q \in Slots : req'[q] = req[q] \/ req'[q].pc # "decrypt"
    BY <1>4, ReadChunkQuiet
  <2> QED
    BY <1>0, <2>1, AimStays
<1>5. CASE ReadFails(p) \/ Answered(p)
  BY <1>0, <1>5, FreeAims DEF ReadFails, Answered
<1>6. ASSUME NEW answer, Answer(p, answer) PROVE Aimed'
  BY <1>0, <1>6, AnswerAims
<1>7. ASSUME NEW status \in StatusFilters, NEW page \in Pages, NEW v \in Limits,
             ListCredentials(p, status, page, v)
      PROVE  Aimed'
  BY <1>6, <1>7 DEF ListCredentials
<1>8. CASE DashboardStats(p) \/ ShowDetail(p)
  BY <1>6, <1>8 DEF DashboardStats, ShowDetail
<1> QED
  BY <1>2, <1>3, <1>4, <1>5, <1>7, <1>8 DEF ListingsStep

\* Chain, clock and issuer.
LEMMA WorldAims ==
  ASSUME Aimed, RequestsInv, WorldStep, credentials' = credentials
  PROVE  Aimed'
<1>1. ASSUME NEW q \in Slots PROVE req'[q] = req[q] \/ req'[q].pc # "decrypt"
  <2>1. ASSUME NEW new, NEW gone, Moves(new, gone), req[q].pc \in {"read", "mark"}
        PROVE  req'[q].pc = req[q].pc
    <3>1. req'[q] = Moved(req[q], new)
      BY <2>1 DEF Moves, Moved
    <3>2. Reading(req[q], chain, rows)
      BY <2>1, RequestBy DEF RequestsInv
    <3> QED
      BY <2>1, <3>1, <3>2 DEF Moved, Reading
  <2>2. ASSUME NEW new, NEW gone, Moves(new, gone), req[q].pc \notin {"read", "mark"}
        PROVE  req'[q] = req[q]
    BY <2>2 DEF Moves
  <2>3. (\E new, gone : Moves(new, gone)) \/ req' = req
    BY DEF WorldStep, IssueOnChain, InsertRow, ExpiryPasses, ChangeStatus, LedgerReset
  <2> QED
    BY <2>1, <2>2, <2>3
<1> QED
  BY <1>1, AimStays DEF CardsWhere

LEMMA WalletStepAims ==
  ASSUME Aimed, CardsInv, NEW p \in Slots, WalletStep(p)
  PROVE  Aimed'
<1>0. RequestsInv /\ Cards(credentials, rows) /\ Bodies
  BY DEF CardsInv
<1>1. CASE FetchMyCredentials(p)
  <2> DEFINE r == Read("wallet", 0, {c \in Rows : rows[c].wallet})
  <2>1. /\ Begin(p, r, "wallet", 0) /\ "pc" \in DOMAIN r /\ r.pc = "read"
        /\ credentials' = credentials
    BY <1>1 DEF FetchMyCredentials, Read, phone
  <2> HIDE DEF r
  <2> QED
    BY <2>1, BeginAims DEF CardsWhere
<1>2. CASE GetCredentialsByHolder(p)
  <2>1. credentials' = credentials
    BY <1>2 DEF GetCredentialsByHolder, phone
  <2>2. \A q \in Slots : req'[q] = req[q] \/ req'[q].pc # "decrypt"
    BY <1>0, <1>2, LoadIsTold
  <2> QED
    BY <2>1, <2>2, AimStays DEF CardsWhere
<1>3. CASE LoadArrives(p)
  BY <1>0, <1>3, LoadArrivesAims
<1>4. CASE LoadRefused(p)
  <2> DEFINE x == Told(req[p], [error |-> 502])
  <2>1. req' = [req EXCEPT ![p] = x] /\ x.pc = "told" /\ credentials' = credentials
    BY <1>0, <1>4 DEF LoadRefused, Told, phone, RequestsInv, Typed
  <2> HIDE DEF x
  <2> QED
    BY <1>0, <2>1, SlotAims DEF CardsWhere
<1>5. CASE LoadTimesOut(p) \/ LateLost(p) \/ TapAnswered(p) \/ MarkFails(p)
  <2>1. req' = [req EXCEPT ![p] = Idle] /\ credentials' = credentials
    BY <1>5 DEF LoadTimesOut, LateLost, TapAnswered, MarkFails, phone
  <2> QED
    BY <1>0, <2>1, FreeAims DEF CardsWhere
<1>6. ASSUME NEW c \in Creds, Decrypt(p, c) PROVE Aimed'
  BY <1>0, <1>6, DecryptAims
<1>7. CASE DecryptSucceeds(p) \/ DecryptFails(p)
  <2>1. PICK body : DecryptEnds(p, body) /\ body \in {Encrypted, req[p].cred}
    BY <1>7 DEF DecryptSucceeds, DecryptFails
  <2>2. CardsWhere
    BY <1>0, <2>1, DecryptEndsKeeps DEF CardsWhere
  <2> QED
    BY <1>0, <2>1, <2>2, FreeAims DEF DecryptEnds
<1>8. ASSUME NEW i \in DOMAIN credentials, Tap(p, i) PROVE Aimed'
  <2> DEFINE r == [pc |-> "tap", cred |-> credentials[i].cred, index |-> i,
                   original |-> credentials[i].fav, crossed |-> FALSE]
  <2>1. Begin(p, r, "tap", credentials[i].cred) /\ "pc" \in DOMAIN r /\ r.pc = "tap"
    BY <1>8 DEF Tap
  <2> HIDE DEF r
  <2>2. CardsWhere
    BY <1>0, <1>8, TapBegins DEF CardsWhere
  <2> QED
    BY <2>1, <2>2, BeginAims
<1>9. CASE ServerToggles(p) \/ TogglesLate(p)
  <2>1. PICK next : /\ ToggleFavorite(p, next)
                    /\ next = Idle \/ next = [req[p] EXCEPT !.pc = "flipped"]
                    /\ req[p].pc \in {"tap", "late"}
    BY <1>9 DEF ServerToggles, TogglesLate
  <2>2. DOMAIN req[p] = {"pc", "cred", "index", "original", "crossed"}
    BY <1>0, <2>1, RequestBy DEF RequestsInv
  <2>3. next.pc # "decrypt"
    BY <2>1, <2>2 DEF Idle
  <2> QED
    BY <1>0, <2>1, <2>3, SlotAims DEF ToggleFavorite, CardsWhere
<1>10. CASE TapRefused(p) \/ TapTimesOut(p)
  <2>1. /\ req[p].pc \in {"tap", "flipped"} /\ credentials' = RollBack(req[p])
        /\ rows' = rows /\ misplaced' = misplaced
        /\ \E x \in {Idle, [req[p] EXCEPT !.pc = "late"]} : req' = [req EXCEPT ![p] = x]
    BY <1>10 DEF TapRefused, TapTimesOut
  <2>2. DOMAIN req[p] = {"pc", "cred", "index", "original", "crossed"}
        /\ req[p].original \in BOOLEAN
    BY <1>0, <2>1, RequestBy DEF RequestsInv
  <2>3. \A x \in {Idle, [req[p] EXCEPT !.pc = "late"]} : x.pc # "decrypt"
    BY <2>2 DEF Idle
  <2>4. CardsWhere
    BY <1>0, <2>1, <2>2, GrowsItself, RollBackKeeps DEF CardsWhere
  <2> QED
    BY <1>0, <2>1, <2>3, <2>4, SlotAims
<1>11. ASSUME NEW service \in Services, FetchDocument(p, service) PROVE Aimed'
  <2> DEFINE r == Read("fetch", service, Rows)
  <2>1. Take(p, r) /\ credentials' = credentials /\ r.pc = "read"
    BY <1>11 DEF FetchDocument, Read, phone
  <2> HIDE DEF r
  <2> QED
    BY <1>0, <2>1, SlotAims DEF Take, CardsWhere
<1>12. CASE FetchNothing(p) \/ FetchDone(p)
  <2>1. credentials' = credentials /\ \E answer : Answer(p, answer)
    BY <1>12 DEF FetchNothing, FetchDone, phone
  <2> QED
    BY <1>0, <2>1, AnswerAims DEF CardsWhere
<1>13. CASE FetchFinds(p)
  <2> DEFINE x == [req[p] EXCEPT !.pc = "mark", !.left = Adds(p)]
  <2>1. /\ AllRead(p, "fetch") /\ req' = [req EXCEPT ![p] = x] /\ credentials' = credentials
    BY <1>0, <1>13 DEF FetchFinds, phone, RequestsInv, Typed
  <2>2. Reading(req[p], chain, rows)
    BY <1>0, <2>1, AllReadIs
  <2>3. x.pc = "mark"
    BY <2>2 DEF Reading
  <2> HIDE DEF x
  <2> QED
    BY <1>0, <2>1, <2>3, SlotAims DEF CardsWhere
<1>14. CASE MarkInWallet(p)
  <2> DEFINE x == [req[p] EXCEPT !.left = Tail(req[p].left)]
  <2>1. /\ req[p].pc = "mark" /\ req' = [req EXCEPT ![p] = x] /\ credentials' = credentials
    BY <1>0, <1>14 DEF MarkInWallet, phone, RequestsInv, Typed
  <2>2. Reading(req[p], chain, rows)
    BY <1>0, <2>1, RequestBy DEF RequestsInv
  <2>3. x.pc = "mark"
    BY <2>1, <2>2 DEF Reading
  <2> HIDE DEF x
  <2> QED
    BY <1>0, <2>1, <2>3, SlotAims DEF CardsWhere
<1> QED
  BY <1>1, <1>2, <1>3, <1>4, <1>5, <1>6, <1>7, <1>8, <1>9, <1>10, <1>11, <1>12, <1>13,
     <1>14 DEF WalletStep

-----------------------------------------------------------------------------
(* What holds at the start, and of the whole. *)

\* At the start every flag is off and nothing is under way.
LEMMA FlagsInvStarts == WalletInit => FlagsInv
<1> SUFFICES ASSUME WalletInit PROVE FlagsInv
  OBVIOUS
<1> DEFINE order == Sorted(InWallet, NewestFirst)
<1>1. /\ chain = [c \in Creds |-> IF c \in Issued THEN "active" ELSE "absent"]
      /\ expired = {}
      /\ rows = [c \in Creds |-> [wallet |-> c \in InWallet, fav |-> FALSE,
                                  there |-> c \in Issued]]
      /\ req = [p \in Slots |-> Idle]
      /\ mixed = FALSE /\ misplaced = FALSE
      /\ credentials = [i \in DOMAIN order |-> Model(order[i], "active", FALSE)]
  BY DEF WalletInit, ListingsInit
<1>2. InWallet \in SUBSET Creds /\ InWallet \subseteq Issued
  BY CredsAssumption, WalletAssumption
<1>3. /\ DOMAIN order \subseteq Nat
      /\ \A i \in DOMAIN order : order[i] \in InWallet
      /\ \A i, j \in DOMAIN order : i < j => <<order[i], order[j]>> \in NewestFirst
  <2>1. IsFiniteSet(InWallet) /\ Orders(NewestFirst, InWallet)
    BY <1>2, NewestFirstOrders
  <2>2. Cardinality(InWallet) \in Nat /\ DOMAIN order = 1 .. Cardinality(InWallet)
    BY <2>1, SortedIs
  <2>3. /\ \A i \in DOMAIN order : order[i] \in InWallet
        /\ \A i, j \in DOMAIN order : i < j => <<order[i], order[j]>> \in NewestFirst
    BY <2>1, SortedIs
  <2> QED
    BY <2>2, <2>3
<1> HIDE DEF order
<1>4. RequestsInv
  <2>1. chain \in [Creds -> Words]
    BY <1>1 DEF Words, Stored
  <2>2. rows \in [Creds -> RowSet]
    BY <1>1 DEF RowSet
  <2> QED
    BY <1>1, <2>1, <2>2, IdleIsRequest DEF RequestsInv, Typed
<1>5. /\ DOMAIN credentials = DOMAIN order
      /\ \A i \in DOMAIN order :
           /\ credentials[i] \in [cred : Creds, status : Statuses, fav : BOOLEAN,
                                  body : Creds \cup {Encrypted}]
           /\ credentials[i].cred = order[i] /\ credentials[i].fav = FALSE
           /\ credentials[i].body = Encrypted
  BY <1>1, <1>2, <1>3 DEF Model, Statuses, Stored
<1>6. \A c \in InWallet : rows[c].there /\ rows[c].fav = FALSE
  BY <1>1, <1>2
<1>7. \A i, j \in DOMAIN order : order[i] = order[j] => i = j
  <2> SUFFICES ASSUME NEW i \in DOMAIN order, NEW j \in DOMAIN order, i < j,
                      order[i] = order[j]
               PROVE  FALSE
    BY <1>3
  <2>1. /\ <<order[i], order[j]>> \in NewestFirst
        /\ order[i] \in Nat /\ IssuedAt[order[i]] \in Nat
    BY <1>2, <1>3, CredsAssumption
  <2> QED
    BY <2>1 DEF NewestFirst
<1>8. Cards(credentials, rows)
  BY <1>3, <1>5, <1>6, <1>7 DEF Cards
<1>9. Bodies
  BY <1>5 DEF Bodies
<1>10. ASSUME NEW p \in Slots PROVE req[p].pc = "idle"
  BY <1>1 DEF Idle
<1>11. LoadsClean /\ TapsAlone
  BY <1>10 DEF LoadsClean, TapsAlone, IsLoad
<1>12. ASSUME NEW c PROVE Cardinality(Unseen(c)) % 2 = 0
  <2>1. Unseen(c) = {}
    BY <1>10 DEF Unseen
  <2> QED
    BY <2>1, FS_EmptySet
<1>13. FlagsApart
  BY <1>3, <1>5, <1>6, <1>12 DEF FlagsApart
<1> QED
  BY <1>4, <1>8, <1>9, <1>11, <1>13 DEF FlagsInv, CardsInv

LEMMA AimedStarts == WalletInit => Aimed
BY DEF WalletInit, ListingsInit, Aimed, Idle

LEMMA AimedStays == FlagsInv /\ Aimed /\ [WalletNext]_vars => Aimed'
<1> SUFFICES ASSUME FlagsInv, Aimed, [WalletNext]_vars PROVE Aimed'
  OBVIOUS
<1>0. CardsInv /\ RequestsInv
  BY DEF FlagsInv, CardsInv
<1>1. ASSUME NEW p \in Slots, WalletStep(p) PROVE Aimed'
  BY <1>0, <1>1, WalletStepAims
<1>2. ASSUME NEW p \in Slots, ListingsStep(p), UNCHANGED phone PROVE Aimed'
  BY <1>0, <1>2, ListingsAim DEF phone
<1>3. ASSUME WorldStep, UNCHANGED phone PROVE Aimed'
  BY <1>0, <1>3, WorldAims DEF phone
<1>4. CASE UNCHANGED vars
  BY <1>4 DEF vars, listing, phone, Aimed
<1> QED
  BY <1>1, <1>2, <1>3, <1>4 DEF WalletNext

LEMMA FlagsInvStays == FlagsInv /\ Aimed /\ [WalletNext]_vars => FlagsInv'
<1> SUFFICES ASSUME FlagsInv, Aimed, [WalletNext]_vars PROVE FlagsInv'
  OBVIOUS
<1>0. CardsInv /\ RequestsInv /\ Cards(credentials, rows) /\ Bodies
  BY DEF FlagsInv, CardsInv
<1>1. ASSUME NEW p \in Slots, WalletStep(p) PROVE FlagsInv'
  BY <1>0, <1>1, WalletStepKeeps, WalletStepFlags
<1>2. ASSUME NEW p \in Slots, ListingsStep(p), UNCHANGED phone PROVE FlagsInv'
  <2>1. Calm(p)
    BY <1>0, <1>2, ListingsCalm
  <2>2. rows' = rows
    BY <1>2 DEF ListingsStep, ReadPortal, ReadDetail, Take, ReadChunk, ReadFails,
                ListCredentials, DashboardStats, ShowDetail, Answer, Answered
  <2>3. UNCHANGED <<credentials, mixed, misplaced>>
    BY <1>2 DEF phone
  <2>4. CardsInv'
    BY <1>0, <1>2, <2>2, <2>3, GrowsItself, CardsStay, ListingsStepKeeps DEF CardsInv
  <2> QED
    BY <2>1, <2>3, <2>4, CalmKeeps
<1>3. ASSUME WorldStep, UNCHANGED phone PROVE FlagsInv'
  <2>1. UNCHANGED <<credentials, mixed, misplaced>>
    BY <1>3 DEF phone
  <2>2. Grows(rows, rows')
    <3>1. rows' = rows \/ \E c \in Creds : rows' = [rows EXCEPT ![c].there = TRUE]
      BY <1>3 DEF WorldStep, IssueOnChain, InsertRow, ExpiryPasses, ChangeStatus,
                  LedgerReset, Moves
    <3>2. rows \in [Creds -> RowSet]
      BY <1>0 DEF RequestsInv, Typed
    <3> QED
      BY <3>1, <3>2 DEF RowSet, Grows
  <2>3. CardsInv'
    BY <1>0, <1>3, <2>1, <2>2, CardsStay, WorldStepKeeps DEF CardsInv
  <2> QED
    BY <1>3, <2>3, WorldStepFlags
<1>4. CASE UNCHANGED vars
  BY <1>4 DEF vars, listing, ledger, phone, FlagsInv, CardsInv, RequestsInv, Typed, Cards,
     Bodies, LoadsClean, LoadIsClean, TapsAlone, TapIsAlone, FlagsApart, Unseen
<1> QED
  BY <1>1, <1>2, <1>3, <1>4 DEF WalletNext

\* The inductive invariant: what is true of every request, of every card, of
\* the taps under way, and of where the decryptions under way will write.
THEOREM WalletInvariant == WalletSpec => [](FlagsInv /\ Aimed)
BY FlagsInvStarts, FlagsInvStays, AimedStarts, AimedStays, PTL DEF WalletSpec

\* Rows, requests and models are well formed, and the phone never shows a
\* credential twice, for any number of credentials and of requests at a time.
THEOREM WalletTypeOKHolds == WalletSpec => []WalletTypeOK
<1>1. FlagsInv => WalletTypeOK
  <2> SUFFICES ASSUME FlagsInv PROVE WalletTypeOK
    OBVIOUS
  <2>1. RequestsInv /\ Cards(credentials, rows)
    BY DEF FlagsInv, CardsInv
  <2>2. \A p \in Slots : req[p].pc \in {"idle", "read", "told", "mark", "decrypt", "tap",
                                        "flipped", "late"}
    BY <2>1 DEF RequestsInv, Request, Idle
  <2>3. /\ chain \in [Creds -> Stored \cup {"absent"}] /\ expired \subseteq Creds
        /\ rows \in [Creds -> [wallet : BOOLEAN, fav : BOOLEAN, there : BOOLEAN]]
    BY <2>1 DEF RequestsInv, Typed, Words, RowSet
  <2>4. \A i \in DOMAIN credentials :
          /\ credentials[i].cred \in Rows /\ credentials[i].status \in Statuses
          /\ credentials[i].fav \in BOOLEAN /\ credentials[i].body \in Creds \cup {Encrypted}
          /\ \A j \in DOMAIN credentials : credentials[i].cred = credentials[j].cred => i = j
    BY <2>1 DEF Cards, Rows
  <2> QED
    BY <2>2, <2>3, <2>4 DEF WalletTypeOK
<1> QED
  BY <1>1, WalletInvariant, PTL

\* Every list, page, count and detail tells what the chain said of each
\* credential at some time of the read, and leaves out none that was on the
\* chain throughout: for any number of credentials, any size of a batch and of
\* a page, and however the chain moves between two batches.
THEOREM ReadsTellTheChainHolds == WalletSpec => []ReadsTellTheChain
<1>1. FlagsInv => ReadsTellTheChain
  <2> SUFFICES ASSUME FlagsInv, NEW p \in Slots, req[p].pc = "told"
               PROVE  LET r == req[p] IN
                      CASE r.kind = "portal" /\ "list" \in DOMAIN r.answer -> ListIsTrue(r)
                        [] r.kind = "portal" /\ "of" \in DOMAIN r.answer   -> StatsAreTrue(r)
                        [] r.kind = "detail" -> r.answer \in r.was[r.arg]
                        [] r.kind = "wallet" /\ "list" \in DOMAIN r.answer -> WalletIsTrue(r)
                        [] OTHER -> TRUE
    BY DEF ReadsTellTheChain
  <2>1. Telling(req[p], rows)
    BY RequestBy DEF FlagsInv, CardsInv, RequestsInv
  <2> QED
    BY <2>1 DEF Telling
<1> QED
  BY <1>1, WalletInvariant, PTL

\* A card never shows another credential's attributes, unless since the last
\* load a decryption ended whose card an earlier load had moved meanwhile: for
\* any number of cards and of decryptions and loads under way at once.
THEOREM AttributesOfTheCardHolds == WalletSpec => []AttributesOfTheCard
<1>1. FlagsInv => AttributesOfTheCard
  BY DEF FlagsInv, CardsInv, Bodies, AttributesOfTheCard
<1> QED
  BY <1>1, WalletInvariant, PTL

\* Phone and backend agree on the favourites when nothing is under way, unless
\* something got out of step since the last clean load: however many taps and
\* loads overlap.
THEOREM FavouritesAgreeHolds == WalletSpec => []FavouritesAgree
<1>1. FlagsInv => FavouritesAgree
  <2> SUFFICES ASSUME FlagsInv, ~mixed, \A p \in Slots, c \in Creds : ~IsTap(req[p], c),
                      NEW i \in DOMAIN credentials
               PROVE  credentials[i].fav = rows[credentials[i].cred].fav
    BY DEF FavouritesAgree
  <2>1. credentials[i].cred \in Creds
    BY DEF FlagsInv, CardsInv, Cards
  <2>2. Unseen(credentials[i].cred) = {}
    BY <2>1 DEF Unseen, IsTap
  <2>3. Cardinality(Unseen(credentials[i].cred)) % 2 = 0
    BY <2>2, FS_EmptySet
  <2> QED
    BY <2>3 DEF FlagsInv, FlagsApart
<1> QED
  BY <1>1, WalletInvariant, PTL

\* What a fetch calls retrieved, or already there, is in the wallet, and not
\* issued is said only of none: for any number of fetches at a time.
THEOREM FetchTellsTruthHolds == WalletSpec => []FetchTellsTruth
<1>1. FlagsInv => FetchTellsTruth
  <2> SUFFICES ASSUME FlagsInv, NEW p \in Slots, req[p].pc = "told", req[p].kind = "fetch"
               PROVE  FetchIsTrue(req[p], rows)
    BY DEF FetchTellsTruth, FetchIsTrue
  <2> QED
    BY RequestBy DEF FlagsInv, CardsInv, RequestsInv, Telling
<1> QED
  BY <1>1, WalletInvariant, PTL
=============================================================================
