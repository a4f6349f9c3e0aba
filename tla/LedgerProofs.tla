----------------------------- MODULE LedgerProofs -----------------------------
(* Why the balance cache adds up to the ledger, for any number of slots,   *)
(* accounts, requests in flight and refused queries.  What the results     *)
(* will still do to a cache and what the queue will still do to a row are  *)
(* sums over sequences of any length; a sum is witnessed by its partial    *)
(* sums, so that a step only adds to a sum or takes from it.               *)
(* Then, when every debit has the gems that pay for it waiting in the row. *)
EXTENDS BalanceProofs, WellFoundedInduction

USE BalanceAssumption DEF Null, Packs, Sessions

------------------------------------------------------------------------------
(* Sums.                                                                   *)

(* f lists the partial sums of d[1], ..., d[n]; where only zeros are left, *)
(* the whole sum is reached.                                               *)
PartialSums(f, d, n) ==
    /\ f \in [0..n -> Int]
    /\ f[0] = 0
    /\ \A i \in 1..n : d[i] \in Int /\ f[i] = f[i - 1] + d[i]
    /\ \A k \in 0..n : (\A i \in (k + 1)..n : d[i] = 0) => f[k] = f[n]

SumsTo(d, n, total) == \E f : PartialSums(f, d, n) /\ f[n] = total

(* A sum none of whose partial sums is negative.                           *)
NeverNegative(d, n, total) ==
    \E f : PartialSums(f, d, n) /\ f[n] = total /\ \A i \in 0..n : f[i] >= 0

(* e continues d with terms of which one at most, at p, is not zero.       *)
Grows(d, n, e, m, p) ==
    /\ e[p] \in Int
    /\ \A i \in 1..n : e[i] = d[i]
    /\ \A i \in (n + 1)..m : i # p => e[i] = 0

(* e is d without its first term.                                          *)
Shortens(d, n, e) ==
    /\ d[1] \in Int
    /\ \A i \in 1..(n - 1) : e[i] = d[i + 1]

(* Zeros add up to zero.                                                   *)
LEMMA ZerosSum ==
    ASSUME NEW n \in Nat, NEW d, \A i \in 1..n : d[i] = 0
    PROVE  SumsTo(d, n, 0) /\ NeverNegative(d, n, 0)
<1> DEFINE f == [i \in 0..n |-> 0]
<1>1. PartialSums(f, d, n) /\ f[n] = 0 /\ \A i \in 0..n : f[i] >= 0
  BY DEF PartialSums
<1> QED BY <1>1 DEF SumsTo, NeverNegative

(* ... and to nothing else.                                                *)
LEMMA ZerosSumOnly ==
    ASSUME NEW n \in Nat, NEW d, \A i \in 1..n : d[i] = 0, NEW total, SumsTo(d, n, total)
    PROVE  total = 0
BY DEF SumsTo, PartialSums

(* A sum is an integer.                                                    *)
LEMMA SumIsInt ==
    ASSUME NEW n \in Nat, NEW d, NEW total, SumsTo(d, n, total)
    PROVE  total \in Int
BY DEF SumsTo, PartialSums

(* Adding terms of which one at most, at p, is not zero.                   *)
LEMMA GrownPartialSums ==
    ASSUME NEW n \in Nat, NEW m \in Nat, NEW d, NEW e, NEW p \in (n + 1)..m,
           Grows(d, n, e, m, p),
           NEW f, PartialSums(f, d, n)
    PROVE  \E g : /\ PartialSums(g, e, m)
                  /\ g[m] = f[n] + e[p]
                  /\ \A i \in 0..m : g[i] = (IF i <= n THEN f[i]
                                             ELSE IF i < p THEN f[n] ELSE f[n] + e[p])
<1> DEFINE g == [i \in 0..m |-> IF i <= n THEN f[i]
                                ELSE IF i < p THEN f[n] ELSE f[n] + e[p]]
<1>0. /\ e[p] \in Int
      /\ \A i \in 1..n : e[i] = d[i]
      /\ \A i \in (n + 1)..m : i # p => e[i] = 0
  BY DEF Grows
<1>1. /\ f \in [0..n -> Int] /\ f[0] = 0 /\ f[n] \in Int
      /\ \A i \in 1..n : d[i] \in Int /\ f[i] = f[i - 1] + d[i]
      /\ \A k \in 0..n : (\A i \in (k + 1)..n : d[i] = 0) => f[k] = f[n]
  BY DEF PartialSums
<1>2. g \in [0..m -> Int]
  BY <1>0, <1>1
<1>3. g[0] = 0 /\ g[m] = f[n] + e[p]
  BY <1>0, <1>1
<1>4. ASSUME NEW i \in 1..m PROVE e[i] \in Int /\ g[i] = g[i - 1] + e[i]
  <2>1. CASE i <= n
    <3>1. i \in 1..n /\ i - 1 \in 0..n
      BY <2>1
    <3>2. g[i] = f[i] /\ g[i - 1] = f[i - 1]
      BY <2>1, <3>1
    <3> QED BY <1>0, <1>1, <3>1, <3>2
  <2>2. CASE i > n /\ i # p
    BY <1>0, <1>1, <2>2
  <2>3. CASE i = p
    BY <1>0, <1>1, <2>3
  <2> QED BY <2>1, <2>2, <2>3
<1>5. ASSUME NEW k \in 0..m, \A i \in (k + 1)..m : e[i] = 0 PROVE g[k] = g[m]
  <2>1. CASE k < p
    <3>1. e[p] = 0
      BY <1>0, <1>5, <2>1
    <3>2. CASE k <= n
      <4>1. \A i \in (k + 1)..n : d[i] = 0
        BY <1>0, <1>5
      <4> QED BY <1>0, <1>1, <1>3, <3>1, <3>2, <4>1
    <3>3. CASE k > n
      BY <1>0, <1>1, <1>3, <2>1, <3>1, <3>3
    <3> QED BY <3>2, <3>3
  <2>2. CASE k >= p
    BY <1>3, <2>2
  <2> QED BY <2>1, <2>2
<1>6. PartialSums(g, e, m)
  BY <1>2, <1>3, <1>4, <1>5 DEF PartialSums
<1>7. \A i \in 0..m : g[i] = (IF i <= n THEN f[i]
                              ELSE IF i < p THEN f[n] ELSE f[n] + e[p])
  OBVIOUS
<1> HIDE DEF g
<1> QED BY <1>3, <1>6, <1>7

(* The sum grows by the one new term.                                      *)
LEMMA GrownSum ==
    ASSUME NEW n \in Nat, NEW m \in Nat, NEW d, NEW e, NEW p \in (n + 1)..m,
           Grows(d, n, e, m, p),
           NEW total, SumsTo(d, n, total)
    PROVE  SumsTo(e, m, total + e[p])
<1>1. PICK f : PartialSums(f, d, n) /\ f[n] = total
  BY DEF SumsTo
<1>2. \E g : PartialSums(g, e, m) /\ g[m] = f[n] + e[p]
  BY <1>1, GrownPartialSums
<1> QED BY <1>1, <1>2 DEF SumsTo

(* ... and none of its partial sums becomes negative.                      *)
LEMMA GrownNeverNegative ==
    ASSUME NEW n \in Nat, NEW m \in Nat, NEW d, NEW e, NEW p \in (n + 1)..m,
           Grows(d, n, e, m, p),
           NEW total, NeverNegative(d, n, total), total + e[p] >= 0
    PROVE  NeverNegative(e, m, total + e[p])
<1>1. PICK f : PartialSums(f, d, n) /\ f[n] = total /\ \A i \in 0..n : f[i] >= 0
  BY DEF NeverNegative
<1>2. PICK g : /\ PartialSums(g, e, m)
               /\ g[m] = f[n] + e[p]
               /\ \A i \in 0..m : g[i] = (IF i <= n THEN f[i]
                                          ELSE IF i < p THEN f[n] ELSE f[n] + e[p])
  BY <1>1, GrownPartialSums
<1>3. \A i \in 0..m : g[i] >= 0
  <2>1. f[n] >= 0 /\ f[n] + e[p] >= 0
    BY <1>1
  <2> QED BY <1>1, <1>2, <2>1
<1> QED BY <1>1, <1>2, <1>3 DEF NeverNegative

(* Dropping the first term.                                                *)
LEMMA ShortenedPartialSums ==
    ASSUME NEW n \in Nat \ {0}, NEW d, NEW e, Shortens(d, n, e),
           NEW f, PartialSums(f, d, n)
    PROVE  \E g : /\ PartialSums(g, e, n - 1)
                  /\ g[n - 1] = f[n] - d[1]
                  /\ \A i \in 0..(n - 1) : g[i] = f[i + 1] - d[1]
<1> DEFINE g == [i \in 0..(n - 1) |-> f[i + 1] - d[1]]
<1>0. d[1] \in Int /\ \A i \in 1..(n - 1) : e[i] = d[i + 1]
  BY DEF Shortens
<1>1. /\ f \in [0..n -> Int] /\ f[0] = 0
      /\ \A i \in 1..n : d[i] \in Int /\ f[i] = f[i - 1] + d[i]
      /\ \A k \in 0..n : (\A i \in (k + 1)..n : d[i] = 0) => f[k] = f[n]
  BY DEF PartialSums
<1>2. g \in [0..(n - 1) -> Int] /\ g[n - 1] = f[n] - d[1]
  BY <1>0, <1>1
<1>3. g[0] = 0
  <2>1. 1 \in 1..n /\ 1 - 1 = 0 /\ 0 + 1 = 1 /\ 0 \in 0..(n - 1)
    OBVIOUS
  <2>2. f[1] = f[0] + d[1]
    BY <1>0, <1>1, <2>1
  <2> QED BY <1>0, <1>1, <2>1, <2>2
<1>4. ASSUME NEW i \in 1..(n - 1) PROVE e[i] \in Int /\ g[i] = g[i - 1] + e[i]
  <2>1. i + 1 \in 1..n /\ i \in 0..n /\ (i + 1) - 1 = i /\ (i - 1) + 1 = i /\ i - 1 \in 0..(n - 1)
    OBVIOUS
  <2>2. f[i + 1] = f[i] + d[i + 1] /\ f[i] \in Int /\ f[i + 1] \in Int
    BY <1>1, <2>1
  <2>3. d[i + 1] \in Int /\ e[i] = d[i + 1]
    BY <1>0, <2>2, <1>1
  <2>4. g[i] = f[i + 1] - d[1] /\ g[i - 1] = f[i] - d[1]
    BY <2>1
  <2> HIDE DEF g
  <2> QED BY <1>0, <2>2, <2>3, <2>4
<1>5. ASSUME NEW k \in 0..(n - 1), \A i \in (k + 1)..(n - 1) : e[i] = 0
      PROVE  g[k] = g[n - 1]
  <2>1. ASSUME NEW i \in (k + 1 + 1)..n PROVE d[i] = 0
    <3>1. i - 1 \in (k + 1)..(n - 1) /\ i - 1 \in 1..(n - 1) /\ (i - 1) + 1 = i
      BY <2>1
    <3> QED BY <1>0, <1>5, <3>1
  <2>2. f[k + 1] = f[n]
    BY <1>0, <1>1, <2>1
  <2> QED BY <1>2, <2>2
<1>6. PartialSums(g, e, n - 1)
  BY <1>2, <1>3, <1>4, <1>5 DEF PartialSums
<1>7. \A i \in 0..(n - 1) : g[i] = f[i + 1] - d[1]
  OBVIOUS
<1> HIDE DEF g
<1> QED BY <1>2, <1>6, <1>7

(* The sum loses its first term.                                           *)
LEMMA ShortenedSum ==
    ASSUME NEW n \in Nat \ {0}, NEW d, NEW e, Shortens(d, n, e),
           NEW total, SumsTo(d, n, total)
    PROVE  SumsTo(e, n - 1, total - d[1])
<1>1. PICK f : PartialSums(f, d, n) /\ f[n] = total
  BY DEF SumsTo
<1>2. \E g : PartialSums(g, e, n - 1) /\ g[n - 1] = f[n] - d[1]
  BY <1>1, ShortenedPartialSums
<1> QED BY <1>1, <1>2 DEF SumsTo

(* The first term of such a sum is not negative; a zero can be dropped.    *)
LEMMA ShortenedNeverNegative ==
    ASSUME NEW n \in Nat \ {0}, NEW d, NEW e, Shortens(d, n, e),
           NEW total, NeverNegative(d, n, total)
    PROVE  /\ d[1] >= 0
           /\ d[1] = 0 => NeverNegative(e, n - 1, total)
<1>1. PICK f : PartialSums(f, d, n) /\ f[n] = total /\ \A i \in 0..n : f[i] >= 0
  BY DEF NeverNegative
<1>0. d[1] \in Int
  BY DEF Shortens
<1>2. d[1] >= 0
  <2>1. 1 \in 1..n /\ 1 \in 0..n /\ 1 - 1 = 0
    OBVIOUS
  <2>2. f[1] = f[0] + d[1] /\ f[0] = 0 /\ f[1] >= 0
    BY <1>1, <2>1 DEF PartialSums
  <2> QED BY <1>0, <2>2
<1>3. ASSUME d[1] = 0 PROVE NeverNegative(e, n - 1, total)
  <2>1. PICK g : /\ PartialSums(g, e, n - 1)
                 /\ g[n - 1] = f[n] - d[1]
                 /\ \A i \in 0..(n - 1) : g[i] = f[i + 1] - d[1]
    BY <1>1, ShortenedPartialSums
  <2>2. \A i \in 0..n : f[i] \in Int
    BY <1>1 DEF PartialSums
  <2>3. \A i \in 0..(n - 1) : g[i] >= 0
    <3>1. \A i \in 0..(n - 1) : i + 1 \in 0..n
      OBVIOUS
    <3> QED BY <1>1, <1>3, <2>1, <2>2, <3>1
  <2>4. g[n - 1] = total
    BY <1>1, <1>3, <2>1, <2>2
  <2> QED BY <2>1, <2>3, <2>4 DEF NeverNegative
<1> QED BY <1>2, <1>3

------------------------------------------------------------------------------
(* The invariant.                                                          *)

(* An account sits in one slot.                                            *)
Alone ==
    \A s, t \in Slots : account[s] # Nobody /\ account[s] = account[t] => s = t

(* A pack names one SELECT.                                                *)
SamePack(q, r) == q.op = "select" /\ r.op = "select" /\ q.pack = r.pack
PacksDiffer ==
    /\ \A i, j \in 1..Len(queue) : SamePack(queue[i], queue[j]) => i = j
    /\ \A i, j \in 1..Len(results) :
          SamePack(results[i].request, results[j].request) => i = j
    /\ \A i \in 1..Len(results), j \in 1..Len(queue) :
          ~SamePack(results[i].request, queue[j])

(* A credit or a placement that went through left a row behind.            *)
WentThrough(r) ==
    \/ r.request.op = "credit" /\ r.ok
    \/ r.request.op = "escrow" /\ r.value = 1
RowsExist ==
    \A i \in 1..Len(results) :
        WentThrough(results[i]) => balance[results[i].request.account] # NoRow

(* A placement the client now in slot s asked for, and one that another    *)
(* visit of its account left in the queue.                                 *)
SentBy(req, s) == req.op = "escrow" /\ req.slot = s /\ req.session = session[s]
Stray(req, s) == req.op = "escrow" /\ req.account = account[s] /\ ~SentBy(req, s)
Moves(req, s) == req.op = "upsert" /\ req.account = account[s]

(* What may not be queued behind the SELECT of slot s: what would move the *)
(* row and not the cache, or has moved the cache without marking it.       *)
Late(req, s) == Stray(req, s) \/ (~mutated[s] /\ Moves(req, s))

OwnPlacements(s) == \A r \in InFlight : SentBy(r, s) => r.account = account[s]

NoStrays(s) == loaded[s] \/ load[s] = Null => \A j \in 1..Len(queue) : ~Stray(queue[j], s)

NothingLate(s) ==
    /\ \A k \in 1..Len(results) : OwnedBy(s, results[k].request) =>
          \A j \in 1..Len(queue) : ~Late(queue[j], s)
    /\ \A k \in 1..Len(queue) : OwnedBy(s, queue[k]) =>
          \A j \in 1..Len(queue) : j > k => ~Late(queue[j], s)

(* What a result still does to the cache of slot s, and a queued request   *)
(* to the row of its account.                                              *)
Due(r, s) ==
    IF r.request.op = "credit" /\ r.ok /\ r.request.account = account[s]
    THEN r.request.amount
    ELSE IF SentBy(r.request, s) /\ r.value = 1 THEN -r.request.amount ELSE 0
Dues(s, k) == [i \in 1..Len(results) |-> IF i > k THEN Due(results[i], s) ELSE 0]
Moved(s) == [i \in 1..Len(queue) |-> IF Moves(queue[i], s) THEN queue[i].amount ELSE 0]

DueIs(s, k, x) == SumsTo(Dues(s, k), Len(results), x)
MovedIs(s, y) == SumsTo(Moved(s), Len(queue), y)
MovedStaysUp(s, y) == NeverNegative(Moved(s), Len(queue), y)

(* The answer to an unmarked SELECT, with the results behind it, is the    *)
(* row: publishing it loses nothing and counts nothing twice.              *)
AnswersAdd(s) ==
    ~mutated[s] =>
        \A k \in 1..Len(results) :
            OwnedBy(s, results[k].request) /\ results[k].ok /\ results[k].value >= 0 =>
                /\ Fetched(balance[account[s]]) >= 0
                /\ \E x \in Int : /\ DueIs(s, k, x)
                                  /\ results[k].value + x = Fetched(balance[account[s]])

(* A loaded cache, with the results to come, is the row with the queue.    *)
CacheAdds(s) ==
    loaded[s] /\ drift[s] \subseteq {"gap"} =>
        \E x, y \in Int :
            /\ DueIs(s, 0, x) /\ MovedIs(s, y)
            /\ points[s] + x <= Fetched(balance[account[s]]) + y
            /\ drift[s] = {} =>
                  /\ points[s] + x = Fetched(balance[account[s]]) + y
                  /\ Fetched(balance[account[s]]) >= 0
                  /\ balance[account[s]] = NoRow => MovedStaysUp(s, y)

Booked(s) ==
    account[s] # Nobody =>
        /\ OwnPlacements(s)
        /\ NoStrays(s)
        /\ NothingLate(s)
        /\ AnswersAdd(s)
        /\ CacheAdds(s)

LedgerInv == Alone /\ PacksDiffer /\ RowsExist /\ \A s \in Slots : Booked(s)
Known == TypeOK /\ Seated /\ LoadIsOwned /\ LedgerInv

------------------------------------------------------------------------------
(* Sequences.                                                              *)

(* Where the elements of a longer or a shorter queue are.                  *)
LEMMA AppendAt ==
    ASSUME NEW S, NEW q \in Seq(S), NEW x \in S, NEW r, r = Append(q, x)
    PROVE  /\ Len(q) \in Nat /\ Len(r) = Len(q) + 1 /\ r[Len(q) + 1] = x
           /\ \A i \in 1..Len(q) : r[i] = q[i]
BY AppendProperties, LenProperties

(* The tail, by position.                                                  *)
LEMMA TailAt ==
    ASSUME NEW S, NEW q \in Seq(S), q # << >>, NEW r, r = Tail(q)
    PROVE  /\ Len(q) \in Nat \ {0} /\ Len(r) = Len(q) - 1 /\ Head(q) = q[1]
           /\ \A i \in 1..Len(r) : r[i] = q[i + 1]
<1>1. Len(q) \in Nat \ {0} /\ Head(q) = q[1]
  BY LenProperties
<1> QED BY <1>1, HeadTailProperties

(* Who is in flight, by position.                                          *)
LEMMA InFlightAt ==
    ASSUME TypeOK
    PROVE  /\ Len(queue) \in Nat /\ Len(results) \in Nat
           /\ \A i \in 1..Len(queue) : queue[i] \in InFlight /\ queue[i] \in Requests
           /\ \A i \in 1..Len(results) :
                 /\ results[i].request \in InFlight /\ results[i].request \in Requests
                 /\ results[i] \in Results
           /\ \A r \in InFlight : \/ \E i \in 1..Len(queue) : r = queue[i]
                                  \/ \E i \in 1..Len(results) : r = results[i].request
<1>1. queue \in Seq(Requests) /\ results \in Seq(Results)
  BY DEF TypeOK
<1>2. /\ Len(queue) \in Nat /\ DOMAIN queue = 1..Len(queue)
      /\ \A i \in 1..Len(queue) : queue[i] \in Requests
  BY <1>1, LenProperties
<1>3. /\ Len(results) \in Nat /\ DOMAIN results = 1..Len(results)
      /\ \A i \in 1..Len(results) : results[i] \in Results
  BY <1>1, LenProperties
<1>4. \A i \in 1..Len(results) : results[i].request \in Requests
  BY <1>3 DEF Results
<1> QED BY <1>2, <1>3, <1>4 DEF InFlight, Elements

(* What a result is due and what a request moves are integers.             *)
LEMMA DueType ==
    ASSUME NEW r \in Results, NEW s \in Slots PROVE Due(r, s) \in Int
<1>1. r.request \in Requests
  BY DEF Results
<1>2. r.request.op = "credit" => r.request.amount \in Int
  BY <1>1, RequestKind DEF Credits
<1>3. r.request.op = "escrow" => r.request.amount \in Int
  BY <1>1, RequestKind DEF Escrows
<1> QED BY <1>2, <1>3 DEF Due, SentBy

(* An upsert moves an integer.                                             *)
LEMMA MovedType ==
    ASSUME NEW r \in Requests, r.op = "upsert" PROVE r.amount \in Int
BY RequestKind DEF Upserts

------------------------------------------------------------------------------
(* How the sums follow the results and the queue.                          *)

(* While the results stand, so do the dues.                                *)
LEMMA DuesSame ==
    ASSUME NEW s \in Slots, account'[s] = account[s], session'[s] = session[s],
           results' = results, NEW k \in Nat, NEW x, DueIs(s, k, x)
    PROVE  DueIs(s, k, x)'
<1>1. Dues(s, k)' = Dues(s, k)
  BY DEF Dues, Due, SentBy
<1> QED BY <1>1 DEF DueIs

(* The oldest result takes its due with it.                                *)
LEMMA DuesPopped ==
    ASSUME TypeOK, NEW s \in Slots,
           account'[s] = account[s], session'[s] = session[s],
           results # << >>, results' = Tail(results),
           NEW k \in Nat, NEW x, DueIs(s, k, x),
           NEW z, z = Due(Head(results), s)
    PROVE  /\ k = 0 => DueIs(s, 0, x - z)'
           /\ k > 0 => DueIs(s, k - 1, x)'
<1>1. results \in Seq(Results) /\ Head(results) \in Results
  BY NextResult DEF TypeOK
<1>2. /\ Len(results) \in Nat \ {0} /\ Len(results') = Len(results) - 1
      /\ Head(results) = results[1]
      /\ \A i \in 1..Len(results') : results'[i] = results[i + 1]
  BY <1>1, TailAt
<1>3. z \in Int
  BY <1>1, DueType
<1> DEFINE n == Len(results)
<1>4. \A i \in 1..(n - 1) : Due(results[i], s)' = Due(results[i + 1], s)
  BY <1>2 DEF Due, SentBy
<1>5. ASSUME k = 0 PROVE DueIs(s, 0, x - z)'
  <2>1. Dues(s, 0)[1] = z
    BY <1>2 DEF Dues
  <2>2. \A i \in 1..(n - 1) : Dues(s, 0)'[i] = Dues(s, 0)[i + 1]
    BY <1>2, <1>4 DEF Dues
  <2>3. Shortens(Dues(s, 0), n, Dues(s, 0)')
    BY <1>3, <2>1, <2>2 DEF Shortens
  <2>4. SumsTo(Dues(s, 0), n, x)
    BY <1>5 DEF DueIs
  <2>5. SumsTo(Dues(s, 0)', n - 1, x - Dues(s, 0)[1])
    BY <1>2, <2>3, <2>4, ShortenedSum
  <2> QED BY <1>2, <2>1, <2>5 DEF DueIs
<1>6. ASSUME k > 0 PROVE DueIs(s, k - 1, x)'
  <2>1. Dues(s, k)[1] = 0
    BY <1>2, <1>6 DEF Dues
  <2>2. \A i \in 1..(n - 1) : Dues(s, k - 1)'[i] = Dues(s, k)[i + 1]
    BY <1>2, <1>4 DEF Dues
  <2>3. Shortens(Dues(s, k), n, Dues(s, k - 1)')
    BY <2>1, <2>2 DEF Shortens
  <2>4. SumsTo(Dues(s, k), n, x) /\ x \in Int
    BY <1>2, SumIsInt DEF DueIs
  <2>5. SumsTo(Dues(s, k - 1)', n - 1, x - Dues(s, k)[1])
    BY <1>2, <2>3, <2>4, ShortenedSum
  <2>6. x - Dues(s, k)[1] = x
    BY <2>1, <2>4
  <2> QED BY <1>2, <2>5, <2>6 DEF DueIs
<1> QED BY <1>5, <1>6

(* A new result adds its due.                                              *)
LEMMA DuesAppended ==
    ASSUME TypeOK, NEW s \in Slots,
           account'[s] = account[s], session'[s] = session[s],
           NEW r \in Results, results' = Append(results, r),
           NEW k \in Nat, NEW x, DueIs(s, k, x), k <= Len(results),
           NEW z, z = Due(r, s)
    PROVE  DueIs(s, k, x + z)'
<1>1. results \in Seq(Results)
  BY DEF TypeOK
<1>2. /\ Len(results) \in Nat /\ Len(results') = Len(results) + 1
      /\ results'[Len(results) + 1] = r
      /\ \A i \in 1..Len(results) : results'[i] = results[i]
  BY <1>1, AppendAt
<1>3. z \in Int
  BY DueType
<1> DEFINE n == Len(results)
<1>4. \A i \in 1..n : Due(results[i], s)' = Due(results[i], s)
  BY <1>2 DEF Due, SentBy
<1>5. \A i \in 1..n : Dues(s, k)'[i] = Dues(s, k)[i]
  BY <1>2, <1>4 DEF Dues
<1>6. Dues(s, k)'[n + 1] = z
  <2>1. Due(r, s)' = Due(r, s)
    BY DEF Due, SentBy
  <2>2. n + 1 \in 1..Len(results') /\ n + 1 > k
    BY <1>2
  <2> QED BY <1>2, <2>1, <2>2 DEF Dues
<1>7. Grows(Dues(s, k), n, Dues(s, k)', n + 1, n + 1)
  BY <1>3, <1>5, <1>6 DEF Grows
<1>8. SumsTo(Dues(s, k)', n + 1, x + Dues(s, k)'[n + 1])
  <2>1. SumsTo(Dues(s, k), n, x)
    BY DEF DueIs
  <2>2. n + 1 \in (n + 1)..(n + 1) /\ n + 1 \in Nat
    BY <1>2
  <2> QED BY <1>2, <1>7, <2>1, <2>2, GrownSum
<1> QED BY <1>2, <1>6, <1>8 DEF DueIs

(* Nothing is due behind the last result.                                  *)
LEMMA NothingDue ==
    ASSUME NEW s, NEW k \in Nat, Len(results) \in Nat, k >= Len(results)
    PROVE  DueIs(s, k, 0)
<1>1. \A i \in 1..Len(results) : Dues(s, k)[i] = 0
  BY DEF Dues
<1> QED BY <1>1, ZerosSum DEF DueIs

(* While the queue stands, so does what it moves.                          *)
LEMMA MovedSame ==
    ASSUME NEW s \in Slots, account'[s] = account[s], queue' = queue, NEW y
    PROVE  /\ MovedIs(s, y) => MovedIs(s, y)'
           /\ MovedStaysUp(s, y) => MovedStaysUp(s, y)'
<1>1. Moved(s)' = Moved(s)
  BY DEF Moved, Moves
<1> QED BY <1>1 DEF MovedIs, MovedStaysUp

(* The queue grows by requests of which one at most moves the row.         *)
LEMMA MovedGrown ==
    ASSUME NEW s \in Slots, account'[s] = account[s],
           Len(queue) \in Nat, Len(queue') \in Nat,
           \A i \in 1..Len(queue) : queue'[i] = queue[i],
           NEW p \in (Len(queue) + 1)..Len(queue'),
           \A i \in (Len(queue) + 1)..Len(queue') : i # p => ~Moves(queue'[i], s),
           NEW z \in Int, z = (IF Moves(queue'[p], s) THEN queue'[p].amount ELSE 0),
           NEW y \in Int
    PROVE  /\ MovedIs(s, y) => MovedIs(s, y + z)'
           /\ MovedStaysUp(s, y) /\ y + z >= 0 => MovedStaysUp(s, y + z)'
<1> DEFINE n == Len(queue)
           m == Len(queue')
           d == Moved(s)
           e == Moved(s)'
<1>1. \A i \in 1..m : e[i] = (IF Moves(queue'[i], s) THEN queue'[i].amount ELSE 0)
  BY DEF Moved, Moves
<1>2. \A i \in 1..n : d[i] = (IF Moves(queue[i], s) THEN queue[i].amount ELSE 0)
  BY DEF Moved
<1>3. p \in 1..m /\ \A i \in (n + 1)..m : i \in 1..m
  OBVIOUS
<1>4. \A i \in 1..n : i \in 1..m
  OBVIOUS
<1> HIDE DEF d, e
<1>5. e[p] = z /\ \A i \in (n + 1)..m : i # p => e[i] = 0
  BY <1>1, <1>3
<1>6. \A i \in 1..n : e[i] = d[i]
  BY <1>1, <1>2, <1>4
<1>7. Grows(d, n, e, m, p)
  BY <1>5, <1>6 DEF Grows
<1>8. ASSUME SumsTo(d, n, y) PROVE SumsTo(e, m, y + z)
  <2>1. SumsTo(e, m, y + e[p])
    BY <1>7, <1>8, GrownSum
  <2> QED BY <1>5, <2>1
<1>9. ASSUME NeverNegative(d, n, y), y + z >= 0 PROVE NeverNegative(e, m, y + z)
  <2>1. y + e[p] >= 0
    BY <1>5, <1>9
  <2>2. NeverNegative(e, m, y + e[p])
    BY <1>7, <1>9, <2>1, GrownNeverNegative
  <2> QED BY <1>5, <2>2
<1> QED BY <1>8, <1>9 DEF MovedIs, MovedStaysUp, d, e

(* The head of the queue takes its move with it.                           *)
LEMMA MovedPopped ==
    ASSUME TypeOK, NEW s \in Slots, account'[s] = account[s],
           queue # << >>, queue' = Tail(queue),
           NEW z \in Int, z = (IF Moves(Head(queue), s) THEN Head(queue).amount ELSE 0),
           NEW y \in Int
    PROVE  /\ MovedIs(s, y) => MovedIs(s, y - z)'
           /\ MovedStaysUp(s, y) => z >= 0 /\ (z = 0 => MovedStaysUp(s, y)')
<1>1. queue \in Seq(Requests)
  BY DEF TypeOK
<1>2. /\ Len(queue) \in Nat \ {0} /\ Len(queue') = Len(queue) - 1
      /\ Head(queue) = queue[1]
      /\ \A i \in 1..Len(queue') : queue'[i] = queue[i + 1]
  BY <1>1, TailAt
<1> DEFINE n == Len(queue)
           d == Moved(s)
           e == Moved(s)'
<1>3. d[1] = z
  BY <1>2 DEF Moved
<1>4. \A i \in 1..(n - 1) : e[i] = d[i + 1]
  BY <1>2 DEF Moved, Moves
<1> HIDE DEF d, e
<1>5. Shortens(d, n, e)
  BY <1>3, <1>4 DEF Shortens
<1>6. ASSUME SumsTo(d, n, y) PROVE SumsTo(e, n - 1, y - z)
  <2>1. SumsTo(e, n - 1, y - d[1])
    BY <1>2, <1>5, <1>6, ShortenedSum
  <2> QED BY <1>3, <2>1
<1>7. ASSUME NeverNegative(d, n, y)
      PROVE  z >= 0 /\ (z = 0 => NeverNegative(e, n - 1, y))
  <2>1. d[1] >= 0 /\ (d[1] = 0 => NeverNegative(e, n - 1, y))
    BY <1>2, <1>5, <1>7, ShortenedNeverNegative
  <2> QED BY <1>3, <2>1
<1> QED BY <1>2, <1>6, <1>7 DEF MovedIs, MovedStaysUp, d, e

------------------------------------------------------------------------------
(* Steps of the main thread, seen from one slot.                           *)

SameSeat(t) == account'[t] = account[t] /\ session'[t] = session[t]

(* The results lose at most the one being delivered, which is due z.       *)
Delivers(t, z) ==
    \/ results' = results /\ z = 0
    \/ results # << >> /\ results' = Tail(results) /\ z = Due(Head(results), t)

(* The queue gains at most requests of which none strays from the account  *)
(* of t and of which only the one at p, if any, moves its row, by w.       *)
Unconcerned(r, t) == ~Stray(r, t) /\ (SentBy(r, t) => r.account = account[t])
GrowsAt(t, p, w) ==
    /\ \A i \in 1..Len(queue) : queue'[i] = queue[i]
    /\ p \in (Len(queue) + 1)..Len(queue')
    /\ \A i \in (Len(queue) + 1)..Len(queue') :
          Unconcerned(queue'[i], t) /\ (i # p => ~Moves(queue'[i], t))
    /\ w = (IF Moves(queue'[p], t) THEN queue'[p].amount ELSE 0)
Queues(t, w) ==
    \/ queue' = queue /\ w = 0
    \/ \E p \in Nat : GrowsAt(t, p, w)

(* What is delivered to and queued for the slot is what its cache gains.   *)
Settles(t, z, w) ==
    loaded[t] /\ drift'[t] \subseteq {"gap"} =>
        /\ drift[t] \subseteq {"gap"}
        /\ points'[t] <= points[t] + z + w
        /\ drift'[t] = {} => drift[t] = {} /\ points'[t] = points[t] + z + w

(* An account without a row has nothing due.                               *)
LEMMA NoRowNoDue ==
    ASSUME TypeOK, RowsExist, NEW t \in Slots, OwnPlacements(t),
           balance[account[t]] = NoRow, NEW i \in 1..Len(results)
    PROVE  Due(results[i], t) = 0
<1>1. results[i].request \in InFlight
  BY InFlightAt
<1>2. ~(results[i].request.account = account[t] /\ WentThrough(results[i]))
  BY DEF RowsExist
<1>3. SentBy(results[i].request, t) => results[i].request.account = account[t]
  BY <1>1 DEF OwnPlacements
<1> QED BY <1>2, <1>3 DEF Due, WentThrough, SentBy

(* ... so that all the dues of a missing row are zero.                     *)
LEMMA NoRowNoDues ==
    ASSUME TypeOK, RowsExist, NEW t \in Slots, OwnPlacements(t),
           balance[account[t]] = NoRow, NEW x, DueIs(t, 0, x)
    PROVE  x = 0
<1>1. \A i \in 1..Len(results) : Due(results[i], t) = 0
  BY NoRowNoDue
<1>2. \A i \in 1..Len(results) : Dues(t, 0)[i] = 0
  BY <1>1 DEF Dues
<1>3. Len(results) \in Nat
  BY InFlightAt
<1> QED BY <1>2, <1>3, ZerosSumOnly DEF DueIs

(* The dues and the moves after such a step.                               *)
LEMMA DeliversDues ==
    ASSUME TypeOK, NEW t \in Slots, SameSeat(t), NEW z, Delivers(t, z),
           NEW x \in Int, DueIs(t, 0, x)
    PROVE  z \in Int /\ x - z \in Int /\ DueIs(t, 0, x - z)'
<1>1. CASE results' = results /\ z = 0
  <2>1. DueIs(t, 0, x)'
    BY <1>1, DuesSame DEF SameSeat
  <2>2. x - z = x
    BY <1>1
  <2> QED BY <1>1, <2>1, <2>2
<1>2. CASE results # << >> /\ results' = Tail(results) /\ z = Due(Head(results), t)
  <2>1. z \in Int
    BY <1>2, NextResult, DueType
  <2>2. DueIs(t, 0, x - z)'
    BY <1>2, DuesPopped DEF SameSeat
  <2> QED BY <2>1, <2>2
<1> QED BY <1>1, <1>2 DEF Delivers

(* What the queue moves grows by what was queued.                          *)
LEMMA QueuesMoves ==
    ASSUME TypeOK, TypeOK', NEW t \in Slots, SameSeat(t), NEW w, Queues(t, w),
           NEW y \in Int
    PROVE  /\ w \in Int /\ y + w \in Int
           /\ MovedIs(t, y) => MovedIs(t, y + w)'
           /\ MovedStaysUp(t, y) /\ y + w >= 0 => MovedStaysUp(t, y + w)'
<1>1. CASE queue' = queue /\ w = 0
  <2>1. y + w = y
    BY <1>1
  <2> QED BY <1>1, <2>1, MovedSame DEF SameSeat
<1>2. ASSUME NEW p \in Nat, GrowsAt(t, p, w)
      PROVE  /\ w \in Int
             /\ MovedIs(t, y) => MovedIs(t, y + w)'
             /\ MovedStaysUp(t, y) /\ y + w >= 0 => MovedStaysUp(t, y + w)'
  <2>1. Len(queue) \in Nat /\ Len(queue') \in Nat
    BY LenProperties DEF TypeOK
  <2>2. \A i \in 1..Len(queue') : queue'[i] \in Requests
    BY LenProperties DEF TypeOK
  <2>3. p \in (Len(queue) + 1)..Len(queue') /\ p \in 1..Len(queue')
    BY <1>2, <2>1 DEF GrowsAt
  <2>4. w \in Int
    BY <1>2, <2>2, <2>3, MovedType DEF GrowsAt, Moves
  <2>5. /\ \A i \in 1..Len(queue) : queue'[i] = queue[i]
        /\ \A i \in (Len(queue) + 1)..Len(queue') : i # p => ~Moves(queue'[i], t)
        /\ w = (IF Moves(queue'[p], t) THEN queue'[p].amount ELSE 0)
    BY <1>2 DEF GrowsAt
  <2> QED BY <2>1, <2>3, <2>4, <2>5, MovedGrown DEF SameSeat
<1> QED BY <1>1, <1>2 DEF Queues

(* The cache still adds up.                                                *)
LEMMA CacheStillAdds ==
    ASSUME TypeOK, TypeOK', RowsExist, NEW t \in Slots, account[t] # Nobody,
           OwnPlacements(t), CacheAdds(t), SameSeat(t), balance' = balance,
           loaded'[t] => loaded[t],
           NEW z, NEW w, Delivers(t, z), Queues(t, w), Settles(t, z, w)
    PROVE  CacheAdds(t)'
<1> SUFFICES ASSUME loaded'[t], drift'[t] \subseteq {"gap"}
             PROVE  \E x, y \in Int :
                      /\ DueIs(t, 0, x)' /\ MovedIs(t, y)'
                      /\ points'[t] + x <= Fetched(balance[account[t]]) + y
                      /\ drift'[t] = {} =>
                           /\ points'[t] + x = Fetched(balance[account[t]]) + y
                           /\ Fetched(balance[account[t]]) >= 0
                           /\ balance[account[t]] = NoRow => MovedStaysUp(t, y)'
  BY DEF CacheAdds, SameSeat, Fetched
<1> DEFINE row == balance[account[t]]
<1>1. /\ drift[t] \subseteq {"gap"} /\ points'[t] <= points[t] + z + w
      /\ drift'[t] = {} => drift[t] = {} /\ points'[t] = points[t] + z + w
  BY DEF Settles
<1>2. PICK x \in Int, y \in Int :
            /\ DueIs(t, 0, x) /\ MovedIs(t, y)
            /\ points[t] + x <= Fetched(row) + y
            /\ drift[t] = {} =>
                  /\ points[t] + x = Fetched(row) + y
                  /\ Fetched(row) >= 0
                  /\ row = NoRow => MovedStaysUp(t, y)
  BY <1>1 DEF CacheAdds
<1>3. z \in Int /\ x - z \in Int /\ DueIs(t, 0, x - z)'
  BY <1>2, DeliversDues
<1>4. /\ w \in Int /\ y + w \in Int /\ MovedIs(t, y + w)'
      /\ MovedStaysUp(t, y) /\ y + w >= 0 => MovedStaysUp(t, y + w)'
  BY <1>2, QueuesMoves
<1>5. points[t] \in Int /\ points'[t] \in Nat /\ Fetched(row) \in Int
  <2>1. account[t] \in Accounts
    BY DEF TypeOK
  <2>2. row \in Int \union {NoRow}
    BY <2>1 DEF TypeOK
  <2>3. Fetched(row) \in Int
    BY <2>2, FetchedType
  <2>4. points[t] \in Int /\ points'[t] \in Nat
    BY DEF TypeOK
  <2> QED BY <2>3, <2>4
<1>6. row = NoRow => x = 0 /\ z = 0 /\ Fetched(row) = 0
  <2> SUFFICES ASSUME row = NoRow PROVE x = 0 /\ z = 0
    BY DEF Fetched
  <2>1. x = 0
    BY <1>2, NoRowNoDues
  <2>2. ASSUME results # << >> PROVE Due(Head(results), t) = 0
    <3>1. results \in Seq(Results)
      BY DEF TypeOK
    <3>2. Len(results) \in Nat \ {0} /\ Head(results) = results[1]
      BY <2>2, <3>1, TailAt
    <3>3. 1 \in 1..Len(results)
      BY <3>2
    <3> QED BY <3>2, <3>3, NoRowNoDue
  <2> QED BY <2>1, <2>2 DEF Delivers
<1> HIDE DEF row
<1>7. points'[t] + (x - z) <= Fetched(row) + (y + w)
  BY <1>1, <1>2, <1>3, <1>4, <1>5
<1>8. ASSUME drift'[t] = {}
      PROVE  /\ points'[t] + (x - z) = Fetched(row) + (y + w)
             /\ Fetched(row) >= 0
             /\ row = NoRow => MovedStaysUp(t, y + w)'
  <2>1. points'[t] + (x - z) = Fetched(row) + (y + w) /\ Fetched(row) >= 0
    BY <1>1, <1>2, <1>3, <1>4, <1>5, <1>8
  <2>2. ASSUME row = NoRow PROVE MovedStaysUp(t, y + w)'
    <3>1. MovedStaysUp(t, y)
      BY <1>1, <1>2, <1>8, <2>2
    <3>2. y + w >= 0
      BY <1>2, <1>3, <1>4, <1>5, <1>6, <2>1, <2>2
    <3> QED BY <1>4, <3>1, <3>2
  <2> QED BY <2>1, <2>2
<1> QED BY <1>3, <1>4, <1>7, <1>8 DEF row

(* The results lose at most their head.                                    *)
ResultsKept ==
    results' = results \/ (results # << >> /\ results' = Tail(results))

(* Where what is in flight after such a step was before it.                *)
LEMMA QueuedBefore ==
    ASSUME TypeOK, TypeOK', NEW t \in Slots, NEW w, Queues(t, w)
    PROVE  /\ Len(queue) \in Nat /\ Len(queue') \in Nat /\ Len(queue) <= Len(queue')
           /\ \A i \in 1..Len(queue) : queue'[i] = queue[i]
           /\ \A i \in (Len(queue) + 1)..Len(queue') : Unconcerned(queue'[i], t)
<1>1. Len(queue) \in Nat /\ Len(queue') \in Nat
  BY LenProperties DEF TypeOK
<1>2. CASE queue' = queue
  BY <1>1, <1>2
<1>3. ASSUME NEW p \in Nat, GrowsAt(t, p, w)
      PROVE  /\ Len(queue) <= Len(queue')
             /\ \A i \in 1..Len(queue) : queue'[i] = queue[i]
             /\ \A i \in (Len(queue) + 1)..Len(queue') : Unconcerned(queue'[i], t)
  BY <1>1, <1>3 DEF GrowsAt
<1> QED BY <1>1, <1>2, <1>3 DEF Queues

(* A result after such a step stood at most one place further.             *)
LEMMA KeptBefore ==
    ASSUME TypeOK, ResultsKept
    PROVE  \E c \in {0, 1} :
              /\ Len(results) \in Nat /\ Len(results') \in Nat
              /\ Len(results') + c = Len(results)
              /\ c = 0 => results' = results
              /\ c = 1 => results # << >> /\ results' = Tail(results)
              /\ \A i \in 1..Len(results') : results'[i] = results[i + c]
<1>1. results \in Seq(Results)
  BY DEF TypeOK
<1>2. Len(results) \in Nat
  BY <1>1, LenProperties
<1>3. CASE results' = results
  <2>1. \A i \in 1..Len(results') : results'[i] = results[i + 0]
    BY <1>2, <1>3
  <2> QED BY <1>2, <1>3, <2>1
<1>4. CASE results # << >> /\ results' = Tail(results)
  <2>1. /\ Len(results) \in Nat \ {0} /\ Len(results') = Len(results) - 1
        /\ \A i \in 1..Len(results') : results'[i] = results[i + 1]
    BY <1>1, <1>4, TailAt
  <2>2. Len(results') \in Nat /\ Len(results') + 1 = Len(results)
    BY <2>1
  <2>3. Len(results') \in Nat
    BY <2>1
  <2> WITNESS 1 \in {0, 1}
  <2> QED BY <1>4, <2>1, <2>2, <2>3
<1> QED BY <1>3, <1>4 DEF ResultsKept

(* The same for a slot whose dues the step settles.                        *)
LEMMA DeliveredBefore ==
    ASSUME TypeOK, NEW t \in Slots, NEW z, Delivers(t, z)
    PROVE  \E c \in {0, 1} :
              /\ Len(results) \in Nat /\ Len(results') \in Nat
              /\ Len(results') + c = Len(results)
              /\ c = 0 => results' = results
              /\ c = 1 => results # << >> /\ results' = Tail(results)
              /\ \A i \in 1..Len(results') : results'[i] = results[i + c]
<1>1. ResultsKept
  BY DEF Delivers, ResultsKept
<1> QED BY <1>1, KeptBefore

(* What is in flight was so before, or does not concern the slot.          *)
LEMMA InFlightBefore ==
    ASSUME TypeOK, TypeOK', NEW t \in Slots, NEW z, NEW w, Delivers(t, z), Queues(t, w),
           NEW r \in InFlight'
    PROVE  r \in InFlight \/ Unconcerned(r, t)
<1>1. /\ DOMAIN queue' = 1..Len(queue') /\ DOMAIN queue = 1..Len(queue)
      /\ DOMAIN results' = 1..Len(results') /\ DOMAIN results = 1..Len(results)
  BY LenProperties DEF TypeOK
<1>2. \/ \E i \in 1..Len(queue') : r = queue'[i]
      \/ \E i \in 1..Len(results') : r = results'[i].request
  BY <1>1 DEF InFlight, Elements
<1>3. ASSUME NEW i \in 1..Len(queue'), r = queue'[i]
      PROVE  r \in InFlight \/ Unconcerned(r, t)
  <2>1. /\ Len(queue) \in Nat /\ Len(queue') \in Nat
        /\ \A j \in 1..Len(queue) : queue'[j] = queue[j]
        /\ \A j \in (Len(queue) + 1)..Len(queue') : Unconcerned(queue'[j], t)
    BY QueuedBefore
  <2>2. CASE i <= Len(queue)
    <3>1. i \in 1..Len(queue) /\ r = queue[i]
      BY <1>3, <2>1, <2>2
    <3> QED BY <1>1, <3>1 DEF InFlight, Elements
  <2>3. CASE i > Len(queue)
    <3>1. i \in (Len(queue) + 1)..Len(queue')
      BY <2>1, <2>3
    <3> QED BY <1>3, <2>1, <3>1
  <2> QED BY <2>1, <2>2, <2>3
<1>4. ASSUME NEW i \in 1..Len(results'), r = results'[i].request
      PROVE  r \in InFlight
  <2>1. Len(results) \in Nat /\ Len(results') \in Nat
    BY DeliveredBefore
  <2>2. PICK c \in {0, 1} : /\ Len(results') + c = Len(results)
                            /\ \A j \in 1..Len(results') : results'[j] = results[j + c]
    BY DeliveredBefore
  <2>3. i + c \in 1..Len(results) /\ r = results[i + c].request
    BY <1>4, <2>1, <2>2
  <2> QED BY <1>1, <2>3 DEF InFlight, Elements
<1> QED BY <1>2, <1>3, <1>4

(* Requests for one slot are told apart the same after the step.           *)
LEMMA SameNames ==
    ASSUME NEW t \in Slots, SameSeat(t), NEW r
    PROVE  /\ SentBy(r, t)' <=> SentBy(r, t)
           /\ Stray(r, t)' <=> Stray(r, t)
           /\ Moves(r, t)' <=> Moves(r, t)
           /\ load'[t] = load[t] => (OwnedBy(t, r)' <=> OwnedBy(t, r))
BY DEF SameSeat, SentBy, Stray, Moves, OwnedBy

(* A placement the client sent is still for its own account.               *)
LEMMA PlacementsStillOwn ==
    ASSUME TypeOK, TypeOK', NEW t \in Slots, OwnPlacements(t), SameSeat(t),
           NEW z, NEW w, Delivers(t, z), Queues(t, w)
    PROVE  OwnPlacements(t)'
<1> SUFFICES ASSUME NEW r \in InFlight', SentBy(r, t) PROVE r.account = account[t]
  BY DEF OwnPlacements, SameSeat, SentBy
<1>1. r \in InFlight \/ Unconcerned(r, t)
  BY InFlightBefore
<1> QED BY <1>1 DEF OwnPlacements, Unconcerned

(* Requests that do not concern a slot do not stray into its queue.        *)
LEMMA StillNoStrays ==
    ASSUME TypeOK, TypeOK', NEW t \in Slots, SameSeat(t), NEW w, Queues(t, w),
           \A j \in 1..Len(queue) : ~Stray(queue[j], t)
    PROVE  \A j \in 1..Len(queue') : ~Stray(queue[j], t)'
<1>1. /\ Len(queue) \in Nat /\ Len(queue') \in Nat
      /\ \A i \in 1..Len(queue) : queue'[i] = queue[i]
      /\ \A i \in (Len(queue) + 1)..Len(queue') : Unconcerned(queue'[i], t)
  BY QueuedBefore
<1> TAKE j \in 1..Len(queue')
<1>2. CASE j <= Len(queue)
  BY <1>1, <1>2 DEF Stray, SentBy, SameSeat
<1>3. CASE j > Len(queue)
  BY <1>1, <1>3 DEF Unconcerned, Stray, SentBy, SameSeat
<1> QED BY <1>1, <1>2, <1>3

(* The load of t gains no request, and a move of the row that the cache    *)
(* shares marks it.                                                        *)
Marks(t) ==
    /\ mutated[t] => mutated'[t]
    /\ \A i \in (Len(queue) + 1)..Len(queue') : ~OwnedBy(t, queue'[i])
    /\ \/ load[t] = Null \/ mutated'[t]
       \/ \A i \in (Len(queue) + 1)..Len(queue') : ~Moves(queue'[i], t)

(* Nothing gets queued late behind a SELECT.                               *)
LEMMA StillNothingLate ==
    ASSUME TypeOK, TypeOK', NEW t \in Slots, NothingLate(t), SameSeat(t),
           load'[t] = load[t], Marks(t),
           NEW z, NEW w, Delivers(t, z), Queues(t, w)
    PROVE  NothingLate(t)'
<1>1. /\ Len(queue) \in Nat /\ Len(queue') \in Nat
      /\ \A i \in 1..Len(queue) : queue'[i] = queue[i]
      /\ \A i \in (Len(queue) + 1)..Len(queue') : Unconcerned(queue'[i], t)
  BY QueuedBefore
<1>2. Len(results) \in Nat /\ Len(results') \in Nat
  BY DeliveredBefore
<1>3. PICK c \in {0, 1} : /\ Len(results') + c = Len(results)
                          /\ \A j \in 1..Len(results') : results'[j] = results[j + c]
  BY DeliveredBefore
<1>4. \A i \in 1..Len(queue') : queue'[i] \in Requests
  BY LenProperties DEF TypeOK
<1>5. \A i \in 1..Len(results) : results[i].request \in Requests
  BY InFlightAt
<1>6. ASSUME NEW r \in Requests, OwnedBy(t, r) PROVE load[t] # Null
  BY <1>6, RequestKind DEF OwnedBy, Selects
<1>7. ASSUME NEW j \in (Len(queue) + 1)..Len(queue'), load[t] # Null
      PROVE  ~Late(queue[j], t)'
  <2>1. Unconcerned(queue'[j], t) /\ (mutated'[t] \/ ~Moves(queue'[j], t))
    BY <1>1, <1>7 DEF Marks
  <2> QED BY <2>1 DEF Unconcerned, Late, Stray, SentBy, Moves, SameSeat
<1>8. ASSUME NEW j \in 1..Len(queue), ~Late(queue[j], t) PROVE ~Late(queue[j], t)'
  BY <1>1, <1>8 DEF Marks, Late, Stray, SentBy, Moves, SameSeat
<1>9. ASSUME NEW k \in 1..Len(results'), OwnedBy(t, results[k].request)',
             NEW j \in 1..Len(queue')
      PROVE  ~Late(queue[j], t)'
  <2>1. /\ k + c \in 1..Len(results) /\ results'[k] = results[k + c]
    BY <1>2, <1>3
  <2>2. OwnedBy(t, results[k + c].request)
    BY <1>9, <2>1 DEF OwnedBy
  <2>3. load[t] # Null
    BY <1>5, <1>6, <2>1, <2>2
  <2>4. \A i \in 1..Len(queue) : ~Late(queue[i], t)
    BY <2>1, <2>2 DEF NothingLate
  <2>5. j \in 1..Len(queue) \/ j \in (Len(queue) + 1)..Len(queue')
    BY <1>1
  <2> QED BY <1>7, <1>8, <2>3, <2>4, <2>5
<1>10. ASSUME NEW k \in 1..Len(queue'), OwnedBy(t, queue[k])',
              NEW j \in 1..Len(queue'), j > k
       PROVE  ~Late(queue[j], t)'
  <2>1. OwnedBy(t, queue'[k])
    BY <1>10 DEF OwnedBy
  <2>2. load[t] # Null
    BY <1>4, <1>6, <2>1
  <2>3. k \in 1..Len(queue)
    BY <1>1, <2>1 DEF Marks
  <2>4. OwnedBy(t, queue[k])
    BY <1>1, <2>1, <2>3
  <2>5. \A i \in 1..Len(queue) : i > k => ~Late(queue[i], t)
    BY <2>3, <2>4 DEF NothingLate
  <2>6. j \in 1..Len(queue) \/ j \in (Len(queue) + 1)..Len(queue')
    BY <1>1
  <2> QED BY <1>7, <1>8, <1>10, <2>2, <2>5, <2>6
<1> QED BY <1>9, <1>10 DEF NothingLate

(* The answers in flight stay those of the row.                            *)
LEMMA AnswersStillAdd ==
    ASSUME TypeOK, NEW t \in Slots, AnswersAdd(t), SameSeat(t),
           load'[t] = load[t], mutated[t] => mutated'[t], balance' = balance,
           NEW z, Delivers(t, z)
    PROVE  AnswersAdd(t)'
<1> SUFFICES ASSUME ~mutated'[t], NEW k \in 1..Len(results'),
                    OwnedBy(t, results'[k].request), results'[k].ok,
                    results'[k].value >= 0
             PROVE  /\ Fetched(balance[account[t]]) >= 0
                    /\ \E x \in Int :
                          /\ DueIs(t, k, x)'
                          /\ results'[k].value + x = Fetched(balance[account[t]])
  BY DEF AnswersAdd, SameSeat, OwnedBy, Fetched
<1>1. Len(results) \in Nat /\ Len(results') \in Nat
  BY DeliveredBefore
<1>2. PICK c \in {0, 1} : /\ Len(results') + c = Len(results)
                          /\ c = 0 => results' = results
                          /\ c = 1 => results # << >> /\ results' = Tail(results)
                          /\ \A j \in 1..Len(results') : results'[j] = results[j + c]
  BY DeliveredBefore
<1>3. k + c \in 1..Len(results) /\ results'[k] = results[k + c]
  BY <1>1, <1>2
<1>4. Fetched(balance[account[t]]) >= 0
  BY <1>3 DEF AnswersAdd
<1>5. PICK x \in Int : /\ DueIs(t, k + c, x)
                       /\ results'[k].value + x = Fetched(balance[account[t]])
  BY <1>3 DEF AnswersAdd
<1>6. DueIs(t, k, x)'
  <2>1. CASE c = 0
    <3>1. DueIs(t, k, x) /\ k \in Nat
      BY <1>1, <1>5, <2>1
    <3> QED BY <1>2, <2>1, <3>1, DuesSame DEF SameSeat
  <2>2. CASE c = 1
    <3>1. DueIs(t, k + 1, x) /\ k + 1 \in Nat /\ k + 1 > 0 /\ (k + 1) - 1 = k
      BY <1>1, <1>5, <2>2
    <3>2. PICK due : due = Due(Head(results), t)
      OBVIOUS
    <3>3. DueIs(t, (k + 1) - 1, x)'
      BY <1>2, <2>2, <3>1, <3>2, DuesPopped DEF SameSeat
    <3> QED BY <3>1, <3>3
  <2> QED BY <1>2, <2>1, <2>2
<1> QED BY <1>4, <1>5, <1>6

(* A slot to whose load nothing happens stays in order.                    *)
LEMMA SlotAdvances ==
    ASSUME TypeOK, TypeOK', RowsExist, NEW t \in Slots, Booked(t), SameSeat(t),
           load'[t] = load[t], loaded'[t] = loaded[t], balance' = balance, Marks(t),
           NEW z, NEW w, Delivers(t, z), Queues(t, w), Settles(t, z, w)
    PROVE  Booked(t)'
<1> SUFFICES ASSUME account[t] # Nobody
             PROVE  /\ OwnPlacements(t)' /\ NoStrays(t)' /\ NothingLate(t)'
                    /\ AnswersAdd(t)' /\ CacheAdds(t)'
  BY DEF Booked, SameSeat
<1>1. /\ OwnPlacements(t) /\ NoStrays(t) /\ NothingLate(t)
      /\ AnswersAdd(t) /\ CacheAdds(t)
  BY DEF Booked
<1>2. OwnPlacements(t)'
  BY <1>1, PlacementsStillOwn
<1>3. NoStrays(t)'
  <2> SUFFICES ASSUME loaded[t] \/ load[t] = Null
               PROVE  \A j \in 1..Len(queue') : ~Stray(queue[j], t)'
    BY DEF NoStrays
  <2>1. \A j \in 1..Len(queue) : ~Stray(queue[j], t)
    BY <1>1 DEF NoStrays
  <2> QED BY <2>1, StillNoStrays
<1>4. NothingLate(t)'
  BY <1>1, StillNothingLate
<1>5. AnswersAdd(t)'
  BY <1>1, AnswersStillAdd DEF Marks
<1>6. CacheAdds(t)'
  BY <1>1, CacheStillAdds
<1> QED BY <1>2, <1>3, <1>4, <1>5, <1>6

------------------------------------------------------------------------------
(* Loads.                                                                  *)

(* x is a SELECT whose pack no request in flight after the step bears.     *)
NewSelect(s, x) ==
    /\ x \in Requests /\ x.op = "select" /\ x.slot = s /\ x.pack = load'[s]
    /\ queue' = Append(queue, x)
    /\ \A i \in 1..Len(queue) : ~SamePack(queue[i], x)
    /\ \A i \in 1..Len(results') : ~SamePack(results'[i].request, x)

(* A pack that is fresh while the callback runs is fresh after it.         *)
LEMMA FreshIsNew ==
    ASSUME TypeOK, PacksDiffer, NEW s \in Slots, ResultsKept,
           NEW x \in Requests, x.op = "select", x.slot = s, x.pack = load'[s],
           queue' = Append(queue, x),
           \/ load'[s] \notin LivePacks(InFlight)
           \/ /\ results # << >> /\ results' = Tail(results)
              /\ Head(results).request.op = "select"
              /\ load'[s] \notin LivePacks(InFlight \ {Head(results).request})
    PROVE  NewSelect(s, x)
<1>1. PICK c \in {0, 1} :
          /\ Len(results) \in Nat /\ Len(results') \in Nat
          /\ Len(results') + c = Len(results)
          /\ c = 1 => results # << >> /\ results' = Tail(results)
          /\ \A j \in 1..Len(results') : results'[j] = results[j + c]
  BY KeptBefore
<1>2. /\ \A i \in 1..Len(queue) : queue[i] \in InFlight
      /\ \A i \in 1..Len(results) : results[i].request \in InFlight
  BY InFlightAt
<1>3. \A i \in 1..Len(results') :
          i + c \in 1..Len(results) /\ results'[i] = results[i + c]
  BY <1>1
<1>4. CASE load'[s] \notin LivePacks(InFlight)
  <2>1. \A r \in InFlight : ~SamePack(r, x)
    BY <1>4 DEF LivePacks, SamePack
  <2> QED BY <1>2, <1>3, <2>1 DEF NewSelect
<1>5. CASE /\ results # << >> /\ results' = Tail(results)
           /\ Head(results).request.op = "select"
           /\ load'[s] \notin LivePacks(InFlight \ {Head(results).request})
  <2> DEFINE h == Head(results).request
  <2>1. \A r \in InFlight : r # h => ~SamePack(r, x)
    BY <1>5 DEF LivePacks, SamePack
  <2>2. results \in Seq(Results)
    BY DEF TypeOK
  <2>3. /\ Len(results) \in Nat \ {0} /\ Len(results') = Len(results) - 1
        /\ h = results[1].request
    BY <1>5, <2>2, TailAt
  <2>4. 1 \in 1..Len(results) /\ c = 1
    BY <1>1, <2>3
  <2>5. ASSUME NEW i \in 1..Len(queue) PROVE queue[i] # h
    BY <1>5, <2>3, <2>4 DEF PacksDiffer, SamePack
  <2>6. ASSUME NEW i \in 1..Len(results') PROVE results'[i].request # h
    <3>1. i + 1 \in 1..Len(results) /\ results'[i] = results[i + 1] /\ i + 1 # 1
      BY <1>3, <2>4
    <3>2. ~SamePack(results[i + 1].request, results[1].request)
      BY <2>4, <3>1 DEF PacksDiffer
    <3> QED BY <1>5, <2>3, <3>1, <3>2 DEF SamePack
  <2> HIDE DEF h
  <2>7. \A i \in 1..Len(results') : results'[i].request \in InFlight
    BY <1>2, <1>3
  <2> QED BY <1>2, <2>1, <2>5, <2>6, <2>7 DEF NewSelect
<1> QED BY <1>4, <1>5

(* Every pack names one SELECT after the step.                             *)
LEMMA NewPacksDiffer ==
    ASSUME TypeOK, PacksDiffer, NEW s \in Slots, ResultsKept,
           NEW x, NewSelect(s, x)
    PROVE  PacksDiffer'
<1>1. PICK c \in {0, 1} :
          /\ Len(results) \in Nat /\ Len(results') \in Nat
          /\ Len(results') + c = Len(results)
          /\ \A j \in 1..Len(results') : results'[j] = results[j + c]
  BY KeptBefore
<1>2. queue \in Seq(Requests)
  BY DEF TypeOK
<1>3. /\ Len(queue) \in Nat /\ Len(queue') = Len(queue) + 1
      /\ queue'[Len(queue) + 1] = x
      /\ \A i \in 1..Len(queue) : queue'[i] = queue[i]
  BY <1>2, AppendAt DEF NewSelect
<1>4. \A i \in 1..Len(queue') : \/ i \in 1..Len(queue) /\ queue'[i] = queue[i]
                                \/ i = Len(queue) + 1 /\ queue'[i] = x
  BY <1>3
<1>5. /\ \A i \in 1..Len(queue) : ~SamePack(queue[i], x)
      /\ \A i \in 1..Len(results') : ~SamePack(results'[i].request, x)
  BY DEF NewSelect
<1>6. \A i \in 1..Len(results') :
          i + c \in 1..Len(results) /\ results'[i] = results[i + c]
  BY <1>1
<1>7. ASSUME NEW i \in 1..Len(queue'), NEW j \in 1..Len(queue'),
             SamePack(queue'[i], queue'[j])
      PROVE  i = j
  <2>1. CASE i \in 1..Len(queue) /\ j \in 1..Len(queue)
    BY <1>3, <1>7, <2>1 DEF PacksDiffer
  <2>2. CASE i = Len(queue) + 1 /\ j \in 1..Len(queue)
    BY <1>3, <1>5, <1>7, <2>2 DEF SamePack
  <2>3. CASE i \in 1..Len(queue) /\ j = Len(queue) + 1
    BY <1>3, <1>5, <1>7, <2>3
  <2> QED BY <1>4, <2>1, <2>2, <2>3
<1>8. ASSUME NEW i \in 1..Len(results'), NEW j \in 1..Len(results'),
             SamePack(results'[i].request, results'[j].request)
      PROVE  i = j
  <2>1. i + c = j + c
    BY <1>6, <1>8 DEF PacksDiffer
  <2> QED BY <2>1
<1>9. ASSUME NEW i \in 1..Len(results'), NEW j \in 1..Len(queue')
      PROVE  ~SamePack(results'[i].request, queue'[j])
  BY <1>4, <1>5, <1>6 DEF PacksDiffer
<1> QED BY <1>7, <1>8, <1>9 DEF PacksDiffer, SamePack

(* Nothing is queued behind a SELECT that has just left, and nothing       *)
(* answers it yet.                                                         *)
LEMMA NewLoad ==
    ASSUME TypeOK, TypeOK', NEW s \in Slots, NEW x, NewSelect(s, x)
    PROVE  load'[s] # Null /\ NothingLate(s)' /\ AnswersAdd(s)'
<1>1. load'[s] # Null
  BY RequestKind DEF NewSelect, Selects
<1>2. queue \in Seq(Requests)
  BY DEF TypeOK
<1>3. /\ Len(queue) \in Nat /\ Len(queue') = Len(queue) + 1
      /\ \A i \in 1..Len(queue) : queue'[i] = queue[i]
  BY <1>2, AppendAt DEF NewSelect
<1>4. ASSUME NEW k \in 1..Len(results') PROVE ~OwnedBy(s, results[k].request)'
  BY DEF NewSelect, SamePack, OwnedBy
<1>5. ASSUME NEW k \in 1..Len(queue'), OwnedBy(s, queue[k])' PROVE k = Len(queue')
  BY <1>3, <1>5 DEF NewSelect, SamePack, OwnedBy
<1> QED BY <1>1, <1>3, <1>4, <1>5 DEF NothingLate, AnswersAdd

(* A released load has neither requests nor answers.                       *)
LEMMA NoLoad ==
    ASSUME TypeOK', NEW s \in Slots, load'[s] = Null
    PROVE  NothingLate(s)' /\ AnswersAdd(s)'
<1>1. /\ \A k \in 1..Len(queue') : queue'[k] \in Requests
      /\ \A k \in 1..Len(results') : results'[k] \in Results
  BY LenProperties DEF TypeOK
<1>2. ASSUME NEW k \in 1..Len(queue') PROVE ~OwnedBy(s, queue[k])'
  <2>1. queue'[k].op = "select" => queue'[k].pack # Null
    BY <1>1, RequestKind DEF Selects
  <2> QED BY <2>1 DEF OwnedBy
<1>3. ASSUME NEW k \in 1..Len(results') PROVE ~OwnedBy(s, results[k].request)'
  <2>1. results'[k].request \in Requests
    BY <1>1 DEF Results
  <2>2. results'[k].request.op = "select" => results'[k].request.pack # Null
    BY <2>1, RequestKind DEF Selects
  <2> QED BY <2>2 DEF OwnedBy
<1> QED BY <1>2, <1>3 DEF NothingLate, AnswersAdd

(* Requests other than a SELECT take no pack.                              *)
LEMMA PacksStillDiffer ==
    ASSUME TypeOK, PacksDiffer, ResultsKept,
           Len(queue) <= Len(queue'), Len(queue') \in Nat,
           \A i \in 1..Len(queue) : queue'[i] = queue[i],
           \A i \in (Len(queue) + 1)..Len(queue') : queue'[i].op # "select"
    PROVE  PacksDiffer'
<1>1. PICK c \in {0, 1} :
          /\ Len(results) \in Nat /\ Len(results') \in Nat
          /\ Len(results') + c = Len(results)
          /\ \A j \in 1..Len(results') : results'[j] = results[j + c]
  BY KeptBefore
<1>2. Len(queue) \in Nat
  BY InFlightAt
<1>3. \A i \in 1..Len(queue') : \/ i \in 1..Len(queue) /\ queue'[i] = queue[i]
                                \/ queue'[i].op # "select"
  BY <1>2
<1>4. \A i \in 1..Len(results') :
          i + c \in 1..Len(results) /\ results'[i] = results[i + c]
  BY <1>1
<1>5. ASSUME NEW i \in 1..Len(queue'), NEW j \in 1..Len(queue'),
             SamePack(queue'[i], queue'[j])
      PROVE  i = j
  BY <1>3, <1>5 DEF PacksDiffer, SamePack
<1>6. ASSUME NEW i \in 1..Len(results'), NEW j \in 1..Len(results'),
             SamePack(results'[i].request, results'[j].request)
      PROVE  i = j
  <2>1. i + c = j + c
    BY <1>4, <1>6 DEF PacksDiffer
  <2> QED BY <2>1
<1>7. ASSUME NEW i \in 1..Len(results'), NEW j \in 1..Len(queue')
      PROVE  ~SamePack(results'[i].request, queue'[j])
  <2>1. CASE queue'[j].op # "select"
    BY <2>1 DEF SamePack
  <2>2. CASE j \in 1..Len(queue) /\ queue'[j] = queue[j]
    <3>1. i + c \in 1..Len(results) /\ results'[i] = results[i + c]
      BY <1>4
    <3>2. ~SamePack(results[i + c].request, queue[j])
      BY <2>2, <3>1 DEF PacksDiffer
    <3> QED BY <2>2, <3>1, <3>2
  <2> QED BY <1>3, <2>1, <2>2
<1> QED BY <1>5, <1>6, <1>7 DEF PacksDiffer, SamePack

(* Rows do not go away, and no result is added by the main thread.         *)
LEMMA RowsStillExist ==
    ASSUME TypeOK, RowsExist, ResultsKept, balance' = balance PROVE RowsExist'
<1>1. PICK c \in {0, 1} :
          /\ Len(results) \in Nat /\ Len(results') \in Nat
          /\ Len(results') + c = Len(results)
          /\ \A j \in 1..Len(results') : results'[j] = results[j + c]
  BY KeptBefore
<1>2. \A i \in 1..Len(results') :
          i + c \in 1..Len(results) /\ results'[i] = results[i + c]
  BY <1>1
<1> QED BY <1>2 DEF RowsExist, WentThrough

(* The balance an unmarked load publishes adds up with what is behind it.  *)
LEMMA PublishedAdds ==
    ASSUME TypeOK, TypeOK', NEW s \in Slots, account[s] # Nobody,
           NothingLate(s), AnswersAdd(s), SameSeat(s), balance' = balance,
           results # << >>, results' = Tail(results), Head(results).request.op = "select",
           OwnedBy(s, Head(results).request), Head(results).ok,
           points'[s] = AtLeastZero(Head(results).value),
           drift'[s] \subseteq {"gap"} => Head(results).value >= 0 /\ ~mutated[s],
           Queues(s, 0)
    PROVE  CacheAdds(s)'
<1> DEFINE v == Head(results).value
           row == balance[account[s]]
<1> SUFFICES ASSUME drift'[s] \subseteq {"gap"}
             PROVE  \E x, y \in Int :
                      /\ DueIs(s, 0, x)' /\ MovedIs(s, y)'
                      /\ points'[s] + x = Fetched(row) + y
                      /\ Fetched(row) >= 0
                      /\ MovedStaysUp(s, y)'
                      /\ points'[s] + x <= Fetched(row) + y
  BY DEF CacheAdds, SameSeat, Fetched
<1>1. results \in Seq(Results) /\ v >= 0 /\ ~mutated[s] /\ v \in Int
  BY NextResult DEF TypeOK
<1>2. Len(results) \in Nat \ {0} /\ Head(results) = results[1] /\ 1 \in 1..Len(results)
  <2>1. Len(results) \in Nat \ {0} /\ Head(results) = results[1]
    BY <1>1, TailAt
  <2> QED BY <2>1
<1>3. PICK x \in Int : DueIs(s, 1, x) /\ v + x = Fetched(row) /\ Fetched(row) >= 0
  BY <1>1, <1>2 DEF AnswersAdd
<1>4. DueIs(s, 0, x)'
  <2>1. PICK z : z = Due(Head(results), s)
    OBVIOUS
  <2>2. 1 > 0 => DueIs(s, 1 - 1, x)'
    BY <1>3, <2>1, DuesPopped DEF SameSeat
  <2>3. 1 > 0 /\ 1 - 1 = 0
    OBVIOUS
  <2> QED BY <2>2, <2>3
<1>5. MovedIs(s, 0) /\ MovedStaysUp(s, 0)
  <2>1. \A j \in 1..Len(queue) : ~Moves(queue[j], s)
    BY <1>1, <1>2 DEF NothingLate, Late
  <2>2. \A j \in 1..Len(queue) : Moved(s)[j] = 0
    BY <2>1 DEF Moved
  <2>3. Len(queue) \in Nat
    BY InFlightAt
  <2> QED BY <2>2, <2>3, ZerosSum DEF MovedIs, MovedStaysUp
<1>6. MovedIs(s, 0)' /\ MovedStaysUp(s, 0)'
  <2>1. 0 \in Int /\ 0 + 0 = 0 /\ 0 >= 0
    OBVIOUS
  <2>2. /\ MovedIs(s, 0) => MovedIs(s, 0 + 0)'
        /\ MovedStaysUp(s, 0) /\ 0 + 0 >= 0 => MovedStaysUp(s, 0 + 0)'
    BY <2>1, QueuesMoves
  <2> QED BY <1>5, <2>1, <2>2
<1>7. points'[s] = v
  BY <1>1 DEF AtLeastZero
<1>8. points'[s] + x = Fetched(row) + 0 /\ points'[s] + x <= Fetched(row) + 0
  BY <1>1, <1>3, <1>7
<1> QED BY <1>3, <1>4, <1>6, <1>8

------------------------------------------------------------------------------
(* The callbacks.                                                          *)

(* One more request in the queue, as a slot sees it.                       *)
LEMMA OneQueued ==
    ASSUME TypeOK, NEW t \in Slots, NEW x \in Requests, queue' = Append(queue, x),
           Unconcerned(x, t),
           NEW w, w = (IF Moves(x, t) THEN x.amount ELSE 0)
    PROVE  /\ Queues(t, w)
           /\ /\ mutated[t] => mutated'[t]
              /\ ~OwnedBy(t, x)
              /\ load[t] = Null \/ mutated'[t] \/ ~Moves(x, t)
              => Marks(t)
<1>1. queue \in Seq(Requests)
  BY DEF TypeOK
<1>2. /\ Len(queue) \in Nat /\ Len(queue') = Len(queue) + 1
      /\ queue'[Len(queue) + 1] = x
      /\ \A i \in 1..Len(queue) : queue'[i] = queue[i]
  BY <1>1, AppendAt
<1>3. \A i \in (Len(queue) + 1)..Len(queue') : i = Len(queue) + 1 /\ queue'[i] = x
  BY <1>2
<1>4. Len(queue) + 1 \in (Len(queue) + 1)..Len(queue') /\ Len(queue) + 1 \in Nat
  BY <1>2
<1>5. GrowsAt(t, Len(queue) + 1, w)
  BY <1>2, <1>3, <1>4 DEF GrowsAt
<1> QED BY <1>3, <1>4, <1>5 DEF Queues, Marks

(* A step that queues nothing leaves the moves alone.                      *)
LEMMA NoneQueued ==
    ASSUME TypeOK, NEW t \in Slots, queue' = queue
    PROVE  Queues(t, 0) /\ ((mutated[t] => mutated'[t]) => Marks(t))
<1>1. Len(queue) \in Nat
  BY InFlightAt
<1>2. (Len(queue) + 1)..Len(queue') = {}
  BY <1>1
<1> QED BY <1>2 DEF Queues, Marks

(* A step that is not about a slot keeps its account in order.             *)
Aside(t) ==
    /\ SameSeat(t) /\ load'[t] = load[t] /\ loaded'[t] = loaded[t]
    /\ points'[t] = points[t] /\ drift'[t] = drift[t] /\ mutated'[t] = mutated[t]
    /\ balance' = balance
    /\ Delivers(t, 0)

(* A slot the step leaves aside stays in order.                            *)
LEMMA AsideKeeps ==
    ASSUME TypeOK, TypeOK', RowsExist, NEW t \in Slots, Booked(t), Aside(t),
           \/ queue' = queue
           \/ \E x \in Requests :
                /\ queue' = Append(queue, x)
                /\ Unconcerned(x, t) /\ ~OwnedBy(t, x) /\ ~Moves(x, t)
    PROVE  Booked(t)'
<1>1. Queues(t, 0) /\ Marks(t)
  <2>1. CASE queue' = queue
    BY <2>1, NoneQueued DEF Aside
  <2>2. ASSUME NEW x \in Requests, queue' = Append(queue, x),
               Unconcerned(x, t), ~OwnedBy(t, x), ~Moves(x, t)
        PROVE  Queues(t, 0) /\ Marks(t)
    <3>1. 0 = (IF Moves(x, t) THEN x.amount ELSE 0)
      BY <2>2
    <3> QED BY <2>2, <3>1, OneQueued DEF Aside
  <2> QED BY <2>1, <2>2
<1>2. Settles(t, 0, 0)
  <2>1. points[t] \in Int
    BY DEF TypeOK
  <2> QED BY <2>1 DEF Settles, Aside
<1> QED BY <1>1, <1>2, SlotAdvances DEF Aside

(* The slot whose load a step begins or ends.                              *)
LEMMA LoadingSlot ==
    ASSUME TypeOK, TypeOK', NEW s \in Slots, account[s] # Nobody, SameSeat(s),
           OwnPlacements(s), \A j \in 1..Len(queue) : ~Stray(queue[j], s),
           NEW z, NEW w, Delivers(s, z), Queues(s, w), CacheAdds(s)',
           NothingLate(s)', AnswersAdd(s)'
    PROVE  Booked(s)'
<1>1. OwnPlacements(s)'
  BY PlacementsStillOwn
<1>2. NoStrays(s)'
  BY StillNoStrays DEF NoStrays
<1> QED BY <1>1, <1>2 DEF Booked

(* The SELECT a callback or a command queues is new.                       *)
LEMMA QueueSelectIsNew ==
    ASSUME TypeOK, PacksDiffer, NEW s \in Slots, NEW a \in Accounts, NEW n \in Sessions,
           NEW pts \in Nat, NEW ld \in BOOLEAN, NEW live,
           QueueSelect(s, a, n, pts, ld, live), ResultsKept,
           \/ live = InFlight
           \/ /\ results # << >> /\ results' = Tail(results)
              /\ Head(results).request.op = "select"
              /\ live = InFlight \ {Head(results).request}
    PROVE  /\ \E x : NewSelect(s, x)
           /\ \A t \in Slots \ {s} : load'[t] = load[t] /\ mutated'[t] = mutated[t]
<1>1. PICK x \in Requests :
          /\ load'[s] \notin LivePacks(live)
          /\ \A t \in Slots \ {s} : load'[t] = load[t]
          /\ queue' = Append(queue, x)
          /\ x.op = "select" /\ x.slot = s /\ x.pack = load'[s]
  BY QueueSelectAppends
<1>2. NewSelect(s, x)
  BY <1>1, FreshIsNew
<1>3. \A t \in Slots \ {s} : mutated'[t] = mutated[t]
  BY DEF QueueSelect, TypeOK
<1> QED BY <1>1, <1>2, <1>3

(* A SELECT concerns no slot but its own, and moves no row.                *)
LEMMA SelectUnconcerned ==
    ASSUME NEW s, NEW x, NewSelect(s, x), NEW t
    PROVE  Unconcerned(x, t) /\ ~Moves(x, t) /\ (t # s => ~OwnedBy(t, x))
BY DEF NewSelect, Unconcerned, Stray, SentBy, Moves, OwnedBy

(* Loading a balance keeps the books, whatever the callback that asks for  *)
(* it has taken from the results: it is due nothing.                       *)
LEMMA AskingKeeps ==
    ASSUME TypeOK, TypeOK', Alone, PacksDiffer, RowsExist,
           \A t \in Slots : Booked(t),
           NEW s \in Slots, account[s] # Nobody, LoadClientBonusPoints(s),
           UNCHANGED <<account, session, points, loaded, drift, balance>>,
           ResultsKept, \A t \in Slots : Delivers(t, 0)
    PROVE  LedgerInv'
<1>1. Alone' /\ RowsExist'
  BY RowsStillExist DEF Alone
<1>2. CASE load[s] # Null
  <2>1. UNCHANGED <<load, queue, mutated>>
    BY <1>2 DEF LoadClientBonusPoints
  <2>2. \A t \in Slots : Aside(t)
    BY <2>1 DEF Aside, SameSeat
  <2>3. \A t \in Slots : Booked(t)'
    BY <2>1, <2>2, AsideKeeps
  <2>4. PacksDiffer'
    <3>1. Len(queue) \in Nat /\ (Len(queue) + 1)..Len(queue') = {}
      BY <2>1, InFlightAt
    <3> QED BY <2>1, <3>1, PacksStillDiffer
  <2> QED BY <1>1, <2>3, <2>4 DEF LedgerInv
<1>3. CASE load[s] = Null
  <2>1. /\ account[s] \in Accounts /\ session[s] \in Sessions
        /\ points[s] \in Nat /\ loaded[s] \in BOOLEAN
    BY DEF TypeOK
  <2>2. QueueSelect(s, account[s], session[s], points[s], loaded[s], InFlight)
    BY <1>3 DEF LoadClientBonusPoints
  <2>3. /\ \E x : NewSelect(s, x)
        /\ \A t \in Slots \ {s} : load'[t] = load[t] /\ mutated'[t] = mutated[t]
    BY <2>1, <2>2, QueueSelectIsNew
  <2>4. PICK x : NewSelect(s, x)
    BY <2>3
  <2>5. x \in Requests /\ queue' = Append(queue, x)
    BY <2>4 DEF NewSelect
  <2>6. PacksDiffer'
    BY <2>4, NewPacksDiffer
  <2>7. ASSUME NEW t \in Slots \ {s} PROVE Booked(t)'
    <3>1. Aside(t)
      BY <2>3 DEF Aside, SameSeat
    <3>2. Unconcerned(x, t) /\ ~Moves(x, t) /\ ~OwnedBy(t, x)
      BY <2>4, SelectUnconcerned
    <3> QED BY <2>5, <3>1, <3>2, AsideKeeps
  <2>8. Booked(s)'
    <3>1. /\ OwnPlacements(s) /\ NoStrays(s) /\ CacheAdds(s)
      BY DEF Booked
    <3>2. \A j \in 1..Len(queue) : ~Stray(queue[j], s)
      BY <1>3, <3>1 DEF NoStrays
    <3>3. NothingLate(s)' /\ AnswersAdd(s)'
      BY <2>4, NewLoad
    <3>4. Queues(s, 0)
      <4>1. Unconcerned(x, s) /\ ~Moves(x, s)
        BY <2>4, SelectUnconcerned
      <4>2. 0 = (IF Moves(x, s) THEN x.amount ELSE 0)
        BY <4>1
      <4> QED BY <2>5, <4>1, <4>2, OneQueued
    <3>5. SameSeat(s) /\ Delivers(s, 0)
      BY DEF SameSeat
    <3>6. CacheAdds(s)'
      <4>1. Settles(s, 0, 0)
        BY <2>1 DEF Settles
      <4> QED BY <3>1, <3>4, <3>5, <4>1, CacheStillAdds
    <3> QED BY <3>1, <3>2, <3>3, <3>4, <3>5, <3>6, LoadingSlot
  <2> QED BY <1>1, <2>6, <2>7, <2>8 DEF LedgerInv
<1> QED BY <1>2, <1>3

(* An answer to a SELECT is due nothing.                                   *)
LEMMA AnswerDelivered ==
    ASSUME results # << >>, results' = Tail(results),
           Head(results).request.op = "select", NEW t
    PROVE  Delivers(t, 0)
BY DEF Delivers, Due, SentBy

(* A load that ends without a follow-up.                                   *)
LEMMA EndedLoadKeeps ==
    ASSUME TypeOK, TypeOK', LedgerInv, NEW s \in Slots, account[s] # Nobody,
           results # << >>, results' = Tail(results),
           Head(results).request.op = "select", OwnedBy(s, Head(results).request),
           UNCHANGED <<account, session, balance, queue>>, mutated' = mutated,
           load' = [load EXCEPT ![s] = Null],
           \A t \in Slots \ {s} : /\ points'[t] = points[t] /\ loaded'[t] = loaded[t]
                                  /\ drift'[t] = drift[t],
           CacheAdds(s)'
    PROVE  LedgerInv'
<1>1. ResultsKept /\ \A t \in Slots : Delivers(t, 0) /\ Queues(t, 0)
  BY AnswerDelivered, NoneQueued DEF ResultsKept
<1>2. Alone' /\ RowsExist'
  BY <1>1, RowsStillExist DEF Alone, LedgerInv
<1>3. PacksDiffer'
  <2>1. Len(queue) \in Nat /\ (Len(queue) + 1)..Len(queue') = {}
    BY InFlightAt
  <2> QED BY <1>1, <2>1, PacksStillDiffer DEF LedgerInv
<1>4. load'[s] = Null /\ \A t \in Slots \ {s} : load'[t] = load[t]
  BY DEF TypeOK
<1>5. ASSUME NEW t \in Slots \ {s} PROVE Booked(t)'
  <2>1. Aside(t)
    BY <1>1, <1>4 DEF Aside, SameSeat
  <2> QED BY <2>1, AsideKeeps DEF LedgerInv
<1>6. Booked(s)'
  <2>1. OwnPlacements(s) /\ NothingLate(s)
    BY DEF LedgerInv, Booked
  <2>2. \A j \in 1..Len(queue) : ~Stray(queue[j], s)
    <3>1. 1 \in 1..Len(results) /\ Head(results) = results[1]
      <4>1. results \in Seq(Results)
        BY DEF TypeOK
      <4>2. Len(results) \in Nat \ {0} /\ Head(results) = results[1]
        BY <4>1, TailAt
      <4> QED BY <4>2
    <3> QED BY <2>1, <3>1 DEF NothingLate, Late
  <2>3. NothingLate(s)' /\ AnswersAdd(s)'
    BY <1>4, NoLoad
  <2>4. SameSeat(s)
    BY DEF SameSeat
  <2> QED BY <1>1, <2>1, <2>2, <2>3, <2>4, LoadingSlot
<1> QED BY <1>2, <1>3, <1>5, <1>6 DEF LedgerInv

(* A load that ends with a follow-up.                                      *)
LEMMA RenewedLoadKeeps ==
    ASSUME TypeOK, TypeOK', LedgerInv, NEW s \in Slots, account[s] # Nobody,
           results # << >>, results' = Tail(results),
           Head(results).request.op = "select", OwnedBy(s, Head(results).request),
           UNCHANGED <<account, session, balance>>,
           NEW pts \in Nat, NEW ld \in BOOLEAN,
           QueueSelect(s, account[s], session[s], pts, ld,
                       InFlight \ {Head(results).request}),
           \A t \in Slots \ {s} : /\ points'[t] = points[t] /\ loaded'[t] = loaded[t]
                                  /\ drift'[t] = drift[t],
           Queues(s, 0) => CacheAdds(s)'
    PROVE  LedgerInv'
<1>1. ResultsKept /\ \A t \in Slots : Delivers(t, 0)
  BY AnswerDelivered DEF ResultsKept
<1>2. Alone' /\ RowsExist'
  BY <1>1, RowsStillExist DEF Alone, LedgerInv
<1>3. account[s] \in Accounts /\ session[s] \in Sessions
  BY DEF TypeOK
<1>4. PICK live : live = InFlight \ {Head(results).request}
  OBVIOUS
<1>5. /\ \E x : NewSelect(s, x)
      /\ \A t \in Slots \ {s} : load'[t] = load[t] /\ mutated'[t] = mutated[t]
  <2>1. QueueSelect(s, account[s], session[s], pts, ld, live)
    BY <1>4
  <2> QED BY <1>1, <1>3, <1>4, <2>1, QueueSelectIsNew DEF LedgerInv
<1>6. PICK x : NewSelect(s, x)
  BY <1>5
<1>7. x \in Requests /\ queue' = Append(queue, x)
  BY <1>6 DEF NewSelect
<1>8. PacksDiffer'
  BY <1>1, <1>6, NewPacksDiffer DEF LedgerInv
<1>9. ASSUME NEW t \in Slots \ {s} PROVE Booked(t)'
  <2>1. Aside(t)
    BY <1>1, <1>5 DEF Aside, SameSeat
  <2>2. Unconcerned(x, t) /\ ~Moves(x, t) /\ ~OwnedBy(t, x)
    BY <1>6, SelectUnconcerned
  <2> QED BY <1>7, <2>1, <2>2, AsideKeeps DEF LedgerInv
<1>10. Booked(s)'
  <2>1. OwnPlacements(s) /\ NothingLate(s)
    BY DEF LedgerInv, Booked
  <2>2. \A j \in 1..Len(queue) : ~Stray(queue[j], s)
    <3>1. 1 \in 1..Len(results) /\ Head(results) = results[1]
      <4>1. results \in Seq(Results)
        BY DEF TypeOK
      <4>2. Len(results) \in Nat \ {0} /\ Head(results) = results[1]
        BY <4>1, TailAt
      <4> QED BY <4>2
    <3> QED BY <2>1, <3>1 DEF NothingLate, Late
  <2>3. NothingLate(s)' /\ AnswersAdd(s)'
    BY <1>6, NewLoad
  <2>4. Queues(s, 0)
    <3>1. Unconcerned(x, s) /\ ~Moves(x, s)
      BY <1>6, SelectUnconcerned
    <3>2. 0 = (IF Moves(x, s) THEN x.amount ELSE 0)
      BY <3>1
    <3> QED BY <1>7, <3>1, <3>2, OneQueued
  <2>5. SameSeat(s)
    BY DEF SameSeat
  <2> QED BY <1>1, <2>1, <2>2, <2>3, <2>4, <2>5, LoadingSlot
<1> QED BY <1>2, <1>8, <1>9, <1>10 DEF LedgerInv

(* A published cache adds up: the fence has let through only a load whose  *)
(* client's balance nothing has changed, or that is blamed.                *)
LEMMA PublishedCache ==
    ASSUME TypeOK, TypeOK', LoadIsOwned, LedgerInv, NEW s \in Slots, account[s] # Nobody,
           results # << >>, results' = Tail(results), Head(results).request.op = "select",
           s = Head(results).request.slot, OwnsRequest(Head(results).request),
           Head(results).ok, ~FenceBlocks(Head(results).request),
           NEW live, PublishBalance(Head(results).request, Head(results).value, live),
           UNCHANGED <<account, session, balance>>, Queues(s, 0)
    PROVE  CacheAdds(s)'
<1> DEFINE req == Head(results).request
           v == Head(results).value
<1>1. points'[s] = AtLeastZero(v)
  BY DEF PublishBalance, TypeOK
<1>2. drift'[s] = (IF mutated[s] /\ points[s] = req.requested
                   THEN drift[s] \union {"aba"} ELSE {})
                  \union (IF v < 0 THEN {"debt"} ELSE {})
  BY DEF PublishBalance, TypeOK
<1>3. points[s] = req.requested
  BY DEF FenceBlocks
<1>4. v \in Int
  BY NextResult
<1>5. drift'[s] \subseteq {"gap"} => v >= 0 /\ ~mutated[s]
  <2>1. v < 0 => "debt" \in drift'[s]
    BY <1>2
  <2>2. mutated[s] => "aba" \in drift'[s]
    BY <1>2, <1>3
  <2> HIDE DEF v, req
  <2> QED BY <1>4, <2>1, <2>2
<1>6. OwnedBy(s, req)
  BY DEF OwnedBy, OwnsRequest
<1>7. NothingLate(s) /\ AnswersAdd(s) /\ SameSeat(s)
  BY DEF LedgerInv, Booked, SameSeat
<1> QED BY <1>1, <1>5, <1>6, <1>7, PublishedAdds

(* The load callback publishes, asks again or drops what it was told.      *)
LEMMA OnLoadedLedger ==
    ASSUME TypeOK, TypeOK', LoadIsOwned, LedgerInv, OnClientBonusPointsLoaded
    PROVE  LedgerInv'
<1> DEFINE r == Head(results)
           req == r.request
           live == InFlight \ {req}
<1>1. /\ results # << >> /\ results' = Tail(results) /\ req \in Requests
      /\ req.op = "select" /\ UNCHANGED <<account, session, balance>>
  BY NextResult DEF OnClientBonusPointsLoaded, clients
<1>2. PICK s \in Slots : s = req.slot
  <2>1. req \in Selects
    BY <1>1, RequestKind
  <2> QED BY <2>1 DEF Selects
<1>3. ASSUME OwnsRequest(req) PROVE account[s] # Nobody /\ OwnedBy(s, req)
  BY <1>1, <1>2, <1>3 DEF OwnsRequest, SameClient, OwnedBy
<1>4. ASSUME UNCHANGED <<cache, loads, queue, history>> PROVE LedgerInv'
  <2>1. ResultsKept /\ \A t \in Slots : Delivers(t, 0)
    BY <1>1, AnswerDelivered DEF ResultsKept
  <2>2. \A t \in Slots : Aside(t)
    BY <1>1, <1>4, <2>1 DEF Aside, SameSeat, cache, loads, history
  <2>3. \A t \in Slots : Booked(t)'
    BY <1>4, <2>2, AsideKeeps DEF LedgerInv
  <2>4. PacksDiffer'
    <3>1. Len(queue) \in Nat /\ (Len(queue) + 1)..Len(queue') = {}
      BY <1>4, InFlightAt
    <3> QED BY <1>4, <2>1, <3>1, PacksStillDiffer DEF LedgerInv
  <2>5. Alone' /\ RowsExist'
    BY <1>1, <2>1, RowsStillExist DEF Alone, LedgerInv
  <2> QED BY <2>3, <2>4, <2>5 DEF LedgerInv
<1>5. ASSUME OwnsRequest(req), UNCHANGED cache PROVE Queues(s, 0) /\ drift' = drift => CacheAdds(s)'
  <2> SUFFICES ASSUME Queues(s, 0), drift' = drift PROVE CacheAdds(s)'
    OBVIOUS
  <2>1. Delivers(s, 0) /\ SameSeat(s) /\ Settles(s, 0, 0)
    <3>1. points[s] \in Int
      BY <1>2 DEF TypeOK
    <3> QED BY <1>1, <1>5, <3>1, AnswerDelivered DEF SameSeat, Settles, cache
  <2>2. OwnPlacements(s) /\ CacheAdds(s) /\ account[s] # Nobody
    BY <1>2, <1>3, <1>5 DEF LedgerInv, Booked
  <2> HIDE DEF req, r
  <2> QED BY <1>1, <1>2, <1>5, <2>1, <2>2, CacheStillAdds DEF LedgerInv, cache
<1>6. ASSUME OwnsRequest(req), ReleaseLoad(s), UNCHANGED <<cache, queue, history>>
      PROVE  LedgerInv'
  <2>1. CacheAdds(s)'
    BY <1>2, <1>5, <1>6, NoneQueued DEF history
  <2> QED BY <1>1, <1>2, <1>3, <1>6, <2>1, EndedLoadKeeps DEF ReleaseLoad, cache, history
<1>7. ASSUME OwnsRequest(req),
             QueueSelect(s, account[s], session[s], points[s], loaded[s], live),
             UNCHANGED <<cache, drift>>
      PROVE  LedgerInv'
  <2>1. points[s] \in Nat /\ loaded[s] \in BOOLEAN
    BY <1>2 DEF TypeOK
  <2> QED BY <1>1, <1>2, <1>3, <1>5, <1>7, <2>1, RenewedLoadKeeps DEF cache
<1>8. ASSUME OwnsRequest(req), r.ok, ~FenceBlocks(req),
             PublishBalance(req, r.value, live)
      PROVE  LedgerInv'
  <2>1. \A t \in Slots \ {s} : /\ points'[t] = points[t] /\ loaded'[t] = loaded[t]
                               /\ drift'[t] = drift[t]
    BY <1>2, <1>8 DEF PublishBalance, TypeOK
  <2>2. Queues(s, 0) => CacheAdds(s)'
    BY <1>1, <1>2, <1>3, <1>8, PublishedCache
  <2>3. CASE reload[s]
    <3>1. QueueSelect(s, account[s], session[s], AtLeastZero(r.value), TRUE, live)
      BY <1>2, <1>8, <2>3 DEF PublishBalance
    <3>2. AtLeastZero(r.value) \in Nat
      BY <1>1, NextResult, AtLeastZeroType
    <3>3. PICK pts \in Nat : pts = AtLeastZero(r.value)
      BY <3>2
    <3>4. QueueSelect(s, account[s], session[s], pts, TRUE, live)
      BY <3>1, <3>3
    <3> QED BY <1>1, <1>2, <1>3, <1>8, <2>1, <2>2, <3>4, RenewedLoadKeeps
  <2>4. CASE ~reload[s]
    <3>1. ReleaseLoad(s) /\ UNCHANGED <<queue, mutated>>
      BY <1>2, <1>8, <2>4 DEF PublishBalance
    <3>2. CacheAdds(s)'
      BY <1>2, <2>2, <3>1, NoneQueued
    <3> QED BY <1>1, <1>2, <1>3, <1>8, <2>1, <3>1, <3>2, EndedLoadKeeps DEF ReleaseLoad
  <2> QED BY <2>3, <2>4
<1> HIDE DEF r, req, live
<1>9. \/ UNCHANGED <<cache, loads, queue, history>>
      \/ OwnsRequest(req) /\ ReleaseLoad(s) /\ UNCHANGED <<cache, queue, history>>
      \/ /\ OwnsRequest(req)
         /\ QueueSelect(s, account[s], session[s], points[s], loaded[s], live)
         /\ UNCHANGED <<cache, drift>>
      \/ /\ OwnsRequest(req) /\ r.ok /\ ~FenceBlocks(req)
         /\ PublishBalance(req, r.value, live)
  BY <1>2, Zenon DEF OnClientBonusPointsLoaded, r, req, live
<1> QED BY <1>4, <1>6, <1>7, <1>8, <1>9

(* A credit's callback adds what was due, or leaves the cache short and    *)
(* says so.                                                                *)
LEMMA OnCreditLedger ==
    ASSUME TypeOK, TypeOK', LedgerInv, OnCreditSaved
    PROVE  LedgerInv'
<1> DEFINE r == Head(results)
           a == r.request.account
           n == r.request.amount
           missed == IF r.ok THEN {t \in HoldersOf(a) : loaded[t] /\ ~inGame[t]} ELSE {}
<1>1. /\ results # << >> /\ results' = Tail(results) /\ r.request \in Requests
      /\ r.request.op = "credit"
      /\ UNCHANGED <<account, session, loaded, load, balance, queue>>
      /\ points' = [t \in Slots |-> points[t] + (IF t \in Credited(r) THEN n ELSE 0)]
      /\ Touch(Credited(r)) /\ Blame(missed, "gap")
  BY NextResult DEF OnCreditSaved, clients, loads
<1>2. n \in Nat /\ a \in Accounts
  BY <1>1, RequestKind DEF Credits
<1>3. ResultsKept
  BY <1>1 DEF ResultsKept
<1>4. Alone' /\ RowsExist'
  BY <1>1, <1>3, RowsStillExist DEF Alone, LedgerInv
<1>5. PacksDiffer'
  <2>1. Len(queue) \in Nat /\ (Len(queue) + 1)..Len(queue') = {}
    BY <1>1, InFlightAt
  <2> QED BY <1>1, <1>3, <2>1, PacksStillDiffer DEF LedgerInv
<1>6. ASSUME NEW t \in Slots PROVE Booked(t)'
  <2>1. PICK z : z = Due(r, t)
    OBVIOUS
  <2>2. Delivers(t, z)
    BY <1>1, <2>1 DEF Delivers
  <2>3. Queues(t, 0) /\ Marks(t)
    BY <1>1, NoneQueued DEF Touch
  <2>4. z = (IF r.ok /\ a = account[t] THEN n ELSE 0)
    BY <1>1, <2>1 DEF Due, SentBy
  <2>5. /\ drift'[t] = drift[t] \union (IF t \in missed THEN {"gap"} ELSE {})
        /\ points'[t] = points[t] + (IF t \in Credited(r) THEN n ELSE 0)
    BY <1>1 DEF Blame
  <2>6. /\ t \in missed <=> r.ok /\ a = account[t] /\ loaded[t] /\ ~inGame[t]
        /\ t \in Credited(r) <=> r.ok /\ a = account[t] /\ loaded[t] /\ inGame[t]
    BY DEF Credited, ReadyHoldersOf, HoldersOf
  <2>7. points[t] \in Nat /\ drift[t] \in SUBSET Causes
    BY DEF TypeOK
  <2> HIDE DEF r, a, n, missed
  <2>8. Settles(t, z, 0)
    <3>1. CASE t \in missed
      BY <1>2, <2>4, <2>5, <2>6, <2>7, <3>1 DEF Settles
    <3>2. CASE t \in Credited(r)
      BY <1>2, <2>4, <2>5, <2>6, <2>7, <3>2 DEF Settles
    <3>3. CASE t \notin missed /\ t \notin Credited(r)
      <4>1. loaded[t] => z = 0
        BY <2>4, <2>6, <3>3 DEF TypeOK
      <4> QED BY <2>5, <2>7, <3>3, <4>1 DEF Settles
    <3> QED BY <3>1, <3>2, <3>3
  <2>9. SameSeat(t) /\ load'[t] = load[t] /\ loaded'[t] = loaded[t] /\ balance' = balance
    BY <1>1 DEF SameSeat
  <2> QED BY <2>2, <2>3, <2>8, <2>9, SlotAdvances DEF LedgerInv
<1> QED BY <1>4, <1>5, <1>6 DEF LedgerInv

(* A placement's callback takes what was due from the client that asked.   *)
LEMMA OnPlacedLedger ==
    ASSUME TypeOK, TypeOK', LedgerInv, OnBountyPlaced
    PROVE  LedgerInv'
<1> DEFINE r == Head(results)
           req == r.request
<1>1. /\ results # << >> /\ results' = Tail(results) /\ req \in Requests
      /\ req.op = "escrow" /\ UNCHANGED <<account, session, loaded, balance>>
  BY NextResult DEF OnBountyPlaced, clients
<1>2. req \in Escrows
  BY <1>1, RequestKind
<1>3. PICK s \in Slots, n \in Nat : s = req.slot /\ n = req.amount
  BY <1>2 DEF Escrows
<1>4. ResultsKept
  BY <1>1 DEF ResultsKept
<1>5. Alone' /\ RowsExist'
  BY <1>1, <1>4, RowsStillExist DEF Alone, LedgerInv
<1>6. ASSUME queue' = queue PROVE PacksDiffer'
  <2>1. Len(queue) \in Nat /\ (Len(queue) + 1)..Len(queue') = {}
    BY <1>6, InFlightAt
  <2> QED BY <1>4, <1>6, <2>1, PacksStillDiffer DEF LedgerInv
<1>7. \A t \in Slots : SentBy(req, t) /\ account[t] # Nobody => t = s /\ SameClient(req)
  BY <1>3 DEF SentBy, SameClient
<1>8. ASSUME NEW t \in Slots, ~SentBy(req, t) \/ r.value # 1 PROVE Delivers(t, 0)
  BY <1>1, <1>8 DEF Delivers, Due
<1>9. ASSUME NEW t \in Slots, account[t] = Nobody PROVE Booked(t)'
  BY <1>1, <1>9 DEF Booked
<1>10. ASSUME ~SameClient(req), UNCHANGED <<points, loads, queue, history>>
       PROVE  LedgerInv'
  <2>1. ASSUME NEW t \in Slots, account[t] # Nobody PROVE Booked(t)'
    <3>1. Aside(t)
      BY <1>1, <1>7, <1>8, <1>10, <2>1 DEF Aside, SameSeat, loads, history
    <3> QED BY <1>10, <3>1, AsideKeeps DEF LedgerInv
  <2> QED BY <1>5, <1>6, <1>9, <1>10, <2>1 DEF LedgerInv
<1>11. ASSUME SameClient(req), r.value = 0, LoadClientBonusPoints(s), UNCHANGED <<points, drift>>
       PROVE  LedgerInv'
  <2>1. \A t \in Slots : Delivers(t, 0)
    BY <1>8, <1>11
  <2>2. account[s] # Nobody
    BY <1>3, <1>11 DEF SameClient
  <2> HIDE DEF r, req
  <2> QED BY <1>1, <1>4, <1>11, <2>1, <2>2, AskingKeeps DEF LedgerInv
<1>12. ASSUME SameClient(req), r.value = 1,
              points' = [points EXCEPT ![s] = AtLeastZero(points[s] - n)],
              Touch({s}),
              Blame(IF points[s] - n < 0 THEN {s} ELSE {}, "clamped"),
              UNCHANGED <<loads, queue>>
       PROVE  LedgerInv'
  <2>1. ASSUME NEW t \in Slots \ {s}, account[t] # Nobody PROVE Booked(t)'
    <3>1. Aside(t)
      <4>1. points'[t] = points[t] /\ drift'[t] = drift[t] /\ mutated'[t] = mutated[t]
        BY <1>12 DEF Touch, Blame, TypeOK
      <4> QED BY <1>1, <1>7, <1>8, <1>12, <2>1, <4>1 DEF Aside, SameSeat, loads
    <3> QED BY <1>12, <3>1, AsideKeeps DEF LedgerInv
  <2>2. Booked(s)'
    <3>1. SentBy(req, s)
      BY <1>1, <1>3, <1>12 DEF SentBy, SameClient
    <3>2. Due(r, s) = -n
      BY <1>1, <1>3, <1>12, <3>1 DEF Due
    <3>3. PICK z \in Int : z = -n
      OBVIOUS
    <3>4. Delivers(s, z)
      BY <1>1, <3>2, <3>3 DEF Delivers
    <3>5. Queues(s, 0) /\ Marks(s)
      BY <1>12, NoneQueued DEF Touch
    <3>6. points[s] \in Nat /\ drift[s] \in SUBSET Causes
      BY DEF TypeOK
    <3>7. /\ points'[s] = AtLeastZero(points[s] - n)
          /\ drift'[s] = drift[s] \union (IF points[s] - n < 0 THEN {"clamped"} ELSE {})
      BY <1>12 DEF Blame, TypeOK
    <3>8. Settles(s, z, 0)
      <4>1. CASE points[s] - n < 0
        BY <3>7, <4>1 DEF Settles
      <4>2. CASE points[s] - n >= 0
        <5>1. points'[s] = points[s] - n
          BY <3>6, <3>7, <4>2 DEF AtLeastZero
        <5>2. drift'[s] = drift[s]
          BY <3>6, <3>7, <4>2
        <5> QED BY <3>3, <3>6, <5>1, <5>2 DEF Settles
      <4> QED BY <3>6, <4>1, <4>2
    <3>9. SameSeat(s) /\ load'[s] = load[s] /\ loaded'[s] = loaded[s] /\ balance' = balance
      BY <1>1, <1>12 DEF SameSeat, loads
    <3> QED BY <3>4, <3>5, <3>8, <3>9, SlotAdvances DEF LedgerInv
  <2> QED BY <1>5, <1>6, <1>9, <1>12, <2>1, <2>2 DEF LedgerInv
<1> HIDE DEF r, req
<1>13. \/ ~SameClient(req) /\ UNCHANGED <<points, loads, queue, history>>
       \/ /\ SameClient(req) /\ r.value = 0
          /\ LoadClientBonusPoints(s) /\ UNCHANGED <<points, drift>>
       \/ /\ SameClient(req) /\ r.value = 1
          /\ points' = [points EXCEPT ![s] = AtLeastZero(points[s] - n)]
          /\ Touch({s})
          /\ Blame(IF points[s] - n < 0 THEN {s} ELSE {}, "clamped")
          /\ UNCHANGED <<loads, queue>>
  BY <1>3, Zenon DEF OnBountyPlaced, r, req
<1> QED BY <1>10, <1>11, <1>12, <1>13

------------------------------------------------------------------------------
(* What clients do.                                                        *)

(* A step that delivers nothing and leaves the seats and rows alone keeps  *)
(* what relates seats, rows and results.                                   *)
LEMMA StandingKept ==
    ASSUME TypeOK, LedgerInv, UNCHANGED <<account, balance, results>>
    PROVE  ResultsKept /\ Alone' /\ RowsExist' /\ \A t \in Slots : Delivers(t, 0)
<1>1. ResultsKept
  BY DEF ResultsKept
<1> QED BY <1>1, RowsStillExist DEF Alone, LedgerInv, Delivers

(* One request more, which is not a SELECT, takes no pack.                 *)
LEMMA PacksWithOneMore ==
    ASSUME TypeOK, PacksDiffer, ResultsKept, NEW x \in Requests, x.op # "select",
           queue' = Append(queue, x)
    PROVE  PacksDiffer'
<1>1. queue \in Seq(Requests)
  BY DEF TypeOK
<1>2. /\ Len(queue) \in Nat /\ Len(queue') = Len(queue) + 1
      /\ queue'[Len(queue) + 1] = x
      /\ \A i \in 1..Len(queue) : queue'[i] = queue[i]
  BY <1>1, AppendAt
<1>3. \A i \in (Len(queue) + 1)..Len(queue') : queue'[i].op # "select"
  BY <1>2
<1> QED BY <1>2, <1>3, PacksStillDiffer

(* A queue that stands repeats no pack.                                    *)
LEMMA PacksWithNoMore ==
    ASSUME TypeOK, PacksDiffer, ResultsKept, queue' = queue PROVE PacksDiffer'
<1>1. Len(queue) \in Nat /\ (Len(queue) + 1)..Len(queue') = {}
  BY InFlightAt
<1> QED BY <1>1, PacksStillDiffer

(* A request that moves nobody's row and is nobody's stray.                *)
LEMMA HarmlessRequest ==
    ASSUME TypeOK, TypeOK', LedgerInv, UNCHANGED <<account, session, balance, results>>,
           UNCHANGED <<load, loaded, points, drift, mutated>>,
           NEW x \in Requests, x.op \in {"credit", "escrow"}, queue' = Append(queue, x),
           \A t \in Slots : account[t] # Nobody => Unconcerned(x, t)
    PROVE  LedgerInv'
<1>1. ResultsKept /\ Alone' /\ RowsExist' /\ \A t \in Slots : Delivers(t, 0)
  BY StandingKept
<1>2. PacksDiffer'
  BY <1>1, PacksWithOneMore DEF LedgerInv
<1>3. ASSUME NEW t \in Slots PROVE Booked(t)'
  <2>1. CASE account[t] = Nobody
    BY <2>1 DEF Booked
  <2>2. CASE account[t] # Nobody
    <3>1. Aside(t)
      BY <1>1 DEF Aside, SameSeat
    <3>2. Unconcerned(x, t) /\ ~OwnedBy(t, x) /\ ~Moves(x, t)
      BY <2>2 DEF OwnedBy, Moves
    <3> QED BY <3>1, <3>2, AsideKeeps DEF LedgerInv
  <2> QED BY <2>1, <2>2
<1> QED BY <1>1, <1>2, <1>3 DEF LedgerInv

(* A credit is queued for an account.                                      *)
LEMMA QueueCreditLedger ==
    ASSUME TypeOK, TypeOK', LedgerInv, NEW a \in Accounts, NEW n \in CreditAmounts,
           QueueCredit(a, n)
    PROVE  LedgerInv'
<1> DEFINE x == [op |-> "credit", account |-> a, amount |-> n]
<1>1. x \in Requests /\ x.op = "credit" /\ \A t \in Slots : Unconcerned(x, t)
  BY DEF Requests, Credits, Unconcerned, Stray, SentBy
<1>2. queue' = Append(queue, x)
  BY DEF QueueCredit
<1> HIDE DEF x
<1> QED BY <1>1, <1>2, HarmlessRequest DEF QueueCredit, clients, cache, loads, history

(* A placement is queued by the client it is for.                          *)
LEMMA PlacementLedger ==
    ASSUME TypeOK, TypeOK', Seated, LedgerInv, NEW s \in Slots, NEW n \in EscrowAmounts,
           QueueBountyPlacement(s, n)
    PROVE  LedgerInv'
<1> DEFINE x == [op |-> "escrow", slot |-> s, session |-> session[s],
                 account |-> account[s], amount |-> n]
<1>1. /\ account[s] \in Accounts /\ session[s] \in Sessions /\ n \in Nat
      /\ queue' = Append(queue, x)
  BY ReadyAccount DEF QueueBountyPlacement, AreBonusPointsReady, TypeOK
<1>2. x \in Requests
  BY <1>1 DEF Requests, Escrows
<1>3. x.op = "escrow" /\ x.slot = s /\ x.session = session[s] /\ x.account = account[s]
  OBVIOUS
<1> HIDE DEF x
<1>4. ASSUME NEW t \in Slots, account[t] # Nobody PROVE Unconcerned(x, t)
  <2>1. account[t] = account[s] => t = s
    BY <1>4 DEF LedgerInv, Alone
  <2> QED BY <1>3, <2>1 DEF Unconcerned, Stray, SentBy
<1> QED BY <1>1, <1>2, <1>3, <1>4, HarmlessRequest
        DEF QueueBountyPlacement, clients, cache, loads, history

(* A client that arrives has nothing shown and a SELECT of its own.        *)
LEMMA AuthorizedLedger ==
    ASSUME TypeOK, TypeOK', LedgerInv, NEW s \in Slots, NEW a \in Accounts,
           OnClientAuthorized(s, a)
    PROVE  LedgerInv'
<1>1. PICK n \in Sessions :
        /\ FreshSession(n)
        /\ account' = [account EXCEPT ![s] = a]
        /\ session' = [session EXCEPT ![s] = n]
        /\ points' = [points EXCEPT ![s] = 0]
        /\ loaded' = [loaded EXCEPT ![s] = FALSE]
        /\ drift' = [drift EXCEPT ![s] = {}]
        /\ QueueSelect(s, a, n, 0, FALSE, InFlight)
  BY DEF OnClientAuthorized
<1>2. balance' = balance /\ results' = results /\ ResultsKept /\ HoldersOf(a) = {}
  BY DEF OnClientAuthorized, ResultsKept
<1>3. /\ account'[s] = a /\ session'[s] = n /\ loaded'[s] = FALSE
      /\ \A t \in Slots \ {s} : /\ SameSeat(t) /\ loaded'[t] = loaded[t]
                                /\ points'[t] = points[t] /\ drift'[t] = drift[t]
  BY <1>1 DEF TypeOK, SameSeat
<1>4. /\ \E x : NewSelect(s, x)
      /\ \A t \in Slots \ {s} : load'[t] = load[t] /\ mutated'[t] = mutated[t]
  <2>1. PICK pts \in Nat, ld \in BOOLEAN : QueueSelect(s, a, n, pts, ld, InFlight)
    BY <1>1, Zenon
  <2> QED BY <1>2, <2>1, QueueSelectIsNew DEF LedgerInv
<1>5. PICK x : NewSelect(s, x)
  BY <1>4
<1>6. x \in Requests /\ queue' = Append(queue, x) /\ x.op = "select"
  BY <1>5 DEF NewSelect
<1>7. Alone'
  <2>1. \A t \in Slots \ {s} : account'[t] = account[t] /\ account[t] # a
    BY <1>2, <1>3 DEF HoldersOf, SameSeat
  <2> QED BY <1>3, <2>1 DEF Alone, LedgerInv
<1>8. RowsExist' /\ PacksDiffer'
  BY <1>2, <1>5, RowsStillExist, NewPacksDiffer DEF LedgerInv
<1>9. ASSUME NEW t \in Slots \ {s} PROVE Booked(t)'
  <2>1. Aside(t)
    BY <1>2, <1>3, <1>4 DEF Aside, Delivers
  <2>2. Unconcerned(x, t) /\ ~Moves(x, t) /\ ~OwnedBy(t, x)
    BY <1>5, SelectUnconcerned
  <2> QED BY <1>6, <2>1, <2>2, AsideKeeps DEF LedgerInv
<1>10. Booked(s)'
  <2>1. OwnPlacements(s)'
    <3>1. InFlight' = InFlight \union {x}
      BY <1>2, <1>6, InFlightAppend DEF TypeOK
    <3>2. ASSUME NEW r \in InFlight, r.op = "escrow" PROVE r.session # n
      BY <1>1, <3>2 DEF FreshSession
    <3>3. ASSUME NEW r \in InFlight' PROVE ~SentBy(r, s)'
      <4>1. ~(r.op = "escrow" /\ r.session = n)
        BY <1>6, <3>1, <3>2
      <4> QED BY <1>3, <4>1 DEF SentBy
    <3> QED BY <3>3 DEF OwnPlacements
  <2>2. load'[s] # Null /\ NothingLate(s)' /\ AnswersAdd(s)'
    BY <1>5, NewLoad
  <2>3. NoStrays(s)' /\ CacheAdds(s)'
    BY <1>3, <2>2 DEF NoStrays, CacheAdds
  <2> QED BY <2>1, <2>2, <2>3 DEF Booked
<1> QED BY <1>7, <1>8, <1>9, <1>10 DEF LedgerInv

(* A slot that is left has no books.                                       *)
LEMMA DisconnectLedger ==
    ASSUME TypeOK, TypeOK', LedgerInv, NEW s \in Slots, OnClientDisconnect(s)
    PROVE  LedgerInv'
<1>1. /\ account' = [account EXCEPT ![s] = Nobody]
      /\ UNCHANGED <<session, balance, queue, results>> /\ ResultsKept
  BY DEF OnClientDisconnect, channel, ResultsKept
<1>2. /\ account'[s] = Nobody
      /\ \A t \in Slots \ {s} : /\ SameSeat(t) /\ loaded'[t] = loaded[t] /\ load'[t] = load[t]
                                /\ points'[t] = points[t] /\ drift'[t] = drift[t]
                               /\ mutated'[t] = mutated[t]
  BY <1>1 DEF TypeOK, SameSeat, OnClientDisconnect, ReleaseLoad
<1>3. Alone' /\ RowsExist' /\ PacksDiffer'
  BY <1>1, <1>2, RowsStillExist, PacksWithNoMore DEF Alone, LedgerInv, SameSeat
<1>4. ASSUME NEW t \in Slots \ {s} PROVE Booked(t)'
  <2>1. Aside(t)
    BY <1>1, <1>2 DEF Aside, Delivers
  <2> QED BY <1>1, <2>1, AsideKeeps DEF LedgerInv
<1>5. Booked(s)'
  BY <1>2 DEF Booked
<1> QED BY <1>3, <1>4, <1>5 DEF LedgerInv

(* A client that enters the game changes nothing the books depend on.      *)
LEMMA BooksUntouched ==
    ASSUME TypeOK, TypeOK', LedgerInv,
           UNCHANGED <<account, session, points, loaded, load, balance, queue, results,
                       mutated, drift>>
    PROVE  LedgerInv'
<1>1. ResultsKept /\ Alone' /\ RowsExist' /\ \A t \in Slots : Delivers(t, 0)
  BY StandingKept
<1>2. PacksDiffer'
  BY <1>1, PacksWithNoMore DEF LedgerInv
<1>3. ASSUME NEW t \in Slots PROVE Booked(t)'
  <2>1. Aside(t)
    BY <1>1 DEF Aside, SameSeat
  <2> QED BY <2>1, AsideKeeps DEF LedgerInv
<1> QED BY <1>1, <1>2, <1>3 DEF LedgerInv

(* A client asks for its balance again.                                    *)
LEMMA AskLedger ==
    ASSUME TypeOK, TypeOK', Seated, LedgerInv, NEW s \in Slots, AskForBalance(s)
    PROVE  LedgerInv'
<1>1. /\ LoadClientBonusPoints(s) /\ account[s] # Nobody
      /\ UNCHANGED <<account, session, points, loaded, drift, balance, results>>
  BY DEF AskForBalance, Seated, clients, cache
<1>2. ResultsKept /\ \A t \in Slots : Delivers(t, 0)
  BY <1>1, StandingKept
<1> QED BY <1>1, <1>2, AskingKeeps DEF LedgerInv

(* A queued upsert moves the row of the one slot its account sits in.      *)
LEMMA UpsertMoves ==
    ASSUME LedgerInv, NEW s \in Slots, account[s] # Nobody, NEW n \in Int,
           NEW x \in Requests, x = Upsert(account[s], n)
    PROVE  /\ x.op = "upsert" /\ x.amount = n /\ Moves(x, s)
           /\ \A t \in Slots : Unconcerned(x, t) /\ ~OwnedBy(t, x)
           /\ \A t \in Slots \ {s} : account[t] # Nobody => ~Moves(x, t)
<1>1. x.op = "upsert" /\ x.amount = n /\ x.account = account[s]
  BY DEF Upsert
<1> QED BY <1>1 DEF Moves, Unconcerned, Stray, SentBy, OwnedBy, LedgerInv, Alone

(* A local update moves the cache and queues the same for the row.         *)
LEMMA ApplyLedger ==
    ASSUME TypeOK, TypeOK', Seated, LedgerInv, NEW s \in Slots, NEW n \in Int,
           ApplyBonusPointsNow(s, n)
    PROVE  LedgerInv'
<1>1. account[s] \in Accounts /\ account[s] # Nobody
  BY ReadyAccount DEF ApplyBonusPointsNow, AreBonusPointsReady
<1>2. PICK x \in Requests : x = Upsert(account[s], n)
  BY <1>1, UpsertType
<1>3. /\ queue' = Append(queue, x) /\ Touch({s})
      /\ points' = [points EXCEPT ![s] = AtLeastZero(points[s] + n)]
      /\ n < 0 => points[s] >= -n
      /\ UNCHANGED <<account, session, loaded, load, drift, balance, results>>
  BY <1>2 DEF ApplyBonusPointsNow, CanDebit, clients, loads
<1>4. /\ x.op = "upsert" /\ x.amount = n /\ Moves(x, s)
      /\ \A t \in Slots : Unconcerned(x, t) /\ ~OwnedBy(t, x)
      /\ \A t \in Slots \ {s} : account[t] # Nobody => ~Moves(x, t)
  BY <1>1, <1>2, UpsertMoves
<1>5. ResultsKept /\ Alone' /\ RowsExist' /\ \A t \in Slots : Delivers(t, 0)
  BY <1>3, StandingKept
<1>6. PacksDiffer'
  BY <1>3, <1>4, <1>5, PacksWithOneMore DEF LedgerInv
<1>7. points[s] \in Nat /\ points'[s] = points[s] + n
  BY <1>3 DEF TypeOK, AtLeastZero
<1>8. ASSUME NEW t \in Slots \ {s} PROVE Booked(t)'
  <2>1. CASE account[t] = Nobody
    BY <1>3, <2>1 DEF Booked
  <2>2. CASE account[t] # Nobody
    <3>1. points'[t] = points[t] /\ mutated'[t] = mutated[t]
      BY <1>3 DEF TypeOK, Touch
    <3>2. Aside(t)
      BY <1>3, <1>5, <3>1 DEF Aside, SameSeat
    <3> QED BY <1>3, <1>4, <2>2, <3>2, AsideKeeps DEF LedgerInv
  <2> QED BY <2>1, <2>2
<1>9. Booked(s)'
  <2>1. mutated[s] => mutated'[s]
    BY <1>3 DEF Touch
  <2>2. load[s] = Null \/ mutated'[s]
    BY <1>3 DEF Touch
  <2>3. Queues(s, n) /\ Marks(s)
    <3>1. n = (IF Moves(x, s) THEN x.amount ELSE 0)
      BY <1>4
    <3> QED BY <1>3, <1>4, <2>1, <2>2, <3>1, OneQueued
  <2>4. Settles(s, 0, n)
    BY <1>3, <1>7 DEF Settles
  <2>5. SameSeat(s) /\ load'[s] = load[s] /\ loaded'[s] = loaded[s] /\ balance' = balance
    BY <1>3 DEF SameSeat
  <2> QED BY <1>5, <2>3, <2>4, <2>5, SlotAdvances DEF LedgerInv
<1> QED BY <1>5, <1>6, <1>8, <1>9 DEF LedgerInv

(* Two requests more, of which a slot's row is moved by one at most.       *)
LEMMA TwoQueued ==
    ASSUME TypeOK, NEW x \in Requests, NEW y \in Requests, queue' = queue \o <<x, y>>
    PROVE  /\ Len(queue) \in Nat /\ Len(queue') = Len(queue) + 2
           /\ queue'[Len(queue) + 1] = x /\ queue'[Len(queue) + 2] = y
           /\ \A i \in 1..Len(queue) : queue'[i] = queue[i]
<1>1. queue \in Seq(Requests) /\ Append(queue, x) \in Seq(Requests)
  BY DEF TypeOK
<1>2. queue' = Append(Append(queue, x), y)
  BY <1>1
<1>3. PICK q \in Seq(Requests) : q = Append(queue, x)
  BY <1>1
<1>4. /\ Len(queue) \in Nat /\ Len(q) = Len(queue) + 1 /\ q[Len(queue) + 1] = x
      /\ \A i \in 1..Len(queue) : q[i] = queue[i]
  BY <1>1, <1>3, AppendAt
<1>5. /\ Len(queue') = Len(q) + 1 /\ queue'[Len(q) + 1] = y
      /\ \A i \in 1..Len(q) : queue'[i] = q[i]
  BY <1>2, <1>3, AppendAt
<1>6. /\ Len(q) + 1 = Len(queue) + 2 /\ Len(queue) + 1 \in 1..Len(q)
      /\ \A i \in 1..Len(queue) : i \in 1..Len(q)
  BY <1>4
<1> QED BY <1>4, <1>5, <1>6

(* Of two upserts in a row, each account has its own.                      *)
LEMMA TwoQueuedFor ==
    ASSUME TypeOK, NEW x \in Requests, NEW y \in Requests, queue' = queue \o <<x, y>>,
           NEW t \in Slots, Unconcerned(x, t), Unconcerned(y, t),
           ~OwnedBy(t, x), ~OwnedBy(t, y),
           ~Moves(x, t) \/ ~Moves(y, t),
           NEW w, w = (IF Moves(x, t) THEN x.amount ELSE IF Moves(y, t) THEN y.amount ELSE 0),
           mutated[t] => mutated'[t],
           load[t] = Null \/ mutated'[t] \/ (~Moves(x, t) /\ ~Moves(y, t))
    PROVE  Queues(t, w) /\ Marks(t)
<1>1. /\ Len(queue) \in Nat /\ Len(queue') = Len(queue) + 2
      /\ queue'[Len(queue) + 1] = x /\ queue'[Len(queue) + 2] = y
      /\ \A i \in 1..Len(queue) : queue'[i] = queue[i]
  BY TwoQueued
<1> DEFINE n == Len(queue)
<1>2. \A i \in (n + 1)..Len(queue') : \/ i = n + 1 /\ queue'[i] = x
                                      \/ i = n + 2 /\ queue'[i] = y
  BY <1>1
<1>3. /\ n + 1 \in (n + 1)..Len(queue') /\ n + 2 \in (n + 1)..Len(queue')
      /\ n + 1 \in Nat /\ n + 2 \in Nat /\ n + 1 # n + 2
  BY <1>1
<1>4. Marks(t)
  BY <1>2 DEF Marks
<1>5. CASE Moves(x, t)
  <2>1. GrowsAt(t, n + 1, w)
    BY <1>1, <1>2, <1>3, <1>5 DEF GrowsAt
  <2> QED BY <1>3, <1>4, <2>1 DEF Queues
<1>6. CASE ~Moves(x, t)
  <2>1. GrowsAt(t, n + 2, w)
    BY <1>1, <1>2, <1>3, <1>6 DEF GrowsAt
  <2> QED BY <1>3, <1>4, <2>1 DEF Queues
<1> QED BY <1>5, <1>6

(* A theft takes from one cache and row what it gives to another.          *)
LEMMA StealLedger ==
    ASSUME TypeOK, TypeOK', Seated, LedgerInv, NEW s \in Slots, NEW v \in Slots,
           NEW n \in StealAmounts, StealBonusPoints(s, v, n)
    PROVE  LedgerInv'
<1>1. PICK k \in Nat : k = Stealable(s, n)
  BY DEF Stealable, TypeOK
<1>2. /\ account[s] \in Accounts /\ account[s] # Nobody
      /\ account[v] \in Accounts /\ account[v] # Nobody /\ s # v
  BY ReadyAccount DEF StealBonusPoints, AreBonusPointsReady
<1>3. PICK x \in Requests : x = Upsert(account[s], -k)
  BY <1>2, UpsertType
<1>4. PICK y \in Requests : y = Upsert(account[v], k)
  BY <1>2, UpsertType
<1>5. /\ queue' = queue \o <<x, y>> /\ Touch({s, v})
      /\ points' = [points EXCEPT ![s] = points[s] - k, ![v] = points[v] + k]
      /\ UNCHANGED <<account, session, loaded, load, drift, balance, results>>
  BY <1>1, <1>2, <1>3, <1>4 DEF StealBonusPoints, clients, loads
<1>6. /\ x.op = "upsert" /\ x.amount = -k /\ Moves(x, s)
      /\ \A t \in Slots : Unconcerned(x, t) /\ ~OwnedBy(t, x)
      /\ \A t \in Slots \ {s} : account[t] # Nobody => ~Moves(x, t)
  BY <1>2, <1>3, UpsertMoves
<1>7. /\ y.op = "upsert" /\ y.amount = k /\ Moves(y, v)
      /\ \A t \in Slots : Unconcerned(y, t) /\ ~OwnedBy(t, y)
      /\ \A t \in Slots \ {v} : account[t] # Nobody => ~Moves(y, t)
  BY <1>2, <1>4, UpsertMoves
<1>8. ResultsKept /\ Alone' /\ RowsExist' /\ \A t \in Slots : Delivers(t, 0)
  BY <1>5, StandingKept
<1>9. PacksDiffer'
  <2>1. /\ Len(queue) \in Nat /\ Len(queue') = Len(queue) + 2
        /\ queue'[Len(queue) + 1] = x /\ queue'[Len(queue) + 2] = y
        /\ \A i \in 1..Len(queue) : queue'[i] = queue[i]
    BY <1>5, TwoQueued
  <2>2. \A i \in (Len(queue) + 1)..Len(queue') : i = Len(queue) + 1 \/ i = Len(queue) + 2
    BY <2>1
  <2>3. \A i \in (Len(queue) + 1)..Len(queue') : queue'[i].op # "select"
    BY <1>6, <1>7, <2>1, <2>2
  <2>4. Len(queue) <= Len(queue') /\ Len(queue') \in Nat
    BY <2>1
  <2> QED BY <1>8, <2>1, <2>3, <2>4, PacksStillDiffer DEF LedgerInv
<1>10. /\ points'[s] = points[s] - k /\ points'[v] = points[v] + k
       /\ points[s] \in Nat /\ points[v] \in Nat
  BY <1>2, <1>5 DEF TypeOK
<1>11. ASSUME NEW t \in Slots, account[t] # Nobody, NEW w \in Int,
              w = (IF Moves(x, t) THEN x.amount ELSE IF Moves(y, t) THEN y.amount ELSE 0),
              points'[t] = points[t] + w
       PROVE  Booked(t)'
  <2>1. /\ mutated[t] => mutated'[t]
        /\ load[t] = Null \/ mutated'[t] \/ (~Moves(x, t) /\ ~Moves(y, t))
    BY <1>5, <1>6, <1>7, <1>11 DEF Touch
  <2>2. ~Moves(x, t) \/ ~Moves(y, t)
    BY <1>2, <1>6, <1>7, <1>11
  <2>3. Queues(t, w) /\ Marks(t)
    BY <1>5, <1>6, <1>7, <1>11, <2>1, <2>2, TwoQueuedFor
  <2>4. Settles(t, 0, w)
    <3>1. points[t] \in Nat
      BY DEF TypeOK
    <3> QED BY <1>5, <1>11, <3>1 DEF Settles
  <2>5. SameSeat(t) /\ load'[t] = load[t] /\ loaded'[t] = loaded[t] /\ balance' = balance
    BY <1>5 DEF SameSeat
  <2> QED BY <1>8, <2>3, <2>4, <2>5, SlotAdvances DEF LedgerInv
<1>12. ASSUME NEW t \in Slots PROVE Booked(t)'
  <2>1. CASE account[t] = Nobody
    BY <1>5, <2>1 DEF Booked
  <2>2. CASE t = s
    <3>1. PICK w \in Int : w = -k
      OBVIOUS
    <3>2. points'[s] = points[s] + w
      BY <1>10, <3>1
    <3> QED BY <1>2, <1>6, <1>11, <2>2, <3>1, <3>2
  <2>3. CASE t = v
    <3>1. ~Moves(x, v)
      BY <1>2, <1>6
    <3> QED BY <1>2, <1>7, <1>10, <1>11, <2>3, <3>1
  <2>4. CASE account[t] # Nobody /\ t # s /\ t # v
    <3>1. ~Moves(x, t) /\ ~Moves(y, t)
      BY <1>6, <1>7, <2>4
    <3>2. points[t] \in Nat /\ points'[t] = points[t]
      BY <1>5, <2>4 DEF TypeOK
    <3>3. points'[t] = points[t] + 0 /\ 0 \in Int
      BY <3>2
    <3> QED BY <1>11, <2>4, <3>1, <3>3
  <2> QED BY <2>1, <2>2, <2>3, <2>4
<1> QED BY <1>8, <1>9, <1>12 DEF LedgerInv

(* What clients do keeps the books.                                        *)
LEMMA ClientStepLedger ==
    ASSUME TypeOK, TypeOK', Seated, LedgerInv, NEW s \in Slots, ClientStep(s)
    PROVE  LedgerInv'
<1>1. ASSUME OnClientPutInServer(s) PROVE LedgerInv'
  <2>1. UNCHANGED <<account, session, points, loaded, load, balance, queue, results,
                    mutated, drift>>
    BY <1>1 DEF OnClientPutInServer, cache, loads, channel, history
  <2> QED BY <2>1, BooksUntouched
<1>2. ASSUME NEW n \in GrantAmounts, ApplyBonusPointsNow(s, n) PROVE LedgerInv'
  <2>1. n \in Int
    OBVIOUS
  <2> QED BY <1>2, <2>1, ApplyLedger
<1>3. ASSUME NEW n \in SpendAmounts, ApplyBonusPointsNow(s, -n) PROVE LedgerInv'
  <2>1. PICK m \in Int : m = -n
    OBVIOUS
  <2>2. ApplyBonusPointsNow(s, m)
    BY <1>3, <2>1
  <2> QED BY <2>2, ApplyLedger
<1>4. \/ \E a \in Accounts : OnClientAuthorized(s, a)
      \/ OnClientPutInServer(s)
      \/ OnClientDisconnect(s)
      \/ AskForBalance(s)
      \/ \E n \in GrantAmounts : ApplyBonusPointsNow(s, n)
      \/ \E n \in SpendAmounts : ApplyBonusPointsNow(s, -n)
      \/ \E t \in Slots, n \in StealAmounts : StealBonusPoints(s, t, n)
      \/ \E n \in EscrowAmounts : QueueBountyPlacement(s, n)
  BY DEF ClientStep
<1> QED BY <1>1, <1>2, <1>3, <1>4, AuthorizedLedger, DisconnectLedger, AskLedger,
           StealLedger, PlacementLedger

------------------------------------------------------------------------------
(* What the worker does.                                                   *)

Answered(h, ok, v) == results' = Append(results, [request |-> h, ok |-> ok, value |-> v])

(* The row of the request's account, alone, becomes n.                     *)
RowBecomes(h, n) ==
    /\ balance'[h.account] = n
    /\ \A a \in Accounts : a # h.account => balance'[a] = balance[a]

(* The outcomes of a request.                                              *)
Upserting(h) ==
    /\ h.op = "upsert" /\ results' = results
    /\ RowBecomes(h, Upserted(balance[h.account], h.amount))
    /\ Blame(IF balance[h.account] # NoRow /\ balance[h.account] + h.amount < 0
             THEN HoldersOf(h.account) ELSE {}, "clamped")
Losing(h) ==
    /\ h.op = "upsert" /\ results' = results /\ balance' = balance
    /\ Blame(HoldersOf(h.account), "lost")
Fetching(h) ==
    /\ h.op = "select" /\ Answered(h, TRUE, Fetched(balance[h.account]))
    /\ balance' = balance /\ drift' = drift
Crediting(h) ==
    /\ h.op = "credit" /\ Answered(h, TRUE, 0)
    /\ RowBecomes(h, Upserted(balance[h.account], h.amount)) /\ drift' = drift
Placing(h) ==
    /\ h.op = "escrow" /\ Answered(h, TRUE, 1)
    /\ balance[h.account] # NoRow /\ balance[h.account] >= h.amount
    /\ RowBecomes(h, balance[h.account] - h.amount) /\ drift' = drift
Declining(h) ==
    /\ h.op = "escrow" /\ Answered(h, TRUE, 0)
    /\ balance' = balance /\ drift' = drift
Refusing(h) ==
    /\ h.op # "upsert" /\ Answered(h, FALSE, 0)
    /\ balance' = balance /\ drift' = drift

(* The worker's step has one of these outcomes.                            *)
LEMMA ExecuteOutcome ==
    ASSUME TypeOK, Execute, NEW h, h = Head(queue)
    PROVE  /\ h \in Requests /\ h.account \in Accounts /\ queue # << >> /\ queue' = Tail(queue)
           /\ UNCHANGED <<account, session, inGame, points, loaded, load, mutated>>
           /\ \/ Upserting(h) \/ Losing(h) \/ Fetching(h) \/ Crediting(h)
              \/ Placing(h) \/ Declining(h) \/ Refusing(h)
<1>1. queue \in Seq(Requests) /\ queue # << >>
  BY DEF TypeOK, Execute
<1>2. h \in Requests
  BY <1>1, HeadTailType
<1>3. h.account \in Accounts /\ h.op \in {"select", "upsert", "credit", "escrow"}
  BY <1>2 DEF Requests, Selects, Upserts, Credits, Escrows
<1>4. /\ queue' = Tail(queue) /\ (Accept(h) \/ Refuse(h))
      /\ UNCHANGED <<account, session, inGame, points, loaded, load, mutated>>
  BY DEF Execute, clients, cache, loads
<1>5. balance \in [Accounts -> Int \union {NoRow}]
  BY DEF TypeOK
<1>6. ASSUME Accept(h)
      PROVE  Upserting(h) \/ Fetching(h) \/ Crediting(h) \/ Placing(h) \/ Declining(h)
  <2>1. CASE h.op = "select"
    BY <1>6, <2>1 DEF Accept, Fetching, Answered
  <2>2. CASE h.op = "upsert"
    <3>1. /\ balance' = [balance EXCEPT ![h.account] = Upserted(balance[h.account], h.amount)]
          /\ results' = results
          /\ Blame(IF balance[h.account] # NoRow /\ balance[h.account] + h.amount < 0
                   THEN HoldersOf(h.account) ELSE {}, "clamped")
      BY <1>6, <2>2 DEF Accept
    <3>2. RowBecomes(h, Upserted(balance[h.account], h.amount))
      BY <1>3, <1>5, <3>1 DEF RowBecomes
    <3> QED BY <2>2, <3>1, <3>2 DEF Upserting
  <2>3. CASE h.op = "credit"
    <3>1. /\ balance' = [balance EXCEPT ![h.account] = Upserted(balance[h.account], h.amount)]
          /\ Answered(h, TRUE, 0) /\ drift' = drift
      BY <1>6, <2>3 DEF Accept, Answered
    <3>2. RowBecomes(h, Upserted(balance[h.account], h.amount))
      BY <1>3, <1>5, <3>1 DEF RowBecomes
    <3> QED BY <2>3, <3>1, <3>2 DEF Crediting
  <2>4. CASE h.op = "escrow"
    <3> DEFINE row == balance[h.account]
    <3>1. PICK admitted \in BOOLEAN :
            LET placed == admitted /\ row # NoRow /\ row >= h.amount
            IN  /\ balance' = [balance EXCEPT ![h.account] = IF placed THEN row - h.amount ELSE row]
                /\ Answered(h, TRUE, IF placed THEN 1 ELSE 0)
                /\ drift' = drift
      BY <1>6, <2>4 DEF Accept, Answered
    <3>2. CASE admitted /\ row # NoRow /\ row >= h.amount
      <4>1. balance' = [balance EXCEPT ![h.account] = row - h.amount]
        BY <3>1, <3>2
      <4>2. RowBecomes(h, row - h.amount)
        BY <1>3, <1>5, <4>1 DEF RowBecomes
      <4>3. Answered(h, TRUE, 1)
        BY <3>1, <3>2
      <4> QED BY <2>4, <3>1, <3>2, <4>2, <4>3 DEF Placing
    <3>3. CASE ~(admitted /\ row # NoRow /\ row >= h.amount)
      <4>1. balance' = [balance EXCEPT ![h.account] = row]
        BY <3>1, <3>3
      <4>2. balance' = balance
        BY <1>3, <1>5, <4>1
      <4>3. Answered(h, TRUE, 0)
        BY <3>1, <3>3
      <4> QED BY <2>4, <3>1, <4>2, <4>3 DEF Declining
    <3> QED BY <3>2, <3>3
  <2> QED BY <1>3, <2>1, <2>2, <2>3, <2>4
<1>7. ASSUME Refuse(h) PROVE Losing(h) \/ Refusing(h)
  BY <1>7 DEF Refuse, Losing, Refusing, Answered
<1> QED BY <1>1, <1>2, <1>3, <1>4, <1>6, <1>7

(* What the results gain is due to the slot once its callback has run.     *)
Gains(h, t, g) ==
    \/ results' = results /\ g = 0
    \/ \E r \in Results :
          /\ r.request = h /\ results' = Append(results, r) /\ g = Due(r, t)
          /\ h.op = "select" /\ r.ok =>
                r.value = Fetched(balance[h.account]) /\ balance' = balance

(* ... and with what leaves the queue it is what the row of the slot has   *)
(* gained, unless a cause is named.                                        *)
RowFollows(t, m, g) ==
    LET old == balance[account[t]]
        new == balance'[account[t]]
    IN  /\ drift'[t] \subseteq {"gap"} =>
              /\ drift[t] \subseteq {"gap"}
              /\ drift'[t] = {} => drift[t] = {}
              /\ Fetched(new) >= Fetched(old) + m + g
        /\ /\ Fetched(old) >= 0
           /\ old = NoRow => m >= 0
           /\ drift'[t] = {} \/ m = 0
           => /\ Fetched(new) = Fetched(old) + m + g
              /\ Fetched(new) >= 0
              /\ new = NoRow => old = NoRow /\ m = 0

(* The row of the slot takes what an answer brings, and blames nobody.     *)
RowTakes(t, g) ==
    LET old == balance[account[t]]
        new == balance'[account[t]]
    IN  /\ drift'[t] = drift[t]
        /\ \/ new = old /\ g = 0
           \/ /\ new \in Int /\ new >= Fetched(old) + g
              /\ Fetched(old) >= 0 => new = Fetched(old) + g /\ new >= 0

(* A row that takes what an answer brings follows it.                      *)
LEMMA TakenFollows ==
    ASSUME TypeOK, NEW t \in Slots, account[t] # Nobody, NEW g \in Int, RowTakes(t, g)
    PROVE  RowFollows(t, 0, g)
<1>1. balance[account[t]] \in Int \union {NoRow} /\ NoRow \notin Int
  BY DEF TypeOK
<1>2. PICK old : old = balance[account[t]]
  OBVIOUS
<1>3. PICK new : new = balance'[account[t]]
  OBVIOUS
<1>4. Fetched(old) \in Int
  BY <1>1, <1>2, FetchedType
<1>5. new \in Int => Fetched(new) = new /\ new # NoRow
  BY <1>1 DEF Fetched
<1>6. drift'[t] = drift[t]
  BY DEF RowTakes
<1>7. \/ new = old /\ g = 0
      \/ /\ new \in Int /\ new >= Fetched(old) + g
         /\ Fetched(old) >= 0 => new = Fetched(old) + g /\ new >= 0
  BY <1>2, <1>3 DEF RowTakes
<1>8. /\ Fetched(new) >= Fetched(old) + g
      /\ Fetched(old) >= 0 => /\ Fetched(new) = Fetched(old) + g /\ Fetched(new) >= 0
                              /\ new = NoRow => old = NoRow
  <2>1. CASE new = old /\ g = 0
    BY <1>4, <2>1
  <2>2. CASE new # old \/ g # 0
    BY <1>5, <1>7, <2>2
  <2> QED BY <2>1, <2>2
<1>9. g = 0 + g /\ Fetched(old) + 0 + g = Fetched(old) + g
  BY <1>4
<1> QED BY <1>2, <1>3, <1>6, <1>8, <1>9 DEF RowFollows

(* The worker answers h by r, and the row of the slot takes what is due.   *)
Answers(h, r) == r.request = h /\ results' = Append(results, r)
Answering(h, t, r, g) ==
    /\ h.op # "upsert" /\ Answers(h, r) /\ RowTakes(t, g) /\ g = Due(r, t)
    /\ h.op = "select" /\ r.ok => r.value = Fetched(balance[h.account]) /\ balance' = balance

(* Some gain accounts for what happens to the row of the slot.             *)
Accounted(h, t) ==
    \E m, g \in Int : /\ m = (IF Moves(h, t) THEN h.amount ELSE 0)
                      /\ Gains(h, t, g) /\ RowFollows(t, m, g)

(* An answer accounts for what happens to the row.                         *)
LEMMA AnsweredRow ==
    ASSUME TypeOK, NEW h \in Requests, NEW t \in Slots, account[t] # Nobody,
           NEW r \in Results, NEW g \in Int, Answering(h, t, r, g)
    PROVE  Accounted(h, t)
<1>1. Gains(h, t, g)
  BY DEF Answering, Answers, Gains
<1>2. RowFollows(t, 0, g)
  BY TakenFollows DEF Answering
<1>3. 0 = IF Moves(h, t) THEN h.amount ELSE 0
  BY DEF Moves, Answering
<1> QED BY <1>1, <1>2, <1>3 DEF Accounted

(* Every outcome does, for a slot the request does not stray into.         *)
LEMMA ExecuteRow ==
    ASSUME TypeOK, Execute, NEW h, h = Head(queue), NEW t \in Slots, account[t] # Nobody,
           OwnPlacements(t), ~Stray(h, t)
    PROVE  Accounted(h, t)
<1>1. /\ h \in Requests /\ h.account \in Accounts /\ account[t] \in Accounts
      /\ queue # << >>
      /\ \/ Upserting(h) \/ Losing(h) \/ Fetching(h) \/ Crediting(h)
         \/ Placing(h) \/ Declining(h) \/ Refusing(h)
  BY ExecuteOutcome DEF TypeOK
<1> DEFINE old == balance[account[t]]
           new == balance'[account[t]]
           m == IF Moves(h, t) THEN h.amount ELSE 0
<1>2. old \in Int \union {NoRow} /\ Fetched(old) \in Int /\ NoRow \notin Int
  BY <1>1, FetchedType DEF TypeOK
<1>3. h.op \in {"upsert", "credit", "escrow"} => h.amount \in Int
  BY <1>1, RequestKind DEF Upserts, Credits, Escrows
<1>4. h.op \in {"credit", "escrow"} => h.amount \in Nat
  BY <1>1, RequestKind DEF Credits, Escrows
<1>5. SentBy(h, t) => h.account = account[t]
  <2>1. h \in InFlight
    <3>1. queue \in Seq(Requests)
      BY DEF TypeOK
    <3>2. Len(queue) \in Nat \ {0} /\ h = queue[1]
      BY <1>1, <3>1, TailAt
    <3>3. 1 \in 1..Len(queue)
      BY <3>2
    <3> QED BY <3>2, <3>3, InFlightAt
  <2> QED BY <2>1 DEF OwnPlacements
<1>6. m \in Int
  BY <1>3 DEF Moves
<1>7. drift[t] \in SUBSET Causes
  BY DEF TypeOK
<1>8. \A r \in Results : Due(r, t) \in Int
  BY DueType
<1>10. CASE Upserting(h)
  <2>1. Gains(h, t, 0)
    BY <1>10 DEF Upserting, Gains
  <2>2. RowFollows(t, m, 0)
    <3>1. CASE h.account = account[t]
      <4>1. m = h.amount /\ new = Upserted(old, m)
        BY <1>10, <3>1 DEF Upserting, RowBecomes, Moves
      <4>2. drift'[t] = drift[t] \union (IF old # NoRow /\ old + m < 0 THEN {"clamped"} ELSE {})
        BY <1>10, <3>1, <4>1 DEF Upserting, Blame, HoldersOf
      <4> HIDE DEF old, new, m
      <4>3. old = NoRow => new = m /\ Fetched(old) = 0
        BY <1>2, <4>1 DEF Upserted, Fetched
      <4>4. old # NoRow => new = AtLeastZero(old + m) /\ Fetched(old) = old /\ old \in Int
        BY <1>2, <4>1 DEF Upserted, Fetched
      <4>5. new \in Int /\ Fetched(new) = new
        BY <1>2, <1>6, <4>3, <4>4, AtLeastZeroType DEF Fetched
      <4>6. old # NoRow => new >= old + m /\ new >= 0 /\ (old + m >= 0 => new = old + m)
        BY <1>6, <4>4 DEF AtLeastZero
      <4>7. drift'[t] \subseteq {"gap"} => drift[t] \subseteq {"gap"}
        BY <4>2
      <4>8. drift'[t] = {} => drift[t] = {}
        BY <4>2
      <4>9. old # NoRow /\ drift'[t] = {} => old + m >= 0
        BY <1>6, <4>2, <4>4
      <4> QED BY <1>2, <1>6, <4>3, <4>4, <4>5, <4>6, <4>7, <4>8, <4>9 DEF RowFollows, old, new
    <3>2. CASE h.account # account[t]
      <4>1. m = 0 /\ new = old
        BY <1>1, <1>10, <3>2 DEF Upserting, RowBecomes, Moves
      <4>2. drift'[t] = drift[t]
        BY <1>10, <3>2 DEF Upserting, Blame, HoldersOf
      <4> HIDE DEF old, new, m
      <4> QED BY <1>2, <4>1, <4>2 DEF RowFollows, old, new
    <3> QED BY <3>1, <3>2
  <2> QED BY <1>6, <2>1, <2>2 DEF Accounted
<1>11. CASE Losing(h)
  <2>1. Gains(h, t, 0)
    BY <1>11 DEF Losing, Gains
  <2>2. new = old
    BY <1>11 DEF Losing
  <2>3. drift'[t] = drift[t] \union (IF h.account = account[t] THEN {"lost"} ELSE {})
    BY <1>11 DEF Losing, Blame, HoldersOf
  <2>4. h.account # account[t] => m = 0
    BY DEF Moves
  <2> HIDE DEF old, new, m
  <2>5. RowFollows(t, m, 0)
    BY <1>2, <1>6, <2>2, <2>3, <2>4 DEF RowFollows, old, new
  <2> QED BY <1>6, <2>1, <2>5 DEF m, Accounted
<1> HIDE DEF m
<1>13. CASE Fetching(h)
  <2>1. PICK v \in Int : v = Fetched(balance[h.account])
    BY <1>1, FetchedType DEF TypeOK
  <2>2. PICK r \in Results : r.value = v /\ Answers(h, r)
    BY <1>1, <1>13, <2>1 DEF Fetching, Answered, Answers, Results
  <2>3. /\ h.op = "select" /\ balance' = balance /\ drift' = drift
    BY <1>13 DEF Fetching
  <2>4. Due(r, t) = 0
    BY <2>2, <2>3 DEF Answers, Due, SentBy
  <2>5. RowTakes(t, 0)
    BY <2>3 DEF RowTakes
  <2>6. Answering(h, t, r, 0)
    BY <2>1, <2>2, <2>3, <2>4, <2>5 DEF Answering
  <2> QED BY <1>1, <2>6, AnsweredRow
<1>14. CASE Crediting(h)
  <2>1. h.op = "credit" /\ drift' = drift
    BY <1>14 DEF Crediting
  <2>2. PICK r \in Results : r.ok /\ Answers(h, r)
    <3>1. [request |-> h, ok |-> TRUE, value |-> 0] \in Results
      BY <1>1 DEF Results
    <3>2. PICK r \in Results : r = [request |-> h, ok |-> TRUE, value |-> 0]
      BY <3>1
    <3>3. results' = Append(results, r)
      BY <1>14, <3>2 DEF Crediting, Answered
    <3>4. r.request = h /\ r.ok = TRUE /\ r.value = 0
      BY <3>2
    <3> QED BY <3>3, <3>4 DEF Answers
  <2>3. CASE h.account = account[t]
    <3>1. PICK g \in Nat : g = h.amount
      BY <1>4, <2>1
    <3>2. Due(r, t) = g
      BY <2>1, <2>2, <2>3, <3>1 DEF Due, Answers
    <3>3. new = Upserted(old, g)
      BY <1>14, <2>3, <3>1 DEF Crediting, RowBecomes
    <3> HIDE DEF old, new
    <3>4. old = NoRow => new = g /\ Fetched(old) = 0
      BY <1>2, <3>3 DEF Upserted, Fetched
    <3>5. old # NoRow => new = AtLeastZero(old + g) /\ Fetched(old) = old /\ old \in Int
      BY <1>2, <3>3 DEF Upserted, Fetched
    <3>6. /\ new \in Int /\ new >= Fetched(old) + g
          /\ Fetched(old) >= 0 => new = Fetched(old) + g /\ new >= 0
      BY <3>4, <3>5 DEF AtLeastZero
    <3>7. RowTakes(t, g)
      BY <2>1, <3>6 DEF RowTakes, old, new
    <3>8. g \in Int /\ Answering(h, t, r, g)
      BY <2>1, <2>2, <3>2, <3>7 DEF Answering
    <3> QED BY <1>1, <3>8, AnsweredRow
  <2>4. CASE h.account # account[t]
    <3>1. Due(r, t) = 0
      BY <2>1, <2>2, <2>4 DEF Due, SentBy, Answers
    <3>2. new = old
      BY <1>1, <1>14, <2>4 DEF Crediting, RowBecomes
    <3>3. RowTakes(t, 0)
      BY <2>1, <3>2 DEF RowTakes
    <3>4. Answering(h, t, r, 0)
      BY <2>1, <2>2, <3>1, <3>3 DEF Answering
    <3> QED BY <1>1, <3>4, AnsweredRow
  <2> QED BY <2>3, <2>4
<1>15. CASE Placing(h)
  <2>1. h.op = "escrow" /\ drift' = drift
    BY <1>15 DEF Placing
  <2>2. PICK r \in Results : r.ok /\ r.value = 1 /\ Answers(h, r)
    <3>1. [request |-> h, ok |-> TRUE, value |-> 1] \in Results
      BY <1>1 DEF Results
    <3>2. PICK r \in Results : r = [request |-> h, ok |-> TRUE, value |-> 1]
      BY <3>1
    <3>3. results' = Append(results, r)
      BY <1>15, <3>2 DEF Placing, Answered
    <3>4. r.request = h /\ r.ok = TRUE /\ r.value = 1
      BY <3>2
    <3> QED BY <3>3, <3>4 DEF Answers
  <2>3. CASE h.account = account[t]
    <3>1. SentBy(h, t)
      BY <2>1, <2>3 DEF Stray
    <3>2. PICK n \in Nat : n = h.amount
      BY <1>4, <2>1
    <3>3. PICK g \in Int : g = -n
      OBVIOUS
    <3>4. Due(r, t) = g
      BY <2>1, <2>2, <3>1, <3>2, <3>3 DEF Due, Answers
    <3>5. new = old - n /\ old # NoRow /\ old >= n
      BY <1>15, <2>3, <3>2 DEF Placing, RowBecomes
    <3> HIDE DEF old, new
    <3>6. old \in Int /\ Fetched(old) = old
      BY <1>2, <3>5 DEF Fetched
    <3>7. /\ new \in Int /\ new >= Fetched(old) + g
          /\ Fetched(old) >= 0 => new = Fetched(old) + g /\ new >= 0
      BY <3>3, <3>5, <3>6
    <3>8. RowTakes(t, g)
      BY <2>1, <3>7 DEF RowTakes, old, new
    <3>9. Answering(h, t, r, g)
      BY <2>1, <2>2, <3>4, <3>8 DEF Answering
    <3> QED BY <1>1, <3>9, AnsweredRow
  <2>4. CASE h.account # account[t]
    <3>1. ~SentBy(h, t)
      BY <1>5, <2>4
    <3>2. Due(r, t) = 0
      BY <2>1, <2>2, <3>1 DEF Due, Answers
    <3>3. new = old
      BY <1>1, <1>15, <2>4 DEF Placing, RowBecomes
    <3>4. RowTakes(t, 0)
      BY <2>1, <3>3 DEF RowTakes
    <3>5. Answering(h, t, r, 0)
      BY <2>1, <2>2, <3>2, <3>4 DEF Answering
    <3> QED BY <1>1, <3>5, AnsweredRow
  <2> QED BY <2>3, <2>4
<1>16. CASE Declining(h)
  <2>1. h.op = "escrow" /\ balance' = balance /\ drift' = drift
    BY <1>16 DEF Declining
  <2>2. PICK r \in Results : r.value = 0 /\ Answers(h, r)
    <3>1. [request |-> h, ok |-> TRUE, value |-> 0] \in Results
      BY <1>1 DEF Results
    <3>2. PICK r \in Results : r = [request |-> h, ok |-> TRUE, value |-> 0]
      BY <3>1
    <3>3. results' = Append(results, r)
      BY <1>16, <3>2 DEF Declining, Answered
    <3>4. r.request = h /\ r.ok = TRUE /\ r.value = 0
      BY <3>2
    <3> QED BY <3>3, <3>4 DEF Answers
  <2>3. Due(r, t) = 0
    BY <2>1, <2>2 DEF Due, Answers
  <2>4. RowTakes(t, 0)
    BY <2>1 DEF RowTakes
  <2>5. Answering(h, t, r, 0)
    BY <2>1, <2>2, <2>3, <2>4 DEF Answering
  <2> QED BY <1>1, <2>5, AnsweredRow
<1>17. CASE Refusing(h)
  <2>1. h.op # "upsert" /\ balance' = balance /\ drift' = drift
    BY <1>17 DEF Refusing
  <2>2. PICK r \in Results : r.value = 0 /\ ~r.ok /\ Answers(h, r)
    <3>1. [request |-> h, ok |-> FALSE, value |-> 0] \in Results
      BY <1>1 DEF Results
    <3>2. PICK r \in Results : r = [request |-> h, ok |-> FALSE, value |-> 0]
      BY <3>1
    <3>3. results' = Append(results, r)
      BY <1>17, <3>2 DEF Refusing, Answered
    <3>4. r.request = h /\ r.ok = FALSE /\ r.value = 0
      BY <3>2
    <3> QED BY <3>3, <3>4 DEF Answers
  <2>3. Due(r, t) = 0
    BY <2>2 DEF Due, Answers
  <2>4. RowTakes(t, 0)
    BY <2>1 DEF RowTakes
  <2>5. Answering(h, t, r, 0)
    BY <2>1, <2>2, <2>3, <2>4 DEF Answering
  <2> QED BY <1>1, <2>5, AnsweredRow
<1> QED BY <1>1, <1>10, <1>11, <1>13, <1>14, <1>15, <1>16, <1>17

(* Where what is in flight after the worker's step was before it.          *)
LEMMA ExecutePositions ==
    ASSUME TypeOK, Execute, NEW h, h = Head(queue)
    PROVE  /\ Len(queue) \in Nat \ {0} /\ Len(queue') = Len(queue) - 1
           /\ queue[1] = h /\ 1 \in 1..Len(queue)
           /\ \A j \in 1..Len(queue') :
                 j + 1 \in 1..Len(queue) /\ queue'[j] = queue[j + 1]
           /\ Len(results) \in Nat
           /\ \/ results' = results
              \/ \E r \in Results : /\ Answers(h, r) /\ Len(results') = Len(results) + 1
                                    /\ results'[Len(results) + 1] = r
                                    /\ \A i \in 1..Len(results) : results'[i] = results[i]
<1>1. /\ h \in Requests /\ queue # << >> /\ queue' = Tail(queue)
      /\ \/ Upserting(h) \/ Losing(h) \/ Fetching(h) \/ Crediting(h)
         \/ Placing(h) \/ Declining(h) \/ Refusing(h)
      /\ h.account \in Accounts
  BY ExecuteOutcome
<1>2. queue \in Seq(Requests) /\ results \in Seq(Results)
  BY DEF TypeOK
<1>3. /\ Len(queue) \in Nat \ {0} /\ Len(queue') = Len(queue) - 1 /\ queue[1] = h
      /\ \A i \in 1..Len(queue') : queue'[i] = queue[i + 1]
  BY <1>1, <1>2, TailAt
<1>4. 1 \in 1..Len(queue) /\ \A j \in 1..Len(queue') : j + 1 \in 1..Len(queue)
  BY <1>3
<1>5. \/ results' = results
      \/ \E r \in Results : Answers(h, r)
  <2>1. CASE Upserting(h) \/ Losing(h)
    BY <2>1 DEF Upserting, Losing
  <2>2. CASE Fetching(h)
    <3>1. Fetched(balance[h.account]) \in Int
      BY <1>1, FetchedType DEF TypeOK
    <3>2. PICK v \in Int : v = Fetched(balance[h.account])
      BY <3>1
    <3>3. PICK r \in Results : r = [request |-> h, ok |-> TRUE, value |-> v]
      BY <1>1 DEF Results
    <3>4. Answers(h, r)
      BY <2>2, <3>2, <3>3 DEF Fetching, Answered, Answers
    <3> QED BY <3>4
  <2>3. CASE Crediting(h) \/ Declining(h)
    <3>0. [request |-> h, ok |-> TRUE, value |-> 0] \in Results
      BY <1>1 DEF Results
    <3>1. PICK r \in Results : r = [request |-> h, ok |-> TRUE, value |-> 0]
      BY <3>0
    <3>2. Answers(h, r)
      BY <2>3, <3>1 DEF Crediting, Declining, Answered, Answers
    <3> QED BY <3>2
  <2>4. CASE Placing(h)
    <3>0. [request |-> h, ok |-> TRUE, value |-> 1] \in Results
      BY <1>1 DEF Results
    <3>1. PICK r \in Results : r = [request |-> h, ok |-> TRUE, value |-> 1]
      BY <3>0
    <3>2. Answers(h, r)
      BY <2>4, <3>1 DEF Placing, Answered, Answers
    <3> QED BY <3>2
  <2>5. CASE Refusing(h)
    <3>0. [request |-> h, ok |-> FALSE, value |-> 0] \in Results
      BY <1>1 DEF Results
    <3>1. PICK r \in Results : r = [request |-> h, ok |-> FALSE, value |-> 0]
      BY <3>0
    <3>2. Answers(h, r)
      BY <2>5, <3>1 DEF Refusing, Answered, Answers
    <3> QED BY <3>2
  <2> QED BY <1>1, <2>1, <2>2, <2>3, <2>4, <2>5
<1>6. ASSUME NEW r \in Results, Answers(h, r)
      PROVE  /\ Len(results') = Len(results) + 1 /\ results'[Len(results) + 1] = r
             /\ \A i \in 1..Len(results) : results'[i] = results[i]
  BY <1>2, <1>6, AppendAt DEF Answers
<1>7. Len(results) \in Nat
  BY InFlightAt
<1> QED BY <1>3, <1>4, <1>5, <1>6, <1>7

(* A result after the step stood there before it or answers the head.      *)
KeptAt(k) == k \in 1..Len(results) /\ results'[k] = results[k]
AnswersAt(h, k) ==
    /\ k = Len(results) + 1 /\ Len(results') = k
    /\ results'[k] \in Results /\ Answers(h, results'[k])

(* ... and nothing else is among the results.                              *)
LEMMA ExecuteResults ==
    ASSUME TypeOK, Execute, NEW h, h = Head(queue)
    PROVE  /\ Len(results) \in Nat /\ Len(results') \in Nat
           /\ \A k \in 1..Len(results') : KeptAt(k) \/ AnswersAt(h, k)
<1>1. Len(results) \in Nat
  BY InFlightAt
<1>2. CASE results' = results
  BY <1>1, <1>2 DEF KeptAt
<1>3. CASE \E r \in Results :
              /\ Answers(h, r) /\ Len(results') = Len(results) + 1
              /\ results'[Len(results) + 1] = r
              /\ \A i \in 1..Len(results) : results'[i] = results[i]
  <2>1. PICK r \in Results :
              /\ Answers(h, r) /\ Len(results') = Len(results) + 1
              /\ results'[Len(results) + 1] = r
              /\ \A i \in 1..Len(results) : results'[i] = results[i]
    BY <1>3
  <2>2. AnswersAt(h, Len(results) + 1)
    BY <2>1 DEF AnswersAt
  <2>3. \A k \in 1..Len(results) : KeptAt(k)
    BY <2>1 DEF KeptAt
  <2>4. \A k \in 1..Len(results') : k \in 1..Len(results) \/ k = Len(results) + 1
    BY <1>1, <2>1
  <2> QED BY <1>1, <2>1, <2>2, <2>3, <2>4
<1> QED BY <1>2, <1>3, ExecutePositions

(* What is in flight after the step was in flight before it.               *)
LEMMA ExecuteInFlight ==
    ASSUME TypeOK, TypeOK', Execute, NEW r \in InFlight'
    PROVE  r \in InFlight
<1>1. PICK h : h = Head(queue)
  OBVIOUS
<1>2. h \in InFlight
  <2>1. queue[1] = h /\ 1 \in 1..Len(queue)
    BY <1>1, ExecutePositions
  <2> QED BY <2>1, InFlightAt
<1>3. /\ DOMAIN queue' = 1..Len(queue') /\ DOMAIN results' = 1..Len(results')
  BY LenProperties DEF TypeOK
<1>4. \/ \E i \in 1..Len(queue') : r = queue'[i]
      \/ \E i \in 1..Len(results') : r = results'[i].request
  BY <1>3 DEF InFlight, Elements
<1>5. ASSUME NEW i \in 1..Len(queue'), r = queue'[i] PROVE r \in InFlight
  <2>1. i + 1 \in 1..Len(queue) /\ queue'[i] = queue[i + 1]
    BY <1>1, ExecutePositions
  <2>2. queue[i + 1] \in InFlight
    BY <2>1, InFlightAt
  <2> QED BY <1>5, <2>1, <2>2
<1>6. ASSUME NEW i \in 1..Len(results'), r = results'[i].request PROVE r \in InFlight
  <2>1. KeptAt(i) \/ AnswersAt(h, i)
    BY <1>1, ExecuteResults
  <2>2. CASE KeptAt(i)
    <3>1. results[i].request \in InFlight
      BY <2>2, InFlightAt DEF KeptAt
    <3> QED BY <1>6, <2>2, <3>1 DEF KeptAt
  <2>3. CASE AnswersAt(h, i)
    BY <1>2, <1>6, <2>3 DEF AnswersAt, Answers
  <2> QED BY <2>1, <2>2, <2>3
<1> QED BY <1>4, <1>5, <1>6

(* An executed SELECT keeps its pack to itself.                            *)
LEMMA ExecutePacks ==
    ASSUME TypeOK, Execute, PacksDiffer PROVE PacksDiffer'
<1>1. PICK h : h = Head(queue)
  OBVIOUS
<1>2. /\ queue[1] = h /\ 1 \in 1..Len(queue)
      /\ \A j \in 1..Len(queue') : j + 1 \in 1..Len(queue) /\ queue'[j] = queue[j + 1]
  BY <1>1, ExecutePositions
<1>3. \A k \in 1..Len(results') : KeptAt(k) \/ AnswersAt(h, k)
  BY <1>1, ExecuteResults
<1>4. ASSUME NEW i \in 1..Len(queue'), NEW j \in 1..Len(queue'),
             SamePack(queue'[i], queue'[j])
      PROVE  i = j
  <2>1. i + 1 = j + 1
    BY <1>2, <1>4 DEF PacksDiffer
  <2> QED BY <2>1
<1>5. ASSUME NEW i \in 1..Len(results'), NEW j \in 1..Len(results'),
             SamePack(results'[i].request, results'[j].request)
      PROVE  i = j
  <2>1. CASE KeptAt(i) /\ KeptAt(j)
    BY <1>5, <2>1 DEF KeptAt, PacksDiffer
  <2>2. CASE AnswersAt(h, i) /\ AnswersAt(h, j)
    BY <2>2 DEF AnswersAt
  <2>3. CASE KeptAt(i) /\ AnswersAt(h, j)
    <3>1. SamePack(results[i].request, queue[1]) /\ i \in 1..Len(results)
      BY <1>2, <1>5, <2>3 DEF KeptAt, AnswersAt, Answers
    <3> QED BY <1>2, <3>1 DEF PacksDiffer
  <2>4. CASE AnswersAt(h, i) /\ KeptAt(j)
    <3>1. SamePack(results[j].request, queue[1]) /\ j \in 1..Len(results)
      BY <1>2, <1>5, <2>4 DEF KeptAt, AnswersAt, Answers, SamePack
    <3> QED BY <1>2, <3>1 DEF PacksDiffer
  <2> QED BY <1>3, <2>1, <2>2, <2>3, <2>4
<1>6. ASSUME NEW i \in 1..Len(results'), NEW j \in 1..Len(queue'),
             SamePack(results'[i].request, queue'[j])
      PROVE  FALSE
  <2>1. j + 1 \in 1..Len(queue) /\ queue'[j] = queue[j + 1] /\ j + 1 # 1
    BY <1>2
  <2>2. CASE KeptAt(i)
    <3>1. ~SamePack(results[i].request, queue[j + 1])
      BY <2>1, <2>2 DEF KeptAt, PacksDiffer
    <3> QED BY <1>6, <2>1, <2>2, <3>1 DEF KeptAt
  <2>3. CASE AnswersAt(h, i)
    <3>1. SamePack(queue[1], queue[j + 1])
      BY <1>2, <1>6, <2>1, <2>3 DEF AnswersAt, Answers
    <3> QED BY <1>2, <2>1, <3>1 DEF PacksDiffer
  <2> QED BY <1>3, <2>2, <2>3
<1> QED BY <1>4, <1>5, <1>6 DEF PacksDiffer, SamePack

(* The worker removes no row, and leaves one where it answers yes.         *)
LEMMA ExecuteRows ==
    ASSUME TypeOK, Execute, RowsExist PROVE RowsExist'
<1>1. PICK h : h = Head(queue)
  OBVIOUS
<1>2. /\ h \in Requests /\ h.account \in Accounts
      /\ \/ Upserting(h) \/ Losing(h) \/ Fetching(h) \/ Crediting(h)
         \/ Placing(h) \/ Declining(h) \/ Refusing(h)
  BY <1>1, ExecuteOutcome
<1>3. balance \in [Accounts -> Int \union {NoRow}] /\ NoRow \notin Int
  BY DEF TypeOK
<1>4. h.op \in {"upsert", "credit", "escrow"} => h.amount \in Int
  BY <1>2, RequestKind DEF Upserts, Credits, Escrows
<1>5. ASSUME NEW row \in Int \union {NoRow}, NEW n \in Int PROVE Upserted(row, n) \in Int
  BY AtLeastZeroType DEF Upserted
<1>6. ASSUME NEW a \in Accounts, balance[a] # NoRow PROVE balance'[a] # NoRow
  <2>1. CASE a # h.account \/ balance' = balance
    BY <1>2, <1>6, <2>1 DEF Upserting, Losing, Fetching, Crediting, Placing, Declining,
                            Refusing, RowBecomes
  <2>2. CASE a = h.account /\ (Upserting(h) \/ Crediting(h))
    <3>1. balance'[a] = Upserted(balance[a], h.amount) /\ h.amount \in Int
      BY <1>4, <2>2 DEF Upserting, Crediting, RowBecomes
    <3>2. PICK row \in Int \union {NoRow} : row = balance[a]
      BY <1>3
    <3>3. Upserted(row, h.amount) \in Int
      BY <1>5, <3>1
    <3> QED BY <1>3, <3>1, <3>2, <3>3
  <2>3. CASE a = h.account /\ Placing(h)
    <3>1. balance'[a] = balance[a] - h.amount /\ h.amount \in Int
      BY <1>4, <2>3 DEF Placing, RowBecomes
    <3> QED BY <1>3, <1>6, <3>1
  <2> QED BY <1>2, <2>1, <2>2, <2>3 DEF Losing, Fetching, Declining, Refusing
<1>7. ASSUME NEW r, r.request = h, results' = Append(results, r), WentThrough(r),
             r = results'[Len(results')], Len(results') = Len(results) + 1
      PROVE  balance'[h.account] # NoRow
  <2>1. CASE Crediting(h)
    <3>1. balance'[h.account] = Upserted(balance[h.account], h.amount) /\ h.amount \in Int
      BY <1>4, <2>1 DEF Crediting, RowBecomes
    <3>2. PICK row \in Int \union {NoRow} : row = balance[h.account]
      BY <1>2, <1>3
    <3>3. Upserted(row, h.amount) \in Int
      BY <1>5, <3>1
    <3> QED BY <1>3, <3>1, <3>2, <3>3
  <2>2. CASE Placing(h)
    <3>1. /\ balance'[h.account] = balance[h.account] - h.amount /\ h.amount \in Int
          /\ balance[h.account] # NoRow
      BY <1>4, <2>2 DEF Placing, RowBecomes
    <3> QED BY <1>2, <1>3, <3>1
  <2>3. CASE Upserting(h) \/ Losing(h) \/ Fetching(h)
    BY <1>7, <2>3 DEF Upserting, Losing, Fetching, WentThrough
  <2>4. ASSUME NEW ok, NEW v, results' = Append(results, [request |-> h, ok |-> ok, value |-> v])
        PROVE  r.ok = ok /\ r.value = v
    <3>1. PICK q : q = [request |-> h, ok |-> ok, value |-> v]
      OBVIOUS
    <3>2. q.ok = ok /\ q.value = v
      BY <3>1
    <3>3. results \in Seq(Results)
      BY DEF TypeOK
    <3>4. results'[Len(results) + 1] = q
      BY <2>4, <3>1, <3>3, AppendProperties
    <3> QED BY <1>7, <3>2, <3>4
  <2>5. CASE Declining(h)
    <3>1. r.value = 0
      BY <2>4, <2>5 DEF Declining, Answered
    <3> QED BY <1>7, <2>5, <3>1 DEF Declining, WentThrough
  <2>6. CASE Refusing(h)
    <3>1. r.value = 0 /\ ~r.ok
      BY <2>4, <2>6 DEF Refusing, Answered
    <3> QED BY <1>7, <3>1 DEF WentThrough
  <2> QED BY <1>2, <2>1, <2>2, <2>3, <2>5, <2>6
<1>8. ASSUME NEW k \in 1..Len(results'), WentThrough(results'[k])
      PROVE  balance'[results'[k].request.account] # NoRow
  <2>1. CASE KeptAt(k)
    <3>1. balance[results[k].request.account] # NoRow
      BY <1>8, <2>1 DEF KeptAt, RowsExist
    <3>2. results[k].request.account \in Accounts
      <4>1. results[k].request \in Requests
        BY <2>1, InFlightAt DEF KeptAt
      <4>2. PICK q \in Requests : q = results[k].request
        BY <4>1
      <4>3. q.op \in {"credit", "escrow"}
        BY <1>8, <2>1, <4>2 DEF KeptAt, WentThrough
      <4>4. q.account \in Accounts
        BY <4>3, RequestKind DEF Credits, Escrows
      <4> QED BY <4>2, <4>4
    <3> QED BY <1>6, <2>1, <3>1, <3>2 DEF KeptAt
  <2>2. CASE AnswersAt(h, k)
    BY <1>7, <1>8, <2>2 DEF AnswersAt, Answers
  <2> QED BY <1>1, <2>1, <2>2, ExecuteResults
<1> QED BY <1>8 DEF RowsExist, WentThrough

(* The worker's step leaves the slots alone.                               *)
LEMMA ExecuteFrame ==
    ASSUME TypeOK, Execute, NEW t \in Slots
    PROVE  /\ SameSeat(t) /\ load'[t] = load[t] /\ loaded'[t] = loaded[t]
           /\ points'[t] = points[t] /\ mutated'[t] = mutated[t]
           /\ queue # << >> /\ queue' = Tail(queue)
BY DEF Execute, clients, cache, loads, SameSeat

(* A request that strays from the account of a slot is in nobody's way:    *)
(* the slot shows nothing, and its SELECT is queued behind the request.    *)
LEMMA StrayedPast ==
    ASSUME TypeOK, NEW t \in Slots, NoStrays(t), NothingLate(t),
           NEW h, queue # << >>, h = queue[1], 1 \in 1..Len(queue), Stray(h, t)
    PROVE  /\ ~loaded[t] /\ ~OwnedBy(t, h)
           /\ \A k \in 1..Len(results) : ~OwnedBy(t, results[k].request)
<1>1. ~loaded[t]
  BY DEF NoStrays
<1>2. ~OwnedBy(t, h)
  BY DEF Stray, OwnedBy
<1>3. ASSUME NEW k \in 1..Len(results), OwnedBy(t, results[k].request) PROVE FALSE
  BY <1>3 DEF NothingLate, Late
<1> QED BY <1>1, <1>2, <1>3

(* What was queued behind a SELECT is queued behind its answer.            *)
LEMMA ExecuteLate ==
    ASSUME TypeOK, Execute, NEW t \in Slots, NothingLate(t) PROVE NothingLate(t)'
<1>1. PICK h : h = Head(queue)
  OBVIOUS
<1>2. /\ Len(queue) \in Nat \ {0} /\ Len(queue') = Len(queue) - 1
      /\ queue[1] = h /\ 1 \in 1..Len(queue)
      /\ \A j \in 1..Len(queue') : j + 1 \in 1..Len(queue) /\ queue'[j] = queue[j + 1]
  BY <1>1, ExecutePositions
<1>3. \A k \in 1..Len(results') : KeptAt(k) \/ AnswersAt(h, k)
  BY <1>1, ExecuteResults
<1>4. SameSeat(t) /\ load'[t] = load[t] /\ mutated'[t] = mutated[t]
  BY ExecuteFrame
<1>5. ASSUME NEW j \in 1..Len(queue'), ~Late(queue[j + 1], t) PROVE ~Late(queue[j], t)'
  BY <1>2, <1>4, <1>5 DEF Late, Stray, SentBy, Moves, SameSeat
<1>6. ASSUME NEW k \in 1..Len(results'), OwnedBy(t, results[k].request)',
             NEW j \in 1..Len(queue')
      PROVE  ~Late(queue[j], t)'
  <2>1. OwnedBy(t, results'[k].request)
    BY <1>4, <1>6 DEF OwnedBy
  <2>2. j + 1 \in 1..Len(queue) /\ j + 1 > 1
    BY <1>2
  <2>3. CASE KeptAt(k)
    <3>1. k \in 1..Len(results) /\ OwnedBy(t, results[k].request)
      BY <2>1, <2>3 DEF KeptAt
    <3>2. ~Late(queue[j + 1], t)
      BY <2>2, <3>1 DEF NothingLate
    <3> QED BY <1>5, <3>2
  <2>4. CASE AnswersAt(h, k)
    <3>1. OwnedBy(t, queue[1])
      BY <1>2, <2>1, <2>4 DEF AnswersAt, Answers
    <3>2. ~Late(queue[j + 1], t)
      BY <1>2, <2>2, <3>1 DEF NothingLate
    <3> QED BY <1>5, <3>2
  <2> QED BY <1>3, <2>3, <2>4
<1>7. ASSUME NEW k \in 1..Len(queue'), OwnedBy(t, queue[k])',
             NEW j \in 1..Len(queue'), j > k
      PROVE  ~Late(queue[j], t)'
  <2>1. OwnedBy(t, queue[k + 1]) /\ k + 1 \in 1..Len(queue)
    BY <1>2, <1>4, <1>7 DEF OwnedBy
  <2>2. j + 1 \in 1..Len(queue) /\ j + 1 > k + 1
    BY <1>2, <1>7
  <2>3. ~Late(queue[j + 1], t)
    BY <2>1, <2>2 DEF NothingLate
  <2> QED BY <1>5, <2>3
<1> QED BY <1>6, <1>7 DEF NothingLate

(* The worker adds nothing to the queue.                                   *)
LEMMA ExecuteStrays ==
    ASSUME TypeOK, Execute, NEW t \in Slots, NoStrays(t) PROVE NoStrays(t)'
<1>1. PICK h : h = Head(queue)
  OBVIOUS
<1>2. \A j \in 1..Len(queue') : j + 1 \in 1..Len(queue) /\ queue'[j] = queue[j + 1]
  BY <1>1, ExecutePositions
<1>3. SameSeat(t) /\ load'[t] = load[t] /\ loaded'[t] = loaded[t]
  BY ExecuteFrame
<1> SUFFICES ASSUME loaded[t] \/ load[t] = Null, NEW j \in 1..Len(queue')
             PROVE  ~Stray(queue[j], t)'
  BY <1>3 DEF NoStrays
<1>4. ~Stray(queue[j + 1], t)
  BY <1>2 DEF NoStrays
<1> QED BY <1>2, <1>3, <1>4 DEF Stray, SentBy, SameSeat

(* The answers to come to an unmarked SELECT stay those of the row.        *)
LEMMA ExecuteAnswers ==
    ASSUME TypeOK, TypeOK', LoadIsOwned, Execute, NEW t \in Slots, account[t] # Nobody,
           OwnPlacements(t), NoStrays(t), NothingLate(t), AnswersAdd(t)
    PROVE  AnswersAdd(t)'
<1>1. PICK h : h = Head(queue)
  OBVIOUS
<1>2. /\ Len(queue) \in Nat \ {0} /\ queue[1] = h /\ 1 \in 1..Len(queue)
  BY <1>1, ExecutePositions
<1>3. /\ Len(results) \in Nat /\ Len(results') \in Nat
      /\ \A k \in 1..Len(results') : KeptAt(k) \/ AnswersAt(h, k)
  BY <1>1, ExecuteResults
<1>4. /\ SameSeat(t) /\ load'[t] = load[t] /\ mutated'[t] = mutated[t]
      /\ account'[t] = account[t] /\ session'[t] = session[t] /\ queue # << >>
  BY ExecuteFrame DEF SameSeat
<1> DEFINE row == balance[account[t]]
           now == balance'[account[t]]
<1> SUFFICES ASSUME ~mutated[t], NEW k \in 1..Len(results'),
                    OwnedBy(t, results'[k].request), results'[k].ok,
                    results'[k].value >= 0
             PROVE  /\ Fetched(now) >= 0
                    /\ \E x \in Int : /\ DueIs(t, k, x)'
                                      /\ results'[k].value + x = Fetched(now)
  BY <1>4 DEF AnswersAdd, SameSeat, OwnedBy, Fetched
<1>5. CASE KeptAt(k)
  <2>1. /\ k \in 1..Len(results) /\ results'[k] = results[k]
        /\ OwnedBy(t, results[k].request)
    BY <1>5 DEF KeptAt
  <2>2. ~Late(h, t)
    BY <1>2, <2>1 DEF NothingLate
  <2>3. ~Stray(h, t) /\ ~Moves(h, t)
    BY <2>2 DEF Late
  <2>4. PICK m, g \in Int : /\ m = (IF Moves(h, t) THEN h.amount ELSE 0)
                            /\ Gains(h, t, g) /\ RowFollows(t, m, g)
    BY <1>1, <2>3, ExecuteRow DEF Accounted
  <2>5. m = 0
    BY <2>3, <2>4
  <2>6. Fetched(row) >= 0
    BY <2>1 DEF AnswersAdd
  <2>7. PICK x \in Int : DueIs(t, k, x) /\ results[k].value + x = Fetched(row)
    BY <2>1 DEF AnswersAdd
  <2>8. Fetched(now) = Fetched(row) + 0 + g /\ Fetched(now) >= 0
    <3>1. PICK old : old = row
      OBVIOUS
    <3>2. PICK new : new = now
      OBVIOUS
    <3>3. Fetched(new) = Fetched(old) + m + g /\ Fetched(new) >= 0
      BY <2>4, <2>5, <2>6, <3>1, <3>2 DEF RowFollows
    <3> QED BY <2>5, <3>1, <3>2, <3>3
  <2>9. DueIs(t, k, x + g)'
    <3>1. CASE results' = results /\ g = 0
      <4>1. DueIs(t, k, x)'
        BY <1>4, <2>7, <3>1, DuesSame
      <4>2. x + g = x
        BY <3>1
      <4> QED BY <4>1, <4>2
    <3>2. CASE \E r \in Results : results' = Append(results, r) /\ g = Due(r, t)
      <4>1. PICK r \in Results : results' = Append(results, r) /\ g = Due(r, t)
        BY <3>2
      <4>2. k \in Nat /\ k <= Len(results)
        BY <2>1
      <4> QED BY <1>4, <2>7, <4>1, <4>2, DuesAppended
    <3> QED BY <2>4, <3>1, <3>2 DEF Gains
  <2>10. results'[k].value + (x + g) = Fetched(now)
    <3>1. results[k].value \in Int
      BY <2>1, InFlightAt DEF Results
    <3>2. balance[account[t]] \in Int \union {NoRow}
      BY DEF TypeOK
    <3>3. Fetched(row) \in Int
      BY <3>2, FetchedType
    <3> HIDE DEF row, now
    <3> QED BY <2>1, <2>7, <2>8, <3>1, <3>3
  <2> QED BY <2>8, <2>9, <2>10
<1>6. CASE AnswersAt(h, k)
  <2>1. OwnedBy(t, h) /\ h.op = "select"
    BY <1>6 DEF AnswersAt, Answers, OwnedBy
  <2>2. h.account = account[t]
    <3>1. load[t] # Null
      <4>1. h \in Requests
        BY <1>1, <1>2, InFlightAt
      <4> QED BY <2>1, <4>1, RequestKind DEF OwnedBy, Selects
    <3>2. h \in InFlight
      BY <1>2, InFlightAt
    <3> QED BY <2>1, <3>1, <3>2 DEF LoadIsOwned
  <2>3. ~Stray(h, t)
    BY <2>1 DEF Stray
  <2>4. PICK m, g \in Int : /\ m = (IF Moves(h, t) THEN h.amount ELSE 0)
                            /\ Gains(h, t, g) /\ RowFollows(t, m, g)
    BY <1>1, <2>3, ExecuteRow DEF Accounted
  <2>5. PICK r \in Results : /\ r.request = h /\ results' = Append(results, r)
                             /\ h.op = "select" /\ r.ok =>
                                   /\ r.value = Fetched(balance[h.account])
                                   /\ balance' = balance
    <3>1. results' # results
      BY <1>6 DEF AnswersAt
    <3> QED BY <2>4, <3>1 DEF Gains
  <2>6. results'[k] = r /\ k = Len(results')
    <3>1. results \in Seq(Results)
      BY DEF TypeOK
    <3>2. results'[Len(results) + 1] = r
      BY <2>5, <3>1, AppendAt
    <3> QED BY <1>6, <3>2 DEF AnswersAt
  <2>7. results'[k].value = Fetched(now)
    BY <2>1, <2>2, <2>5, <2>6
  <2>8. DueIs(t, k, 0)'
    <3>1. \A i \in 1..Len(results') : Dues(t, k)'[i] = 0
      BY <1>3, <2>6 DEF Dues
    <3>2. SumsTo(Dues(t, k)', Len(results'), 0)
      BY <1>3, <3>1, ZerosSum
    <3> QED BY <3>2 DEF DueIs
  <2>9. r.value \in Int
    BY DEF Results
  <2>10. results'[k].value + 0 = Fetched(now) /\ Fetched(now) >= 0
    BY <2>6, <2>7, <2>9
  <2> QED BY <2>8, <2>10
<1> QED BY <1>3, <1>5, <1>6

(* A loaded cache keeps adding up as the row takes what was queued.        *)
LEMMA ExecuteCache ==
    ASSUME TypeOK, TypeOK', Execute, NEW t \in Slots, account[t] # Nobody,
           OwnPlacements(t), NoStrays(t), CacheAdds(t)
    PROVE  CacheAdds(t)'
<1>1. PICK h : h = Head(queue)
  OBVIOUS
<1>2. /\ Len(queue) \in Nat \ {0} /\ queue[1] = h /\ 1 \in 1..Len(queue)
  BY <1>1, ExecutePositions
<1>3. /\ loaded'[t] = loaded[t] /\ points'[t] = points[t]
      /\ account'[t] = account[t] /\ session'[t] = session[t]
      /\ queue # << >> /\ queue' = Tail(queue)
  BY ExecuteFrame DEF SameSeat
<1>4. PICK old : old = balance[account[t]]
  OBVIOUS
<1>5. PICK new : new = balance'[account[t]]
  OBVIOUS
<1> SUFFICES ASSUME loaded[t], drift'[t] \subseteq {"gap"}
             PROVE  \E x, y \in Int :
                      /\ DueIs(t, 0, x)' /\ MovedIs(t, y)'
                      /\ points[t] + x <= Fetched(new) + y
                      /\ drift'[t] = {} =>
                           /\ points[t] + x = Fetched(new) + y
                           /\ Fetched(new) >= 0
                           /\ new = NoRow => MovedStaysUp(t, y)'
  BY <1>3, <1>5 DEF CacheAdds, Fetched
<1>6. ~Stray(h, t)
  BY <1>2 DEF NoStrays
<1>7. PICK m, g \in Int : /\ m = (IF Moves(h, t) THEN h.amount ELSE 0)
                          /\ Gains(h, t, g) /\ RowFollows(t, m, g)
  BY <1>1, <1>6, ExecuteRow DEF Accounted
<1>8. /\ drift[t] \subseteq {"gap"}
      /\ drift'[t] = {} => drift[t] = {}
      /\ Fetched(new) >= Fetched(old) + m + g
      /\ /\ Fetched(old) >= 0
         /\ old = NoRow => m >= 0
         /\ drift'[t] = {}
         => /\ Fetched(new) = Fetched(old) + m + g
            /\ Fetched(new) >= 0
            /\ new = NoRow => old = NoRow /\ m = 0
  BY <1>4, <1>5, <1>7 DEF RowFollows
<1>9. PICK x, y \in Int :
            /\ DueIs(t, 0, x) /\ MovedIs(t, y)
            /\ points[t] + x <= Fetched(old) + y
            /\ drift[t] = {} =>
                  /\ points[t] + x = Fetched(old) + y
                  /\ Fetched(old) >= 0
                  /\ old = NoRow => MovedStaysUp(t, y)
  BY <1>4, <1>8 DEF CacheAdds
<1>10. DueIs(t, 0, x + g)'
  <2>1. CASE results' = results /\ g = 0
    <3>1. DueIs(t, 0, x)'
      BY <1>3, <1>9, <2>1, DuesSame
    <3>2. x + g = x
      BY <2>1
    <3> QED BY <3>1, <3>2
  <2>2. CASE \E r \in Results : results' = Append(results, r) /\ g = Due(r, t)
    <3>1. PICK r \in Results : results' = Append(results, r) /\ g = Due(r, t)
      BY <2>2
    <3>2. 0 \in Nat /\ 0 <= Len(results)
      BY InFlightAt
    <3> QED BY <1>3, <1>9, <3>1, <3>2, DuesAppended
  <2> QED BY <1>7, <2>1, <2>2 DEF Gains
<1>11. /\ MovedIs(t, y) => MovedIs(t, y - m)'
       /\ MovedStaysUp(t, y) => m >= 0 /\ (m = 0 => MovedStaysUp(t, y)')
  BY <1>1, <1>3, <1>7, MovedPopped
<1>12. points[t] \in Int /\ Fetched(old) \in Int /\ Fetched(new) \in Int
  <2>1. /\ points[t] \in Int /\ balance[account[t]] \in Int \union {NoRow}
        /\ balance'[account[t]] \in Int \union {NoRow}
    BY <1>3 DEF TypeOK
  <2> QED BY <1>4, <1>5, <2>1, FetchedType
<1>13. points[t] + (x + g) <= Fetched(new) + (y - m)
  BY <1>8, <1>9, <1>12
<1>14. ASSUME drift'[t] = {}
       PROVE  /\ points[t] + (x + g) = Fetched(new) + (y - m)
              /\ Fetched(new) >= 0
              /\ new = NoRow => MovedStaysUp(t, y - m)'
  <2>1. /\ points[t] + x = Fetched(old) + y
        /\ Fetched(old) >= 0
        /\ old = NoRow => MovedStaysUp(t, y)
    BY <1>8, <1>9, <1>14
  <2>2. /\ Fetched(new) = Fetched(old) + m + g
        /\ Fetched(new) >= 0
        /\ new = NoRow => old = NoRow /\ m = 0
    BY <1>8, <1>11, <1>14, <2>1
  <2>3. new = NoRow => MovedStaysUp(t, y - m)'
    <3>1. m = 0 => y - m = y
      OBVIOUS
    <3> QED BY <1>11, <2>1, <2>2, <3>1
  <2> QED BY <1>12, <2>1, <2>2, <2>3
<1>15. x + g \in Int /\ y - m \in Int
  OBVIOUS
<1> QED BY <1>9, <1>10, <1>11, <1>13, <1>14, <1>15

(* The worker's step keeps the books.                                      *)
LEMMA ExecuteLedger ==
    ASSUME TypeOK, TypeOK', LoadIsOwned, LedgerInv, Execute
    PROVE  LedgerInv'
<1>1. Alone'
  BY DEF Execute, clients, Alone, LedgerInv
<1>2. PacksDiffer' /\ RowsExist'
  BY ExecutePacks, ExecuteRows DEF LedgerInv
<1>3. ASSUME NEW t \in Slots PROVE Booked(t)'
  <2>1. SameSeat(t) /\ loaded'[t] = loaded[t]
    BY ExecuteFrame
  <2> SUFFICES ASSUME account[t] # Nobody
               PROVE  /\ OwnPlacements(t)' /\ NoStrays(t)' /\ NothingLate(t)'
                      /\ AnswersAdd(t)' /\ CacheAdds(t)'
    BY <2>1 DEF Booked, SameSeat
  <2>2. /\ OwnPlacements(t) /\ NoStrays(t) /\ NothingLate(t)
        /\ AnswersAdd(t) /\ CacheAdds(t)
    BY DEF Booked, LedgerInv
  <2>3. OwnPlacements(t)'
    <3> SUFFICES ASSUME NEW r \in InFlight', SentBy(r, t) PROVE r.account = account[t]
      BY <2>1 DEF OwnPlacements, SameSeat, SentBy
    <3> QED BY <2>2, ExecuteInFlight DEF OwnPlacements
  <2> QED BY <2>2, <2>3, ExecuteStrays, ExecuteLate, ExecuteAnswers, ExecuteCache
<1> QED BY <1>1, <1>2, <1>3 DEF LedgerInv

------------------------------------------------------------------------------
(* The theorems.                                                           *)

(* No client is connected and nothing is in flight.                        *)
LEMMA InitLedger ==
    ASSUME Init PROVE LedgerInv
<1>1. Len(queue) = 0 /\ Len(results) = 0
  BY DEF Init
<1>2. Alone /\ PacksDiffer /\ RowsExist
  BY <1>1 DEF Init, Alone, PacksDiffer, RowsExist
<1>3. \A t \in Slots : Booked(t)
  BY DEF Init, Booked
<1> QED BY <1>2, <1>3 DEF LedgerInv

(* Every step keeps the books.                                             *)
LEMMA StepLedger ==
    ASSUME TypeOK, TypeOK', Seated, LoadIsOwned, LedgerInv, [Next]_vars
    PROVE  LedgerInv'
<1>1. CASE UNCHANGED vars
  <2>1. UNCHANGED <<account, session, points, loaded, load, balance, queue, results,
                    mutated, drift>>
    BY <1>1 DEF vars, clients, cache, loads, channel, history
  <2> QED BY <2>1, BooksUntouched
<1>2. CASE \E s \in Slots : ClientStep(s)
  BY <1>2, ClientStepLedger
<1>3. CASE \E a \in Accounts, n \in CreditAmounts : QueueCredit(a, n)
  BY <1>3, QueueCreditLedger
<1>4. CASE Execute
  BY <1>4, ExecuteLedger
<1>5. CASE OnClientBonusPointsLoaded
  BY <1>5, OnLoadedLedger
<1>6. CASE OnCreditSaved
  BY <1>6, OnCreditLedger
<1>7. CASE OnBountyPlaced
  BY <1>7, OnPlacedLedger
<1> QED BY <1>1, <1>2, <1>3, <1>4, <1>5, <1>6, <1>7 DEF Next, Deliver

(* With nothing in flight for the account there is nothing left to add.    *)
LEMMA QuietAddsNothing ==
    ASSUME TypeOK, NEW s \in Slots, account[s] # Nobody, OwnPlacements(s), Quiet(account[s])
    PROVE  /\ \A x : DueIs(s, 0, x) => x = 0
           /\ \A y : MovedIs(s, y) => y = 0
<1>1. /\ Len(queue) \in Nat /\ Len(results) \in Nat
      /\ \A i \in 1..Len(queue) : queue[i] \in InFlight
      /\ \A i \in 1..Len(results) : results[i].request \in InFlight
  BY InFlightAt
<1>2. ASSUME NEW i \in 1..Len(results) PROVE Due(results[i], s) = 0
  <2>1. results[i].request.account # account[s]
    BY <1>1 DEF Quiet
  <2>2. ~SentBy(results[i].request, s)
    BY <1>1, <2>1 DEF OwnPlacements
  <2> QED BY <2>1, <2>2 DEF Due
<1>3. \A i \in 1..Len(results) : Dues(s, 0)[i] = 0
  BY <1>2 DEF Dues
<1>4. \A i \in 1..Len(queue) : Moved(s)[i] = 0
  BY <1>1 DEF Moved, Moves, Quiet
<1>5. ASSUME NEW x, DueIs(s, 0, x) PROVE x = 0
  BY <1>1, <1>3, <1>5, ZerosSumOnly DEF DueIs
<1>6. ASSUME NEW y, MovedIs(s, y) PROVE y = 0
  BY <1>1, <1>4, <1>6, ZerosSumOnly DEF MovedIs
<1> QED BY <1>5, <1>6

(* The books say what a quiet client is shown.                             *)
LEMMA LedgerTells ==
    ASSUME TypeOK, LedgerInv PROVE CacheMatchesLedger /\ CacheNeverOverstates
<1>1. ASSUME NEW s \in Slots, account[s] # Nobody, loaded[s], drift[s] \subseteq {"gap"},
             Quiet(account[s])
      PROVE  /\ points[s] <= Shown(balance[account[s]])
             /\ drift[s] = {} => points[s] = Shown(balance[account[s]])
  <2>1. OwnPlacements(s) /\ CacheAdds(s)
    BY <1>1 DEF LedgerInv, Booked
  <2>2. PICK row \in Int \union {NoRow} : row = balance[account[s]]
    BY <1>1 DEF TypeOK
  <2>3. PICK x, y \in Int :
            /\ DueIs(s, 0, x) /\ MovedIs(s, y)
            /\ points[s] + x <= Fetched(row) + y
            /\ drift[s] = {} => points[s] + x = Fetched(row) + y /\ Fetched(row) >= 0
    BY <1>1, <2>1, <2>2 DEF CacheAdds
  <2>4. x = 0 /\ y = 0
    BY <1>1, <2>1, <2>3, QuietAddsNothing
  <2>5. points[s] \in Nat /\ Fetched(row) \in Int
    BY <2>2, FetchedType DEF TypeOK
  <2>6. Shown(row) = AtLeastZero(Fetched(row))
    BY DEF Shown
  <2>7. PICK f \in Int : f = Fetched(row)
    BY <2>5
  <2> QED BY <2>2, <2>3, <2>4, <2>5, <2>6, <2>7 DEF AtLeastZero
<1>2. ASSUME NEW s \in Slots, drift[s] = {} PROVE drift[s] \subseteq {"gap"}
  BY <1>2
<1> QED BY <1>1, <1>2 DEF CacheMatchesLedger, CacheNeverOverstates

(* The inductive invariant.                                                *)
LEMMA KnownHolds == Spec => []Known
<1>1. Init => Known
  BY InitTypeOK, InitLedger DEF Init, Seated, LoadIsOwned, Known
<1>2. Known /\ [Next]_vars => Known'
  <2> SUFFICES ASSUME Known, [Next]_vars PROVE Known'
    OBVIOUS
  <2>1. TypeOK' /\ Seated'
    BY StepTypeOK, SeatedInductive DEF Known
  <2>2. LoadIsOwned'
    BY StepOwned DEF Known
  <2>3. LedgerInv'
    BY <2>1, StepLedger DEF Known
  <2> QED BY <2>1, <2>2, <2>3 DEF Known
<1> QED BY <1>1, <1>2, PTL DEF Spec

(* A loaded client that nothing named has struck shows exactly its row as  *)
(* soon as nothing is in flight for its account, however many requests,    *)
(* visits and slots there were before.                                     *)
THEOREM CacheAddsUp == Spec => []CacheMatchesLedger
<1>1. Known => CacheMatchesLedger
  BY LedgerTells DEF Known
<1> QED BY <1>1, KnownHolds, PTL

(* A credit that lands while its client is loading in leaves the cache     *)
(* short, never over the row: no client is shown gems it does not have.    *)
THEOREM CacheIsCovered == Spec => []CacheNeverOverstates
<1>1. Known => CacheNeverOverstates
  BY LedgerTells DEF Known
<1> QED BY <1>1, KnownHolds, PTL

------------------------------------------------------------------------------
(* Debits and the gems that pay for them.                                  *)

(* Induction, in the form the provers can use: with sets for predicates.   *)

Below == {r \in Nat \X Nat : r[1] < r[2]}

(* A nonempty set of natural numbers has a least element.                  *)
LEMMA LeastNumber ==
    ASSUME NEW T \in SUBSET Nat, T # {}
    PROVE  \E n \in T : \A m \in T : n <= m
<1>1. IsWellFoundedOn(OpToRel(<, Nat), Nat)
  BY NatLessThanWellFounded
<1>2. OpToRel(<, Nat) = Below
  BY DEF OpToRel, Below
<1>3. IsWellFoundedOn(Below, Nat)
  BY <1>1, <1>2
<1>4. PICK n \in T : \A m \in T : ~ (<<m, n>> \in Below)
  BY <1>3, WFMin
<1>5. ASSUME NEW m \in T PROVE n <= m
  <2>1. ~ (<<m, n>>[1] < <<m, n>>[2])
    BY <1>4 DEF Below
  <2> QED BY <2>1
<1> QED BY <1>5

(* A set with zero and every successor is the set of natural numbers.      *)
LEMMA SuccessorsAreAll ==
    ASSUME NEW T \in SUBSET Nat, 0 \in T, \A n \in T : n + 1 \in T
    PROVE  \A n \in Nat : n \in T
<1>1. SUFFICES ASSUME Nat \ T # {} PROVE FALSE
  OBVIOUS
<1>2. PICK n \in Nat \ T : \A m \in Nat \ T : n <= m
  BY <1>1, LeastNumber
<1>3. n - 1 \in Nat /\ n - 1 \in T
  BY <1>2
<1> QED BY <1>2, <1>3

(* There is one list of partial sums only.                                 *)
LEMMA SumsAreUnique ==
    ASSUME NEW n \in Nat, NEW d, NEW f, PartialSums(f, d, n), NEW g, PartialSums(g, d, n)
    PROVE  f[n] = g[n]
<1> DEFINE T == {i \in Nat : i <= n => f[i] = g[i]}
<1>1. 0 \in T
  BY DEF PartialSums
<1>2. ASSUME NEW i \in T PROVE i + 1 \in T
  <2> SUFFICES ASSUME i + 1 <= n PROVE f[i + 1] = g[i + 1]
    OBVIOUS
  <2>1. i + 1 \in 1..n /\ (i + 1) - 1 = i /\ f[i] = g[i]
    OBVIOUS
  <2> QED BY <2>1 DEF PartialSums
<1>3. T \in SUBSET Nat
  OBVIOUS
<1>4. n \in T
  <2> HIDE DEF T
  <2> QED BY <1>1, <1>2, <1>3, SuccessorsAreAll
<1> QED BY <1>4

(* Gains do not add up to a loss.                                          *)
LEMMA SumsOfGains ==
    ASSUME NEW n \in Nat, NEW d, NEW f, PartialSums(f, d, n), \A i \in 1..n : d[i] >= 0
    PROVE  \A i \in 0..n : f[i] >= 0
<1> DEFINE T == {i \in Nat : i <= n => f[i] >= 0}
<1>1. 0 \in T
  BY DEF PartialSums
<1>2. ASSUME NEW i \in T PROVE i + 1 \in T
  <2> SUFFICES ASSUME i + 1 <= n PROVE f[i + 1] >= 0
    OBVIOUS
  <2>1. i + 1 \in 1..n /\ (i + 1) - 1 = i /\ f[i] >= 0 /\ i \in 0..n
    OBVIOUS
  <2>2. f[i + 1] = f[i] + d[i + 1] /\ d[i + 1] \in Int /\ f[i] \in Int /\ d[i + 1] >= 0
    BY <2>1 DEF PartialSums
  <2> QED BY <2>1, <2>2
<1>3. T \in SUBSET Nat
  OBVIOUS
<1>4. \A i \in Nat : i \in T
  <2> HIDE DEF T
  <2> QED BY <1>1, <1>2, <1>3, SuccessorsAreAll
<1> QED BY <1>4

(* From r on, adding up d never goes below zero.                           *)
StaysUp(d, n, r) == \E f : PartialSums(f, d, n) /\ \A i \in 0..n : r + f[i] >= 0

(* ... not even with one more term, if the whole sum can pay for it.       *)
LEMMA GrownStaysUp ==
    ASSUME NEW n \in Nat, NEW m \in Nat, NEW d, NEW e, NEW p \in (n + 1)..m,
           Grows(d, n, e, m, p), NEW r \in Int, StaysUp(d, n, r),
           e[p] >= 0 \/ \A total \in Int : SumsTo(d, n, total) => r + total + e[p] >= 0
    PROVE  StaysUp(e, m, r)
<1>1. PICK f : PartialSums(f, d, n) /\ \A i \in 0..n : r + f[i] >= 0
  BY DEF StaysUp
<1>2. PICK g : /\ PartialSums(g, e, m)
               /\ \A i \in 0..m : g[i] = (IF i <= n THEN f[i]
                                          ELSE IF i < p THEN f[n] ELSE f[n] + e[p])
  BY <1>1, GrownPartialSums
<1>3. f[n] \in Int /\ r + f[n] >= 0 /\ e[p] \in Int
  BY <1>1 DEF PartialSums, Grows
<1>4. SumsTo(d, n, f[n])
  BY <1>1 DEF SumsTo
<1>5. r + (f[n] + e[p]) >= 0
  BY <1>3, <1>4
<1>6. \A i \in 0..m : r + g[i] >= 0
  BY <1>1, <1>2, <1>3, <1>5
<1> QED BY <1>2, <1>6 DEF StaysUp

(* ... nor with the first term taken to r, or more.                        *)
LEMMA ShortenedStaysUp ==
    ASSUME NEW n \in Nat \ {0}, NEW d, NEW e, Shortens(d, n, e),
           NEW r \in Int, StaysUp(d, n, r), NEW q \in Int, q >= r + d[1]
    PROVE  StaysUp(e, n - 1, q)
<1>1. PICK f : PartialSums(f, d, n) /\ \A i \in 0..n : r + f[i] >= 0
  BY DEF StaysUp
<1>2. PICK g : /\ PartialSums(g, e, n - 1)
               /\ \A i \in 0..(n - 1) : g[i] = f[i + 1] - d[1]
  BY <1>1, ShortenedPartialSums
<1>3. d[1] \in Int /\ \A i \in 0..n : f[i] \in Int
  BY <1>1 DEF PartialSums, Shortens
<1>4. ASSUME NEW i \in 0..(n - 1) PROVE q + g[i] >= 0
  <2>1. i + 1 \in 0..n
    OBVIOUS
  <2>2. g[i] = f[i + 1] - d[1] /\ f[i + 1] \in Int /\ r + f[i + 1] >= 0
    BY <1>1, <1>2, <1>3, <2>1
  <2> QED BY <1>3, <2>2
<1> QED BY <1>2, <1>4 DEF StaysUp

(* ... and what is not negative stays so with gains only.                  *)
LEMMA GainsStayUp ==
    ASSUME NEW n \in Nat, NEW d, NEW total, SumsTo(d, n, total), \A i \in 1..n : d[i] >= 0,
           NEW r \in Int, r >= 0
    PROVE  StaysUp(d, n, r)
<1>1. PICK f : PartialSums(f, d, n)
  BY DEF SumsTo
<1>2. \A i \in 0..n : f[i] >= 0 /\ f[i] \in Int
  BY <1>1, SumsOfGains DEF PartialSums
<1>3. \A i \in 0..n : r + f[i] >= 0
  BY <1>2
<1> QED BY <1>1, <1>3 DEF StaysUp

(* What stays up begins there.                                             *)
LEMMA StaysUpFromZero ==
    ASSUME NEW n \in Nat, NEW d, NEW r \in Int, StaysUp(d, n, r) PROVE r >= 0
<1>1. PICK f : PartialSums(f, d, n) /\ \A i \in 0..n : r + f[i] >= 0
  BY DEF StaysUp
<1>2. f[0] = 0 /\ 0 \in 0..n
  BY <1>1 DEF PartialSums
<1> QED BY <1>1, <1>2

(* What stands behind the debits of the client in slot s: while a          *)
(* placement of its is out, escrowing says so; ...                         *)
Promised(s) == \A r \in InFlight : SentBy(r, s) => escrowing[s]

(* ... there is one at a time; ...                                         *)
OnePlacement(s) ==
    /\ \A i, j \in 1..Len(queue) : SentBy(queue[i], s) /\ SentBy(queue[j], s) => i = j
    /\ \A i, j \in 1..Len(results) :
          SentBy(results[i].request, s) /\ SentBy(results[j].request, s) => i = j
    /\ \A i \in 1..Len(results), j \in 1..Len(queue) :
          ~(SentBy(results[i].request, s) /\ SentBy(queue[j], s))

(* ... no debit is queued behind it; ...                                   *)
NoDebitBehind(s) ==
    \A i, j \in 1..Len(queue) :
        i < j /\ SentBy(queue[i], s) /\ Moves(queue[j], s) => queue[j].amount >= 0

(* ... and the row affords what is queued, each upsert in its turn.        *)
Affords(s) ==
    loaded[s] /\ drift[s] \subseteq {"gap"} =>
        StaysUp(Moved(s), Len(queue), Fetched(balance[account[s]]))

Solvent(s) ==
    account[s] # Nobody =>
        Promised(s) /\ OnePlacement(s) /\ NoDebitBehind(s) /\ Affords(s)

(* A steal ignores that the victim's gems may be promised to a bounty.     *)
PlacersAreLeftAlone ==
    \A v, r \in Slots, n \in StealAmounts : StealBonusPoints(v, r, n) => ~escrowing[v]

(* No placement of the slot is queued, and nothing but w moves its row.    *)
NoneSent(t) == \A i \in (Len(queue) + 1)..Len(queue') : ~SentBy(queue'[i], t)
Idle(t) == Queues(t, 0) /\ NoneSent(t)

(* A placement in flight after such a step was so before.                  *)
LEMMA SentBefore ==
    ASSUME TypeOK, TypeOK', NEW t \in Slots, ResultsKept, NEW w, Queues(t, w), NoneSent(t),
           NEW r \in InFlight', SentBy(r, t)
    PROVE  r \in InFlight
<1>1. /\ DOMAIN queue' = 1..Len(queue') /\ DOMAIN results' = 1..Len(results')
  BY LenProperties DEF TypeOK
<1>2. \/ \E i \in 1..Len(queue') : r = queue'[i]
      \/ \E i \in 1..Len(results') : r = results'[i].request
  BY <1>1 DEF InFlight, Elements
<1>3. ASSUME NEW i \in 1..Len(queue'), r = queue'[i] PROVE r \in InFlight
  <2>1. /\ Len(queue) \in Nat /\ Len(queue') \in Nat
        /\ \A j \in 1..Len(queue) : queue'[j] = queue[j]
    BY QueuedBefore
  <2>2. i \in 1..Len(queue)
    BY <1>3, <2>1 DEF NoneSent
  <2> QED BY <1>3, <2>1, <2>2, InFlightAt
<1>4. ASSUME NEW i \in 1..Len(results'), r = results'[i].request PROVE r \in InFlight
  <2>1. PICK c \in {0, 1} : /\ Len(results) \in Nat /\ Len(results') \in Nat
                            /\ Len(results') + c = Len(results)
                            /\ \A j \in 1..Len(results') : results'[j] = results[j + c]
    BY KeptBefore
  <2>2. i + c \in 1..Len(results) /\ r = results[i + c].request
    BY <1>4, <2>1
  <2> QED BY <2>2, InFlightAt
<1> QED BY <1>2, <1>3, <1>4

(* The placements of a slot that sends none stay as they are.              *)
LEMMA PlacementsStand ==
    ASSUME TypeOK, TypeOK', NEW t \in Slots, SameSeat(t), ResultsKept,
           NEW w, Queues(t, w), NoneSent(t), OnePlacement(t)
    PROVE  OnePlacement(t)'
<1>1. /\ Len(queue) \in Nat /\ Len(queue') \in Nat
      /\ \A i \in 1..Len(queue) : queue'[i] = queue[i]
  BY QueuedBefore
<1>2. PICK c \in {0, 1} : /\ Len(results) \in Nat /\ Len(results') \in Nat
                          /\ Len(results') + c = Len(results)
                          /\ \A j \in 1..Len(results') : results'[j] = results[j + c]
  BY KeptBefore
<1>3. ASSUME NEW i \in 1..Len(queue'), SentBy(queue[i], t)'
      PROVE  i \in 1..Len(queue) /\ SentBy(queue[i], t)
  <2>1. SentBy(queue'[i], t)
    BY <1>3 DEF SentBy, SameSeat
  <2>2. i \in 1..Len(queue)
    BY <1>1, <2>1 DEF NoneSent
  <2> QED BY <1>1, <2>1, <2>2
<1>4. ASSUME NEW i \in 1..Len(results'), SentBy(results[i].request, t)'
      PROVE  i + c \in 1..Len(results) /\ SentBy(results[i + c].request, t)
  <2>1. i + c \in 1..Len(results) /\ results'[i] = results[i + c]
    BY <1>2
  <2> QED BY <1>4, <2>1 DEF SentBy, SameSeat
<1>5. ASSUME NEW i \in 1..Len(results'), NEW j \in 1..Len(results'),
             SentBy(results[i].request, t)', SentBy(results[j].request, t)'
      PROVE  i = j
  <2>1. i + c = j + c
    BY <1>4, <1>5 DEF OnePlacement
  <2> QED BY <2>1
<1>6. \A i, j \in 1..Len(queue') : SentBy(queue[i], t)' /\ SentBy(queue[j], t)' => i = j
  BY <1>3 DEF OnePlacement
<1>7. \A i \in 1..Len(results'), j \in 1..Len(queue') :
          ~(SentBy(results[i].request, t)' /\ SentBy(queue[j], t)')
  BY <1>3, <1>4 DEF OnePlacement
<1> QED BY <1>5, <1>6, <1>7 DEF OnePlacement

(* Nothing is taken behind a placement, if what is queued is no debit or   *)
(* no placement is out.                                                    *)
LEMMA NoDebitSlipsIn ==
    ASSUME TypeOK, TypeOK', NEW t \in Slots, SameSeat(t), NEW w, Queues(t, w), NoneSent(t),
           NoDebitBehind(t),
           w >= 0 \/ \A i \in 1..Len(queue) : ~SentBy(queue[i], t)
    PROVE  NoDebitBehind(t)'
<1>1. /\ Len(queue) \in Nat /\ Len(queue') \in Nat
      /\ \A i \in 1..Len(queue) : queue'[i] = queue[i]
  BY QueuedBefore
<1> SUFFICES ASSUME NEW i \in 1..Len(queue'), NEW j \in 1..Len(queue'), i < j,
                    SentBy(queue'[i], t), Moves(queue'[j], t)
             PROVE  queue'[j].amount >= 0
  BY DEF NoDebitBehind, SameSeat, SentBy, Moves
<1>2. i \in 1..Len(queue) /\ SentBy(queue[i], t)
  <2>1. i \in 1..Len(queue)
    BY <1>1 DEF NoneSent
  <2> QED BY <1>1, <2>1
<1>3. CASE j \in 1..Len(queue)
  BY <1>1, <1>2, <1>3 DEF NoDebitBehind
<1>4. CASE j \notin 1..Len(queue)
  <2>1. j \in (Len(queue) + 1)..Len(queue')
    BY <1>1, <1>4
  <2>2. CASE queue' = queue
    BY <1>4, <2>2
  <2>3. ASSUME NEW p \in Nat, GrowsAt(t, p, w) PROVE queue'[j].amount >= 0
    <3>1. j = p /\ w = queue'[j].amount
      BY <2>1, <2>3 DEF GrowsAt
    <3> QED BY <1>2, <3>1
  <2> QED BY <2>2, <2>3 DEF Queues
<1> QED BY <1>3, <1>4

(* The row can pay for w more once it has paid for what is queued.         *)
PaysFor(t, w) ==
    loaded[t] /\ drift[t] \subseteq {"gap"} =>
        \A y \in Int : MovedIs(t, y) => Fetched(balance[account[t]]) + y + w >= 0

(* The row still affords what is queued.                                   *)
LEMMA StillAffords ==
    ASSUME TypeOK, TypeOK', NEW t \in Slots, account[t] # Nobody, SameSeat(t),
           balance' = balance, NEW w, Queues(t, w),
           loaded'[t] => loaded[t],
           drift'[t] \subseteq {"gap"} => drift[t] \subseteq {"gap"},
           Affords(t), w >= 0 \/ PaysFor(t, w)
    PROVE  Affords(t)'
<1>0. PICK r \in Int : r = Fetched(balance[account[t]])
  <2>1. balance[account[t]] \in Int \union {NoRow}
    BY DEF TypeOK
  <2> QED BY <2>1, FetchedType
<1> SUFFICES ASSUME loaded'[t], drift'[t] \subseteq {"gap"}
             PROVE  StaysUp(Moved(t)', Len(queue'), r)
  BY <1>0 DEF Affords, SameSeat, Fetched, StaysUp
<1>1. StaysUp(Moved(t), Len(queue), r)
  BY <1>0 DEF Affords
<1>2. CASE queue' = queue
  <2>1. Moved(t)' = Moved(t)
    BY <1>2 DEF Moved, Moves, SameSeat
  <2> QED BY <1>1, <1>2, <2>1
<1>3. ASSUME NEW p \in Nat, GrowsAt(t, p, w) PROVE StaysUp(Moved(t)', Len(queue'), r)
  <2>1. Len(queue) \in Nat /\ Len(queue') \in Nat
    BY LenProperties DEF TypeOK
  <2>2. p \in (Len(queue) + 1)..Len(queue') /\ p \in 1..Len(queue')
    BY <1>3, <2>1 DEF GrowsAt
  <2>3. \A i \in 1..Len(queue') : queue'[i] \in Requests
    BY LenProperties DEF TypeOK
  <2>4. w \in Int /\ w = (IF Moves(queue'[p], t) THEN queue'[p].amount ELSE 0)
    BY <1>3, <2>2, <2>3, MovedType DEF GrowsAt, Moves
  <2>5. \A i \in 1..Len(queue') :
            Moved(t)'[i] = IF Moves(queue'[i], t) THEN queue'[i].amount ELSE 0
    BY DEF Moved, Moves, SameSeat
  <2>6. Moved(t)'[p] = w
    BY <2>2, <2>4, <2>5
  <2>7. Grows(Moved(t), Len(queue), Moved(t)', Len(queue'), p)
    <3>1. ASSUME NEW i \in 1..Len(queue) PROVE Moved(t)'[i] = Moved(t)[i]
      <4>1. i \in 1..Len(queue') /\ queue'[i] = queue[i]
        BY <1>3, <2>1, <2>2 DEF GrowsAt
      <4> QED BY <2>5, <4>1 DEF Moved
    <3>2. ASSUME NEW i \in (Len(queue) + 1)..Len(queue'), i # p PROVE Moved(t)'[i] = 0
      <4>1. i \in 1..Len(queue') /\ ~Moves(queue'[i], t)
        BY <1>3, <2>1, <3>2 DEF GrowsAt
      <4> QED BY <2>5, <4>1
    <3> QED BY <2>4, <2>6, <3>1, <3>2 DEF Grows
  <2>8. w >= 0 \/ \A total \in Int : SumsTo(Moved(t), Len(queue), total) => r + total + w >= 0
    BY <1>0 DEF PaysFor, MovedIs
  <2> DEFINE d == Moved(t)
             e == Moved(t)'
  <2>9. /\ Grows(d, Len(queue), e, Len(queue'), p) /\ StaysUp(d, Len(queue), r)
        /\ e[p] >= 0 \/ \A total \in Int : SumsTo(d, Len(queue), total) => r + total + e[p] >= 0
    BY <1>1, <2>6, <2>7, <2>8
  <2> HIDE DEF d, e
  <2>10. StaysUp(e, Len(queue'), r)
    BY <2>1, <2>2, <2>9, GrownStaysUp
  <2> QED BY <2>10 DEF e
<1> QED BY <1>2, <1>3 DEF Queues

(* A slot to which nothing is sent and whose cache stands stays solvent,   *)
(* and so does one that moves what its row can pay for.                    *)
LEMMA StaysSolvent ==
    ASSUME TypeOK, TypeOK', NEW t \in Slots, SameSeat(t), balance' = balance,
           escrowing'[t] = escrowing[t], loaded'[t] => loaded[t],
           drift'[t] \subseteq {"gap"} => drift[t] \subseteq {"gap"},
           ResultsKept, NEW w, Queues(t, w), NoneSent(t), Solvent(t),
           w >= 0 \/ (~escrowing[t] /\ PaysFor(t, w))
    PROVE  Solvent(t)'
<1> SUFFICES ASSUME account[t] # Nobody
             PROVE  Promised(t)' /\ OnePlacement(t)' /\ NoDebitBehind(t)' /\ Affords(t)'
  BY DEF Solvent, SameSeat
<1>1. Promised(t) /\ OnePlacement(t) /\ NoDebitBehind(t) /\ Affords(t)
  BY DEF Solvent
<1>2. Promised(t)'
  <2> SUFFICES ASSUME NEW r \in InFlight', SentBy(r, t) PROVE escrowing[t]
    BY DEF Promised, SameSeat, SentBy
  <2> QED BY <1>1, SentBefore DEF Promised
<1>3. OnePlacement(t)'
  BY <1>1, PlacementsStand
<1>4. NoDebitBehind(t)'
  <2>1. ~escrowing[t] => \A i \in 1..Len(queue) : ~SentBy(queue[i], t)
    BY <1>1, InFlightAt DEF Promised
  <2> QED BY <1>1, <2>1, NoDebitSlipsIn
<1>5. Affords(t)'
  BY <1>1, StillAffords
<1> QED BY <1>2, <1>3, <1>4, <1>5

(* ... whichever callback has run.                                         *)
LEMMA IdleStaysSolvent ==
    ASSUME TypeOK, TypeOK', NEW t \in Slots, SameSeat(t), balance' = balance,
           escrowing'[t] = escrowing[t], loaded'[t] => loaded[t],
           drift'[t] \subseteq {"gap"} => drift[t] \subseteq {"gap"},
           ResultsKept, Idle(t), Solvent(t)
    PROVE  Solvent(t)'
<1>1. 0 >= 0
  OBVIOUS
<1> QED BY <1>1, StaysSolvent DEF Idle

(* Nothing is queued.                                                      *)
LEMMA NothingSent ==
    ASSUME TypeOK, NEW t \in Slots, queue' = queue PROVE Idle(t)
<1>1. Len(queue) \in Nat /\ (Len(queue) + 1)..Len(queue') = {}
  BY InFlightAt
<1> QED BY <1>1, NoneQueued DEF Idle, NoneSent

(* A request at the end of the queue that is no placement of the slot.     *)
LEMMA OneSent ==
    ASSUME TypeOK, NEW t \in Slots, NEW x \in Requests, queue' = Append(queue, x),
           ~SentBy(x, t)
    PROVE  NoneSent(t)
<1>1. queue \in Seq(Requests)
  BY DEF TypeOK
<1>2. Len(queue) \in Nat /\ Len(queue') = Len(queue) + 1 /\ queue'[Len(queue) + 1] = x
  BY <1>1, AppendAt
<1>3. \A i \in (Len(queue) + 1)..Len(queue') : queue'[i] = x
  BY <1>2
<1> QED BY <1>3 DEF NoneSent

(* ... and that moves no row.                                              *)
LEMMA HarmlessSent ==
    ASSUME TypeOK, NEW t \in Slots, NEW x \in Requests, queue' = Append(queue, x),
           x.op # "upsert", x.op = "escrow" => x.slot # t /\ Unconcerned(x, t)
    PROVE  Idle(t)
<1>1. ~SentBy(x, t) /\ Unconcerned(x, t)
  BY DEF SentBy, Unconcerned, Stray
<1>2. 0 = IF Moves(x, t) THEN x.amount ELSE 0
  BY DEF Moves
<1> QED BY <1>1, <1>2, OneSent, OneQueued DEF Idle

(* A balance is asked for.                                                 *)
LEMMA SelectSent ==
    ASSUME TypeOK, NEW s \in Slots, NEW a \in Accounts, NEW n \in Sessions,
           NEW pts \in Nat, NEW ld \in BOOLEAN, NEW live,
           QueueSelect(s, a, n, pts, ld, live), NEW t \in Slots
    PROVE  Idle(t)
<1>1. PICK x \in Requests : queue' = Append(queue, x) /\ x.op = "select"
  BY QueueSelectAppends
<1> QED BY <1>1, HarmlessSent

(* ... by a load, unless one is out already.                               *)
LEMMA LoadSent ==
    ASSUME TypeOK, NEW s \in Slots, account[s] # Nobody, LoadClientBonusPoints(s),
           NEW t \in Slots
    PROVE  Idle(t)
<1>1. account[s] \in Accounts /\ session[s] \in Sessions /\ points[s] \in Nat
      /\ loaded[s] \in BOOLEAN
  BY DEF TypeOK
<1>2. CASE load[s] # Null
  BY <1>2, NothingSent DEF LoadClientBonusPoints
<1>3. CASE load[s] = Null
  <2>1. QueueSelect(s, account[s], session[s], points[s], loaded[s], InFlight)
    BY <1>3 DEF LoadClientBonusPoints
  <2>2. PICK a \in Accounts, n \in Sessions, pts \in Nat, ld \in BOOLEAN :
           QueueSelect(s, a, n, pts, ld, InFlight)
    BY <1>1, <2>1, Zenon
  <2> QED BY <2>2, SelectSent
<1> QED BY <1>2, <1>3

(* A cache that can pay for a debit has a row that can, when no placement  *)
(* of the client is out: what is still due to the cache are credits.       *)
LEMMA DebitIsPaid ==
    ASSUME TypeOK, NEW t \in Slots, account[t] # Nobody, CacheAdds(t), Promised(t),
           ~escrowing[t], NEW w \in Int, points[t] + w >= 0
    PROVE  PaysFor(t, w)
<1> SUFFICES ASSUME loaded[t], drift[t] \subseteq {"gap"}, NEW y \in Int, MovedIs(t, y)
             PROVE  Fetched(balance[account[t]]) + y + w >= 0
  BY DEF PaysFor
<1>1. PICK r \in Int : r = Fetched(balance[account[t]])
  <2>1. balance[account[t]] \in Int \union {NoRow}
    BY DEF TypeOK
  <2> QED BY <2>1, FetchedType
<1>2. PICK x \in Int, z \in Int : DueIs(t, 0, x) /\ MovedIs(t, z) /\ points[t] + x <= r + z
  BY <1>1 DEF CacheAdds
<1>3. Len(queue) \in Nat /\ Len(results) \in Nat
  BY InFlightAt
<1>4. y = z
  BY <1>2, <1>3, SumsAreUnique DEF MovedIs, SumsTo
<1>5. x >= 0
  <2>1. ASSUME NEW i \in 1..Len(results) PROVE Dues(t, 0)[i] >= 0
    <3>1. results[i].request \in InFlight /\ results[i].request \in Requests
      BY InFlightAt
    <3>2. ~SentBy(results[i].request, t)
      BY <3>1 DEF Promised
    <3>3. results[i].request.op = "credit" => results[i].request.amount \in Nat
      BY <3>1, RequestKind DEF Credits
    <3> QED BY <3>2, <3>3 DEF Dues, Due
  <2>2. PICK f : PartialSums(f, Dues(t, 0), Len(results)) /\ f[Len(results)] = x
    BY <1>2 DEF DueIs, SumsTo
  <2> DEFINE d == Dues(t, 0)
  <2> HIDE DEF d
  <2>3. \A i \in 0..Len(results) : f[i] >= 0
    BY <1>3, <2>1, <2>2, SumsOfGains DEF d
  <2> QED BY <1>3, <2>2, <2>3
<1>6. points[t] \in Nat
  BY DEF TypeOK
<1> QED BY <1>1, <1>2, <1>4, <1>5, <1>6

------------------------------------------------------------------------------
(* The steps.                                                              *)

(* Whether a balance is published or not, a load places and moves nothing. *)
LEMMA OnLoadedSolvent ==
    ASSUME TypeOK, TypeOK', LedgerInv, OnClientBonusPointsLoaded, NEW t \in Slots, Solvent(t)
    PROVE  Solvent(t)'
<1> DEFINE r == Head(results)
           req == r.request
           live == InFlight \ {req}
<1>1. /\ results # << >> /\ results' = Tail(results) /\ req \in Requests /\ req.op = "select"
      /\ UNCHANGED <<account, session, balance, escrowing>>
      /\ r.value \in Int
  BY NextResult DEF OnClientBonusPointsLoaded, clients
<1>2. PICK s \in Slots : s = req.slot
  <2>1. req \in Selects
    BY <1>1, RequestKind
  <2> QED BY <2>1 DEF Selects
<1>3. ResultsKept /\ SameSeat(t)
  BY <1>1 DEF ResultsKept, SameSeat
<1>4. OwnsRequest(req) => account[s] # Nobody /\ account[s] \in Accounts /\ session[s] \in Sessions
  BY <1>2 DEF OwnsRequest, SameClient, TypeOK
<1>5. ASSUME OwnsRequest(req), NEW pts, NEW ld, pts \in Nat, ld \in BOOLEAN,
             QueueSelect(s, account[s], session[s], pts, ld, live)
      PROVE  Idle(t)
  <2>1. PICK a \in Accounts, n \in Sessions :
           a = account[s] /\ n = session[s]
    BY <1>4, <1>5
  <2>2. QueueSelect(s, a, n, pts, ld, live)
    BY <1>5, <2>1
  <2> HIDE DEF live
  <2> QED BY <1>5, <2>2, SelectSent
<1>6. points[s] \in Nat /\ loaded[s] \in BOOLEAN /\ AtLeastZero(r.value) \in Nat /\ TRUE \in BOOLEAN
  BY <1>1, AtLeastZeroType DEF TypeOK
<1>7. ASSUME UNCHANGED <<cache, loads, queue, history>> PROVE Solvent(t)'
  BY <1>1, <1>3, <1>7, NothingSent, IdleStaysSolvent DEF cache, history
<1>8. ASSUME UNCHANGED <<cache, queue, history>> PROVE Solvent(t)'
  BY <1>1, <1>3, <1>8, NothingSent, IdleStaysSolvent DEF cache, history
<1>9. ASSUME OwnsRequest(req), QueueSelect(s, account[s], session[s], points[s], loaded[s], live),
             UNCHANGED <<cache, drift>>
      PROVE  Solvent(t)'
  <2>1. Idle(t)
    BY <1>5, <1>6, <1>9
  <2> QED BY <1>1, <1>3, <1>9, <2>1, IdleStaysSolvent DEF cache
<1>10. ASSUME OwnsRequest(req), r.ok, ~FenceBlocks(req), PublishBalance(req, r.value, live)
       PROVE  Solvent(t)'
  <2>1. Idle(t)
    <3>1. CASE reload[s]
      <4>1. QueueSelect(s, account[s], session[s], AtLeastZero(r.value), TRUE, live)
        BY <1>2, <1>10, <3>1 DEF PublishBalance
      <4> QED BY <1>5, <1>6, <1>10, <4>1
    <3>2. CASE ~reload[s]
      <4>1. queue' = queue
        BY <1>2, <1>10, <3>2 DEF PublishBalance
      <4> QED BY <4>1, NothingSent
    <3> QED BY <3>1, <3>2
  <2>2. CASE t # s
    <3>1. loaded' = [loaded EXCEPT ![s] = TRUE]
      BY <1>2, <1>10 DEF PublishBalance
    <3>2. PICK v : drift' = [drift EXCEPT ![s] = v]
      BY <1>2, <1>10 DEF PublishBalance
    <3>3. loaded'[t] = loaded[t] /\ drift'[t] = drift[t]
      BY <2>2, <3>1, <3>2 DEF TypeOK
    <3> QED BY <1>1, <1>3, <2>1, <3>3, IdleStaysSolvent
  <2>3. CASE t = s
    <3>1. account[s] # Nobody /\ Promised(s) /\ OnePlacement(s) /\ NoDebitBehind(s)
      BY <1>4, <1>10, <2>3 DEF Solvent
    <3>2. NothingLate(s) /\ AnswersAdd(s)
      BY <3>1 DEF LedgerInv, Booked
    <3>3. Promised(s)'
      <4> SUFFICES ASSUME NEW q \in InFlight', SentBy(q, s) PROVE escrowing[s]
        BY <1>1 DEF Promised, SentBy
      <4> QED BY <1>3, <2>1, <2>3, <3>1, SentBefore DEF Promised, Idle
    <3>4. OnePlacement(s)'
      BY <1>3, <2>1, <2>3, <3>1, PlacementsStand DEF Idle
    <3>5. NoDebitBehind(s)'
      <4>1. 0 >= 0
        OBVIOUS
      <4> QED BY <1>3, <2>1, <2>3, <3>1, <4>1, NoDebitSlipsIn DEF Idle
    <3>6. Affords(s)'
      <4>1. drift'[s] \subseteq {"gap"} => r.value >= 0 /\ ~mutated[s]
        <5>1. drift'[s] = (IF mutated[s] /\ points[s] = req.requested
                           THEN drift[s] \union {"aba"} ELSE {})
                          \union (IF r.value < 0 THEN {"debt"} ELSE {})
          BY <1>2, <1>10 DEF PublishBalance, TypeOK
        <5>2. points[s] = req.requested
          BY <1>2, <1>10 DEF FenceBlocks
        <5>3. r.value < 0 => "debt" \in drift'[s]
          BY <5>1
        <5>4. mutated[s] => "aba" \in drift'[s]
          BY <5>1, <5>2
        <5> HIDE DEF r, req
        <5> QED BY <1>1, <5>3, <5>4
      <4> SUFFICES ASSUME drift'[s] \subseteq {"gap"}
                   PROVE  StaysUp(Moved(s), Len(queue), Fetched(balance[account[s]]))'
        BY DEF Affords
      <4>2. OwnedBy(s, req)
        BY <1>2, <1>10, <1>1 DEF OwnedBy, OwnsRequest
      <4>3. 1 \in 1..Len(results) /\ Head(results) = results[1]
        <5>1. results \in Seq(Results)
          BY DEF TypeOK
        <5>2. Len(results) \in Nat \ {0} /\ Head(results) = results[1]
          BY <1>1, <5>1, TailAt
        <5> QED BY <5>2
      <4>4. \A j \in 1..Len(queue) : ~Moves(queue[j], s)
        BY <3>2, <4>1, <4>2, <4>3 DEF NothingLate, Late
      <4>5. Fetched(balance[account[s]]) >= 0
        BY <1>10, <3>2, <4>1, <4>2, <4>3 DEF AnswersAdd
      <4>7. PICK q \in Int : q = Fetched(balance[account[s]])
        <5>1. balance[account[s]] \in Int \union {NoRow}
          BY <1>4, <1>10 DEF TypeOK
        <5> QED BY <5>1, FetchedType
      <4>8. Len(queue) \in Nat /\ Len(queue') \in Nat
        BY LenProperties DEF TypeOK
      <4>9. ASSUME NEW j \in 1..Len(queue') PROVE Moved(s)'[j] = 0
        <5>1. Moved(s)'[j] = IF Moves(queue'[j], s) THEN queue'[j].amount ELSE 0
          BY <1>3, <2>3 DEF Moved, Moves, SameSeat
        <5>2. CASE queue' = queue
          BY <4>4, <5>1, <5>2
        <5>3. ASSUME NEW p \in Nat, GrowsAt(s, p, 0) PROVE Moved(s)'[j] = 0
          <6>1. CASE j \in 1..Len(queue)
            BY <4>4, <5>1, <5>3, <6>1 DEF GrowsAt
          <6>2. CASE j \in (Len(queue) + 1)..Len(queue')
            BY <5>1, <5>3, <6>2 DEF GrowsAt
          <6> QED BY <4>8, <6>1, <6>2
        <5> QED BY <2>1, <2>3, <5>2, <5>3 DEF Idle, Queues
      <4>10. SumsTo(Moved(s)', Len(queue'), 0) /\ \A j \in 1..Len(queue') : Moved(s)'[j] >= 0
        BY <4>8, <4>9, ZerosSum
      <4>11. Fetched(balance[account[s]])' = q
        BY <1>1, <4>7
      <4> DEFINE d == Moved(s)'
                 n == Len(queue')
      <4>12. n \in Nat /\ SumsTo(d, n, 0) /\ (\A j \in 1..n : d[j] >= 0) /\ q >= 0
        BY <4>5, <4>7, <4>8, <4>10
      <4> HIDE DEF d, n
      <4>13. StaysUp(d, n, q)
        BY <4>12, GainsStayUp
      <4> QED BY <4>11, <4>13 DEF d, n, StaysUp
    <3> QED BY <2>3, <3>3, <3>4, <3>5, <3>6 DEF Solvent
  <2> QED BY <2>2, <2>3
<1> HIDE DEF r, req, live
<1>11. \/ UNCHANGED <<cache, loads, queue, history>>
       \/ OwnsRequest(req) /\ ReleaseLoad(s) /\ UNCHANGED <<cache, queue, history>>
       \/ /\ OwnsRequest(req)
          /\ QueueSelect(s, account[s], session[s], points[s], loaded[s], live)
          /\ UNCHANGED <<cache, drift>>
       \/ /\ OwnsRequest(req) /\ r.ok /\ ~FenceBlocks(req)
          /\ PublishBalance(req, r.value, live)
  BY <1>2, Zenon DEF OnClientBonusPointsLoaded, r, req, live
<1> QED BY <1>7, <1>8, <1>9, <1>10, <1>11

(* A credit's callback only raises the cache.                              *)
LEMMA OnCreditSolvent ==
    ASSUME TypeOK, TypeOK', OnCreditSaved, NEW t \in Slots, Solvent(t) PROVE Solvent(t)'
<1>1. /\ ResultsKept /\ SameSeat(t) /\ balance' = balance /\ escrowing' = escrowing
      /\ loaded' = loaded /\ queue' = queue
  BY DEF OnCreditSaved, ResultsKept, SameSeat, clients
<1>2. drift'[t] \subseteq {"gap"} => drift[t] \subseteq {"gap"}
  BY DEF OnCreditSaved, Blame
<1> QED BY <1>1, <1>2, NothingSent, IdleStaysSolvent

(* When the one placement of a slot is answered, none is left.             *)
LEMMA PlacementSettled ==
    ASSUME TypeOK, TypeOK', NEW s \in Slots, SameSeat(s), OnePlacement(s),
           results # << >>, results' = Tail(results), SentBy(Head(results).request, s),
           Idle(s)
    PROVE  \A r \in InFlight' : ~SentBy(r, s)
<1>1. /\ DOMAIN queue' = 1..Len(queue') /\ DOMAIN results' = 1..Len(results')
  BY LenProperties DEF TypeOK
<1>2. /\ Len(results) \in Nat \ {0} /\ Len(results') = Len(results) - 1
      /\ Head(results) = results[1]
      /\ \A i \in 1..Len(results') : results'[i] = results[i + 1]
  <2>1. results \in Seq(Results)
    BY DEF TypeOK
  <2> QED BY <2>1, TailAt
<1>3. ASSUME NEW i \in 1..Len(queue') PROVE ~SentBy(queue'[i], s)
  <2>1. /\ Len(queue) \in Nat /\ Len(queue') \in Nat
        /\ \A j \in 1..Len(queue) : queue'[j] = queue[j]
    BY QueuedBefore DEF Idle
  <2>2. CASE i \in 1..Len(queue)
    <3>1. 1 \in 1..Len(results)
      BY <1>2
    <3>2. ~SentBy(queue[i], s)
      BY <1>2, <2>2, <3>1 DEF OnePlacement
    <3> QED BY <2>1, <2>2, <3>2
  <2>3. CASE i \in (Len(queue) + 1)..Len(queue')
    BY <2>3 DEF Idle, NoneSent
  <2> QED BY <2>1, <2>2, <2>3
<1>4. ASSUME NEW i \in 1..Len(results') PROVE ~SentBy(results'[i].request, s)
  <2>1. 1 \in 1..Len(results) /\ i + 1 \in 1..Len(results) /\ i + 1 # 1
    BY <1>2
  <2>2. ~SentBy(results[i + 1].request, s)
    BY <1>2, <2>1 DEF OnePlacement
  <2> QED BY <1>2, <2>2
<1> QED BY <1>1, <1>3, <1>4 DEF InFlight, Elements

(* A client without a placement under way owes none.                       *)
LEMMA NonePlaced ==
    ASSUME TypeOK', NEW s \in Slots, \A r \in InFlight' : ~SentBy(r, s)'
    PROVE  Promised(s)' /\ OnePlacement(s)' /\ NoDebitBehind(s)'
<1>1. /\ \A i \in 1..Len(queue') : queue'[i] \in InFlight'
      /\ \A i \in 1..Len(results') : results'[i].request \in InFlight'
  <2>1. DOMAIN queue' = 1..Len(queue') /\ DOMAIN results' = 1..Len(results')
    BY LenProperties DEF TypeOK
  <2> QED BY <2>1 DEF InFlight, Elements
<1>2. /\ \A i \in 1..Len(queue') : ~SentBy(queue[i], s)'
      /\ \A i \in 1..Len(results') : ~SentBy(results[i].request, s)'
  BY <1>1
<1> QED BY <1>2 DEF Promised, OnePlacement, NoDebitBehind

(* A placement's callback frees the gems or takes them.                    *)
LEMMA OnPlacedSolvent ==
    ASSUME TypeOK, TypeOK', OnBountyPlaced, NEW t \in Slots, Solvent(t) PROVE Solvent(t)'
<1> DEFINE r == Head(results)
           req == r.request
<1>1. /\ results # << >> /\ results' = Tail(results) /\ req \in Requests
      /\ req.op = "escrow" /\ UNCHANGED <<account, session, loaded, balance>>
  BY NextResult DEF OnBountyPlaced, clients
<1>2. PICK s \in Slots : s = req.slot
  <2>1. req \in Escrows
    BY <1>1, RequestKind
  <2> QED BY <2>1 DEF Escrows
<1>3. ResultsKept /\ SameSeat(t)
  BY <1>1 DEF ResultsKept, SameSeat
<1>4. \/ ~SameClient(req) /\ UNCHANGED <<escrowing, queue, history>>
      \/ /\ SameClient(req) /\ escrowing' = [escrowing EXCEPT ![s] = FALSE]
         /\ LoadClientBonusPoints(s) /\ UNCHANGED drift
      \/ /\ SameClient(req) /\ escrowing' = [escrowing EXCEPT ![s] = FALSE]
         /\ Blame(IF points[s] - req.amount < 0 THEN {s} ELSE {}, "clamped")
         /\ UNCHANGED queue
  BY <1>2, Zenon DEF OnBountyPlaced, r, req
<1>5. SameClient(req) => account[s] # Nobody /\ SentBy(req, s)
  BY <1>1, <1>2 DEF SameClient, SentBy
<1> HIDE DEF r, req
<1>6. Idle(t)
  BY <1>4, <1>5, LoadSent, NothingSent
<1>7. drift'[t] \subseteq {"gap"} => drift[t] \subseteq {"gap"}
  BY <1>4 DEF history, Blame
<1>8. CASE ~SameClient(req) \/ t # s
  <2>1. escrowing'[t] = escrowing[t]
    BY <1>4, <1>8 DEF TypeOK
  <2> QED BY <1>1, <1>3, <1>6, <1>7, <2>1, IdleStaysSolvent
<1>9. CASE SameClient(req) /\ t = s
  <2>1. account[t] # Nobody /\ OnePlacement(t) /\ Affords(t)
    BY <1>5, <1>9 DEF Solvent
  <2>2. \A q \in InFlight' : ~SentBy(q, t)
    BY <1>1, <1>3, <1>5, <1>6, <1>9, <2>1, PlacementSettled DEF r, req
  <2>3. \A q \in InFlight' : ~SentBy(q, t)'
    BY <1>3, <2>2 DEF SentBy, SameSeat
  <2>4. Promised(t)' /\ OnePlacement(t)' /\ NoDebitBehind(t)'
    BY <2>3, NonePlaced
  <2>5. Affords(t)'
    <3>1. 0 >= 0 /\ Queues(t, 0)
      BY <1>6 DEF Idle
    <3> QED BY <1>1, <1>3, <1>7, <2>1, <3>1, StillAffords
  <2> QED BY <2>4, <2>5 DEF Solvent
<1> QED BY <1>8, <1>9

(* Credits are queued for accounts.                                        *)
LEMMA QueueCreditSolvent ==
    ASSUME TypeOK, TypeOK', NEW a \in Accounts, NEW n \in CreditAmounts, QueueCredit(a, n),
           NEW t \in Slots, Solvent(t)
    PROVE  Solvent(t)'
<1>1. PICK x \in Requests : queue' = Append(queue, x) /\ x.op = "credit"
  <2> DEFINE x == [op |-> "credit", account |-> a, amount |-> n]
  <2>1. x \in Requests /\ x.op = "credit"
    BY DEF Requests, Credits
  <2> QED BY <2>1 DEF QueueCredit
<1>2. Idle(t)
  BY <1>1, HarmlessSent
<1> QED BY <1>2, IdleStaysSolvent
        DEF QueueCredit, clients, cache, history, SameSeat, ResultsKept

(* A placement is sent by a client that has none out, and moves no row.    *)
LEMMA PlacementSolvent ==
    ASSUME TypeOK, TypeOK', Seated, Alone, NEW s \in Slots, NEW n \in EscrowAmounts,
           QueueBountyPlacement(s, n), NEW t \in Slots, Solvent(t)
    PROVE  Solvent(t)'
<1> DEFINE y == [op |-> "escrow", slot |-> s, session |-> session[s],
                 account |-> account[s], amount |-> n]
<1>1. /\ account[s] \in Accounts /\ account[s] # Nobody /\ session[s] \in Sessions /\ n \in Nat
      /\ queue' = Append(queue, y) /\ ~escrowing[s]
      /\ escrowing' = [escrowing EXCEPT ![s] = TRUE]
      /\ UNCHANGED <<account, session, loaded, balance, results, drift>>
  <2>1. AreBonusPointsReady(s) /\ CanDebit(s, n)
    BY DEF QueueBountyPlacement
  <2>2. account[s] \in Accounts /\ account[s] # Nobody
    BY <2>1, ReadyAccount DEF AreBonusPointsReady
  <2>3. session[s] \in Sessions /\ n \in Nat /\ ~escrowing[s]
    BY <2>1 DEF CanDebit, TypeOK
  <2>4. queue' = Append(queue, y) /\ escrowing' = [escrowing EXCEPT ![s] = TRUE]
    BY DEF QueueBountyPlacement
  <2>5. UNCHANGED <<account, session, loaded, balance, results, drift>>
    BY DEF QueueBountyPlacement, clients, cache, history
  <2> QED BY <2>2, <2>3, <2>4, <2>5
<1>2. PICK x \in Requests : x = y
  BY <1>1 DEF Requests, Escrows
<1>3. /\ x.op = "escrow" /\ x.slot = s /\ x.session = session[s] /\ x.account = account[s]
      /\ queue' = Append(queue, x)
  BY <1>1, <1>2
<1> HIDE DEF y
<1>4. SameSeat(t) /\ ResultsKept
  BY <1>1 DEF SameSeat, ResultsKept
<1>5. CASE t # s
  <2>1. CASE account[t] = Nobody
    BY <1>4, <2>1 DEF Solvent, SameSeat
  <2>2. CASE account[t] # Nobody
    <3>1. Unconcerned(x, t)
      BY <1>1, <1>3, <1>5, <2>2 DEF Unconcerned, Stray, SentBy, Alone
    <3>2. Idle(t)
      BY <1>3, <1>5, <3>1, HarmlessSent
    <3>3. escrowing'[t] = escrowing[t]
      BY <1>1, <1>5 DEF TypeOK
    <3> QED BY <1>1, <1>4, <3>2, <3>3, IdleStaysSolvent
  <2> QED BY <2>1, <2>2
<1>6. CASE t = s
  <2>1. Promised(s) /\ OnePlacement(s) /\ NoDebitBehind(s) /\ Affords(s)
    BY <1>1, <1>6 DEF Solvent
  <2>2. /\ Len(queue) \in Nat /\ Len(queue') = Len(queue) + 1
        /\ queue'[Len(queue) + 1] = x
        /\ \A i \in 1..Len(queue) : queue'[i] = queue[i]
    <3>1. queue \in Seq(Requests)
      BY DEF TypeOK
    <3> QED BY <1>3, <3>1, AppendAt
  <2>3. /\ \A i \in 1..Len(queue) : ~SentBy(queue[i], s)
        /\ \A i \in 1..Len(results) : ~SentBy(results[i].request, s)
    BY <1>1, <2>1, InFlightAt DEF Promised
  <2>4. escrowing'[s]
    BY <1>1 DEF TypeOK
  <2>5. Promised(s)'
    BY <2>4 DEF Promised
  <2>6. \A i \in 1..Len(queue') : SentBy(queue'[i], s) => i = Len(queue')
    BY <2>2, <2>3
  <2>7. OnePlacement(s)'
    <3>1. \A i \in 1..Len(queue') : SentBy(queue[i], s)' => i = Len(queue')
      BY <1>1, <2>6 DEF SentBy
    <3>2. \A i \in 1..Len(results') : ~SentBy(results[i].request, s)'
      BY <1>1, <2>3 DEF SentBy
    <3> QED BY <3>1, <3>2 DEF OnePlacement
  <2>8. NoDebitBehind(s)'
    <3>1. \A i \in 1..Len(queue') : SentBy(queue[i], s)' => i = Len(queue')
      BY <1>1, <2>6 DEF SentBy
    <3> QED BY <2>2, <3>1 DEF NoDebitBehind
  <2>9. Affords(s)'
    <3>1. Unconcerned(x, s)
      BY <1>3 DEF Unconcerned, Stray, SentBy
    <3>2. 0 = IF Moves(x, s) THEN x.amount ELSE 0
      BY <1>3 DEF Moves
    <3>3. Queues(s, 0) /\ 0 >= 0
      BY <1>3, <3>1, <3>2, OneQueued
    <3> QED BY <1>1, <1>4, <1>6, <2>1, <3>3, StillAffords
  <2> QED BY <1>6, <2>5, <2>7, <2>8, <2>9 DEF Solvent
<1> QED BY <1>5, <1>6

(* A client that arrives has placed nothing and is shown nothing.          *)
LEMMA AuthorizedSolvent ==
    ASSUME TypeOK, TypeOK', NEW s \in Slots, NEW a \in Accounts, OnClientAuthorized(s, a),
           NEW t \in Slots, Solvent(t)
    PROVE  Solvent(t)'
<1>1. PICK n \in Sessions :
        /\ FreshSession(n)
        /\ account' = [account EXCEPT ![s] = a]
        /\ session' = [session EXCEPT ![s] = n]
        /\ loaded' = [loaded EXCEPT ![s] = FALSE]
        /\ escrowing' = [escrowing EXCEPT ![s] = FALSE]
        /\ drift' = [drift EXCEPT ![s] = {}]
        /\ QueueSelect(s, a, n, 0, FALSE, InFlight)
  BY DEF OnClientAuthorized
<1>2. balance' = balance /\ results' = results /\ ResultsKept
  BY DEF OnClientAuthorized, ResultsKept
<1>3. PICK pts \in Nat, ld \in BOOLEAN : QueueSelect(s, a, n, pts, ld, InFlight)
  BY <1>1, Zenon
<1>4. CASE t # s
  <2>1. Idle(t)
    BY <1>3, SelectSent
  <2>2. /\ SameSeat(t) /\ escrowing'[t] = escrowing[t] /\ loaded'[t] = loaded[t]
        /\ drift'[t] = drift[t]
    BY <1>1, <1>4 DEF SameSeat, TypeOK
  <2> QED BY <1>2, <2>1, <2>2, IdleStaysSolvent
<1>5. CASE t = s
  <2>1. PICK x \in Requests : queue' = Append(queue, x) /\ x.op = "select"
    BY <1>3, QueueSelectAppends
  <2>2. InFlight' = InFlight \union {x}
    BY <1>2, <2>1, InFlightAppend DEF TypeOK
  <2>3. ASSUME NEW r \in InFlight, r.op = "escrow" PROVE r.session # n
    BY <1>1, <2>3 DEF FreshSession
  <2>4. session'[s] = n /\ loaded'[s] = FALSE
    BY <1>1 DEF TypeOK
  <2>5. \A r \in InFlight' : ~SentBy(r, s)'
    BY <2>1, <2>2, <2>3, <2>4 DEF SentBy
  <2>6. Promised(s)' /\ OnePlacement(s)' /\ NoDebitBehind(s)'
    BY <2>5, NonePlaced
  <2> QED BY <1>5, <2>4, <2>6 DEF Solvent, Affords
<1> QED BY <1>4, <1>5

(* A slot that is left owes nothing.                                       *)
LEMMA DisconnectSolvent ==
    ASSUME TypeOK, TypeOK', NEW s \in Slots, OnClientDisconnect(s), NEW t \in Slots, Solvent(t)
    PROVE  Solvent(t)'
<1>1. UNCHANGED <<session, balance, queue, results>> /\ ResultsKept
  BY DEF OnClientDisconnect, channel, ResultsKept
<1>2. CASE t = s
  <2>1. account'[s] = Nobody
    BY DEF OnClientDisconnect, TypeOK
  <2> QED BY <1>2, <2>1 DEF Solvent
<1>3. CASE t # s
  <2>1. /\ SameSeat(t) /\ escrowing'[t] = escrowing[t] /\ loaded'[t] = loaded[t]
        /\ drift'[t] = drift[t]
    BY <1>1, <1>3 DEF SameSeat, OnClientDisconnect, TypeOK
  <2> QED BY <1>1, <2>1, NothingSent, IdleStaysSolvent
<1> QED BY <1>2, <1>3

(* A debit is taken from what the cache shows while nothing is promised.   *)
LEMMA ApplySolvent ==
    ASSUME TypeOK, TypeOK', Seated, LedgerInv, NEW s \in Slots, NEW n \in Int,
           ApplyBonusPointsNow(s, n), NEW t \in Slots, Solvent(t)
    PROVE  Solvent(t)'
<1>1. account[s] \in Accounts /\ account[s] # Nobody
  BY ReadyAccount DEF ApplyBonusPointsNow, AreBonusPointsReady
<1>2. PICK x \in Requests : x = Upsert(account[s], n)
  BY <1>1, UpsertType
<1>3. /\ queue' = Append(queue, x)
      /\ n < 0 => ~escrowing[s] /\ points[s] >= -n
      /\ UNCHANGED <<account, session, loaded, escrowing, drift, balance, results>>
  BY <1>2 DEF ApplyBonusPointsNow, CanDebit, clients
<1>4. /\ x.op = "upsert" /\ x.amount = n /\ Moves(x, s)
      /\ \A u \in Slots : Unconcerned(x, u)
      /\ \A u \in Slots \ {s} : account[u] # Nobody => ~Moves(x, u)
  BY <1>1, <1>2, UpsertMoves
<1>5. SameSeat(t) /\ ResultsKept
  BY <1>3 DEF SameSeat, ResultsKept
<1>6. NoneSent(t)
  BY <1>3, <1>4, OneSent DEF SentBy
<1>7. CASE account[t] = Nobody
  BY <1>5, <1>7 DEF Solvent, SameSeat
<1>8. CASE account[t] # Nobody /\ t # s
  <2>1. 0 = IF Moves(x, t) THEN x.amount ELSE 0
    BY <1>4, <1>8
  <2>2. Queues(t, 0) /\ 0 >= 0
    BY <1>3, <1>4, <2>1, OneQueued
  <2> QED BY <1>3, <1>5, <1>6, <2>2, StaysSolvent
<1>9. CASE t = s
  <2>1. n = IF Moves(x, s) THEN x.amount ELSE 0
    BY <1>4
  <2>2. Queues(s, n)
    BY <1>3, <1>4, <2>1, OneQueued
  <2>3. n >= 0 \/ (~escrowing[s] /\ PaysFor(s, n))
    <3>1. CASE n < 0
      <4>1. CacheAdds(s) /\ Promised(s)
        BY <1>1, <1>9 DEF LedgerInv, Booked, Solvent
      <4>2. points[s] + n >= 0
        BY <1>3, <3>1 DEF TypeOK
      <4> QED BY <1>1, <1>3, <3>1, <4>1, <4>2, DebitIsPaid
    <3> QED BY <3>1
  <2> QED BY <1>3, <1>5, <1>6, <1>9, <2>2, <2>3, StaysSolvent
<1> QED BY <1>7, <1>8, <1>9

(* So is what is stolen, from a victim with no placement under way.        *)
LEMMA StealSolvent ==
    ASSUME TypeOK, TypeOK', Seated, LedgerInv, NEW s \in Slots, NEW v \in Slots,
           NEW n \in StealAmounts, StealBonusPoints(s, v, n), ~escrowing[s],
           NEW t \in Slots, Solvent(t)
    PROVE  Solvent(t)'
<1>1. PICK k \in Nat : k = Stealable(s, n)
  BY DEF Stealable, TypeOK
<1>2. /\ account[s] \in Accounts /\ account[s] # Nobody
      /\ account[v] \in Accounts /\ account[v] # Nobody /\ s # v
  BY ReadyAccount DEF StealBonusPoints, AreBonusPointsReady
<1>3. PICK x \in Requests : x = Upsert(account[s], -k)
  BY <1>2, UpsertType
<1>4. PICK y \in Requests : y = Upsert(account[v], k)
  BY <1>2, UpsertType
<1>5. /\ queue' = queue \o <<x, y>>
      /\ Touch({s, v})
      /\ UNCHANGED <<account, session, loaded, load, escrowing, drift, balance, results>>
  BY <1>1, <1>2, <1>3, <1>4 DEF StealBonusPoints, clients, loads
<1>6. /\ x.op = "upsert" /\ x.amount = -k /\ Moves(x, s)
      /\ \A u \in Slots : Unconcerned(x, u) /\ ~OwnedBy(u, x)
      /\ \A u \in Slots \ {s} : account[u] # Nobody => ~Moves(x, u)
  BY <1>2, <1>3, UpsertMoves
<1>7. /\ y.op = "upsert" /\ y.amount = k /\ Moves(y, v)
      /\ \A u \in Slots : Unconcerned(y, u) /\ ~OwnedBy(u, y)
      /\ \A u \in Slots \ {v} : account[u] # Nobody => ~Moves(y, u)
  BY <1>2, <1>4, UpsertMoves
<1>8. SameSeat(t) /\ ResultsKept
  BY <1>5 DEF SameSeat, ResultsKept
<1>9. NoneSent(t)
  <2>1. /\ Len(queue) \in Nat /\ Len(queue') = Len(queue) + 2
        /\ queue'[Len(queue) + 1] = x /\ queue'[Len(queue) + 2] = y
    BY <1>5, TwoQueued
  <2>2. \A i \in (Len(queue) + 1)..Len(queue') : queue'[i] = x \/ queue'[i] = y
    <3>1. \A i \in (Len(queue) + 1)..Len(queue') : i = Len(queue) + 1 \/ i = Len(queue) + 2
      BY <2>1
    <3> QED BY <2>1, <3>1
  <2> QED BY <1>6, <1>7, <2>2 DEF NoneSent, SentBy
<1>10. ASSUME account[t] # Nobody, NEW w \in Int,
              w = (IF Moves(x, t) THEN x.amount ELSE IF Moves(y, t) THEN y.amount ELSE 0),
              w >= 0 \/ (~escrowing[t] /\ PaysFor(t, w))
       PROVE  Solvent(t)'
  <2>1. /\ mutated[t] => mutated'[t]
        /\ load[t] = Null \/ mutated'[t] \/ (~Moves(x, t) /\ ~Moves(y, t))
    BY <1>5, <1>6, <1>7, <1>10 DEF Touch
  <2>2. ~Moves(x, t) \/ ~Moves(y, t)
    BY <1>2, <1>6, <1>7, <1>10
  <2>3. Queues(t, w)
    BY <1>5, <1>6, <1>7, <1>10, <2>1, <2>2, TwoQueuedFor
  <2> QED BY <1>5, <1>8, <1>9, <1>10, <2>3, StaysSolvent
<1>11. CASE account[t] = Nobody
  BY <1>8, <1>11 DEF Solvent, SameSeat
<1>12. CASE t = s
  <2>1. PICK w \in Int : w = -k
    OBVIOUS
  <2>2. CacheAdds(s) /\ Promised(s)
    BY <1>2, <1>12 DEF LedgerInv, Booked, Solvent
  <2>3. points[s] + w >= 0
    <3>1. points[s] \in Nat /\ n \in Nat
      BY DEF TypeOK
    <3>2. k <= points[s]
      BY <1>1, <3>1 DEF Stealable
    <3> QED BY <2>1, <3>1, <3>2
  <2>4. PaysFor(s, w)
    BY <1>2, <2>2, <2>3, DebitIsPaid
  <2> QED BY <1>2, <1>6, <1>10, <1>12, <2>1, <2>4
<1>13. CASE t = v
  <2>1. ~Moves(x, v) /\ k >= 0
    BY <1>2, <1>6
  <2> QED BY <1>2, <1>7, <1>10, <1>13, <2>1
<1>14. CASE account[t] # Nobody /\ t # s /\ t # v
  <2>1. ~Moves(x, t) /\ ~Moves(y, t) /\ 0 >= 0 /\ 0 \in Int
    BY <1>6, <1>7, <1>14
  <2> QED BY <1>10, <1>14, <2>1
<1> QED BY <1>11, <1>12, <1>13, <1>14

(* What clients do, placers being left alone, keeps them solvent.          *)
LEMMA ClientStepSolvent ==
    ASSUME TypeOK, TypeOK', Seated, LedgerInv, NEW s \in Slots, ClientStep(s),
           PlacersAreLeftAlone, NEW t \in Slots, Solvent(t)
    PROVE  Solvent(t)'
<1>1. ASSUME OnClientPutInServer(s) PROVE Solvent(t)'
  <2>1. /\ UNCHANGED <<account, session, loaded, escrowing, balance, queue, drift>>
        /\ ResultsKept
    BY <1>1 DEF OnClientPutInServer, cache, channel, history, ResultsKept
  <2> QED BY <2>1, NothingSent, IdleStaysSolvent DEF SameSeat
<1>2. ASSUME AskForBalance(s) PROVE Solvent(t)'
  <2>1. /\ LoadClientBonusPoints(s) /\ account[s] # Nobody /\ ResultsKept
        /\ UNCHANGED <<account, session, loaded, escrowing, drift, balance>>
    BY <1>2 DEF AskForBalance, Seated, clients, cache, ResultsKept
  <2>2. Idle(t)
    BY <2>1, LoadSent
  <2> QED BY <2>1, <2>2, IdleStaysSolvent DEF SameSeat
<1>3. ASSUME NEW n \in GrantAmounts, ApplyBonusPointsNow(s, n) PROVE Solvent(t)'
  <2>1. n \in Int
    OBVIOUS
  <2> QED BY <1>3, <2>1, ApplySolvent
<1>4. ASSUME NEW n \in SpendAmounts, ApplyBonusPointsNow(s, -n) PROVE Solvent(t)'
  <2>1. PICK m \in Int : m = -n
    OBVIOUS
  <2>2. ApplyBonusPointsNow(s, m)
    BY <1>4, <2>1
  <2> QED BY <2>2, ApplySolvent
<1>5. ASSUME NEW v \in Slots, NEW n \in StealAmounts, StealBonusPoints(s, v, n)
      PROVE  Solvent(t)'
  <2>1. ~escrowing[s]
    BY <1>5 DEF PlacersAreLeftAlone
  <2> QED BY <1>5, <2>1, StealSolvent
<1>6. ASSUME NEW n \in EscrowAmounts, QueueBountyPlacement(s, n) PROVE Solvent(t)'
  BY <1>6, PlacementSolvent DEF LedgerInv
<1>7. \/ \E a \in Accounts : OnClientAuthorized(s, a)
      \/ OnClientPutInServer(s)
      \/ OnClientDisconnect(s)
      \/ AskForBalance(s)
      \/ \E n \in GrantAmounts : ApplyBonusPointsNow(s, n)
      \/ \E n \in SpendAmounts : ApplyBonusPointsNow(s, -n)
      \/ \E v \in Slots, n \in StealAmounts : StealBonusPoints(s, v, n)
      \/ \E n \in EscrowAmounts : QueueBountyPlacement(s, n)
  BY DEF ClientStep
<1> QED BY <1>1, <1>2, <1>3, <1>4, <1>5, <1>6, <1>7, AuthorizedSolvent, DisconnectSolvent

(* A placement that is answered is the one that was queued.                *)
LEMMA ExecutePlacements ==
    ASSUME TypeOK, Execute, NEW t \in Slots, OnePlacement(t)
    PROVE  OnePlacement(t)'
<1>1. PICK h : h = Head(queue)
  OBVIOUS
<1>2. /\ Len(queue) \in Nat \ {0} /\ queue[1] = h /\ 1 \in 1..Len(queue)
      /\ \A j \in 1..Len(queue') : j + 1 \in 1..Len(queue) /\ queue'[j] = queue[j + 1]
  BY <1>1, ExecutePositions
<1>3. /\ Len(results) \in Nat /\ Len(results') \in Nat
      /\ \A k \in 1..Len(results') : KeptAt(k) \/ AnswersAt(h, k)
  BY <1>1, ExecuteResults
<1>4. SameSeat(t)
  BY ExecuteFrame
<1>5. ASSUME NEW j \in 1..Len(queue'), SentBy(queue[j], t)'
      PROVE  j + 1 \in 1..Len(queue) /\ SentBy(queue[j + 1], t)
  BY <1>2, <1>4, <1>5 DEF SentBy, SameSeat
<1>6. ASSUME NEW k \in 1..Len(results'), SentBy(results[k].request, t)'
      PROVE  \/ k \in 1..Len(results) /\ SentBy(results[k].request, t)
             \/ k = Len(results) + 1 /\ SentBy(queue[1], t)
  <2>1. SentBy(results'[k].request, t)
    BY <1>4, <1>6 DEF SentBy, SameSeat
  <2> QED BY <1>2, <1>3, <2>1 DEF KeptAt, AnswersAt, Answers
<1>7. \A i, j \in 1..Len(queue') : SentBy(queue[i], t)' /\ SentBy(queue[j], t)' => i = j
  <2> SUFFICES ASSUME NEW i \in 1..Len(queue'), NEW j \in 1..Len(queue'),
                      SentBy(queue[i], t)', SentBy(queue[j], t)'
               PROVE  i = j
    OBVIOUS
  <2>1. i + 1 = j + 1
    BY <1>5 DEF OnePlacement
  <2> QED BY <2>1
<1>8. \A i, j \in 1..Len(results') :
          SentBy(results[i].request, t)' /\ SentBy(results[j].request, t)' => i = j
  <2> SUFFICES ASSUME NEW i \in 1..Len(results'), NEW j \in 1..Len(results'),
                      SentBy(results[i].request, t)', SentBy(results[j].request, t)'
               PROVE  i = j
    OBVIOUS
  <2> QED BY <1>2, <1>6 DEF OnePlacement
<1>9. \A i \in 1..Len(results'), j \in 1..Len(queue') :
          ~(SentBy(results[i].request, t)' /\ SentBy(queue[j], t)')
  <2> SUFFICES ASSUME NEW i \in 1..Len(results'), NEW j \in 1..Len(queue'),
                      SentBy(results[i].request, t)', SentBy(queue[j], t)'
               PROVE  FALSE
    OBVIOUS
  <2>1. j + 1 \in 1..Len(queue) /\ SentBy(queue[j + 1], t) /\ j + 1 # 1
    BY <1>5
  <2> QED BY <1>2, <1>6, <2>1 DEF OnePlacement
<1> QED BY <1>7, <1>8, <1>9 DEF OnePlacement

(* No debit passes a placement on its way to the worker.                   *)
LEMMA ExecuteNoDebit ==
    ASSUME TypeOK, Execute, NEW t \in Slots, NoDebitBehind(t)
    PROVE  NoDebitBehind(t)'
<1>1. PICK h : h = Head(queue)
  OBVIOUS
<1>2. \A j \in 1..Len(queue') : j + 1 \in 1..Len(queue) /\ queue'[j] = queue[j + 1]
  BY <1>1, ExecutePositions
<1>3. SameSeat(t)
  BY ExecuteFrame
<1> SUFFICES ASSUME NEW i \in 1..Len(queue'), NEW j \in 1..Len(queue'), i < j,
                    SentBy(queue'[i], t), Moves(queue'[j], t)
             PROVE  queue'[j].amount >= 0
  BY <1>3 DEF NoDebitBehind, SameSeat, SentBy, Moves
<1>4. /\ i + 1 \in 1..Len(queue) /\ j + 1 \in 1..Len(queue) /\ i + 1 < j + 1
      /\ SentBy(queue[i + 1], t) /\ Moves(queue[j + 1], t)
  BY <1>2
<1> QED BY <1>2, <1>4 DEF NoDebitBehind

(* What the worker executes is what the row was said to afford.            *)
LEMMA ExecuteAffords ==
    ASSUME TypeOK, TypeOK', Execute, NEW t \in Slots, account[t] # Nobody,
           OwnPlacements(t), NoStrays(t), NoDebitBehind(t), Affords(t)
    PROVE  Affords(t)'
<1>1. PICK h : h = Head(queue)
  OBVIOUS
<1>2. /\ Len(queue) \in Nat \ {0} /\ Len(queue') = Len(queue) - 1
      /\ queue[1] = h /\ 1 \in 1..Len(queue)
      /\ \A j \in 1..Len(queue') : j + 1 \in 1..Len(queue) /\ queue'[j] = queue[j + 1]
  BY <1>1, ExecutePositions
<1>3. /\ loaded'[t] = loaded[t] /\ account'[t] = account[t] /\ SameSeat(t)
      /\ queue # << >> /\ queue' = Tail(queue)
  BY ExecuteFrame DEF SameSeat
<1>4. PICK old : old = balance[account[t]]
  OBVIOUS
<1>5. PICK new : new = balance'[account[t]]
  OBVIOUS
<1> SUFFICES ASSUME loaded[t], drift'[t] \subseteq {"gap"}
             PROVE  StaysUp(Moved(t)', Len(queue'), Fetched(new))
  BY <1>3, <1>5 DEF Affords, Fetched, StaysUp
<1>6. ~Stray(h, t)
  BY <1>2 DEF NoStrays
<1>7. PICK m, g \in Int : /\ m = (IF Moves(h, t) THEN h.amount ELSE 0)
                          /\ Gains(h, t, g) /\ RowFollows(t, m, g)
  BY <1>1, <1>6, ExecuteRow DEF Accounted
<1>8. /\ drift[t] \subseteq {"gap"}
      /\ Fetched(new) >= Fetched(old) + m + g
      /\ Fetched(old) >= 0 /\ m = 0 => Fetched(new) >= 0
  BY <1>4, <1>5, <1>7 DEF RowFollows
<1>9. Fetched(old) \in Int /\ Fetched(new) \in Int
  <2>1. /\ balance[account[t]] \in Int \union {NoRow}
        /\ balance'[account[t]] \in Int \union {NoRow}
    BY <1>3 DEF TypeOK
  <2> QED BY <1>4, <1>5, <2>1, FetchedType
<1>10. StaysUp(Moved(t), Len(queue), Fetched(old))
  BY <1>4, <1>8 DEF Affords
<1> DEFINE d == Moved(t)
           e == Moved(t)'
           n == Len(queue)
<1>11. d[1] = m
  BY <1>2, <1>7 DEF Moved
<1>12. \A i \in 1..(n - 1) : e[i] = d[i + 1]
  BY <1>2, <1>3 DEF Moved, Moves
<1>13. CASE ~SentBy(h, t)
  <2>1. g >= 0
    <3>1. ASSUME NEW r \in Results, r.request = h PROVE Due(r, t) >= 0
      <4>1. h \in Requests
        BY <1>2, InFlightAt
      <4>2. h.op = "credit" => h.amount \in Nat
        BY <4>1, RequestKind DEF Credits
      <4> QED BY <1>13, <3>1, <4>2 DEF Due
    <3> QED BY <1>7, <3>1 DEF Gains
  <2>2. Fetched(new) >= Fetched(old) + d[1]
    BY <1>8, <1>9, <1>11, <2>1
  <2>3. Shortens(d, n, e)
    BY <1>11, <1>12 DEF Shortens
  <2>4. StaysUp(d, n, Fetched(old)) /\ n \in Nat \ {0} /\ Len(queue') = n - 1
    BY <1>2, <1>10
  <2> HIDE DEF d, e, n
  <2>5. StaysUp(e, n - 1, Fetched(new))
    BY <1>9, <2>2, <2>3, <2>4, ShortenedStaysUp
  <2> QED BY <2>4, <2>5 DEF e
<1>14. CASE SentBy(h, t)
  <2>1. m = 0
    BY <1>7, <1>14 DEF SentBy, Moves
  <2>2. Fetched(new) >= 0
    <3>1. Fetched(old) >= 0
      BY <1>2, <1>9, <1>10, StaysUpFromZero
    <3> QED BY <1>8, <2>1, <3>1
  <2>3. \A i \in 1..(n - 1) : e[i] >= 0
    <3>1. ASSUME NEW i \in 1..(n - 1) PROVE d[i + 1] >= 0
      <4>1. i + 1 \in 1..Len(queue) /\ 1 < i + 1
        BY <1>2
      <4>2. Moves(queue[i + 1], t) => queue[i + 1].amount >= 0
        BY <1>2, <1>14, <4>1 DEF NoDebitBehind
      <4> QED BY <4>1, <4>2 DEF Moved
    <3> QED BY <1>12, <3>1
  <2>4. PICK f : PartialSums(f, d, n)
    BY <1>10 DEF StaysUp
  <2>5. Shortens(d, n, e)
    BY <1>11, <1>12 DEF Shortens
  <2>6. n - 1 \in Nat /\ n \in Nat \ {0} /\ Len(queue') = n - 1
    BY <1>2
  <2> HIDE DEF d, e, n
  <2>7. PICK k : PartialSums(k, e, n - 1)
    BY <2>4, <2>5, <2>6, ShortenedPartialSums
  <2>8. SumsTo(e, n - 1, k[n - 1])
    BY <2>7 DEF SumsTo
  <2>9. StaysUp(e, n - 1, Fetched(new))
    BY <1>9, <2>2, <2>3, <2>6, <2>8, GainsStayUp
  <2> QED BY <2>6, <2>9 DEF e
<1> QED BY <1>13, <1>14

(* The worker's step keeps a client solvent.                               *)
LEMMA ExecuteSolvent ==
    ASSUME TypeOK, TypeOK', LedgerInv, Execute, NEW t \in Slots, Solvent(t)
    PROVE  Solvent(t)'
<1>1. SameSeat(t) /\ escrowing' = escrowing
  BY ExecuteFrame DEF Execute
<1> SUFFICES ASSUME account[t] # Nobody
             PROVE  Promised(t)' /\ OnePlacement(t)' /\ NoDebitBehind(t)' /\ Affords(t)'
  BY <1>1 DEF Solvent, SameSeat
<1>2. Promised(t) /\ OnePlacement(t) /\ NoDebitBehind(t) /\ Affords(t)
  BY DEF Solvent
<1>3. Promised(t)'
  <2> SUFFICES ASSUME NEW r \in InFlight', SentBy(r, t) PROVE escrowing[t]
    BY <1>1 DEF Promised, SameSeat, SentBy
  <2> QED BY <1>2, ExecuteInFlight DEF Promised
<1>4. OwnPlacements(t) /\ NoStrays(t)
  BY DEF LedgerInv, Booked
<1> QED BY <1>2, <1>3, <1>4, ExecutePlacements, ExecuteNoDebit, ExecuteAffords

------------------------------------------------------------------------------
(* What the worker will leave behind.                                      *)

(* What the request at position i leaves of what it finds in the row of a, *)
(* and the rows of a so reached from r on.                                 *)
Leaves(x, i, a) == IF queue[i].account = a THEN Paid(x, queue[i]) ELSE x
Runs(f, r, a, n) == f = [i \in 0..n |-> IF i = 0 THEN r ELSE Leaves(f[i - 1], i, a)]

(* There is such a list, whatever the length of the queue.                 *)
LEMMA RunsExist ==
    ASSUME NEW r, NEW a, NEW n \in Nat PROVE \E f : Runs(f, r, a, n)
<1> DEFINE T == {k \in Nat : \E f : Runs(f, r, a, k)}
<1>1. 0 \in T
  <2> DEFINE f == [i \in 0..0 |-> r]
  <2>1. f = [i \in 0..0 |-> IF i = 0 THEN r ELSE Leaves(f[i - 1], i, a)]
    OBVIOUS
  <2> QED BY <2>1 DEF Runs
<1>2. ASSUME NEW k \in T PROVE k + 1 \in T
  <2>1. PICK f : Runs(f, r, a, k)
    OBVIOUS
  <2>2. /\ f[0] = r
        /\ \A i \in 1..k : f[i] = Leaves(f[i - 1], i, a)
    BY <2>1 DEF Runs
  <2> DEFINE last == Leaves(f[k], k + 1, a)
             g == [i \in 0..(k + 1) |-> IF i <= k THEN f[i] ELSE last]
             h == [i \in 0..(k + 1) |-> IF i = 0 THEN r ELSE Leaves(g[i - 1], i, a)]
  <2>3. ASSUME NEW i \in 0..(k + 1) PROVE g[i] = h[i]
    <3>1. CASE i = 0
      BY <2>2, <3>1
    <3>2. CASE i \in 1..k
      <4>1. g[i] = f[i] /\ i - 1 \in 0..k /\ i - 1 \in 0..(k + 1) /\ i # 0
        BY <3>2
      <4>2. g[i - 1] = f[i - 1]
        BY <4>1
      <4>3. h[i] = Leaves(g[i - 1], i, a)
        BY <4>1
      <4> QED BY <2>2, <3>2, <4>1, <4>2, <4>3
    <3>3. CASE i = k + 1
      <4>1. g[i] = last /\ i - 1 = k /\ k \in 0..(k + 1) /\ i # 0
        BY <3>3
      <4>2. g[k] = f[k]
        BY <4>1
      <4>3. h[i] = Leaves(g[i - 1], i, a)
        BY <4>1
      <4> QED BY <3>3, <4>1, <4>2, <4>3
    <3> QED BY <3>1, <3>2, <3>3
  <2>4. g = h
    BY <2>3
  <2>5. Runs(g, r, a, k + 1)
    BY <2>4 DEF Runs
  <2> QED BY <2>5
<1>3. T \in SUBSET Nat
  OBVIOUS
<1>4. n \in T
  <2> HIDE DEF T
  <2> QED BY <1>1, <1>2, <1>3, SuccessorsAreAll
<1> QED BY <1>4

(* LedgerAfter is that list.                                               *)
LEMMA LedgerRuns ==
    ASSUME TypeOK, NEW a
    PROVE  Runs(LedgerAfter(a), Fetched(balance[a]), a, Len(queue))
<1>1. Len(queue) \in Nat
  BY InFlightAt
<1>2. \E f : f = [i \in 0..Len(queue) |->
                    IF i = 0 THEN Fetched(balance[a])
                    ELSE IF queue[i].account = a THEN Paid(f[i - 1], queue[i]) ELSE f[i - 1]]
  <2>1. PICK r : r = Fetched(balance[a])
    OBVIOUS
  <2>2. PICK f : Runs(f, r, a, Len(queue))
    BY <1>1, RunsExist
  <2>3. f = [i \in 0..Len(queue) |->
                    IF i = 0 THEN Fetched(balance[a])
                    ELSE IF queue[i].account = a THEN Paid(f[i - 1], queue[i]) ELSE f[i - 1]]
    BY <2>1, <2>2 DEF Runs, Leaves
  <2> QED BY <2>3
<1>3. LedgerAfter(a) = [i \in 0..Len(queue) |->
                    IF i = 0 THEN Fetched(balance[a])
                    ELSE IF queue[i].account = a
                         THEN Paid(LedgerAfter(a)[i - 1], queue[i])
                         ELSE LedgerAfter(a)[i - 1]]
  BY <1>2 DEF LedgerAfter
<1> QED BY <1>3 DEF Runs, Leaves

(* No row of a solvent client is overdrawn: what is moved before its       *)
(* placement is paid for, a placement takes no more than is there, and     *)
(* behind it only gains are queued.                                        *)
LEMMA SolventIsCovered ==
    ASSUME TypeOK, LedgerInv, NEW s \in Slots, Solvent(s),
           account[s] # Nobody, loaded[s], drift[s] \subseteq {"gap"},
           NEW i \in 0..Len(queue)
    PROVE  LedgerAfter(account[s])[i] >= 0
<1>1. /\ Len(queue) \in Nat
      /\ \A k \in 1..Len(queue) : queue[k] \in InFlight /\ queue[k] \in Requests
  BY InFlightAt
<1>2. OwnPlacements(s) /\ NoStrays(s) /\ NoDebitBehind(s) /\ Affords(s)
  BY DEF LedgerInv, Booked, Solvent
<1>3. PICK r \in Int : r = Fetched(balance[account[s]])
  <2>1. balance[account[s]] \in Int \union {NoRow}
    BY DEF TypeOK
  <2> QED BY <2>1, FetchedType
<1>4. PICK f : PartialSums(f, Moved(s), Len(queue)) /\ \A k \in 0..Len(queue) : r + f[k] >= 0
  BY <1>2, <1>3 DEF Affords, StaysUp
<1> DEFINE after == LedgerAfter(account[s])
           NonePlacedIn(k) == \A j \in 1..k : ~SentBy(queue[j], s)
           Covered(k) == /\ after[k] \in Int /\ after[k] >= 0
                         /\ NonePlacedIn(k) => after[k] = r + f[k]
           T == {k \in Nat : k <= Len(queue) => Covered(k)}
<1>5. /\ after[0] = r
      /\ \A k \in 1..Len(queue) : after[k] = Leaves(after[k - 1], k, account[s])
  BY <1>1, <1>3, LedgerRuns DEF Runs
<1>6. /\ f[0] = 0
      /\ \A k \in 0..Len(queue) : f[k] \in Int
      /\ \A k \in 1..Len(queue) : f[k] = f[k - 1] + Moved(s)[k]
  BY <1>4 DEF PartialSums
<1> HIDE DEF after
<1>7. Covered(0)
  BY <1>1, <1>4, <1>5, <1>6
<1>8. ASSUME NEW k \in Nat, k + 1 <= Len(queue), Covered(k) PROVE Covered(k + 1)
  <2> DEFINE q == queue[k + 1]
  <2>1. k + 1 \in 1..Len(queue) /\ (k + 1) - 1 = k /\ k \in 0..Len(queue)
        /\ k + 1 \in 0..Len(queue)
    BY <1>1, <1>8
  <2>2. after[k + 1] = Leaves(after[k], k + 1, account[s])
    BY <1>5, <2>1
  <2>3. /\ f[k + 1] = f[k] + Moved(s)[k + 1] /\ r + f[k + 1] >= 0
        /\ f[k] \in Int /\ f[k + 1] \in Int
    BY <1>4, <1>6, <2>1
  <2>4. Moved(s)[k + 1] = IF Moves(q, s) THEN q.amount ELSE 0
    BY <2>1 DEF Moved
  <2>5. q \in Requests /\ q \in InFlight
    BY <1>1, <2>1
  <2>6. NonePlacedIn(k + 1) => NonePlacedIn(k) /\ ~SentBy(q, s)
    BY <2>1
  <2> HIDE DEF q
  <2>7. CASE Moves(q, s)
    <3>1. q.amount \in Int
      BY <2>5, <2>7, RequestKind DEF Upserts, Moves
    <3>2. after[k + 1] = after[k] + q.amount
      BY <2>2, <2>7 DEF Leaves, Paid, Moves, q
    <3>3. CASE NonePlacedIn(k)
      BY <1>8, <2>3, <2>4, <2>7, <3>1, <3>2, <3>3
    <3>4. CASE ~NonePlacedIn(k)
      <4>1. PICK j \in 1..k : SentBy(queue[j], s)
        BY <3>4
      <4>2. j \in 1..Len(queue) /\ j < k + 1
        BY <2>1
      <4>3. q.amount >= 0
        BY <1>2, <2>1, <2>7, <4>1, <4>2 DEF NoDebitBehind, q
      <4>4. ~NonePlacedIn(k + 1)
        BY <2>6, <3>4
      <4> QED BY <1>8, <3>1, <3>2, <4>3, <4>4
    <3> QED BY <3>3, <3>4
  <2>8. CASE ~Moves(q, s)
    <3>1. f[k + 1] = f[k]
      BY <2>3, <2>4, <2>8
    <3>2. CASE q.op = "escrow" /\ q.account = account[s]
      <4>1. SentBy(q, s)
        <5>1. ~Stray(q, s)
          BY <1>2, <2>1 DEF NoStrays, q
        <5> QED BY <3>2, <5>1 DEF Stray
      <4>2. q.amount \in Nat
        BY <2>5, <3>2, RequestKind DEF Escrows
      <4>3. after[k + 1] = IF after[k] >= q.amount THEN after[k] - q.amount ELSE after[k]
        BY <2>2, <3>2 DEF Leaves, Paid, q
      <4>4. ~NonePlacedIn(k + 1)
        BY <2>6, <4>1
      <4> QED BY <1>8, <4>2, <4>3, <4>4
    <3>3. CASE ~(q.op = "escrow" /\ q.account = account[s])
      <4>1. after[k + 1] = after[k]
        BY <2>2, <2>8, <3>3 DEF Leaves, Paid, Moves, q
      <4> QED BY <1>8, <2>6, <3>1, <4>1
    <3> QED BY <3>2, <3>3
  <2> QED BY <2>7, <2>8
<1>9. 0 \in T
  BY <1>7
<1>10. ASSUME NEW k \in T PROVE k + 1 \in T
  <2> SUFFICES ASSUME k + 1 <= Len(queue) PROVE Covered(k + 1)
    OBVIOUS
  <2>1. k <= Len(queue)
    BY <1>1
  <2>2. Covered(k)
    BY <2>1
  <2> HIDE DEF Covered
  <2> QED BY <1>8, <2>2
<1>11. T \in SUBSET Nat
  OBVIOUS
<1>12. i \in T
  <2>1. i \in Nat
    OBVIOUS
  <2> HIDE DEF T
  <2> QED BY <1>9, <1>10, <1>11, <2>1, SuccessorsAreAll
<1>13. Covered(i)
  <2>1. i <= Len(queue)
    OBVIOUS
  <2> HIDE DEF Covered
  <2> QED BY <1>12, <2>1
<1> QED BY <1>13 DEF after

(* Clients that are solvent stay so, unless a placer is stolen from.       *)
LEMMA StepSolvent ==
    ASSUME TypeOK, TypeOK', Seated, LedgerInv, [Next]_vars, [PlacersAreLeftAlone]_vars,
           NEW t \in Slots, Solvent(t)
    PROVE  Solvent(t)'
<1>1. CASE UNCHANGED vars
  <2>1. /\ SameSeat(t) /\ ResultsKept /\ queue' = queue /\ balance' = balance
        /\ escrowing' = escrowing /\ loaded' = loaded /\ drift' = drift
    BY <1>1 DEF vars, clients, cache, channel, history, SameSeat, ResultsKept
  <2> QED BY <2>1, NothingSent, IdleStaysSolvent
<1>2. CASE \E s \in Slots : ClientStep(s)
  <2>1. CASE PlacersAreLeftAlone
    BY <1>2, <2>1, ClientStepSolvent
  <2> QED BY <1>1, <2>1
<1>3. CASE \E a \in Accounts, n \in CreditAmounts : QueueCredit(a, n)
  BY <1>3, QueueCreditSolvent
<1>4. CASE Execute
  BY <1>4, ExecuteSolvent
<1>5. CASE OnClientBonusPointsLoaded
  BY <1>5, OnLoadedSolvent
<1>6. CASE OnCreditSaved
  BY <1>6, OnCreditSolvent
<1>7. CASE OnBountyPlaced
  BY <1>7, OnPlacedSolvent
<1> QED BY <1>1, <1>2, <1>3, <1>4, <1>5, <1>6, <1>7 DEF Next, Deliver

Solvency == \A s \in Slots : Solvent(s)

(* What balance_steal shows is the only way to overdraw a row: as long as  *)
(* nobody steals from a client whose placement is under way, every debit   *)
(* the game has honoured meets the gems that pay for it, in any            *)
(* interleaving of purchases, steals, placements, credits, visits and      *)
(* refused queries.                                                        *)
THEOREM OnlyRobbedPlacersOverdraw ==
    Spec /\ [][PlacersAreLeftAlone]_vars => []NoOverdraft
<1>1. Init => Solvency
  BY DEF Init, Solvency, Solvent
<1>2. Known /\ Known' /\ [Next]_vars /\ [PlacersAreLeftAlone]_vars /\ Solvency => Solvency'
  BY StepSolvent DEF Known, Solvency
<1>3. Known /\ Solvency => NoOverdraft
  BY SolventIsCovered DEF Known, Solvency, NoOverdraft
<1> QED BY <1>1, <1>2, <1>3, KnownHolds, PTL DEF Spec

NobodyPlaces == \A s \in Slots : ~escrowing[s]

(* Where no bounty is placed no steal can hurt: transfers, purchases and   *)
(* credits of any size never overdraw a row.                               *)
THEOREM TransfersArePaid ==
    ASSUME EscrowAmounts = {}
    PROVE  Spec => []NoOverdraft
<1>1. Init => NobodyPlaces
  BY DEF Init, NobodyPlaces
<1>2. TypeOK /\ NobodyPlaces /\ [Next]_vars => NobodyPlaces'
  <2> SUFFICES ASSUME TypeOK, NobodyPlaces, [Next]_vars PROVE NobodyPlaces'
    OBVIOUS
  <2>1. escrowing \in [Slots -> BOOLEAN]
    BY DEF TypeOK
  <2> DEFINE Frees == escrowing' = escrowing
                      \/ \E s : escrowing' = [escrowing EXCEPT ![s] = FALSE]
  <2>2. ASSUME NEW s \in Slots, ClientStep(s) PROVE Frees
    <3>1. ~ \E n \in EscrowAmounts : QueueBountyPlacement(s, n)
      OBVIOUS
    <3>2. \A a \in Accounts : OnClientAuthorized(s, a) => Frees
      BY DEF OnClientAuthorized
    <3>3. OnClientPutInServer(s) \/ OnClientDisconnect(s) \/ AskForBalance(s) => Frees
      BY DEF OnClientPutInServer, OnClientDisconnect, AskForBalance
    <3>4. \A n : ApplyBonusPointsNow(s, n) => Frees
      BY DEF ApplyBonusPointsNow
    <3>5. \A t, n : StealBonusPoints(s, t, n) => Frees
      BY DEF StealBonusPoints
    <3> HIDE DEF Frees
    <3> QED BY <2>2, <3>1, <3>2, <3>3, <3>4, <3>5 DEF ClientStep
  <2>3. ASSUME OnBountyPlaced PROVE Frees
    BY <2>3 DEF OnBountyPlaced
  <2>4. ASSUME Execute \/ OnClientBonusPointsLoaded \/ OnCreditSaved PROVE Frees
    BY <2>4 DEF Execute, OnClientBonusPointsLoaded, OnCreditSaved
  <2>5. ASSUME NEW a \in Accounts, NEW n \in CreditAmounts, QueueCredit(a, n) PROVE Frees
    BY <2>5 DEF QueueCredit
  <2>6. ASSUME UNCHANGED vars PROVE Frees
    BY <2>6 DEF vars
  <2>7. Frees
    <3> HIDE DEF Frees
    <3> QED BY <2>2, <2>3, <2>4, <2>5, <2>6 DEF Next, Deliver
  <2> QED BY <2>1, <2>7 DEF NobodyPlaces
<1>3. NobodyPlaces => PlacersAreLeftAlone
  BY DEF NobodyPlaces, PlacersAreLeftAlone
<1>4. Known => TypeOK
  BY DEF Known
<1> QED BY <1>1, <1>2, <1>3, <1>4, KnownHolds, OnlyRobbedPlacersOverdraw, PTL DEF Spec
=============================================================================
