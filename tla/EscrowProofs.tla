---------------------------- MODULE EscrowProofs ----------------------------
(***************************************************************************)
(* The bounties of the points store keep the promises of BountyEscrow, for *)
(* every number of players, bounties, requests and refused queries.        *)
(*                                                                         *)
(* The argument is an induction on behaviours; that the sums the database  *)
(* computes are natural numbers, and depend on the rows they range over    *)
(* alone, is an induction on finite sets.  Both provers lack induction     *)
(* over predicates, so the second part derives it for sets.                *)
(***************************************************************************)
EXTENDS Bounties, SequenceTheorems, FiniteSetTheorems, WellFoundedInduction, TLAPS

------------------------------------------------------------------------------
(* What is settled stays so, and only the worker writes the tables.        *)

(* rows is a sequence; what its elements look like does not matter here.   *)
RowsAreSequence == \E n \in Nat : rows = [b \in 1..n |-> rows[b]]

(* What every statement does: it keeps the rows, and changes only active   *)
(* ones.                                                                   *)
KeepsSettled(table) ==
    /\ \E n \in Nat : table = [b \in 1..n |-> table[b]]
    /\ \A b \in DOMAIN rows : rows[b].status # "active" =>
            b \in DOMAIN table /\ table[b] = rows[b]

(* Rewriting the rows in place keeps what it does not touch.               *)
LEMMA RewriteKeeps ==
    ASSUME RowsAreSequence, NEW table,
           table = [b \in DOMAIN rows |-> table[b]],
           \A b \in DOMAIN rows : rows[b].status # "active" => table[b] = rows[b]
    PROVE  KeepsSettled(table)
BY DEF RowsAreSequence, KeepsSettled

(* Appending a row keeps the ones before it.                               *)
LEMMA AppendKeeps ==
    ASSUME NEW table, NEW row, KeepsSettled(table)
    PROVE  KeepsSettled(Append(table, row))
<1>1. PICK n \in Nat : table = [b \in 1..n |-> table[b]]
  BY DEF KeepsSettled
<1> DEFINE S == {table[b] : b \in 1..n} \union {row}
<1>2. table \in Seq(S) /\ Len(table) = n /\ DOMAIN table = 1..n
  BY <1>1
<1>3. row \in S
  OBVIOUS
<1> HIDE DEF S
<1> DEFINE longer == Append(table, row)
<1>4. /\ longer \in Seq(S)
      /\ Len(longer) = n + 1
      /\ \A b \in 1..n : longer[b] = table[b]
  BY <1>2, <1>3, AppendProperties
<1> HIDE DEF longer
<1>5. n + 1 \in Nat /\ DOMAIN longer = 1..(n + 1)
  BY <1>4
<1>6. longer = [b \in 1..(n + 1) |-> longer[b]]
  <2> DEFINE m == n + 1
  <2>1. longer \in Seq(S) /\ Len(longer) = m
    BY <1>4
  <2> HIDE DEF m
  <2>2. longer = [b \in 1..m |-> longer[b]]
    BY <2>1
  <2> QED
    BY <2>2 DEF m
<1>7. \A b \in DOMAIN rows : rows[b].status # "active" =>
            b \in DOMAIN longer /\ longer[b] = rows[b]
  <2> TAKE b \in DOMAIN rows
  <2> HAVE rows[b].status # "active"
  <2>1. b \in 1..n /\ table[b] = rows[b]
    BY <1>2 DEF KeepsSettled
  <2>2. b \in DOMAIN longer
    BY <2>1, <1>5
  <2> QED
    BY <2>1, <2>2, <1>4
<1>8. \E m \in Nat : longer = [b \in 1..m |-> longer[b]]
  <2> DEFINE last == n + 1
  <2>1. last \in Nat /\ longer = [b \in 1..last |-> longer[b]]
    BY <1>5, <1>6
  <2> HIDE DEF last
  <2> QED
    BY <2>1
<1> QED
  <2>1. KeepsSettled(longer)
    BY <1>7, <1>8 DEF KeepsSettled
  <2> QED
    BY <2>1 DEF longer

(* A placement leaves settled rows alone (it raises open ones or appends).  *)
LEMMA PlaceKeeps ==
    ASSUME RowsAreSequence, NEW req, ExecutePlace(req)
    PROVE  KeepsSettled(rows')
<1> DEFINE progress == MergedProgress(req.target, req.amount, req.now)
           table == AlignedStack(req, progress)
<1>1. CASE UNCHANGED tables
  BY <1>1, RewriteKeeps DEF tables, RowsAreSequence, KeepsSettled
<1>2. CASE rows' = Append(table, NewRow(req.sender, req, req.amount, progress))
  <2>1. /\ table = [b \in DOMAIN rows |-> table[b]]
        /\ \A b \in DOMAIN rows : rows[b].status # "active" => table[b] = rows[b]
    BY DEF AlignedStack, ActiveOn, Active, IsActive
  <2> HIDE DEF table
  <2>2. KeepsSettled(table)
    BY <2>1, RewriteKeeps
  <2> QED
    BY <1>2, <2>2, AppendKeeps
<1> QED
  BY <1>1, <1>2 DEF ExecutePlace

(* A claim settles only active rows.                                        *)
LEMMA ClaimKeeps ==
    ASSUME RowsAreSequence, NEW req, ExecuteClaim(req)
    PROVE  KeepsSettled(rows')
<1>1. /\ rows' = [b \in DOMAIN rows |-> rows'[b]]
      /\ \A b \in DOMAIN rows : rows[b].status # "active" => rows'[b] = rows[b]
  BY DEF ExecuteClaim, Settle, Resolved, ActiveOn, Active, IsActive
<1> QED
  BY <1>1, RewriteKeeps

(* An automatic bounty appends a row or does nothing.                       *)
LEMMA AutoKeeps ==
    ASSUME RowsAreSequence, NEW req, ExecuteAuto(req)
    PROVE  KeepsSettled(rows')
<1>1. KeepsSettled(rows)
  BY DEF RowsAreSequence, KeepsSettled
<1> QED
  BY <1>1, AppendKeeps DEF ExecuteAuto

(* Growth writes only active rows.                                          *)
LEMMA GrowKeeps ==
    ASSUME RowsAreSequence, NEW req, ExecuteGrow(req)
    PROVE  KeepsSettled(rows')
<1>1. /\ rows' = [b \in DOMAIN rows |-> rows'[b]]
      /\ \A b \in DOMAIN rows : rows[b].status # "active" => rows'[b] = rows[b]
  BY DEF ExecuteGrow, Growable, ActiveOn, Active, IsActive
<1> QED
  BY <1>1, RewriteKeeps

(* Marking a departure writes only active rows.                             *)
LEMMA MarkKeeps ==
    ASSUME RowsAreSequence, NEW req, ExecuteMark(req)
    PROVE  KeepsSettled(rows')
<1>1. /\ rows' = [b \in DOMAIN rows |-> rows'[b]]
      /\ \A b \in DOMAIN rows : rows[b].status # "active" => rows'[b] = rows[b]
  BY DEF ExecuteMark, ActiveOn, Active, IsActive
<1> QED
  BY <1>1, RewriteKeeps

(* Clearing a departure writes only active rows.                            *)
LEMMA ClearKeeps ==
    ASSUME RowsAreSequence, NEW req, ExecuteClear(req)
    PROVE  KeepsSettled(rows')
<1>1. /\ rows' = [b \in DOMAIN rows |-> rows'[b]]
      /\ \A b \in DOMAIN rows : rows[b].status # "active" => rows'[b] = rows[b]
  BY DEF ExecuteClear
<1> QED
  BY <1>1, RewriteKeeps

(* Expiry settles only active rows.                                         *)
LEMMA ExpireKeeps ==
    ASSUME RowsAreSequence, NEW req, ExecuteExpire(req)
    PROVE  KeepsSettled(rows')
<1>1. /\ rows' = [b \in DOMAIN rows |-> rows'[b]]
      /\ \A b \in DOMAIN rows : rows[b].status # "active" => rows'[b] = rows[b]
  BY DEF ExecuteExpire, Refund, Settle, Resolved
<1> QED
  BY <1>1, RewriteKeeps

(* A disconnect refund settles only active rows.                            *)
LEMMA RefundKeeps ==
    ASSUME RowsAreSequence, NEW req, ExecuteRefund(req)
    PROVE  KeepsSettled(rows')
<1>1. /\ rows' = [b \in DOMAIN rows |-> rows'[b]]
      /\ \A b \in DOMAIN rows : rows[b].status # "active" => rows'[b] = rows[b]
  BY DEF ExecuteRefund, Refundable, Refund, Settle, Resolved
<1> QED
  BY <1>1, RewriteKeeps

(* Survival progress writes and settles only active rows.                   *)
LEMMA ProgressKeeps ==
    ASSUME RowsAreSequence, NEW req, ExecuteProgress(req)
    PROVE  KeepsSettled(rows')
<1>1. /\ rows' = [b \in DOMAIN rows |-> rows'[b]]
      /\ \A b \in DOMAIN rows : rows[b].status # "active" => rows'[b] = rows[b]
  BY DEF ExecuteProgress, Measured, Survived, Active, IsActive
<1> QED
  BY <1>1, RewriteKeeps

(* Whatever statement the worker runs, settled rows stay.                   *)
LEMMA StatementKeeps ==
    ASSUME RowsAreSequence, NEW req, Statement(req)
    PROVE  KeepsSettled(rows')
<1>1. CASE req.op = "place"
  BY <1>1, PlaceKeeps DEF Statement
<1>2. CASE req.op = "auto"
  BY <1>2, AutoKeeps DEF Statement
<1>3. CASE req.op = "grow"
  BY <1>3, GrowKeeps DEF Statement
<1>4. CASE req.op = "mark"
  BY <1>4, MarkKeeps DEF Statement
<1>5. CASE req.op = "clear"
  BY <1>5, ClearKeeps DEF Statement
<1>6. CASE req.op = "claim"
  BY <1>6, ClaimKeeps DEF Statement
<1>7. CASE req.op = "expire"
  BY <1>7, ExpireKeeps DEF Statement
<1>8. CASE req.op = "refund"
  BY <1>8, RefundKeeps DEF Statement
<1>9. CASE req.op = "progress"
  BY <1>9, ProgressKeeps DEF Statement
<1>10. CASE UNCHANGED tables
  BY <1>10 DEF tables, RowsAreSequence, KeepsSettled
<1> QED
  BY <1>1, <1>2, <1>3, <1>4, <1>5, <1>6, <1>7, <1>8, <1>9, <1>10 DEF Statement

(* Only the worker changes the tables.                                     *)
LEMMA OnlyTheWorkerWrites ==
    ASSUME [Next]_vars, ~Execute
    PROVE  UNCHANGED tables
<1>1. CASE UNCHANGED vars
  BY <1>1 DEF vars
<1>2. CASE Next
  <2>1. ASSUME NEW p, OnClientAuthorized(p) \/ OnClientPutInServer(p)
                       \/ OnClientDisconnect(p) \/ PlayOn(p)
        PROVE  UNCHANGED tables
    BY <2>1 DEF OnClientAuthorized, OnClientPutInServer, OnClientDisconnect, PlayOn
  <2>2. ASSUME NEW s, NEW t, NEW n, QueueBountyPlacement(s, t, n)
        PROVE  UNCHANGED tables
    BY <2>2 DEF QueueBountyPlacement
  <2>3. ASSUME NEW a, NEW v, NEW growing, NEW dominated,
               Event_BountyPlayerDeath(a, v, growing, dominated)
        PROVE  UNCHANGED tables
    BY <2>3 DEF Event_BountyPlayerDeath
  <2>4. ASSUME Tick \/ Timer_BountyMaintenance \/ Bounties_OnMapStart
                \/ Event_BountyRoundStart
        PROVE  UNCHANGED tables
    BY <2>4 DEF Tick, Timer_BountyMaintenance, Bounties_OnMapStart, Event_BountyRoundStart
  <2>5. ASSUME Deliver
        PROVE  UNCHANGED tables
    BY <2>5 DEF Deliver, OnAnswer, OnBountiesExpired, OnDisconnectedBountiesLoaded,
        OnDisconnectedBountiesRefunded, OnBountyProgressTargetsLoaded,
        OnBountiesSurvived, OnAutomaticBountyCandidateSelected, OnAutomaticBountyPlaced
  <2> QED
    BY <1>2, <2>1, <2>2, <2>3, <2>4, <2>5, Zenon DEF Next
<1> QED
  BY <1>1, <1>2

(* So settled rows stay in every step.                                     *)
LEMMA StepKeeps ==
    ASSUME RowsAreSequence, [Next]_vars
    PROVE  KeepsSettled(rows')
<1>1. CASE Statement(Head(queue))
  BY <1>1, StatementKeeps
<1>2. CASE UNCHANGED tables
  BY <1>2 DEF tables, RowsAreSequence, KeepsSettled
<1>3. Execute => Statement(Head(queue)) \/ UNCHANGED tables
  BY DEF Execute
<1> QED
  BY <1>1, <1>2, <1>3, OnlyTheWorkerWrites

(* A bounty that has been settled is settled for good.                     *)
(* Whatever was prepared before the settlement and reaches the table after *)
(* it - growth, marks, clears, another of the five activities - leaves the *)
(* row as it is (the WHERE clauses of claims.inc, expiry.inc, progress.inc *)
(* and growth_and_disconnects.inc).                                        *)
THEOREM SettledForGood == Spec => SettlementIsFinal
<1>1. Init => RowsAreSequence
  <2> SUFFICES ASSUME Init PROVE RowsAreSequence
    OBVIOUS
  <2>1. 0 \in Nat /\ rows = [b \in 1..0 |-> rows[b]]
    BY DEF Init
  <2> QED
    BY <2>1 DEF RowsAreSequence
<1>2. RowsAreSequence /\ [Next]_vars => KeepsSettled(rows')
  BY StepKeeps
<1>3. KeepsSettled(rows') => RowsAreSequence'
  BY DEF KeepsSettled, RowsAreSequence
<1>4. KeepsSettled(rows') =>
        [\A b \in DOMAIN rows : rows[b].status # "active" =>
            b \in DOMAIN rows' /\ rows'[b] = rows[b]]_vars
  BY DEF KeepsSettled
<1> QED
  BY <1>1, <1>2, <1>3, <1>4, PTL DEF Spec, SettlementIsFinal

------------------------------------------------------------------------------
(* Induction, in the form the provers can use: with sets for predicates.   *)

Below == {r \in Nat \X Nat : r[1] < r[2]}

LEMMA BelowIsWellFounded == IsWellFoundedOn(Below, Nat)
<1>1. IsWellFoundedOn(OpToRel(<, Nat), Nat)
  BY NatLessThanWellFounded
<1>2. OpToRel(<, Nat) = Below
  BY DEF OpToRel, Below
<1> QED
  BY <1>1, <1>2

(* A nonempty set of natural numbers has a least element.                  *)
LEMMA LeastNumber ==
    ASSUME NEW T \in SUBSET Nat, T # {}
    PROVE  \E n \in T : \A m \in T : n <= m
<1>1. PICK n \in T : \A m \in T : ~ (<<m, n>> \in Below)
  BY BelowIsWellFounded, WFMin
<1>2. ASSUME NEW m \in T
      PROVE  n <= m
  <2>1. ~ (<<m, n>>[1] < <<m, n>>[2])
    BY <1>1 DEF Below
  <2> QED
    BY <2>1
<1> QED
  BY <1>2

(* A set with zero and every successor is the set of natural numbers.      *)
LEMMA SuccessorsAreAll ==
    ASSUME NEW T \in SUBSET Nat, 0 \in T, \A n \in T : n + 1 \in T
    PROVE  \A n \in Nat : n \in T
<1>1. SUFFICES ASSUME Nat \ T # {}
               PROVE  FALSE
  OBVIOUS
<1>2. PICK n \in Nat \ T : \A m \in Nat \ T : n <= m
  BY <1>1, LeastNumber
<1>3. n - 1 \in Nat /\ n - 1 \in T
  BY <1>2
<1> QED
  BY <1>2, <1>3

------------------------------------------------------------------------------
(* Sums over finite sets: what MapThenSumSet computes.                     *)

Some(s) == CHOOSE x \in s : TRUE

(* g sums the values of f over the subsets of S, one element after another. *)
Sums(f, S, g) ==
    g = [s \in SUBSET S |-> IF s = {} THEN 0 ELSE f[Some(s)] + g[s \ {Some(s)}]]

(* What is left of a set without one element is smaller.                   *)
LEMMA OneLess ==
    ASSUME NEW S, IsFiniteSet(S), NEW s \in SUBSET S, s # {}
    PROVE  /\ Some(s) \in s /\ Some(s) \in S
           /\ s \ {Some(s)} \in SUBSET S
           /\ Cardinality(s) \in Nat \ {0}
           /\ Cardinality(s \ {Some(s)}) = Cardinality(s) - 1
<1>1. Some(s) \in s
  BY DEF Some
<1>2. IsFiniteSet(s)
  BY FS_Subset
<1>3. Cardinality(s) \in Nat /\ Cardinality(s) # 0
  BY <1>2, FS_CardinalityType, FS_EmptySet
<1>4. Cardinality(s \ {Some(s)}) = Cardinality(s) - 1
  BY <1>1, <1>2, FS_RemoveElement
<1> QED
  BY <1>1, <1>3, <1>4

(* The subsets of S with at most n elements, and sums over them.           *)
Upto(S, n) == {s \in SUBSET S : Cardinality(s) <= n}
SumsUpto(f, S, n, g) ==
    /\ g \in [Upto(S, n) -> Nat]
    /\ \A s \in Upto(S, n) : g[s] = IF s = {} THEN 0 ELSE f[Some(s)] + g[s \ {Some(s)}]

LEMMA SumsGrow ==
    ASSUME NEW S, IsFiniteSet(S), NEW f \in [S -> Nat], NEW n \in Nat,
           NEW g, SumsUpto(f, S, n, g)
    PROVE  \E h : SumsUpto(f, S, n + 1, h)
<1> DEFINE h == [s \in Upto(S, n + 1) |->
                    IF s = {} THEN 0 ELSE f[Some(s)] + g[s \ {Some(s)}]]
<1>1. ASSUME NEW s \in Upto(S, n + 1), s # {}
      PROVE  /\ f[Some(s)] \in Nat
             /\ s \ {Some(s)} \in Upto(S, n)
             /\ g[s \ {Some(s)}] \in Nat
  <2>1. s \in SUBSET S /\ Cardinality(s) <= n + 1
    BY DEF Upto
  <2>2. /\ Some(s) \in S /\ s \ {Some(s)} \in SUBSET S
        /\ Cardinality(s) \in Nat /\ Cardinality(s \ {Some(s)}) = Cardinality(s) - 1
    BY <1>1, <2>1, OneLess
  <2>3. s \ {Some(s)} \in Upto(S, n)
    BY <2>1, <2>2 DEF Upto
  <2> QED
    BY <2>2, <2>3 DEF SumsUpto
<1>2. h \in [Upto(S, n + 1) -> Nat]
  BY <1>1
<1>3. ASSUME NEW s \in Upto(S, n)
      PROVE  s \in Upto(S, n + 1) /\ h[s] = g[s]
  <2>1. s \in SUBSET S /\ Cardinality(s) <= n /\ Cardinality(s) \in Nat
    BY FS_Subset, FS_CardinalityType DEF Upto
  <2>2. s \in Upto(S, n + 1)
    BY <2>1 DEF Upto
  <2> QED
    BY <2>2 DEF SumsUpto
<1>4. ASSUME NEW s \in Upto(S, n + 1)
      PROVE  h[s] = IF s = {} THEN 0 ELSE f[Some(s)] + h[s \ {Some(s)}]
  BY <1>1, <1>3
<1> HIDE DEF h
<1> QED
  BY <1>2, <1>4 DEF SumsUpto

(* There are sums over every finite set, and they are natural numbers.     *)
LEMMA SumsExist ==
    ASSUME NEW S, IsFiniteSet(S), NEW f \in [S -> Nat]
    PROVE  \E g \in [SUBSET S -> Nat] : Sums(f, S, g)
<1> DEFINE T == {n \in Nat : \E g : SumsUpto(f, S, n, g)}
<1>1. 0 \in T
  <2> DEFINE g == [s \in Upto(S, 0) |-> 0]
  <2>1. ASSUME NEW s \in Upto(S, 0)
        PROVE  s = {}
    <3>1. IsFiniteSet(s) /\ Cardinality(s) <= 0 /\ Cardinality(s) \in Nat
      BY FS_Subset, FS_CardinalityType DEF Upto
    <3> QED
      BY <3>1, FS_EmptySet
  <2>2. SumsUpto(f, S, 0, g)
    BY <2>1 DEF SumsUpto
  <2> QED
    BY <2>2
<1>2. ASSUME NEW n \in T
      PROVE  n + 1 \in T
  BY SumsGrow
<1>3. \A n \in Nat : n \in T
  <2> HIDE DEF T
  <2>1. T \in SUBSET Nat
    BY DEF T
  <2> QED
    BY <1>1, <1>2, <2>1, SuccessorsAreAll
<1>4. Cardinality(S) \in Nat
  BY FS_CardinalityType
<1>5. PICK g : SumsUpto(f, S, Cardinality(S), g)
  BY <1>3, <1>4
<1>6. Upto(S, Cardinality(S)) = SUBSET S
  BY FS_Subset DEF Upto
<1>7. g \in [SUBSET S -> Nat]
  BY <1>5, <1>6 DEF SumsUpto
<1>8. Sums(f, S, g)
  BY <1>5, <1>6, <1>7 DEF SumsUpto, Sums
<1> QED
  BY <1>7, <1>8

(* There is one sum only.                                                  *)
LEMMA SumsAreUnique ==
    ASSUME NEW S, IsFiniteSet(S), NEW f \in [S -> Nat],
           NEW g, Sums(f, S, g), NEW h, Sums(f, S, h)
    PROVE  g = h
<1> DEFINE T == {n \in Nat : \E s \in SUBSET S : Cardinality(s) = n /\ g[s] # h[s]}
<1>1. ASSUME T # {}
      PROVE  FALSE
  <2>1. PICK n \in T : \A m \in T : n <= m
    <3>1. T \in SUBSET Nat
      OBVIOUS
    <3> HIDE DEF T
    <3> QED
      BY <1>1, <3>1, LeastNumber
  <2>2. PICK s \in SUBSET S : Cardinality(s) = n /\ g[s] # h[s]
    BY <2>1
  <2>3. s # {}
    BY <2>2 DEF Sums
  <2> DEFINE less == s \ {Some(s)}
  <2>4. less \in SUBSET S /\ Cardinality(less) = n - 1 /\ n - 1 \in Nat
    BY <2>2, <2>3, OneLess
  <2>5. g[less] = h[less]
    BY <2>1, <2>4
  <2>6. g[s] = f[Some(s)] + g[less] /\ h[s] = f[Some(s)] + h[less]
    BY <2>3 DEF Sums
  <2> QED
    BY <2>2, <2>5, <2>6
<1>2. ASSUME NEW s \in SUBSET S
      PROVE  g[s] = h[s]
  <2>1. Cardinality(s) \in Nat
    BY FS_Subset, FS_CardinalityType
  <2> QED
    BY <1>1, <2>1
<1> QED
  BY <1>2 DEF Sums

(* n is the sum of the values f has on S.                                  *)
IsTotal(f, S, n) == \E g : Sums(f, S, g) /\ n = g[S]

LEMMA TotalIsNumber ==
    ASSUME NEW S, IsFiniteSet(S), NEW f \in [S -> Nat], NEW n, IsTotal(f, S, n)
    PROVE  n \in Nat
<1>1. PICK g : Sums(f, S, g) /\ n = g[S]
  BY DEF IsTotal
<1>2. PICK h \in [SUBSET S -> Nat] : Sums(f, S, h)
  BY SumsExist
<1> QED
  BY <1>1, <1>2, SumsAreUnique

LEMMA TotalIsUnique ==
    ASSUME NEW S, IsFiniteSet(S), NEW f \in [S -> Nat],
           NEW n, IsTotal(f, S, n), NEW m, IsTotal(f, S, m)
    PROVE  n = m
<1>1. PICK g : Sums(f, S, g) /\ n = g[S]
  BY DEF IsTotal
<1>2. PICK h : Sums(f, S, h) /\ m = h[S]
  BY DEF IsTotal
<1> QED
  BY <1>1, <1>2, SumsAreUnique

LEMMA TotalOfNothing ==
    ASSUME NEW f, NEW n, IsTotal(f, {}, n)
    PROVE  n = 0
BY DEF IsTotal, Sums
------------------------------------------------------------------------------
(* What is on its way to the database worker and back.                     *)

IsSeq(q) == \E n \in Nat : q = [i \in 1..n |-> q[i]]

LEMMA SeqOfItself ==
    ASSUME NEW q, IsSeq(q)
    PROVE  /\ q \in Seq({q[i] : i \in DOMAIN q})
           /\ Len(q) \in Nat /\ DOMAIN q = 1..Len(q)
<1>1. PICK n \in Nat : q = [i \in 1..n |-> q[i]]
  BY DEF IsSeq
<1>2. DOMAIN q = 1..n
  BY <1>1
<1> DEFINE S == {q[i] : i \in DOMAIN q}
<1>3. \A i \in 1..n : q[i] \in S
  BY <1>2
<1> HIDE DEF S
<1>4. q \in Seq(S)
  BY <1>1, <1>3, SeqDef
<1>5. Len(q) \in Nat /\ DOMAIN q = 1..Len(q)
  BY <1>4, LenProperties
<1> QED
  BY <1>4, <1>5 DEF S

LEMMA ItselfIsSeq ==
    ASSUME NEW S, NEW q \in Seq(S)
    PROVE  IsSeq(q)
<1>1. Len(q) \in Nat /\ DOMAIN q = 1..Len(q)
  BY LenProperties
<1> DEFINE n == Len(q)
<1>2. n \in Nat /\ q = [i \in 1..n |-> q[i]]
  BY <1>1
<1> HIDE DEF n
<1> QED
  BY <1>2 DEF IsSeq

LEMMA TailIsSeq ==
    ASSUME NEW q, IsSeq(q), q # << >>
    PROVE  /\ IsSeq(Tail(q)) /\ Head(q) = q[1] /\ 1 \in DOMAIN q
           /\ \A i \in DOMAIN Tail(q) : i + 1 \in DOMAIN q /\ Tail(q)[i] = q[i + 1] /\ i \in Nat \ {0}
<1> DEFINE S == {q[i] : i \in DOMAIN q}
<1>1. q \in Seq(S) /\ Len(q) \in Nat /\ DOMAIN q = 1..Len(q)
  BY SeqOfItself
<1> HIDE DEF S
<1>2. Len(q) # 0
  BY <1>1, EmptySeq
<1>3. /\ Tail(q) \in Seq(S) /\ Len(Tail(q)) = Len(q) - 1
      /\ \A i \in 1..Len(Tail(q)) : Tail(q)[i] = q[i + 1]
  BY <1>1, HeadTailProperties
<1>4. DOMAIN Tail(q) = 1..(Len(q) - 1)
  BY <1>3, LenProperties
<1>5. Head(q) = q[1]
  BY <1>1, HeadTailProperties
<1>6. IsSeq(Tail(q))
  BY <1>3, ItselfIsSeq
<1> QED
  BY <1>1, <1>2, <1>3, <1>4, <1>5, <1>6

LEMMA ConcatIsSeq ==
    ASSUME NEW q, IsSeq(q), NEW r, IsSeq(r)
    PROVE  /\ IsSeq(q \o r)
           /\ Len(q) \in Nat
           /\ \A i \in DOMAIN (q \o r) :
                  /\ i \in Int
                  /\ IF i <= Len(q)
                     THEN i \in DOMAIN q /\ (q \o r)[i] = q[i]
                     ELSE i - Len(q) \in DOMAIN r /\ (q \o r)[i] = r[i - Len(q)]
<1> DEFINE S == {q[i] : i \in DOMAIN q} \union {r[i] : i \in DOMAIN r}
<1>1. /\ q \in Seq({q[i] : i \in DOMAIN q}) /\ r \in Seq({r[i] : i \in DOMAIN r})
      /\ Len(q) \in Nat /\ DOMAIN q = 1..Len(q) /\ Len(r) \in Nat /\ DOMAIN r = 1..Len(r)
  BY SeqOfItself
<1>2. q \in Seq(S) /\ r \in Seq(S)
  <2>1. \A i \in 1..Len(q) : q[i] \in S
    BY <1>1
  <2>2. \A i \in 1..Len(r) : r[i] \in S
    BY <1>1
  <2> HIDE DEF S
  <2>3. q = [i \in 1..Len(q) |-> q[i]] /\ r = [i \in 1..Len(r) |-> r[i]]
    BY <1>1
  <2> QED
    BY <1>1, <2>1, <2>2, <2>3, SeqDef
<1> HIDE DEF S
<1>3. /\ q \o r \in Seq(S) /\ Len(q \o r) = Len(q) + Len(r)
      /\ \A i \in 1..Len(q) + Len(r) :
             (q \o r)[i] = IF i <= Len(q) THEN q[i] ELSE r[i - Len(q)]
  BY <1>2, ConcatProperties
<1>4. DOMAIN (q \o r) = 1..(Len(q) + Len(r))
  BY <1>3, LenProperties
<1>5. IsSeq(q \o r)
  BY <1>3, ItselfIsSeq
<1> QED
  BY <1>1, <1>3, <1>4, <1>5

LEMMA OneIsSeq ==
    ASSUME NEW r
    PROVE  IsSeq(<<r>>) /\ DOMAIN <<r>> = {1} /\ <<r>>[1] = r
<1>1. <<r>> \in Seq({r}) /\ DOMAIN <<r>> = {1} /\ <<r>>[1] = r
  OBVIOUS
<1> QED
  BY <1>1, ItselfIsSeq

LEMMA NoneIsSeq == IsSeq(<< >>) /\ DOMAIN << >> = {}
<1>1. << >> \in Seq({}) /\ DOMAIN << >> = {}
  OBVIOUS
<1> QED
  BY <1>1, ItselfIsSeq

LEMMA AppendIsSeq ==
    ASSUME NEW q, IsSeq(q), NEW r
    PROVE  /\ IsSeq(Append(q, r))
           /\ \A i \in DOMAIN Append(q, r) :
                  \/ i \in DOMAIN q /\ Append(q, r)[i] = q[i]
                  \/ Append(q, r)[i] = r
<1> DEFINE S == {q[i] : i \in DOMAIN q} \union {r}
<1>1. /\ q \in Seq({q[i] : i \in DOMAIN q})
      /\ Len(q) \in Nat /\ DOMAIN q = 1..Len(q)
  BY SeqOfItself
<1>2. q \in Seq(S) /\ r \in S
  <2>1. \A i \in 1..Len(q) : q[i] \in S
    BY <1>1
  <2>2. r \in S
    OBVIOUS
  <2> HIDE DEF S
  <2>3. q = [i \in 1..Len(q) |-> q[i]]
    BY <1>1
  <2> QED
    BY <1>1, <2>1, <2>2, <2>3, SeqDef
<1> HIDE DEF S
<1>3. /\ Append(q, r) \in Seq(S) /\ Len(Append(q, r)) = Len(q) + 1
      /\ \A i \in 1..Len(q) : Append(q, r)[i] = q[i]
      /\ Append(q, r)[Len(q) + 1] = r
  BY <1>2, AppendProperties
<1>4. DOMAIN Append(q, r) = 1..(Len(q) + 1)
  BY <1>3, LenProperties
<1>5. IsSeq(Append(q, r))
  BY <1>3, ItselfIsSeq
<1> QED
  BY <1>1, <1>3, <1>4, <1>5

(* The ids an overdue SELECT found are listed in some order.               *)
LEMMA ListedIsSeq ==
    ASSUME NEW S, IsFiniteSet(S)
    PROVE  IsSeq(SetToSeq(S)) /\ \A i \in DOMAIN SetToSeq(S) : SetToSeq(S)[i] \in S
<1> DEFINE n == Cardinality(S)
<1>1. n \in Nat /\ ExistsBijection(1..n, S)
  BY FS_CardinalityType
<1>2. \E f \in [1..n -> S] : IsInjective(f)
  <2>1. PICK f \in Bijection(1..n, S) : TRUE
    BY <1>1 DEF ExistsBijection
  <2>2. f \in [1..n -> S] /\ IsInjective(f)
    BY <2>1 DEF Bijection, Injection
  <2> QED
    BY <2>2
<1>3. SetToSeq(S) \in [1..n -> S]
  BY <1>2 DEF SetToSeq
<1> HIDE DEF n
<1>4. SetToSeq(S) \in Seq(S)
  BY <1>1, <1>3, SeqDef
<1>5. DOMAIN SetToSeq(S) = 1..n
  BY <1>3
<1> QED
  BY <1>3, <1>4, <1>5, ItselfIsSeq

------------------------------------------------------------------------------
(* The invariant: what the queue and the results may hold.                 *)

Settling == {"claim", "expire", "refund", "progress"}

(* A request carries what the code that prepared it read: ids of rows that *)
(* are there, accounts, and a token if it settles bounties.                *)
WellFormed(req, ids) ==
    /\ req.op \in Settling => req.token \in Tokens
    /\ req.op = "place" =>
        /\ req.sender \in Players /\ req.target \in Players /\ req.sender # req.target
        /\ req.amount \in Stakes /\ req.now \in Nat /\ req.played \in Nat
    /\ req.op = "auto" => req.target \in Players /\ req.now \in Nat /\ req.played \in Nat
    /\ req.op = "mark" => req.now \in Nat
    /\ req.op = "claim" => req.attacker \in Players /\ req.attacker # req.victim
    /\ req.op = "refund" => req.ids \subseteq ids
    /\ req.op = "progress" => req.current \in [DOMAIN req.current -> Nat]
    /\ req.op = "candidate" => req.player \in Players

Sound(q, ids) == IsSeq(q) /\ \A i \in DOMAIN q : WellFormed(q[i], ids)

(* A SELECT returned rows that are there and players.                      *)
Answered(r, ids) ==
    /\ r.request.op = "overdue" => r.value \subseteq ids
    /\ r.request.op \in {"targets", "candidate"} => r.value \subseteq Players
AnswersAreSound == IsSeq(results) /\ \A i \in DOMAIN results : Answered(results[i], DOMAIN rows)

(* No two queued operations settle under one token, nor under a row's.     *)
TokensAreOurs ==
    /\ \A i \in DOMAIN queue : queue[i].op \in Settling =>
            \A b \in DOMAIN rows : rows[b].token # queue[i].token
    /\ \A i, j \in DOMAIN queue :
            queue[i].op \in Settling /\ queue[j].op \in Settling /\ i # j =>
                queue[i].token # queue[j].token

EscrowInv ==
    TypeOK /\ Sound(queue, DOMAIN rows) /\ AnswersAreSound /\ TokensAreOurs

(* What one activity asks for: at most one of its requests settles, with t. *)
Batch(q, t, ids) ==
    /\ Sound(q, ids)
    /\ \A i \in DOMAIN q : q[i].op \in Settling => q[i].token = t
    /\ \A i, j \in DOMAIN q : q[i].op \in Settling /\ q[j].op \in Settling => i = j
Plain(q, ids) == Sound(q, ids) /\ \A i \in DOMAIN q : q[i].op \notin Settling

LEMMA PlainIsBatch ==
    ASSUME NEW q, NEW ids, Plain(q, ids), NEW t
    PROVE  Batch(q, t, ids)
BY DEF Plain, Batch

LEMMA NoneIsPlain ==
    ASSUME NEW ids
    PROVE  Plain(<< >>, ids)
BY NoneIsSeq DEF Plain, Sound

LEMMA OneIsPlain ==
    ASSUME NEW req, NEW ids, WellFormed(req, ids), req.op \notin Settling
    PROVE  Plain(<<req>>, ids)
BY OneIsSeq DEF Plain, Sound

LEMMA OneIsBatch ==
    ASSUME NEW req, NEW ids, WellFormed(req, ids)
    PROVE  Batch(<<req>>, req.token, ids)
BY OneIsSeq DEF Batch, Sound

LEMMA SoundThenSound ==
    ASSUME NEW q, NEW r, NEW ids, Sound(q, ids), Sound(r, ids)
    PROVE  Sound(q \o r, ids)
<1>1. IsSeq(q) /\ IsSeq(r)
  BY DEF Sound
<1>2. IsSeq(q \o r)
  BY <1>1, ConcatIsSeq
<1>3. ASSUME NEW i \in DOMAIN (q \o r)
      PROVE  WellFormed((q \o r)[i], ids)
  <2>1. \/ i \in DOMAIN q /\ (q \o r)[i] = q[i]
        \/ i - Len(q) \in DOMAIN r /\ (q \o r)[i] = r[i - Len(q)]
    BY <1>1, ConcatIsSeq
  <2> QED
    BY <2>1 DEF Sound
<1> QED
  BY <1>2, <1>3 DEF Sound

LEMMA PlainThenPlain ==
    ASSUME NEW q, NEW r, NEW ids, Plain(q, ids), Plain(r, ids)
    PROVE  Plain(q \o r, ids)
<1>1. IsSeq(q) /\ IsSeq(r)
  BY DEF Plain, Sound
<1>2. ASSUME NEW i \in DOMAIN (q \o r)
      PROVE  (q \o r)[i].op \notin Settling
  <2>1. \/ i \in DOMAIN q /\ (q \o r)[i] = q[i]
        \/ i - Len(q) \in DOMAIN r /\ (q \o r)[i] = r[i - Len(q)]
    BY <1>1, ConcatIsSeq
  <2> QED
    BY <2>1 DEF Plain
<1>3. Sound(q \o r, ids)
  BY SoundThenSound DEF Plain
<1> QED
  BY <1>2, <1>3 DEF Plain

LEMMA BatchThenPlain ==
    ASSUME NEW q, NEW r, NEW ids, NEW t, Batch(q, t, ids), Plain(r, ids)
    PROVE  Batch(q \o r, t, ids)
<1>1. IsSeq(q) /\ IsSeq(r) /\ Len(q) \in Nat
  BY ConcatIsSeq DEF Batch, Plain, Sound
<1>2. ASSUME NEW i \in DOMAIN (q \o r), (q \o r)[i].op \in Settling
      PROVE  i \in DOMAIN q /\ (q \o r)[i] = q[i]
  <2>1. \/ i \in DOMAIN q /\ (q \o r)[i] = q[i]
        \/ i - Len(q) \in DOMAIN r /\ (q \o r)[i] = r[i - Len(q)]
    BY <1>1, ConcatIsSeq
  <2> QED
    BY <1>2, <2>1 DEF Plain
<1>3. Sound(q \o r, ids)
  BY SoundThenSound DEF Batch, Plain
<1> QED
  BY <1>2, <1>3 DEF Batch

LEMMA PlainThenBatch ==
    ASSUME NEW q, NEW r, NEW ids, NEW t, Plain(q, ids), Batch(r, t, ids)
    PROVE  Batch(q \o r, t, ids)
<1>1. IsSeq(q) /\ IsSeq(r) /\ Len(q) \in Nat
  BY ConcatIsSeq DEF Batch, Plain, Sound
<1>2. ASSUME NEW i \in DOMAIN (q \o r), (q \o r)[i].op \in Settling
      PROVE  i \in Int /\ i - Len(q) \in DOMAIN r /\ (q \o r)[i] = r[i - Len(q)]
  <2>1. /\ i \in Int
        /\ \/ i \in DOMAIN q /\ (q \o r)[i] = q[i]
           \/ i - Len(q) \in DOMAIN r /\ (q \o r)[i] = r[i - Len(q)]
    BY <1>1, ConcatIsSeq
  <2> QED
    BY <1>2, <2>1 DEF Plain
<1>3. ASSUME NEW i \in DOMAIN (q \o r), (q \o r)[i].op \in Settling
      PROVE  (q \o r)[i].token = t
  BY <1>2, <1>3 DEF Batch
<1>4. ASSUME NEW i \in DOMAIN (q \o r), (q \o r)[i].op \in Settling,
             NEW j \in DOMAIN (q \o r), (q \o r)[j].op \in Settling
      PROVE  i = j
  <2>1. i \in Int /\ j \in Int /\ i - Len(q) = j - Len(q)
    BY <1>2, <1>4 DEF Batch
  <2> QED
    BY <1>1, <2>1
<1>5. Sound(q \o r, ids)
  BY SoundThenSound DEF Batch, Plain
<1> QED
  BY <1>3, <1>4, <1>5 DEF Batch

(* Asking for such a batch keeps the invariant's view of the queue.        *)
LEMMA AskKeeps ==
    ASSUME EscrowInv, NEW q, NEW t, Batch(q, t, DOMAIN rows),
           FreshToken(t) \/ Plain(q, DOMAIN rows), Ask(q), UNCHANGED rows
    PROVE  Sound(queue', DOMAIN rows') /\ TokensAreOurs'
<1>1. queue' = queue \o q /\ rows' = rows
  BY DEF Ask
<1>2. IsSeq(queue) /\ IsSeq(q) /\ Len(queue) \in Nat
  BY ConcatIsSeq DEF EscrowInv, Batch, Sound
<1>3. Sound(queue', DOMAIN rows')
  BY <1>1, SoundThenSound DEF EscrowInv, Batch
<1>4. ASSUME NEW i \in DOMAIN (queue \o q), (queue \o q)[i].op \in Settling
      PROVE  /\ i \in Int
             /\ \/ i \in DOMAIN queue /\ (queue \o q)[i] = queue[i]
                \/ /\ i - Len(queue) \in DOMAIN q /\ (queue \o q)[i] = q[i - Len(queue)]
                   /\ (queue \o q)[i].token = t /\ FreshToken(t)
  <2>1. /\ i \in Int
        /\ \/ i \in DOMAIN queue /\ (queue \o q)[i] = queue[i]
           \/ i - Len(queue) \in DOMAIN q /\ (queue \o q)[i] = q[i - Len(queue)]
    BY <1>2, ConcatIsSeq
  <2> QED
    BY <1>4, <2>1 DEF Batch, Plain
<1>5. ASSUME FreshToken(t)
      PROVE  /\ \A b \in DOMAIN rows : rows[b].token # t
             /\ \A i \in DOMAIN queue : queue[i].op \in Settling => queue[i].token # t
  <2>1. t \notin UsedTokens
    BY <1>5 DEF FreshToken
  <2>2. \A i \in DOMAIN queue : queue[i] \in InFlight
    BY DEF InFlight, ToSet
  <2> QED
    BY <2>1, <2>2 DEF UsedTokens, Settling
<1>6. ASSUME NEW i \in DOMAIN (queue \o q), (queue \o q)[i].op \in Settling
      PROVE  \A b \in DOMAIN rows : rows[b].token # (queue \o q)[i].token
  BY <1>4, <1>5, <1>6 DEF EscrowInv, TokensAreOurs
<1>7. ASSUME NEW i \in DOMAIN (queue \o q), (queue \o q)[i].op \in Settling,
             NEW j \in DOMAIN (queue \o q), (queue \o q)[j].op \in Settling, i # j
      PROVE  (queue \o q)[i].token # (queue \o q)[j].token
  <2>1. CASE i \in DOMAIN queue /\ (queue \o q)[i] = queue[i]
             /\ j \in DOMAIN queue /\ (queue \o q)[j] = queue[j]
    BY <1>7, <2>1 DEF EscrowInv, TokensAreOurs
  <2>2. CASE i - Len(queue) \in DOMAIN q /\ (queue \o q)[i] = q[i - Len(queue)]
             /\ j - Len(queue) \in DOMAIN q /\ (queue \o q)[j] = q[j - Len(queue)]
    <3>1. i \in Int /\ j \in Int /\ i - Len(queue) = j - Len(queue)
      BY <1>4, <1>7, <2>2 DEF Batch
    <3> QED
      BY <1>2, <1>7, <3>1
  <2> QED
    BY <1>4, <1>5, <1>7, <2>1, <2>2
<1>8. TokensAreOurs'
  BY <1>1, <1>6, <1>7 DEF TokensAreOurs
<1> QED
  BY <1>3, <1>8

------------------------------------------------------------------------------
(* The sums the statements compute.                                        *)

LEMMA RowsAreFinite ==
    ASSUME rows \in Seq(Rows), NEW S \in SUBSET DOMAIN rows
    PROVE  IsFiniteSet(S) /\ S \in SUBSET Nat /\ \A b \in DOMAIN rows : rows[b] \in Rows
<1>1. Len(rows) \in Nat /\ DOMAIN rows = 1..Len(rows)
  BY LenProperties
<1>2. IsFiniteSet(DOMAIN rows)
  BY <1>1, FS_Interval
<1>3. \A b \in DOMAIN rows : rows[b] \in Rows
  BY <1>1, ElementOfSeq
<1>4. IsFiniteSet(S)
  BY <1>2, FS_Subset
<1> QED
  BY <1>1, <1>3, <1>4

WorthOf(S) == MapThenSumSet(Worth, S)
AmountOf(S) == MapThenSumSet(LAMBDA b : rows[b].amount, S)

WorthSums(S, g) ==
    g = [s \in SUBSET S |-> IF s = {} THEN 0
            ELSE Worth(CHOOSE x \in s : TRUE) + g[s \ {CHOOSE x \in s : TRUE}]]
AmountSums(S, g) ==
    g = [s \in SUBSET S |-> IF s = {} THEN 0
            ELSE rows[CHOOSE x \in s : TRUE].amount + g[s \ {CHOOSE x \in s : TRUE}]]

LEMMA WorthTotals ==
    ASSUME rows \in Seq(Rows), NEW S \in SUBSET DOMAIN rows
    PROVE  IsTotal([b \in S |-> Worth(b)], S, WorthOf(S)) /\ WorthOf(S) \in Nat
<1> DEFINE f == [b \in S |-> Worth(b)]
<1>1. IsFiniteSet(S) /\ \A b \in S : rows[b] \in Rows
  BY RowsAreFinite
<1>2. f \in [S -> Nat]
  <2>1. ASSUME NEW b \in S
        PROVE  Worth(b) \in Nat
    <3>1. rows[b].amount \in Nat /\ rows[b].bonus \in Nat
      BY <1>1 DEF Rows
    <3> QED
      BY <3>1 DEF Worth
  <2> QED
    BY <2>1
<1>3. ASSUME NEW g
      PROVE  Sums(f, S, g) <=> WorthSums(S, g)
  <2>1. ASSUME NEW s \in SUBSET S, s # {}
        PROVE  f[Some(s)] = Worth(CHOOSE x \in s : TRUE)
    BY <2>1 DEF Some
  <2> HIDE DEF f
  <2>2. [s \in SUBSET S |-> IF s = {} THEN 0 ELSE f[Some(s)] + g[s \ {Some(s)}]]
        = [s \in SUBSET S |-> IF s = {} THEN 0
                ELSE Worth(CHOOSE x \in s : TRUE) + g[s \ {CHOOSE x \in s : TRUE}]]
    BY <2>1 DEF Some
  <2> QED
    BY <2>2 DEF Sums, WorthSums
<1>4. WorthOf(S) = (CHOOSE g : WorthSums(S, g))[S]
  BY DEF WorthOf, MapThenSumSet, MapThenFoldSet, WorthSums
<1> HIDE DEF f
<1>5. \E g : WorthSums(S, g)
  BY <1>1, <1>2, <1>3, SumsExist
<1>6. WorthSums(S, CHOOSE g : WorthSums(S, g))
  BY <1>5
<1>7. IsTotal(f, S, WorthOf(S))
  BY <1>3, <1>4, <1>6 DEF IsTotal
<1>8. WorthOf(S) \in Nat
  BY <1>1, <1>2, <1>7, TotalIsNumber
<1> QED
  BY <1>7, <1>8 DEF f

LEMMA AmountTotals ==
    ASSUME rows \in Seq(Rows), NEW S \in SUBSET DOMAIN rows
    PROVE  IsTotal([b \in S |-> rows[b].amount], S, AmountOf(S)) /\ AmountOf(S) \in Nat
<1> DEFINE f == [b \in S |-> rows[b].amount]
<1>1. IsFiniteSet(S) /\ \A b \in S : rows[b] \in Rows
  BY RowsAreFinite
<1>2. f \in [S -> Nat]
  BY <1>1 DEF Rows
<1>3. ASSUME NEW g
      PROVE  Sums(f, S, g) <=> AmountSums(S, g)
  <2>1. ASSUME NEW s \in SUBSET S, s # {}
        PROVE  f[Some(s)] = rows[CHOOSE x \in s : TRUE].amount
    BY <2>1 DEF Some
  <2> HIDE DEF f
  <2>2. [s \in SUBSET S |-> IF s = {} THEN 0 ELSE f[Some(s)] + g[s \ {Some(s)}]]
        = [s \in SUBSET S |-> IF s = {} THEN 0
                ELSE rows[CHOOSE x \in s : TRUE].amount + g[s \ {CHOOSE x \in s : TRUE}]]
    BY <2>1 DEF Some
  <2> QED
    BY <2>2 DEF Sums, AmountSums
<1>4. AmountOf(S) = (CHOOSE g : AmountSums(S, g))[S]
  BY DEF AmountOf, MapThenSumSet, MapThenFoldSet, AmountSums
<1> HIDE DEF f
<1>5. \E g : AmountSums(S, g)
  BY <1>1, <1>2, <1>3, SumsExist
<1>6. AmountSums(S, CHOOSE g : AmountSums(S, g))
  BY <1>5
<1>7. IsTotal(f, S, AmountOf(S))
  BY <1>3, <1>4, <1>6 DEF IsTotal
<1>8. AmountOf(S) \in Nat
  BY <1>1, <1>2, <1>7, TotalIsNumber
<1> QED
  BY <1>7, <1>8 DEF f

------------------------------------------------------------------------------
(* What a statement leaves behind.                                         *)

Kept(req) ==
    /\ rows' \in Seq(Rows)
    /\ gems' \in [Players -> Nat]
    /\ DOMAIN rows \subseteq DOMAIN rows'
    /\ \A b \in DOMAIN rows' :
        \/ rows'[b].token = Noone
        \/ b \in DOMAIN rows /\ rows'[b].token = rows[b].token
        \/ req.op \in Settling /\ rows'[b].token = req.token

Typed == rows \in Seq(Rows) /\ gems \in [Players -> Nat]

LEMMA RewriteTyped ==
    ASSUME rows \in Seq(Rows), NEW table, table = [b \in DOMAIN rows |-> table[b]],
           \A b \in DOMAIN rows : table[b] \in Rows
    PROVE  table \in Seq(Rows) /\ DOMAIN table = DOMAIN rows
<1>1. Len(rows) \in Nat /\ DOMAIN rows = 1..Len(rows)
  BY LenProperties
<1> DEFINE n == Len(rows)
<1>2. n \in Nat /\ table = [b \in 1..n |-> table[b]] /\ \A b \in 1..n : table[b] \in Rows
  BY <1>1
<1>3. DOMAIN table = DOMAIN rows
  OBVIOUS
<1> HIDE DEF n
<1> QED
  BY <1>2, <1>3, SeqDef

LEMMA AppendTyped ==
    ASSUME NEW table \in Seq(Rows), NEW row \in Rows
    PROVE  /\ Append(table, row) \in Seq(Rows)
           /\ DOMAIN table \subseteq DOMAIN Append(table, row)
           /\ \A b \in DOMAIN Append(table, row) :
                \/ b \in DOMAIN table /\ Append(table, row)[b] = table[b]
                \/ Append(table, row)[b] = row
<1>1. Len(table) \in Nat /\ DOMAIN table = 1..Len(table)
  BY LenProperties
<1>2. /\ Append(table, row) \in Seq(Rows) /\ Len(Append(table, row)) = Len(table) + 1
      /\ \A i \in 1..Len(table) : Append(table, row)[i] = table[i]
      /\ Append(table, row)[Len(table) + 1] = row
  BY AppendProperties
<1>3. DOMAIN Append(table, row) = 1..(Len(table) + 1)
  BY <1>2, LenProperties
<1> QED
  BY <1>1, <1>2, <1>3

(* A statement that rewrites rows in place and hands out no token.         *)
LEMMA RewriteKept ==
    ASSUME Typed, NEW req, rows' = [b \in DOMAIN rows |-> rows'[b]],
           \A b \in DOMAIN rows : rows'[b] \in Rows /\ rows'[b].token = rows[b].token,
           UNCHANGED gems
    PROVE  Kept(req)
<1>1. rows' \in Seq(Rows) /\ DOMAIN rows' = DOMAIN rows
  BY RewriteTyped DEF Typed
<1> QED
  BY <1>1 DEF Kept, Typed

LEMMA IdleKept ==
    ASSUME Typed, NEW req, UNCHANGED tables
    PROVE  Kept(req)
BY DEF Kept, Typed, tables

(* The progress a new stake starts from is a number of seconds.            *)
LEMMA MergedIsNumber ==
    ASSUME BountiesAssumption, Typed, NEW target, NEW n \in Nat \ {0}, NEW now
    PROVE  MergedProgress(target, n, now) \in Nat
<1> DEFINE stack == ActiveOn(target, now)
           total == MapThenSumSet(Worth, stack)
           progress == Min({rows[b].progress : b \in stack})
           rounded == (2 * (progress * total - Limit * n) + total) \div (2 * total)
<1>1. stack \in SUBSET DOMAIN rows
  BY DEF ActiveOn, Active
<1>2. \A b \in stack : rows[b].progress \in Nat
  BY <1>1, RowsAreFinite DEF Typed, Rows
<1>3. total \in Nat
  <2>1. WorthOf(stack) \in Nat
    BY <1>1, WorthTotals DEF Typed
  <2> QED
    BY <2>1 DEF WorthOf
<1>4. ASSUME ~ (stack = {} \/ n >= total)
      PROVE  AtLeastZero(rounded) \in Nat
  <2> HIDE DEF stack
  <2>1. progress \in Nat
    <3> DEFINE T == {rows[b].progress : b \in stack}
    <3>1. T \in SUBSET Nat /\ T # {}
      BY <1>2, <1>4
    <3> HIDE DEF T
    <3>2. \E x \in T : \A y \in T : x =< y
      BY <3>1, LeastNumber
    <3>3. Min(T) \in T
      BY <3>2 DEF Min
    <3>4. Min(T) \in Nat
      BY <3>1, <3>3
    <3> QED
      BY <3>4 DEF T
  <2> HIDE DEF total, progress
  <2>2. total > 0 /\ Limit \in Nat
    BY <1>3, <1>4 DEF BountiesAssumption
  <2>3. progress * total \in Int /\ Limit * n \in Int
    BY <1>3, <2>1, <2>2
  <2>4. 2 * (progress * total - Limit * n) + total \in Int /\ 2 * total \in Nat \ {0}
    BY <1>3, <2>2, <2>3
  <2>5. rounded \in Int
    BY <2>4
  <2> HIDE DEF rounded
  <2> QED
    BY <2>5 DEF AtLeastZero
<1> QED
  BY <1>4 DEF MergedProgress

MeasuredRow(row, progress, last) == [row EXCEPT !.progress = progress, !.last = last]

LEMMA MeasuredRowTyped ==
    ASSUME NEW row \in Rows, NEW progress \in Nat, NEW last \in Nat
    PROVE  /\ MeasuredRow(row, progress, last) \in Rows
           /\ MeasuredRow(row, progress, last).token = row.token
BY DEF MeasuredRow, Rows

(* A new row is a row.                                                     *)
LEMMA NewRowTyped ==
    ASSUME BountiesAssumption, NEW sender \in Senders, NEW req, NEW n \in Nat,
           NEW progress \in Nat, req.target \in Players, req.now \in Nat, req.played \in Nat
    PROVE  /\ NewRow(sender, req, n, progress) \in Rows
           /\ NewRow(sender, req, n, progress).token = Noone
<1>1. req.now + Expiry \in Nat /\ System \in Senders
  BY DEF BountiesAssumption, Senders
<1> QED
  BY <1>1 DEF NewRow, Rows, Statuses

LEMMA PlaceKept ==
    ASSUME BountiesAssumption, Typed, NEW req, NEW ids, WellFormed(req, ids),
           req.op = "place", ExecutePlace(req)
    PROVE  Kept(req)
<1> DEFINE progress == MergedProgress(req.target, req.amount, req.now)
           table == AlignedStack(req, progress)
           row == NewRow(req.sender, req, req.amount, progress)
<1>1. CASE UNCHANGED tables
  BY <1>1, IdleKept
<1>2. CASE /\ CanPlace(req) /\ gems' = [gems EXCEPT ![req.sender] = @ - req.amount]
           /\ rows' = Append(table, row)
  <2>1. /\ req.sender \in Players /\ req.target \in Players
        /\ req.amount \in Nat \ {0} /\ req.now \in Nat /\ req.played \in Nat
    BY DEF WellFormed, BountiesAssumption
  <2>2. progress \in Nat
    BY <2>1, MergedIsNumber
  <2> HIDE DEF progress
  <2>3. gems' \in [Players -> Nat]
    BY <1>2, <2>1 DEF CanPlace, Typed
  <2>4. row \in Rows /\ row.token = Noone
    BY <2>1, <2>2, NewRowTyped DEF Senders
  <2>5. /\ table = [b \in DOMAIN rows |-> table[b]]
        /\ \A b \in DOMAIN rows : table[b] \in Rows /\ table[b].token = rows[b].token
    <3>1. ASSUME NEW b \in DOMAIN rows
          PROVE  table[b] \in Rows /\ table[b].token = rows[b].token
      <4>1. rows[b] \in Rows
        BY RowsAreFinite DEF Typed
      <4>2. table[b] = rows[b]
            \/ table[b] = MeasuredRow(rows[b], progress, req.played)
        BY DEF AlignedStack, MeasuredRow
      <4> DEFINE aligned == MeasuredRow(rows[b], progress, req.played)
      <4>3. aligned \in Rows /\ aligned.token = rows[b].token
        BY <2>1, <2>2, <4>1, MeasuredRowTyped
      <4> HIDE DEF table, aligned
      <4>4. table[b] = rows[b] \/ table[b] = aligned
        BY <4>2 DEF aligned
      <4> QED
        BY <4>1, <4>3, <4>4
    <3>2. table = [b \in DOMAIN rows |-> table[b]]
      BY DEF AlignedStack
    <3> QED
      BY <3>1, <3>2
  <2> HIDE DEF table, row
  <2>6. table \in Seq(Rows) /\ DOMAIN table = DOMAIN rows
    BY <2>5, RewriteTyped DEF Typed
  <2>7. /\ Append(table, row) \in Seq(Rows) /\ DOMAIN table \subseteq DOMAIN Append(table, row)
        /\ \A b \in DOMAIN Append(table, row) :
                \/ b \in DOMAIN table /\ Append(table, row)[b] = table[b]
                \/ Append(table, row)[b] = row
    BY <2>4, <2>6, AppendTyped
  <2> QED
    BY <1>2, <2>3, <2>4, <2>5, <2>6, <2>7 DEF Kept
<1> QED
  BY <1>1, <1>2 DEF ExecutePlace

LEMMA AutoKept ==
    ASSUME BountiesAssumption, Typed, NEW req, NEW ids, WellFormed(req, ids),
           req.op = "auto", ExecuteAuto(req)
    PROVE  Kept(req)
<1> DEFINE row == NewRow(System, req, AutoStake, 0)
<1>1. CASE UNCHANGED tables
  BY <1>1, IdleKept
<1>2. CASE rows' = Append(rows, row) /\ UNCHANGED gems
  <2>1. row \in Rows /\ row.token = Noone
    BY NewRowTyped DEF WellFormed, BountiesAssumption, Senders
  <2> HIDE DEF row
  <2>2. /\ Append(rows, row) \in Seq(Rows) /\ DOMAIN rows \subseteq DOMAIN Append(rows, row)
        /\ \A b \in DOMAIN Append(rows, row) :
                \/ b \in DOMAIN rows /\ Append(rows, row)[b] = rows[b]
                \/ Append(rows, row)[b] = row
    BY <2>1, AppendTyped DEF Typed
  <2> QED
    BY <1>2, <2>1, <2>2 DEF Kept, Typed
<1> QED
  BY <1>1, <1>2 DEF ExecuteAuto, tables

LEMMA GrowKept ==
    ASSUME BountiesAssumption, Typed, NEW req, ExecuteGrow(req)
    PROVE  Kept(req)
<1>1. \A b \in DOMAIN rows : rows[b] \in Rows
  BY RowsAreFinite DEF Typed
<1>2. ASSUME NEW b \in Growable(req.player, req.now)
      PROVE  LeastOf(MaxWorth - rows[b].amount, rows[b].bonus + Growth) \in Nat
  <2>1. b \in DOMAIN rows /\ rows[b].amount < MaxWorth
    BY DEF Growable, ActiveOn, Active
  <2>2. rows[b].amount \in Nat /\ rows[b].bonus \in Nat
    BY <1>1, <2>1 DEF Rows
  <2> QED
    BY <2>1, <2>2 DEF LeastOf, BountiesAssumption
<1>3. \A b \in DOMAIN rows : rows'[b] \in Rows /\ rows'[b].token = rows[b].token
  BY <1>1, <1>2 DEF ExecuteGrow, Rows
<1>4. rows' = [b \in DOMAIN rows |-> rows'[b]] /\ UNCHANGED gems
  BY DEF ExecuteGrow
<1> QED
  BY <1>3, <1>4, RewriteKept

LEMMA MarkKept ==
    ASSUME Typed, NEW req, NEW ids, WellFormed(req, ids), req.op = "mark", ExecuteMark(req)
    PROVE  Kept(req)
<1>1. \A b \in DOMAIN rows : rows[b] \in Rows
  BY RowsAreFinite DEF Typed
<1>2. req.now \in Nat
  BY DEF WellFormed
<1>3. \A b \in DOMAIN rows : rows'[b] \in Rows /\ rows'[b].token = rows[b].token
  BY <1>1, <1>2 DEF ExecuteMark, Rows
<1>4. rows' = [b \in DOMAIN rows |-> rows'[b]] /\ UNCHANGED gems
  BY DEF ExecuteMark
<1> QED
  BY <1>3, <1>4, RewriteKept

LEMMA ClearKept ==
    ASSUME Typed, NEW req, ExecuteClear(req)
    PROVE  Kept(req)
<1>1. \A b \in DOMAIN rows : rows[b] \in Rows
  BY RowsAreFinite DEF Typed
<1>2. \A b \in DOMAIN rows : rows'[b] \in Rows /\ rows'[b].token = rows[b].token
  BY <1>1 DEF ExecuteClear, Rows
<1>3. rows' = [b \in DOMAIN rows |-> rows'[b]] /\ UNCHANGED gems
  BY DEF ExecuteClear
<1> QED
  BY <1>2, <1>3, RewriteKept

(* A statement that settles rows under its token, and pays.                *)
LEMMA SettledKept ==
    ASSUME Typed, NEW req, req.op \in Settling, rows' = [b \in DOMAIN rows |-> rows'[b]],
           \A b \in DOMAIN rows : rows'[b] \in Rows
                /\ (rows'[b].token = rows[b].token \/ rows'[b].token = req.token),
           gems' \in [Players -> Nat]
    PROVE  Kept(req)
<1>1. rows' \in Seq(Rows) /\ DOMAIN rows' = DOMAIN rows
  BY RewriteTyped DEF Typed
<1> QED
  BY <1>1 DEF Kept

SettledRow(row, outcome, t, payee) ==
    [row EXCEPT !.status = outcome, !.token = t, !.payee = payee]

LEMMA SettledRowTyped ==
    ASSUME NEW row \in Rows, NEW outcome \in Statuses, NEW t \in Tokens, NEW payee \in Senders
    PROVE  /\ SettledRow(row, outcome, t, payee) \in Rows
           /\ SettledRow(row, outcome, t, payee).token = t
BY DEF SettledRow, Rows

LEMMA ClaimKept ==
    ASSUME BountiesAssumption, Typed, NEW req, NEW ids, WellFormed(req, ids),
           req.op = "claim", ExecuteClaim(req)
    PROVE  Kept(req)
<1> DEFINE Paid(p) == {b \in DOMAIN rows' : rows'[b].token = req.token /\ req.attacker = p}
<1>1. gems' = [p \in Players |-> gems[p] + WorthOf(Paid(p))]
  BY DEF ExecuteClaim, Settle, Credited, WorthOf
<1>2. \A b \in DOMAIN rows : rows[b] \in Rows
  BY RowsAreFinite DEF Typed
<1>3. /\ rows' = [b \in DOMAIN rows |-> rows'[b]]
      /\ \A b \in DOMAIN rows :
            \/ rows'[b] = rows[b]
            \/ rows'[b] = SettledRow(rows[b], "claimed", req.token, req.attacker)
  BY DEF ExecuteClaim, Settle, Resolved, SettledRow
<1>4. req.attacker \in Senders /\ req.token \in Tokens /\ "claimed" \in Statuses
      /\ req.op \in Settling
  BY DEF WellFormed, Senders, Statuses, Settling
<1>5. ASSUME NEW b \in DOMAIN rows
      PROVE  rows'[b] \in Rows
                /\ (rows'[b].token = rows[b].token \/ rows'[b].token = req.token)
  <2>1. CASE rows'[b] = rows[b]
    BY <1>2, <2>1
  <2>2. CASE rows'[b] = SettledRow(rows[b], "claimed", req.token, req.attacker)
    BY <1>2, <1>4, <2>2, SettledRowTyped
  <2> QED
    BY <1>3, <2>1, <2>2
<1>6. ASSUME NEW p \in Players
      PROVE  WorthOf(Paid(p)) \in Nat
  <2>1. Paid(p) \in SUBSET DOMAIN rows
    BY <1>3
  <2> HIDE DEF Paid
  <2> QED
    BY <2>1, WorthTotals DEF Typed
<1> HIDE DEF Paid
<1>7. gems' \in [Players -> Nat]
  BY <1>1, <1>6 DEF Typed
<1> QED
  BY <1>3, <1>4, <1>5, <1>7, SettledKept

(* Expiry and the disconnect pass return the stakes.                       *)
LEMMA ReturnKept ==
    ASSUME BountiesAssumption, Typed, NEW req, req.op \in Settling, req.token \in Tokens,
           NEW outcome \in Statuses, NEW chosen, Refund(chosen, outcome, req.token)
    PROVE  Kept(req)
<1> DEFINE Paid(p) == {b \in DOMAIN rows' : rows'[b].token = req.token /\ rows[b].sender = p}
<1>1. gems' = [p \in Players |-> gems[p] + AmountOf(Paid(p))]
  BY DEF Refund, Settle, Credited, AmountOf
<1>2. \A b \in DOMAIN rows : rows[b] \in Rows
  BY RowsAreFinite DEF Typed
<1>3. /\ rows' = [b \in DOMAIN rows |-> rows'[b]]
      /\ \A b \in DOMAIN rows :
            \/ rows'[b] = rows[b]
            \/ rows'[b] = SettledRow(rows[b], outcome, req.token, rows[b].sender)
  BY DEF Refund, Settle, Resolved, SettledRow
<1>4. ASSUME NEW b \in DOMAIN rows
      PROVE  rows'[b] \in Rows
                /\ (rows'[b].token = rows[b].token \/ rows'[b].token = req.token)
  <2>1. CASE rows'[b] = rows[b]
    BY <1>2, <2>1
  <2>2. CASE rows'[b] = SettledRow(rows[b], outcome, req.token, rows[b].sender)
    <3>1. rows[b] \in Rows /\ rows[b].sender \in Senders
      BY <1>2 DEF Rows
    <3> QED
      BY <2>2, <3>1, SettledRowTyped
  <2> QED
    BY <1>3, <2>1, <2>2
<1>5. ASSUME NEW p \in Players
      PROVE  AmountOf(Paid(p)) \in Nat
  <2>1. Paid(p) \in SUBSET DOMAIN rows
    BY <1>3
  <2> HIDE DEF Paid
  <2> QED
    BY <2>1, AmountTotals DEF Typed
<1> HIDE DEF Paid
<1>6. gems' \in [Players -> Nat]
  BY <1>1, <1>5 DEF Typed
<1> QED
  BY <1>3, <1>4, <1>6, SettledKept

LEMMA ProgressKept ==
    ASSUME BountiesAssumption, Typed, NEW req, NEW ids, WellFormed(req, ids),
           req.op = "progress", ExecuteProgress(req)
    PROVE  Kept(req)
<1> DEFINE Paid(p) == {b \in DOMAIN rows' : rows'[b].token = req.token /\ rows[b].target = p}
           measured(b) == IF b \in Measured(req)
                          THEN MeasuredRow(rows[b], Progressed(b, req),
                                           req.current[rows[b].target])
                          ELSE rows[b]
<1>1. gems' = [p \in Players |-> gems[p] + WorthOf(Paid(p))]
  BY DEF ExecuteProgress, Credited, WorthOf
<1>2. \A b \in DOMAIN rows : rows[b] \in Rows
  BY RowsAreFinite DEF Typed
<1>3. /\ rows' = [b \in DOMAIN rows |-> rows'[b]]
      /\ \A b \in DOMAIN rows :
            \/ rows'[b] = measured(b)
            \/ rows'[b] = SettledRow(measured(b), "survived", req.token, rows[b].target)
  BY DEF ExecuteProgress, SettledRow, MeasuredRow
<1>4. req.token \in Tokens /\ "survived" \in Statuses /\ req.op \in Settling
  BY DEF WellFormed, Statuses, Settling
<1>5. ASSUME NEW b \in DOMAIN rows
      PROVE  measured(b) \in Rows /\ measured(b).token = rows[b].token
  <2>1. CASE b \notin Measured(req)
    BY <1>2, <2>1
  <2>2. CASE b \in Measured(req)
    <3>1. rows[b].target \in DOMAIN req.current /\ req.current \in [DOMAIN req.current -> Nat]
      BY <2>2 DEF Measured, WellFormed
    <3>2. req.current[rows[b].target] \in Nat
      BY <3>1
    <3>3. rows[b].progress \in Nat /\ rows[b].last \in Nat /\ rows[b] \in Rows
      BY <1>2 DEF Rows
    <3>4. Gained(b, req) \in Nat
      BY <3>2, <3>3 DEF Gained
    <3>5. Progressed(b, req) \in Nat
      BY <2>2, <3>3, <3>4 DEF Progressed, LeastOf, BountiesAssumption
    <3> DEFINE progress == Progressed(b, req)
               last == req.current[rows[b].target]
               row == MeasuredRow(rows[b], progress, last)
    <3>6. row \in Rows /\ row.token = rows[b].token
      <4>1. progress \in Nat /\ last \in Nat /\ rows[b] \in Rows
        BY <3>2, <3>3, <3>5
      <4> HIDE DEF progress, last
      <4> QED
        BY <4>1, MeasuredRowTyped
    <3>7. measured(b) = row
      BY <2>2
    <3> HIDE DEF measured, row
    <3> QED
      BY <3>6, <3>7
  <2> QED
    BY <2>1, <2>2
<1> HIDE DEF measured
<1>6. ASSUME NEW b \in DOMAIN rows
      PROVE  rows'[b] \in Rows
                /\ (rows'[b].token = rows[b].token \/ rows'[b].token = req.token)
  <2>1. CASE rows'[b] = measured(b)
    BY <1>5, <2>1
  <2>2. CASE rows'[b] = SettledRow(measured(b), "survived", req.token, rows[b].target)
    <3>1. measured(b) \in Rows /\ rows[b].target \in Senders
      BY <1>2, <1>5 DEF Rows, Senders
    <3> QED
      BY <1>4, <2>2, <3>1, SettledRowTyped
  <2> QED
    BY <1>3, <2>1, <2>2
<1>7. ASSUME NEW p \in Players
      PROVE  WorthOf(Paid(p)) \in Nat
  <2>1. Paid(p) \in SUBSET DOMAIN rows
    BY <1>3
  <2> HIDE DEF Paid
  <2> QED
    BY <2>1, WorthTotals DEF Typed
<1> HIDE DEF Paid
<1>8. gems' \in [Players -> Nat]
  BY <1>1, <1>7 DEF Typed
<1> QED
  BY <1>3, <1>4, <1>6, <1>8, SettledKept

(* Every statement leaves a table of rows and a table of balances.         *)
LEMMA StatementKept ==
    ASSUME BountiesAssumption, Typed, NEW req, NEW ids, WellFormed(req, ids), Statement(req)
    PROVE  Kept(req)
<1>1. CASE req.op = "place"
  BY <1>1, PlaceKept DEF Statement
<1>2. CASE req.op = "auto"
  BY <1>2, AutoKept DEF Statement
<1>3. CASE req.op = "grow"
  BY <1>3, GrowKept DEF Statement
<1>4. CASE req.op = "mark"
  BY <1>4, MarkKept DEF Statement
<1>5. CASE req.op = "clear"
  BY <1>5, ClearKept DEF Statement
<1>6. CASE req.op = "claim"
  BY <1>6, ClaimKept DEF Statement
<1>7. CASE req.op \in {"expire", "refund"}
  <2>1. /\ req.op \in Settling /\ req.token \in Tokens
        /\ "expired" \in Statuses /\ "disconnected" \in Statuses
    BY <1>7 DEF WellFormed, Settling, Statuses
  <2>2. CASE req.op = "expire"
    BY <2>1, <2>2, ReturnKept DEF Statement, ExecuteExpire
  <2>3. CASE req.op = "refund"
    BY <2>1, <2>3, ReturnKept DEF Statement, ExecuteRefund
  <2> QED
    BY <1>7, <2>2, <2>3
<1>8. CASE req.op = "progress"
  BY <1>8, ProgressKept DEF Statement
<1>9. CASE UNCHANGED tables
  BY <1>9, IdleKept
<1> QED
  BY <1>1, <1>2, <1>3, <1>4, <1>5, <1>6, <1>7, <1>8, <1>9 DEF Statement

------------------------------------------------------------------------------
(* The invariant is inductive.                                             *)

(* What the main thread may do to the queue.                               *)
Asked ==
    \/ UNCHANGED queue
    \/ \E q, t : /\ Batch(q, t, DOMAIN rows) /\ Ask(q)
                 /\ FreshToken(t) \/ Plain(q, DOMAIN rows)

LEMMA AskedPlain ==
    ASSUME NEW q, Plain(q, DOMAIN rows), Ask(q)
    PROVE  Asked
BY PlainIsBatch DEF Asked

LEMMA AskedFresh ==
    ASSUME NEW q, NEW t, Batch(q, t, DOMAIN rows), Ask(q), FreshToken(t)
    PROVE  Asked
BY DEF Asked

LEMMA MainThreadKeeps ==
    ASSUME EscrowInv, TypeOK', UNCHANGED rows, Asked,
           UNCHANGED results \/ (results # << >> /\ results' = Tail(results))
    PROVE  EscrowInv'
<1>1. Sound(queue', DOMAIN rows') /\ TokensAreOurs'
  <2>1. CASE UNCHANGED queue
    BY <2>1 DEF EscrowInv, TokensAreOurs
  <2>2. CASE \E q, t : /\ Batch(q, t, DOMAIN rows) /\ Ask(q)
                       /\ FreshToken(t) \/ Plain(q, DOMAIN rows)
    BY <2>2, AskKeeps
  <2> QED
    BY <2>1, <2>2 DEF Asked
<1>2. AnswersAreSound'
  <2>1. IsSeq(results)
    BY DEF EscrowInv, AnswersAreSound
  <2>2. CASE UNCHANGED results
    BY <2>2 DEF EscrowInv, AnswersAreSound
  <2>3. CASE results # << >> /\ results' = Tail(results)
    <3>1. /\ IsSeq(Tail(results))
          /\ \A i \in DOMAIN Tail(results) :
                i + 1 \in DOMAIN results /\ Tail(results)[i] = results[i + 1]
      BY <2>1, <2>3, TailIsSeq
    <3> QED
      BY <2>3, <3>1 DEF EscrowInv, AnswersAreSound
  <2> QED
    BY <2>2, <2>3
<1> QED
  BY <1>1, <1>2 DEF EscrowInv

LEMMA FirstAnswer ==
    ASSUME EscrowInv, results # << >>
    PROVE  Answered(Head(results), DOMAIN rows)
<1>1. IsSeq(results)
  BY DEF EscrowInv, AnswersAreSound
<1>2. Head(results) = results[1] /\ 1 \in DOMAIN results
  BY <1>1, TailIsSeq
<1> QED
  BY <1>2 DEF EscrowInv, AnswersAreSound

LEMMA PlayersKeep ==
    ASSUME BountiesAssumption, EscrowInv, NEW p \in Players,
           OnClientAuthorized(p) \/ OnClientPutInServer(p) \/ OnClientDisconnect(p) \/ PlayOn(p)
    PROVE  EscrowInv'
<1>1. CASE OnClientAuthorized(p)
  <2> DEFINE req == [op |-> "clear", player |-> p]
  <2>1. WellFormed(req, DOMAIN rows) /\ req.op \notin Settling
    BY DEF WellFormed, Settling
  <2>2. Asked
    BY <1>1, <2>1, OneIsPlain, AskedPlain DEF OnClientAuthorized
  <2>3. TypeOK'
    BY <1>1 DEF OnClientAuthorized, CountMove, EscrowInv, TypeOK, tables, pending
  <2> QED
    BY <1>1, <2>2, <2>3, MainThreadKeeps DEF OnClientAuthorized, tables
<1>2. CASE OnClientPutInServer(p)
  <2>1. TypeOK'
    BY <1>2 DEF OnClientPutInServer, EscrowInv, TypeOK, tables, pending, bounds
  <2> QED
    BY <1>2, <2>1, MainThreadKeeps DEF OnClientPutInServer, tables, Asked
<1>3. CASE OnClientDisconnect(p)
  <2> DEFINE req == [op |-> "mark", player |-> p, now |-> clock]
  <2>1. WellFormed(req, DOMAIN rows) /\ req.op \notin Settling
    <3>1. clock \in Nat
      BY DEF EscrowInv, TypeOK, BountiesAssumption
    <3> QED
      BY <3>1 DEF WellFormed, Settling
  <2>2. Asked
    BY <1>3, <2>1, OneIsPlain, AskedPlain DEF OnClientDisconnect
  <2>3. TypeOK'
    BY <1>3 DEF OnClientDisconnect, CountMove, EscrowInv, TypeOK, tables, pending, BountiesAssumption
  <2> QED
    BY <1>3, <2>2, <2>3, MainThreadKeeps DEF OnClientDisconnect, tables
<1>4. CASE PlayOn(p)
  <2>1. TypeOK'
    BY <1>4 DEF PlayOn, EscrowInv, TypeOK, tables, pending, bounds
  <2> QED
    BY <1>4, <2>1, MainThreadKeeps DEF PlayOn, tables, Asked
<1> QED
  BY <1>1, <1>2, <1>3, <1>4

LEMMA PlacementKeeps ==
    ASSUME BountiesAssumption, EscrowInv, NEW s \in Placers, NEW p \in Hunted, NEW n \in Stakes,
           QueueBountyPlacement(s, p, n)
    PROVE  EscrowInv'
<1> DEFINE req == [op |-> "place", sender |-> s, target |-> p, amount |-> n,
                   now |-> clock, played |-> played[p]]
<1>1. WellFormed(req, DOMAIN rows) /\ req.op \notin Settling
  <2>1. /\ s \in Players /\ p \in Players /\ s # p
        /\ clock \in Nat /\ played[p] \in Nat
    BY DEF QueueBountyPlacement, EscrowInv, TypeOK, BountiesAssumption
  <2> QED
    BY <2>1 DEF WellFormed, Settling
<1>2. Asked
  BY <1>1, OneIsPlain, AskedPlain DEF QueueBountyPlacement
<1>3. TypeOK'
  BY DEF QueueBountyPlacement, CountMove, EscrowInv, TypeOK, tables, pending, world
<1> QED
  BY <1>2, <1>3, MainThreadKeeps DEF QueueBountyPlacement, tables

(* The growth a death asks for.                                            *)
LEMMA GrowingIsSeq ==
    ASSUME NEW a, NEW v, NEW growing \in Growing(a, v)
    PROVE  IsSeq(growing)
<1>1. growing = << >> \/ growing = <<a>> \/ \E p \in Fighters : growing = <<p>> \/ growing = <<p, a>>
  BY DEF Growing
<1>2. ASSUME NEW p
      PROVE  IsSeq(<<p>>) /\ IsSeq(<<p, a>>)
  <2>1. <<p, a>> \in Seq({p, a})
    OBVIOUS
  <2> QED
    BY <2>1, OneIsSeq, ItselfIsSeq
<1> QED
  BY <1>1, <1>2, NoneIsSeq

LEMMA DeathKeeps ==
    ASSUME BountiesAssumption, EscrowInv, NEW a \in Players, NEW v \in Players,
           NEW growing, IsSeq(growing), NEW dominated,
           Event_BountyPlayerDeath(a, v, growing, dominated)
    PROVE  EscrowInv'
<1> DEFINE grow == [i \in DOMAIN growing |->
                        [op |-> "grow", player |-> growing[i], now |-> clock]]
           claim(t) == [op |-> "claim", attacker |-> a, victim |-> v, now |-> clock, token |-> t]
<1>1. Plain(grow, DOMAIN rows)
  <2>1. PICK n \in Nat : growing = [i \in 1..n |-> growing[i]]
    BY DEF IsSeq
  <2>2. DOMAIN growing = 1..n
    BY <2>1
  <2>3. IsSeq(grow)
    BY <2>2 DEF IsSeq
  <2>4. ASSUME NEW i \in DOMAIN grow
        PROVE  WellFormed(grow[i], DOMAIN rows) /\ grow[i].op \notin Settling
    BY DEF WellFormed, Settling
  <2> HIDE DEF grow
  <2> QED
    BY <2>3, <2>4 DEF Plain, Sound
<1>2. ASSUME NEW t \in Tokens
      PROVE  Batch(<<claim(t)>>, t, DOMAIN rows)
  <2>1. WellFormed(claim(t), DOMAIN rows) /\ claim(t).token = t
    BY DEF Event_BountyPlayerDeath, WellFormed
  <2> HIDE DEF claim
  <2> QED
    BY <2>1, OneIsBatch
<1>3. \/ Ask(grow)
      \/ \E t \in Tokens : FreshToken(t) /\ Ask(grow \o <<claim(t)>>)
  BY DEF Event_BountyPlayerDeath
<1> HIDE DEF grow, claim
<1>4. Asked
  BY <1>1, <1>2, <1>3, PlainThenBatch, AskedPlain, AskedFresh
<1>5. TypeOK'
  BY DEF Event_BountyPlayerDeath, CountMove, EscrowInv, TypeOK, tables, pending, world
<1> QED
  BY <1>4, <1>5, MainThreadKeeps DEF Event_BountyPlayerDeath, tables

LEMMA TickKeeps ==
    ASSUME BountiesAssumption, EscrowInv, Tick
    PROVE  EscrowInv'
<1>1. TypeOK'
  BY DEF Tick, EscrowInv, TypeOK, tables, pending, bounds, BountiesAssumption
<1> QED
  BY <1>1, MainThreadKeeps DEF Tick, tables, Asked

LEMMA MaintainAsks ==
    ASSUME Maintain
    PROVE  Asked
<1> DEFINE expire(t) == [op |-> "expire", now |-> clock, token |-> t]
           targets == [op |-> "targets", now |-> clock]
           first(t) == IF expiryPending THEN << >> ELSE <<expire(t)>>
           second == IF progressPending THEN << >> ELSE <<targets>>
<1>1. PICK t \in Tokens : FreshToken(t) /\ Ask(first(t) \o second)
  BY DEF Maintain
<1>2. Batch(first(t), t, DOMAIN rows)
  <2>1. WellFormed(expire(t), DOMAIN rows) /\ expire(t).token = t
    BY DEF WellFormed
  <2> HIDE DEF expire
  <2> QED
    BY <2>1, OneIsBatch, NoneIsPlain, PlainIsBatch
<1>3. Plain(second, DOMAIN rows)
  <2>1. WellFormed(targets, DOMAIN rows) /\ targets.op \notin Settling
    BY DEF WellFormed, Settling
  <2> HIDE DEF targets
  <2> QED
    BY <2>1, OneIsPlain, NoneIsPlain
<1> HIDE DEF first, second
<1> QED
  BY <1>1, <1>2, <1>3, BatchThenPlain, AskedFresh

LEMMA MaintenanceKeeps ==
    ASSUME EscrowInv, Timer_BountyMaintenance \/ Bounties_OnMapStart
    PROVE  EscrowInv'
<1>1. Asked
  BY MaintainAsks DEF Timer_BountyMaintenance, Bounties_OnMapStart, Asked
<1>2. TypeOK'
  BY DEF Timer_BountyMaintenance, Bounties_OnMapStart, Maintain, EscrowInv, TypeOK, tables, world,
        bounds
<1> QED
  BY <1>1, <1>2, MainThreadKeeps DEF Timer_BountyMaintenance, Bounties_OnMapStart, tables

LEMMA RoundKeeps ==
    ASSUME BountiesAssumption, EscrowInv, Event_BountyRoundStart
    PROVE  EscrowInv'
<1> DEFINE select == [op |-> "overdue", now |-> clock, cutoff |-> clock - Grace]
           first == IF refundPending THEN << >> ELSE <<select>>
           candidate(p) == [op |-> "candidate", player |-> p, now |-> clock]
<1>1. Plain(first, DOMAIN rows)
  <2>1. WellFormed(select, DOMAIN rows) /\ select.op \notin Settling
    BY DEF WellFormed, Settling
  <2> HIDE DEF select
  <2> QED
    BY <2>1, OneIsPlain, NoneIsPlain
<1>2. ASSUME NEW p \in Players
      PROVE  Plain(<<candidate(p)>>, DOMAIN rows)
  <2>1. WellFormed(candidate(p), DOMAIN rows) /\ candidate(p).op \notin Settling
    BY DEF WellFormed, Settling
  <2> HIDE DEF candidate
  <2> QED
    BY <2>1, OneIsPlain
<1>3. Ask(first) \/ \E p \in Players : Ask(first \o <<candidate(p)>>)
  BY DEF Event_BountyRoundStart, BountiesAssumption
<1> HIDE DEF first, candidate
<1>4. Asked
  <2>1. CASE Ask(first)
    BY <1>1, <2>1, AskedPlain
  <2>2. ASSUME NEW p \in Players, Ask(first \o <<candidate(p)>>)
        PROVE  Asked
    <3>1. Plain(first \o <<candidate(p)>>, DOMAIN rows)
      BY <1>1, <1>2, PlainThenPlain
    <3> QED
      BY <2>2, <3>1, AskedPlain
  <2> QED
    BY <1>3, <2>1, <2>2
<1>5. TypeOK'
  <2>1. /\ refundPending' \in BOOLEAN /\ automaticPending' \in BOOLEAN
        /\ moves' = moves + 1
    BY Zenon DEF Event_BountyRoundStart, CountMove, EscrowInv, TypeOK
  <2>2. UNCHANGED <<world, expiryPending, progressPending, tables, failures>>
    BY DEF Event_BountyRoundStart
  <2> QED
    BY <2>1, <2>2 DEF EscrowInv, TypeOK, tables, world
<1> QED
  BY <1>4, <1>5, MainThreadKeeps DEF Event_BountyRoundStart, tables

LEMMA ReportKeeps ==
    ASSUME EscrowInv, OnAnswer \/ OnBountiesExpired \/ OnDisconnectedBountiesRefunded
                        \/ OnBountiesSurvived \/ OnAutomaticBountyPlaced
    PROVE  EscrowInv'
<1>1. /\ Asked /\ UNCHANGED tables
      /\ results # << >> /\ results' = Tail(results)
  BY DEF OnAnswer, OnBountiesExpired, OnDisconnectedBountiesRefunded, OnBountiesSurvived,
        OnAutomaticBountyPlaced, Taken, Asked
<1>2. TypeOK'
  BY DEF OnAnswer, OnBountiesExpired, OnDisconnectedBountiesRefunded, OnBountiesSurvived,
        OnAutomaticBountyPlaced, EscrowInv, TypeOK, tables, world, bounds, pending
<1> QED
  BY <1>1, <1>2, MainThreadKeeps DEF tables

(* The second half of the disconnect pass.                                 *)
LEMMA OverdueKeeps ==
    ASSUME BountiesAssumption, EscrowInv, OnDisconnectedBountiesLoaded
    PROVE  EscrowInv'
<1> DEFINE ids == Head(results).value
           back == SetToSeq(Back(ids))
           clears == [i \in DOMAIN back |->
                        [op |-> "clear", player |-> rows[back[i]].target]]
           gone == [p \in Players |-> IF seat[p] = "away" THEN leftAt[p] ELSE 0]
           refund(t) == [op |-> "refund", ids |-> Overdue(ids), cutoff |-> clock - Grace,
                         token |-> t, left |-> gone]
<1>1. results # << >> /\ results' = Tail(results) /\ Head(results).request.op = "overdue"
  BY DEF OnDisconnectedBountiesLoaded, Taken
<1>2. ids \in SUBSET DOMAIN rows
  BY <1>1, FirstAnswer DEF Answered
<1>3. Plain(clears, DOMAIN rows)
  <2>1. Back(ids) \in SUBSET DOMAIN rows
    BY <1>2 DEF Back
  <2>2. IsFiniteSet(Back(ids))
    BY <2>1, RowsAreFinite DEF EscrowInv, TypeOK
  <2>3. IsSeq(back)
    BY <2>2, ListedIsSeq
  <2> HIDE DEF back
  <2>4. PICK n \in Nat : back = [i \in 1..n |-> back[i]]
    BY <2>3 DEF IsSeq
  <2>5. DOMAIN back = 1..n
    BY <2>4
  <2>6. IsSeq(clears)
    BY <2>5 DEF IsSeq
  <2>7. ASSUME NEW i \in DOMAIN clears
        PROVE  WellFormed(clears[i], DOMAIN rows) /\ clears[i].op \notin Settling
    BY DEF WellFormed, Settling
  <2> HIDE DEF clears
  <2> QED
    BY <2>6, <2>7 DEF Plain, Sound
<1>4. ASSUME NEW t \in Tokens
      PROVE  Batch(<<refund(t)>>, t, DOMAIN rows)
  <2>1. Overdue(ids) \subseteq DOMAIN rows
    BY <1>2 DEF Overdue
  <2>2. WellFormed(refund(t), DOMAIN rows) /\ refund(t).token = t
    BY <2>1 DEF WellFormed
  <2> HIDE DEF refund
  <2> QED
    BY <2>2, OneIsBatch
<1>5. \/ Ask(clears)
      \/ \E t \in Tokens : FreshToken(t) /\ Ask(clears \o <<refund(t)>>)
  BY DEF OnDisconnectedBountiesLoaded
<1> HIDE DEF clears, refund
<1>6. Asked
  BY <1>3, <1>4, <1>5, PlainThenBatch, AskedPlain, AskedFresh
<1>7. TypeOK'
  BY DEF OnDisconnectedBountiesLoaded, EscrowInv, TypeOK, tables, world, bounds
<1>8. UNCHANGED rows
  BY DEF OnDisconnectedBountiesLoaded, tables
<1> QED
  BY <1>1, <1>6, <1>7, <1>8, MainThreadKeeps

(* The second half of the progress pass.                                   *)
LEMMA TargetsKeep ==
    ASSUME BountiesAssumption, EscrowInv, OnBountyProgressTargetsLoaded
    PROVE  EscrowInv'
<1> DEFINE present == {p \in Head(results).value : Playing(p)}
           progress(t, counted) ==
                [op |-> "progress", now |-> clock, token |-> t, counted |-> counted,
                 current |-> [p \in present |-> played[p]]]
<1>1. results # << >> /\ results' = Tail(results) /\ Head(results).request.op = "targets"
  BY DEF OnBountyProgressTargetsLoaded, Taken
<1>2. present \subseteq Players
  BY <1>1, FirstAnswer DEF Answered
<1>3. ASSUME NEW t \in Tokens, NEW counted
      PROVE  Batch(<<progress(t, counted)>>, t, DOMAIN rows)
  <2>1. [p \in present |-> played[p]] \in [present -> Nat]
    BY <1>2 DEF EscrowInv, TypeOK
  <2> HIDE DEF present
  <2>2. WellFormed(progress(t, counted), DOMAIN rows) /\ progress(t, counted).token = t
    BY <2>1 DEF WellFormed
  <2> HIDE DEF progress
  <2> QED
    BY <2>2, OneIsBatch
<1>4. \/ UNCHANGED queue
      \/ \E t \in Tokens, counted \in BOOLEAN :
            FreshToken(t) /\ Ask(<<progress(t, counted)>>)
  BY DEF OnBountyProgressTargetsLoaded
<1> HIDE DEF progress
<1>5. Asked
  BY <1>3, <1>4, AskedFresh DEF Asked
<1>6. TypeOK'
  BY DEF OnBountyProgressTargetsLoaded, EscrowInv, TypeOK, tables, world, bounds
<1>7. UNCHANGED rows
  BY DEF OnBountyProgressTargetsLoaded, tables
<1> QED
  BY <1>1, <1>5, <1>6, <1>7, MainThreadKeeps

LEMMA CandidateKeeps ==
    ASSUME BountiesAssumption, EscrowInv, OnAutomaticBountyCandidateSelected
    PROVE  EscrowInv'
<1> DEFINE auto(p) == [op |-> "auto", target |-> p, now |-> clock, played |-> played[p]]
<1>1. results # << >> /\ results' = Tail(results) /\ Head(results).request.op = "candidate"
  BY DEF OnAutomaticBountyCandidateSelected, Taken
<1>2. Head(results).value \subseteq Players
  BY <1>1, FirstAnswer DEF Answered
<1>3. ASSUME NEW p \in Players
      PROVE  Plain(<<auto(p)>>, DOMAIN rows)
  <2>1. clock \in Nat /\ played[p] \in Nat
    BY DEF EscrowInv, TypeOK, BountiesAssumption
  <2>2. WellFormed(auto(p), DOMAIN rows) /\ auto(p).op \notin Settling
    BY <2>1 DEF WellFormed, Settling
  <2> HIDE DEF auto
  <2> QED
    BY <2>2, OneIsPlain
<1>4. UNCHANGED queue \/ \E p \in Players : Ask(<<auto(p)>>)
  BY <1>2 DEF OnAutomaticBountyCandidateSelected
<1> HIDE DEF auto
<1>5. Asked
  BY <1>3, <1>4, AskedPlain DEF Asked
<1>6. TypeOK'
  BY DEF OnAutomaticBountyCandidateSelected, EscrowInv, TypeOK, tables, world, bounds
<1>7. UNCHANGED rows
  BY DEF OnAutomaticBountyCandidateSelected, tables
<1> QED
  BY <1>1, <1>5, <1>6, <1>7, MainThreadKeeps

(* The worker: what it takes from the queue, does to the tables, answers.  *)
LEMMA ExecuteKeeps ==
    ASSUME BountiesAssumption, EscrowInv, Execute
    PROVE  /\ WellFormed(Head(queue), DOMAIN rows)
           /\ EscrowInv'
<1> DEFINE req == Head(queue)
<1>1. queue # << >> /\ queue' = Tail(queue)
  BY DEF Execute
<1>2. /\ IsSeq(Tail(queue)) /\ req = queue[1] /\ 1 \in DOMAIN queue
      /\ \A i \in DOMAIN Tail(queue) :
            i + 1 \in DOMAIN queue /\ Tail(queue)[i] = queue[i + 1] /\ i \in Nat \ {0}
  BY <1>1, TailIsSeq DEF EscrowInv, Sound
<1>3. WellFormed(req, DOMAIN rows)
  BY <1>2 DEF EscrowInv, Sound
<1>4. Typed
  BY DEF EscrowInv, TypeOK, Typed
<1>5. Kept(req)
  <2>1. Statement(req) \/ UNCHANGED tables
    BY DEF Execute
  <2> QED
    BY <1>3, <1>4, <2>1, StatementKept, IdleKept
<1>6. TypeOK'
  <2>1. failures' \in Nat
    <3>1. failures' = failures \/ failures' = failures + 1
      BY Zenon DEF Execute
    <3> QED
      BY <3>1 DEF EscrowInv, TypeOK
  <2> QED
    BY <1>5, <2>1 DEF Execute, EscrowInv, TypeOK, world, pending, Kept
<1>7. Sound(queue', DOMAIN rows')
  <2>1. ASSUME NEW i \in DOMAIN Tail(queue)
        PROVE  WellFormed(Tail(queue)[i], DOMAIN rows')
    BY <1>2, <1>5 DEF EscrowInv, Sound, WellFormed, Kept
  <2> QED
    BY <1>1, <1>2, <2>1 DEF Sound
<1>8. TokensAreOurs'
  <2>1. ASSUME NEW i \in DOMAIN queue, queue[i].op \in Settling, i # 1,
               NEW b \in DOMAIN rows'
        PROVE  rows'[b].token # queue[i].token
    <3>1. queue[i].token \in Tokens /\ queue[i].token # Noone
      BY <2>1 DEF EscrowInv, Sound, WellFormed, Tokens, Noone
    <3>2. req.op \in Settling => req.token # queue[i].token
      BY <1>2, <2>1 DEF EscrowInv, TokensAreOurs
    <3> QED
      BY <1>5, <2>1, <3>1, <3>2 DEF Kept, EscrowInv, TokensAreOurs
  <2>2. ASSUME NEW i \in DOMAIN Tail(queue), Tail(queue)[i].op \in Settling
        PROVE  \A b \in DOMAIN rows' : rows'[b].token # Tail(queue)[i].token
    <3>1. i + 1 \in DOMAIN queue /\ Tail(queue)[i] = queue[i + 1] /\ i + 1 # 1
      BY <1>2
    <3> QED
      BY <2>1, <2>2, <3>1
  <2>3. ASSUME NEW i \in DOMAIN Tail(queue), Tail(queue)[i].op \in Settling,
               NEW j \in DOMAIN Tail(queue), Tail(queue)[j].op \in Settling, i # j
        PROVE  Tail(queue)[i].token # Tail(queue)[j].token
    <3>1. /\ i + 1 \in DOMAIN queue /\ Tail(queue)[i] = queue[i + 1]
          /\ j + 1 \in DOMAIN queue /\ Tail(queue)[j] = queue[j + 1] /\ i + 1 # j + 1
      BY <1>2, <2>3
    <3> QED
      BY <2>3, <3>1 DEF EscrowInv, TokensAreOurs
  <2> QED
    BY <1>1, <2>2, <2>3 DEF TokensAreOurs
<1>9. AnswersAreSound'
  <2>1. IsSeq(results)
    BY DEF EscrowInv, AnswersAreSound
  <2>2. \A i \in DOMAIN results : Answered(results[i], DOMAIN rows')
    BY <1>5 DEF EscrowInv, AnswersAreSound, Answered, Kept
  <2>3. ASSUME NEW value, NEW ok, value = Selected(req) \/ value = {}
        PROVE  Answered([request |-> req, ok |-> ok, value |-> value], DOMAIN rows')
    <3>1. CASE value = {}
      BY <3>1 DEF Answered
    <3>2. CASE value = Selected(req) /\ req.op = "overdue"
      BY <1>5, <3>2 DEF Answered, Selected, Active, Kept
    <3>3. CASE value = Selected(req) /\ req.op = "targets"
      <4>1. \A b \in DOMAIN rows : rows[b].target \in Players
        BY <1>4, RowsAreFinite DEF Typed, Rows
      <4> QED
        BY <3>3, <4>1 DEF Answered, Selected, ActiveTargets, Active
    <3>4. CASE value = Selected(req) /\ req.op = "candidate"
      BY <1>3, <3>4 DEF Answered, Selected, WellFormed
    <3> QED
      BY <2>3, <3>1, <3>2, <3>3, <3>4 DEF Answered
  <2>4. PICK value, ok : /\ value = Selected(req) \/ value = {}
                         /\ Answer(req, ok, value)
    BY DEF Execute
  <2> DEFINE new == [request |-> req, ok |-> ok, value |-> value]
  <2>5. Answered(new, DOMAIN rows')
    BY <2>3, <2>4
  <2>6. results' = results \/ results' = Append(results, new)
    BY <2>4 DEF Answer
  <2> HIDE DEF new
  <2>7. /\ IsSeq(Append(results, new))
        /\ \A i \in DOMAIN Append(results, new) :
              \/ i \in DOMAIN results /\ Append(results, new)[i] = results[i]
              \/ Append(results, new)[i] = new
    BY <2>1, AppendIsSeq
  <2> QED
    BY <2>1, <2>2, <2>5, <2>6, <2>7 DEF AnswersAreSound
<1> QED
  BY <1>3, <1>6, <1>7, <1>8, <1>9 DEF EscrowInv

LEMMA EscrowInvInit ==
    ASSUME BountiesAssumption, Init
    PROVE  EscrowInv
<1>1. TypeOK
  <2>1. rows \in Seq(Rows)
    BY DEF Init
  <2>2. clock \in 1..(MaxClock + 1)
    BY DEF Init, BountiesAssumption
  <2>3. /\ seat \in [Players -> {"away", "authorized", "playing"}]
        /\ played \in [Players -> Nat] /\ leftAt \in [Players -> Nat]
        /\ gems \in [Players -> Nat]
    BY DEF Init, BountiesAssumption
  <2>4. /\ expiryPending \in BOOLEAN /\ progressPending \in BOOLEAN
        /\ refundPending \in BOOLEAN /\ automaticPending \in BOOLEAN
        /\ moves \in Nat /\ failures \in Nat
    BY DEF Init
  <2> QED
    BY <2>1, <2>2, <2>3, <2>4 DEF TypeOK
<1>2. Sound(queue, DOMAIN rows)
  BY NoneIsPlain DEF Init, Plain
<1>3. AnswersAreSound /\ TokensAreOurs
  BY NoneIsSeq DEF Init, AnswersAreSound, TokensAreOurs
<1> QED
  BY <1>1, <1>2, <1>3 DEF EscrowInv

LEMMA EscrowInvStep ==
    ASSUME BountiesAssumption, EscrowInv, [Next]_vars
    PROVE  EscrowInv'
<1>1. CASE UNCHANGED vars
  BY <1>1 DEF vars, world, pending, tables, bounds, EscrowInv, TypeOK, AnswersAreSound,
        TokensAreOurs
<1>2. CASE Next
  <2>1. /\ Travellers \subseteq Players /\ Hunted \subseteq Players /\ Fighters \subseteq Players
    BY DEF BountiesAssumption
  <2>2. ASSUME NEW p, p \in Travellers,
               OnClientAuthorized(p) \/ OnClientPutInServer(p) \/ OnClientDisconnect(p)
        PROVE  EscrowInv'
    BY <2>1, <2>2, PlayersKeep
  <2>3. ASSUME NEW p, p \in Hunted, PlayOn(p)
        PROVE  EscrowInv'
    BY <2>1, <2>3, PlayersKeep
  <2>4. ASSUME NEW s, s \in Placers, NEW p, p \in Hunted, NEW n, n \in Stakes,
               QueueBountyPlacement(s, p, n)
        PROVE  EscrowInv'
    BY <2>4, PlacementKeeps
  <2>5. ASSUME NEW a, a \in Fighters, NEW v, v \in Players, NEW dominated, NEW growing,
               growing \in Growing(a, v), Event_BountyPlayerDeath(a, v, growing, dominated)
        PROVE  EscrowInv'
    <3>1. a \in Players /\ IsSeq(growing)
      BY <2>1, <2>5, GrowingIsSeq
    <3> QED
      BY <2>5, <3>1, DeathKeeps
  <2>6. ASSUME Deliver
        PROVE  EscrowInv'
    BY <2>6, ReportKeeps, OverdueKeeps, TargetsKeep, CandidateKeeps DEF Deliver
  <2> QED
    BY <1>2, <2>2, <2>3, <2>4, <2>5, <2>6, TickKeeps, MaintenanceKeeps, RoundKeeps,
        ExecuteKeeps, Zenon DEF Next
<1> QED
  BY <1>1, <1>2

LEMMA EscrowInvariant == Spec => []EscrowInv
BY EscrowInvInit, EscrowInvStep, BountiesAssumption, PTL DEF Spec

(* The rows hold what the database may hold, and no balance, stake, bonus  *)
(* or progress ever falls below zero, however placements, settlements and  *)
(* growth interleave.                                                      *)
THEOREM BountyTypes == Spec => []TypeOK
<1>1. EscrowInv => TypeOK
  BY DEF EscrowInv
<1> QED
  BY <1>1, EscrowInvariant, PTL

------------------------------------------------------------------------------
(* Every step is a step of the escrow or changes nothing it sees.          *)

Bounty(row) ==
    [sender |-> row.sender, target |-> row.target, amount |-> row.amount,
     bonus |-> row.bonus, status |-> row.status, payee |-> row.payee]
Book == [b \in DOMAIN rows |-> Bounty(rows[b])]

Follows == [UNCHANGED Escrow!vars \/ Escrow!Next]_(Escrow!vars)

LEMMA SameBook ==
    ASSUME Book' = Book, UNCHANGED gems
    PROVE  Follows
BY DEF Follows, Escrow!vars, Book, Bounty

PayoutSums(outcome, S, g) ==
    g = [s \in SUBSET S |-> IF s = {} THEN 0
            ELSE Escrow!Payout(Book[CHOOSE x \in s : TRUE], outcome)
                    + g[s \ {CHOOSE x \in s : TRUE}]]
PayoutOf(outcome, S) == (CHOOSE g : PayoutSums(outcome, S, g))[S]

(* A refund pays stakes, a claim or a survival stakes and growth.          *)
LEMMA PayoutTotals ==
    ASSUME Typed, NEW S \in SUBSET DOMAIN rows, NEW outcome
    PROVE  PayoutOf(outcome, S) = IF outcome \in Escrow!Returned THEN AmountOf(S) ELSE WorthOf(S)
<1> DEFINE f == [b \in S |-> Escrow!Payout(Book[b], outcome)]
<1>1. IsFiniteSet(S) /\ \A b \in S : rows[b] \in Rows
  BY RowsAreFinite DEF Typed
<1>2. ASSUME NEW b \in S
      PROVE  /\ rows[b].amount \in Nat /\ rows[b].bonus \in Nat
             /\ Escrow!Payout(Book[b], outcome) =
                    IF outcome \in Escrow!Returned THEN rows[b].amount ELSE Worth(b)
             /\ Escrow!Payout(Book[b], outcome) \in Nat
  <2>1. b \in DOMAIN rows /\ rows[b].amount \in Nat /\ rows[b].bonus \in Nat
    BY <1>1 DEF Rows
  <2>2. Book[b].amount = rows[b].amount /\ Book[b].bonus = rows[b].bonus
    BY <2>1 DEF Book, Bounty
  <2> QED
    BY <2>1, <2>2 DEF Escrow!Payout, Worth
<1>3. f \in [S -> Nat]
  BY <1>2
<1>4. ASSUME NEW g
      PROVE  Sums(f, S, g) <=> PayoutSums(outcome, S, g)
  <2>1. ASSUME NEW s \in SUBSET S, s # {}
        PROVE  f[Some(s)] = Escrow!Payout(Book[CHOOSE x \in s : TRUE], outcome)
    BY <2>1 DEF Some
  <2> HIDE DEF f
  <2>2. [s \in SUBSET S |-> IF s = {} THEN 0 ELSE f[Some(s)] + g[s \ {Some(s)}]]
        = [s \in SUBSET S |-> IF s = {} THEN 0
                ELSE Escrow!Payout(Book[CHOOSE x \in s : TRUE], outcome)
                        + g[s \ {CHOOSE x \in s : TRUE}]]
    BY <2>1 DEF Some
  <2> QED
    BY <2>2 DEF Sums, PayoutSums
<1>5. \/ outcome \in Escrow!Returned /\ f = [b \in S |-> rows[b].amount]
      \/ outcome \notin Escrow!Returned /\ f = [b \in S |-> Worth(b)]
  BY <1>2
<1> HIDE DEF f
<1>6. \E g : PayoutSums(outcome, S, g)
  BY <1>1, <1>3, <1>4, SumsExist
<1>7. PayoutSums(outcome, S, CHOOSE g : PayoutSums(outcome, S, g))
  BY <1>6
<1>8. IsTotal(f, S, PayoutOf(outcome, S))
  BY <1>4, <1>7 DEF IsTotal, PayoutOf
<1>9. CASE outcome \in Escrow!Returned /\ f = [b \in S |-> rows[b].amount]
  <2>1. IsTotal(f, S, AmountOf(S))
    BY <1>9, AmountTotals DEF Typed
  <2>2. PayoutOf(outcome, S) = AmountOf(S)
    BY <1>1, <1>3, <1>8, <2>1, TotalIsUnique
  <2> QED
    BY <1>9, <2>2
<1>10. CASE outcome \notin Escrow!Returned /\ f = [b \in S |-> Worth(b)]
  <2>1. IsTotal(f, S, WorthOf(S))
    BY <1>10, WorthTotals DEF Typed
  <2>2. PayoutOf(outcome, S) = WorthOf(S)
    BY <1>1, <1>3, <1>8, <2>1, TotalIsUnique
  <2> QED
    BY <1>10, <2>2
<1> QED
  BY <1>5, <1>9, <1>10

LEMMA NothingIsNothing ==
    ASSUME Typed
    PROVE  WorthOf({}) = 0 /\ AmountOf({}) = 0
<1>1. {} \in SUBSET DOMAIN rows
  OBVIOUS
<1>2. /\ IsTotal([b \in {} |-> Worth(b)], {}, WorthOf({}))
      /\ IsTotal([b \in {} |-> rows[b].amount], {}, AmountOf({}))
  BY <1>1, WorthTotals, AmountTotals DEF Typed
<1> QED
  BY <1>2, TotalOfNothing

(* What settling the rows in chosen does to the book.                      *)
SettledBook(chosen, outcome, claimant) ==
    [b \in DOMAIN Book |->
        IF b \in chosen
        THEN [Book[b] EXCEPT !.status = outcome,
                             !.payee = Escrow!Payee(Book[b], outcome, claimant)]
        ELSE Book[b]]
PaidTo(p, chosen, outcome, claimant) ==
    {b \in chosen : Escrow!Payee(Book[b], outcome, claimant) = p}

LEMMA SettlementFollows ==
    ASSUME Typed, NEW chosen, chosen \subseteq DOMAIN rows,
           \A b \in chosen : rows[b].status = "active",
           NEW outcome \in Escrow!Settlements, NEW claimant,
           chosen # {} => claimant \in Players,
           outcome = "claimed" => \A b, c \in chosen :
                claimant # rows[b].target /\ rows[b].target = rows[c].target,
           Book' = SettledBook(chosen, outcome, claimant),
           gems' = [p \in Players |->
                        gems[p] + PayoutOf(outcome, PaidTo(p, chosen, outcome, claimant))]
    PROVE  Follows
<1>1. CASE chosen = {}
  <2>1. \A p \in Players : PaidTo(p, chosen, outcome, claimant) = {}
    BY <1>1 DEF PaidTo
  <2>2. {} \in SUBSET DOMAIN rows
    OBVIOUS
  <2>3. PayoutOf(outcome, {}) = 0
    BY <2>2, PayoutTotals, NothingIsNothing
  <2>4. gems' = gems
    <3>1. \A p \in Players :
            PayoutOf(outcome, PaidTo(p, chosen, outcome, claimant)) = 0 /\ gems[p] \in Nat
      BY <2>1, <2>3 DEF Typed
    <3>2. gems' = [p \in Players |-> gems[p]]
      BY <3>1
    <3> QED
      BY <3>2 DEF Typed
  <2>5. Book' = Book
    BY <1>1 DEF SettledBook, Book
  <2> QED
    BY <2>4, <2>5, SameBook
<1>2. CASE chosen # {}
  <2>1. chosen \in SUBSET Escrow!Open
    BY DEF Escrow!Open
  <2>2. Escrow!Settle(chosen, outcome, claimant)
    <3>1. gems' = [p \in Players |-> gems[p] +
            Escrow!MapThenSumSet(LAMBDA b : Escrow!Payout(Book[b], outcome),
                {b \in chosen : Escrow!Payee(Book[b], outcome, claimant) = p})]
      BY DEF PayoutOf, PayoutSums, PaidTo, Escrow!MapThenSumSet, Escrow!MapThenFoldSet
    <3>2. outcome = "claimed" => \A b, c \in chosen :
            claimant # Book[b].target /\ Book[b].target = Book[c].target
      BY DEF Book, Bounty
    <3> QED
      BY <1>2, <2>1, <3>1, <3>2 DEF Escrow!Settle, SettledBook, Book, Bounty
  <2>3. Escrow!Next
    BY <1>2, <2>1, <2>2 DEF Escrow!Next
  <2> QED
    BY <2>3 DEF Follows
<1> QED
  BY <1>1, <1>2

SettledBounty(bounty, outcome, payee) ==
    [sender |-> bounty.sender, target |-> bounty.target, amount |-> bounty.amount,
     bonus |-> bounty.bonus, status |-> outcome, payee |-> payee]

LEMMA SettledBountyIsExcept ==
    ASSUME NEW row, NEW outcome, NEW payee
    PROVE  [Bounty(row) EXCEPT !.status = outcome, !.payee = payee]
                = SettledBounty(Bounty(row), outcome, payee)
<1> DEFINE old == [Bounty(row) EXCEPT !.status = outcome, !.payee = payee]
           new == SettledBounty(Bounty(row), outcome, payee)
           Fields == {"sender", "target", "amount", "bonus", "status", "payee"}
<1>1. old = [x \in Fields |-> old[x]] /\ new = [x \in Fields |-> new[x]]
  BY DEF Bounty, SettledBounty
<1>2. /\ old["sender"] = new["sender"] /\ old["target"] = new["target"]
      /\ old["amount"] = new["amount"] /\ old["bonus"] = new["bonus"]
      /\ old["status"] = new["status"] /\ old["payee"] = new["payee"]
  BY DEF Bounty, SettledBounty
<1> HIDE DEF old, new
<1>3. \A x \in Fields : old[x] = new[x]
  BY <1>2
<1> HIDE DEF Fields
<1>4. old = new
  BY <1>1, <1>3
<1> QED
  BY <1>4 DEF old, new

LEMMA BookSettled ==
    ASSUME NEW chosen, NEW outcome, NEW claimant, DOMAIN rows' = DOMAIN rows,
           \A b \in DOMAIN rows : Bounty(rows'[b]) =
                IF b \in chosen
                THEN SettledBounty(Bounty(rows[b]), outcome,
                                   Escrow!Payee(Bounty(rows[b]), outcome, claimant))
                ELSE Bounty(rows[b])
    PROVE  Book' = SettledBook(chosen, outcome, claimant)
<1>1. Book' = [b \in DOMAIN rows |-> Bounty(rows'[b])]
  BY DEF Book
<1>2. DOMAIN Book = DOMAIN rows /\ \A b \in DOMAIN rows : Book[b] = Bounty(rows[b])
  BY DEF Book
<1>3. SettledBook(chosen, outcome, claimant) = [b \in DOMAIN rows |->
            IF b \in chosen
            THEN SettledBounty(Bounty(rows[b]), outcome,
                               Escrow!Payee(Bounty(rows[b]), outcome, claimant))
            ELSE Bounty(rows[b])]
  <2>1. ASSUME NEW b \in DOMAIN rows
        PROVE  [Book[b] EXCEPT !.status = outcome,
                               !.payee = Escrow!Payee(Book[b], outcome, claimant)]
                = SettledBounty(Bounty(rows[b]), outcome,
                                Escrow!Payee(Bounty(rows[b]), outcome, claimant))
    <3> DEFINE payee == Escrow!Payee(Bounty(rows[b]), outcome, claimant)
    <3>1. [Bounty(rows[b]) EXCEPT !.status = outcome, !.payee = payee]
            = SettledBounty(Bounty(rows[b]), outcome, payee)
      <4> HIDE DEF payee
      <4> QED
        BY SettledBountyIsExcept
    <3> QED
      BY <1>2, <3>1
  <2> QED
    BY <1>2, <2>1 DEF SettledBook
<1> QED
  BY <1>1, <1>3

LEMMA SettledRowOnBook ==
    ASSUME NEW row \in Rows, NEW outcome, NEW t, NEW payee
    PROVE  Bounty(SettledRow(row, outcome, t, payee)) = SettledBounty(Bounty(row), outcome, payee)
<1>1. DOMAIN row = {"sender", "target", "amount", "bonus", "placed", "expires", "progress",
                    "last", "disconnected", "status", "token", "payee"}
  BY DEF Rows
<1> DEFINE new == SettledRow(row, outcome, t, payee)
<1>2. /\ new.sender = row.sender /\ new.target = row.target /\ new.amount = row.amount
      /\ new.bonus = row.bonus /\ new.status = outcome /\ new.payee = payee
  BY <1>1 DEF SettledRow
<1> HIDE DEF new
<1>3. Bounty(new) = SettledBounty(Bounty(row), outcome, payee)
  BY <1>2 DEF SettledBounty, Bounty
<1> QED
  BY <1>3 DEF new

(* The account a settlement favours, and the rows that carry its token.    *)
LEMMA ClaimFollows ==
    ASSUME Typed, NEW req, NEW ids, WellFormed(req, ids), req.op = "claim",
           \A b \in DOMAIN rows : rows[b].token # req.token, ExecuteClaim(req)
    PROVE  Follows
<1> DEFINE chosen == ActiveOn(req.victim, req.now)
           Paid(p) == {b \in DOMAIN rows' : rows'[b].token = req.token /\ req.attacker = p}
<1>1. /\ chosen \subseteq DOMAIN rows
      /\ \A b \in chosen : rows[b].status = "active" /\ rows[b].target = req.victim
  BY DEF ActiveOn, Active, IsActive
<1>2. req.attacker \in Players /\ req.attacker # req.victim
  BY DEF WellFormed
<1>3. /\ gems' = [p \in Players |-> gems[p] + WorthOf(Paid(p))]
      /\ rows' = [b \in DOMAIN rows |->
            IF b \in chosen THEN SettledRow(rows[b], "claimed", req.token, req.attacker)
                            ELSE rows[b]]
  BY DEF ExecuteClaim, Settle, Resolved, Credited, WorthOf, SettledRow
<1> HIDE DEF chosen
<1>4. \A b \in DOMAIN rows : rows[b] \in Rows
  BY RowsAreFinite DEF Typed
<1>5. \A b \in DOMAIN rows : rows'[b].token = req.token <=> b \in chosen
  BY <1>3, <1>4 DEF SettledRow, Rows
<1>6. ASSUME NEW p \in Players
      PROVE  WorthOf(Paid(p)) = PayoutOf("claimed", PaidTo(p, chosen, "claimed", req.attacker))
  <2>1. Paid(p) = PaidTo(p, chosen, "claimed", req.attacker)
    BY <1>1, <1>3, <1>5 DEF PaidTo, Escrow!Payee
  <2>2. PaidTo(p, chosen, "claimed", req.attacker) \in SUBSET DOMAIN rows
    BY <1>1 DEF PaidTo
  <2> QED
    BY <2>1, <2>2, PayoutTotals DEF Escrow!Returned
<1>7. gems' = [p \in Players |->
                gems[p] + PayoutOf("claimed", PaidTo(p, chosen, "claimed", req.attacker))]
  BY <1>3, <1>6
<1>8. Book' = SettledBook(chosen, "claimed", req.attacker)
  <2>1. ASSUME NEW b \in DOMAIN rows
        PROVE  /\ Bounty(SettledRow(rows[b], "claimed", req.token, req.attacker)) =
                    SettledBounty(Bounty(rows[b]), "claimed", req.attacker)
               /\ Escrow!Payee(Bounty(rows[b]), "claimed", req.attacker) = req.attacker
    BY <1>4, SettledRowOnBook DEF Escrow!Payee
  <2> QED
    BY <1>3, <2>1, BookSettled
<1> QED
  BY <1>1, <1>2, <1>7, <1>8, SettlementFollows DEF Escrow!Settlements

LEMMA ReturnFollows ==
    ASSUME Typed, NEW t, \A b \in DOMAIN rows : rows[b].token # t,
           NEW outcome \in {"expired", "disconnected"}, NEW chosen,
           chosen \subseteq DOMAIN rows, \A b \in chosen : rows[b].status = "active",
           Refund(chosen, outcome, t)
    PROVE  Follows
<1> DEFINE Paid(p) == {b \in DOMAIN rows' : rows'[b].token = t /\ rows[b].sender = p}
           any == rows[CHOOSE b \in chosen : TRUE].target
<1>1. /\ gems' = [p \in Players |-> gems[p] + AmountOf(Paid(p))]
      /\ rows' = [b \in DOMAIN rows |->
            IF b \in chosen THEN SettledRow(rows[b], outcome, t, rows[b].sender)
                            ELSE rows[b]]
  BY DEF Refund, Settle, Resolved, Credited, AmountOf, SettledRow
<1>2. \A b \in DOMAIN rows : rows[b] \in Rows
  BY RowsAreFinite DEF Typed
<1>3. \A b \in DOMAIN rows : rows'[b].token = t <=> b \in chosen
  BY <1>1, <1>2 DEF SettledRow, Rows
<1>4. chosen # {} => any \in Players
  <2>1. chosen # {} => (CHOOSE b \in chosen : TRUE) \in DOMAIN rows
    OBVIOUS
  <2> QED
    BY <1>2, <2>1 DEF Rows
<1> HIDE DEF any
<1>5. ASSUME NEW p \in Players
      PROVE  AmountOf(Paid(p)) = PayoutOf(outcome, PaidTo(p, chosen, outcome, any))
  <2>1. Paid(p) = PaidTo(p, chosen, outcome, any)
    <3>1. \A b \in chosen : Escrow!Payee(Book[b], outcome, any) = rows[b].sender
      BY DEF Escrow!Payee, Book, Bounty
    <3> QED
      BY <1>1, <1>3, <3>1 DEF PaidTo
  <2>2. PaidTo(p, chosen, outcome, any) \in SUBSET DOMAIN rows
    BY DEF PaidTo
  <2> QED
    BY <2>1, <2>2, PayoutTotals DEF Escrow!Returned
<1>6. gems' = [p \in Players |-> gems[p] + PayoutOf(outcome, PaidTo(p, chosen, outcome, any))]
  BY <1>1, <1>5
<1>7. Book' = SettledBook(chosen, outcome, any)
  <2>1. ASSUME NEW b \in DOMAIN rows
        PROVE  /\ Bounty(SettledRow(rows[b], outcome, t, rows[b].sender)) =
                    SettledBounty(Bounty(rows[b]), outcome, rows[b].sender)
               /\ Escrow!Payee(Bounty(rows[b]), outcome, any) = rows[b].sender
    <3>1. Escrow!Payee(Bounty(rows[b]), outcome, any) = rows[b].sender
      BY DEF Escrow!Payee, Bounty
    <3> QED
      BY <1>2, <3>1, SettledRowOnBook
  <2> QED
    BY <1>1, <2>1, BookSettled
<1> QED
  BY <1>4, <1>6, <1>7, SettlementFollows DEF Escrow!Settlements

LEMMA ProgressFollows ==
    ASSUME Typed, NEW req, req.op = "progress",
           \A b \in DOMAIN rows : rows[b].token # req.token, ExecuteProgress(req)
    PROVE  Follows
<1> DEFINE chosen == Survived(req)
           Paid(p) == {b \in DOMAIN rows' : rows'[b].token = req.token /\ rows[b].target = p}
           any == rows[CHOOSE b \in chosen : TRUE].target
           measured(b) == IF b \in Measured(req)
                          THEN [rows[b] EXCEPT !.progress = Progressed(b, req),
                                               !.last = req.current[rows[b].target]]
                          ELSE rows[b]
<1>1. /\ chosen \subseteq DOMAIN rows
      /\ \A b \in chosen : rows[b].status = "active"
  BY DEF Survived, Active, IsActive
<1>2. /\ gems' = [p \in Players |-> gems[p] + WorthOf(Paid(p))]
      /\ DOMAIN rows' = DOMAIN rows
      /\ \A b \in DOMAIN rows : rows'[b] =
            IF b \in chosen THEN SettledRow(measured(b), "survived", req.token, rows[b].target)
                            ELSE measured(b)
  BY DEF ExecuteProgress, Credited, WorthOf, SettledRow
<1> HIDE DEF chosen
<1>3. \A b \in DOMAIN rows : rows[b] \in Rows
  BY RowsAreFinite DEF Typed
<1>4. ASSUME NEW b \in DOMAIN rows
      PROVE  /\ rows'[b].token = req.token <=> b \in chosen
             /\ Bounty(rows'[b]) =
                  IF b \in chosen
                  THEN SettledBounty(Bounty(rows[b]), "survived", rows[b].target)
                  ELSE Bounty(rows[b])
  <2>1. /\ Bounty(measured(b)) = Bounty(rows[b]) /\ measured(b).token = rows[b].token
        /\ DOMAIN measured(b) = DOMAIN rows[b]
    BY <1>3 DEF Bounty, Rows
  <2> HIDE DEF measured
  <2>2. rows[b].token # req.token
    OBVIOUS
  <2>3. CASE b \in chosen
    <3>1. rows'[b] = SettledRow(measured(b), "survived", req.token, rows[b].target)
      BY <1>2, <2>3
    <3>2. DOMAIN rows[b] = {"sender", "target", "amount", "bonus", "placed", "expires", "progress",
                            "last", "disconnected", "status", "token", "payee"}
      BY <1>3 DEF Rows
    <3> QED
      BY <2>1, <2>3, <3>1, <3>2 DEF SettledRow, SettledBounty, Bounty
  <2>4. CASE b \notin chosen
    BY <1>2, <2>1, <2>2, <2>4
  <2> QED
    BY <2>3, <2>4
<1> HIDE DEF measured
<1>5. chosen # {} => any \in Players
  <2>1. chosen # {} => (CHOOSE b \in chosen : TRUE) \in DOMAIN rows
    BY <1>1
  <2> QED
    BY <1>3, <2>1 DEF Rows
<1> HIDE DEF any
<1>6. ASSUME NEW p \in Players
      PROVE  WorthOf(Paid(p)) = PayoutOf("survived", PaidTo(p, chosen, "survived", any))
  <2>1. Paid(p) = PaidTo(p, chosen, "survived", any)
    <3>1. \A b \in chosen : Escrow!Payee(Book[b], "survived", any) = rows[b].target
      BY <1>1 DEF Escrow!Payee, Book, Bounty
    <3> QED
      BY <1>1, <1>2, <1>4, <3>1 DEF PaidTo
  <2>2. PaidTo(p, chosen, "survived", any) \in SUBSET DOMAIN rows
    BY <1>1 DEF PaidTo
  <2> QED
    BY <2>1, <2>2, PayoutTotals DEF Escrow!Returned
<1>7. gems' = [p \in Players |-> gems[p] + PayoutOf("survived", PaidTo(p, chosen, "survived", any))]
  BY <1>2, <1>6
<1>8. Book' = SettledBook(chosen, "survived", any)
  <2>1. \A b \in DOMAIN rows : Escrow!Payee(Bounty(rows[b]), "survived", any) = rows[b].target
    BY DEF Bounty, Escrow!Payee
  <2> QED
    BY <1>2, <1>4, <2>1, BookSettled
<1> QED
  BY <1>1, <1>5, <1>7, <1>8, SettlementFollows DEF Escrow!Settlements

(* A placement debits its sender in the step that adds the bounty.         *)
LEMMA BookAppended ==
    ASSUME NEW table \in Seq(Rows), NEW row \in Rows, DOMAIN table = DOMAIN rows,
           rows \in Seq(Rows),
           \A b \in DOMAIN rows : Bounty(table[b]) = Bounty(rows[b]),
           rows' = Append(table, row)
    PROVE  Book' = Append(Book, Bounty(row))
<1> DEFINE n == Len(rows)
           S == {Bounty(rows[b]) : b \in DOMAIN rows} \union {Bounty(row)}
<1>1. n \in Nat /\ DOMAIN rows = 1..n
  BY LenProperties
<1>2. Book = [b \in 1..n |-> Bounty(rows[b])] /\ \A b \in 1..n : Bounty(rows[b]) \in S
  BY <1>1 DEF Book
<1>3. Bounty(row) \in S
  OBVIOUS
<1> HIDE DEF S
<1>4. Book \in Seq(S) /\ Len(Book) = n
  <2>1. Book \in [1..n -> S]
    BY <1>2
  <2> HIDE DEF n
  <2>2. Book \in Seq(S)
    BY <1>1, <2>1, SeqDef
  <2>3. DOMAIN Book = 1..n /\ Len(Book) \in Nat /\ DOMAIN Book = 1..Len(Book)
    BY <2>1, <2>2, LenProperties
  <2> QED
    BY <1>1, <2>2, <2>3
<1>5. /\ Append(Book, Bounty(row)) \in Seq(S) /\ Len(Append(Book, Bounty(row))) = n + 1
      /\ \A b \in 1..n : Append(Book, Bounty(row))[b] = Book[b]
      /\ Append(Book, Bounty(row))[n + 1] = Bounty(row)
  BY <1>3, <1>4, AppendProperties
<1>6. /\ rows' \in Seq(Rows) /\ Len(rows') = n + 1
      /\ \A b \in 1..n : rows'[b] = table[b]
      /\ rows'[n + 1] = row
  <2>1. Len(table) = n
    <3>1. Len(table) \in Nat /\ DOMAIN table = 1..Len(table)
      BY LenProperties
    <3> HIDE DEF n
    <3> QED
      BY <1>1, <3>1
  <2> QED
    BY <2>1, AppendProperties
<1>7. DOMAIN rows' = 1..(n + 1) /\ DOMAIN Append(Book, Bounty(row)) = 1..(n + 1)
  BY <1>5, <1>6, LenProperties
<1>8. Book' = [b \in 1..(n + 1) |-> Bounty(rows'[b])]
  BY <1>7 DEF Book
<1>9. \A b \in 1..(n + 1) : Bounty(rows'[b]) = Append(Book, Bounty(row))[b]
  <2> HIDE DEF n
  <2> TAKE b \in 1..(n + 1)
  <2>1. b \in 1..n \/ b = n + 1
    BY <1>1
  <2> QED
    BY <1>1, <1>2, <1>5, <1>6, <2>1
<1>10. Append(Book, Bounty(row)) = [b \in 1..(n + 1) |-> Append(Book, Bounty(row))[b]]
  <2> DEFINE m == n + 1
             longer == Append(Book, Bounty(row))
  <2>1. longer \in Seq(S) /\ DOMAIN longer = 1..m
    BY <1>5, <1>7
  <2> HIDE DEF m, longer
  <2>2. longer = [b \in 1..m |-> longer[b]]
    BY <2>1
  <2> QED
    BY <2>2 DEF m, longer
<1> QED
  BY <1>8, <1>9, <1>10

LEMMA PlaceFollows ==
    ASSUME BountiesAssumption, Typed, NEW req, NEW ids, WellFormed(req, ids),
           req.op = "place", ExecutePlace(req)
    PROVE  Follows
<1> DEFINE progress == MergedProgress(req.target, req.amount, req.now)
           table == AlignedStack(req, progress)
           row == NewRow(req.sender, req, req.amount, progress)
<1>1. CASE UNCHANGED tables
  BY <1>1, SameBook DEF tables, Book
<1>2. CASE /\ CanPlace(req) /\ gems' = [gems EXCEPT ![req.sender] = @ - req.amount]
           /\ rows' = Append(table, row)
  <2>1. /\ req.sender \in Players /\ req.target \in Players /\ req.sender # req.target
        /\ req.amount \in Stakes /\ req.amount \in Nat \ {0} /\ req.now \in Nat /\ req.played \in Nat
    BY DEF WellFormed, BountiesAssumption
  <2>2. progress \in Nat
    BY <2>1, MergedIsNumber
  <2> HIDE DEF progress
  <2>3. row \in Rows
    BY <2>1, <2>2, NewRowTyped DEF Senders
  <2>4. ASSUME NEW b \in DOMAIN rows
        PROVE  table[b] \in Rows /\ Bounty(table[b]) = Bounty(rows[b])
    <3>1. rows[b] \in Rows
      BY RowsAreFinite DEF Typed
    <3> QED
      BY <2>1, <2>2, <3>1 DEF AlignedStack, Rows, Bounty
  <2>5. table = [b \in DOMAIN rows |-> table[b]]
    BY DEF AlignedStack
  <2>6. Bounty(row) = [sender |-> req.sender, target |-> req.target, amount |-> req.amount,
                       bonus |-> 0, status |-> "active", payee |-> System]
    BY DEF NewRow, Bounty
  <2> HIDE DEF table, row
  <2>7. table \in Seq(Rows) /\ DOMAIN table = DOMAIN rows
    BY <2>4, <2>5, RewriteTyped DEF Typed
  <2>8. Book' = Append(Book, Bounty(row))
    BY <1>2, <2>3, <2>4, <2>7, BookAppended DEF Typed
  <2>9. Escrow!Place(req.sender, req.target, req.amount)
    <3>1. gems' = [p \in Players |->
                    IF p = req.sender THEN gems[p] - req.amount ELSE gems[p]]
      BY <1>2, <2>1 DEF Typed
    <3>2. gems[req.sender] >= req.amount
      BY <1>2 DEF CanPlace
    <3> QED
      BY <2>1, <2>6, <2>8, <3>1, <3>2 DEF Escrow!Place, Book, Bounty
  <2>10. Escrow!Next
    BY <2>1, <2>9 DEF Escrow!Next
  <2> QED
    BY <2>10 DEF Follows
<1> QED
  BY <1>1, <1>2 DEF ExecutePlace

LEMMA AutoFollows ==
    ASSUME BountiesAssumption, Typed, NEW req, NEW ids, WellFormed(req, ids),
           req.op = "auto", ExecuteAuto(req)
    PROVE  Follows
<1> DEFINE row == NewRow(System, req, AutoStake, 0)
<1>1. CASE UNCHANGED tables
  BY <1>1, SameBook DEF tables, Book
<1>2. CASE rows' = Append(rows, row) /\ UNCHANGED gems
  <2>1. /\ req.target \in Players /\ req.now \in Nat /\ req.played \in Nat
        /\ System \notin Players /\ AutoStake \in Nat
    BY DEF WellFormed, BountiesAssumption
  <2>2. row \in Rows
    BY <2>1, NewRowTyped DEF Senders
  <2>3. Bounty(row) = [sender |-> System, target |-> req.target, amount |-> AutoStake,
                       bonus |-> 0, status |-> "active", payee |-> System]
    BY DEF NewRow, Bounty
  <2> HIDE DEF row
  <2>4. Book' = Append(Book, Bounty(row))
    BY <1>2, <2>2, BookAppended DEF Typed
  <2>5. Escrow!Place(System, req.target, AutoStake)
    <3>1. gems' = [p \in Players |-> IF p = System THEN gems[p] - AutoStake ELSE gems[p]]
      BY <1>2, <2>1 DEF Typed
    <3> QED
      BY <2>1, <2>3, <2>4, <3>1 DEF Escrow!Place, Book, Bounty
  <2>6. Escrow!Next
    BY <2>1, <2>5 DEF Escrow!Next
  <2> QED
    BY <2>6 DEF Follows
<1> QED
  BY <1>1, <1>2 DEF ExecuteAuto, tables

LEMMA GrowFollows ==
    ASSUME BountiesAssumption, Typed, NEW req, ExecuteGrow(req)
    PROVE  Follows
<1> DEFINE First(b) == /\ b \in Growable(req.player, req.now)
                       /\ \A o \in Growable(req.player, req.now) : b <= o
           bonus(b) == LeastOf(MaxWorth - rows[b].amount, rows[b].bonus + Growth)
<1>1. /\ DOMAIN rows \subseteq Nat
      /\ \A b \in DOMAIN rows : rows[b] \in Rows
  BY RowsAreFinite DEF Typed
<1>2. /\ gems' = gems /\ DOMAIN rows' = DOMAIN rows
      /\ \A b \in DOMAIN rows : rows'[b] =
            IF First(b) THEN [rows[b] EXCEPT !.bonus = bonus(b)] ELSE rows[b]
  BY DEF ExecuteGrow
<1>3. Book' = [b \in DOMAIN rows |-> Bounty(rows'[b])]
  BY <1>2 DEF Book
<1>4. CASE \A b \in DOMAIN rows : ~First(b)
  <2>1. Book' = Book
    BY <1>2, <1>3, <1>4 DEF Book
  <2> QED
    BY <1>2, <2>1, SameBook
<1>5. ASSUME NEW b \in DOMAIN rows, First(b)
      PROVE  Follows
  <2>1. ASSUME NEW c \in DOMAIN rows, First(c)
        PROVE  c = b
    BY <1>1, <1>5, <2>1
  <2>2. /\ rows[b].status = "active" /\ rows[b].amount < MaxWorth
        /\ rows[b].amount + rows[b].bonus < MaxWorth
    BY <1>5 DEF Growable, ActiveOn, Active, IsActive, Worth
  <2>3. rows[b].amount \in Nat /\ rows[b].bonus \in Nat
    BY <1>1 DEF Rows
  <2> DEFINE n == bonus(b) - rows[b].bonus
  <2>4. /\ n \in 1..MaxWorth /\ rows[b].bonus + n = bonus(b)
        /\ rows[b].amount + rows[b].bonus + n <= MaxWorth
    BY <2>2, <2>3 DEF LeastOf, BountiesAssumption
  <2> HIDE DEF n, First
  <2>5. ASSUME NEW c \in DOMAIN rows
        PROVE  Bounty(rows'[c]) = IF c = b THEN [Bounty(rows[b]) EXCEPT !.bonus = @ + n]
                                           ELSE Bounty(rows[c])
    <3>1. CASE c = b
      <4>1. rows'[c] = [rows[b] EXCEPT !.bonus = bonus(b)]
        BY <1>2, <1>5, <3>1
      <4> HIDE DEF bonus
      <4>2. DOMAIN rows[b] = {"sender", "target", "amount", "bonus", "placed", "expires",
                "progress", "last", "disconnected", "status", "token", "payee"}
        BY <1>1 DEF Rows
      <4> QED
        BY <2>4, <3>1, <4>1, <4>2 DEF Bounty
    <3>2. CASE c # b
      BY <1>2, <2>1, <3>2
    <3> QED
      BY <3>1, <3>2
  <2>6. DOMAIN Book = DOMAIN rows /\ \A c \in DOMAIN rows : Book[c] = Bounty(rows[c])
    BY DEF Book
  <2>7. Book' = [Book EXCEPT ![b].bonus = @ + n]
    BY <1>3, <2>5, <2>6
  <2>8. Book[b].amount = rows[b].amount /\ Book[b].bonus = rows[b].bonus
        /\ Book[b].status = "active"
    BY <2>2, <2>6 DEF Bounty
  <2>9. b \in Escrow!Open
    BY <2>6, <2>8 DEF Escrow!Open, Book, Bounty
  <2>10. Escrow!Grow(b)
    BY <1>2, <2>4, <2>7, <2>8, <2>9 DEF Escrow!Grow, Book, Bounty
  <2>11. Escrow!Next
    BY <2>9, <2>10 DEF Escrow!Next
  <2> QED
    BY <2>11 DEF Follows
<1> QED
  BY <1>4, <1>5

(* When a row is marked or cleared its bounty stays the same.              *)
LEMMA MarkFollows ==
    ASSUME Typed, NEW req, ExecuteMark(req) \/ ExecuteClear(req)
    PROVE  Follows
<1>1. \A b \in DOMAIN rows : rows[b] \in Rows
  BY RowsAreFinite DEF Typed
<1>2. DOMAIN rows' = DOMAIN rows /\ gems' = gems
  BY DEF ExecuteMark, ExecuteClear
<1>3. ASSUME NEW b \in DOMAIN rows
      PROVE  Bounty(rows'[b]) = Bounty(rows[b])
  BY <1>1 DEF ExecuteMark, ExecuteClear, Bounty, Rows
<1>4. Book' = Book
  BY <1>2, <1>3 DEF Book
<1> QED
  BY <1>2, <1>4, SameBook

LEMMA StatementFollows ==
    ASSUME BountiesAssumption, Typed, NEW req, WellFormed(req, DOMAIN rows),
           req.op \in Settling => \A b \in DOMAIN rows : rows[b].token # req.token,
           Statement(req)
    PROVE  Follows
<1>1. CASE req.op = "place"
  BY <1>1, PlaceFollows DEF Statement
<1>2. CASE req.op = "auto"
  BY <1>2, AutoFollows DEF Statement
<1>3. CASE req.op = "grow"
  BY <1>3, GrowFollows DEF Statement
<1>4. CASE req.op \in {"mark", "clear"}
  BY <1>4, MarkFollows DEF Statement
<1>5. CASE req.op = "claim"
  BY <1>5, ClaimFollows DEF Statement, Settling
<1>6. CASE req.op = "expire"
  <2> DEFINE chosen == {b \in DOMAIN rows : rows[b].status = "active" /\ rows[b].expires <= req.now}
  <2>1. Refund(chosen, "expired", req.token)
    BY <1>6 DEF Statement, ExecuteExpire
  <2>2. chosen \subseteq DOMAIN rows /\ \A b \in chosen : rows[b].status = "active"
    OBVIOUS
  <2>3. \A b \in DOMAIN rows : rows[b].token # req.token
    BY <1>6 DEF Settling
  <2> HIDE DEF chosen
  <2> QED
    BY <2>1, <2>2, <2>3, ReturnFollows
<1>7. CASE req.op = "refund"
  <2>1. Refund(Refundable(req), "disconnected", req.token)
    BY <1>7 DEF Statement, ExecuteRefund
  <2>2. /\ Refundable(req) \subseteq DOMAIN rows
        /\ \A b \in Refundable(req) : rows[b].status = "active"
    BY <1>7 DEF Refundable, WellFormed
  <2>3. \A b \in DOMAIN rows : rows[b].token # req.token
    BY <1>7 DEF Settling
  <2> QED
    BY <2>1, <2>2, <2>3, ReturnFollows
<1>8. CASE req.op = "progress"
  BY <1>8, ProgressFollows DEF Statement, Settling
<1>9. CASE UNCHANGED tables
  BY <1>9, SameBook DEF tables, Book
<1> QED
  BY <1>1, <1>2, <1>3, <1>4, <1>5, <1>6, <1>7, <1>8, <1>9 DEF Statement

LEMMA StepFollows ==
    ASSUME BountiesAssumption, EscrowInv, [Next]_vars
    PROVE  Follows
<1>1. CASE Execute
  <2> DEFINE req == Head(queue)
  <2>1. WellFormed(req, DOMAIN rows)
    BY <1>1, ExecuteKeeps
  <2>2. req.op \in Settling => \A b \in DOMAIN rows : rows[b].token # req.token
    <3>1. req = queue[1] /\ 1 \in DOMAIN queue
      BY <1>1, TailIsSeq DEF Execute, EscrowInv, Sound
    <3> QED
      BY <3>1 DEF EscrowInv, TokensAreOurs
  <2>3. Statement(req) \/ UNCHANGED tables
    BY <1>1 DEF Execute
  <2>4. Typed
    BY DEF EscrowInv, TypeOK, Typed
  <2> HIDE DEF req
  <2>5. CASE UNCHANGED tables
    BY <2>5, SameBook DEF tables, Book
  <2> QED
    BY <2>1, <2>2, <2>3, <2>4, <2>5, StatementFollows
<1>2. ASSUME ~Execute
      PROVE  UNCHANGED tables
  BY <1>2, OnlyTheWorkerWrites
<1>3. CASE UNCHANGED tables
  BY <1>3, SameBook DEF tables, Book
<1> QED
  BY <1>1, <1>2, <1>3

LEMMA StartFollows ==
    ASSUME BountiesAssumption, Init
    PROVE  Escrow!Init
<1>1. gems \in [Players -> Nat]
  BY DEF Init, BountiesAssumption
<1>2. Book = << >>
  BY DEF Init, Book
<1> QED
  BY <1>1, <1>2 DEF Escrow!Init, Book, Bounty

(* The bounties implement the escrow: whichever of claim, expiry,          *)
(* disconnect refund and survival reaches a row first settles it, pays the *)
(* account and the sum that settlement is due in the same step, and no     *)
(* other pays again.  No gem is lost or paid twice, whatever the requests  *)
(* were prepared from, in whatever order they are executed or refused.     *)
THEOREM EscrowIsKept == Spec => ImplementsEscrow
<1>1. BountiesAssumption /\ Init => Escrow!Init
  BY StartFollows
<1>2. BountiesAssumption /\ EscrowInv /\ [Next]_vars
        => [UNCHANGED Escrow!vars \/ Escrow!Next]_(Escrow!vars)
  BY StepFollows DEF Follows
<1> QED
  BY <1>1, <1>2, EscrowInvariant, BountiesAssumption, PTL
  DEF Spec, ImplementsEscrow, Escrow!Spec
=============================================================================
