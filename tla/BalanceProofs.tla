---------------------------- MODULE BalanceProofs ----------------------------
(* What holds of Balance for every number of slots, accounts and packs.    *)
EXTENDS Balance, TLAPS, SequenceTheorems

USE BalanceAssumption DEF Null, Packs, Sessions

(* The amounts that move are natural numbers.                               *)
LEMMA MovementsAreNat ==
    ASSUME NEW n \in Movements PROVE n \in Nat /\ n > 0
BY DEF Movements

(* Clamping at zero yields a natural number.                                *)
LEMMA AtLeastZeroType == ASSUME NEW n \in Int PROVE AtLeastZero(n) \in Nat
BY DEF AtLeastZero

(* An upsert leaves an integer in the row.                                  *)
LEMMA UpsertedType ==
    ASSUME NEW row \in Int \union {NoRow}, NEW n \in Int
    PROVE  Upserted(row, n) \in Int
BY DEF Upserted, AtLeastZero

(* A fetched balance is an integer.                                         *)
LEMMA FetchedType ==
    ASSUME NEW row \in Int \union {NoRow} PROVE Fetched(row) \in Int
BY DEF Fetched

(* A popped queue is a shorter queue of the same kind.                     *)
LEMMA HeadTailType ==
    ASSUME NEW S, NEW q \in Seq(S), q # << >>
    PROVE  Head(q) \in S /\ Tail(q) \in Seq(S)
BY HeadTailProperties

(* The op field tells which kind of request a request is.                  *)
LEMMA RequestKind ==
    ASSUME NEW r \in Requests
    PROVE  /\ r.op = "select" => r \in Selects
           /\ r.op = "upsert" => r \in Upserts
           /\ r.op = "credit" => r \in Credits
           /\ r.op = "escrow" => r \in Escrows
BY DEF Requests, Selects, Upserts, Credits, Escrows

(* The initial state is well typed.                                         *)
LEMMA InitTypeOK == Init => TypeOK
BY DEF Init, TypeOK

(* Queueing a balance load queues a request.                                *)
LEMMA QueueSelectType ==
    ASSUME TypeOK, NEW s \in Slots, NEW a \in Accounts, NEW n \in Sessions,
           NEW p \in Nat, NEW ld \in BOOLEAN, NEW live,
           QueueSelect(s, a, n, p, ld, live)
    PROVE  /\ load' \in [Slots -> Packs \union {Null}]
           /\ reload' \in [Slots -> BOOLEAN]
           /\ queue' \in Seq(Requests)
           /\ mutated' \in [Slots -> BOOLEAN]
BY DEF QueueSelect, FreshPack, TypeOK, Requests, Selects

(* Releasing a load keeps the slots' types.                                 *)
LEMMA ReleaseLoadType ==
    ASSUME TypeOK, NEW s \in Slots, ReleaseLoad(s)
    PROVE  load' \in [Slots -> Packs \union {Null}] /\ reload' \in [Slots -> BOOLEAN]
BY DEF ReleaseLoad, TypeOK

(* Starting a load keeps the types.                                         *)
LEMMA LoadClientType ==
    ASSUME TypeOK, NEW s \in Slots, account[s] # Nobody, LoadClientBonusPoints(s)
    PROVE  /\ load' \in [Slots -> Packs \union {Null}]
           /\ reload' \in [Slots -> BOOLEAN]
           /\ queue' \in Seq(Requests)
           /\ mutated' \in [Slots -> BOOLEAN]
<1>1. CASE load[s] # Null
  BY <1>1 DEF LoadClientBonusPoints, TypeOK
<1>2. CASE load[s] = Null
  <2>1. /\ account[s] \in Accounts /\ session[s] \in Sessions
        /\ points[s] \in Nat /\ loaded[s] \in BOOLEAN
    BY DEF TypeOK
  <2>2. QueueSelect(s, account[s], session[s], points[s], loaded[s], InFlight)
    BY <1>2 DEF LoadClientBonusPoints
  <2> QED BY <2>1, <2>2, QueueSelectType
<1> QED BY <1>1, <1>2

(* The mark of a changed balance stays Boolean.                             *)
LEMMA TouchType == ASSUME TypeOK, NEW X, Touch(X) PROVE mutated' \in [Slots -> BOOLEAN]
BY DEF Touch, TypeOK

(* The causes of drift keep their type.                                     *)
LEMMA BlameType ==
    ASSUME TypeOK, NEW X, NEW c \in Causes, Blame(X, c)
    PROVE  drift' \in [Slots -> SUBSET Causes]
BY DEF Blame, TypeOK

(* The result whose callback runs next is well formed.                     *)
LEMMA NextResult ==
    ASSUME TypeOK, results # << >>
    PROVE  /\ Head(results) \in Results
           /\ Head(results).request \in Requests
           /\ Head(results).ok \in BOOLEAN /\ Head(results).value \in Int
           /\ Tail(results) \in Seq(Results)
<1>1. results \in Seq(Results)
  BY DEF TypeOK
<1>2. Head(results) \in Results /\ Tail(results) \in Seq(Results)
  BY <1>1, HeadTailType
<1> QED BY <1>2 DEF Results

(* The answer to a balance load keeps the types.                            *)
LEMMA OnLoadedTypeOK == TypeOK /\ OnClientBonusPointsLoaded => TypeOK'
<1> SUFFICES ASSUME TypeOK, OnClientBonusPointsLoaded PROVE TypeOK'
  OBVIOUS
<1> DEFINE r == Head(results)
           req == r.request
           s == req.slot
           live == InFlight \ {req}
<1>1. /\ r \in Results /\ req \in Requests /\ r.value \in Int
      /\ results' \in Seq(Results)
  BY NextResult DEF OnClientBonusPointsLoaded
<1>2. req \in Selects
  BY <1>1, RequestKind DEF OnClientBonusPointsLoaded
<1>3. s \in Slots /\ req.account \in Accounts /\ AtLeastZero(r.value) \in Nat
  BY <1>1, <1>2, AtLeastZeroType DEF Selects
<1>4. CASE UNCHANGED <<cache, loads, queue, history>>
  BY <1>1, <1>4 DEF OnClientBonusPointsLoaded, TypeOK, clients, cache, loads, history
<1>5. CASE ReleaseLoad(s) /\ UNCHANGED <<cache, queue, history>>
  <2>1. load' \in [Slots -> Packs \union {Null}] /\ reload' \in [Slots -> BOOLEAN]
    BY <1>3, <1>5, ReleaseLoadType
  <2> QED BY <1>1, <1>5, <2>1 DEF OnClientBonusPointsLoaded, TypeOK, clients, cache, history
<1>6. CASE /\ account[s] = req.account
           /\ QueueSelect(s, account[s], session[s], points[s], loaded[s], live)
           /\ UNCHANGED <<cache, drift>>
  <2>1. /\ account[s] \in Accounts /\ session[s] \in Sessions
        /\ points[s] \in Nat /\ loaded[s] \in BOOLEAN
    BY <1>3, <1>6 DEF TypeOK
  <2>2. /\ load' \in [Slots -> Packs \union {Null}]
        /\ reload' \in [Slots -> BOOLEAN]
        /\ queue' \in Seq(Requests)
        /\ mutated' \in [Slots -> BOOLEAN]
    BY <1>3, <1>6, <2>1, QueueSelectType
  <2> QED BY <1>1, <1>6, <2>2 DEF OnClientBonusPointsLoaded, TypeOK, clients, cache
<1>7. CASE account[s] = req.account /\ PublishBalance(req, r.value, live)
  <2>1. account[s] \in Accounts /\ session[s] \in Sessions
    BY <1>3, <1>7 DEF TypeOK
  <2>2. /\ load' \in [Slots -> Packs \union {Null}]
        /\ reload' \in [Slots -> BOOLEAN]
        /\ queue' \in Seq(Requests)
        /\ mutated' \in [Slots -> BOOLEAN]
    <3>1. CASE reload[s]
      BY <1>3, <1>7, <2>1, <3>1, QueueSelectType DEF PublishBalance
    <3>2. CASE ~reload[s]
      BY <1>3, <1>7, <3>2, ReleaseLoadType DEF TypeOK, PublishBalance
    <3> QED BY <3>1, <3>2
  <2>3. drift' \in [Slots -> SUBSET Causes]
    BY <1>3, <1>7 DEF TypeOK, Causes, PublishBalance
  <2>4. points' \in [Slots -> Nat] /\ loaded' \in [Slots -> BOOLEAN]
    BY <1>3, <1>7 DEF TypeOK, PublishBalance
  <2> QED BY <1>1, <2>2, <2>3, <2>4 DEF OnClientBonusPointsLoaded, TypeOK, clients
<1> HIDE DEF r, req, s, live
<1>8. \/ UNCHANGED <<cache, loads, queue, history>>
      \/ ReleaseLoad(s) /\ UNCHANGED <<cache, queue, history>>
      \/ /\ account[s] = req.account
         /\ QueueSelect(s, account[s], session[s], points[s], loaded[s], live)
         /\ UNCHANGED <<cache, drift>>
      \/ account[s] = req.account /\ PublishBalance(req, r.value, live)
  BY Zenon DEF OnClientBonusPointsLoaded, r, req, s, live
<1> QED BY <1>4, <1>5, <1>6, <1>7, <1>8

(* The answer to a credit keeps the types.                                  *)
LEMMA OnCreditTypeOK == TypeOK /\ OnCreditSaved => TypeOK'
<1> SUFFICES ASSUME TypeOK, OnCreditSaved PROVE TypeOK'
  OBVIOUS
<1> DEFINE r == Head(results)
           a == r.request.account
           ready == Credited(r)
           missed == IF r.ok THEN {s \in HoldersOf(a) : loaded[s] /\ ~inGame[s]} ELSE {}
<1>1. r \in Results /\ r.request \in Requests /\ results' \in Seq(Results)
  BY NextResult DEF OnCreditSaved
<1>2. r.request.amount \in Nat
  BY <1>1, RequestKind DEF OnCreditSaved, Credits
<1>3. points' \in [Slots -> Nat]
  <2>1. PICK n \in Nat : n = r.request.amount
    BY <1>2
  <2>2. points' = [s \in Slots |-> points[s] + (IF s \in ready THEN n ELSE 0)]
    BY <2>1 DEF OnCreditSaved
  <2>3. points \in [Slots -> Nat]
    BY DEF TypeOK
  <2> HIDE DEF r, ready
  <2>4. \A s \in Slots : points[s] + (IF s \in ready THEN n ELSE 0) \in Nat
    BY <2>3
  <2> QED BY <2>2, <2>4
<1>4. mutated' \in [Slots -> BOOLEAN]
  <2>1. Touch(ready)
    BY DEF OnCreditSaved
  <2> QED BY <2>1, TouchType
<1>5. drift' \in [Slots -> SUBSET Causes]
  <2>1. Blame(missed, "gap")
    BY DEF OnCreditSaved
  <2> QED BY <2>1, BlameType DEF Causes
<1> QED BY <1>1, <1>3, <1>4, <1>5 DEF OnCreditSaved, TypeOK, clients, loads

(* The answer to a placement keeps the types.                               *)
LEMMA OnPlacedTypeOK == TypeOK /\ OnBountyPlaced => TypeOK'
<1> SUFFICES ASSUME TypeOK, OnBountyPlaced PROVE TypeOK'
  OBVIOUS
<1> DEFINE r == Head(results)
           req == r.request
           s == req.slot
           left == points[s] - req.amount
<1>1. r \in Results /\ req \in Requests /\ results' \in Seq(Results)
  BY NextResult DEF OnBountyPlaced
<1>2. s \in Slots /\ left \in Int
  BY <1>1, RequestKind DEF OnBountyPlaced, Escrows, TypeOK
<1>3. AtLeastZero(left) \in Nat
  BY <1>2, AtLeastZeroType
<1>4. CASE UNCHANGED <<points, loads, escrowing, queue, history>>
  BY <1>1, <1>4 DEF OnBountyPlaced, TypeOK, clients, loads, history
<1>5. CASE /\ SameClient(req)
           /\ escrowing' = [escrowing EXCEPT ![s] = FALSE]
           /\ LoadClientBonusPoints(s)
           /\ UNCHANGED <<points, drift>>
  <2>1. /\ load' \in [Slots -> Packs \union {Null}]
        /\ reload' \in [Slots -> BOOLEAN]
        /\ queue' \in Seq(Requests)
        /\ mutated' \in [Slots -> BOOLEAN]
    BY <1>2, <1>5, LoadClientType DEF SameClient
  <2> QED BY <1>1, <1>2, <1>5, <2>1 DEF OnBountyPlaced, TypeOK, clients
<1>6. CASE /\ escrowing' = [escrowing EXCEPT ![s] = FALSE]
           /\ points' = [points EXCEPT ![s] = AtLeastZero(left)]
           /\ Touch({s})
           /\ Blame(IF left < 0 THEN {s} ELSE {}, "clamped")
           /\ UNCHANGED <<loads, queue>>
  <2>1. mutated' \in [Slots -> BOOLEAN] /\ drift' \in [Slots -> SUBSET Causes]
    BY <1>6, TouchType, BlameType DEF Causes
  <2> QED BY <1>1, <1>2, <1>3, <1>6, <2>1 DEF OnBountyPlaced, TypeOK, clients, loads
<1> HIDE DEF r, req, s, left
<1>7. \/ UNCHANGED <<points, loads, escrowing, queue, history>>
      \/ /\ SameClient(req)
         /\ escrowing' = [escrowing EXCEPT ![s] = FALSE]
         /\ LoadClientBonusPoints(s)
         /\ UNCHANGED <<points, drift>>
      \/ /\ escrowing' = [escrowing EXCEPT ![s] = FALSE]
         /\ points' = [points EXCEPT ![s] = AtLeastZero(left)]
         /\ Touch({s})
         /\ Blame(IF left < 0 THEN {s} ELSE {}, "clamped")
         /\ UNCHANGED <<loads, queue>>
  BY Zenon DEF OnBountyPlaced, r, req, s, left
<1> QED BY <1>4, <1>5, <1>6, <1>7

(* Only an authorized client is in game: what makes TypeOK inductive, for  *)
(* a query is never queued on behalf of an empty slot.                     *)
Seated == \A s \in Slots : inGame[s] => account[s] # Nobody

(* A slot with a ready balance seats an account.                            *)
LEMMA ReadyAccount ==
    ASSUME TypeOK, Seated, NEW s \in Slots, inGame[s] PROVE account[s] \in Accounts
BY DEF TypeOK, Seated

(* A queued upsert is a request.                                            *)
LEMMA UpsertType ==
    ASSUME NEW a \in Accounts, NEW n \in Int PROVE Upsert(a, n) \in Requests
BY DEF Upsert, Upserts, Requests

(* What clients do keeps the types.                                         *)
LEMMA ClientStepTypeOK ==
    ASSUME TypeOK, Seated, NEW s \in Slots, ClientStep(s) PROVE TypeOK'
<1>1. ASSUME NEW a \in Accounts, OnClientAuthorized(s, a) PROVE TypeOK'
  <2>1. PICK n \in Sessions :
            /\ account' = [account EXCEPT ![s] = a]
            /\ session' = [session EXCEPT ![s] = n]
            /\ points' = [points EXCEPT ![s] = 0]
            /\ loaded' = [loaded EXCEPT ![s] = FALSE]
            /\ escrowing' = [escrowing EXCEPT ![s] = FALSE]
            /\ drift' = [drift EXCEPT ![s] = {}]
            /\ QueueSelect(s, a, n, 0, FALSE, InFlight)
    BY <1>1 DEF OnClientAuthorized
  <2>2. /\ load' \in [Slots -> Packs \union {Null}]
        /\ reload' \in [Slots -> BOOLEAN]
        /\ queue' \in Seq(Requests)
        /\ mutated' \in [Slots -> BOOLEAN]
    BY <2>1, QueueSelectType
  <2> QED BY <1>1, <2>1, <2>2 DEF OnClientAuthorized, TypeOK
<1>2. ASSUME OnClientPutInServer(s) PROVE TypeOK'
  BY <1>2 DEF OnClientPutInServer, TypeOK, cache, loads, channel, history
<1>3. ASSUME OnClientDisconnect(s) PROVE TypeOK'
  BY <1>3 DEF OnClientDisconnect, ReleaseLoad, TypeOK, channel
<1>4. ASSUME AskForBalance(s) PROVE TypeOK'
  <2>1. LoadClientBonusPoints(s) /\ account[s] # Nobody
    BY <1>4 DEF AskForBalance, Seated
  <2> QED BY <1>4, <2>1, LoadClientType DEF AskForBalance, TypeOK, clients, cache
<1>5. ASSUME NEW n \in Int, ApplyBonusPointsNow(s, n) PROVE TypeOK'
  <2>1. Upsert(account[s], n) \in Requests
    BY <1>5, ReadyAccount, UpsertType DEF ApplyBonusPointsNow, AreBonusPointsReady
  <2>2. queue' \in Seq(Requests)
    BY <1>5, <2>1 DEF ApplyBonusPointsNow, TypeOK
  <2>3. points' \in [Slots -> Nat]
    <3>1. AtLeastZero(points[s] + n) \in Nat
      BY DEF TypeOK, AtLeastZero
    <3>2. points' = [points EXCEPT ![s] = AtLeastZero(points[s] + n)]
      BY <1>5 DEF ApplyBonusPointsNow
    <3> QED BY <3>1, <3>2 DEF TypeOK
  <2>4. mutated' \in [Slots -> BOOLEAN]
    BY <1>5, TouchType DEF ApplyBonusPointsNow
  <2>5. moves' \in Nat
    BY <1>5 DEF ApplyBonusPointsNow, CountMove, TypeOK
  <2> QED BY <1>5, <2>2, <2>3, <2>4, <2>5 DEF ApplyBonusPointsNow, TypeOK, clients, loads
<1>6. ASSUME NEW t \in Slots, NEW n \in StealAmounts, StealBonusPoints(s, t, n)
      PROVE  TypeOK'
  <2> DEFINE actual == Stealable(s, n)
  <2>1. actual \in Nat /\ n \in Nat /\ points[s] - actual \in Nat
    BY <1>6 DEF TypeOK, Stealable
  <2>2. Upsert(account[s], -actual) \in Requests /\ Upsert(account[t], actual) \in Requests
    BY <1>6, <2>1, ReadyAccount, UpsertType DEF StealBonusPoints, AreBonusPointsReady
  <2> HIDE DEF actual
  <2>3. queue' = queue \o << Upsert(account[s], -actual), Upsert(account[t], actual) >>
    BY <1>6 DEF StealBonusPoints, actual
  <2>4. queue' \in Seq(Requests)
    <3>1. << Upsert(account[s], -actual), Upsert(account[t], actual) >> \in Seq(Requests)
      BY <2>2
    <3>2. queue \in Seq(Requests)
      BY DEF TypeOK
    <3> QED BY <2>3, <3>1, <3>2, ConcatProperties
  <2>5. points' \in [Slots -> Nat]
    <3>1. points[t] + actual \in Nat
      BY <2>1 DEF TypeOK
    <3>2. s # t /\ points' = [points EXCEPT ![s] = points[s] - actual, ![t] = points[t] + actual]
      BY <1>6 DEF StealBonusPoints, actual
    <3> QED BY <2>1, <3>1, <3>2 DEF TypeOK
  <2>6. mutated' \in [Slots -> BOOLEAN]
    BY <1>6, TouchType DEF StealBonusPoints
  <2>7. moves' \in Nat
    BY <1>6 DEF StealBonusPoints, CountMove, TypeOK
  <2> QED BY <1>6, <2>4, <2>5, <2>6, <2>7 DEF StealBonusPoints, TypeOK, clients, loads
<1>7. ASSUME NEW n \in EscrowAmounts, QueueBountyPlacement(s, n) PROVE TypeOK'
  <2>1. account[s] \in Accounts /\ session[s] \in Sessions /\ n \in Nat
    BY <1>7, ReadyAccount DEF QueueBountyPlacement, AreBonusPointsReady, TypeOK
  <2>2. [op |-> "escrow", slot |-> s, session |-> session[s],
         account |-> account[s], amount |-> n] \in Requests
    BY <2>1 DEF Requests, Escrows
  <2>3. queue' \in Seq(Requests)
    BY <1>7, <2>2 DEF QueueBountyPlacement, TypeOK
  <2>4. moves' \in Nat
    BY <1>7 DEF QueueBountyPlacement, CountMove, TypeOK
  <2> QED BY <1>7, <2>3, <2>4 DEF QueueBountyPlacement, TypeOK, clients, cache, loads, history
<1>8. ASSUME NEW n \in SpendAmounts, ApplyBonusPointsNow(s, -n) PROVE TypeOK'
  <2>1. -n \in Int
    OBVIOUS
  <2> QED BY <1>5, <1>8, <2>1
<1> QED BY <1>1, <1>2, <1>3, <1>4, <1>5, <1>6, <1>7, <1>8 DEF ClientStep

(* Queueing a credit keeps the types.                                       *)
LEMMA QueueCreditTypeOK ==
    ASSUME TypeOK, NEW a \in Accounts, NEW n \in CreditAmounts, QueueCredit(a, n)
    PROVE  TypeOK'
<1>1. [op |-> "credit", account |-> a, amount |-> n] \in Requests
  BY DEF Requests, Credits
<1>2. queue' \in Seq(Requests) /\ moves' \in Nat
  BY <1>1 DEF QueueCredit, CountMove, TypeOK
<1> QED BY <1>2 DEF QueueCredit, TypeOK, clients, cache, loads, history

(* The next result has the type of a result.                                *)
LEMMA ResultType ==
    ASSUME TypeOK, NEW req \in Requests, NEW ok \in BOOLEAN, NEW v \in Int
    PROVE  Append(results, [request |-> req, ok |-> ok, value |-> v]) \in Seq(Results)
<1>1. [request |-> req, ok |-> ok, value |-> v] \in Results
  BY DEF Results
<1>2. results \in Seq(Results)
  BY DEF TypeOK
<1> QED BY <1>1, <1>2, AppendProperties

(* The worker keeps the types.                                              *)
LEMMA ExecuteTypeOK == TypeOK /\ Execute => TypeOK'
<1> SUFFICES ASSUME TypeOK, Execute PROVE TypeOK'
  OBVIOUS
<1> DEFINE req == Head(queue)
<1>1. req \in Requests /\ queue' \in Seq(Requests) /\ req.account \in Accounts
  <2>1. queue \in Seq(Requests) /\ queue # << >>
    BY DEF TypeOK, Execute
  <2>2. req \in Requests /\ queue' \in Seq(Requests)
    BY <2>1, HeadTailType DEF Execute
  <2> QED BY <2>2 DEF Requests, Selects, Upserts, Credits, Escrows
<1>2. req.op \in {"select", "upsert", "credit", "escrow"}
  BY <1>1 DEF Requests, Selects, Upserts, Credits, Escrows
<1> HIDE DEF req
<1>4. ASSUME Accept(req)
      PROVE  /\ balance' \in [Accounts -> Int \union {NoRow}]
             /\ results' \in Seq(Results)
             /\ drift' \in [Slots -> SUBSET Causes]
             /\ failures' \in Nat
  <2>1. balance[req.account] \in Int \union {NoRow} /\ failures' \in Nat
    BY <1>1, <1>4 DEF TypeOK, Accept
  <2>2. CASE req.op = "select"
    <3>1. Fetched(balance[req.account]) \in Int
      BY <2>1, FetchedType
    <3>2. results' = Append(results, [request |-> req, ok |-> TRUE,
                                      value |-> Fetched(balance[req.account])])
          /\ balance' = balance /\ drift' = drift
      BY <1>4, <2>2 DEF Accept
    <3>3. results' \in Seq(Results)
      BY <1>1, <3>1, <3>2, ResultType
    <3> QED BY <2>1, <3>2, <3>3 DEF TypeOK
  <2>3. CASE req.op = "upsert"
    <3>1. req.amount \in Int
      BY <1>1, <2>3, RequestKind DEF Upserts
    <3>2. Upserted(balance[req.account], req.amount) \in Int
      BY <2>1, <3>1, UpsertedType
    <3>3. balance' = [balance EXCEPT ![req.account] =
                          Upserted(balance[req.account], req.amount)]
          /\ results' = results
      BY <1>4, <2>3 DEF Accept
    <3>4. drift' \in [Slots -> SUBSET Causes]
      BY <1>4, <2>3, BlameType DEF Accept, Causes
    <3> QED BY <1>1, <2>1, <3>2, <3>3, <3>4 DEF TypeOK
  <2>4. CASE req.op = "credit"
    <3>1. req.amount \in Int
      BY <1>1, <2>4, RequestKind DEF Credits
    <3>2. Upserted(balance[req.account], req.amount) \in Int
      BY <2>1, <3>1, UpsertedType
    <3>3. /\ balance' = [balance EXCEPT ![req.account] =
                            Upserted(balance[req.account], req.amount)]
          /\ results' = Append(results, [request |-> req, ok |-> TRUE, value |-> 0])
          /\ drift' = drift
      BY <1>4, <2>4 DEF Accept
    <3>4. results' \in Seq(Results)
      <4>1. 0 \in Int /\ TRUE \in BOOLEAN
        OBVIOUS
      <4> QED BY <1>1, <3>3, <4>1, ResultType
    <3>5. balance' \in [Accounts -> Int \union {NoRow}]
      BY <1>1, <3>2, <3>3 DEF TypeOK
    <3> QED BY <2>1, <3>3, <3>4, <3>5 DEF TypeOK
  <2>5. CASE req.op = "escrow"
    <3>1. req.amount \in Nat
      BY <1>1, <2>5, RequestKind DEF Escrows
    <3> DEFINE row == balance[req.account]
               fits(admitted) == admitted /\ row # NoRow /\ row >= req.amount
    <3>2. PICK admitted \in BOOLEAN :
            /\ balance' = [balance EXCEPT ![req.account] =
                                IF fits(admitted) THEN row - req.amount ELSE row]
            /\ results' = Append(results, [request |-> req, ok |-> TRUE,
                                           value |-> IF fits(admitted) THEN 1 ELSE 0])
            /\ UNCHANGED drift
      BY <1>4, <2>5 DEF Accept
    <3>3. (IF fits(admitted) THEN row - req.amount ELSE row) \in Int \union {NoRow}
      BY <2>1, <3>1
    <3>4. (IF fits(admitted) THEN 1 ELSE 0) \in Int
      OBVIOUS
    <3> HIDE DEF row, fits
    <3>5. results' \in Seq(Results)
      BY <1>1, <3>2, <3>4, ResultType
    <3>6. balance' \in [Accounts -> Int \union {NoRow}]
      BY <1>1, <3>2, <3>3 DEF TypeOK
    <3> QED BY <2>1, <3>2, <3>5, <3>6 DEF TypeOK
  <2> QED BY <1>2, <2>2, <2>3, <2>4, <2>5
<1>5. ASSUME Refuse(req)
      PROVE  /\ balance' \in [Accounts -> Int \union {NoRow}]
             /\ results' \in Seq(Results)
             /\ drift' \in [Slots -> SUBSET Causes]
             /\ failures' \in Nat
  <2>1. balance' = balance /\ failures' = failures + 1
    BY <1>5 DEF Refuse
  <2>2. CASE req.op = "upsert"
    BY <1>5, <2>1, <2>2, BlameType DEF Refuse, TypeOK, Causes
  <2>3. CASE req.op # "upsert"
    <3>1. results' = Append(results, [request |-> req, ok |-> FALSE, value |-> 0])
          /\ drift' = drift
      BY <1>5, <2>3 DEF Refuse
    <3>2. results' \in Seq(Results)
      <4>1. 0 \in Int /\ FALSE \in BOOLEAN
        OBVIOUS
      <4> QED BY <1>1, <3>1, <4>1, ResultType
    <3> QED BY <2>1, <3>1, <3>2 DEF TypeOK
  <2> QED BY <2>2, <2>3
<1> QED BY <1>1, <1>4, <1>5 DEF Execute, TypeOK, clients, cache, loads, req

(* Clients are seated by OnClientAuthorized and nothing else gives or      *)
(* takes a seat but OnClientDisconnect, which also ends being in game.     *)
LEMMA SeatedInductive ==
    ASSUME TypeOK, Seated, [Next]_vars PROVE Seated'
<1>1. ASSUME NEW s \in Slots, ClientStep(s) PROVE Seated'
  <2>1. ASSUME NEW a \in Accounts, OnClientAuthorized(s, a) PROVE Seated'
    BY <2>1 DEF OnClientAuthorized, Seated, TypeOK
  <2>2. ASSUME OnClientPutInServer(s) PROVE Seated'
    BY <2>2 DEF OnClientPutInServer, Seated, TypeOK
  <2>3. ASSUME OnClientDisconnect(s) PROVE Seated'
    BY <2>3 DEF OnClientDisconnect, Seated, TypeOK
  <2>4. ASSUME UNCHANGED clients PROVE Seated'
    BY <2>4 DEF clients, Seated
  <2> QED BY <1>1, <2>1, <2>2, <2>3, <2>4
          DEF ClientStep, AskForBalance, ApplyBonusPointsNow, StealBonusPoints,
              QueueBountyPlacement
<1>2. ASSUME UNCHANGED clients PROVE Seated'
  BY <1>2 DEF clients, Seated
<1> QED BY <1>1, <1>2
        DEF Next, QueueCredit, Execute, Deliver, OnClientBonusPointsLoaded,
            OnCreditSaved, OnBountyPlaced, vars

(* Every step keeps the types.                                              *)
LEMMA StepTypeOK == ASSUME TypeOK, Seated, [Next]_vars PROVE TypeOK'
<1>1. ASSUME Next PROVE TypeOK'
  BY <1>1, ClientStepTypeOK, QueueCreditTypeOK, ExecuteTypeOK, OnLoadedTypeOK,
     OnCreditTypeOK, OnPlacedTypeOK DEF Next, Deliver
<1>2. ASSUME UNCHANGED vars PROVE TypeOK'
  BY <1>2 DEF vars, clients, cache, loads, channel, history, TypeOK
<1> QED BY <1>1, <1>2

(* In every behaviour the client state stays well formed: a cached balance *)
(* is never negative (ApplyBonusPointsNow, StealBonusPointsWithContext,    *)
(* SQL_OnClientBonusPointsLoaded, Bounty_OnPlaced) and a query is only     *)
(* queued for an authorized account.                                       *)
THEOREM TypeCorrect == Spec => [](TypeOK /\ Seated)
<1>1. Init => TypeOK /\ Seated
  BY InitTypeOK DEF Init, Seated
<1>2. TypeOK /\ Seated /\ [Next]_vars => (TypeOK /\ Seated)'
  BY StepTypeOK, SeatedInductive
<1> QED BY <1>1, <1>2, PTL DEF Spec

------------------------------------------------------------------------------
(* The outstanding load of a slot belongs to the client in it.             *)

SlotOwned(s) ==
    load[s] # Null =>
        /\ account[s] # Nobody
        /\ \E r \in InFlight : OwnedBy(s, r)
        /\ \A r \in InFlight : OwnedBy(s, r) =>
              r.session = session[s] /\ r.account = account[s]

(* LoadIsOwned, slot by slot.                                               *)
LEMMA OwnedSlots == LoadIsOwned <=> \A s \in Slots : SlotOwned(s)
BY DEF LoadIsOwned, SlotOwned

(* Appending adds one element to a queue.                                   *)
LEMMA ElementsAppend ==
    ASSUME NEW S, NEW q \in Seq(S), NEW x \in S
    PROVE  Elements(Append(q, x)) = Elements(q) \union {x}
BY AppendProperties DEF Elements

(* The elements of a queue are its head and those of its tail.              *)
LEMMA ElementsTail ==
    ASSUME NEW S, NEW q \in Seq(S), q # << >>
    PROVE  Elements(q) = {Head(q)} \union Elements(Tail(q))
<1>1. /\ DOMAIN q = 1..Len(q) /\ Len(q) \in Nat \ {0}
      /\ Tail(q) \in Seq(S) /\ Len(Tail(q)) = Len(q) - 1 /\ Head(q) = q[1]
      /\ DOMAIN Tail(q) = 1..(Len(q) - 1)
      /\ \A i \in 1..(Len(q) - 1) : Tail(q)[i] = q[i + 1]
  BY HeadTailProperties
<1>2. ASSUME NEW i \in DOMAIN q PROVE q[i] \in {Head(q)} \union Elements(Tail(q))
  <2>1. CASE i = 1
    BY <1>1, <2>1
  <2>2. CASE i # 1
    <3>1. i - 1 \in DOMAIN Tail(q) /\ Tail(q)[i - 1] = q[i]
      BY <1>1, <2>2
    <3> QED BY <3>1 DEF Elements
  <2> QED BY <2>1, <2>2
<1>3. ASSUME NEW i \in DOMAIN Tail(q) PROVE Tail(q)[i] \in Elements(q)
  <2>1. i + 1 \in DOMAIN q /\ Tail(q)[i] = q[i + 1]
    BY <1>1
  <2> QED BY <2>1 DEF Elements
<1>4. Head(q) \in Elements(q)
  BY <1>1 DEF Elements
<1> QED BY <1>2, <1>3, <1>4 DEF Elements

(* A queued request is in flight.                                           *)
LEMMA InFlightAppend ==
    ASSUME NEW q \in Seq(Requests), NEW x \in Requests, queue = q,
           queue' = Append(queue, x), results' = results
    PROVE  InFlight' = InFlight \union {x}
BY ElementsAppend DEF InFlight

(* What is left in flight when the oldest result has been delivered.       *)
Remaining == Elements(queue) \union {r.request : r \in Elements(Tail(results))}

(* What is in flight is the delivered request and what remains.             *)
LEMMA InFlightPop ==
    ASSUME TypeOK, results # << >>
    PROVE  InFlight = Remaining \union {Head(results).request}
<1>1. results \in Seq(Results)
  BY DEF TypeOK
<1>2. Elements(results) = {Head(results)} \union Elements(Tail(results))
  BY <1>1, ElementsTail
<1> QED BY <1>2 DEF InFlight, Remaining

(* A delivery that queues a request adds it to what remains.                *)
LEMMA RemainingAppend ==
    ASSUME TypeOK, NEW x \in Requests, results' = Tail(results),
           queue' = Append(queue, x)
    PROVE  InFlight' = Remaining \union {x}
<1>1. queue \in Seq(Requests)
  BY DEF TypeOK
<1>2. Elements(queue') = Elements(queue) \union {x}
  BY <1>1, ElementsAppend
<1>3. InFlight' = Elements(queue') \union {r.request : r \in Elements(results')}
  BY DEF InFlight, Elements
<1> QED BY <1>2, <1>3 DEF Remaining

(* A delivery that queues nothing leaves what remains.                      *)
LEMMA RemainingKept ==
    ASSUME results' = Tail(results), queue' = queue PROVE InFlight' = Remaining
BY DEF InFlight, Remaining, Elements

(* A slot whose client and load stay, and whose request stays in flight,   *)
(* keeps owning it.                                                        *)
LEMMA SlotKeeps ==
    ASSUME NEW t \in Slots, SlotOwned(t), load'[t] = load[t],
           account'[t] = account[t], session'[t] = session[t],
           \A r \in InFlight' : r.op = "select" /\ r.slot = t => r \in InFlight,
           \A r \in InFlight : OwnedBy(t, r) => r \in InFlight'
    PROVE  SlotOwned(t)'
BY DEF SlotOwned, OwnedBy

(* A step that leaves loads and slots alone keeps their ownership.          *)
LEMMA QuietStep ==
    ASSUME LoadIsOwned, UNCHANGED <<load, account, session>>,
           \A r \in InFlight' : r.op = "select" => r \in InFlight,
           \A r \in InFlight : r.op = "select" => r \in InFlight'
    PROVE  LoadIsOwned'
BY DEF LoadIsOwned, OwnedBy

(* The request a QueueSelect appends.                                      *)
LEMMA QueueSelectAppends ==
    ASSUME TypeOK, NEW s \in Slots, NEW a \in Accounts, NEW n \in Sessions,
           NEW pts \in Nat, NEW ld \in BOOLEAN, NEW live,
           QueueSelect(s, a, n, pts, ld, live)
    PROVE  /\ load'[s] \notin LivePacks(live)
           /\ \A t \in Slots \ {s} : load'[t] = load[t]
           /\ \E x \in Requests :
                /\ queue' = Append(queue, x)
                /\ x.op = "select" /\ x.slot = s /\ x.pack = load'[s]
                /\ x.session = n /\ x.account = a
<1> DEFINE x(p) == [op |-> "select", slot |-> s, session |-> n, account |-> a,
                    pack |-> p, requested |-> pts, wasLoaded |-> ld]
<1>1. PICK p \in Packs :
        /\ FreshPack(p, live)
        /\ load' = [load EXCEPT ![s] = p]
        /\ queue' = Append(queue, x(p))
  BY DEF QueueSelect
<1>2. x(p) \in Requests
  BY DEF Requests, Selects
<1>3. load'[s] = p
  BY <1>1 DEF TypeOK
<1>4. /\ x(p).op = "select" /\ x(p).slot = s /\ x(p).pack = p
      /\ x(p).session = n /\ x(p).account = a
  OBVIOUS
<1> HIDE DEF x
<1> QED BY <1>1, <1>2, <1>3, <1>4 DEF FreshPack, TypeOK

(* Changing one slot leaves the ownership of the others alone.              *)
LEMMA OthersKeep ==
    ASSUME LoadIsOwned, NEW s \in Slots, UNCHANGED <<account, session>>,
           \A t \in Slots \ {s} : load'[t] = load[t],
           NEW K \in SUBSET InFlight,
           \A r \in InFlight : r.op = "select" /\ r.slot # s => r \in K,
           \/ InFlight' = K
           \/ \E x : x.slot = s /\ InFlight' = K \union {x}
    PROVE  \A t \in Slots \ {s} : SlotOwned(t)'
<1> TAKE t \in Slots \ {s}
<1>1. SlotOwned(t) /\ load'[t] = load[t]
  BY OwnedSlots
<1>2. \A r \in InFlight' : r.slot = t => r \in InFlight
  OBVIOUS
<1>3. \A r \in InFlight : r.op = "select" /\ r.slot = t => r \in InFlight'
  OBVIOUS
<1> QED BY <1>1, <1>2, <1>3 DEF SlotOwned, OwnedBy

(* A SELECT queued for the client in slot s, whatever the callback that    *)
(* queues it has just taken out of flight.                                 *)
LEMMA SelectOwns ==
    ASSUME LoadIsOwned, NEW s \in Slots, account[s] # Nobody,
           UNCHANGED <<account, session>>,
           \A t \in Slots \ {s} : load'[t] = load[t],
           NEW K \in SUBSET InFlight,
           \A r \in InFlight : r.op = "select" /\ r.slot # s => r \in K,
           \A r \in K : r.op = "select" /\ r.slot = s /\ r.pack = load'[s]
                => r.session = session[s] /\ r.account = account[s],
           \E x \in Requests :
                /\ InFlight' = K \union {x}
                /\ x.op = "select" /\ x.slot = s /\ x.pack = load'[s]
                /\ x.session = session[s] /\ x.account = account[s]
    PROVE  LoadIsOwned'
<1>1. \A t \in Slots \ {s} : SlotOwned(t)'
  BY OthersKeep
<1>2. SlotOwned(s)'
  BY DEF SlotOwned, OwnedBy
<1> QED BY <1>1, <1>2 DEF LoadIsOwned, SlotOwned

(* A load that starts is owned by its slot.                                 *)
LEMMA LoadClientOwns ==
    ASSUME TypeOK, LoadIsOwned, NEW s \in Slots, account[s] # Nobody,
           LoadClientBonusPoints(s), UNCHANGED <<account, session>>,
           NEW K \in SUBSET InFlight,
           \A r \in InFlight : r.op = "select" => r \in K,
           queue' = queue => InFlight' = K,
           \A x \in Requests : queue' = Append(queue, x) => InFlight' = K \union {x}
    PROVE  LoadIsOwned'
<1>1. CASE load[s] # Null
  BY <1>1, QuietStep DEF LoadClientBonusPoints
<1>2. CASE load[s] = Null
  <2>1. /\ account[s] \in Accounts /\ session[s] \in Sessions
        /\ points[s] \in Nat /\ loaded[s] \in BOOLEAN
    BY DEF TypeOK
  <2>2. QueueSelect(s, account[s], session[s], points[s], loaded[s], InFlight)
    BY <1>2 DEF LoadClientBonusPoints
  <2>3. PICK x \in Requests :
          /\ load'[s] \notin LivePacks(InFlight)
          /\ \A t \in Slots \ {s} : load'[t] = load[t]
          /\ queue' = Append(queue, x)
          /\ x.op = "select" /\ x.slot = s /\ x.pack = load'[s]
          /\ x.session = session[s] /\ x.account = account[s]
    BY <2>1, <2>2, QueueSelectAppends
  <2>4. InFlight' = K \union {x}
    BY <2>3
  <2>5. \A r \in K : ~(r.op = "select" /\ r.pack = load'[s])
    BY <2>3 DEF LivePacks
  <2>6. \E y \in Requests :
           /\ InFlight' = K \union {y}
           /\ y.op = "select" /\ y.slot = s /\ y.pack = load'[s]
           /\ y.session = session[s] /\ y.account = account[s]
    BY <2>3, <2>4
  <2>7. \A t \in Slots \ {s} : load'[t] = load[t]
    BY <2>3
  <2>8. \A r \in InFlight : r.op = "select" /\ r.slot # s => r \in K
    OBVIOUS
  <2>9. \A r \in K : r.op = "select" /\ r.slot = s /\ r.pack = load'[s]
            => r.session = session[s] /\ r.account = account[s]
    BY <2>5
  <2> QED BY <2>6, <2>7, <2>8, <2>9, SelectOwns
<1> QED BY <1>1, <1>2

(* The answer to a load releases it or leaves it owned.                     *)
LEMMA OnLoadedOwned == TypeOK /\ LoadIsOwned /\ OnClientBonusPointsLoaded => LoadIsOwned'
<1> SUFFICES ASSUME TypeOK, LoadIsOwned, OnClientBonusPointsLoaded PROVE LoadIsOwned'
  OBVIOUS
<1> DEFINE r == Head(results)
           req == r.request
           s == req.slot
           live == InFlight \ {req}
<1>1. /\ results # << >> /\ results' = Tail(results) /\ req \in Requests
      /\ req.op = "select" /\ UNCHANGED <<account, session>>
  BY NextResult DEF OnClientBonusPointsLoaded, clients
<1>2. req \in Selects /\ s \in Slots /\ req.pack \in Packs
  <2>1. req \in Selects
    BY <1>1, RequestKind
  <2> QED BY <2>1 DEF Selects
<1>3. InFlight = Remaining \union {req}
  BY <1>1, InFlightPop
<1>4. Remaining \in SUBSET InFlight /\ \A q \in InFlight : q.slot # s => q \in Remaining
  BY <1>3
<1>5. ASSUME ~OwnsRequest(req), UNCHANGED <<loads, queue>> PROVE LoadIsOwned'
  <2>1. InFlight' = Remaining
    BY <1>1, <1>5, RemainingKept
  <2>2. ASSUME NEW t \in Slots PROVE SlotOwned(t)'
    <3>1. SlotOwned(t) /\ load'[t] = load[t]
      BY <1>5, OwnedSlots DEF loads
    <3>2. ~OwnedBy(t, req)
      BY <1>2, <1>3, <1>5, <3>1 DEF SlotOwned, OwnedBy, OwnsRequest, SameClient
    <3>3. \A q \in InFlight : OwnedBy(t, q) => q \in InFlight'
      BY <1>3, <2>1, <3>2
    <3>4. \A q \in InFlight' : q \in InFlight
      BY <1>4, <2>1
    <3> QED BY <1>1, <3>1, <3>3, <3>4 DEF SlotOwned, OwnedBy
  <2> QED BY <2>2 DEF LoadIsOwned, SlotOwned
<1>6. ASSUME ReleaseLoad(s), UNCHANGED queue PROVE LoadIsOwned'
  <2>1. InFlight' = Remaining
    BY <1>1, <1>6, RemainingKept
  <2>2. load'[s] = Null /\ \A t \in Slots \ {s} : load'[t] = load[t]
    BY <1>2, <1>6 DEF ReleaseLoad, TypeOK
  <2>3. \A t \in Slots \ {s} : SlotOwned(t)'
    BY <1>1, <1>2, <1>4, <2>1, <2>2, OthersKeep
  <2> QED BY <1>2, <2>2, <2>3 DEF LoadIsOwned, SlotOwned
<1>7. ASSUME NEW pts \in Nat, NEW ld \in BOOLEAN,
             OwnsRequest(req), account[s] = req.account,
             QueueSelect(s, account[s], session[s], pts, ld, live)
      PROVE  LoadIsOwned'
  <2>1. /\ account[s] \in Accounts /\ account[s] # Nobody
        /\ session[s] \in Sessions /\ session[s] = req.session
    BY <1>2, <1>7 DEF OwnsRequest, SameClient, TypeOK
  <2>2. PICK x \in Requests :
          /\ load'[s] \notin LivePacks(live)
          /\ \A t \in Slots \ {s} : load'[t] = load[t]
          /\ queue' = Append(queue, x)
          /\ x.op = "select" /\ x.slot = s /\ x.pack = load'[s]
          /\ x.session = session[s] /\ x.account = account[s]
    BY <1>2, <1>7, <2>1, QueueSelectAppends
  <2>3. InFlight' = Remaining \union {x}
    BY <1>1, <2>2, RemainingAppend
  <2>4. \A q \in Remaining : q.op = "select" /\ q.slot = s /\ q.pack = load'[s]
            => q.session = session[s] /\ q.account = account[s]
    BY <1>3, <1>7, <2>1, <2>2 DEF LivePacks
  <2> HIDE DEF live, s, req, r
  <2> QED BY <1>1, <1>2, <1>4, <2>1, <2>2, <2>3, <2>4, SelectOwns
<1>8. /\ r.value \in Int /\ AtLeastZero(r.value) \in Nat
      /\ points[s] \in Nat /\ loaded[s] \in BOOLEAN
  <2>1. PICK q \in Results : q = r
    BY <1>1, NextResult
  <2>2. q.value \in Int
    BY DEF Results
  <2>3. AtLeastZero(q.value) \in Nat
    BY <2>2, AtLeastZeroType
  <2>4. points[s] \in Nat /\ loaded[s] \in BOOLEAN
    BY <1>2 DEF TypeOK
  <2> QED BY <2>1, <2>2, <2>3, <2>4
<1>9. ASSUME OwnsRequest(req), account[s] = req.account, PublishBalance(req, r.value, live)
      PROVE  LoadIsOwned'
  BY <1>6, <1>7, <1>8, <1>9 DEF PublishBalance
<1> HIDE DEF r, req, s, live
<1>10. \/ ~OwnsRequest(req) /\ UNCHANGED <<loads, queue>>
       \/ ReleaseLoad(s) /\ UNCHANGED queue
       \/ /\ OwnsRequest(req) /\ account[s] = req.account
          /\ QueueSelect(s, account[s], session[s], points[s], loaded[s], live)
       \/ /\ OwnsRequest(req) /\ account[s] = req.account
          /\ PublishBalance(req, r.value, live)
  BY Zenon DEF OnClientBonusPointsLoaded, r, req, s, live
<1> QED BY <1>5, <1>6, <1>7, <1>8, <1>9, <1>10

(* The answer to a credit keeps loads owned.                                *)
LEMMA OnCreditOwned == TypeOK /\ LoadIsOwned /\ OnCreditSaved => LoadIsOwned'
<1> SUFFICES ASSUME TypeOK, LoadIsOwned, OnCreditSaved PROVE LoadIsOwned'
  OBVIOUS
<1>1. /\ results # << >> /\ results' = Tail(results) /\ queue' = queue
      /\ Head(results).request.op = "credit" /\ UNCHANGED <<account, session, load>>
  BY DEF OnCreditSaved, clients, loads
<1>2. InFlight = Remaining \union {Head(results).request} /\ InFlight' = Remaining
  BY <1>1, InFlightPop, RemainingKept
<1> QED BY <1>1, <1>2, QuietStep

(* The answer to a placement keeps loads owned.                             *)
LEMMA OnPlacedOwned == TypeOK /\ LoadIsOwned /\ OnBountyPlaced => LoadIsOwned'
<1> SUFFICES ASSUME TypeOK, LoadIsOwned, OnBountyPlaced PROVE LoadIsOwned'
  OBVIOUS
<1> DEFINE req == Head(results).request
           s == req.slot
<1>1. /\ results # << >> /\ results' = Tail(results) /\ req \in Requests
      /\ req.op = "escrow" /\ UNCHANGED <<account, session>>
  BY NextResult DEF OnBountyPlaced, clients
<1>2. s \in Slots
  BY <1>1, RequestKind DEF Escrows
<1>3. InFlight = Remaining \union {req}
  BY <1>1, InFlightPop
<1>4. Remaining \in SUBSET InFlight /\ \A r \in InFlight : r.op = "select" => r \in Remaining
  BY <1>1, <1>3
<1>5. CASE UNCHANGED <<loads, queue>>
  <2>1. InFlight' = Remaining
    BY <1>1, <1>5, RemainingKept
  <2> QED BY <1>1, <1>4, <1>5, <2>1, QuietStep DEF loads
<1>6. CASE SameClient(req) /\ LoadClientBonusPoints(s)
  <2>1. account[s] # Nobody
    BY <1>6 DEF SameClient
  <2>2. /\ queue' = queue => InFlight' = Remaining
        /\ \A x \in Requests : queue' = Append(queue, x) => InFlight' = Remaining \union {x}
    BY <1>1, RemainingKept, RemainingAppend
  <2> HIDE DEF req, s
  <2> QED BY <1>1, <1>2, <1>4, <1>6, <2>1, <2>2, LoadClientOwns
<1> HIDE DEF req, s
<1>7. \/ UNCHANGED <<loads, queue>>
      \/ SameClient(req) /\ LoadClientBonusPoints(s)
  BY Zenon DEF OnBountyPlaced, req, s
<1> QED BY <1>5, <1>6, <1>7

(* Requests other than a SELECT do not concern the loads.                  *)
LEMMA OtherAppend ==
    ASSUME TypeOK, LoadIsOwned, NEW x \in Requests, x.op # "select",
           queue' = Append(queue, x), UNCHANGED <<results, load, account, session>>
    PROVE  LoadIsOwned'
<1>1. InFlight' = InFlight \union {x}
  BY InFlightAppend DEF TypeOK
<1> QED BY <1>1, QuietStep

(* What clients do keeps loads owned.                                       *)
LEMMA ClientStepOwned ==
    ASSUME TypeOK, Seated, LoadIsOwned, NEW s \in Slots, ClientStep(s)
    PROVE  LoadIsOwned'
<1>0. ASSUME UNCHANGED <<queue, results>> PROVE InFlight' = InFlight
  BY <1>0 DEF InFlight, Elements
<1>1. ASSUME NEW a \in Accounts, OnClientAuthorized(s, a) PROVE LoadIsOwned'
  <2>1. PICK n \in Sessions :
            /\ account' = [account EXCEPT ![s] = a]
            /\ session' = [session EXCEPT ![s] = n]
            /\ QueueSelect(s, a, n, 0, FALSE, InFlight)
    BY <1>1 DEF OnClientAuthorized
  <2>2. PICK x \in Requests :
          /\ load'[s] \notin LivePacks(InFlight)
          /\ \A t \in Slots \ {s} : load'[t] = load[t]
          /\ queue' = Append(queue, x)
          /\ x.op = "select" /\ x.slot = s /\ x.pack = load'[s]
          /\ x.session = n /\ x.account = a
    <3>1. PICK pts \in Nat, ld \in BOOLEAN : QueueSelect(s, a, n, pts, ld, InFlight)
      BY <2>1, Zenon
    <3> QED BY <3>1, QueueSelectAppends
  <2>3. InFlight' = InFlight \union {x}
    BY <1>1, <2>2, InFlightAppend DEF OnClientAuthorized, TypeOK
  <2>4. account'[s] = a /\ session'[s] = n /\ a # Nobody
    BY <2>1 DEF TypeOK
  <2>5. SlotOwned(s)'
    BY <2>2, <2>3, <2>4 DEF SlotOwned, OwnedBy, LivePacks
  <2>6. ASSUME NEW t \in Slots \ {s} PROVE SlotOwned(t)'
    <3>1. /\ SlotOwned(t) /\ load'[t] = load[t]
          /\ account'[t] = account[t] /\ session'[t] = session[t]
      BY <2>1, <2>2, OwnedSlots DEF TypeOK
    <3>2. \A r \in InFlight' : r.slot = t => r \in InFlight
      BY <2>2, <2>3
    <3> QED BY <2>3, <3>1, <3>2 DEF SlotOwned, OwnedBy
  <2> QED BY <2>5, <2>6 DEF LoadIsOwned, SlotOwned
<1>2. ASSUME OnClientPutInServer(s) PROVE LoadIsOwned'
  BY <1>0, <1>2, QuietStep DEF OnClientPutInServer, loads, channel
<1>3. ASSUME OnClientDisconnect(s) PROVE LoadIsOwned'
  <2>1. InFlight' = InFlight /\ load'[s] = Null
    BY <1>0, <1>3 DEF OnClientDisconnect, ReleaseLoad, channel, TypeOK
  <2>2. ASSUME NEW t \in Slots \ {s} PROVE SlotOwned(t)'
    <3>1. /\ SlotOwned(t) /\ load'[t] = load[t]
          /\ account'[t] = account[t] /\ session'[t] = session[t]
      BY <1>3, OwnedSlots DEF OnClientDisconnect, ReleaseLoad, TypeOK
    <3> QED BY <2>1, <3>1 DEF SlotOwned, OwnedBy
  <2> QED BY <2>1, <2>2 DEF LoadIsOwned, SlotOwned
<1>4. ASSUME AskForBalance(s) PROVE LoadIsOwned'
  <2>1. /\ LoadClientBonusPoints(s) /\ account[s] # Nobody
        /\ UNCHANGED <<account, session, results>>
    BY <1>4 DEF AskForBalance, Seated, clients
  <2>2. queue' = queue => InFlight' = InFlight
    BY <1>0, <2>1
  <2>3. \A x \in Requests : queue' = Append(queue, x) => InFlight' = InFlight \union {x}
    BY <2>1, InFlightAppend DEF TypeOK
  <2> QED BY <2>1, <2>2, <2>3, LoadClientOwns
<1>5. ASSUME NEW n \in Int, ApplyBonusPointsNow(s, n) PROVE LoadIsOwned'
  <2>1. Upsert(account[s], n) \in Requests /\ Upsert(account[s], n).op # "select"
    BY <1>5, ReadyAccount, UpsertType DEF ApplyBonusPointsNow, AreBonusPointsReady, Upsert
  <2> QED BY <1>5, <2>1, OtherAppend DEF ApplyBonusPointsNow, clients, loads
<1>6. ASSUME NEW t \in Slots, NEW n \in StealAmounts, StealBonusPoints(s, t, n)
      PROVE  LoadIsOwned'
  <2> DEFINE actual == Stealable(s, n)
             x == Upsert(account[s], -actual)
             y == Upsert(account[t], actual)
  <2>1. x \in Requests /\ y \in Requests
    <3>1. actual \in Nat
      BY <1>6 DEF TypeOK, Stealable
    <3> QED BY <1>6, <3>1, ReadyAccount, UpsertType DEF StealBonusPoints, AreBonusPointsReady
  <2>4. x.op # "select" /\ y.op # "select"
    BY DEF Upsert
  <2>5. queue' = queue \o <<x, y>>
    BY <1>6 DEF StealBonusPoints
  <2> HIDE DEF actual, x, y
  <2>2. Elements(queue') = Elements(queue) \union {x, y}
    <3>1. queue \in Seq(Requests) /\ Append(queue, x) \in Seq(Requests)
      BY <2>1 DEF TypeOK
    <3>2. queue' = Append(Append(queue, x), y)
      BY <2>1, <2>5, <3>1
    <3>3. Elements(Append(queue, x)) = Elements(queue) \union {x}
      BY <2>1, <3>1, ElementsAppend
    <3>4. PICK q \in Seq(Requests) : q = Append(queue, x)
      BY <3>1
    <3>5. Elements(Append(q, y)) = Elements(q) \union {y}
      BY <2>1, ElementsAppend
    <3> QED BY <3>2, <3>3, <3>4, <3>5
  <2>3. InFlight' = InFlight \union {x, y}
    <3>1. InFlight' = Elements(queue') \union {r.request : r \in Elements(results')}
      BY DEF InFlight, Elements
    <3> QED BY <1>6, <2>2, <3>1 DEF StealBonusPoints, InFlight
  <2> QED BY <1>6, <2>3, <2>4, QuietStep DEF StealBonusPoints, clients, loads
<1>7. ASSUME NEW n \in EscrowAmounts, QueueBountyPlacement(s, n) PROVE LoadIsOwned'
  <2>1. account[s] \in Accounts /\ session[s] \in Sessions /\ n \in Nat
    BY <1>7, ReadyAccount DEF QueueBountyPlacement, AreBonusPointsReady, TypeOK
  <2>2. [op |-> "escrow", slot |-> s, session |-> session[s],
         account |-> account[s], amount |-> n] \in Requests
    BY <2>1 DEF Requests, Escrows
  <2> QED BY <1>7, <2>2, OtherAppend DEF QueueBountyPlacement, clients, loads
<1>8. ASSUME NEW n \in SpendAmounts, ApplyBonusPointsNow(s, -n) PROVE LoadIsOwned'
  <2>1. -n \in Int
    OBVIOUS
  <2> QED BY <1>5, <1>8, <2>1
<1> QED BY <1>1, <1>2, <1>3, <1>4, <1>5, <1>6, <1>7, <1>8 DEF ClientStep

(* The worker turns a request into its result, in flight all along.         *)
LEMMA ExecuteOwned == TypeOK /\ LoadIsOwned /\ Execute => LoadIsOwned'
<1> SUFFICES ASSUME TypeOK, LoadIsOwned, Execute PROVE LoadIsOwned'
  OBVIOUS
<1> DEFINE req == Head(queue)
<1>1. /\ queue # << >> /\ queue \in Seq(Requests) /\ results \in Seq(Results)
      /\ queue' = Tail(queue) /\ req \in Requests /\ UNCHANGED <<account, session, load>>
  BY HeadTailType DEF Execute, TypeOK, clients, loads
<1>2. Elements(queue) = {req} \union Elements(queue')
  BY <1>1, ElementsTail
<1>3. ASSUME NEW ok \in BOOLEAN, NEW v \in Int,
             results' = Append(results, [request |-> req, ok |-> ok, value |-> v])
      PROVE  LoadIsOwned'
  <2> DEFINE x == [request |-> req, ok |-> ok, value |-> v]
  <2>1. x \in Results /\ x.request = req
    BY <1>1 DEF Results
  <2> HIDE DEF x
  <2>2. Elements(results') = Elements(results) \union {x}
    BY <1>1, <1>3, <2>1, ElementsAppend DEF x
  <2>3. InFlight' = Elements(queue') \union {r.request : r \in Elements(results')}
    BY DEF InFlight, Elements
  <2>4. InFlight' = InFlight
    BY <1>2, <2>1, <2>2, <2>3 DEF InFlight
  <2> QED BY <1>1, <2>4, QuietStep
<1>4. ASSUME req.op = "upsert", results' = results PROVE LoadIsOwned'
  <2>1. InFlight' = Elements(queue') \union {r.request : r \in Elements(results)}
    BY <1>4 DEF InFlight, Elements
  <2>2. InFlight = InFlight' \union {req}
    BY <1>2, <2>1 DEF InFlight
  <2> QED BY <1>1, <1>4, <2>2, QuietStep
<1>5. \/ req.op = "upsert" /\ results' = results
      \/ \E ok \in BOOLEAN, v \in Int :
            results' = Append(results, [request |-> req, ok |-> ok, value |-> v])
  <2>1. req.op \in {"select", "upsert", "credit", "escrow"} /\ req.account \in Accounts
    BY <1>1 DEF Requests, Selects, Upserts, Credits, Escrows
  <2>2. Fetched(balance[req.account]) \in Int
    BY <2>1, FetchedType DEF TypeOK
  <2>3. 0 \in Int /\ 1 \in Int /\ TRUE \in BOOLEAN /\ FALSE \in BOOLEAN
    OBVIOUS
  <2> HIDE DEF req
  <2>4. CASE Accept(req)
    <3>1. CASE req.op = "select"
      BY <2>2, <2>3, <2>4, <3>1 DEF Accept
    <3>2. CASE req.op = "upsert"
      BY <2>4, <3>2 DEF Accept
    <3>3. CASE req.op = "credit"
      BY <2>3, <2>4, <3>3 DEF Accept
    <3>4. CASE req.op = "escrow"
      <4>1. \E v \in {0, 1} :
              results' = Append(results, [request |-> req, ok |-> TRUE, value |-> v])
        BY <2>4, <3>4 DEF Accept
      <4> QED BY <2>3, <4>1
    <3> QED BY <2>1, <3>1, <3>2, <3>3, <3>4
  <2>5. CASE Refuse(req)
    BY <2>3, <2>5 DEF Refuse
  <2> QED BY <2>4, <2>5 DEF Execute, req
<1> HIDE DEF req
<1> QED BY <1>3, <1>4, <1>5

(* Every step keeps loads owned.                                            *)
LEMMA StepOwned == ASSUME TypeOK, Seated, LoadIsOwned, [Next]_vars PROVE LoadIsOwned'
<1>1. ASSUME NEW a \in Accounts, NEW n \in CreditAmounts, QueueCredit(a, n)
      PROVE  LoadIsOwned'
  <2>1. [op |-> "credit", account |-> a, amount |-> n] \in Requests
    BY DEF Requests, Credits
  <2> QED BY <1>1, <2>1, OtherAppend DEF QueueCredit, clients, loads
<1>2. ASSUME UNCHANGED vars PROVE LoadIsOwned'
  <2>1. InFlight' = InFlight
    BY <1>2 DEF vars, channel, InFlight, Elements
  <2> QED BY <1>2, <2>1, QuietStep DEF vars, clients, loads
<1> QED BY <1>1, <1>2, ClientStepOwned, ExecuteOwned, OnLoadedOwned, OnCreditOwned,
           OnPlacedOwned DEF Next, Deliver

(* Client_state.sp's fence of tokens works for every number of clients,    *)
(* accounts and requests in flight: g_StoreBalanceLoad is null or the pack *)
(* of a SELECT still on its way, sent for the very client in the slot.     *)
THEOREM LoadOwnership == Spec => []LoadIsOwned
<1> DEFINE IInv == TypeOK /\ Seated /\ LoadIsOwned
<1>1. Init => IInv
  BY InitTypeOK DEF Init, Seated, LoadIsOwned
<1>2. IInv /\ [Next]_vars => IInv'
  BY StepTypeOK, SeatedInductive, StepOwned
<1>3. IInv => LoadIsOwned
  OBVIOUS
<1> QED BY <1>1, <1>2, <1>3, PTL DEF Spec

------------------------------------------------------------------------------
(* What a client is shown was read for it.                                 *)

Published(t) ==
    /\ results # << >>
    /\ Head(results).request.op = "select"
    /\ Head(results).request.account = account[t]
    /\ Head(results).request.session = session[t]
    /\ account'[t] = account[t]

(* A load publishes only the row of the account it was asked for.           *)
LEMMA OnLoadedPublishes ==
    ASSUME TypeOK, OnClientBonusPointsLoaded, NEW t \in Slots, ~loaded[t], loaded'[t]
    PROVE  Published(t)
<1> DEFINE req == Head(results).request
           s == req.slot
           value == Head(results).value
           live == InFlight \ {req}
<1>1. results # << >> /\ req.op = "select" /\ UNCHANGED <<account, session>>
  BY DEF OnClientBonusPointsLoaded, clients
<1>2. s \in Slots
  BY <1>1, NextResult, RequestKind DEF Selects
<1>3. loaded' # loaded
  OBVIOUS
<1> HIDE DEF req, s, value, live
<1>4. \/ UNCHANGED cache
      \/ ReleaseLoad(s) /\ UNCHANGED <<cache, queue, history>>
      \/ OwnsRequest(req) /\ account[s] = req.account /\ PublishBalance(req, value, live)
  BY Zenon DEF OnClientBonusPointsLoaded, req, s, value, live
<1>5. OwnsRequest(req) /\ account[s] = req.account /\ PublishBalance(req, value, live)
  BY <1>3, <1>4 DEF cache
<1>6. loaded' = [loaded EXCEPT ![s] = TRUE]
  BY <1>5 DEF PublishBalance, s
<1>7. t = s
  BY <1>2, <1>6 DEF TypeOK
<1>8. session[s] = req.session
  BY <1>5 DEF OwnsRequest, SameClient, s
<1> QED BY <1>1, <1>5, <1>7, <1>8 DEF Published, req

(* No other step makes a balance ready.                                     *)
LEMMA OnlyAnswersPublish ==
    ASSUME TypeOK, [Next]_vars, NEW t \in Slots, ~loaded[t], loaded'[t]
    PROVE  Published(t)
<1>1. ASSUME NEW s \in Slots, ClientStep(s), ~OnClientBonusPointsLoaded PROVE FALSE
  <2>1. ASSUME NEW a \in Accounts, OnClientAuthorized(s, a) PROVE FALSE
    BY <2>1 DEF OnClientAuthorized, TypeOK
  <2>2. ASSUME OnClientDisconnect(s) PROVE FALSE
    BY <2>2 DEF OnClientDisconnect, TypeOK
  <2>3. ASSUME UNCHANGED loaded PROVE FALSE
    BY <2>3
  <2> QED BY <1>1, <2>1, <2>2, <2>3
          DEF ClientStep, OnClientPutInServer, AskForBalance, ApplyBonusPointsNow,
              StealBonusPoints, QueueBountyPlacement, cache
<1>2. CASE OnClientBonusPointsLoaded
  BY <1>2, OnLoadedPublishes
<1>3. CASE UNCHANGED loaded
  BY <1>3
<1> QED BY <1>1, <1>2, <1>3
        DEF Next, Deliver, QueueCredit, Execute, OnCreditSaved, OnBountyPlaced, vars, cache

(* For every number of clients and of requests in flight, a balance is     *)
(* published only by the answer to a SELECT that the client now in the     *)
(* slot sent in this visit, for its own account.                           *)
THEOREM OwnRowPublished == Spec => PublishesOwnRow
<1>1. TypeOK /\ [Next]_vars =>
        [\A s \in Slots : ~loaded[s] /\ loaded'[s] => Published(s)]_vars
  BY OnlyAnswersPublish
<1>2. Spec => []TypeOK
  BY TypeCorrect, PTL
<1> QED BY <1>1, <1>2, PTL DEF Spec, PublishesOwnRow, Published
=============================================================================
