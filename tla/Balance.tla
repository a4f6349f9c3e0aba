------------------------------- MODULE Balance -------------------------------
(***************************************************************************)
(* The balance cache of the points store and its ledger table.             *)
(*                                                                         *)
(* points_store.sp keeps the balance of every connected client in          *)
(* g_ClientBonusPoints and the durable balance in a table.  The game runs  *)
(* on one main thread; queries are handed to one database worker, which    *)
(* executes them in order and hands their results back, again in order, to *)
(* callbacks on the main thread.  Between a query and its callback the     *)
(* main thread goes on: players spend, receive, steal, leave and come      *)
(* back, in the same slot or in another.                                   *)
(***************************************************************************)
EXTENDS Integers, Sequences

CONSTANTS
    Slots,          \* client indices
    Accounts,       \* SteamID64s
    Nobody,         \* a slot without a client
    NoRow,          \* an account without a row in points_store_balances
    StartBalance,   \* what the rows present at the start hold
    GrantAmounts,   \* rewards applied to a loaded client
    SpendAmounts,   \* purchases by a loaded client
    StealAmounts,   \* requests to move gems between two loaded clients
    CreditAmounts,  \* credits whose callback refreshes the cache
    EscrowAmounts,  \* bounty placements
    MaxPacks,       \* bound: load requests outstanding at a time
    MaxSessions,    \* bound: client serials alive at a time
    MaxMoves,       \* bound: balance operations in a behaviour
    MaxFailures,    \* bound: queries the database refuses in a behaviour
    MaxInFlight     \* bound: requests outstanding when a client authorizes

ASSUME BalanceAssumption ==
    /\ Nobody \notin Accounts
    /\ NoRow \notin Int
    /\ StartBalance \in Nat
    /\ GrantAmounts \subseteq Nat \ {0}
    /\ SpendAmounts \subseteq Nat \ {0}
    /\ StealAmounts \subseteq Nat \ {0}
    /\ CreditAmounts \subseteq Nat \ {0}
    /\ EscrowAmounts \subseteq Nat \ {0}
    /\ MaxPacks \in Nat /\ MaxSessions \in Nat \ {0} /\ MaxMoves \in Nat
    /\ MaxFailures \in Nat /\ MaxInFlight \in Nat

VARIABLES
    account,    \* slot -> the account authorized in it
    session,    \* slot -> GetClientSerial, stale once the client leaves
    inGame,     \* slot -> Client_IsHumanInGame
    points,     \* slot -> g_ClientBonusPoints
    loaded,     \* slot -> g_ClientBonusPointsLoaded
    load,       \* slot -> g_StoreBalanceLoad, the pack of the outstanding SELECT
    reload,     \* slot -> g_StoreBalanceReload
    escrowing,  \* slot -> g_BountyPlacementPending
    balance,    \* account -> its row of points_store_balances
    queue,      \* requests the database worker has not executed yet
    results,    \* results whose callback has not run yet
    moves,      \* balance operations so far
    failures,   \* refused queries so far
    mutated,    \* history: slot -> its cache changed since its SELECT was queued
    drift       \* history: slot -> why its cache may differ from the ledger

clients == <<account, session, inGame>>
cache == <<points, loaded>>
loads == <<load, reload>>
channel == <<queue, results>>
history == <<mutated, drift>>
vars == <<clients, cache, loads, escrowing, balance, channel, moves, failures, history>>

Null == 0
Packs == 1..MaxPacks
Sessions == 1..MaxSessions

(* Why a cached balance and its row can part.                              *)
(*   "aba"     a load was published over a balance that had been changed   *)
(*   "gap"     a credit's callback ran while its client was loading in     *)
(*   "lost"    the database refused a change the cache already shows       *)
(*   "clamped" GREATEST(0, ...) or its twin in the cache cut a debit short *)
(*   "debt"    the row is negative, which a client sees as zero            *)
Causes == {"aba", "gap", "lost", "clamped", "debt"}

Movements == GrantAmounts \union SpendAmounts \union StealAmounts
                \union CreditAmounts \union EscrowAmounts

Selects ==
    [op : {"select"}, slot : Slots, session : Sessions, account : Accounts,
     pack : Packs, requested : Nat, wasLoaded : BOOLEAN]
Upserts == [op : {"upsert"}, account : Accounts, amount : Int]
Credits == [op : {"credit"}, account : Accounts, amount : Nat]
Escrows ==
    [op : {"escrow"}, slot : Slots, session : Sessions, account : Accounts,
     amount : Nat]
Requests == Selects \union Upserts \union Credits \union Escrows

(* A result is its request, whether the database accepted it, and what it  *)
(* returned: the balance of a SELECT, 1 or 0 for a bounty placed or not.   *)
Results == [request : Requests, ok : BOOLEAN, value : Int]

Elements(seq) == {seq[i] : i \in DOMAIN seq}
InFlight == Elements(queue) \union {r.request : r \in Elements(results)}

AtLeastZero_Dropped(n) == n
AtLeastZero(n) == IF n > 0 THEN n ELSE 0

(* INSERT ... ON DUPLICATE KEY UPDATE balance = GREATEST(0, balance + n)   *)
Upserted(row, n) == IF row = NoRow THEN n ELSE AtLeastZero(row + n)
(* What SELECT fetches, and what a client is shown of it.                  *)
Fetched(row) == IF row = NoRow THEN 0 ELSE row
Shown(row) == AtLeastZero(Fetched(row))

(* A pack is a live handle: its number returns once the callback deleted   *)
(* it.  The least unused number stands for a fresh one.                    *)
LivePacks(requests) == {r.pack : r \in {q \in requests : q.op = "select"}}
FreshPack(p, requests) ==
    /\ p \in Packs \ LivePacks(requests)
    /\ \A o \in Packs \ LivePacks(requests) : p <= o
FreshSession(n) ==
    LET used == {r.session : r \in {q \in InFlight : q.op \in {"select", "escrow"}}}
                    \union {session[s] : s \in Slots}
    IN  n \in Sessions \ used /\ \A o \in Sessions \ used : n <= o

HoldersOf(a) == {s \in Slots : account[s] = a}
ReadyHoldersOf(a) == {s \in HoldersOf(a) : inGame[s] /\ loaded[s]}
SameClient(r) == account[r.slot] # Nobody /\ session[r.slot] = r.session

(* History: writing the cache of the slots in which the balance changes.   *)
Touch(slots) ==
    mutated' = [s \in Slots |-> mutated[s] \/ (s \in slots /\ load[s] # Null)]
Blame(slots, cause) ==
    drift' = [s \in Slots |-> drift[s] \union (IF s \in slots THEN {cause} ELSE {})]

------------------------------------------------------------------------------
Init ==
    /\ account = [s \in Slots |-> Nobody]
    /\ session = [s \in Slots |-> 1]
    /\ inGame = [s \in Slots |-> FALSE]
    /\ points = [s \in Slots |-> 0]
    /\ loaded = [s \in Slots |-> FALSE]
    /\ load = [s \in Slots |-> Null]
    /\ reload = [s \in Slots |-> FALSE]
    /\ escrowing = [s \in Slots |-> FALSE]
    /\ balance \in [Accounts -> {NoRow, StartBalance}]
    /\ queue = << >>
    /\ results = << >>
    /\ moves = 0
    /\ failures = 0
    /\ mutated = [s \in Slots |-> FALSE]
    /\ drift = [s \in Slots |-> {}]

------------------------------------------------------------------------------
(* Loading a balance.                                                      *)

(* The SELECT leaves with a copy of the cache it may replace.              *)
QueueSelect(s, a, ses, pts, ld, live) ==
    \E p \in Packs :
        /\ FreshPack(p, live)
        /\ load' = [load EXCEPT ![s] = p]
        /\ reload' = [reload EXCEPT ![s] = FALSE]
        /\ queue' = Append(queue,
                [op |-> "select", slot |-> s, session |-> ses, account |-> a,
                 pack |-> p, requested |-> pts, wasLoaded |-> ld])
        /\ mutated' = [mutated EXCEPT ![s] = FALSE]

(* One SELECT at a time: a second request asks for a follow-up.            *)
LoadClientBonusPoints(s) ==
    \/ /\ load[s] # Null
       /\ reload' = [reload EXCEPT ![s] = TRUE]
       /\ UNCHANGED <<load, queue, mutated>>
    \/ /\ load[s] = Null
       /\ QueueSelect(s, account[s], session[s], points[s], loaded[s], InFlight)

OwnsRequest_BySlot(req) == account[req.slot] # Nobody
OwnsRequest(req) == SameClient(req) /\ load[req.slot] = req.pack

(* The fence compares the cache with the copy the request carries.         *)
FenceBlocks_Dropped(req) == FALSE
FenceBlocks(req) ==
    \/ points[req.slot] # req.requested
    \/ loaded[req.slot] # req.wasLoaded

ReleaseLoad_Forgotten(s) ==
    /\ reload' = [reload EXCEPT ![s] = FALSE]
    /\ UNCHANGED load
ReleaseLoad(s) ==
    /\ load' = [load EXCEPT ![s] = Null]
    /\ reload' = [reload EXCEPT ![s] = FALSE]

(* Only a change the fence cannot see excuses a stale balance.             *)
PublishBalance(req, value, live) ==
  LET s == req.slot
      unseen == mutated[s] /\ points[s] = req.requested
  IN
    /\ points' = [points EXCEPT ![s] = AtLeastZero(value)]
    /\ loaded' = [loaded EXCEPT ![s] = TRUE]
    /\ drift' = [drift EXCEPT ![s] = (IF unseen THEN @ \union {"aba"} ELSE {})
                                     \union (IF value < 0 THEN {"debt"} ELSE {})]
    /\ \/ /\ reload[s]
          /\ QueueSelect(s, account[s], session[s], AtLeastZero(value), TRUE, live)
       \/ /\ ~reload[s]
          /\ ReleaseLoad(s)
          /\ UNCHANGED <<queue, mutated>>

OnClientBonusPointsLoaded ==
    /\ results # << >>
    /\ results' = Tail(results)
    /\ UNCHANGED <<clients, escrowing, balance, moves, failures>>
    /\ LET r == Head(results)
           req == r.request
           s == req.slot
           live == InFlight \ {req}
       IN  /\ req.op = "select"
           /\ \/ /\ ~OwnsRequest(req)
                 /\ UNCHANGED <<cache, loads, queue, history>>
              \/ /\ OwnsRequest(req)
                 /\ ~r.ok \/ account[s] # req.account
                 /\ ReleaseLoad(s)
                 /\ UNCHANGED <<cache, queue, history>>
              \/ /\ OwnsRequest(req)
                 /\ r.ok /\ account[s] = req.account
                 /\ FenceBlocks(req)
                 /\ QueueSelect(s, account[s], session[s], points[s], loaded[s], live)
                 /\ UNCHANGED <<cache, drift>>
              \/ /\ OwnsRequest(req)
                 /\ r.ok /\ account[s] = req.account
                 /\ ~FenceBlocks(req)
                 /\ PublishBalance(req, r.value, live)

(* A command that needs the balance of a client it is not loaded for.      *)
AskForBalance(s) ==
    /\ inGame[s] /\ ~loaded[s]
    /\ LoadClientBonusPoints(s)
    /\ UNCHANGED <<clients, cache, escrowing, balance, results, moves, failures, drift>>

------------------------------------------------------------------------------
(* Clients come and go.                                                    *)

OnClientAuthorized(s, a) ==
    /\ account[s] = Nobody /\ HoldersOf(a) = {}
    /\ Len(queue) + Len(results) < MaxInFlight
    /\ \E n \in Sessions :
        /\ FreshSession(n)
        /\ account' = [account EXCEPT ![s] = a]
        /\ session' = [session EXCEPT ![s] = n]
        /\ points' = [points EXCEPT ![s] = 0]
        /\ loaded' = [loaded EXCEPT ![s] = FALSE]
        /\ escrowing' = [escrowing EXCEPT ![s] = FALSE]
        /\ drift' = [drift EXCEPT ![s] = {}]
        /\ QueueSelect(s, a, n, 0, FALSE, InFlight)
    /\ UNCHANGED <<inGame, balance, results, moves, failures>>

OnClientPutInServer(s) ==
    /\ account[s] # Nobody /\ ~inGame[s]
    /\ inGame' = [inGame EXCEPT ![s] = TRUE]
    /\ UNCHANGED <<account, session, cache, loads, escrowing, balance, channel,
                   moves, failures, history>>

OnClientDisconnect(s) ==
    /\ account[s] # Nobody
    /\ account' = [account EXCEPT ![s] = Nobody]
    /\ inGame' = [inGame EXCEPT ![s] = FALSE]
    /\ points' = [points EXCEPT ![s] = 0]
    /\ loaded' = [loaded EXCEPT ![s] = FALSE]
    /\ escrowing' = [escrowing EXCEPT ![s] = FALSE]
    /\ ReleaseLoad(s)
    /\ mutated' = [mutated EXCEPT ![s] = FALSE]
    /\ drift' = [drift EXCEPT ![s] = {}]
    /\ UNCHANGED <<session, balance, channel, moves, failures>>

------------------------------------------------------------------------------
(* Moving gems.  A loaded client's cache changes at once and the ledger is *)
(* told by a query whose result nobody reads.                              *)

AreBonusPointsReady(s) == inGame[s] /\ loaded[s]

(* Gems promised to a bounty must stay in the balance until it is placed.  *)
CanDebit(s, n) == ~escrowing[s] /\ points[s] >= n

CountMove == moves < MaxMoves /\ moves' = moves + 1

Upsert(a, n) == [op |-> "upsert", account |-> a, amount |-> n]

ApplyBonusPointsNow(s, n) ==
    /\ CountMove
    /\ AreBonusPointsReady(s)
    /\ n < 0 => CanDebit(s, -n)
    /\ points' = [points EXCEPT ![s] = AtLeastZero(@ + n)]
    /\ Touch({s})
    /\ queue' = Append(queue, Upsert(account[s], n))
    /\ UNCHANGED <<clients, loaded, loads, escrowing, balance, results, failures, drift>>

(* Stealing takes what is there, whatever the victim has pending; a        *)
(* transfer between players moves gems the same way.                       *)
Stealable_Unchecked(victim, n) == n
Stealable(victim, n) == IF points[victim] < n THEN points[victim] ELSE n
StealBonusPoints(victim, recipient, n) ==
    /\ CountMove
    /\ victim # recipient
    /\ AreBonusPointsReady(victim) /\ AreBonusPointsReady(recipient)
    /\ LET actual == Stealable(victim, n)
       IN  /\ actual > 0
           /\ points' = [points EXCEPT ![victim] = @ - actual, ![recipient] = @ + actual]
           /\ Touch({victim, recipient})
           /\ queue' = queue \o << Upsert(account[victim], -actual),
                                   Upsert(account[recipient], actual) >>
    /\ UNCHANGED <<clients, loaded, loads, escrowing, balance, results, failures, drift>>

(* Credits to an account rather than to a client: offline rewards, awards  *)
(* that must happen once, lottery prizes, bounty payouts and refunds.      *)
QueueCredit(a, n) ==
    /\ CountMove
    /\ queue' = Append(queue, [op |-> "credit", account |-> a, amount |-> n])
    /\ UNCHANGED <<clients, cache, loads, escrowing, balance, results, failures, history>>

(* Whose cache a credit raises.                                            *)
Credited_OnError(r) == ReadyHoldersOf(r.request.account)
Credited(r) == IF r.ok THEN ReadyHoldersOf(r.request.account) ELSE {}

OnCreditSaved ==
    /\ results # << >>
    /\ results' = Tail(results)
    /\ UNCHANGED <<clients, loaded, loads, escrowing, balance, queue, moves, failures>>
    /\ LET r == Head(results)
           a == r.request.account
           ready == Credited(r)
           missed == IF r.ok THEN {s \in HoldersOf(a) : loaded[s] /\ ~inGame[s]} ELSE {}
       IN  /\ r.request.op = "credit"
           /\ points' = [s \in Slots |->
                            points[s] + (IF s \in ready THEN r.request.amount ELSE 0)]
           /\ Touch(ready)
           /\ Blame(missed, "gap")

(* A bounty is paid into escrow by the database; the cache follows.        *)
QueueBountyPlacement(s, n) ==
    /\ CountMove
    /\ AreBonusPointsReady(s) /\ CanDebit(s, n)
    /\ escrowing' = [escrowing EXCEPT ![s] = TRUE]
    /\ queue' = Append(queue, [op |-> "escrow", slot |-> s, session |-> session[s],
                               account |-> account[s], amount |-> n])
    /\ UNCHANGED <<clients, cache, loads, balance, results, failures, history>>

OnBountyPlaced ==
    /\ results # << >>
    /\ results' = Tail(results)
    /\ UNCHANGED <<clients, loaded, balance, moves, failures>>
    /\ LET r == Head(results)
           req == r.request
           s == req.slot
           left == points[s] - req.amount
       IN  /\ req.op = "escrow"
           /\ \/ /\ ~SameClient(req)
                 /\ UNCHANGED <<points, loads, escrowing, queue, history>>
              \/ /\ SameClient(req) /\ r.value = 0
                 /\ escrowing' = [escrowing EXCEPT ![s] = FALSE]
                 /\ LoadClientBonusPoints(s)
                 /\ UNCHANGED <<points, drift>>
              \/ /\ SameClient(req) /\ r.value = 1
                 /\ escrowing' = [escrowing EXCEPT ![s] = FALSE]
                 /\ points' = [points EXCEPT ![s] = AtLeastZero(left)]
                 /\ Touch({s})
                 /\ Blame(IF left < 0 THEN {s} ELSE {}, "clamped")
                 /\ UNCHANGED <<loads, queue>>

------------------------------------------------------------------------------
(* The database worker executes the oldest request.                        *)

Accept(req) ==
    /\ failures' = failures
    /\ CASE req.op = "select" ->
              /\ results' = Append(results,
                    [request |-> req, ok |-> TRUE, value |-> Fetched(balance[req.account])])
              /\ UNCHANGED <<balance, drift>>
         [] req.op = "upsert" ->
              LET row == balance[req.account]
              IN  /\ balance' = [balance EXCEPT ![req.account] = Upserted(row, req.amount)]
                  /\ Blame(IF row # NoRow /\ row + req.amount < 0
                           THEN HoldersOf(req.account) ELSE {}, "clamped")
                  /\ UNCHANGED results
         [] req.op = "credit" ->
              /\ balance' = [balance EXCEPT ![req.account] = Upserted(@, req.amount)]
              /\ results' = Append(results, [request |-> req, ok |-> TRUE, value |-> 0])
              /\ UNCHANGED drift
         [] req.op = "escrow" ->
              (* admitted: the target cap and the placement cooldown allow it *)
              \E admitted \in BOOLEAN :
                LET placed == admitted /\ balance[req.account] # NoRow
                                       /\ balance[req.account] >= req.amount
                IN  /\ balance' = [balance EXCEPT ![req.account] =
                                        IF placed THEN @ - req.amount ELSE @]
                    /\ results' = Append(results,
                          [request |-> req, ok |-> TRUE, value |-> IF placed THEN 1 ELSE 0])
                    /\ UNCHANGED drift

Refuse(req) ==
    /\ failures < MaxFailures
    /\ failures' = failures + 1
    /\ UNCHANGED balance
    /\ IF req.op = "upsert"
       THEN /\ Blame(HoldersOf(req.account), "lost")
            /\ UNCHANGED results
       ELSE /\ results' = Append(results, [request |-> req, ok |-> FALSE, value |-> 0])
            /\ UNCHANGED drift

Execute ==
    /\ queue # << >>
    /\ queue' = Tail(queue)
    /\ Accept(Head(queue)) \/ Refuse(Head(queue))
    /\ UNCHANGED <<clients, cache, loads, escrowing, moves, mutated>>

------------------------------------------------------------------------------
Deliver == OnClientBonusPointsLoaded \/ OnCreditSaved \/ OnBountyPlaced

ClientStep(s) ==
    \/ \E a \in Accounts : OnClientAuthorized(s, a)
    \/ OnClientPutInServer(s)
    \/ OnClientDisconnect(s)
    \/ AskForBalance(s)
    \/ \E n \in GrantAmounts : ApplyBonusPointsNow(s, n)
    \/ \E n \in SpendAmounts : ApplyBonusPointsNow(s, -n)
    \/ \E t \in Slots, n \in StealAmounts : StealBonusPoints(s, t, n)
    \/ \E n \in EscrowAmounts : QueueBountyPlacement(s, n)

Next ==
    \/ \E s \in Slots : ClientStep(s)
    \/ \E a \in Accounts, n \in CreditAmounts : QueueCredit(a, n)
    \/ Execute
    \/ Deliver

Spec == Init /\ [][Next]_vars

(* The worker keeps executing and the main thread keeps running callbacks. *)
FairSpec == Spec /\ WF_vars(Execute) /\ WF_vars(Deliver)

------------------------------------------------------------------------------
(* Every variable holds a value the program can give it: client fields and *)
(* requests are well formed and no cached balance is negative.             *)
TypeOK ==
    /\ account \in [Slots -> Accounts \union {Nobody}]
    /\ session \in [Slots -> Sessions]
    /\ inGame \in [Slots -> BOOLEAN]
    /\ points \in [Slots -> Nat]
    /\ loaded \in [Slots -> BOOLEAN]
    /\ load \in [Slots -> Packs \union {Null}]
    /\ reload \in [Slots -> BOOLEAN]
    /\ escrowing \in [Slots -> BOOLEAN]
    /\ balance \in [Accounts -> Int \union {NoRow}]
    /\ queue \in Seq(Requests)
    /\ results \in Seq(Results)
    /\ moves \in Nat
    /\ failures \in Nat
    /\ mutated \in [Slots -> BOOLEAN]
    /\ drift \in [Slots -> SUBSET Causes]

(* Nothing about the account is on its way to the ledger or back.          *)
Quiet(a) == \A r \in InFlight : r.account # a

(* The cache of a loaded client equals its row as soon as nothing is in    *)
(* flight for the account, unless one of the five named causes struck      *)
(* since the cache was last published: the local updates, the callbacks    *)
(* and the fenced reloads add up to the ledger in every interleaving.      *)
CacheMatchesLedger ==
    \A s \in Slots :
        account[s] # Nobody /\ loaded[s] /\ drift[s] = {} /\ Quiet(account[s])
            => points[s] = Shown(balance[account[s]])

(* A credit that lands while its client is still loading in is the one     *)
(* benign cause: it leaves the cache short, never over the ledger, so a    *)
(* client cannot spend gems it does not have.                              *)
CacheNeverOverstates ==
    \A s \in Slots :
        account[s] # Nobody /\ loaded[s] /\ drift[s] \subseteq {"gap"} /\ Quiet(account[s])
            => points[s] <= Shown(balance[account[s]])

(* g_StoreBalanceLoad names the one outstanding SELECT of the client now   *)
(* in the slot: a reconnect never adopts its predecessor's query, and no   *)
(* client waits for an answer that is not coming.                          *)
OwnedBy(s, r) ==
    r.op = "select" /\ r.slot = s /\ r.pack = load[s]

LoadIsOwned ==
    \A s \in Slots : load[s] # Null =>
        /\ account[s] # Nobody
        /\ \E r \in InFlight : OwnedBy(s, r)
        /\ \A r \in InFlight : OwnedBy(s, r) =>
              r.session = session[s] /\ r.account = account[s]

(* A balance is published by the answer to a SELECT of the very visit it   *)
(* is shown in, read from the row of the account that is in the slot:      *)
(* never by one that an earlier client, or an earlier visit, left behind.  *)
PublishesOwnRow ==
    [][\A s \in Slots : ~loaded[s] /\ loaded'[s] =>
            /\ results # << >>
            /\ Head(results).request.op = "select"
            /\ Head(results).request.account = account[s]
            /\ Head(results).request.session = session[s]
            /\ account'[s] = account[s]]_vars

(* A debit the game has honoured meets the gems that pay for it: if the    *)
(* worker executes what is queued, bounties being placed included, no      *)
(* debit of a client with a trusted cache has to be cut at zero.  Credits  *)
(* under way are not counted, for they may be refused.                     *)
Paid(row, req) ==
    IF req.op = "escrow" /\ row >= req.amount THEN row - req.amount
    ELSE IF req.op = "upsert" THEN row + req.amount ELSE row
LedgerAfter(a) ==
    LET after[i \in 0..Len(queue)] ==
            IF i = 0 THEN Fetched(balance[a])
            ELSE IF queue[i].account = a THEN Paid(after[i - 1], queue[i]) ELSE after[i - 1]
    IN  after
NoOverdraft ==
    \A s \in Slots :
        account[s] # Nobody /\ loaded[s] /\ drift[s] \subseteq {"gap"} =>
            \A i \in 0..Len(queue) : LedgerAfter(account[s])[i] >= 0

(* "Do not replace a balance mutated by another callback while SELECT ran" *)
(* (client_state.sp): no load leaves a cache that differs from the ledger  *)
(* because the balance changed while the SELECT was out.                   *)
FencedLoadsMatchLedger ==
    \A s \in Slots :
        account[s] # Nobody /\ loaded[s] /\ drift[s] \subseteq {"aba"} /\ Quiet(account[s])
            => points[s] = Shown(balance[account[s]])

(* Every outstanding load is answered: the flag that makes later requests  *)
(* wait does not stay up.                                                  *)
LoadsAreAnswered == \A s \in Slots : []<>(load[s] = Null)
=============================================================================
