------------------------------ MODULE Bounties ------------------------------
(***************************************************************************)
(* Bounties: the table points_store_bounties, the gems they are paid from, *)
(* and everything that resolves them.                                      *)
(*                                                                         *)
(* Five activities settle bounties: a domination claims them, the weekly   *)
(* expiry and the disconnect pass refund them, the progress pass pays the  *)
(* targets who survived.  Each is a query or a transaction prepared on the *)
(* main thread from what it knows then (the clock, who is in game, what an *)
(* earlier SELECT returned) and executed later, in order, by the database  *)
(* worker.  Nothing but the WHERE clauses keeps them from paying twice.    *)
(***************************************************************************)
EXTENDS Integers, Sequences, SequencesExt, FiniteSetsExt

CONSTANTS
    Players,        \* SteamID64s, as senders, targets and claimants
    System,         \* BOUNTY_SYSTEM_STEAMID
    Placers,        \* players who use the bounty command
    Hunted,         \* players bounties are placed on
    Fighters,       \* players who dominate and kill
    Travellers,     \* players who leave and come back
    Stakes,         \* amounts a bounty can be placed for
    StartGems,      \* the balance every player starts with
    AutoStake,      \* BOUNTY_AUTOMATIC_AMOUNT
    AutoMinimum,    \* BOUNTY_AUTOMATIC_MIN_BALANCE
    Growth,         \* BOUNTY_KILL_GROWTH_AMOUNT
    MaxWorth,       \* GetBountyMaxAmount
    MaxActive,      \* BOUNTY_MAX_ACTIVE
    Cooldown,       \* BOUNTY_PLACEMENT_COOLDOWN_SECONDS
    AutoCooldown,   \* BOUNTY_AUTOMATIC_TARGET_COOLDOWN_SECONDS
    Grace,          \* BOUNTY_DISCONNECT_GRACE_SECONDS
    Expiry,         \* BOUNTY_WALL_EXPIRY_SECONDS
    Limit,          \* GetBountyPlaytimeLimitSeconds
    MaxClock,       \* bound: the last second of a behaviour
    MaxPlayed,      \* bound: ranked playtime of a player
    MaxRows,        \* bound: bounties placed in a behaviour
    MaxTokens,      \* bound: resolution tokens in use
    MaxMoves,       \* bound: things players do in a behaviour
    MaxFailures,    \* bound: queries the database refuses in a behaviour
    MaxInFlight     \* bound: requests outstanding when something new starts

ASSUME BountiesAssumption ==
    /\ System \notin Players
    /\ Placers \subseteq Players /\ Hunted \subseteq Players
    /\ Fighters \subseteq Players /\ Travellers \subseteq Players
    /\ Stakes \subseteq Nat \ {0} /\ AutoStake \in Nat \ {0} /\ Growth \in Nat \ {0}
    /\ StartGems \in Nat /\ AutoMinimum \in Nat /\ MaxWorth \in Nat /\ MaxActive \in Nat
    /\ Cooldown \in Nat /\ AutoCooldown \in Nat /\ Grace \in Nat \ {0}
    /\ Expiry \in Nat \ {0} /\ Limit \in Nat \ {0}
    /\ MaxClock \in Nat /\ MaxPlayed \in Nat /\ MaxRows \in Nat /\ MaxTokens \in Nat
    /\ MaxMoves \in Nat /\ MaxFailures \in Nat /\ MaxInFlight \in Nat

VARIABLES
    clock,              \* GetTime
    seat,               \* player -> "away", "authorized" or "playing"
    played,             \* player -> WhaleTracker_GetRankedPlaytimeSeconds
    expiryPending,      \* g_BountyExpiryPending
    progressPending,    \* g_BountyProgressPending
    refundPending,      \* g_BountyDisconnectRefundPending
    automaticPending,   \* g_BountyAutomaticPlacementPending
    rows,               \* points_store_bounties; the position is bounty_id
    gems,               \* points_store_balances
    queue,              \* requests the database worker has not executed yet
    results,            \* results whose callback has not run yet
    moves,              \* things players did so far
    failures,           \* refused queries so far
    leftAt              \* history: player -> when it last left the game

world == <<clock, seat, played, leftAt>>
pending == <<expiryPending, progressPending, refundPending, automaticPending>>
tables == <<rows, gems>>
bounds == <<moves, failures>>
vars == <<world, pending, tables, queue, results, bounds>>

Senders == Players \union {System}
Tokens == 1..MaxTokens
Statuses == {"active", "claimed", "survived", "expired", "disconnected"}
Noone == 0

(* The columns of a row.  disconnected is 0 while the target is there; a   *)
(* row's token is that of the operation which settled it, and its payee    *)
(* the account that operation favoured (claimed_by_steamid64 in a claim).  *)
Rows ==
    [sender : Senders, target : Players, amount : Nat, bonus : Nat, placed : Nat,
     expires : Nat, progress : Nat, last : Nat, disconnected : Nat,
     status : Statuses, token : Tokens \union {Noone}, payee : Senders]

InFlight == ToSet(queue) \union {r.request : r \in ToSet(results)}
Room == Len(queue) + Len(results) < MaxInFlight
Ask(requests) == queue' = queue \o requests

Playing(p) == seat[p] = "playing"
LeastOf(a, b) == IF a < b THEN a ELSE b
AtLeastZero(n) == IF n > 0 THEN n ELSE 0

(* Every operation that settles bounties marks them with a token of its    *)
(* own: the least one in no row and no request stands for a fresh one.     *)
UsedTokens ==
    {rows[b].token : b \in DOMAIN rows}
        \union {r.token : r \in {q \in InFlight :
                            q.op \in {"claim", "expire", "refund", "progress"}}}
FreshToken_Repeated(t) == t = 1
FreshToken(t) ==
    t \in Tokens \ UsedTokens /\ \A o \in Tokens \ UsedTokens : t <= o

------------------------------------------------------------------------------
Init ==
    /\ clock = 1
    /\ seat = [p \in Players |-> "playing"]
    /\ played = [p \in Players |-> 1]
    /\ expiryPending = FALSE
    /\ progressPending = FALSE
    /\ refundPending = FALSE
    /\ automaticPending = FALSE
    /\ rows = << >>
    /\ gems = [p \in Players |-> StartGems]
    /\ queue = << >>
    /\ results = << >>
    /\ moves = 0
    /\ failures = 0
    /\ leftAt = [p \in Players |-> 0]

------------------------------------------------------------------------------
(* Players.                                                                *)

CountMove == Room /\ moves < MaxMoves /\ moves' = moves + 1

OnClientAuthorized(p) ==
    /\ CountMove
    /\ seat[p] = "away"
    /\ seat' = [seat EXCEPT ![p] = "authorized"]
    /\ Ask(<<[op |-> "clear", player |-> p]>>)
    /\ UNCHANGED <<clock, played, leftAt, pending, tables, results, failures>>

OnClientPutInServer(p) ==
    /\ seat[p] = "authorized"
    /\ seat' = [seat EXCEPT ![p] = "playing"]
    /\ UNCHANGED <<clock, played, leftAt, pending, tables, queue, results, bounds>>

OnClientDisconnect(p) ==
    /\ CountMove
    /\ seat[p] # "away"
    /\ seat' = [seat EXCEPT ![p] = "away"]
    /\ leftAt' = [leftAt EXCEPT ![p] = clock]
    /\ Ask(<<[op |-> "mark", player |-> p, now |-> clock]>>)
    /\ UNCHANGED <<clock, played, pending, tables, results, failures>>

PlayOn(p) ==
    /\ Playing(p) /\ played[p] < MaxPlayed
    /\ played' = [played EXCEPT ![p] = @ + 1]
    /\ UNCHANGED <<clock, seat, leftAt, pending, tables, queue, results, bounds>>

(* What the player's own caches forbid (cooldown, pending placement,       *)
(* balance) only delays a placement: the transaction checks it all again.  *)
QueueBountyPlacement(sender, target, n) ==
    /\ CountMove
    /\ Playing(sender) /\ Playing(target) /\ sender # target
    /\ Len(rows) + Len(SelectSeq(queue, LAMBDA r : r.op \in {"place", "auto"})) < MaxRows
    /\ Ask(<<[op |-> "place", sender |-> sender, target |-> target, amount |-> n,
              now |-> clock, played |-> played[target]]>>)
    /\ UNCHANGED <<world, pending, tables, results, failures>>

(* A death can grow the killer's bounty, and the assisting medic's, and a  *)
(* domination claims the victim's.  Who is listed as a target is asked of  *)
(* a cache that may lag behind the table, so either answer is possible.    *)
Event_BountyPlayerDeath(attacker, victim, growing, dominated) ==
    /\ CountMove
    /\ Playing(attacker) /\ Playing(victim) /\ attacker # victim
    /\ LET grow == [i \in DOMAIN growing |->
                        [op |-> "grow", player |-> growing[i], now |-> clock]]
       IN  \/ /\ ~dominated /\ growing # << >>
              /\ Ask(grow)
           \/ /\ dominated
              /\ \E t \in Tokens :
                    /\ FreshToken(t)
                    /\ Ask(grow \o <<[op |-> "claim", attacker |-> attacker,
                                      victim |-> victim, now |-> clock, token |-> t]>>)
    /\ UNCHANGED <<world, pending, tables, results, failures>>

(* The order in which a death asks for growth: the assister comes first.   *)
Growing(attacker, victim) ==
    {<< >>, <<attacker>>}
        \union UNION {{<<p>>, <<p, attacker>>} : p \in Fighters \ {attacker, victim}}

------------------------------------------------------------------------------
(* Timers and rounds.                                                      *)

Tick ==
    /\ clock < MaxClock
    /\ clock' = clock + 1
    /\ UNCHANGED <<seat, played, leftAt, pending, tables, queue, results, bounds>>

(* ProcessExpiredBounties, then RequestBountyProgress.                     *)
Maintain ==
    /\ Room
    /\ ~expiryPending \/ ~progressPending
    /\ expiryPending' = TRUE
    /\ progressPending' = TRUE
    /\ \E t \in Tokens :
        /\ FreshToken(t)
        /\ Ask((IF expiryPending THEN << >>
                ELSE <<[op |-> "expire", now |-> clock, token |-> t]>>)
               \o (IF progressPending THEN << >>
                   ELSE <<[op |-> "targets", now |-> clock]>>))

Timer_BountyMaintenance ==
    /\ Maintain
    /\ UNCHANGED <<world, refundPending, automaticPending, tables, results, bounds>>

(* A new map forgets an automatic placement that is still under way.       *)
Bounties_OnMapStart ==
    /\ automaticPending
    /\ automaticPending' = FALSE
    /\ \/ Maintain
       \/ /\ expiryPending /\ progressPending
          /\ UNCHANGED <<expiryPending, progressPending, queue>>
    /\ UNCHANGED <<world, refundPending, tables, results, bounds>>

(* A round looks for overdue disconnects and may single out a player.      *)
Event_BountyRoundStart ==
    LET overdue == IF refundPending THEN << >>
                   ELSE <<[op |-> "overdue", now |-> clock, cutoff |-> clock - Grace]>>
    IN
    /\ CountMove
    /\ refundPending' = TRUE
    /\ \/ /\ Ask(overdue)
          /\ UNCHANGED automaticPending
       \/ /\ ~automaticPending
          /\ Len(rows) + Len(SelectSeq(queue, LAMBDA r : r.op \in {"place", "auto"})) < MaxRows
          /\ automaticPending' = TRUE
          /\ \E p \in {q \in Hunted : Playing(q)} :
                Ask(overdue \o <<[op |-> "candidate", player |-> p, now |-> clock]>>)
    /\ UNCHANGED <<world, expiryPending, progressPending, tables, results, failures>>

------------------------------------------------------------------------------
(* Callbacks on the main thread.  The answers of a claim, a growth and a   *)
(* placement change caches only (Balance, BountyTargets).                  *)

Taken(ops) ==
    /\ results # << >>
    /\ Head(results).request.op \in ops
    /\ results' = Tail(results)

OnAnswer ==
    /\ Taken({"place", "claim", "grow"})
    /\ UNCHANGED <<world, pending, tables, queue, bounds>>

OnBountiesExpired_FailureForgotten ==
    /\ Taken({"expire"})
    /\ expiryPending' = ~Head(results).ok
    /\ UNCHANGED <<world, progressPending, refundPending, automaticPending, tables, queue, bounds>>
OnBountiesExpired ==
    /\ Taken({"expire"})
    /\ expiryPending' = FALSE
    /\ UNCHANGED <<world, progressPending, refundPending, automaticPending, tables, queue, bounds>>

(* The overdue bounties of targets who are back are cleared instead.       *)
Overdue(ids) == {b \in ids : ~Playing(rows[b].target)}
Back(ids) == {b \in ids : Playing(rows[b].target)}

OnDisconnectedBountiesLoaded ==
    /\ Taken({"overdue"})
    /\ LET ids == Head(results).value
           back == SetToSeq(Back(ids))
           clears == [i \in DOMAIN back |->
                        [op |-> "clear", player |-> rows[back[i]].target]]
       IN  \/ /\ Overdue(ids) = {}
              /\ refundPending' = FALSE
              /\ Ask(clears)
           \/ /\ Overdue(ids) # {}
              /\ \E t \in Tokens :
                    /\ FreshToken(t)
                    /\ Ask(clears \o <<[op |-> "refund", ids |-> Overdue(ids),
                              cutoff |-> clock - Grace, token |-> t,
                              left |-> [p \in Players |->
                                  IF seat[p] = "away" THEN leftAt[p] ELSE 0]]>>)
              /\ UNCHANGED refundPending
    /\ UNCHANGED <<world, expiryPending, progressPending, automaticPending, tables, bounds>>

OnDisconnectedBountiesRefunded ==
    /\ Taken({"refund"})
    /\ refundPending' = FALSE
    /\ UNCHANGED <<world, expiryPending, progressPending, automaticPending, tables, queue, bounds>>

(* Playtime counts only on a populated server, and only of those in game.  *)
OnBountyProgressTargetsLoaded ==
    /\ Taken({"targets"})
    /\ LET present == {p \in Head(results).value : Playing(p)}
       IN  \/ /\ present = {}
              /\ progressPending' = FALSE
              /\ UNCHANGED queue
           \/ /\ present # {}
              /\ \E t \in Tokens, counted \in BOOLEAN :
                    /\ FreshToken(t)
                    /\ Ask(<<[op |-> "progress", now |-> clock, token |-> t, counted |-> counted,
                              current |-> [p \in present |-> played[p]]]>>)
              /\ UNCHANGED progressPending
    /\ UNCHANGED <<world, expiryPending, refundPending, automaticPending, tables, bounds>>

OnBountiesSurvived ==
    /\ Taken({"progress"})
    /\ progressPending' = FALSE
    /\ UNCHANGED <<world, expiryPending, refundPending, automaticPending, tables, queue, bounds>>

OnAutomaticBountyCandidateSelected ==
    /\ Taken({"candidate"})
    /\ \/ /\ \A p \in Head(results).value : ~Playing(p)
          /\ automaticPending' = FALSE
          /\ UNCHANGED queue
       \/ \E p \in Head(results).value :
            /\ Playing(p)
            /\ Ask(<<[op |-> "auto", target |-> p, now |-> clock, played |-> played[p]]>>)
            /\ UNCHANGED automaticPending
    /\ UNCHANGED <<world, expiryPending, progressPending, refundPending, tables, bounds>>

OnAutomaticBountyPlaced ==
    /\ Taken({"auto"})
    /\ automaticPending' = FALSE
    /\ UNCHANGED <<world, expiryPending, progressPending, refundPending, tables, queue, bounds>>

------------------------------------------------------------------------------
(* What the statements do to the tables.                                   *)

IsActive(b, now) == rows[b].status = "active" /\ rows[b].expires > now
Active(now) == {b \in DOMAIN rows : IsActive(b, now)}
ActiveOn(p, now) == {b \in Active(now) : rows[b].target = p}
ActiveTargets(now) == {rows[b].target : b \in Active(now)}
Worth(b) == rows[b].amount + rows[b].bonus

(* UPDATE ... SET status, resolved_at, resolution_token.                   *)
Resolved(chosen, outcome, t, payee(_)) ==
    [b \in DOMAIN rows |->
        IF b \in chosen
        THEN [rows[b] EXCEPT !.status = outcome, !.token = t, !.payee = payee(b)]
        ELSE rows[b]]

(* INSERT ... SELECT SUM(...) WHERE resolution_token = t GROUP BY payee.   *)
Credited(table, t, payee(_), worth(_)) ==
    [p \in Players |-> gems[p] +
        MapThenSumSet(worth, {b \in DOMAIN table : table[b].token = t /\ payee(b) = p})]

Settle(chosen, outcome, t, payee(_), worth(_)) ==
    LET table == Resolved(chosen, outcome, t, payee)
    IN  /\ rows' = table
        /\ gems' = Credited(table, t, payee, worth)

(* A further stake shortens the time left to survive; one as large as all  *)
(* there is starts it anew.                                                *)
MergedProgress(target, n, now) ==
    LET stack == ActiveOn(target, now)
        total == MapThenSumSet(Worth, stack)
        progress == Min({rows[b].progress : b \in stack})
        rounded == (2 * (progress * total - Limit * n) + total) \div (2 * total)
    IN  IF stack = {} \/ n >= total THEN 0 ELSE AtLeastZero(rounded)

NewRow(sender, req, n, progress) ==
    [sender |-> sender, target |-> req.target, amount |-> n, bonus |-> 0,
     placed |-> req.now, expires |-> req.now + Expiry, progress |-> progress,
     last |-> req.played, disconnected |-> 0, status |-> "active", token |-> Noone,
     payee |-> System]

CanPlace_OnCredit(req) ==
    /\ req.target \in ActiveTargets(req.now) \/ Cardinality(ActiveTargets(req.now)) < MaxActive
    /\ \A b \in DOMAIN rows :
        rows[b].sender = req.sender => rows[b].placed <= req.now - Cooldown
CanPlace_AnyTarget(req) ==
    /\ gems[req.sender] >= req.amount
    /\ \A b \in DOMAIN rows :
        rows[b].sender = req.sender => rows[b].placed <= req.now - Cooldown
CanPlace_NoCooldown(req) ==
    /\ gems[req.sender] >= req.amount
    /\ req.target \in ActiveTargets(req.now) \/ Cardinality(ActiveTargets(req.now)) < MaxActive
CanPlace(req) ==
    /\ gems[req.sender] >= req.amount
    /\ req.target \in ActiveTargets(req.now) \/ Cardinality(ActiveTargets(req.now)) < MaxActive
    /\ \A b \in DOMAIN rows :
        rows[b].sender = req.sender => rows[b].placed <= req.now - Cooldown

(* The three statements of a placement: debit, insert, align the stack.    *)
AlignedStack_NewRowOnly(req, progress) == rows
AlignedStack(req, progress) ==
    [b \in DOMAIN rows |->
        IF b \in ActiveOn(req.target, req.now)
        THEN [rows[b] EXCEPT !.progress = progress, !.last = req.played]
        ELSE rows[b]]

ExecutePlace(req) ==
    LET progress == MergedProgress(req.target, req.amount, req.now)
    IN  \/ /\ CanPlace(req)
           /\ gems' = [gems EXCEPT ![req.sender] = @ - req.amount]
           /\ rows' = Append(AlignedStack(req, progress),
                             NewRow(req.sender, req, req.amount, progress))
        \/ /\ ~CanPlace(req)
           /\ UNCHANGED tables

CanPlaceAutomatically(req) ==
    /\ Cardinality(ActiveTargets(req.now)) < MaxActive
    /\ req.target \notin ActiveTargets(req.now)
    /\ \A b \in DOMAIN rows :
        rows[b].target = req.target /\ rows[b].sender = System
            => rows[b].placed <= req.now - AutoCooldown

ExecuteAuto(req) ==
    /\ rows' = IF CanPlaceAutomatically(req)
               THEN Append(rows, NewRow(System, req, AutoStake, 0))
               ELSE rows
    /\ UNCHANGED gems

IsCandidate(p, now) ==
    /\ gems[p] > AutoMinimum
    /\ ActiveOn(p, now) = {}
    /\ \A b \in DOMAIN rows :
        rows[b].target = p /\ rows[b].sender = System => rows[b].placed <= now - AutoCooldown

(* The oldest bounty that can still grow does.                             *)
Growable(p, now) ==
    {b \in ActiveOn(p, now) : rows[b].amount < MaxWorth /\ Worth(b) < MaxWorth}
ExecuteGrow(req) ==
    /\ rows' = [b \in DOMAIN rows |->
                  IF b \in Growable(req.player, req.now)
                     /\ \A o \in Growable(req.player, req.now) : b <= o
                  THEN [rows[b] EXCEPT
                            !.bonus = LeastOf(MaxWorth - rows[b].amount, @ + Growth)]
                  ELSE rows[b]]
    /\ UNCHANGED gems

ExecuteMark(req) ==
    /\ rows' = [b \in DOMAIN rows |->
                  IF b \in ActiveOn(req.player, req.now) /\ rows[b].disconnected = 0
                  THEN [rows[b] EXCEPT !.disconnected = req.now]
                  ELSE rows[b]]
    /\ UNCHANGED gems

ExecuteClear_Sender(req) ==
    /\ rows' = [b \in DOMAIN rows |->
                  IF rows[b].status = "active" /\ rows[b].sender = req.player
                  THEN [rows[b] EXCEPT !.disconnected = 0]
                  ELSE rows[b]]
    /\ UNCHANGED gems
ExecuteClear(req) ==
    /\ rows' = [b \in DOMAIN rows |->
                  IF rows[b].status = "active" /\ rows[b].target = req.player
                  THEN [rows[b] EXCEPT !.disconnected = 0]
                  ELSE rows[b]]
    /\ UNCHANGED gems

ExecuteClaim(req) ==
    Settle(ActiveOn(req.victim, req.now), "claimed", req.token,
           LAMBDA b : req.attacker, Worth)

Refund(chosen, outcome, t) ==
    Settle(chosen, outcome, t, LAMBDA b : rows[b].sender, LAMBDA b : rows[b].amount)

ExecuteExpire(req) ==
    Refund({b \in DOMAIN rows : rows[b].status = "active" /\ rows[b].expires <= req.now},
           "expired", req.token)

IsOverdue(b, cutoff) == rows[b].disconnected > 0 /\ rows[b].disconnected <= cutoff
Refundable_WhateverStatus(req) == {b \in req.ids : IsOverdue(b, req.cutoff)}
Refundable_OnceSelected(req) == {b \in req.ids : rows[b].status = "active"}
Refundable(req) ==
    {b \in req.ids : rows[b].status = "active" /\ IsOverdue(b, req.cutoff)}
ExecuteRefund(req) == Refund(Refundable(req), "disconnected", req.token)

(* Add the playtime since the last look, then pay whoever has survived.    *)
Gained(b, req) ==
    LET current == req.current[rows[b].target]
    IN  IF req.counted /\ rows[b].last > 0 /\ current >= rows[b].last
        THEN current - rows[b].last ELSE 0
Measured(req) == {b \in Active(req.now) : rows[b].target \in DOMAIN req.current}
Progressed(b, req) ==
    IF b \in Measured(req)
    THEN LeastOf(Limit, rows[b].progress + Gained(b, req))
    ELSE rows[b].progress
Survived(req) == {b \in Active(req.now) : Progressed(b, req) >= Limit}
ExecuteProgress(req) ==
    LET measured == [b \in DOMAIN rows |->
            IF b \in Measured(req)
            THEN [rows[b] EXCEPT !.progress = Progressed(b, req),
                                 !.last = req.current[rows[b].target]]
            ELSE rows[b]]
        table == [b \in DOMAIN rows |->
            IF b \in Survived(req)
            THEN [measured[b] EXCEPT !.status = "survived", !.token = req.token,
                                     !.payee = rows[b].target]
            ELSE measured[b]]
    IN  /\ rows' = table
        /\ gems' = Credited(table, req.token, LAMBDA b : rows[b].target, Worth)

(* What a SELECT returns; nothing depends on the order of its rows.        *)
Selected(req) ==
    CASE req.op = "overdue" -> {b \in Active(req.now) : IsOverdue(b, req.cutoff)}
      [] req.op = "targets" -> ActiveTargets(req.now)
      [] req.op = "candidate" -> {p \in {req.player} : IsCandidate(p, req.now)}
      [] OTHER -> {}

Statement(req) ==
    CASE req.op = "place" -> ExecutePlace(req)
      [] req.op = "auto" -> ExecuteAuto(req)
      [] req.op = "grow" -> ExecuteGrow(req)
      [] req.op = "mark" -> ExecuteMark(req)
      [] req.op = "clear" -> ExecuteClear(req)
      [] req.op = "claim" -> ExecuteClaim(req)
      [] req.op = "expire" -> ExecuteExpire(req)
      [] req.op = "refund" -> ExecuteRefund(req)
      [] req.op = "progress" -> ExecuteProgress(req)
      [] OTHER -> UNCHANGED tables

Answer(req, ok, value) ==
    results' = IF req.op \in {"mark", "clear"} THEN results
               ELSE Append(results, [request |-> req, ok |-> ok, value |-> value])

Execute ==
    /\ queue # << >>
    /\ queue' = Tail(queue)
    /\ LET req == Head(queue)
       IN  \/ /\ Statement(req)
              /\ Answer(req, TRUE, Selected(req))
              /\ UNCHANGED failures
           \/ /\ failures < MaxFailures
              /\ failures' = failures + 1
              /\ Answer(req, FALSE, {})
              /\ UNCHANGED tables
    /\ UNCHANGED <<world, pending, moves>>

------------------------------------------------------------------------------
Deliver ==
    \/ OnAnswer
    \/ OnBountiesExpired
    \/ OnDisconnectedBountiesLoaded
    \/ OnDisconnectedBountiesRefunded
    \/ OnBountyProgressTargetsLoaded
    \/ OnBountiesSurvived
    \/ OnAutomaticBountyCandidateSelected
    \/ OnAutomaticBountyPlaced

Next ==
    \/ \E p \in Travellers :
        OnClientAuthorized(p) \/ OnClientPutInServer(p) \/ OnClientDisconnect(p)
    \/ \E p \in Hunted : PlayOn(p)
    \/ \E s \in Placers, t \in Hunted, n \in Stakes : QueueBountyPlacement(s, t, n)
    \/ \E a \in Fighters, v \in Players, dominated \in BOOLEAN :
        \E growing \in Growing(a, v) : Event_BountyPlayerDeath(a, v, growing, dominated)
    \/ Tick
    \/ Timer_BountyMaintenance
    \/ Bounties_OnMapStart
    \/ Event_BountyRoundStart
    \/ Execute
    \/ Deliver

Spec == Init /\ [][Next]_vars

(* The maintenance timer repeats, time passes, the worker keeps executing  *)
(* and the main thread keeps running callbacks.                            *)
FairSpec ==
    /\ Spec
    /\ WF_vars(Tick) /\ WF_vars(Timer_BountyMaintenance)
    /\ WF_vars(Execute) /\ WF_vars(Deliver)

------------------------------------------------------------------------------
(* Every variable holds a value the program can give it, and no balance    *)
(* ever falls below zero.                                                  *)
TypeOK ==
    /\ clock \in 1..(MaxClock + 1)
    /\ seat \in [Players -> {"away", "authorized", "playing"}]
    /\ played \in [Players -> Nat]
    /\ leftAt \in [Players -> Nat]
    /\ expiryPending \in BOOLEAN /\ progressPending \in BOOLEAN
    /\ refundPending \in BOOLEAN /\ automaticPending \in BOOLEAN
    /\ rows \in Seq(Rows)
    /\ gems \in [Players -> Nat]
    /\ moves \in Nat /\ failures \in Nat

(* The table and the balances do what a bounty promises: whichever of the  *)
(* five activities reaches a row first settles it, pays the right account  *)
(* the right amount in the same step, and none of the others pays again,   *)
(* however old the data they were prepared from.                           *)
Escrow == INSTANCE BountyEscrow WITH
    Stakes <- Stakes \union {AutoStake},
    bounties <- [b \in DOMAIN rows |->
        [sender |-> rows[b].sender, target |-> rows[b].target, amount |-> rows[b].amount,
         bonus |-> rows[b].bonus, status |-> rows[b].status, payee |-> rows[b].payee]]
ImplementsEscrow == Escrow!Spec

(* Once a row has left the active state nothing changes it any more: late  *)
(* growth, late marks and late passes all miss it.                         *)
SettlementIsFinal ==
    [][\A b \in DOMAIN rows : rows[b].status # "active" =>
            b \in DOMAIN rows' /\ rows'[b] = rows[b]]_vars

(* Never more than BOUNTY_MAX_ACTIVE players are hunted at a time, though  *)
(* the cap is checked against the clock of the request, not of its         *)
(* execution, and two placements may be under way together.                *)
TargetsAreCapped == Cardinality(ActiveTargets(clock)) <= MaxActive

(* Two bounties of one sender are a cooldown apart, though the cooldown    *)
(* the main thread checks is a cached one; so are two of the game's own on *)
(* one target, though a new map forgets the placement under way.           *)
PlacementsAreSpaced ==
    \A b, c \in DOMAIN rows : b < c /\ rows[b].sender = rows[c].sender =>
        IF rows[b].sender = System
        THEN rows[b].target = rows[c].target =>
                rows[c].placed - rows[b].placed >= AutoCooldown
        ELSE rows[c].placed - rows[b].placed >= Cooldown

(* The game's limits hold although they are checked against cached values. *)
PlacementsAreLimited == TargetsAreCapped /\ PlacementsAreSpaced

(* The bounties on one target share their progress and the playtime it was *)
(* last measured at, so that they are survived together.                   *)
StackSharesProgress ==
    \A b, c \in Active(clock) : rows[b].target = rows[c].target =>
        rows[b].progress = rows[c].progress /\ rows[b].last = rows[c].last

(* A bounty is refunded for a disconnect only if its target had been gone  *)
(* for the whole grace period when the refund was decided; coming back in  *)
(* time, even between the two queries of the pass, saves it, as long as no *)
(* query that marks or clears its departure fails.                         *)
RefundedWereAway ==
    [][\A b \in DOMAIN rows :
        failures = 0 /\ rows[b].status = "active" /\ rows'[b].status = "disconnected" =>
            /\ queue # << >> /\ Head(queue).op = "refund"
            /\ Head(queue).left[rows[b].target] > 0
            /\ Head(queue).left[rows[b].target] <= Head(queue).cutoff]_vars

(* When nothing is under way and no query failed the table knows who is    *)
(* gone: the row of a hunted player carries a disconnect time if and only  *)
(* if it has left.                                                         *)
DisconnectsAreMarked ==
    queue = << >> /\ failures = 0 =>
        \A b \in Active(clock) : rows[b].disconnected > 0 <=> seat[rows[b].target] = "away"

(* The rows of the table agree with each other and with who is there.      *)
RowsTellOfTheirTarget == StackSharesProgress /\ DisconnectsAreMarked

(* Every bounty is settled in the end: none outlives its week by more than *)
(* the passes need, whatever queries fail on the way.                      *)
BountiesAreSettled ==
    \A b \in 1..MaxRows :
        (b \in DOMAIN rows /\ rows[b].expires <= MaxClock)
            ~> (b \in DOMAIN rows /\ rows[b].status # "active")
=============================================================================
