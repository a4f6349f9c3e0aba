---------------------------- MODULE BountyTargets ----------------------------
(***************************************************************************)
(* The list of hunted players the game consults on every kill, menu and    *)
(* command: g_ActiveBountyTargets and g_ActiveBountyCount, a copy of what  *)
(* Bounties keeps in the database.                                         *)
(*                                                                         *)
(* Every change asks for the copy to be refreshed.  Requests are coalesced *)
(* in three ways: one SELECT at a time, none sooner than five seconds      *)
(* after the one before, and a flag for whoever asked in between.  A copy  *)
(* taken before a target was marked, or over a connection since closed, is *)
(* thrown away.                                                            *)
(***************************************************************************)
EXTENDS Integers, Sequences, FiniteSets

CONSTANTS
    Players,        \* SteamID64s
    MaxMoves,       \* bound: placements and settlements in a behaviour
    MaxFailures,    \* bound: refreshes the database refuses in a behaviour
    MaxReconnects   \* bound: connections lost in a behaviour

ASSUME BountyTargetsAssumption ==
    IsFiniteSet(Players) /\ MaxMoves \in Nat /\ MaxFailures \in Nat /\ MaxReconnects \in Nat

VARIABLES
    ready,              \* g_BountyDatabaseReady
    connection,         \* which connection g_Database is
    targets,            \* g_ActiveBountyTargets
    count,              \* g_ActiveBountyCount
    generation,         \* g_BountyTargetCacheGeneration
    refreshPending,     \* g_BountyTargetCachePending
    refreshQueued,      \* g_BountyTargetCacheRefreshQueued
    timer,              \* g_BountyTargetCacheRefreshTimer is set
    recent,             \* the last request is less than five seconds old
    active,             \* the targets of active, unexpired rows
    queue,              \* requests the database worker has not executed yet
    results,            \* results whose callback has not run yet
    moves,              \* placements and settlements so far
    failures,           \* refused refreshes so far
    confirmed           \* history: targets marked since their bounty was placed

cache == <<targets, count>>
refresh == <<refreshPending, refreshQueued, timer, recent>>
database == <<ready, connection>>
bounds == <<moves, failures>>
vars == <<database, cache, generation, refresh, active, queue, results, bounds, confirmed>>

Requests ==
    [op : {"place", "settle"}, player : Players]
        \union [op : {"refresh"}, connection : Nat, generation : Nat]
Results == [request : Requests, ok : BOOLEAN, players : SUBSET Players]

Init ==
    /\ ready = TRUE
    /\ connection = 1
    /\ targets = {}
    /\ count = 0
    /\ generation = 0
    /\ refreshPending = FALSE
    /\ refreshQueued = FALSE
    /\ timer = FALSE
    /\ recent = FALSE
    /\ active = {}
    /\ queue = << >>
    /\ results = << >>
    /\ moves = 0
    /\ failures = 0
    /\ confirmed = {}

------------------------------------------------------------------------------
(* Asking for a refresh, given whether one is under way and the generation *)
(* the list has by now.                                                    *)

StartActiveBountyCacheRefresh(gen) ==
    /\ refreshPending' = TRUE
    /\ refreshQueued' = FALSE
    /\ recent' = TRUE
    /\ queue' = Append(queue,
            [op |-> "refresh", connection |-> connection, generation |-> gen])

RefreshActiveBountyTargets_NoTimer(underWay, gen) ==
    \/ /\ ~ready
       /\ refreshPending' = underWay
       /\ UNCHANGED <<refreshQueued, timer, recent, queue>>
    \/ /\ ready /\ (underWay \/ recent)
       /\ refreshQueued' = TRUE
       /\ refreshPending' = underWay
       /\ UNCHANGED <<timer, recent, queue>>
    \/ /\ ready /\ ~underWay /\ ~recent
       /\ StartActiveBountyCacheRefresh(gen)
       /\ UNCHANGED timer
RefreshActiveBountyTargets(underWay, gen) ==
    \/ /\ ~ready
       /\ refreshPending' = underWay
       /\ UNCHANGED <<refreshQueued, timer, recent, queue>>
    \/ /\ ready /\ (underWay \/ timer)
       /\ refreshQueued' = TRUE
       /\ refreshPending' = underWay
       /\ UNCHANGED <<timer, recent, queue>>
    \/ /\ ready /\ ~underWay /\ ~timer /\ recent
       /\ refreshQueued' = TRUE
       /\ timer' = TRUE
       /\ refreshPending' = underWay
       /\ UNCHANGED <<recent, queue>>
    \/ /\ ready /\ ~underWay /\ ~timer /\ ~recent
       /\ StartActiveBountyCacheRefresh(gen)
       /\ UNCHANGED timer

(* Five seconds pass; the timer was set to fire just then.                 *)
Elapse ==
    /\ recent
    /\ recent' = FALSE
    /\ UNCHANGED <<database, cache, generation, refreshPending, refreshQueued, timer,
                   active, queue, results, bounds, confirmed>>

Timer_RefreshBountyCache ==
    /\ timer /\ ~recent
    /\ timer' = FALSE
    /\ \/ /\ refreshQueued /\ ready
          /\ StartActiveBountyCacheRefresh(generation)
       \/ /\ ~(refreshQueued /\ ready)
          /\ UNCHANGED <<refreshPending, refreshQueued, recent, queue>>
    /\ UNCHANGED <<database, cache, generation, active, results, bounds, confirmed>>

Timer_BountyMaintenance ==
    /\ ready
    /\ RefreshActiveBountyTargets(refreshPending, generation)
    /\ UNCHANGED <<database, cache, generation, active, results, bounds, confirmed>>

------------------------------------------------------------------------------
(* What else goes on.                                                      *)

CountMove == moves < MaxMoves /\ moves' = moves + 1

(* A transaction of Bounties that may place or settle.                     *)
QueueChange(op, p) ==
    /\ CountMove
    /\ ready
    /\ queue' = Append(queue, [op |-> op, player |-> p])
    /\ UNCHANGED <<database, cache, generation, refresh, active, results, failures, confirmed>>

(* A week passes, which no callback reports.                               *)
Lapse(p) ==
    /\ CountMove
    /\ p \in active
    /\ active' = active \ {p}
    /\ confirmed' = confirmed \ {p}
    /\ UNCHANGED <<database, cache, generation, refresh, queue, results, failures>>

ConnectDatabase ==
    /\ ready /\ connection <= MaxReconnects
    /\ ready' = FALSE
    /\ connection' = connection + 1
    /\ generation' = generation + 1
    /\ count' = 0
    /\ refreshPending' = FALSE
    /\ refreshQueued' = FALSE
    /\ timer' = FALSE
    /\ recent' = FALSE
    /\ UNCHANGED <<targets, active, queue, results, bounds, confirmed>>

FinishBountySchemaColumnCheck ==
    /\ ~ready
    /\ ready' = TRUE
    /\ StartActiveBountyCacheRefresh(generation)
    /\ UNCHANGED <<connection, cache, generation, timer, active, results, bounds, confirmed>>

------------------------------------------------------------------------------
(* Callbacks.                                                              *)

Taken(op) ==
    /\ results # << >>
    /\ Head(results).request.op = op
    /\ results' = Tail(results)

Marked_Afresh(p) == {p}
Marked_ByRefresh(p) == targets
Marked(p) == targets \union {p}

OnBountyPlaced ==
    /\ Taken("place")
    /\ LET p == Head(results).request.player
       IN  \/ /\ Head(results).players = {}
              /\ UNCHANGED <<targets, generation, refresh, queue, confirmed>>
           \/ /\ Head(results).players # {}
              /\ targets' = Marked(p)
              /\ generation' = generation + 1
              /\ confirmed' = confirmed \union ({p} \intersect active)
              /\ RefreshActiveBountyTargets(refreshPending, generation + 1)
    /\ UNCHANGED <<database, count, active, bounds>>

OnBountySettled ==
    /\ Taken("settle")
    /\ \/ /\ Head(results).players = {}
          /\ UNCHANGED <<refresh, queue>>
       \/ /\ Head(results).players # {}
          /\ RefreshActiveBountyTargets(refreshPending, generation)
    /\ UNCHANGED <<database, cache, generation, active, bounds, confirmed>>

(* The answer of a connection that is no longer ours is not for us.        *)
IsOurs_AnyConnection(req) == ready
IsOurs(req) == ready /\ req.connection = connection

(* An answer that cannot be used is asked for again.                       *)
OnRefused_GivesUp ==
    UNCHANGED <<refresh, queue>>
OnRefused == RefreshActiveBountyTargets(FALSE, generation)

OnActiveBountyTargetsLoaded ==
    /\ Taken("refresh")
    /\ LET r == Head(results)
       IN  \/ /\ ~IsOurs(r.request)
              /\ UNCHANGED <<cache, refresh, queue>>
           \/ /\ IsOurs(r.request)
              /\ ~r.ok \/ r.request.generation # generation
              /\ OnRefused
              /\ UNCHANGED cache
           \/ /\ IsOurs(r.request)
              /\ r.ok /\ r.request.generation = generation
              /\ targets' = r.players
              /\ count' = Cardinality(r.players)
              /\ \/ /\ refreshQueued
                    /\ RefreshActiveBountyTargets(FALSE, generation)
                 \/ /\ ~refreshQueued
                    /\ refreshPending' = FALSE
                    /\ UNCHANGED <<refreshQueued, timer, recent, queue>>
    /\ UNCHANGED <<database, generation, active, bounds, confirmed>>

------------------------------------------------------------------------------
(* The database worker executes the oldest request.                        *)

Answer(req, ok, players) ==
    results' = Append(results, [request |-> req, ok |-> ok, players |-> players])

Execute ==
    /\ queue # << >>
    /\ queue' = Tail(queue)
    /\ LET req == Head(queue)
       IN  \/ /\ req.op = "place"
              /\ \/ /\ active' = active \union {req.player}
                    /\ Answer(req, TRUE, {req.player})
                 \/ /\ Answer(req, TRUE, {})
                    /\ UNCHANGED active
              /\ UNCHANGED <<failures, confirmed>>
           \/ /\ req.op = "settle"
              /\ active' = active \ {req.player}
              /\ confirmed' = confirmed \ {req.player}
              /\ Answer(req, TRUE, {req.player} \intersect active)
              /\ UNCHANGED failures
           \/ /\ req.op = "refresh"
              /\ \/ /\ Answer(req, TRUE, active)
                    /\ UNCHANGED failures
                 \/ /\ failures < MaxFailures
                    /\ failures' = failures + 1
                    /\ Answer(req, FALSE, {})
              /\ UNCHANGED <<active, confirmed>>
    /\ UNCHANGED <<database, cache, generation, refresh, moves>>

------------------------------------------------------------------------------
Deliver == OnBountyPlaced \/ OnBountySettled \/ OnActiveBountyTargetsLoaded

Next ==
    \/ Elapse
    \/ Timer_RefreshBountyCache
    \/ Timer_BountyMaintenance
    \/ \E op \in {"place", "settle"}, p \in Players : QueueChange(op, p)
    \/ \E p \in Players : Lapse(p)
    \/ ConnectDatabase
    \/ FinishBountySchemaColumnCheck
    \/ Execute
    \/ Deliver

Spec == Init /\ [][Next]_vars

(* Time passes, timers fire, a closed connection is opened again, and the  *)
(* worker and the main thread go on.                                       *)
FairSpec ==
    /\ Spec
    /\ WF_vars(Elapse) /\ WF_vars(Timer_RefreshBountyCache)
    /\ WF_vars(Timer_BountyMaintenance) /\ WF_vars(FinishBountySchemaColumnCheck)
    /\ WF_vars(Execute) /\ WF_vars(Deliver)

------------------------------------------------------------------------------
(* Every variable holds a value the program can give it; the count, which  *)
(* marking a target leaves alone, never exceeds the list.                  *)
TypeOK ==
    /\ ready \in BOOLEAN /\ connection \in Nat
    /\ targets \subseteq Players /\ count \in 0..Cardinality(targets)
    /\ generation \in Nat
    /\ refreshPending \in BOOLEAN /\ refreshQueued \in BOOLEAN
    /\ timer \in BOOLEAN /\ recent \in BOOLEAN
    /\ active \subseteq Players /\ confirmed \subseteq active
    /\ queue \in Seq(Requests) /\ results \in Seq(Results)
    /\ moves \in Nat /\ failures \in Nat

(* No request for a refresh is forgotten: whoever was told to wait is      *)
(* served by the SELECT under way or by the timer.                         *)
RefreshIsServed == refreshQueued => refreshPending \/ timer

(* The flag that keeps further refreshes waiting stands for exactly one    *)
(* SELECT of the present connection, whatever answers of a closed          *)
(* connection are still to come.                                           *)
Wire == [i \in DOMAIN results |-> results[i].request] \o queue
OwnRefreshes ==
    {i \in DOMAIN Wire : Wire[i].op = "refresh" /\ Wire[i].connection = connection}
PendingIsOwned ==
    ready => Cardinality(OwnRefreshes) = (IF refreshPending THEN 1 ELSE 0)

(* A player whose bounty has been announced is on the list for as long as  *)
(* it stands: no refresh that was under way when it was placed drops it,   *)
(* so kills by it grow the bounty from the first.                          *)
AnnouncedIsListed == confirmed \subseteq targets

(* Once bounties stop changing the list comes to show them, through lost   *)
(* connections, refused queries and settlements nobody reported.           *)
ListConverges == <>[](targets = active /\ count = Cardinality(active))
=============================================================================
