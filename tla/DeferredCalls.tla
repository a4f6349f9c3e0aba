---------------------------- MODULE DeferredCalls ----------------------------
(***************************************************************************)
(* Calls of plugins that weapons_ext puts off to a later frame             *)
(* (services/utilities.cpp): a player's speed, and the respawn time of a   *)
(* player who is still alive.  The game forgets a respawn time when its    *)
(* player dies, so the time is kept and written in the first frame that    *)
(* finds the player dead (include/weapons_utils.inc:262-290).              *)
(***************************************************************************)
EXTENDS Integers

CONSTANTS
    Players,
    Times,              \* respawn times plugins set
    NoTime,             \* -1: respawn waves
    MaxJoined           \* bound on players

ASSUME DeferredAssumption == NoTime \notin Times /\ MaxJoined \in Nat

VARIABLES
    up,                 \* the module is loaded
    stage,              \* stage[c]: "out", "in", "leaving"
    who,                \* who[c]: player in the slot
    joined,             \* players so far
    alive,              \* clients whose m_lifeState is LIFE_ALIVE
    override,           \* m_flRespawnTimeOverride
    queuedSpeed, queuedRespawn,     \* clients
    pendingRef, pendingRespawn,
    asked               \* asked[c]: the time last asked for, and for whom

bodyVars == <<stage, who, joined, alive, override>>
pendingVars == <<pendingRef, pendingRespawn>>
deferredVars == <<up, bodyVars, queuedSpeed, queuedRespawn, pendingVars, asked>>

InitDeferred ==
    /\ up = FALSE
    /\ stage = [c \in Players |-> "out"] /\ who = [c \in Players |-> 0] /\ joined = 0
    /\ alive = {} /\ override = [c \in Players |-> NoTime]
    /\ queuedSpeed = {} /\ queuedRespawn = {}
    /\ pendingRef = [c \in Players |-> 0]
    /\ pendingRespawn = [c \in Players |-> NoTime]
    /\ asked = [c \in Players |-> <<0, NoTime>>]

UtilitiesLoad ==
    /\ ~up
    /\ up' = TRUE
    /\ UNCHANGED <<bodyVars, queuedSpeed, queuedRespawn, pendingVars, asked>>

EmptyQueues == queuedSpeed' = {} /\ queuedRespawn' = {}

UtilitiesUnload ==
    /\ up
    /\ up' = FALSE /\ EmptyQueues
    /\ UNCHANGED <<bodyVars, pendingVars, asked>>

\* OnCoreMapEnd.
MapEnds ==
    /\ up /\ EmptyQueues
    /\ UNCHANGED <<up, bodyVars, pendingVars, asked>>

PutInServer(c) ==
    /\ stage[c] = "out" /\ joined < MaxJoined
    /\ stage' = [stage EXCEPT ![c] = "in"]
    /\ joined' = joined + 1 /\ who' = [who EXCEPT ![c] = joined']
    /\ alive' = alive \cup {c} /\ override' = [override EXCEPT ![c] = NoTime]
    /\ UNCHANGED <<up, queuedSpeed, queuedRespawn, pendingVars, asked>>

ClientDisconnecting(c) ==
    /\ stage[c] = "in"
    /\ stage' = [stage EXCEPT ![c] = "leaving"]
    /\ UNCHANGED <<up, who, joined, alive, override, queuedSpeed, queuedRespawn,
                   pendingVars, asked>>

Unqueued(c) ==
    queuedSpeed' = queuedSpeed \ {c} /\ queuedRespawn' = queuedRespawn \ {c}

ClientDisconnected(c) ==
    /\ stage[c] = "leaving"
    /\ stage' = [stage EXCEPT ![c] = "out"]
    /\ alive' = alive \ {c}
    /\ Unqueued(c)
    /\ UNCHANGED <<up, who, joined, override, pendingVars, asked>>

PlayerDies(c) ==
    /\ c \in alive
    /\ alive' = alive \ {c} /\ override' = [override EXCEPT ![c] = NoTime]
    /\ UNCHANGED <<up, stage, who, joined, queuedSpeed, queuedRespawn, pendingVars, asked>>

PlayerRespawns(c) ==
    /\ stage[c] # "out" /\ c \notin alive
    /\ alive' = alive \cup {c}
    /\ UNCHANGED <<up, stage, who, joined, override, queuedSpeed, queuedRespawn,
                   pendingVars, asked>>

----------------------------------------------------------------------------
(* Natives, for a player in the game or about to leave it.                 *)

Callable(c) == up /\ stage[c] # "out"

\* At once, it only leaves the queue.
UpdateSpeed(c, immediate) ==
    /\ Callable(c)
    /\ queuedSpeed' = IF immediate THEN queuedSpeed \ {c} ELSE queuedSpeed \cup {c}
    /\ pendingRef' = IF immediate THEN pendingRef ELSE [pendingRef EXCEPT ![c] = who[c]]
    /\ UNCHANGED <<up, bodyVars, queuedRespawn, pendingRespawn, asked>>

Revoked_Kept(c) == queuedRespawn
Revoked(c) == queuedRespawn \ {c}

RespawnOverride(c, time) ==
    /\ Callable(c)
    /\ asked' = [asked EXCEPT ![c] = <<who[c], time>>]
    /\ \/ /\ c \notin alive
          /\ queuedRespawn' = Revoked(c)
          /\ override' = [override EXCEPT ![c] = time]
          /\ UNCHANGED pendingVars
       \/ /\ c \in alive /\ time = NoTime
          /\ queuedRespawn' = Revoked(c)
          /\ UNCHANGED <<pendingVars, override>>
       \/ /\ c \in alive /\ time # NoTime
          /\ queuedRespawn' = queuedRespawn \cup {c}
          /\ pendingRef' = [pendingRef EXCEPT ![c] = who[c]]
          /\ pendingRespawn' = [pendingRespawn EXCEPT ![c] = time]
          /\ UNCHANGED override
    /\ UNCHANGED <<up, stage, who, joined, alive, queuedSpeed>>

\* A reference finds the player it was taken of, or nobody.
Found(c) == stage[c] # "out" /\ pendingRef[c] = who[c]

Applied == {c \in queuedRespawn : Found(c) /\ c \notin alive}

Frame ==
    /\ up /\ queuedSpeed \cup queuedRespawn # {}
    /\ queuedSpeed' = {}
    /\ override' = [c \in Players |-> IF c \in Applied THEN pendingRespawn[c] ELSE override[c]]
    /\ queuedRespawn' = {c \in queuedRespawn \ Applied : Found(c)}
    /\ UNCHANGED <<up, stage, who, joined, alive, pendingVars, asked>>

DeferredNext ==
    \/ UtilitiesLoad \/ UtilitiesUnload \/ MapEnds \/ Frame
    \/ \E c \in Players :
          \/ PutInServer(c) \/ ClientDisconnecting(c) \/ ClientDisconnected(c)
          \/ PlayerDies(c) \/ PlayerRespawns(c)
          \/ \E immediate \in BOOLEAN : UpdateSpeed(c, immediate)
          \/ \E time \in Times \cup {NoTime} : RespawnOverride(c, time)

DeferredSpec == InitDeferred /\ [][DeferredNext]_deferredVars

----------------------------------------------------------------------------

DeferredTypeOK ==
    /\ up \in BOOLEAN
    /\ stage \in [Players -> {"out", "in", "leaving"}]
    /\ who \in [Players -> 0 .. MaxJoined] /\ joined \in 0 .. MaxJoined
    /\ alive \subseteq Players
    /\ override \in [Players -> Times \cup {NoTime}]
    /\ queuedSpeed \subseteq Players /\ queuedRespawn \subseteq Players
    /\ pendingRef \in [Players -> 0 .. MaxJoined]
    /\ pendingRespawn \in [Players -> Times \cup {NoTime}]
    /\ asked \in [Players -> (0 .. MaxJoined) \X (Times \cup {NoTime})]

\* A respawn time that is written is the last that was asked for this very
\* player: none is written for who comes after, and none that was revoked.
DeferredCallsReachTheirPlayer ==
    [][\A c \in Players :
           (override'[c] # override[c] /\ override'[c] # NoTime) =>
               asked'[c] = <<who[c], override'[c]>>]_deferredVars
=============================================================================
