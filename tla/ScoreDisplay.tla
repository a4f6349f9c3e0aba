---------------------------- MODULE ScoreDisplay ----------------------------
(***************************************************************************)
(* The restored score (src/extensions/restore_score): a plugin gives every *)
(* client an offset, and a send proxy adds it to the score whenever the    *)
(* engine encodes the scoreboard.  The engine encodes a row again only     *)
(* when the entity is marked changed, so everything the proxy looks at has *)
(* to mark it: the offset, the owner's pause, the unloading.               *)
(***************************************************************************)
EXTENDS Integers, FiniteSets

CONSTANTS
    Clients,
    ScorePlugins,       \* plugins that may use the natives
    NoPlugin,
    Scores,             \* the game's scores
    Offsets,
    IntMax,             \* INT_MAX
    MaxConnects         \* bound of the model

ASSUME ScoreAssumption ==
    /\ NoPlugin \notin ScorePlugins
    /\ IntMax \in Nat /\ Scores \subseteq 0 .. IntMax /\ Scores # {}
    /\ Offsets \subseteq Int /\ MaxConnects \in Nat

VARIABLES
    installed,          \* the proxies are in place
    owner, paused,
    loaded,             \* loaded plugins
    offset,             \* slots[c].offset
    worldActive,
    map,                \* "none", "loading", "running"
    present,            \* clients in their slots
    connects,           \* players that came to slot c so far
    setFor,             \* which of them the offset was set for
    score, listed,      \* m_iTotalScore and m_bConnected of the entity
    changed,            \* rows marked changed
    wire                \* rows as they were encoded last

gameVars == <<map, present, connects, score, listed>>
displayVars == <<installed, owner, paused, loaded, offset, worldActive, setFor,
                 changed, wire, gameVars>>

InitDisplay ==
    /\ installed = FALSE /\ owner = NoPlugin /\ paused = FALSE
    /\ loaded = ScorePlugins
    /\ offset = [c \in Clients |-> 0] /\ worldActive = FALSE
    /\ map \in {"none", "running"} /\ present = {}
    /\ connects = [c \in Clients |-> 0] /\ setFor = [c \in Clients |-> 0]
    /\ score \in [Clients -> Scores] /\ listed = {}
    /\ changed = {} /\ wire = score

Calculate(raw, o) ==
    IF raw + o <= 0 THEN 0 ELSE IF raw + o >= IntMax THEN IntMax ELSE raw + o

\* What the proxy would write for the row.
ScoreProxy(c) ==
    IF installed /\ ~paused /\ worldActive /\ offset[c] # 0 /\ c \in listed
    THEN Calculate(score[c], offset[c]) ELSE score[c]

\* Entities may be looked at only while there is a world.
Dirty(rows) == IF worldActive THEN changed \cup rows ELSE changed

NoOffsets == [c \in Clients |-> 0]
DirtyIfOffsets == IF offset # NoOffsets THEN Dirty(Clients) ELSE changed

----------------------------------------------------------------------------

DisplayLoads ==
    /\ ~installed
    /\ installed' = TRUE
    /\ worldActive' = (map = "running")
    /\ changed' = IF worldActive' THEN Clients ELSE changed
    /\ UNCHANGED <<owner, paused, loaded, offset, setFor, wire, gameVars>>

\* The extension's memory goes with it.
DisplayUnloads ==
    /\ installed
    /\ installed' = FALSE
    /\ offset' = NoOffsets
    /\ changed' = Dirty(Clients)
    /\ owner' = NoPlugin /\ paused' = FALSE /\ worldActive' = FALSE
    /\ UNCHANGED <<loaded, setFor, wire, gameVars>>

\* One plugin controls the display until it is unloaded.
Claims(p) == owner \in {NoPlugin, p} /\ p \in loaded /\ ~(paused /\ owner = p)

SetOffset(p, c, o) ==
    /\ installed /\ Claims(p)
    /\ owner' = p
    /\ offset' = [offset EXCEPT ![c] = o]
    /\ setFor' = [setFor EXCEPT ![c] = connects[c]]
    /\ changed' = IF offset[c] # o THEN Dirty({c}) ELSE changed
    /\ UNCHANGED <<installed, paused, loaded, worldActive, wire, gameVars>>

ResetOffsets(p) ==
    /\ installed /\ Claims(p)
    /\ owner' = p
    /\ offset' = NoOffsets /\ changed' = DirtyIfOffsets
    /\ UNCHANGED <<installed, paused, loaded, setFor, worldActive, wire, gameVars>>

Forgotten_OnLeaving(c) == IF c \in present THEN [offset EXCEPT ![c] = 0] ELSE offset
Forgotten(c) == [offset EXCEPT ![c] = 0]

\* OnClientConnected and OnClientDisconnected.
Forget(c) ==
    /\ offset' = IF installed THEN Forgotten(c) ELSE offset
    /\ changed' = IF offset[c] # 0 THEN Dirty({c}) ELSE changed
    /\ UNCHANGED <<installed, owner, paused, loaded, setFor, worldActive, wire,
                   map, score, listed>>

ClientConnects(c) ==
    /\ map # "none" /\ c \notin present /\ connects[c] < MaxConnects
    /\ present' = present \cup {c}
    /\ connects' = [connects EXCEPT ![c] = @ + 1]
    /\ Forget(c)

ClientDisconnects(c) ==
    /\ c \in present
    /\ present' = present \ {c}
    /\ UNCHANGED connects
    /\ Forget(c)

\* A plugin is unloaded or loaded; the owner takes its offsets along.
OwnerGone_OffsetsStay(p) ==
    /\ owner' = (IF p = owner THEN NoPlugin ELSE owner)
    /\ UNCHANGED <<offset, changed, paused>>
OwnerGone(p) ==
    IF p = owner
    THEN /\ offset' = NoOffsets /\ changed' = DirtyIfOffsets
         /\ owner' = NoPlugin /\ paused' = FALSE
    ELSE UNCHANGED <<offset, changed, owner, paused>>

ScorePluginUnloads(p) ==
    /\ p \in loaded
    /\ loaded' = loaded \ {p}
    /\ OwnerGone(p)
    /\ UNCHANGED <<installed, setFor, worldActive, wire, gameVars>>

ScorePluginLoads(p) ==
    /\ p \notin loaded
    /\ loaded' = loaded \cup {p}
    /\ UNCHANGED <<installed, owner, paused, offset, setFor, worldActive, changed,
                   wire, gameVars>>

DirtyOnPause_Never == changed
DirtyOnPause == Dirty(Clients)

OwnerPauses ==
    /\ owner # NoPlugin
    /\ paused' = ~paused
    /\ changed' = DirtyOnPause
    /\ UNCHANGED <<installed, owner, loaded, offset, setFor, worldActive, wire,
                   gameVars>>

----------------------------------------------------------------------------
(* Maps and the game.                                                      *)

\* Before anything is destroyed the display forgets everything.
LevelEnds ==
    /\ map = "running"
    /\ map' = "none"
    /\ worldActive' = FALSE
    /\ offset' = NoOffsets
    /\ UNCHANGED <<installed, owner, paused, loaded, setFor, changed, wire,
                   present, connects, score, listed>>

\* The entities of the next map: every row is new.
LevelLoads ==
    /\ map = "none"
    /\ map' = "loading"
    /\ listed' = {} /\ score' \in [Clients -> Scores]
    /\ changed' = Clients
    /\ UNCHANGED <<installed, owner, paused, loaded, offset, setFor, worldActive,
                   wire, present, connects>>

LevelStarts ==
    /\ map = "loading"
    /\ map' = "running"
    /\ worldActive' = installed
    /\ UNCHANGED <<installed, owner, paused, loaded, offset, setFor, changed,
                   wire, present, connects, score, listed>>

\* The scoreboard follows the game, marking the rows it changes.
ScoreChanges(c, s) ==
    /\ map = "running" /\ s # score[c]
    /\ score' = [score EXCEPT ![c] = s]
    /\ changed' = changed \cup {c}
    /\ UNCHANGED <<installed, owner, paused, loaded, offset, setFor, worldActive,
                   wire, map, present, connects, listed>>

RowFollows(c) ==
    /\ map = "running" /\ (c \in present) # (c \in listed)
    /\ listed' = IF c \in present THEN listed \cup {c} ELSE listed \ {c}
    /\ changed' = changed \cup {c}
    /\ UNCHANGED <<installed, owner, paused, loaded, offset, setFor, worldActive,
                   wire, map, present, connects, score>>

\* A snapshot encodes the rows that are marked; worker threads do it while
\* the main thread waits.
Encode ==
    /\ map = "running" /\ changed # {}
    /\ wire' = [c \in Clients |-> IF c \in changed THEN ScoreProxy(c) ELSE wire[c]]
    /\ changed' = {}
    /\ UNCHANGED <<installed, owner, paused, loaded, offset, setFor, worldActive,
                   gameVars>>

DisplayNext ==
    \/ DisplayLoads \/ DisplayUnloads
    \/ \E p \in ScorePlugins :
          \/ \E c \in Clients, o \in Offsets : SetOffset(p, c, o)
          \/ ResetOffsets(p) \/ ScorePluginUnloads(p) \/ ScorePluginLoads(p)
    \/ OwnerPauses
    \/ \E c \in Clients : \/ ClientConnects(c) \/ ClientDisconnects(c) \/ RowFollows(c)
                          \/ \E s \in Scores : ScoreChanges(c, s)
    \/ LevelEnds \/ LevelLoads \/ LevelStarts \/ Encode

DisplaySpec == InitDisplay /\ [][DisplayNext]_displayVars

----------------------------------------------------------------------------

DisplayTypeOK ==
    /\ {installed, paused, worldActive} \subseteq BOOLEAN
    /\ owner \in ScorePlugins \cup {NoPlugin} /\ loaded \subseteq ScorePlugins
    /\ offset \in [Clients -> Int]
    /\ map \in {"none", "loading", "running"}
    /\ present \subseteq Clients /\ listed \subseteq Clients /\ changed \subseteq Clients
    /\ connects \in [Clients -> Nat] /\ setFor \in [Clients -> Nat]
    /\ score \in [Clients -> Scores] /\ wire \in [Clients -> 0 .. IntMax]

\* What stands on the scoreboard is what the proxy would write now, unless
\* the row is marked to be encoded again: no change of an offset, of the
\* owner or of the map leaves an old score standing.
BoardIsCurrent ==
    map = "running" =>
        \A c \in Clients : c \in changed \/ wire[c] = ScoreProxy(c)

\* Nobody plays under an offset that was set before they came.
OffsetsAreThePlayers ==
    \A c \in present : offset[c] # 0 => setFor[c] = connects[c]

\* Offsets have an owner who can still take them back.
OffsetsAreOwned ==
    offset # NoOffsets => owner \in loaded
=============================================================================
