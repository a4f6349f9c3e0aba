---------------------------- MODULE ToolsNatives ----------------------------
(***************************************************************************)
(* What the TF2 tools take when they are loaded, the calls into the game   *)
(* their natives make, and what they give back (weapons_ext/src/tf2tools/: *)
(* extension.cpp, natives.cpp, RegNatives.cpp, util.cpp).  A native makes  *)
(* the wrapper of its call when it is first used and keeps a pointer to it *)
(* for as long as the library is there; RegNatives destroys all wrappers   *)
(* at once.                                                                *)
(*                                                                         *)
(* What the calls do is the game's.                                        *)
(***************************************************************************)
EXTENDS Integers, FiniteSets

CONSTANTS
    Members,    \* slots of players
    Wearables,  \* entities that are no players
    Gamedata,   \* what a sm-tf2.games file may locate: sets of functions
    MaxHeld     \* bound on wrappers made by one load

NoEntity == 0

GameCalls ==
    {"MakeBleed", "Burn", "Disguise", "RemoveDisguise", "AddCondition",
     "RemoveCondition", "StunPlayer", "SetPowerplayEnabled", "ForceRespawn",
     "Regenerate", "IsPlayerInDuel", "IsHolidayActive", "RemoveWearable"}

NativesAssumption ==
    /\ NoEntity \notin Members \cup Wearables /\ Members \cap Wearables = {}
    /\ Gamedata \subseteq SUBSET GameCalls /\ Gamedata # {}
    /\ MaxHeld \in Nat

VARIABLES
    phase,      \* of the module: "out", "attached", "loaded" or "ready"
    acquired,   \* what it has taken of SourceMod, Metamod and the game
    located,    \* functions the gamedata it has read locates
    sdktools,   \* g_pSDKTools is set
    entities,   \* entities there are
    held,       \* functions whose native holds a wrapper
    wrappers,   \* m_Natives
    live,       \* wrappers that have not been destroyed
    outcome     \* of the last native: "none", "error" or "acted"

natives == <<phase, acquired, located, sdktools, entities, held, wrappers, live, outcome>>

AtAttach == {"activation", "events"}
AtLoad == {"offset", "config", "natives", "plugins", "targets", "forwards", "convars", "holiday"}

NativesTypeOK ==
    /\ phase \in {"out", "attached", "loaded", "ready"}
    /\ acquired \subseteq AtAttach \cup AtLoad \cup {"listener"}
    /\ {located, held, wrappers, live} \subseteq SUBSET GameCalls
    /\ sdktools \in BOOLEAN
    /\ entities \subseteq Members \cup Wearables
    /\ outcome \in {"none", "error", "acted"}

InitNatives ==
    /\ phase = "out" /\ acquired = {} /\ sdktools = FALSE
    /\ located = {} /\ entities = {} /\ held = {} /\ wrappers = {} /\ live = {}
    /\ outcome = "none"

-----------------------------------------------------------------------------
(* The life of the module. *)

\* RegNatives::UnregisterAll
Destroyed(ws) == {}

\* SDK_OnUnload, then SDK_OnMetamodUnload; the library goes with them, and so do the
\* pointers the natives hold.
Released_Ready(taken) ==
    (IF "natives" \in taken THEN taken \ (AtLoad \cup {"listener"}) ELSE taken) \ AtAttach
Released(taken) ==
    (IF "natives" \in taken THEN taken \ (AtLoad \cup {"listener"})
                            ELSE taken \ {"config", "offset"}) \ AtAttach

GivesBack(taken) ==
    /\ phase' = "out"
    /\ acquired' = Released(taken)
    /\ live' = Destroyed(wrappers)
    /\ located' = {} /\ held' = {} /\ wrappers' = {}
    /\ outcome' = "none"

\* SDK_OnMetamodLoad, which may lack an interface before the hook, after it, or not.
ToolsAttach(taken) ==
    /\ phase = "out"
    /\ taken \in {{}, {"activation"}, AtAttach}
    /\ IF taken = AtAttach
       THEN /\ phase' = "attached" /\ acquired' = taken
            /\ UNCHANGED <<located, held, wrappers, live, outcome>>
       ELSE GivesBack(acquired \cup taken)
    /\ UNCHANGED <<sdktools, entities>>

\* SDK_OnLoad, which may lack the class of players, the data table (the offset has been
\* allocated), the gamedata (so has it) or nothing.
ToolsLoads(taken) ==
    /\ phase = "attached"
    /\ taken \in {{}, {"offset"}, AtLoad}
    /\ IF taken = AtLoad
       THEN /\ phase' = "loaded" /\ acquired' = acquired \cup taken
            /\ located' \in Gamedata
            /\ UNCHANGED <<held, wrappers, live, outcome>>
       ELSE GivesBack(acquired \cup taken)
    /\ UNCHANGED <<sdktools, entities>>

\* SDK_OnAllLoaded: the optional interface may not be there.
AllLoaded(tools) ==
    /\ phase = "loaded"
    /\ phase' = "ready" /\ sdktools' = tools
    /\ acquired' = acquired \cup {"listener"}
    /\ UNCHANGED <<located, entities, held, wrappers, live, outcome>>

ToolsGo ==
    /\ phase \in {"loaded", "ready"}
    /\ GivesBack(acquired)
    /\ sdktools' = FALSE
    /\ UNCHANGED entities

\* QueryInterfaceDrop: TF2Tools asks the interface it derives from about all it has no
\* objection to, and that says no.
BaseMayDrop(i) == FALSE
MayDrop_Optional(i) == i = "sdktools"
MayDrop(i) == i \notin {"bintools", "sdkhooks"} /\ BaseMayDrop(i)

\* SourceMod unloads an extension that says no, and tells one that does not:
\* NotifyInterfaceDrop.
InterfaceDrops(i) ==
    /\ phase = "ready"
    /\ sdktools' = FALSE
    /\ IF MayDrop(i)
       THEN /\ live' = Destroyed(wrappers) /\ wrappers' = {}
            /\ UNCHANGED <<phase, acquired, located, held, outcome>>
       ELSE GivesBack(acquired)
    /\ UNCHANGED entities

-----------------------------------------------------------------------------
(* Natives. *)

\* UTIL_GetCBaseEntity
IsPlayer(e) == e \in entities \cap Members
IsEntity(e) == e \in entities

\* REGISTER_NATIVE_ADDR, and its like for virtual functions: the wrapper is made before
\* the arguments are looked at.
Call(f, valid) ==
    /\ phase = "ready"
    /\ f \in held \/ Cardinality(held) < MaxHeld
    /\ LET made == {f} \cap (located \ held)
       IN  /\ held' = held \cup made
           /\ wrappers' = wrappers \cup made
           /\ live' = live \cup made
    /\ outcome' = IF f \in held' /\ valid THEN "acted" ELSE "error"
    /\ UNCHANGED <<phase, acquired, located, sdktools, entities>>

TF2_MakeBleed(c, attacker) == Call("MakeBleed", IsPlayer(c) /\ IsPlayer(attacker))
TF2_Burn(c, target) == Call("Burn", IsPlayer(c) /\ IsPlayer(target))
TF2_Disguise(c, target) ==
    Call("Disguise", IsPlayer(c) /\ (target # NoEntity => IsPlayer(target)))
TF2_RemoveDisguise(c) == Call("RemoveDisguise", IsPlayer(c))
TF2_AddCondition(c, inflictor) ==
    Call("AddCondition", IsPlayer(c) /\ (inflictor # NoEntity => IsPlayer(inflictor)))
TF2_RemoveCondition(c) == Call("RemoveCondition", IsPlayer(c))
TF2_StunPlayer(c, attacker) ==
    Call("StunPlayer", IsPlayer(c) /\ (attacker # NoEntity => IsPlayer(attacker)))
TF2_SetPowerplayEnabled(c) == Call("SetPowerplayEnabled", IsPlayer(c))
TF2_Respawn(c) == Call("ForceRespawn", IsPlayer(c))
TF2_Regenerate(c) == Call("Regenerate", IsPlayer(c))
TF2_IsPlayerInDuel(c) == Call("IsPlayerInDuel", IsPlayer(c))
TF2_RemoveWearable(c, wearable) ==
    Call("RemoveWearable", IsPlayer(c) /\ IsEntity(wearable))

\* The game rules are asked for before the wrapper is made.
TF2_IsHolidayActive(rules) ==
    IF sdktools /\ rules THEN Call("IsHolidayActive", TRUE)
    ELSE /\ phase = "ready"
         /\ outcome' = "error"
         /\ UNCHANGED <<phase, acquired, located, sdktools, entities, held, wrappers, live>>

\* Players and wearables come and go.
EntityChanges(e) ==
    /\ entities' = IF e \in entities THEN entities \ {e} ELSE entities \cup {e}
    /\ UNCHANGED <<phase, acquired, located, sdktools, held, wrappers, live, outcome>>

-----------------------------------------------------------------------------

OneOf(c) ==
    \/ TF2_RemoveDisguise(c) \/ TF2_RemoveCondition(c) \/ TF2_SetPowerplayEnabled(c)
    \/ TF2_Respawn(c) \/ TF2_Regenerate(c) \/ TF2_IsPlayerInDuel(c)

TwoOf(c, e) ==
    \/ TF2_MakeBleed(c, e) \/ TF2_Burn(c, e) \/ TF2_Disguise(c, e) \/ TF2_AddCondition(c, e)
    \/ TF2_StunPlayer(c, e) \/ TF2_RemoveWearable(c, e)

NextNatives ==
    \/ \E taken \in SUBSET (AtAttach \cup AtLoad) : ToolsAttach(taken) \/ ToolsLoads(taken)
    \/ \E there \in BOOLEAN : AllLoaded(there) \/ TF2_IsHolidayActive(there)
    \/ ToolsGo
    \/ \E i \in {"bintools", "sdkhooks", "sdktools"} : InterfaceDrops(i)
    \/ \E c \in Members : OneOf(c)
    \/ \E c \in Members, e \in Members \cup Wearables \cup {NoEntity} : TwoOf(c, e)
    \/ \E e \in Members \cup Wearables : EntityChanges(e)

NativesSpec == InitNatives /\ [][NextNatives]_natives

\* The wrapper a native holds is one that has not been destroyed, also after an
\* interface has gone, and one that is not destroyed is held: RegNatives knows it.
WrappersAreLive == held = live /\ wrappers = live

\* Whatever the load of the module lacked, it has given back what it had taken.
NothingIsLeft == phase = "out" => acquired = {} /\ live = {}

=============================================================================
