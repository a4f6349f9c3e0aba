----------------------------- MODULE ConchBuffs -----------------------------
(***************************************************************************)
(* The concheror's healing buff without its speed                          *)
(* (weapons_ext/src/conch/extension.cpp).  The game adds a speed boost     *)
(* while it adds the buff and removes it while it removes the buff; for a  *)
(* player whose buff a plugin asked for, both are kept from happening.     *)
(* Conditions that change run plugins, which may change conditions again   *)
(* before the first call has returned.                                     *)
(*                                                                         *)
(* How the game treats conditions is modelled from what the detours rely   *)
(* on: assumed of it is that AddCond always gives the buff and RemoveCond  *)
(* always takes it.  A game that refused a buff would leave `noSpeed' of a *)
(* player without one (conch/extension.cpp sets it before it calls), so    *)
(* BlocksEndWithTheirCall rests on that.  Durations and providers are left *)
(* out: a buff may end at any time.                                        *)
(***************************************************************************)
EXTENDS WeaponWorld

CONSTANT MaxCallDepth  \* bound on calls inside one another

ConchAssumption == MaxCallDepth \in Nat

VARIABLES
    conchLoaded,  \* detours installed
    wrappers,     \* of AddCond and RemoveCond, made at the first native
    noSpeed,      \* noSpeed[c]: m_noSpeedRegen
    addDepth,     \* addDepth[c]: m_blockSpeedAddDepth
    removeDepth,  \* removeDepth[c]: m_blockSpeedRemoveDepth
    condCalls,    \* calls of the game's functions under way, innermost last
    regen,        \* players with the buff
    speed         \* speed[c]: whether c is boosted, and by what

conch == <<conchLoaded, wrappers, noSpeed, addDepth, removeDepth, condCalls, regen, speed>>

\* Of a call: whether the module wraps it, whether a native made it, and whether the
\* game has yet to treat the speed that goes with it.
CondCalls == [op : {"add", "remove"}, client : Players, wrapped : BOOLEAN, native : BOOLEAN,
              due : BOOLEAN]

ConchTypeOK ==
    /\ conchLoaded \in BOOLEAN
    /\ wrappers \subseteq {"add", "remove"}
    /\ noSpeed \in [Players -> BOOLEAN]
    /\ addDepth \in [Players -> 0 .. MaxCallDepth]
    /\ removeDepth \in [Players -> 0 .. MaxCallDepth]
    /\ condCalls \in Seq(CondCalls) /\ Len(condCalls) <= MaxCallDepth
    /\ regen \subseteq Players
    /\ speed \in [Players -> {"none", "own", "buff"}]

InitConch ==
    /\ conchLoaded = TRUE
    /\ wrappers = {}
    /\ noSpeed = [c \in Players |-> FALSE]
    /\ addDepth = [c \in Players |-> 0]
    /\ removeDepth = [c \in Players |-> 0]
    /\ condCalls = <<>>
    /\ regen = {}
    /\ speed = [c \in Players |-> "none"]

-----------------------------------------------------------------------------
(* The detours of AddCond and RemoveCond. *)

ShouldBlockSpeedAdd(c) == addDepth[c] > 0
ShouldBlockSpeedRemove(c) == removeDepth[c] > 0

\* A call that begins, given whose buffs are without speed by then.
Enter(op, c, flagged, native) ==
    /\ Len(condCalls) < MaxCallDepth
    /\ LET wrapped == conchLoaded /\ flagged[c]
           more(depth) == [depth EXCEPT ![c] = @ + 1]
       IN  /\ condCalls' = Append(condCalls,
                 [op |-> op, client |-> c, wrapped |-> wrapped, native |-> native,
                  due |-> TRUE])
           /\ addDepth' = IF wrapped /\ op = "add" THEN more(addDepth) ELSE addDepth
           /\ removeDepth' = IF wrapped /\ op = "remove" THEN more(removeDepth) ELSE removeDepth
    /\ regen' = IF op = "add" THEN regen \cup {c} ELSE regen \ {c}

\* The end of the innermost call.  EndBlockSpeedAdd and EndBlockSpeedRemove.
Less_Reset(depth, c) == [depth EXCEPT ![c] = 0]
Less(depth, c) == IF depth[c] > 0 THEN [depth EXCEPT ![c] = @ - 1] ELSE depth

Forgets_Never(call) == FALSE
Forgets(call) == call.op = "remove" /\ (call.wrapped \/ call.native)

ReturnFromCall ==
    /\ condCalls # <<>>
    /\ LET call == condCalls[Len(condCalls)]
           c == call.client
       IN  /\ ~call.due
           /\ condCalls' = SubSeq(condCalls, 1, Len(condCalls) - 1)
           /\ addDepth' = IF call.wrapped /\ call.op = "add" THEN Less(addDepth, c) ELSE addDepth
           /\ removeDepth' = IF call.wrapped /\ call.op = "remove"
                             THEN Less(removeDepth, c) ELSE removeDepth
           /\ noSpeed' = IF Forgets(call) THEN [noSpeed EXCEPT ![c] = FALSE] ELSE noSpeed
    /\ UNCHANGED <<conchLoaded, wrappers, regen, speed>>

-----------------------------------------------------------------------------
(* The game. *)

\* A real conch, a buff that ends, and the speed boosts of other weapons.
GameAddsBuff(c) ==
    /\ InGame(c)
    /\ Enter("add", c, noSpeed, FALSE)
    /\ UNCHANGED <<conchLoaded, wrappers, noSpeed, speed>>

GameRemovesBuff(c) ==
    /\ c \in regen
    /\ Enter("remove", c, noSpeed, FALSE)
    /\ UNCHANGED <<conchLoaded, wrappers, noSpeed, speed>>

\* The speed that goes with the buff, while the buff is added or removed.
GameTreatsSpeed ==
    /\ condCalls # <<>>
    /\ LET n == Len(condCalls)
           c == condCalls[n].client
       IN  /\ condCalls[n].due
           /\ condCalls' = [condCalls EXCEPT ![n].due = FALSE]
           /\ IF condCalls[n].op = "add"
              THEN speed' = IF ShouldBlockSpeedAdd(c) THEN speed ELSE [speed EXCEPT ![c] = "buff"]
              ELSE speed' = IF ShouldBlockSpeedRemove(c) THEN speed ELSE [speed EXCEPT ![c] = "none"]
    /\ UNCHANGED <<conchLoaded, wrappers, noSpeed, addDepth, removeDepth, regen>>

GameBoosts(c) ==
    /\ InGame(c)
    /\ ~ShouldBlockSpeedAdd(c)
    /\ speed' = [speed EXCEPT ![c] = "own"]
    /\ UNCHANGED <<conchLoaded, wrappers, noSpeed, addDepth, removeDepth, condCalls, regen>>

\* OnClientDisconnecting; the player's conditions go with it.
ConchForgets(c) ==
    /\ noSpeed' = [noSpeed EXCEPT ![c] = FALSE]
    /\ addDepth' = [addDepth EXCEPT ![c] = 0]
    /\ removeDepth' = [removeDepth EXCEPT ![c] = 0]
    /\ regen' = regen \ {c}
    /\ speed' = [speed EXCEPT ![c] = "none"]
    /\ condCalls' = [i \in DOMAIN condCalls |->
          IF condCalls[i].client = c THEN [condCalls[i] EXCEPT !.due = FALSE] ELSE condCalls[i]]
    /\ UNCHANGED <<conchLoaded, wrappers>>

-----------------------------------------------------------------------------
(* Natives.  SetupCalls makes what is still missing, and may fail half way. *)

SetupCallsFails ==
    /\ conchLoaded
    /\ "remove" \notin wrappers
    /\ \/ UNCHANGED wrappers
       \/ wrappers' = wrappers \cup {"add"}
    /\ UNCHANGED <<conchLoaded, noSpeed, addDepth, removeDepth, condCalls, regen, speed>>

AddRegenBuff(c) ==
    /\ conchLoaded /\ InGame(c)
    /\ wrappers' = {"add", "remove"}
    /\ noSpeed' = [noSpeed EXCEPT ![c] = TRUE]
    /\ Enter("add", c, noSpeed', TRUE)
    /\ UNCHANGED <<conchLoaded, speed>>

RemoveRegenBuff(c) ==
    /\ conchLoaded /\ InGame(c)
    /\ wrappers' = {"add", "remove"}
    /\ Enter("remove", c, noSpeed, TRUE)
    /\ UNCHANGED <<conchLoaded, noSpeed, speed>>

\* SDK_OnUnload ends the buffs plugins asked for, through the wrapper and with the
\* detours still there.
ConchUnloads ==
    /\ conchLoaded
    /\ condCalls = <<>>
    /\ conchLoaded' = FALSE
    /\ wrappers' = {}
    /\ regen' = IF "remove" \in wrappers THEN {c \in regen : ~noSpeed[c]} ELSE regen
    /\ noSpeed' = [c \in Players |-> FALSE]
    /\ addDepth' = [c \in Players |-> IF noSpeed[c] THEN 0 ELSE addDepth[c]]
    /\ removeDepth' = [c \in Players |-> IF noSpeed[c] THEN 0 ELSE removeDepth[c]]
    /\ UNCHANGED <<condCalls, speed>>

-----------------------------------------------------------------------------

NextConch ==
    \/ condCalls = <<>> /\ UNCHANGED conch /\ \E c \in Players : Join(c)
    \/ \E c \in Players : Leave(c) /\ ConchForgets(c)
    \/ /\ UNCHANGED world
       /\ \/ \E c \in Players : \/ GameAddsBuff(c) \/ GameRemovesBuff(c) \/ GameBoosts(c)
                                \/ AddRegenBuff(c) \/ RemoveRegenBuff(c)
          \/ GameTreatsSpeed
          \/ ReturnFromCall
          \/ SetupCallsFails
          \/ ConchUnloads

ConchSpec == InitWorld /\ InitConch /\ [][NextConch]_<<world, conch>>

\* The buff a plugin asked for never boosts a player: however calls nest, the speed
\* that goes with a wrapped call is kept from happening.
NoSpeedFromBuff ==
    [][\A c \in Players : speed'[c] = "buff" /\ speed[c] # "buff" =>
          ~condCalls[Len(condCalls)].wrapped]_<<world, conch>>

\* Between calls nothing is blocked any more, and, of a game that always gives the
\* buff it is asked for, only a buff that is there is without speed.
BlocksEndWithTheirCall ==
    condCalls = <<>> => \A c \in Players :
        /\ addDepth[c] = 0 /\ removeDepth[c] = 0
        /\ noSpeed[c] => c \in regen

=============================================================================
