--------------------------- MODULE ItemGeneration ---------------------------
(***************************************************************************)
(* How plugins take part in the items the game gives                       *)
(* (weapons_ext/src/items/extension.cpp).  The first player of a kind gets *)
(* the game's GiveNamedItem hooked for every player of that kind; the hook *)
(* runs a forward in which a plugin may answer with an override, an object *)
(* plugins build through natives and may also give directly.               *)
(*                                                                         *)
(* Of an override the classname, the level and the values of attributes    *)
(* are left out: they are set and taken over as the definition is.         *)
(***************************************************************************)
EXTENDS WeaponWorld

CONSTANTS
    Bots,          \* player slots of the game's own bots
    Definitions,   \* item definitions
    Qualities,     \* item qualities, 0 being a stock item's
    Attributes,    \* attribute definitions; 0 is none
    MaxAttributes, \* g_MaxAttributes
    FlagSets,      \* flags plugins put on overrides
    MaxSets        \* bound on what plugins set on overrides

ItemsAssumption ==
    /\ Players = 1 .. Cardinality(Players)
    /\ Bots \subseteq Players
    /\ 0 \in Qualities /\ 0 \in Definitions
    /\ 0 \notin Attributes
    /\ MaxAttributes \in Nat \ {0}
    /\ FlagSets \subseteq SUBSET {"definition", "quality", "attributes", "preserve"}
    /\ MaxSets \in Nat

Kinds == {"player", "bot"}
Phases == {"pre", "post"}

VARIABLES
    itemsPhase,   \* how far the module is loaded, or unloaded
    botHook,      \* tf2items_bothook
    botHookKept,  \* the convar has been on since the module was loaded
    giveHook,     \* giveHook[k][p]: kind of the table a hook is in, or "none"
    viewSeeded,   \* an item view has been seen, so that one can be made
    override,     \* the object of the handle a plugin holds, or NoOverride
    sets,         \* what plugins have set so far
    given         \* the item given last and how often the plugins were asked

items == <<itemsPhase, botHook, botHookKept, giveHook, viewSeeded, override, sets,
           given>>

Indexes == 0 .. MaxAttributes - 1
Cleared == [flags |-> {}, definition |-> 0, quality |-> 0, count |-> 0,
            attributes |-> [i \in Indexes |-> 0]]
NoOverride == [Cleared EXCEPT !.count = -1]
Overrides == [flags : FlagSets \cup {{}}, definition : Definitions, quality : Qualities,
              count : Indexes, attributes : [Indexes -> Attributes \cup {0}]]

\* An item as a view describes it; static tells whether the attributes of its
\* definition count too.
StockItem == [definition |-> 0, quality |-> 0, attributes |-> {}, static |-> TRUE]
Items == [definition : Definitions, quality : Qualities,
          attributes : SUBSET (Attributes \cup {0}), static : BOOLEAN]

ItemsTypeOK ==
    /\ itemsPhase \in {"away", "loaded", "unhooked", "released"}
    /\ {botHook, botHookKept, viewSeeded} \subseteq BOOLEAN
    /\ giveHook \in [Kinds -> [Phases -> Kinds \cup {"none"}]]
    /\ override \in Overrides \cup {NoOverride}
    /\ sets \in 0 .. MaxSets
    /\ given \in [view : Items, item : Items, asked : 0 .. 2, told : 0 .. 2]

NoHooks == [k \in Kinds |-> [p \in Phases |-> "none"]]

InitItems ==
    /\ itemsPhase = "away"
    /\ botHook = TRUE
    /\ botHookKept = TRUE
    /\ giveHook = NoHooks
    /\ viewSeeded = FALSE
    /\ override = NoOverride
    /\ sets = 0
    /\ given = [view |-> StockItem, item |-> StockItem, asked |-> 0, told |-> 0]

-----------------------------------------------------------------------------
(* Hooks. *)

giveForwards == itemsPhase \in {"loaded", "unhooked"}
itemsKnown == itemsPhase = "loaded"

Kind(c) == IF c \in Bots THEN "bot" ELSE "player"

\* Hook_ClientPutInServer: which pair of hooks a player of a kind sees to.
Pair_PlayersOnly(kind) == "player"
Pair(kind) == IF botHook /\ kind = "bot" THEN "bot" ELSE "player"

Hooked(hooks, kind) ==
    [hooks EXCEPT ![Pair(kind)] =
        [p \in Phases |-> IF @[p] = "none" THEN kind ELSE @[p]]]

ItemsSeePlayer(c) ==
    /\ giveHook' = IF itemsKnown THEN Hooked(giveHook, Kind(c)) ELSE giveHook
    /\ UNCHANGED <<itemsPhase, botHook, botHookKept, viewSeeded, override, sets, given>>

\* SDK_OnLoad, which sees the players who are there, in the order of their slots.
HookedInOrder[c \in 0 .. Cardinality(Players)] ==
    IF c = 0 THEN giveHook
    ELSE IF c \in Players /\ InGame(c) THEN Hooked(HookedInOrder[c - 1], Kind(c))
    ELSE HookedInOrder[c - 1]

ItemsLoad ==
    /\ itemsPhase = "away"
    /\ itemsPhase' = "loaded"
    /\ botHookKept' = botHook
    /\ giveHook' = HookedInOrder[Cardinality(Players)]
    /\ UNCHANGED <<botHook, viewSeeded, override, sets, given>>

\* SDK_OnUnload: the hooks of SDK_OnMetamodUnload first, then the handles with their
\* objects and the forwards.
Unhooked == [giveHook EXCEPT !["player"] = [p \in Phases |-> "none"]]

ItemsUnload ==
    /\ itemsPhase = "loaded"
    /\ itemsPhase' = "unhooked"
    /\ giveHook' = Unhooked
    /\ UNCHANGED <<botHook, botHookKept, viewSeeded, override, sets, given>>

ItemsRelease ==
    /\ itemsPhase = "unhooked"
    /\ itemsPhase' = "released"
    /\ override' = NoOverride
    /\ UNCHANGED <<botHook, botHookKept, giveHook, viewSeeded, sets, given>>

\* Metamod then lets go of the extension, with the hooks it left and the variables of
\* its image, before the game goes on.
ItemsGone ==
    /\ itemsPhase = "released"
    /\ itemsPhase' = "away"
    /\ giveHook' = NoHooks
    /\ botHook' = TRUE
    /\ viewSeeded' = FALSE
    /\ UNCHANGED <<botHookKept, override, sets, given>>

GameGoesOn == itemsPhase \in {"away", "loaded"}

ChangeBotHook ==
    /\ itemsKnown
    /\ botHook' = ~botHook
    /\ botHookKept' = FALSE
    /\ UNCHANGED <<itemsPhase, giveHook, viewSeeded, override, sets, given>>

\* ItemsSeedView: another module hands over a view.
SeedView ==
    /\ itemsKnown
    /\ viewSeeded' = TRUE
    /\ UNCHANGED <<itemsPhase, botHook, botHookKept, giveHook, override, sets, given>>

-----------------------------------------------------------------------------
(* The natives on overrides.  One that is given no handle does nothing. *)

CreateItem(flags) ==
    /\ itemsKnown
    /\ override = NoOverride
    /\ override' = [Cleared EXCEPT !.flags = flags]
    /\ UNCHANGED <<itemsPhase, botHook, botHookKept, giveHook, viewSeeded, sets, given>>

\* OnHandleDestroy
CloseItem ==
    /\ override # NoOverride
    /\ override' = NoOverride
    /\ UNCHANGED <<itemsPhase, botHook, botHookKept, giveHook, viewSeeded, sets, given>>

Set(o) ==
    /\ itemsKnown
    /\ override # NoOverride
    /\ sets < MaxSets
    /\ sets' = sets + 1
    /\ override' = o
    /\ UNCHANGED <<itemsPhase, botHook, botHookKept, giveHook, viewSeeded, given>>

SetFlags(flags) == Set([override EXCEPT !.flags = flags])
SetItemIndex(d) == Set([override EXCEPT !.definition = d])
SetQuality(q) == Set([override EXCEPT !.quality = q])
SetNumAttributes(n) ==
    /\ 0 <= n /\ n < MaxAttributes
    /\ Set([override EXCEPT !.count = n])
SetAttribute(i, a) ==
    /\ 0 <= i /\ i < MaxAttributes
    /\ a # 0
    /\ Set([override EXCEPT !.attributes[i] = a])

-----------------------------------------------------------------------------
(* Items given. *)

Listed(o) == {o.attributes[i] : i \in 0 .. o.count - 1}

\* Hook_GiveNamedItem when the forward answers with an override: what the game is
\* asked for instead.
StockKept_Dropped(view, item) == item
StockKept(view, item) == IF view.quality = 0 THEN [item EXCEPT !.quality = 0] ELSE item

Overridden(view, o) ==
    StockKept(view,
      [definition |-> IF "definition" \in o.flags THEN o.definition ELSE view.definition,
       quality    |-> IF "quality" \in o.flags THEN o.quality ELSE view.quality,
       attributes |-> IF "attributes" \in o.flags THEN Listed(o) ELSE view.attributes,
       static     |-> view.static /\ ("attributes" \in o.flags => "preserve" \in o.flags)])

HooksOn(c, phase) == Cardinality({k \in Kinds : giveHook[k][phase] = Kind(c)})

\* Each hook on the player's table asks the plugins, who let the item be, answer with
\* the override or keep it from being given.
After[n \in 0 .. 2, view \in Items] ==
    IF n = 0 THEN {view}
    ELSE UNION {{item} \cup (IF override = NoOverride THEN {} ELSE {Overridden(item, override)}) :
                item \in After[n - 1, view]}

GameGivesItem(c, view) ==
    /\ GameGoesOn /\ InGame(c)
    /\ \/ \E item \in After[HooksOn(c, "pre"), view] :
             given' = [view |-> view, item |-> item, asked |-> HooksOn(c, "pre"),
                       told |-> HooksOn(c, "post")]
       \/ HooksOn(c, "pre") > 0 /\ UNCHANGED given
    /\ viewSeeded' = (viewSeeded \/ HooksOn(c, "pre") > 0)
    /\ UNCHANGED <<itemsPhase, botHook, botHookKept, giveHook, override, sets>>

\* The native, which calls the game past the hooks and tells the plugins itself; the
\* game may refuse.
PluginGivesItem(c) ==
    /\ itemsKnown /\ viewSeeded
    /\ InGame(c)
    /\ override # NoOverride
    /\ LET item == [definition |-> override.definition, quality |-> override.quality,
                    attributes |-> Listed(override), static |-> "preserve" \in override.flags]
       IN  given' = [view |-> item, item |-> item, asked |-> 0, told |-> 1]
    /\ UNCHANGED <<itemsPhase, botHook, botHookKept, giveHook, viewSeeded, override,
                   sets>>

-----------------------------------------------------------------------------

NextItems ==
    \/ GameGoesOn /\ \E c \in Players : Join(c) /\ ItemsSeePlayer(c)
    \/ GameGoesOn /\ \E c \in Players : Leave(c) /\ UNCHANGED items
    \/ /\ UNCHANGED world
       /\ \/ ItemsLoad \/ ItemsUnload \/ ItemsRelease \/ ItemsGone
          \/ ChangeBotHook \/ SeedView
          \/ \E flags \in FlagSets : CreateItem(flags) \/ SetFlags(flags)
          \/ CloseItem
          \/ \E d \in Definitions : SetItemIndex(d)
          \/ \E q \in Qualities : SetQuality(q)
          \/ \E n \in -1 .. MaxAttributes : SetNumAttributes(n)
          \/ \E i \in -1 .. MaxAttributes, a \in Attributes \cup {0} : SetAttribute(i, a)
          \/ \E c \in Players : PluginGivesItem(c)
          \/ \E c \in Players, d \in Definitions, q \in Qualities :
                GameGivesItem(c, [StockItem EXCEPT !.definition = d, !.quality = q])

ItemsSpec == InitWorld /\ InitItems /\ [][NextItems]_<<world, items>>

\* As long as the hook on bots has not been switched, the plugins are asked once and
\* told once about every item of every player, whoever joined first.
ItemsAreAnnouncedOnce ==
    itemsKnown /\ botHookKept =>
        \A c \in Players, p \in Phases : InGame(c) => HooksOn(c, p) = 1

\* An override never turns a stock item into one of another quality.
StockItemsStayStock == given.view.quality = 0 /\ given.asked > 0 => given.item.quality = 0
=============================================================================
