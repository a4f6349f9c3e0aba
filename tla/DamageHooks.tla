----------------------------- MODULE DamageHooks -----------------------------
(***************************************************************************)
(* The damage module of weapons_ext (src/extensions/weapons_ext/src/       *)
(* services/damage.cpp and damage_info.h).  The game's damage functions    *)
(* are detoured and call plugins, which may deal damage themselves: the    *)
(* calls nest.  What one call keeps for those below it, the crit of the    *)
(* hit for its hurt event and the scratch record a building's hit is       *)
(* classified with, is saved and restored by scopes.                       *)
(*                                                                         *)
(* `stack' holds the calls under way, the innermost last.  A damage record *)
(* is named by the depth of the call that owns it; only its crit type is   *)
(* kept: 0 none, 1 mini, 2 full.                                           *)
(***************************************************************************)
EXTENDS Integers, Sequences

CONSTANTS
    NoRecord,
    MaxDepth            \* bound of the model

Crits == 0 .. 2
NoCrit == -1            \* critContext outside OnTakeDamage_Alive
NoProbe == [rec |-> NoRecord, demote |-> FALSE]

ASSUME DamageAssumption == MaxDepth \in Nat /\ NoRecord \notin 1 .. MaxDepth

VARIABLES
    enabled,            \* the detours are enabled
    stack,
    critContext,
    probe,              \* classificationProbe
    ruled,              \* history: the last rules that returned, whether for a
                        \* scratch record, whether passed, and plugins told
    event               \* the last player_hurt: [mini, hit]

damageVars == <<enabled, stack, critContext, probe, ruled, event>>

InitDamage ==
    /\ enabled = FALSE /\ stack = <<>>
    /\ critContext = NoCrit /\ probe = NoProbe
    /\ ruled = [scratch |-> FALSE, passed |-> FALSE, told |-> FALSE]
    /\ event = [mini |-> FALSE, hit |-> NoCrit]

Depth == Len(stack)
Top == stack[Depth]
Call(kind, rec, crit) ==
    [kind |-> kind, rec |-> rec, crit |-> crit, hit |-> NoCrit,
     context |-> critContext, probe |-> probe]
Pop == SubSeq(stack, 1, Depth - 1)
In(kind) == stack # <<>> /\ Top.kind = kind

\* The calls in which the game or a plugin may deal damage: all but the
\* building's own steps around its classification.
Open == Depth < MaxDepth /\ enabled /\ ~In("classify")

DamageLoads ==
    /\ ~enabled
    /\ enabled' = TRUE
    /\ UNCHANGED <<stack, critContext, probe, ruled, event>>

DamageUnloads ==
    /\ enabled /\ stack = <<>>
    /\ enabled' = FALSE
    /\ critContext' = NoCrit /\ probe' = NoProbe
    /\ UNCHANGED <<stack, ruled, event>>

----------------------------------------------------------------------------
(* Damage to players.                                                      *)

\* Plugins are asked first and may change the record.
PlayerDamage(crit) ==
    /\ Open
    /\ stack' = Append(stack, Call("player", Depth + 1, crit))
    /\ UNCHANGED <<enabled, critContext, probe, ruled, event>>

\* The hit reaches the living player: its crit is the context of the
\* events fired below.
PlayerDamageAlive ==
    /\ Open /\ In("player")
    /\ stack' = Append(stack, [Call("alive", Top.rec, Top.crit) EXCEPT !.hit = Top.crit])
    /\ critContext' = Top.crit
    /\ UNCHANGED <<enabled, probe, ruled, event>>

LeftContext_Outside(call) == NoCrit
LeftContext(call) == call.context

PlayerDamageReturns ==
    /\ In("alive") \/ In("player")
    /\ critContext' = IF In("alive") THEN LeftContext(Top) ELSE critContext
    /\ stack' = Pop
    /\ UNCHANGED <<enabled, probe, ruled, event>>

\* A player_hurt event with bonus effect 4 is shown as a mini-crit if the
\* hit it belongs to is one.
FireEvent ==
    /\ enabled /\ stack # <<>>
    /\ event' = [mini |-> critContext = 1,
                 hit |-> LET hits == {n \in DOMAIN stack : stack[n].kind = "alive"}
                         IN  IF hits = {} THEN NoCrit
                             ELSE stack[CHOOSE n \in hits : \A k \in hits : k <= n].hit]
    /\ UNCHANGED <<enabled, stack, critContext, probe, ruled>>

----------------------------------------------------------------------------
(* The rules of the game, for a player's record or a building's scratch.   *)

ModifyDamageRules ==
    /\ Open /\ In("player")
    /\ stack' = Append(stack, Call("rules", Top.rec, Top.crit))
    /\ UNCHANGED <<enabled, critContext, probe, ruled, event>>

Matches(rec) == probe.rec = rec

\* The record belongs to the call below; the forward may change its crit.
\* Nothing is ruled when the rules refuse the damage.
RulesReturn(publishes, crit) ==
    /\ In("rules")
    /\ LET told == publishes /\ ~Matches(Top.rec)
       IN  /\ ruled' = [scratch |-> stack[Top.rec].kind = "classify",
                        passed |-> publishes, told |-> told]
           /\ told \/ crit = Top.crit
           /\ stack' = IF told THEN [Pop EXCEPT ![Depth - 1].crit = crit] ELSE Pop
    /\ UNCHANGED <<enabled, critContext, probe, event>>

\* The game sets a record's crit; a demotion it may refuse.
Observed(rec, requested) ==
    IF probe.rec # rec THEN probe
    ELSE IF requested = 1 /\ stack[rec].crit = 2 THEN [probe EXCEPT !.demote = TRUE]
    ELSE IF requested \in {0, 2} THEN [probe EXCEPT !.demote = FALSE]
    ELSE probe

SetCritType(requested) ==
    /\ enabled /\ In("rules")
    /\ probe' = Observed(Top.rec, requested)
    /\ stack' \in {stack, [stack EXCEPT ![Top.rec].crit = requested]}
    /\ UNCHANGED <<enabled, critContext, ruled, event>>

----------------------------------------------------------------------------
(* Damage to buildings.                                                    *)

\* Copies of the caller's record: one to classify with the player's rules,
\* one for plugins and the game.
BuildingDamage(crit) ==
    /\ Open /\ Depth + 1 < MaxDepth
    /\ LET own == Depth + 1
       IN  /\ probe' = [rec |-> own, demote |-> FALSE]
           /\ stack' = stack \o <<Call("classify", own, crit), Call("rules", own, crit)>>
    /\ UNCHANGED <<enabled, critContext, ruled, event>>

EffectiveCrit(call) ==
    IF Matches(call.rec) /\ probe.demote /\ call.crit = 2 THEN 1 ELSE call.crit

LeftProbe_None(call) == NoProbe
LeftProbe_Kept(call) == probe
LeftProbe(call) == call.probe

\* The rules returned to the scope: only the crit is kept, then plugins are
\* told and the game's own function runs.
Classified ==
    /\ In("classify")
    /\ stack' = [stack EXCEPT ![Depth].crit = EffectiveCrit(Top), ![Depth].kind = "building"]
    /\ probe' = LeftProbe(Top)
    /\ UNCHANGED <<enabled, critContext, ruled, event>>

\* Nobody listens, or the object is none of an engineer's.
OtherDamage(crit) ==
    /\ Open
    /\ stack' = Append(stack, Call("building", Depth + 1, crit))
    /\ UNCHANGED <<enabled, critContext, probe, ruled, event>>

BuildingDamageReturns ==
    /\ In("building")
    /\ stack' = Pop
    /\ UNCHANGED <<enabled, critContext, probe, ruled, event>>

DamageNext ==
    \/ DamageLoads \/ DamageUnloads
    \/ \E crit \in Crits : \/ PlayerDamage(crit) \/ BuildingDamage(crit) \/ OtherDamage(crit)
                           \/ SetCritType(crit)
                           \/ \E publishes \in BOOLEAN : RulesReturn(publishes, crit)
    \/ PlayerDamageAlive \/ PlayerDamageReturns \/ FireEvent
    \/ ModifyDamageRules \/ Classified \/ BuildingDamageReturns

DamageSpec == InitDamage /\ [][DamageNext]_damageVars

----------------------------------------------------------------------------

DamageTypeOK ==
    /\ enabled \in BOOLEAN
    /\ Len(stack) <= MaxDepth
    /\ \A n \in DOMAIN stack :
           /\ stack[n].kind \in {"player", "alive", "rules", "classify", "building"}
           /\ stack[n].rec \in 1 .. n /\ stack[n].crit \in Crits
    /\ critContext \in Crits \cup {NoCrit}
    /\ probe.rec \in (1 .. MaxDepth) \cup {NoRecord} /\ probe.demote \in BOOLEAN
    /\ event.mini \in BOOLEAN

\* A hurt event is shown as a mini-crit if, and only if, the innermost hit
\* under way is one: no event inherits the context of a nested hit, or
\* loses its own to one.
EventsTellTheirHit == event.mini <=> event.hit = 1

\* "Suppress only the scratch record's public rules forward, not nested
\* damage": plugins that listen to the rules are told of a record the rules
\* passed if, and only if, it is not the scratch of a building, whatever else
\* was classified meanwhile or before in the same place.
ScratchStaysPrivate == ruled.told <=> ruled.passed /\ ~ruled.scratch
=============================================================================
