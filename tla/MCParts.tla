------------------------------ MODULE MCParts ------------------------------
(***************************************************************************)
(* Small instances of the SourceMod extensions and of the commands that    *)
(* start and stop the servers.  These parts share no state, so one of them *)
(* runs, chosen at the start, and the others stay as they began.  Those    *)
(* that play in a WeaponWorld take it in turn, each with the players and   *)
(* weapons it needs.                                                       *)
(***************************************************************************)
EXTENDS SprayFiles, ScoreDisplay, DamageHooks, SetupPhase, DeferredCalls, TLC

VARIABLES
    part,
    player, joins, ref, created,
    \* PelletShots
    tick, sharedHook, hook, shot, lastTrace, pending, batch, lastKill, pelletsOf, landed,
    hits, parties,
    \* SpreadShots
    pattern, accuracy, punch, fixedOffsets, swapDepth, wide, shots, chosen,
    \* ConchBuffs
    conchLoaded, wrappers, noSpeed, addDepth, removeDepth, condCalls, regen, speed,
    \* LoadoutCaches
    resolver, selected, resolving, epoch, entry, transaction, staging, lookups, placed,
    dying, choice, offending,
    \* ItemGeneration
    itemsPhase, botHook, botHookKept, giveHook, viewSeeded, itemOverride, sets, given,
    \* ConditionReports
    watching, field, unpacked, frame, old, told, changes,
    \* CritHooks
    critEnabled, refused, tableOf, sharedHooks, entsHooked, ownHook, attackAsked,
    \* WeaponsModules
    startup, attached, modulesLoaded, modulesUp, registered, listeners, place, heard, missed,
    \* ToolsDemand
    toolsUp, status, on, rules, rulesMade, activated, holidayHook, undisturbed,
    \* SharedClients
    sharedUp, sharedStage, address, table,
    \* ToolsNatives
    toolsPhase, acquired, located, sdktools, entities, held, nativeWrappers, live, outcome,
    \* SentryRange
    hooked, rangeOffset, rangeOn, distance, plugin, ordered, orders, range,
    \* ServerLifecycle
    procs, starts, lock, run, commands, version, latest, torn

world == <<player, joins, ref, created>>
pellets == <<tick, sharedHook, hook, shot, lastTrace, pending, batch, lastKill,
             pelletsOf, landed, hits, parties>>
spread == <<pattern, accuracy, punch, fixedOffsets, swapDepth, wide, shots, chosen>>
conch == <<conchLoaded, wrappers, noSpeed, addDepth, removeDepth, condCalls, regen,
           speed>>
loadouts == <<resolver, selected, resolving, epoch, entry, transaction, staging,
              lookups, placed, dying, choice, offending>>
items == <<itemsPhase, botHook, botHookKept, giveHook, viewSeeded, itemOverride, sets,
           given>>
conditions == <<watching, field, unpacked, frame, old, told, changes>>
crits == <<critEnabled, refused, tableOf, sharedHooks, entsHooked, ownHook,
           attackAsked>>
modules == <<startup, attached, modulesLoaded, modulesUp, registered, listeners, place,
             heard, missed>>
demand == <<toolsUp, status, on, rules, rulesMade, activated, holidayHook, undisturbed>>
sharedVars == <<sharedUp, sharedStage, address, table>>
natives == <<toolsPhase, acquired, located, sdktools, entities, held, nativeWrappers,
             live, outcome>>
sentryVars == <<hooked, rangeOffset, rangeOn, distance, plugin, ordered, orders, range>>
lifecycleVars == <<procs, starts, lock, run, commands, version, latest, torn>>

Pellets == INSTANCE PelletShots WITH
    Players <- {1, 2}, Weapons <- {1}, MaxJoins <- 3, MaxWeapons <- 1,
    Traces <- {"t1", "t2"}, NoTrace <- "none", ShotSizes <- {2}, DefaultPellets <- 3,
    KillWindow <- 1, MaxTicks <- 2, MaxHits <- 2

Spread == INSTANCE SpreadShots WITH
    Players <- {}, Weapons <- {1}, MaxJoins <- 0, MaxWeapons <- 2,
    WidePellets <- 2, MaxPellets <- 1, MaxShotDepth <- 2, table <- fixedOffsets

Conch == INSTANCE ConchBuffs WITH
    Players <- {1}, Weapons <- {}, MaxJoins <- 2, MaxWeapons <- 0, MaxCallDepth <- 3

Loadouts == INSTANCE LoadoutCaches WITH
    Players <- {1}, Weapons <- {1}, MaxJoins <- 2, MaxWeapons <- 2,
    Slots <- {1}, MaxEpochs <- 5, MaxTransactions <- 1, MaxLookups <- 2, owner <- resolver

Items == INSTANCE ItemGeneration WITH
    Players <- {1, 2}, Bots <- {2}, Weapons <- {}, MaxJoins <- 2, MaxWeapons <- 0,
    Definitions <- {0}, Qualities <- {0, 6}, Attributes <- {1}, MaxAttributes <- 2,
    FlagSets <- {{"attributes"}, {"quality", "attributes", "preserve"}}, MaxSets <- 1,
    override <- itemOverride

Conditions == INSTANCE ConditionReports WITH
    Players <- {1}, Weapons <- {}, MaxJoins <- 2, MaxWeapons <- 0,
    Conds <- {1, 2}, ListConds <- {2}, MaxChanges <- 3

Hooks == INSTANCE CritHooks WITH
    Players <- {}, Weapons <- {1, 2}, MaxJoins <- 0, MaxWeapons <- 3,
    GameTables <- {"game"}, OtherTables <- {"other"}, asked <- attackAsked

Modules == INSTANCE WeaponsModules WITH
    NumModules <- 4, Listening <- {2, 4}, OnDemand <- 1, NumListeners <- 4,
    loaded <- modulesLoaded

Tools == INSTANCE ToolsDemand WITH
    Plugins <- {1, 2}, MaxRules <- 2,
    Wants <- <<{"holiday", "rules", "criticals"}, {"holiday", "teleport", "conditions"}>>

Shared == INSTANCE SharedClients WITH
    MaxClients <- 2, Addresses <- {10, 11, 12}, Capacity <- 5,
    Hash <- (10 :> 3 @@ 11 :> 3 @@ 12 :> 4), up <- sharedUp, stage <- sharedStage

Natives == INSTANCE ToolsNatives WITH
    Members <- {1, 2}, Wearables <- {3}, MaxHeld <- 2, phase <- toolsPhase,
    wrappers <- nativeWrappers,
    Gamedata <- {{"MakeBleed", "Burn", "RemoveDisguise", "AddCondition", "StunPlayer",
                  "SetPowerplayEnabled", "ForceRespawn", "Regenerate", "IsHolidayActive",
                  "RemoveWearable"},
                 {"Disguise", "RemoveCondition", "IsPlayerInDuel"}}

Sentry == INSTANCE SentryRange WITH
    Guns <- {1, 2}, Ranges <- {0, 200, 900}, MaxOrders <- 3, enabled <- rangeOn,
    offset <- rangeOffset

Lifecycle == INSTANCE ServerLifecycle WITH
    Commands <- {"unit", "guard"}, Pids <- {1, 2, 3}, MaxStarts <- 3, MaxCommands <- 2,
    MaxReleases <- 1, installed <- version

MCOffsets == {-1, 2}

ASSUME
    /\ Pellets!PelletsAssumption /\ Spread!SpreadAssumption /\ Conch!ConchAssumption
    /\ Loadouts!LoadoutAssumption /\ Items!ItemsAssumption /\ Conditions!ConditionsAssumption
    /\ Modules!ModulesAssumption /\ Tools!ToolsAssumption /\ Shared!SharedClientsAssumption
    /\ Pellets!WorldAssumption /\ Spread!WorldAssumption /\ Conch!WorldAssumption
    /\ Loadouts!WorldAssumption /\ Items!WorldAssumption /\ Conditions!WorldAssumption
    /\ Hooks!WorldAssumption /\ Lifecycle!LifecycleAssumption
    /\ Natives!NativesAssumption /\ Sentry!SentryAssumption

----------------------------------------------------------------------------

InWorld == {"pellets", "spread", "conch", "loadouts", "items", "conditions", "crits"}
Parts == InWorld \cup {"modules", "tools", "files", "display", "damage", "setup", "shared",
                       "deferred", "natives", "sentry", "lifecycle"}

InitWorld ==
    CASE part = "pellets" -> Pellets!InitWorld
      [] part = "spread" -> Spread!InitWorld
      [] part = "conch" -> Conch!InitWorld
      [] part = "loadouts" -> Loadouts!InitWorld
      [] part = "items" -> Items!InitWorld
      [] part = "conditions" -> Conditions!InitWorld
      [] OTHER -> Hooks!InitWorld

Init ==
    /\ part \in Parts
    /\ InitWorld
    /\ Pellets!InitPellets /\ Spread!InitSpread /\ Conch!InitConch /\ Loadouts!InitLoadouts
    /\ Items!InitItems /\ Conditions!InitConditions /\ Hooks!InitCrits
    /\ Modules!InitModules /\ Tools!InitTools /\ InitFiles /\ InitDisplay /\ InitDamage
    /\ InitSetup /\ Shared!InitShared /\ InitDeferred
    /\ Natives!InitNatives /\ Sentry!InitSentry /\ Lifecycle!InitLifecycle
    \* What a part that does not run begins with makes no difference.
    /\ part # "crits" => \A w \in DOMAIN tableOf : tableOf[w] = "game"
    /\ part # "lifecycle" => latest = 0
    /\ part # "display" => map = "none" /\ \A c \in Clients : score[c] = 0

Turn(p, step, kept) == IF part = p THEN step ELSE UNCHANGED kept

Next ==
    /\ UNCHANGED part
    /\ part \in InWorld \/ UNCHANGED world
    /\ Turn("pellets", Pellets!NextPellets, pellets)
    /\ Turn("spread", Spread!NextSpread, spread)
    /\ Turn("conch", Conch!NextConch, conch)
    /\ Turn("loadouts", Loadouts!NextLoadouts, loadouts)
    /\ Turn("items", Items!NextItems, items)
    /\ Turn("conditions", Conditions!NextConditions, conditions)
    /\ Turn("crits", Hooks!NextCrits, crits)
    /\ Turn("modules", Modules!NextModules, modules)
    /\ Turn("tools", Tools!NextTools, demand)
    /\ Turn("files", NextFiles, files)
    /\ Turn("display", DisplayNext, displayVars)
    /\ Turn("damage", DamageNext, damageVars)
    /\ Turn("setup", SetupNext, setupVars)
    /\ Turn("shared", Shared!SharedNext, sharedVars)
    /\ Turn("deferred", DeferredNext, deferredVars)
    /\ Turn("natives", Natives!NextNatives, natives)
    /\ Turn("sentry", Sentry!SentryNext, sentryVars)
    /\ Turn("lifecycle", Lifecycle!LifecycleNext, lifecycleVars)

vars == <<part, world, pellets, spread, conch, loadouts,
          items, conditions, crits, modules, demand,
          files, displayVars, damageVars, setupVars, sharedVars, deferredVars,
          natives, sentryVars, lifecycleVars>>

Spec == Init /\ [][Next]_vars

----------------------------------------------------------------------------

TypeOK ==
    CASE part = "pellets" -> Pellets!WorldTypeOK /\ Pellets!PelletsTypeOK
      [] part = "spread" -> Spread!WorldTypeOK /\ Spread!SpreadTypeOK
      [] part = "conch" -> Conch!WorldTypeOK /\ Conch!ConchTypeOK
      [] part = "loadouts" -> Loadouts!WorldTypeOK /\ Loadouts!LoadoutsTypeOK
      [] part = "items" -> Items!WorldTypeOK /\ Items!ItemsTypeOK
      [] part = "conditions" -> Conditions!WorldTypeOK /\ Conditions!ConditionsTypeOK
      [] part = "crits" -> Hooks!WorldTypeOK /\ Hooks!CritsTypeOK
      [] part = "modules" -> Modules!ModulesTypeOK
      [] part = "tools" -> Tools!ToolsTypeOK
      [] part = "files" -> FilesTypeOK
      [] part = "display" -> DisplayTypeOK
      [] part = "damage" -> DamageTypeOK
      [] part = "setup" -> SetupTypeOK
      [] part = "shared" -> Shared!SharedTypeOK
      [] part = "deferred" -> DeferredTypeOK
      [] part = "natives" -> Natives!NativesTypeOK
      [] part = "sentry" -> Sentry!SentryTypeOK
      [] part = "lifecycle" -> Lifecycle!LifecycleTypeOK

\* Nothing is taken away or replaced under those who use it: hooks, modules, detours
\* and the wrappers natives call are there, once each, as long as somebody needs them
\* or is inside them, and the files of the game as long as a server runs.
NothingIsTakenFromUsers ==
    /\ part = "crits" => Hooks!WeaponsAreHooked
    /\ part = "items" => Items!ItemsAreAnnouncedOnce
    /\ part = "modules" => Modules!ModulesAreInOrder
    /\ part = "tools" => Tools!HooksFollowDemand
    /\ part = "natives" => Natives!WrappersAreLive /\ Natives!NothingIsLeft
    /\ part = "files" => CountedCallsAreSafe
    /\ part = "lifecycle" => Lifecycle!NoServerDuringUpdate

\* What is kept under a slot, an address or an entity is the present owner's, not
\* that of whoever had it before.
StateIsTheOwners ==
    /\ part = "pellets" => Pellets!HeldShotsAreQueued
    /\ part = "spread" => Spread!SettingsFollowTheWeapon
    /\ part = "display" => OffsetsAreThePlayers /\ OffsetsAreOwned
    /\ part = "shared" => Shared!SharedAddressesAreFound

\* What is cached, reported, shown or run is what holds now.
ReportsAreCurrent ==
    /\ part = "loadouts" => Loadouts!CachesAreCurrent
    /\ part = "conditions" => Conditions!ConditionsAreReported
    /\ part = "items" => Items!StockItemsStayStock
    /\ part = "display" => BoardIsCurrent
    /\ part = "lifecycle" => Lifecycle!ServersRunInstalled

\* However calls nest, and however often one is seen, each counts once, in its own
\* context, for what it is worth, reaches those who are to know of it, and leaves
\* nothing behind when it returns.
CallsAreKeptApart ==
    /\ part = "spread" => Spread!StockBetweenShots
    /\ part = "conch" => Conch!BlocksEndWithTheirCall
    /\ part = "pellets" => Pellets!ShotsAreNotOvercounted
    /\ part = "damage" => EventsTellTheirHit /\ ScratchStaysPrivate
    /\ part = "setup" => ChargeIsEarned

\* A call takes effect for those it is meant for and nobody else: a buff without
\* speed gives none, a time put off is written for its own player, a range is the one
\* ordered, and a stop of MGE ends no process of the other server but in the two
\* windows StopMgeSparesTf2 names.
EffectsAreMeant ==
    /\ Conch!NoSpeedFromBuff /\ DeferredCallsReachTheirPlayer
    /\ Sentry!RangesAreOrdered /\ Lifecycle!StopMgeSparesTf2
=============================================================================
