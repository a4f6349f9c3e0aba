---------------------------- MODULE SentryRange ----------------------------
(***************************************************************************)
(* The range sentry guns look for targets in (weapons_ext/src/sentry/) and *)
(* the plugin that orders it (weapons/sentry_settings.sp, weapons.sp).  A  *)
(* detour writes the range of a sentry gun whenever it looks; nothing      *)
(* writes its own range back.                                              *)
(***************************************************************************)
EXTENDS Integers, FiniteSets

CONSTANTS
    Guns,       \* sentry guns
    Ranges,     \* distances the ConVar is given
    MaxOrders   \* bound on changes of ConVars

Own == -1            \* the range the game gives a sentry gun
NoGun == -2
Default == 200       \* gDistance at first

SentryAssumption == Ranges \subseteq Nat /\ Default \in Ranges /\ MaxOrders \in Nat

VARIABLES
    hooked,     \* gFindTargetDetour
    offset,     \* gSentryRangeOffset is known
    enabled,    \* gEnabled
    distance,   \* gDistance
    plugin,     \* the plugin runs
    ordered,    \* sm_tf2_sentry_newtarget_enable and _dist
    orders,     \* changes of them so far
    range       \* m_flSentryRange, NoGun when the gun is not there

sentryVars == <<hooked, offset, enabled, distance, plugin, ordered, orders, range>>

SentryTypeOK ==
    /\ {hooked, offset, enabled, plugin} \subseteq BOOLEAN
    /\ distance \in Ranges
    /\ ordered \in [on : BOOLEAN, at : Ranges] /\ orders \in 0 .. MaxOrders
    /\ range \in [Guns -> Ranges \cup {Own, NoGun}]

InitSentry ==
    /\ hooked = FALSE /\ offset = FALSE /\ enabled = FALSE /\ plugin = FALSE
    /\ distance = Default
    /\ ordered = [on |-> FALSE, at |-> Default] /\ orders = 0
    /\ range = [g \in Guns |-> NoGun]

-----------------------------------------------------------------------------
(* The module. *)

\* ResolveSentryRangeOffset, Init: without an offset or a detour the module does not load,
\* and Shutdown follows.
SentryLoads(resolves, detours) ==
    /\ ~hooked
    /\ hooked' = (resolves /\ detours)
    /\ offset' = hooked'
    /\ UNCHANGED <<enabled, distance, plugin, ordered, orders, range>>

\* Shutdown.  SourceMod ends the plugins that need the extension first.
SentryUnloads ==
    /\ hooked
    /\ hooked' = FALSE /\ offset' = FALSE /\ enabled' = FALSE /\ plugin' = FALSE
    /\ distance' = Default
    /\ UNCHANGED <<ordered, orders, range>>

\* CObjectSentrygun_FindTarget
Applied(g) == IF hooked /\ enabled /\ offset THEN distance ELSE range[g]

FindTarget(g) ==
    /\ range[g] # NoGun
    /\ range' = [range EXCEPT ![g] = Applied(g)]
    /\ UNCHANGED <<hooked, offset, enabled, distance, plugin, ordered, orders>>

-----------------------------------------------------------------------------
(* The plugin. *)

\* The natives.
SetEnabled(on) == enabled' = on
SetDistance(at) == distance' = IF at < 0 THEN 0 ELSE at

WeaponsSentry_Apply == SetDistance(ordered'.at) /\ SetEnabled(ordered'.on)

\* WeaponsSentry_OnPluginStart; OnConfigsExecuted does the same again.
PluginStarts ==
    /\ hooked /\ ~plugin
    /\ plugin' = TRUE
    /\ UNCHANGED <<ordered, orders>>
    /\ WeaponsSentry_Apply
    /\ UNCHANGED <<hooked, offset, range>>

\* OnPluginEnd
SetAtEnd_Kept(on) == on
SetAtEnd(on) == FALSE

PluginEnds ==
    /\ plugin
    /\ plugin' = FALSE
    /\ SetEnabled(SetAtEnd(enabled))
    /\ UNCHANGED <<hooked, offset, distance, ordered, orders, range>>

\* A ConVar is changed.  They outlive the plugin; without it nobody is told.
ConVarChanges(order) ==
    /\ orders < MaxOrders /\ orders' = orders + 1
    /\ ordered' = order
    /\ (order.on = ordered.on) # (order.at = ordered.at)
    /\ IF plugin THEN WeaponsSentry_Apply ELSE UNCHANGED <<enabled, distance>>
    /\ UNCHANGED <<hooked, offset, plugin, range>>

\* The game: a sentry gun is built, or is no more.
GunChanges(g) ==
    /\ range' = [range EXCEPT ![g] = IF @ = NoGun THEN Own ELSE NoGun]
    /\ UNCHANGED <<hooked, offset, enabled, distance, plugin, ordered, orders>>

-----------------------------------------------------------------------------

SentryNext ==
    \/ \E resolves, detours \in BOOLEAN : SentryLoads(resolves, detours)
    \/ SentryUnloads
    \/ PluginStarts \/ PluginEnds
    \/ \E order \in [on : BOOLEAN, at : Ranges] : ConVarChanges(order)
    \/ \E g \in Guns : FindTarget(g) \/ GunChanges(g)

SentrySpec == InitSentry /\ [][SentryNext]_sentryVars

\* A sentry gun that looks for targets while the plugin orders a range looks in that
\* range, and one that looks while none is ordered is left as it is: what was ordered
\* before the plugin ended, or while it was away, has no effect.
RangesAreOrdered ==
    [][\A g \in Guns : FindTarget(g) =>
           range'[g] = IF plugin /\ ordered.on THEN ordered.at ELSE range[g]]_sentryVars

=============================================================================
