----------------------------- MODULE SetupPhase -----------------------------
(***************************************************************************)
(* Setup time.  tf2_setup_uber (src/extensions/tf2_setup_uber) rescales    *)
(* what a medigun gains during setup from the game's own factor of 3 to    *)
(* the one a plugin asked for; tf2_setuptime (src/extensions/              *)
(* tf2_setuptime) tells plugins whether setup is on.  Both look the game   *)
(* rules up on every call: there are none between maps.                    *)
(*                                                                         *)
(* Charge is counted in units of which one heal outside setup gains Gain;  *)
(* a quotient of floats is rounded down to a unit.                         *)
(***************************************************************************)
EXTENDS Integers

CONSTANTS
    Mediguns,
    Full,               \* a charge of 1.0
    Gain,               \* what one heal gains outside setup
    Multipliers,        \* factors plugins ask for, legal or not
    MaxMultiplier       \* kMaxReasonableMultiplier

Stock == 3              \* kDefaultSetupMultiplier
Phases == {"none", "setup", "waiting", "play"}

ASSUME SetupAssumption ==
    /\ Full \in Nat \ {0} /\ Gain \in Nat /\ MaxMultiplier \in Nat
    /\ Stock <= MaxMultiplier /\ Multipliers \subseteq Int

VARIABLES
    phase,              \* the game rules; "waiting": setup, for players
    uberReady,          \* g_bDetourReady
    tools,              \* SDKTools has been found
    multiplier,
    proxyKnown,         \* g_GameRulesProxyFn of tf2_setuptime
    charge,             \* m_flChargeLevel
    earned              \* what the heals of this charge are worth

setupVars == <<phase, uberReady, tools, multiplier, proxyKnown, charge, earned>>

InitSetup ==
    /\ phase = "none"
    /\ uberReady = FALSE /\ tools = FALSE /\ multiplier = Stock
    /\ proxyKnown = FALSE
    /\ charge = [m \in Mediguns |-> 0] /\ earned = [m \in Mediguns |-> 0]

Capped(units) == IF units > Full THEN Full ELSE units

----------------------------------------------------------------------------

UberLoads ==
    /\ ~uberReady
    /\ uberReady' = TRUE
    /\ UNCHANGED <<phase, tools, multiplier, proxyKnown, charge, earned>>

\* SDK_OnAllLoaded.
UberFindsTools ==
    /\ uberReady /\ ~tools
    /\ tools' = TRUE
    /\ UNCHANGED <<phase, uberReady, multiplier, proxyKnown, charge, earned>>

\* The extension's memory goes with it.
UberUnloads ==
    /\ uberReady
    /\ uberReady' = FALSE /\ tools' = FALSE /\ multiplier' = Stock
    /\ UNCHANGED <<phase, proxyKnown, charge, earned>>

SetMultiplier(value) ==
    /\ uberReady /\ value \in 0 .. MaxMultiplier
    /\ multiplier' = value
    /\ UNCHANGED <<phase, uberReady, tools, proxyKnown, charge, earned>>

IsSetupActive == tools /\ phase = "setup"

ShouldAdjustSetupMultiplier ==
    uberReady /\ multiplier # Stock /\ IsSetupActive

\* What the game adds to a charge of `before': three times as much in setup.
StockGain == IF phase \in {"setup", "waiting"} THEN Stock * Gain ELSE Gain

\* A charge the game capped is as high as it can go, unless less was asked
\* for than the game gives.
LeftAlone_Capped(after) == after >= Full
LeftAlone(after) == after >= Full /\ multiplier >= Stock

Rescaled(before, after) ==
    IF after - before <= 0 \/ LeftAlone(after) THEN after
    ELSE Capped(before + ((after - before) * multiplier) \div Stock)

FindAndHealTargets(m) ==
    LET after == Capped(charge[m] + StockGain)
        worth == IF phase = "setup" /\ uberReady /\ tools
                 THEN multiplier * Gain ELSE StockGain
    IN  /\ phase # "none"
        /\ charge' = [charge EXCEPT ![m] = IF ShouldAdjustSetupMultiplier
                                           THEN Rescaled(@, after) ELSE after]
        /\ earned' = [earned EXCEPT ![m] = Capped(@ + worth)]
        /\ UNCHANGED <<phase, uberReady, tools, multiplier, proxyKnown>>

\* The charge is used, or its medigun is lost.
ChargeSpent(m) ==
    /\ charge[m] > 0
    /\ charge' = [charge EXCEPT ![m] = 0] /\ earned' = [earned EXCEPT ![m] = 0]
    /\ UNCHANGED <<phase, uberReady, tools, multiplier, proxyKnown>>

PhaseChanges(p) ==
    /\ p # phase
    /\ phase' = p
    /\ UNCHANGED <<uberReady, tools, multiplier, proxyKnown, charge, earned>>

\* tf2_setuptime resolves the way to the rules when it loads, or at the
\* first call that can; a call without rules throws.
IsSetupTimeActive ==
    /\ ~proxyKnown
    /\ proxyKnown' = TRUE
    /\ UNCHANGED <<phase, uberReady, tools, multiplier, charge, earned>>

SetupNext ==
    \/ UberLoads \/ UberFindsTools \/ UberUnloads \/ IsSetupTimeActive
    \/ \E value \in Multipliers : SetMultiplier(value)
    \/ \E m \in Mediguns : FindAndHealTargets(m) \/ ChargeSpent(m)
    \/ \E p \in Phases : PhaseChanges(p)

SetupSpec == InitSetup /\ [][SetupNext]_setupVars

----------------------------------------------------------------------------

SetupTypeOK ==
    /\ phase \in Phases
    /\ {uberReady, tools, proxyKnown} \subseteq BOOLEAN
    /\ multiplier \in 0 .. MaxMultiplier
    /\ charge \in [Mediguns -> 0 .. Full] /\ earned \in [Mediguns -> 0 .. Full]

\* No medigun is charged beyond what its heals are worth, each at the factor
\* in force when it happened: not by the game's own cap, not while waiting
\* for players, not when factors and phases change in between.
ChargeIsEarned == \A m \in Mediguns : charge[m] <= earned[m]
=============================================================================
