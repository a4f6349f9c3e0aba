---------------------------- MODULE ToolsDemand ----------------------------
(***************************************************************************)
(* What the TF2 tools hook, and when (weapons_ext/src/tf2tools/:           *)
(* extension.cpp, holiday.cpp, gameplayrules.cpp and teleporter.cpp).      *)
(* A detour is there while a plugin has the forward it serves; the hook    *)
(* for holidays is on the game rules of the map, which come and go.        *)
(*                                                                         *)
(* What the detours of critical hits and of conditions do is in CritHooks  *)
(* and ConditionReports.                                                   *)
(***************************************************************************)
EXTENDS Integers, FiniteSets

CONSTANTS
    Plugins,
    Wants,     \* Wants[p]: the features a plugin has forwards of
    MaxRules   \* bound on game rules made, one per map

Detours == {"criticals", "conditions", "rules", "teleport"}
Features == Detours \cup {"holiday"}

ToolsAssumption ==
    /\ Wants \in [Plugins -> SUBSET Features]
    /\ MaxRules \in Nat

VARIABLES
    toolsUp,     \* g_ToolsSdkReady
    status,      \* status[p]: whether a plugin runs, is paused or is not there
    on,          \* the detours in place
    rules,       \* the game rules there are, 0 when there are none
    rulesMade,   \* game rules so far
    activated,   \* the server has been activated with these rules
    holidayHook, \* game rules m_iHookID is on, 0 when there is no hook
    undisturbed  \* no plugin was there before the module or was paused, no detour refused

tools == <<toolsUp, status, on, rules, rulesMade, activated, holidayHook, undisturbed>>

ToolsTypeOK ==
    /\ {toolsUp, activated, undisturbed} \subseteq BOOLEAN
    /\ status \in [Plugins -> {"absent", "running", "paused"}]
    /\ on \subseteq Detours
    /\ {rules, rulesMade, holidayHook} \subseteq 0 .. MaxRules

InitTools ==
    /\ toolsUp = FALSE
    /\ status = [p \in Plugins |-> "absent"]
    /\ on = {}
    /\ rules = 0
    /\ rulesMade = 0
    /\ activated = FALSE
    /\ holidayHook = 0
    /\ undisturbed = FALSE

-----------------------------------------------------------------------------

\* GetFunctionCount: SourceMod takes the functions of a plugin that is paused away, and
\* updates them before it tells the module of a plugin.
Wanted(f) == \E p \in Plugins : status'[p] = "running" /\ f \in Wants[p]

\* HookIfNecessary and Unhook
HookIfNecessary ==
    IF holidayHook = 0 /\ Wanted("holiday") THEN rules ELSE holidayHook

\* SDK_OnLoad.  Plugins that are there are not looked at.
ToolsLoad ==
    /\ ~toolsUp
    /\ toolsUp' = TRUE
    /\ undisturbed' = \A p \in Plugins : status[p] = "absent"
    /\ UNCHANGED <<status, on, rules, rulesMade, activated, holidayHook>>

ToolsUnload ==
    /\ toolsUp
    /\ toolsUp' = FALSE
    /\ on' = {}
    /\ holidayHook' = 0
    /\ UNCHANGED <<status, rules, rulesMade, activated, undisturbed>>

\* OnPluginLoaded, of TF2Tools and of HolidayManager.  InitialiseRulesDetours,
\* InitialiseTeleporterDetour and the two managers may fail.
PluginLoads(p) ==
    /\ status[p] = "absent"
    /\ status' = [status EXCEPT ![p] = "running"]
    /\ IF toolsUp
       THEN LET missing == {f \in Detours \ on : Wanted(f)}
            IN  /\ \E failing \in SUBSET missing :
                      /\ on' = on \cup (missing \ failing)
                      /\ undisturbed' = (undisturbed /\ failing = {})
                /\ holidayHook' = HookIfNecessary
       ELSE UNCHANGED <<on, undisturbed, holidayHook>>
    /\ UNCHANGED <<toolsUp, rules, rulesMade, activated>>

\* OnPluginUnloaded.  RemoveRulesDetours, RemoveTeleporterDetour.
StillWanted == {f \in on : Wanted(f)}

PluginUnloads(p) ==
    /\ status[p] # "absent"
    /\ status' = [status EXCEPT ![p] = "absent"]
    /\ IF toolsUp
       THEN /\ on' = StillWanted
            /\ holidayHook' = IF Wanted("holiday") THEN holidayHook ELSE 0
       ELSE UNCHANGED <<on, holidayHook>>
    /\ UNCHANGED <<toolsUp, rules, rulesMade, activated, undisturbed>>

\* The module is not told.
PluginPauses(p) ==
    /\ status[p] # "absent"
    /\ status' = [status EXCEPT ![p] = IF @ = "running" THEN "paused" ELSE "running"]
    /\ undisturbed' = FALSE
    /\ UNCHANGED <<toolsUp, on, rules, rulesMade, activated, holidayHook>>

-----------------------------------------------------------------------------
(* Maps. *)

RulesMade ==
    /\ rules = 0
    /\ rulesMade < MaxRules
    /\ rulesMade' = rulesMade + 1
    /\ rules' = rulesMade'
    /\ UNCHANGED <<toolsUp, status, on, activated, holidayHook, undisturbed>>

\* OnServerActivated
ServerActivates ==
    /\ rules # 0
    /\ ~activated
    /\ activated' = TRUE
    /\ UNCHANGED <<toolsUp, status, on, rules, rulesMade, undisturbed>>
    /\ holidayHook' = IF toolsUp THEN HookIfNecessary ELSE holidayHook

\* Hook_LevelShutdown runs first, then the game lets the rules of the map go.
LeftOnRules_Kept == holidayHook
LeftOnRules == 0

LevelShutsDown ==
    /\ rules # 0
    /\ rules' = 0
    /\ activated' = FALSE
    /\ holidayHook' = IF toolsUp THEN LeftOnRules ELSE holidayHook
    /\ UNCHANGED <<toolsUp, status, on, rulesMade, undisturbed>>

-----------------------------------------------------------------------------

NextTools ==
    \/ ToolsLoad \/ ToolsUnload
    \/ \E p \in Plugins : PluginLoads(p) \/ PluginUnloads(p) \/ PluginPauses(p)
    \/ RulesMade \/ ServerActivates \/ LevelShutsDown

ToolsSpec == InitTools /\ [][NextTools]_tools

\* As long as nothing has kept a plugin from being noticed, exactly the detours
\* plugins have a use for are in place, and in an activated map the rules are hooked
\* when a plugin wants to be asked about holidays.  The hook is never on game rules
\* that are gone, and nothing is in place once the module is unloaded.
HooksFollowDemand ==
    LET wanted(f) == \E p \in Plugins : status[p] = "running" /\ f \in Wants[p]
    IN  /\ toolsUp /\ undisturbed =>
              /\ on = {f \in Detours : wanted(f)}
              /\ holidayHook # 0 => wanted("holiday")
              /\ activated /\ wanted("holiday") => holidayHook = rules
        /\ holidayHook \in {0, rules}
        /\ ~toolsUp => on = {} /\ holidayHook = 0

=============================================================================
