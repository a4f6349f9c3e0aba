----------------------------- MODULE CritHooks -----------------------------
(***************************************************************************)
(* Asking plugins whether an attack is critical                            *)
(* (weapons_ext/src/tf2tools/criticals.cpp).  While a plugin wants it the  *)
(* helper of every weapon is hooked: once in the method table when the     *)
(* table belongs to the game, which keeps it as long as it runs, and on    *)
(* the weapon itself when it does not, or when SourceHook refuses.         *)
(*                                                                         *)
(* The helper for attacks that are never critical is hooked with the first *)
(* and treated alike.  Offsets are taken to be found.                      *)
(***************************************************************************)
EXTENDS WeaponWorld

CONSTANTS
    GameTables,   \* method tables of weapons in the game's own image
    OtherTables   \* and in an image that may go away

CritTables == GameTables \cup OtherTables

VARIABLES
    critEnabled,  \* m_enabled
    refused,      \* SourceHook has refused a hook on a table
    tableOf,      \* tableOf[w]: method table of the weapon in a slot
    sharedHooks,  \* m_sharedHooks: tables hooked
    entsHooked,   \* m_entsHooked: entity slots
    ownHook,      \* weapons hooked on their own
    asked         \* how often plugins were asked about the last attack

crits == <<critEnabled, refused, tableOf, sharedHooks, entsHooked, ownHook, asked>>

CritsTypeOK ==
    /\ {critEnabled, refused} \subseteq BOOLEAN
    /\ tableOf \in [Weapons -> CritTables]
    /\ sharedHooks \subseteq GameTables
    /\ entsHooked \subseteq Weapons
    /\ ownHook \subseteq 1 .. MaxWeapons
    /\ asked \in 0 .. 2

InitCrits ==
    /\ critEnabled = FALSE
    /\ refused = FALSE
    /\ tableOf \in [Weapons -> CritTables]
    /\ sharedHooks = {}
    /\ entsHooked = {}
    /\ ownHook = {}
    /\ asked = 0

-----------------------------------------------------------------------------

\* HookEntityIfWeapon, of the weapons in some slots, in their order.  SourceHook may
\* turn some away before it hooks their table; those are hooked on their own.
HookWeapons(slots) ==
    LET new == {w \in slots : tableOf'[w] \notin sharedHooks}
    IN  \E turned \in SUBSET {w \in new : tableOf'[w] \in GameTables} :
            LET own == turned \cup {w \in new : tableOf'[w] \in OtherTables}
            IN  /\ \A v \in new, w \in turned : tableOf'[v] = tableOf'[w] /\ v < w => v \in turned
                /\ sharedHooks' = sharedHooks \cup {tableOf'[w] : w \in new \ own}
                /\ entsHooked' = entsHooked \cup own
                /\ ownHook' = ownHook \cup {ref'[w] : w \in own}
                /\ refused' = (refused \/ turned # {})

\* TryEnable, once a plugin wants it.
CritEnable ==
    /\ ~critEnabled
    /\ critEnabled' = TRUE
    /\ tableOf' = tableOf
    /\ HookWeapons({w \in Weapons : ref[w] # 0})
    /\ UNCHANGED asked

\* Disable: the weapons on their own by the slots noted, then the tables.
CritDisable ==
    /\ critEnabled
    /\ critEnabled' = FALSE
    /\ ownHook' = ownHook \ {ref[w] : w \in entsHooked}
    /\ entsHooked' = {}
    /\ sharedHooks' = {}
    /\ UNCHANGED <<refused, tableOf, asked>>

\* OnEntityCreated
WeaponCreated(w) ==
    /\ \E t \in CritTables : tableOf' = [tableOf EXCEPT ![w] = t]
    /\ IF critEnabled THEN HookWeapons({w})
       ELSE UNCHANGED <<refused, sharedHooks, entsHooked, ownHook>>
    /\ UNCHANGED <<critEnabled, asked>>

\* OnEntityDestroyed
Noted_Kept(w) == entsHooked
Noted(w) == entsHooked \ {w}

WeaponDestroyed(w) ==
    /\ IF critEnabled /\ w \in entsHooked
       THEN ownHook' = ownHook \ {ref[w]} /\ entsHooked' = Noted(w)
       ELSE UNCHANGED <<ownHook, entsHooked>>
    /\ UNCHANGED <<critEnabled, refused, tableOf, sharedHooks, asked>>

\* Hook_CalcIsAttackCriticalHelpers runs for every hook on the weapon that attacks.
HooksOf(w) == (IF tableOf[w] \in sharedHooks THEN 1 ELSE 0) + (IF ref[w] \in ownHook THEN 1 ELSE 0)

WeaponAttacks(w) ==
    /\ ref[w] # 0
    /\ asked' = IF critEnabled THEN HooksOf(w) ELSE 0
    /\ UNCHANGED <<critEnabled, refused, tableOf, sharedHooks, entsHooked, ownHook>>

-----------------------------------------------------------------------------

NextCrits ==
    \/ \E w \in Weapons : CreateWeapon(w) /\ WeaponCreated(w)
    \/ \E w \in Weapons : RemoveWeapon(w) /\ WeaponDestroyed(w)
    \/ /\ UNCHANGED world
       /\ \/ CritEnable \/ CritDisable
          \/ \E w \in Weapons : WeaponAttacks(w)

CritsSpec == InitWorld /\ InitCrits /\ [][NextCrits]_<<world, crits>>

\* While a plugin wants it every weapon is hooked, whichever was there first, and
\* hooked once unless SourceHook has refused a table before it hooked it; otherwise
\* nothing is.  A hook on a weapon goes with the weapon, and its slot is not taken for
\* a hooked one when the next weapon gets it.
WeaponsAreHooked ==
    /\ \A w \in Weapons : ref[w] # 0 /\ critEnabled =>
          HooksOf(w) >= 1 /\ (~refused => HooksOf(w) = 1)
    /\ ~critEnabled => sharedHooks = {} /\ ownHook = {}
    /\ ownHook = {ref[w] : w \in entsHooked} /\ 0 \notin ownHook

=============================================================================
