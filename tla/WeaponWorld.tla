----------------------------- MODULE WeaponWorld -----------------------------
(***************************************************************************)
(* What the modules of weapons_ext share: the game's player slots and      *)
(* entity slots, and the dispatcher that tells the modules of connections  *)
(* (src/extensions/weapons_ext/src/extension.cpp).  A slot is reused by    *)
(* the next player or entity; a serial number tells them apart, as the     *)
(* engine's entity references do.  Everything runs on the game thread.     *)
(***************************************************************************)
EXTENDS Integers, FiniteSets, Sequences

CONSTANTS
    Players,      \* player slots
    Weapons,      \* entity slots that hold weapons
    MaxJoins,     \* bound on connections
    MaxWeapons    \* bound on weapons created

WorldAssumption ==
    /\ MaxJoins \in Nat
    /\ MaxWeapons \in Nat

VARIABLES
    player,    \* player[c]: connection in slot c, 0 when it is empty
    joins,     \* connections so far
    ref,       \* ref[w]: the weapon in entity slot w, 0 when it is free
    created    \* weapons created so far

world == <<player, joins, ref, created>>

WorldTypeOK ==
    /\ player \in [Players -> 0 .. MaxJoins]
    /\ joins \in 0 .. MaxJoins
    /\ ref \in [Weapons -> 0 .. MaxWeapons]
    /\ created \in 0 .. MaxWeapons

InitWorld ==
    /\ player = [c \in Players |-> 0]
    /\ joins = 0
    /\ ref = [w \in Weapons |-> 0]
    /\ created = 0

InGame(c) == player[c] # 0

Join(c) ==
    /\ ~InGame(c)
    /\ joins < MaxJoins
    /\ joins' = joins + 1
    /\ player' = [player EXCEPT ![c] = joins']
    /\ UNCHANGED <<ref, created>>

Leave(c) ==
    /\ InGame(c)
    /\ player' = [player EXCEPT ![c] = 0]
    /\ UNCHANGED <<joins, ref, created>>

CreateWeapon(w) ==
    /\ ref[w] = 0
    /\ created < MaxWeapons
    /\ created' = created + 1
    /\ ref' = [ref EXCEPT ![w] = created']
    /\ UNCHANGED <<player, joins>>

RemoveWeapon(w) ==
    /\ ref[w] # 0
    /\ ref' = [ref EXCEPT ![w] = 0]
    /\ UNCHANGED <<player, joins, created>>

=============================================================================
