----------------------------- MODULE SpreadShots -----------------------------
(***************************************************************************)
(* Spread patterns, accuracy and recoil that plugins give to a weapon      *)
(* (weapons_ext/src/spread/extension.cpp).  The circular pattern replaces  *)
(* the game's one table of fixed pellet offsets while a shot is fired, the *)
(* wide one redirects the pellets of one shot; a pellet may hit something  *)
(* that fires another weapon before the shot has returned.                 *)
(*                                                                         *)
(* Offsets and angles are left out; a pellet is known by its place in the  *)
(* pattern.  The time since the last shot is one of three ranges.          *)
(***************************************************************************)
EXTENDS WeaponWorld

CONSTANTS
    WidePellets, \* kWideHorizontalPelletCount
    MaxPellets,  \* bound on the pellets of one shot
    MaxShotDepth \* bound on shots fired while another is fired

SpreadAssumption ==
    /\ WidePellets \in Nat \ {0}
    /\ MaxPellets \in Nat
    /\ MaxShotDepth \in Nat

Patterns == {"default", "circular15", "wideHorizontal20"}

VARIABLES
    pattern,     \* pattern[w]: pattern of the weapon that was in slot w
    accuracy,    \* accuracy[w]: weapon with the Ambassador's accuracy, 0 for none
    punch,       \* punch[w]: recoil set for the weapon that was in slot w
    table,       \* the game's table of fixed offsets
    swapDepth,   \* circular shots under way
    wide,        \* the wide shot whose pellets are redirected
    shots,       \* shots under way, innermost last
    chosen       \* chosen[s]: what the plugins chose for weapon s last

spread == <<pattern, accuracy, punch, table, swapDepth, wide, shots, chosen>>

Recoils == {"stock", "override"}
NoPattern == [ref |-> 0, pattern |-> "default"]
NoPunch == [ref |-> 0, recoil |-> "stock"]
NoWide == [active |-> FALSE, weapon |-> 0, pellet |-> 0]
Serials == 1 .. MaxWeapons

SpreadTypeOK ==
    /\ pattern \in [Weapons -> [ref : 0 .. MaxWeapons, pattern : Patterns]]
    /\ accuracy \in [Weapons -> 0 .. MaxWeapons]
    /\ punch \in [Weapons -> [ref : 0 .. MaxWeapons, recoil : Recoils]]
    /\ table \in {"stock", "circular15"}
    /\ swapDepth \in 0 .. MaxShotDepth
    /\ wide \in [active : BOOLEAN, weapon : 0 .. MaxWeapons, pellet : 0 .. WidePellets - 1]
    /\ \A i \in 1 .. Len(shots) :
          shots[i] \in [weapon : Serials, pattern : Patterns, pellets : 0 .. MaxPellets]
    /\ Len(shots) <= MaxShotDepth
    /\ chosen \in [Serials -> [pattern : Patterns, accurate : BOOLEAN, recoil : Recoils]]

InitSpread ==
    /\ pattern = [w \in Weapons |-> NoPattern]
    /\ accuracy = [w \in Weapons |-> 0]
    /\ punch = [w \in Weapons |-> NoPunch]
    /\ table = "stock"
    /\ swapDepth = 0
    /\ wide = NoWide
    /\ shots = <<>>
    /\ chosen = [s \in Serials |-> [pattern |-> "default", accurate |-> FALSE, recoil |-> "stock"]]

-----------------------------------------------------------------------------
(* Natives.  A setting is kept by entity slot, with the weapon it is for. *)

SetPattern(w, p) ==
    /\ ref[w] # 0
    /\ pattern' = [pattern EXCEPT ![w] =
          IF p = "default" THEN NoPattern ELSE [ref |-> ref[w], pattern |-> p]]
    /\ chosen' = [chosen EXCEPT ![ref[w]].pattern = p]
    /\ UNCHANGED <<accuracy, punch, table, swapDepth, wide, shots>>

SetAmbassadorAccuracy(w, on) ==
    /\ ref[w] # 0
    /\ accuracy' = [accuracy EXCEPT ![w] = IF on THEN ref[w] ELSE 0]
    /\ chosen' = [chosen EXCEPT ![ref[w]].accurate = on]
    /\ UNCHANGED <<pattern, punch, table, swapDepth, wide, shots>>

\* An override, zero included, replaces the stock recoil.
SetPunchAngle(w, amount) ==
    /\ ref[w] # 0
    /\ punch' = [punch EXCEPT ![w] =
          IF amount = "stock" THEN NoPunch ELSE [ref |-> ref[w], recoil |-> amount]]
    /\ chosen' = [chosen EXCEPT ![ref[w]].recoil = amount]
    /\ UNCHANGED <<pattern, accuracy, table, swapDepth, wide, shots>>

-----------------------------------------------------------------------------
(* Detours.  A setting of an earlier weapon in the slot is dropped. *)

GetPattern_BySlot(w) == pattern[w].pattern
GetPattern(w) == IF pattern[w].ref = ref[w] THEN pattern[w].pattern ELSE "default"

Swept(w) == IF pattern[w].ref = ref[w] THEN pattern ELSE [pattern EXCEPT ![w] = NoPattern]

\* BeginCircular15 and BeginWideHorizontal20, for the pattern of the weapon.
FXFireBullets(w) ==
    LET p == GetPattern(w)
    IN  /\ ref[w] # 0
        /\ Len(shots) < MaxShotDepth
        /\ pattern' = Swept(w)
        /\ shots' = Append(shots, [weapon |-> ref[w], pattern |-> p, pellets |-> 0])
        /\ swapDepth' = IF p = "circular15" THEN swapDepth + 1 ELSE swapDepth
        /\ table' = IF p = "circular15" /\ swapDepth = 0 THEN "circular15" ELSE table
        /\ wide' = IF p = "wideHorizontal20"
                   THEN [active |-> TRUE, weapon |-> ref[w], pellet |-> 0] ELSE wide
        /\ UNCHANGED <<accuracy, punch, chosen>>

\* A pellet of the innermost shot; the wide shot's are redirected one by one.
ApplyWideHorizontal20(weapon) == wide.active /\ wide.weapon = weapon

PlayerFireBullet ==
    /\ shots # <<>>
    /\ LET n == Len(shots)
       IN  /\ shots[n].pellets < MaxPellets
           /\ shots' = [shots EXCEPT ![n].pellets = @ + 1]
           /\ wide' = IF ApplyWideHorizontal20(shots[n].weapon)
                      THEN [wide EXCEPT !.pellet = (@ + 1) % WidePellets] ELSE wide
    /\ UNCHANGED <<pattern, accuracy, punch, table, swapDepth, chosen>>

\* EndCircular15 restores the stock table when the outermost circular shot ends;
\* EndWideHorizontal20 stops redirecting.
Restores_Never(depth) == FALSE
Restores(depth) == depth = 1

EndFireBullets ==
    /\ shots # <<>>
    /\ LET p == shots[Len(shots)].pattern
       IN  /\ shots' = SubSeq(shots, 1, Len(shots) - 1)
           /\ IF p = "circular15" /\ swapDepth > 0
              THEN /\ swapDepth' = swapDepth - 1
                   /\ table' = IF Restores(swapDepth) THEN "stock" ELSE table
              ELSE UNCHANGED <<swapDepth, table>>
           /\ wide' = IF p = "wideHorizontal20" THEN NoWide ELSE wide
    /\ UNCHANGED <<pattern, accuracy, punch, chosen>>

\* GetWeaponSpread: full until half a second after a shot, none after a second.
Spreads == [early |-> "full", fading |-> "less", late |-> "none"]
ShouldUseAmbassadorAccuracy(w) == accuracy[w] # 0 /\ accuracy[w] = ref[w]

GetWeaponSpread(w, elapsed) ==
    IF ShouldUseAmbassadorAccuracy(w) THEN Spreads[elapsed] ELSE "full"


SweepAccuracy(w) ==
    /\ ref[w] # 0
    /\ accuracy[w] \notin {0, ref[w]}
    /\ accuracy' = [accuracy EXCEPT ![w] = 0]
    /\ UNCHANGED <<pattern, punch, table, swapDepth, wide, shots, chosen>>

\* UpdatePunchAngles
Punch(w) == IF punch[w].ref = ref[w] THEN punch[w].recoil ELSE "stock"

SweepPunch(w) ==
    /\ ref[w] # 0
    /\ punch[w].ref \notin {0, ref[w]}
    /\ punch' = [punch EXCEPT ![w] = NoPunch]
    /\ UNCHANGED <<pattern, accuracy, table, swapDepth, wide, shots, chosen>>

\* SDK_OnUnload, between shots
RestoreStockPattern ==
    /\ shots = <<>>
    /\ table' = "stock"
    /\ swapDepth' = 0
    /\ UNCHANGED <<pattern, accuracy, punch, wide, shots, chosen>>

-----------------------------------------------------------------------------

NextSpread ==
    \/ \E w \in Weapons : (CreateWeapon(w) \/ RemoveWeapon(w)) /\ UNCHANGED spread
    \/ /\ UNCHANGED world
       /\ \/ \E w \in Weapons, p \in Patterns : SetPattern(w, p)
          \/ \E w \in Weapons, on \in BOOLEAN : SetAmbassadorAccuracy(w, on)
          \/ \E w \in Weapons, amount \in Recoils : SetPunchAngle(w, amount)
          \/ \E w \in Weapons : FXFireBullets(w) \/ SweepAccuracy(w) \/ SweepPunch(w)
          \/ PlayerFireBullet
          \/ EndFireBullets
          \/ RestoreStockPattern

SpreadSpec == InitWorld /\ InitSpread /\ [][NextSpread]_<<world, spread>>

\* However shots nest, the game's table is its own again when none is under way,
\* and no pellet is redirected any more.
StockBetweenShots == shots = <<>> => table = "stock" /\ swapDepth = 0 /\ ~wide.active

\* A weapon has the pattern, the accuracy and the recoil the plugins chose for it,
\* never those of a weapon that was in its slot.
SettingsFollowTheWeapon ==
    \A w \in Weapons : ref[w] # 0 =>
        /\ GetPattern(w) = chosen[ref[w]].pattern
        /\ ShouldUseAmbassadorAccuracy(w) = chosen[ref[w]].accurate
        /\ Punch(w) = chosen[ref[w]].recoil

=============================================================================
