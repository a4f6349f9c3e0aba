---------------------------- MODULE LoadoutCaches ----------------------------
(***************************************************************************)
(* What the game gets when it asks for the item in a player's loadout      *)
(* (weapons_ext/src/whitelist/extension.cpp, loadout_cache.h, policy.h).   *)
(* The Weapons plugin answers for the slots it has selected; within an     *)
(* inventory transaction its answer is kept, and so is the verdict on the  *)
(* player's combination of items.  The plugin runs inside a lookup and may *)
(* publish, open transactions, rebuild the policy or look up again before  *)
(* it answers.                                                             *)
(*                                                                         *)
(* Player classes are left out: a slot stands for a class and a slot.  A   *)
(* policy is known by the players whose items it forbids.  The plugin      *)
(* publishes or invalidates whenever its choice changes, as                *)
(* weapons/loadout_controller.sp does.                                     *)
(***************************************************************************)
EXTENDS WeaponWorld

CONSTANTS
    Slots,           \* slots of a loadout
    MaxEpochs,       \* bound on invalidations of a player's answers
    MaxTransactions, \* bound on transactions inside one another
    MaxLookups       \* bound on lookups inside one another

LoadoutAssumption ==
    /\ MaxEpochs \in Nat \ {0}
    /\ MaxTransactions \in Nat
    /\ MaxLookups \in Nat

NoItem == 0       \* kNoEntity: the plugin leaves the slot alone
Placeholder == -1 \* the entity answered while the weapon is still to be made
References == Placeholder .. MaxWeapons

VARIABLES
    owner,       \* whether the plugin has bound its resolver
    selected,    \* selected[c]: slots it answers for
    resolving,   \* resolving[c]: slots it is being asked about
    epoch,       \* epoch[c]: revision of c's answers
    entry,       \* entry[c][s]: the answer kept and its revision
    transaction, \* transaction[c]: depth, and the verdict if it is known
    staging,     \* definitions staged for the next policy, -1 for none
    lookups,     \* calls of the resolver under way, innermost last
    placed,      \* whether the placeholder entity is there
    dying,       \* weapons the game is about to remove
    choice,      \* choice[c][s]: weapon the plugin has for the slot, or NoItem
    offending    \* players whose items the policy forbids together

loadouts == <<owner, selected, resolving, epoch, entry, transaction, staging, lookups, placed,
              dying, choice, offending>>

NoEntry == [epoch |-> 0, reference |-> NoItem]
NoTransaction == [depth |-> 0, known |-> FALSE, forbidden |-> FALSE]
Lookups == [client : Players, slot : Slots, epoch : 1 .. MaxEpochs, inInventory : BOOLEAN,
            answer : References]

LoadoutsTypeOK ==
    /\ owner \in BOOLEAN
    /\ selected \in [Players -> SUBSET Slots]
    /\ resolving \in [Players -> SUBSET Slots]
    /\ epoch \in [Players -> 1 .. MaxEpochs]
    /\ entry \in [Players -> [Slots -> [epoch : 0 .. MaxEpochs, reference : References]]]
    /\ transaction \in [Players ->
          [depth : 0 .. MaxTransactions, known : BOOLEAN, forbidden : BOOLEAN]]
    /\ staging \in -1 .. 1
    /\ lookups \in Seq(Lookups)
    /\ placed \in BOOLEAN
    /\ dying \subseteq 1 .. MaxWeapons
    /\ choice \in [Players -> [Slots -> NoItem .. MaxWeapons]]
    /\ offending \subseteq Players

InitLoadouts ==
    /\ owner = FALSE
    /\ selected = [c \in Players |-> {}]
    /\ resolving = [c \in Players |-> {}]
    /\ epoch = [c \in Players |-> 1]
    /\ entry = [c \in Players |-> [s \in Slots |-> NoEntry]]
    /\ transaction = [c \in Players |-> NoTransaction]
    /\ staging = -1
    /\ lookups = <<>>
    /\ placed = FALSE
    /\ dying = {}
    /\ choice = [c \in Players |-> [s \in Slots |-> NoItem]]
    /\ offending = {}

-----------------------------------------------------------------------------
(* The cache. *)

Invalidate(clients) ==
    /\ \A c \in clients : epoch[c] < MaxEpochs
    /\ epoch' = [c \in Players |-> IF c \in clients THEN epoch[c] + 1 ELSE epoch[c]]

\* Reset forgets what is selected and kept, and that a resolver is running.
Reset(clients) ==
    LET Cleared(f, none) == [c \in Players |-> IF c \in clients THEN none ELSE f[c]]
    IN  /\ Invalidate(clients)
        /\ selected' = Cleared(selected, {})
        /\ resolving' = Cleared(resolving, {})
        /\ entry' = Cleared(entry, [s \in Slots |-> NoEntry])

\* ResetTransactions
Concluded == transaction' = [c \in Players |-> NoTransaction]

Alive(weapon) == \E w \in Weapons : ref[w] = weapon
Usable(weapon) == Alive(weapon) /\ weapon \notin dying

\* What the plugin answers now.  A weapon that is not there yet, or is going, is
\* answered by the placeholder.
Answer(c, s) ==
    IF choice[c][s] = NoItem THEN NoItem
    ELSE IF Usable(choice[c][s]) THEN choice[c][s] ELSE Placeholder

\* A kept answer is reused while its entity can be looked at.
Reusable(c, s) ==
    LET kept == entry[c][s]
    IN  /\ transaction[c].depth > 0
        /\ kept.epoch = epoch[c]
        /\ \/ kept.reference = NoItem
           \/ kept.reference = Placeholder /\ placed
           \/ kept.reference > NoItem /\ Usable(kept.reference)

-----------------------------------------------------------------------------
(* Natives of the Weapons plugin. *)

BindLoadout ==
    /\ owner' = TRUE
    /\ Reset(Players)
    /\ choice' = [c \in Players |-> [s \in Slots |-> NoItem]]
    /\ UNCHANGED <<transaction, staging, lookups, placed, dying, offending>>

\* ClearOwner: by the native, or when the plugin goes.
UnbindLoadout ==
    /\ owner
    /\ owner' = FALSE
    /\ \A c \in Players : epoch[c] + 1 < MaxEpochs
    /\ epoch' = [c \in Players |-> epoch[c] + 2]
    /\ selected' = [c \in Players |-> {}]
    /\ resolving' = [c \in Players |-> {}]
    /\ entry' = [c \in Players |-> [s \in Slots |-> NoEntry]]
    /\ Concluded
    /\ choice' = [c \in Players |-> [s \in Slots |-> NoItem]]
    /\ UNCHANGED <<staging, lookups, placed, dying, offending>>

\* The plugin chooses another weapon for a slot and says so.
PublishSelection(c, s, weapon) ==
    /\ owner /\ InGame(c)
    /\ weapon = NoItem \/ (weapon \in 1 .. created /\ Usable(weapon))
    /\ Invalidate({c})
    /\ choice' = [choice EXCEPT ![c][s] = weapon]
    /\ selected' = [selected EXCEPT ![c] = {t \in Slots : choice'[c][t] # NoItem}]
    /\ UNCHANGED <<owner, resolving, entry, transaction, staging, lookups, placed, dying, offending>>

InvalidateClient(c) ==
    /\ owner
    /\ Invalidate({c})
    /\ UNCHANGED <<owner, selected, resolving, entry, transaction, staging, lookups, placed,
                   dying, choice, offending>>

\* OnPluginPauseChange
PauseChange ==
    /\ owner
    /\ Invalidate(Players)
    /\ UNCHANGED <<owner, selected, resolving, entry, transaction, staging, lookups, placed,
                   dying, choice, offending>>

-----------------------------------------------------------------------------
(* Lookups. *)

\* ResolveCustom, when nothing kept can be reused: the plugin is asked, and has its
\* answer before it does anything else.
ResolveCustom(c, s) ==
    /\ owner /\ InGame(c)
    /\ s \in selected[c]
    /\ s \notin resolving[c]
    /\ ~Reusable(c, s)
    /\ Len(lookups) < MaxLookups
    /\ resolving' = [resolving EXCEPT ![c] = @ \cup {s}]
    /\ lookups' = Append(lookups, [client |-> c, slot |-> s, epoch |-> epoch[c],
          inInventory |-> transaction[c].depth > 0, answer |-> Answer(c, s)])
    /\ placed' = (placed \/ Answer(c, s) = Placeholder)
    /\ UNCHANGED <<owner, selected, epoch, entry, transaction, staging, dying, choice, offending>>

\* Store keeps an answer of this revision, given within a transaction.
Kept_Late(call) == call.inInventory
Kept(call) == call.inInventory /\ call.epoch = epoch[call.client]

ResolverReturns(failed) ==
    /\ lookups # <<>>
    /\ LET call == lookups[Len(lookups)]
           c == call.client
           s == call.slot
       IN  /\ lookups' = SubSeq(lookups, 1, Len(lookups) - 1)
           /\ resolving' = [resolving EXCEPT ![c] = @ \ {s}]
           /\ entry' = IF ~failed /\ Kept(call)
                       THEN [entry EXCEPT ![c][s] = [epoch |-> epoch[c], reference |-> call.answer]]
                       ELSE entry
    /\ UNCHANGED <<owner, selected, epoch, transaction, staging, placed, dying, choice, offending>>

-----------------------------------------------------------------------------
(* Inventory transactions and the policy. *)

BeginInventory(c) ==
    /\ transaction[c].depth < MaxTransactions
    /\ IF transaction[c].depth = 0
       THEN Invalidate({c}) /\ transaction' = [transaction EXCEPT ![c].depth = 1, ![c].known = FALSE]
       ELSE UNCHANGED epoch /\ transaction' = [transaction EXCEPT ![c].depth = @ + 1]
    /\ UNCHANGED <<owner, selected, resolving, entry, staging, lookups, placed, dying, choice,
                   offending>>

EndInventory(c) ==
    /\ transaction[c].depth > 0
    /\ transaction' = [transaction EXCEPT ![c].depth = @ - 1,
                                          ![c].known = @ /\ transaction[c].depth > 1]
    /\ UNCHANGED <<owner, selected, resolving, epoch, entry, staging, lookups, placed, dying,
                   choice, offending>>

\* Forbidden, asked by EvaluatePlayer
Forbidden(c) ==
    IF transaction[c].depth > 0 /\ transaction[c].known
    THEN transaction[c].forbidden ELSE c \in offending

EvaluatePlayer(c) ==
    /\ InGame(c)
    /\ transaction[c].depth > 0
    /\ transaction' = [transaction EXCEPT ![c].known = TRUE, ![c].forbidden = Forbidden(c)]
    /\ UNCHANGED <<owner, selected, resolving, epoch, entry, staging, lookups, placed, dying,
                   choice, offending>>

BeginPolicy ==
    /\ staging = -1
    /\ staging' = 0
    /\ UNCHANGED <<owner, selected, resolving, epoch, entry, transaction, lookups, placed, dying,
                   choice, offending>>

RegisterDefinition ==
    /\ staging # -1
    /\ staging' = 1
    /\ UNCHANGED <<owner, selected, resolving, epoch, entry, transaction, lookups, placed, dying,
                   choice, offending>>

\* A policy without definitions is refused.
Superseded == [c \in Players |-> NoTransaction]

CommitPolicy(players) ==
    /\ staging = 1
    /\ staging' = -1
    /\ offending' = players
    /\ transaction' = Superseded
    /\ Invalidate(Players)
    /\ UNCHANGED <<owner, selected, resolving, entry, lookups, placed, dying, choice>>

ResetState ==
    /\ Concluded
    /\ Invalidate(Players)
    /\ UNCHANGED <<owner, selected, resolving, entry, staging, lookups, placed, dying, choice,
                   offending>>

-----------------------------------------------------------------------------
(* The game. *)

\* OnClientDisconnected; the plugin forgets the player's choices.
ForgetLoadout(c) ==
    /\ Reset({c})
    /\ transaction' = [transaction EXCEPT ![c] = NoTransaction]
    /\ choice' = [choice EXCEPT ![c] = [s \in Slots |-> NoItem]]
    /\ offending' = offending \ {c}
    /\ UNCHANGED <<owner, staging, lookups, placed, dying>>

\* A player selects other items between two transactions.
ChangeItems(c) ==
    /\ InGame(c)
    /\ transaction[c].depth = 0
    /\ offending' \in {offending \cup {c}, offending \ {c}}
    /\ UNCHANGED <<owner, selected, resolving, epoch, entry, transaction, staging, lookups, placed,
                   dying, choice>>

\* A weapon is marked for removal; at the end of a frame what is marked is removed.
MarkForRemoval(w) ==
    /\ ref[w] # 0
    /\ dying' = dying \cup {ref[w]}
    /\ UNCHANGED <<owner, selected, resolving, epoch, entry, transaction, staging, lookups, placed,
                   choice, offending>>

EndFrame ==
    /\ lookups = <<>>
    /\ ref' = [w \in Weapons |-> IF ref[w] \in dying THEN 0 ELSE ref[w]]
    /\ placed' = FALSE
    /\ UNCHANGED <<player, joins, created, owner, selected, resolving, epoch, entry, transaction,
                   staging, lookups, dying, choice, offending>>

-----------------------------------------------------------------------------

NextLoadouts ==
    \/ lookups = <<>> /\ UNCHANGED loadouts /\ \E c \in Players : Join(c)
    \/ \E c \in Players : Leave(c) /\ ForgetLoadout(c)
    \/ \E w \in Weapons : CreateWeapon(w) /\ UNCHANGED loadouts
    \/ EndFrame
    \/ /\ UNCHANGED world
       /\ \/ BindLoadout \/ UnbindLoadout \/ PauseChange
          \/ \E c \in Players, s \in Slots, weapon \in NoItem .. MaxWeapons :
                PublishSelection(c, s, weapon)
          \/ \E c \in Players : \/ InvalidateClient(c) \/ BeginInventory(c) \/ EndInventory(c)
                                \/ EvaluatePlayer(c) \/ ChangeItems(c)
          \/ \E c \in Players, s \in Slots : ResolveCustom(c, s)
          \/ \E failed \in BOOLEAN : ResolverReturns(failed)
          \/ BeginPolicy \/ RegisterDefinition \/ ResetState
          \/ \E players \in SUBSET Players : CommitPolicy(players)
          \/ \E w \in Weapons : MarkForRemoval(w)

LoadoutsSpec == InitWorld /\ InitLoadouts /\ [][NextLoadouts]_<<world, loadouts>>

\* What a lookup takes from the cache is what the plugin would answer now: an answer
\* given before the plugin published, paused, disconnected or opened another
\* transaction is never reused.
KeptAnswersAreCurrent ==
    \A c \in Players, s \in Slots : Reusable(c, s) => entry[c][s].reference = Answer(c, s)

\* A verdict kept for a transaction is the committed policy's.
VerdictsAreCurrent ==
    \A c \in Players : transaction[c].known => transaction[c].forbidden = (c \in offending)

CachesAreCurrent == KeptAnswersAreCurrent /\ VerdictsAreCurrent

=============================================================================
