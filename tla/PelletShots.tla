----------------------------- MODULE PelletShots -----------------------------
(***************************************************************************)
(* How pellets that hit become shots reported to the plugins: hits of one  *)
(* tick are gathered per attacker and victim, wait in a queue of pairs,    *)
(* and are reported in a later frame or when the victim dies               *)
(* (weapons_ext/src/pellets/extension.cpp, pending_pairs.h).               *)
(*                                                                         *)
(* The reported forward runs plugins, which may cause hits, deaths and     *)
(* disconnections before the frame goes on.  A trace stands for the        *)
(* hitbox, hitgroup and end position of a pellet.                          *)
(***************************************************************************)
EXTENDS WeaponWorld, SequencesExt

CONSTANTS
    Traces,         \* where pellets end
    NoTrace,
    ShotSizes,      \* pellets a weapon may fire
    DefaultPellets, \* kDefaultPelletsPerShot
    KillWindow,     \* kPelletKillTickWindow
    MaxTicks,       \* bound on the clock
    MaxHits         \* bound on the pellets that hit

PelletsAssumption ==
    /\ NoTrace \notin Traces
    /\ ShotSizes \subseteq Nat \ {0}
    /\ DefaultPellets \in Nat \ {0}
    /\ KillWindow \in Nat
    /\ MaxTicks \in Nat \ {0}
    /\ MaxHits \in Nat

Pairs == {ab \in Players \X Players : ab[1] # ab[2]}

VARIABLES
    tick,       \* tickcount of the game
    sharedHook, \* traces of every player are seen through a shared vtable
    hook,       \* hook[c]: traces of c are also seen through a hook of its own
    shot,       \* shot[ab]: hits gathered for the pair
    lastTrace,  \* lastTrace[ab]: the trace counted last
    pending,    \* pairs with a shot to report, oldest first
    batch,      \* pairs the frame has yet to look at
    lastKill,   \* lastKill[ab]: pellets of the killing shot
    pelletsOf,  \* pelletsOf[w]: pellets a weapon fires, if it is the one set
    landed,     \* pellets that hit so far
    hits,       \* hits[ab]: pellets that hit since the shot began
    parties     \* parties[ab]: connections whose hits the shot gathers

pellets == <<tick, sharedHook, hook, shot, lastTrace, pending, batch, lastKill, pelletsOf,
             landed, hits, parties>>

NoShot == [tick |-> 0, count |-> 0, total |-> 0, weapon |-> 0]
NoKill == [pellets |-> 0, total |-> 0]
Unseen == [tick |-> 0, trace |-> NoTrace]
Unset == [ref |-> 0, count |-> 0]
Sizes == ShotSizes \cup {0, DefaultPellets}

PelletsTypeOK ==
    /\ tick \in 1 .. MaxTicks
    /\ sharedHook \in BOOLEAN
    /\ hook \in [Players -> BOOLEAN]
    /\ shot \in [Pairs -> [tick : 0 .. MaxTicks, count : 0 .. 2 * MaxHits, total : Sizes,
                           weapon : 0 .. MaxWeapons]]
    /\ lastTrace \in [Pairs -> [tick : 0 .. MaxTicks, trace : Traces \cup {NoTrace}]]
    /\ pending \in Seq(Pairs) /\ IsInjective(pending)
    /\ batch \in 0 .. Len(pending)
    /\ lastKill \in [Pairs -> [pellets : 0 .. 2 * MaxHits, total : Sizes]]
    /\ pelletsOf \in [Weapons -> [ref : 0 .. MaxWeapons, count : Sizes]]
    /\ landed \in 0 .. MaxHits
    /\ hits \in [Pairs -> 0 .. MaxHits]
    /\ \A ab \in Pairs : parties[ab] \subseteq (1 .. MaxJoins) \X (1 .. MaxJoins)

InitPellets ==
    /\ tick = 1
    /\ sharedHook = FALSE
    /\ hook = [c \in Players |-> FALSE]
    /\ shot = [ab \in Pairs |-> NoShot]
    /\ lastTrace = [ab \in Pairs |-> Unseen]
    /\ pending = <<>>
    /\ batch = 0
    /\ lastKill = [ab \in Pairs |-> NoKill]
    /\ pelletsOf = [w \in Weapons |-> Unset]
    /\ landed = 0
    /\ hits = [ab \in Pairs |-> 0]
    /\ parties = [ab \in Pairs |-> {}]

-----------------------------------------------------------------------------
(* Connections. *)

\* HookClient: one hook sees all players of a vtable.  Adding it may fail, and
\* then the player gets a hook of its own, which stays.
HookPlayer(c) ==
    /\ \/ sharedHook /\ UNCHANGED <<sharedHook, hook>>
       \/ ~sharedHook /\ sharedHook' = TRUE /\ UNCHANGED hook
       \/ ~sharedHook /\ hook' = [hook EXCEPT ![c] = TRUE] /\ UNCHANGED sharedHook
    /\ UNCHANGED <<tick, shot, lastTrace, pending, batch, lastKill, pelletsOf, landed, hits,
                   parties>>

\* OnClientDisconnecting forgets what the player hit and what hit the player; the
\* pairs stay in the queue.
Involving(c) == {ab \in Pairs : c \in {ab[1], ab[2]}}

ForgetPlayer(c) ==
    LET Cleared(f, none) == [ab \in Pairs |-> IF ab \in Involving(c) THEN none ELSE f[ab]]
    IN  /\ hook' = [hook EXCEPT ![c] = FALSE]
        /\ shot' = Cleared(shot, NoShot)
        /\ lastKill' = Cleared(lastKill, NoKill)
        /\ lastTrace' = [ab \in Pairs |-> IF ab \in Involving(c)
                                          THEN [lastTrace[ab] EXCEPT !.tick = 0] ELSE lastTrace[ab]]
        /\ hits' = Cleared(hits, 0)
        /\ parties' = Cleared(parties, {})
        /\ UNCHANGED <<tick, sharedHook, pending, batch, pelletsOf, landed>>

-----------------------------------------------------------------------------
(* A pellet that hits. *)

SetWeaponPelletCount(w, count) ==
    /\ ref[w] # 0
    /\ pelletsOf' = [pelletsOf EXCEPT ![w] =
          IF count > 0 THEN [ref |-> ref[w], count |-> count] ELSE Unset]
    /\ UNCHANGED <<tick, sharedHook, hook, shot, lastTrace, pending, batch, lastKill, landed,
                   hits, parties>>

GetWeaponPelletCount(w) ==
    IF pelletsOf[w].ref = ref[w] /\ pelletsOf[w].count > 0 THEN pelletsOf[w].count
    ELSE DefaultPellets

\* PendingPairs::Add leaves out a pair that is queued.
Enqueued_Again(queue, ab) == Append(queue, ab)
Enqueued(queue, ab) == IF ab \in Range(queue) THEN queue ELSE Append(queue, ab)

\* The shot a hit of this tick belongs to.
Continued(ab, w) ==
    IF shot[ab].tick = tick THEN shot[ab]
    ELSE [tick |-> tick, count |-> 0, total |-> GetWeaponPelletCount(w), weapon |-> ref[w]]

\* A trace like the one counted last in this tick is the same pellet, seen by a
\* second hook.
IsDuplicate_Never(ab, trace, calls) == FALSE
IsDuplicate(ab, trace, calls) ==
    \/ calls > 1
    \/ /\ shot[ab].tick = tick
       /\ lastTrace[ab].tick = tick
       /\ lastTrace[ab].trace = trace

\* How often RecordPelletHit counts the pellet, which every hook reports.
HooksOf(c) == (IF sharedHook THEN 1 ELSE 0) + (IF hook[c] THEN 1 ELSE 0)
Counted(ab, trace) == Cardinality({i \in 1 .. HooksOf(ab[2]) : ~IsDuplicate(ab, trace, i)})

TraceAttack(ab, w, trace) ==
    /\ InGame(ab[1]) /\ InGame(ab[2])
    /\ ref[w] # 0
    /\ landed < MaxHits
    /\ landed' = landed + 1
    /\ HooksOf(ab[2]) > 0
    /\ LET fresh == shot[ab].tick # tick
           counted == Counted(ab, trace)
       IN  /\ shot' = [shot EXCEPT ![ab] = [Continued(ab, w) EXCEPT !.count = @ + counted]]
           /\ lastTrace' = [lastTrace EXCEPT ![ab] = [tick |-> tick, trace |-> trace]]
           /\ pending' = IF counted > 0 THEN Enqueued(pending, ab) ELSE pending
           /\ hits' = [hits EXCEPT ![ab] = (IF fresh THEN 0 ELSE @) + 1]
           /\ parties' = [parties EXCEPT ![ab] =
                 (IF fresh THEN {} ELSE @) \cup {<<player[ab[1]], player[ab[2]]>>}]
    /\ UNCHANGED <<tick, sharedHook, hook, batch, lastKill, pelletsOf>>

-----------------------------------------------------------------------------
(* Reporting. *)

ClearShot(ab) ==
    /\ shot' = [shot EXCEPT ![ab] = NoShot]
    /\ hits' = [hits EXCEPT ![ab] = 0]
    /\ parties' = [parties EXCEPT ![ab] = {}]

\* The frame looks at the pairs that were queued when it began.
BeginFrame ==
    /\ batch = 0
    /\ tick < MaxTicks
    /\ tick' = tick + 1
    /\ batch' = Len(pending)
    /\ UNCHANGED <<sharedHook, hook, shot, lastTrace, pending, lastKill, pelletsOf, landed,
                   hits, parties>>

\* A pair of the batch: nothing left to report, a shot of this very tick, which
\* waits for the next frame, or one to report.
Requeued_Lost(ab) == Tail(pending)
Requeued(ab) == Enqueued(Tail(pending), ab)

FramePair ==
    /\ batch > 0
    /\ batch' = batch - 1
    /\ LET ab == Head(pending)
           held == shot[ab]
           empty == held.tick = 0 \/ held.count = 0
       IN  IF ~empty /\ tick <= held.tick
           THEN pending' = Requeued(ab) /\ UNCHANGED <<shot, hits, parties>>
           ELSE /\ pending' = Tail(pending)
                /\ IF empty THEN UNCHANGED <<shot, hits, parties>> ELSE ClearShot(ab)
    /\ UNCHANGED <<tick, sharedHook, hook, lastTrace, lastKill, pelletsOf, landed>>

\* FireGameEvent "player_death": the shot that killed is reported at once.
PlayerDeath(ab) ==
    /\ InGame(ab[1]) /\ InGame(ab[2])
    /\ shot[ab].count > 0
    /\ shot[ab].tick \in tick - KillWindow .. tick
    /\ lastKill' = [lastKill EXCEPT ![ab] = [pellets |-> shot[ab].count, total |-> shot[ab].total]]
    /\ ClearShot(ab)
    /\ UNCHANGED <<tick, sharedHook, hook, lastTrace, pending, batch, pelletsOf, landed>>

\* IsCurrentShotFull: every pellet of the weapon's shot has hit in this tick.
IsCurrentShotFull(ab, w) ==
    /\ shot[ab].tick = tick
    /\ shot[ab].weapon = ref[w]
    /\ shot[ab].total > 0
    /\ shot[ab].count >= shot[ab].total

-----------------------------------------------------------------------------

NextPellets ==
    \/ \E c \in Players : Join(c) /\ HookPlayer(c)
    \/ \E c \in Players : Leave(c) /\ ForgetPlayer(c)
    \/ \E w \in Weapons : (CreateWeapon(w) \/ RemoveWeapon(w)) /\ UNCHANGED pellets
    \/ /\ UNCHANGED world
       /\ \/ \E w \in Weapons, count \in ShotSizes \cup {0} : SetWeaponPelletCount(w, count)
          \/ \E ab \in Pairs, w \in Weapons, trace \in Traces : TraceAttack(ab, w, trace)
          \/ BeginFrame
          \/ FramePair
          \/ \E ab \in Pairs : PlayerDeath(ab)

PelletsSpec == InitWorld /\ InitPellets /\ [][NextPellets]_<<world, pellets>>

\* A shot that is held is queued, so that a frame reports it, and gathers the hits
\* of two players who are still there.
HeldShotsAreQueued ==
    \A ab \in Pairs : shot[ab].count > 0 =>
        /\ ab \in Range(pending)
        /\ parties[ab] = {<<player[ab[1]], player[ab[2]]>>}

\* A pellet is counted at most once, whatever hooks see it, and a shot is not
\* called full before all its pellets have hit.
ShotsAreNotOvercounted ==
    \A ab \in Pairs :
        /\ shot[ab].count <= hits[ab]
        /\ \A w \in Weapons : ref[w] # 0 /\ IsCurrentShotFull(ab, w) => hits[ab] >= shot[ab].total

=============================================================================
