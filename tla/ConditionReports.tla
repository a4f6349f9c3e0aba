-------------------------- MODULE ConditionReports --------------------------
(***************************************************************************)
(* Telling plugins of players' conditions                                  *)
(* (weapons_ext/src/tf2tools/conditions.cpp).  A proxy sees the fields     *)
(* conditions are kept in whenever the server packs a player for the       *)
(* network; what it sees is looked at in the next frame, and the forwards  *)
(* run for what has changed since.                                         *)
(*                                                                         *)
(* Of the six fields there are the two that share the first 32 conditions, *)
(* m_nPlayerCond and _condition_bits, and one of the others, which are     *)
(* treated alike.  A field the game lacks keeps the manager off for good.  *)
(***************************************************************************)
EXTENDS WeaponWorld

CONSTANTS
    Conds,       \* conditions
    ListConds,   \* those of the first 32 the game keeps in _condition_bits
    MaxChanges   \* bound on changes of conditions

ConditionsAssumption ==
    /\ ListConds \subseteq Conds
    /\ MaxChanges \in Nat

Vars == {"cond", "bits", "ex"}
Low == {"cond", "bits"}
Held == [cond |-> Conds \ ListConds, bits |-> ListConds, ex |-> Conds]

VARIABLES
    watching,  \* the proxies are in place
    field,     \* field[c][v]: the conditions in a field of the player
    unpacked,  \* players changed since they were packed last
    frame,     \* HandleCondChange calls due, the first one next
    old,       \* m_OldConds
    told,      \* the conditions plugins take a player to have, by m_CondOffset
    changes    \* changes so far

conditions == <<watching, field, unpacked, frame, old, told, changes>>

NoConds == [v \in Vars |-> {}]
Offset(v) == IF v \in Low THEN "low" ELSE v

ConditionsTypeOK ==
    /\ watching \in BOOLEAN
    /\ field \in [Players -> [Vars -> SUBSET Conds]]
    /\ unpacked \subseteq Players
    /\ frame \in Seq([client : Players, connection : 1 .. MaxJoins, var : Vars, conds : SUBSET Conds])
    /\ old \in [Players -> [Vars -> SUBSET Conds]]
    /\ told \in [Players -> [{"low", "ex"} -> SUBSET Conds]]
    /\ changes \in 0 .. MaxChanges

InitConditions ==
    /\ watching = FALSE
    /\ field = [c \in Players |-> NoConds]
    /\ unpacked = {}
    /\ frame = <<>>
    /\ old = [c \in Players |-> NoConds]
    /\ told = [c \in Players |-> [o \in {"low", "ex"} |-> {}]]
    /\ changes = 0

-----------------------------------------------------------------------------
(* The manager. *)

ToldOf(fields) == [o \in {"low", "ex"} |-> UNION {fields[v] : v \in {w \in Vars : Offset(w) = o}}]

\* Init reads the players who are there; plugins are told of changes from then on.
StartWatching ==
    /\ ~watching
    /\ watching' = TRUE
    /\ old' = [c \in Players |-> IF InGame(c) THEN field[c] ELSE old[c]]
    /\ told' = [c \in Players |-> ToldOf(field[c])]
    /\ UNCHANGED <<field, unpacked, frame, changes>>

StopWatching ==
    /\ watching
    /\ watching' = FALSE
    /\ UNCHANGED <<field, unpacked, frame, old, told, changes>>

\* OnClientPutInServer
Greeted(c) == IF watching THEN [old EXCEPT ![c] = NoConds] ELSE old

WatchPlayer(c) ==
    /\ old' = Greeted(c)
    /\ field' = [field EXCEPT ![c] = NoConds]
    /\ told' = [told EXCEPT ![c] = ToldOf(NoConds)]
    /\ UNCHANGED <<watching, unpacked, frame, changes>>

\* The value looked at before, and now, with the other field of the same conditions.
Twin(v) == IF v = "cond" THEN "bits" ELSE "cond"
Before(c, v) == IF v \in Low THEN old[c][Twin(v)] \cup old[c][v] ELSE old[c][v]
Now(call) ==
    IF call.var \in Low THEN old[call.client][Twin(call.var)] \cup call.conds ELSE call.conds

\* ProcessCondChange, unless the player is gone.
Known_BySlot(call) == InGame(call.client)
Known(call) == player[call.client] = call.connection

ProcessCondChange ==
    /\ frame # <<>>
    /\ frame' = Tail(frame)
    /\ LET call == Head(frame)
           c == call.client
           v == call.var
           added == Now(call) \ Before(c, v)
           removed == Before(c, v) \ Now(call)
       IN  IF Known(call) /\ Now(call) # Before(c, v)
           THEN /\ old' = [old EXCEPT ![c][v] = Now(call)]
                /\ told' = [told EXCEPT ![c][Offset(v)] = (@ \cup added) \ removed]
           ELSE UNCHANGED <<old, told>>
    /\ UNCHANGED <<watching, field, unpacked, changes>>

-----------------------------------------------------------------------------
(* The game. *)

ChangeConds(c, v, conds) ==
    /\ InGame(c)
    /\ changes < MaxChanges
    /\ conds # field[c][v]
    /\ field' = [field EXCEPT ![c][v] = conds]
    /\ unpacked' = unpacked \cup {c}
    /\ changes' = changes + 1
    /\ UNCHANGED <<watching, frame, old, told>>

\* At the end of a frame the players who changed are packed, and the proxies see all
\* their fields; what they saw is looked at before the player is packed again.
\* OnConVarChange.
Seen(c) ==
    LET call(v) == [client |-> c, connection |-> player[c], var |-> v, conds |-> field[c][v]]
    IN  <<call("cond"), call("bits"), call("ex")>>

PackPlayer(c) ==
    /\ c \in unpacked
    /\ \A i \in DOMAIN frame : frame[i].connection # player[c]
    /\ unpacked' = unpacked \ {c}
    /\ frame' = IF watching THEN frame \o Seen(c) ELSE frame
    /\ UNCHANGED <<watching, field, old, told, changes>>

ForgetConds(c) ==
    /\ field' = [field EXCEPT ![c] = NoConds]
    /\ unpacked' = unpacked \ {c}
    /\ UNCHANGED <<watching, frame, old, told, changes>>

-----------------------------------------------------------------------------

NextConditions ==
    \/ \E c \in Players : Join(c) /\ WatchPlayer(c)
    \/ \E c \in Players : Leave(c) /\ ForgetConds(c)
    \/ /\ UNCHANGED world
       /\ \/ StartWatching \/ StopWatching \/ ProcessCondChange
          \/ \E c \in Players : PackPlayer(c)
          \/ \E c \in Players, v \in Vars : \E conds \in SUBSET Held[v] : ChangeConds(c, v, conds)

ConditionsSpec == InitWorld /\ InitConditions /\ [][NextConditions]_<<world, conditions>>

\* Every change of the player has been packed and looked at.
Settled(c) == watching /\ InGame(c) /\ c \notin unpacked /\ frame = <<>>

\* Plugins know every condition a player has, of the first 32 ones at least; of the
\* others they also know when one has ended.
ConditionsAreReported ==
    \A c \in Players : Settled(c) =>
        /\ told[c]["ex"] = field[c]["ex"]
        /\ field[c]["cond"] \cup field[c]["bits"] \subseteq told[c]["low"]
=============================================================================
