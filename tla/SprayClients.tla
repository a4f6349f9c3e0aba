------------------------------ MODULE SprayClients ------------------------------
(***************************************************************************)
(* The connections the native half of enhanced_sprays works for, the       *)
(* plugin that controls it and the game frame (src/extensions/             *)
(* enhanced_sprays/native/extension.cpp).  A slot is reused by the next    *)
(* player who connects; a serial number tells the connections of a slot    *)
(* apart.  Everything here runs on the game thread: a native, a network    *)
(* packet and a frame never overlap, and a frame visits the slots in order *)
(* ("turn" is the slot it goes on with, 0 between frames).                 *)
(***************************************************************************)
EXTENDS Naturals, FiniteSets

CONSTANTS
    MaxClients,   \* slots
    Plugins,      \* plugins that call the natives
    NoPlugin,     \* no plugin controls the extension
    MaxSerials    \* bound on connections

ASSUME ClientsAssumption ==
    /\ MaxClients \in Nat \ {0}
    /\ MaxSerials \in Nat
    /\ NoPlugin \notin Plugins

Clients == 1 .. MaxClients

VARIABLES
    serial,    \* serial[c]: connection of the human in slot c, 0 when it is empty
    serials,   \* connections made so far
    running,   \* the map runs and the userinfo table is hooked
    owner,     \* the controlling plugin
    turn       \* slot the game frame goes on with, 0 between frames

connections == <<serial, serials, running, owner, turn>>

ClientsTypeOK ==
    /\ serial \in [Clients -> 0 .. MaxSerials]
    /\ serials \in 0 .. MaxSerials
    /\ running \in BOOLEAN
    /\ owner \in Plugins \cup {NoPlugin}
    /\ turn \in 0 .. MaxClients

InitClients ==
    /\ serial = [c \in Clients |-> 0]
    /\ serials = 0
    /\ running = TRUE
    /\ owner = NoPlugin
    /\ turn = 0

Current(c) == serial[c] # 0

\* An input reaches the game thread between frames.
Input == turn = 0 /\ UNCHANGED turn

\* Natives that steer the extension belong to the first plugin that calls one.
Claim(p) ==
    /\ owner \in {NoPlugin, p}
    /\ owner' = p

\* A human is put in the server: BindClient hooks the connection's channel.
PutInServer(c) ==
    /\ Input
    /\ running
    /\ serial[c] = 0
    /\ serials < MaxSerials
    /\ serials' = serials + 1
    /\ serial' = [serial EXCEPT ![c] = serials']
    /\ UNCHANGED <<running, owner>>

Disconnecting(c) ==
    /\ Input
    /\ serial[c] # 0
    /\ serial' = [serial EXCEPT ![c] = 0]
    /\ UNCHANGED <<serials, running, owner>>

\* LevelShutdown clears every slot; the players connect to the next map anew.
LevelShutdown ==
    /\ Input
    /\ running
    /\ running' = FALSE
    /\ serial' = [c \in Clients |-> 0]
    /\ UNCHANGED <<serials, owner>>

ServerActivate ==
    /\ Input
    /\ ~running
    /\ running' = TRUE
    /\ UNCHANGED <<serial, serials, owner>>

PluginUnloaded(p) ==
    /\ Input
    /\ owner = p
    /\ owner' = NoPlugin
    /\ UNCHANGED <<serial, serials, running>>

\* A frame visits the slots that have something to do, in order, and ends after
\* the last one.
NextSlot(c, busy) ==
    LET later == {x \in busy : x > c}
    IN  IF later = {} THEN 0 ELSE CHOOSE x \in later : \A y \in later : x <= y

IdleFrame(busy) ==
    /\ Input
    /\ busy = {}
    /\ UNCHANGED <<serial, serials, running, owner>>

FrameReaches(c, busy) ==
    /\ c \in busy
    /\ turn = c \/ (turn = 0 /\ c = NextSlot(0, busy))
    /\ turn' = NextSlot(c, busy)
    /\ UNCHANGED <<serial, serials, running, owner>>

=============================================================================
