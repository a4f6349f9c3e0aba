------------------------------- MODULE Sprays -------------------------------
(***************************************************************************)
(* The native half of enhanced_sprays as its connections, its natives, the *)
(* packets and the game frame drive the publication of sprays.             *)
(***************************************************************************)
EXTENDS SprayPublication

vars == <<connections, publication>>

Init == InitClients /\ InitPublication

\* One visit of the game frame to slot c.
Frame(c, late, elapsed, works) ==
    FrameReaches(c, BusySlots) /\ FramePublication(c, late, elapsed, works)

ConnectionEvents ==
    \/ \E c \in Clients : PutInServer(c) /\ PutInServerPublication(c)
    \/ \E c \in Clients : Disconnecting(c) /\ DisconnectingPublication(c)
    \/ LevelShutdown /\ StopMapPublication
    \/ ServerActivate /\ UNCHANGED publication
    \/ \E p \in Plugins : PluginUnloaded(p) /\ PluginUnloadedPublication

Natives ==
    \/ \E p \in Plugins, c \in Clients, force \in BOOLEAN : Request(p, c, force)
    \/ \E p \in Plugins, c \in Clients : Cancel(p, c)
    \/ \E p \in Plugins, c \in Clients, path \in Paths, first \in BOOLEAN :
          Watch(p, c, path, first)
    \/ \E q \in queries : BarrierAck(q)

Packets ==
    \/ \E c \in Clients : PacketBegin(c)
    \/ PacketEnd
    \/ \E c \in Clients, a \in asked, opened, whole \in BOOLEAN : FileReceived(c, a, opened, whole)
    \/ \E c \in Clients, a \in asked : FileDenied(c, a)
    \/ \E c \in Sprayers, p \in Clients : FileRequested(c, p)
    \/ \E s \in pulls, told \in BOOLEAN : FileSent(s, told)
    \/ \E c \in Clients, image \in Announced : Info(c, image)

Frames ==
    \/ IdleFrame(BusySlots) /\ IdleFramePublication
    \/ \E c \in Clients, late, elapsed, works \in BOOLEAN : Frame(c, late, elapsed, works)

Next == ConnectionEvents \/ Natives \/ Packets \/ Frames

Spec == Init /\ [][Next]_vars

\* The game runs its frames, and no deadline or wait lasts for ever: some visit
\* to a slot finds it over.
Fairness == \A c \in Sprayers : SF_vars(\E works \in BOOLEAN : Frame(c, TRUE, TRUE, works))

FairSpec == Spec /\ Fairness

TypeOK == ClientsTypeOK /\ PublicationTypeOK

=============================================================================
