--------------------------- MODULE SprayPlacements ---------------------------
(***************************************************************************)
(* Who gets to see a spray: the temp entity of a placement is captured on  *)
(* its way to its recipients, kept with the connections it was meant for,  *)
(* and shown later as the normal decal (Replay) or as a model cut to the   *)
(* surface, whose files are sent first (extension.cpp, spray_delivery.h).  *)
(*                                                                         *)
(* A spot stands for the bytes of the temp entity, which no hook of this   *)
(* repository changes; a client's image does not change here, and the      *)
(* textures of resized decals (PrepareResize) are left out.  A spot is on  *)
(* the world or on an entity, whose slot may be given to another one.      *)
(* Moderation plugins veto a placement and send it again, once per viewer, *)
(* from inside its own call, and may hide it from anybody at any time: a   *)
(* native is given the viewers they let see it.                            *)
(***************************************************************************)
EXTENDS SprayAssets

CONSTANTS
    Spots,      \* placements a client may make
    Moving,     \* the spots on an entity that is not the world
    NoSpot,
    Placers,    \* bound: the slots whose players spray
    Viewers,    \* bound: the slots that sprays are sent to
    MaxDepth,   \* bound on temp entities sent while another is being sent
    MaxSprays,  \* bound on placements
    MaxEntities,\* bound on the entities that get the slot of a spot's entity
    ModelLimit  \* models one map may have

PlacementsAssumption ==
    /\ NoSpot \notin Spots
    /\ Moving \subseteq Spots
    /\ Placers \subseteq Clients
    /\ Viewers \subseteq Clients
    /\ MaxDepth \in Nat
    /\ {MaxSprays, MaxEntities} \subseteq Nat
    /\ ModelLimit \in Nat

VARIABLES
    entity,     \* entity[s]: the entity that has the slot of spot s's entity
    placement,  \* placement[c]: c's last accepted spray and its audience
    stack,      \* temp entities being sent
    preview,    \* preview[c]: the normal decal of c is held back
    dirty,      \* dirty[c]: the plugin is to hear of c's placement
    calling,    \* slot whose placement the plugin is hearing of
    surface,    \* surface[c]: the mesh cut for c and its shared model
    copies,     \* copies[r]: models sent to r, and how far they are
    textured,   \* textured[r]: r has the texture of the models
    models,     \* models made on this map
    local,      \* local[c]: the model only c sees, while its image is shared
    localDone,  \* localDone[c]: the spots whose local model c has
    sprays,     \* placements so far
    filters,    \* connections the game or a plugin sent a spot to
    exposed     \* what this step shows to whom

placements == <<entity, placement, stack, preview, dirty, calling, surface, copies, textured, models,
                local, localDone, sprays, filters>>

Nobody == [r \in Clients |-> 0]
NoPlacement == [client |-> 0, spot |-> NoSpot, entity |-> 0, suppress |-> FALSE,
                guard |-> FALSE, audience |-> Nobody]
NoSurface == [mesh |-> NoSpot, audience |-> Nobody]
NoLocal == [spot |-> NoSpot, ready |-> FALSE, failed |-> FALSE]

Audiences == [Clients -> 0 .. MaxSerials]
ModelFile(spot, audience) == <<"model", spot, audience>>
LocalFile(c, spot) == <<"local", spot, serial[c]>>
TextureFile(c) == <<"texture", c, {}>>

PlacementRecords ==
    [client : 0 .. MaxClients, spot : Spots \cup {NoSpot}, entity : 0 .. MaxEntities,
     suppress : BOOLEAN, guard : BOOLEAN, audience : Audiences]

PlacementsTypeOK ==
    /\ entity \in [Spots -> 0 .. MaxEntities]
    /\ placement \in [Clients -> PlacementRecords]
    /\ stack \in Seq(PlacementRecords) /\ Len(stack) <= MaxDepth
    /\ preview \in [Clients -> BOOLEAN]
    /\ dirty \in [Clients -> BOOLEAN]
    /\ calling \in 0 .. MaxClients
    /\ surface \in [Clients -> [mesh : Spots \cup {NoSpot}, audience : Audiences]]
    /\ \A r \in Clients : copies[r] \subseteq
          [of : Clients, spot : Spots, audience : Audiences, texture : BOOLEAN,
           state : {"new", "sent", "ready", "failed"}]
    /\ textured \in [Clients -> SUBSET Clients]
    /\ local \in [Clients -> [spot : Spots \cup {NoSpot}, ready : BOOLEAN, failed : BOOLEAN]]
    /\ localDone \in [Clients -> SUBSET Spots]
    /\ sprays \in 0 .. MaxSprays

InitPlacements ==
    /\ entity = [s \in Spots |-> 0]
    /\ placement = [c \in Clients |-> NoPlacement]
    /\ stack = <<>>
    /\ preview = [c \in Clients |-> FALSE]
    /\ dirty = [c \in Clients |-> FALSE]
    /\ calling = 0
    /\ surface = [c \in Clients |-> NoSurface]
    /\ copies = [c \in Clients |-> {}]
    /\ textured = [c \in Clients |-> {}]
    /\ models = {}
    /\ local = [c \in Clients |-> NoLocal]
    /\ localDone = [c \in Clients |-> {}]
    /\ sprays = 0
    /\ filters = {}
    /\ exposed = {}

-----------------------------------------------------------------------------
(* Audience: a slot's latest connection among those the placement was for. *)

Contains_Slot(audience, r, s) == audience[r] # 0
Contains(audience, r, s) == s # 0 /\ audience[r] = s

Members(audience) == {r \in Clients : audience[r] # 0}
Merge(audience, other) == [r \in Clients |-> IF other[r] # 0 THEN other[r] ELSE audience[r]]

\* The connections of an audience that are still there.
Present(audience) == {r \in Clients : Current(r) /\ Contains(audience, r, serial[r])}

Silent == exposed' = {}
Shown(c, spot, viewers, built) ==
    exposed' = {[of |-> serial[c], spot |-> spot, on |-> entity[spot], to |-> serial[r],
                 built |-> built] : r \in viewers}

-----------------------------------------------------------------------------
(* The temp entity on its way to its recipients. *)

\* The entity of a spot goes, and its slot is given to another one.
EntityReplaced(spot) ==
    /\ spot \in Moving
    /\ entity[spot] < MaxEntities
    /\ entity' = [entity EXCEPT ![spot] = @ + 1]
    /\ UNCHANGED <<placement, stack, preview, dirty, calling, surface, copies, textured, models,
                   local, localDone, sprays, filters>>

\* SprayBefore: the hook before the call.  A sprayer who is not connected is let
\* pass; a guard is asked for only when a plugin watches the client, which has
\* only the world guarded.
SprayBefore(c, spot, recipients, guards) ==
    /\ c \in Placers
    /\ Len(stack) < MaxDepth
    /\ sprays < MaxSprays
    /\ sprays' = sprays + 1
    /\ guards => owner # NoPlugin /\ spot \notin Moving
    /\ stack' = Append(stack,
          IF ~Current(c) THEN NoPlacement
          ELSE [client |-> c, spot |-> spot, entity |-> entity[spot],
                suppress |-> preview[c] \/ guards, guard |-> guards,
                audience |-> [r \in Clients |-> IF r \in recipients THEN serial[r] ELSE 0]])
    /\ UNCHANGED <<entity, placement, preview, dirty, calling, surface, copies, textured, models,
                   local, localDone, filters>>

\* SprayAfter: the hook after it.  A placement another hook vetoed, or that
\* nobody was to see, is not kept; one that is sent again gathers its viewers and
\* stays with the entity it was first on.
Repeats(old, new) == /\ old.spot = new.spot /\ old.guard = new.guard
                     /\ old.suppress = new.suppress

Kept(old, new) == IF Repeats(old, new) THEN [old EXCEPT !.audience = Merge(@, new.audience)]
                  ELSE new

\* Calls nest: the one that returns is the last that began.
Returning_First == stack[1]
Returning == stack[Len(stack)]

SprayAfter(vetoed) ==
    LET call == stack[Len(stack)]
        saved == Returning
        accepted == /\ saved # NoPlacement /\ ~vetoed /\ Current(saved.client)
                    /\ Members(saved.audience) # {}
        c == saved.client
        now == entity[saved.spot]
    IN  /\ stack # <<>>
        /\ stack' = SubSeq(stack, 1, Len(stack) - 1)
        /\ IF accepted
           THEN /\ placement' = [placement EXCEPT ![c] = Kept(@, [saved EXCEPT !.entity = now])]
                /\ dirty' = [dirty EXCEPT ![c] = TRUE]
                /\ filters' = filters \cup
                      {[of |-> serial[call.client], spot |-> call.spot, on |-> entity[call.spot],
                        to |-> call.audience[r]] : r \in Members(call.audience)}
           ELSE UNCHANGED <<placement, dirty, filters>>
        /\ UNCHANGED <<entity, preview, calling, surface, copies, textured, models, local,
                       localDone, sprays>>

-----------------------------------------------------------------------------
(* Natives. *)

EnablePreview(p, c, on) ==
    /\ Claim(p)
    /\ c \in Placers
    /\ Current(c)
    /\ preview' = [preview EXCEPT ![c] = on]
    /\ UNCHANGED <<serial, serials, running, turn, delivery, entity, placement, stack, dirty,
                   calling, surface, copies, textured, models, local, localDone, sprays, filters>>

\* Replay: the normal decal is sent to those of the audience who are still there,
\* unless another entity has taken the slot of the one it is on.
SameEntity_Unchecked(spray) == TRUE
SameEntity(spray) == spray.spot # NoSpot => entity[spray.spot] = spray.entity

Replayed(c, visible) ==
    LET spray == placement[c]
    IN  Shown(c, spray.spot, IF SameEntity(spray) THEN Present(spray.audience) \cap visible
                             ELSE {}, Nobody)

ReplaySpray(p, c, visible) ==
    /\ Claim(p)
    /\ Current(c)
    /\ Replayed(c, visible)
    /\ UNCHANGED <<serial, serials, running, turn, delivery, entity, placement, stack, preview,
                   dirty, calling, surface, copies, textured, models, local, localDone, sprays, filters>>

\* Surface: the placement's surface is clipped and the model only c sees is sent.
CanWrite(file) == file \in models \/ Cardinality(models) < ModelLimit

\* The surface is forgotten, with the model named for an earlier audience.
Uncut_ModelKept(c) == [NoSurface EXCEPT !.audience = surface[c].audience]
Uncut(c) == NoSurface

Surfaced(c, cuts, sends) ==
    LET spot == placement[c].spot
        file == LocalFile(c, spot)
        prepared == cuts /\ CanWrite(file)
        known == spot \in localDone[c]
        sent == prepared /\ ~known
    IN  /\ surface' = [surface EXCEPT ![c] =
              [Uncut(c) EXCEPT !.mesh = IF prepared /\ (known \/ sends) THEN spot ELSE NoSpot]]
        /\ local' = [local EXCEPT ![c] = IF ~prepared THEN NoLocal
              ELSE [spot |-> spot, ready |-> known, failed |-> ~known /\ ~sends]]
        /\ models' = IF prepared THEN models \cup {file} ELSE models
        /\ queue' = IF sent /\ sends THEN [queue EXCEPT ![c] = @ \cup {file}] ELSE queue
        /\ Armed(c, IF sent THEN {file} ELSE {})

\* OnSprayPlaced: while the plugin hears of a placement that was held back it has its
\* surface cut, unless the surface needs no guard and the image is already shared;
\* a surface that cannot be cut may get the normal decal after all.
OnSprayPlaced(c, visible, cuts, sends) ==
    /\ calling = c
    /\ calling' = 0
    /\ \/ /\ placement[c].suppress /\ ~placement[c].guard
          /\ Replayed(c, visible)
          /\ UNCHANGED <<queue, fastFiles, control, surface, local, models>>
       \/ /\ placement[c].suppress
          /\ Surfaced(c, cuts, sends)
          /\ \/ Silent
             \/ surface'[c].mesh = NoSpot /\ Replayed(c, visible)
       \/ /\ ~placement[c].suppress
          /\ Silent
          /\ UNCHANGED <<queue, fastFiles, control, surface, local, models>>
    /\ UNCHANGED <<connections, jobs, events, assetToken, fastMode, background, mode, wish,
                   asker, answers, entity, placement, stack, preview, dirty, copies, textured,
                   localDone, sprays, filters>>

\* SurfaceModel: the model of c's spray for viewer r.  It is named for the audience
\* of the moment when it is first asked for.
MayView(c, r, visible) ==
    /\ Current(c) /\ Current(r)
    /\ Contains(placement[c].audience, r, serial[r])
    /\ r \in visible
    /\ surface[c].mesh # NoSpot

NamedFor(c) ==
    IF surface[c].audience = Nobody THEN placement[c].audience ELSE surface[c].audience

NameModel(c) ==
    LET file == ModelFile(surface[c].mesh, NamedFor(c))
    IN  /\ CanWrite(file)
        /\ models' = models \cup {file}
        /\ surface' = [surface EXCEPT ![c].audience = NamedFor(c)]

Copy(c, r) == {k \in copies[r] : /\ k.of = c /\ k.spot = surface[c].mesh
                                 /\ k.audience = NamedFor(c)}

\* Its files are sent once, with the texture if r may not have it yet.
SendModel(c, r, cached, sends) ==
    LET texture == c \notin textured[r] /\ ~cached
        files == {ModelFile(surface[c].mesh, NamedFor(c))} \cup
                 (IF texture THEN {TextureFile(c)} ELSE {})
    IN  /\ Copy(c, r) = {}
        /\ copies' = [copies EXCEPT ![r] = @ \cup
              {[of |-> c, spot |-> surface[c].mesh, audience |-> NamedFor(c), texture |-> texture,
                state |-> IF sends THEN "new" ELSE "failed"]}]
        /\ queue' = IF sends THEN [queue EXCEPT ![r] = @ \cup files] ELSE queue
        /\ Armed(r, files)
        /\ Silent
        /\ UNCHANGED textured

Became(k, r, state) == [copies EXCEPT ![r] = (@ \ {k}) \cup {[k EXCEPT !.state = state]}]

\* Asked again, it is shown as soon as they have gone; a late or failed one never is.
ShowModel(c, r, late) ==
    \E k \in Copy(c, r) :
        LET arrived == /\ ~late /\ k.state = "sent"
                       /\ ~Waiting(r, ModelFile(k.spot, k.audience))
                       /\ ~Waiting(r, TextureFile(c))
        IN  /\ IF k.state = "ready" \/ arrived
               THEN /\ copies' = Became(k, r, "ready")
                    /\ textured' = [textured EXCEPT ![r] = @ \cup {c}]
                    /\ Shown(c, k.spot, {r}, k.audience)
               ELSE /\ copies' = IF late THEN Became(k, r, "failed") ELSE copies
                    /\ Silent
                    /\ UNCHANGED textured
            /\ UNCHANGED <<queue, fastFiles, control>>

\* The plugin asks for the models of guarded placements only (DrawSurfaceFinal).
SurfaceModel(p, c, r, visible) ==
    /\ Claim(p)
    /\ placement[c].guard
    /\ MayView(c, r, visible)
    /\ NameModel(c)
    /\ \/ \E cached, sends \in BOOLEAN : SendModel(c, r, cached, sends)
       \/ \E late \in BOOLEAN : ShowModel(c, r, late)
    /\ UNCHANGED <<serial, serials, running, turn, jobs, events, assetToken, fastMode, background,
                   mode, wish, asker, answers, entity, placement, stack, preview, dirty, calling,
                   local, localDone, sprays, filters>>

\* FileDenied for a transfer of c's local model, or of a model sent to c: for any of
\* the files its delivery sends.
Sends(k, file) == \/ file = ModelFile(k.spot, k.audience)
                  \/ k.texture /\ file = TextureFile(k.of)

ModelDenied(c, file) ==
    /\ Input
    /\ file \in queue[c] /\ file[1] # "asset"
    /\ queue' = [queue EXCEPT ![c] = @ \ {file}]
    /\ local' = IF file[1] = "local" /\ local[c].spot = file[2]
                THEN [local EXCEPT ![c].failed = TRUE] ELSE local
    /\ \/ file[1] = "local" /\ UNCHANGED copies
       \/ \E k \in copies[c] : Sends(k, file) /\ copies' = Became(k, c, "failed")
    /\ UNCHANGED <<serial, serials, running, owner, jobs, events, assetToken, fastFiles, control,
                   fastMode, background, mode, wish, asker, answers, entity, placement, stack,
                   preview, dirty, calling, surface, textured, models, localDone, sprays, filters>>

-----------------------------------------------------------------------------
(* The frame at slot c, and the connections. *)

\* The plugin hears of a placement in the frame after it; a local model is ready
\* when its files have been sent.
FramePlacements(c, settled) ==
    LET arrived == /\ settled /\ local[c].spot # NoSpot
                   /\ ~local[c].ready /\ ~local[c].failed
                   /\ ~Waiting(c, LocalFile(c, local[c].spot))
    IN  /\ dirty' = [dirty EXCEPT ![c] = FALSE]
        /\ calling' = IF dirty[c] /\ owner # NoPlugin THEN c ELSE 0
        /\ local' = IF arrived THEN [local EXCEPT ![c].ready = TRUE] ELSE local
        /\ localDone' = IF arrived THEN [localDone EXCEPT ![c] = @ \cup {local[c].spot}]
                        ELSE localDone
        /\ copies' = [copies EXCEPT ![c] =
              {IF k.state = "new" THEN [k EXCEPT !.state = "sent"] ELSE k : k \in @}]
        /\ UNCHANGED <<entity, placement, stack, preview, surface, textured, models, sprays,
                       filters>>

ClearPlacements(gone, stopped) ==
    /\ placement' = [c \in Clients |-> IF c \in gone THEN NoPlacement ELSE placement[c]]
    /\ stack' = IF stopped THEN <<>> ELSE stack
    /\ preview' = [c \in Clients |-> preview[c] /\ c \notin gone]
    /\ dirty' = [c \in Clients |-> dirty[c] /\ c \notin gone]
    /\ calling' = IF calling \in gone THEN 0 ELSE calling
    /\ surface' = [c \in Clients |-> IF c \in gone THEN NoSurface ELSE surface[c]]
    /\ copies' = [c \in Clients |-> IF c \in gone THEN {} ELSE copies[c]]
    /\ textured' = [c \in Clients |-> IF c \in gone THEN {} ELSE textured[c]]
    /\ local' = [c \in Clients |-> IF c \in gone THEN NoLocal ELSE local[c]]
    /\ localDone' = [c \in Clients |-> IF c \in gone THEN {} ELSE localDone[c]]
    /\ models' = IF stopped THEN {} ELSE models
    /\ UNCHANGED <<entity, sprays, filters>>

PluginUnloadedPlacements ==
    /\ placement' = [c \in Clients |-> NoPlacement]
    /\ preview' = [c \in Clients |-> FALSE]
    /\ dirty' = [c \in Clients |-> FALSE]
    /\ UNCHANGED <<entity, stack, calling, surface, copies, textured, models, local, localDone,
                   sprays, filters>>

-----------------------------------------------------------------------------
(* The whole: connections, natives, temp entities, transfers and frames. *)

vars == <<connections, delivery, placements, exposed>>

Init == InitClients /\ InitDelivery /\ InitPlacements

\* Nothing but hooks and natives runs while a temp entity is being sent, and
\* nothing but the plugin while it hears of a placement.
Quiet == stack = <<>> /\ calling = 0
Callable == turn = 0 /\ calling = 0

ConnectionEvents ==
    \/ \E c \in Clients : /\ Quiet
                          /\ PutInServer(c)
                          /\ PutInServerDelivery(c)
                          /\ UNCHANGED placements
    \/ \E c \in Clients : /\ calling = 0
                          /\ Disconnecting(c)
                          /\ ClearDelivery({c})
                          /\ ClearPlacements({c}, FALSE)
    \/ /\ Quiet
       /\ LevelShutdown
       /\ ClearDelivery(Clients)
       /\ ClearPlacements(Clients, TRUE)
    \/ ServerActivate /\ UNCHANGED <<delivery, placements>>
    \/ \E p \in Plugins : /\ Quiet
                          /\ PluginUnloaded(p)
                          /\ PluginUnloadedDelivery
                          /\ PluginUnloadedPlacements

Requests ==
    /\ Callable
    /\ \/ \E p \in Plugins, c \in Clients, a \in Assets, sends \in BOOLEAN :
             RequestAsset(p, c, a, sends) /\ UNCHANGED placements
       \/ \E p \in Plugins, c \in Clients, on \in BOOLEAN : EnablePreview(p, c, on)

TempEntities ==
    /\ Callable
    /\ \/ \E c \in Clients, spot \in Spots, recipients \in SUBSET Viewers, guards \in BOOLEAN :
             SprayBefore(c, spot, recipients, guards)
       \/ \E vetoed \in BOOLEAN : SprayAfter(vetoed)
       \/ \E spot \in Spots : stack = <<>> /\ EntityReplaced(spot)
    /\ UNCHANGED <<connections, delivery>>

Transfers ==
    /\ Quiet
    /\ \/ \E c \in Clients, a \in Assets : AssetDenied(c, a) /\ UNCHANGED placements
       \/ \E c \in Clients : \E file \in queue[c] : ModelDenied(c, file)
       \/ \E c \in Clients : \E file \in queue[c] : Sent(c, file) /\ UNCHANGED placements
       \/ \E c \in Clients, wanted \in BOOLEAN : FileMode(c, wanted) /\ UNCHANGED placements

Busy == {c \in Clients : Current(c) /\ \/ dirty[c] \/ control[c] \/ events[c] # {}
                                       \/ Pending(jobs[c]) # {}
                                       \/ local[c].spot # NoSpot /\ ~local[c].ready
                                       \/ \E k \in copies[c] : k.state = "new"}

Frame(c, late, settled, fast) ==
    /\ Quiet
    /\ FrameReaches(c, Busy)
    /\ FrameDelivery(c, late, settled, fast)
    /\ FramePlacements(c, settled)

\* A deadline passes only while a delivery is under way.
Frames == \E c \in Clients, settled, fast \in BOOLEAN :
             \E late \in {FALSE, Pending(jobs[c]) # {}} : Frame(c, late, settled, fast)

\* What shows a spray to somebody.
Replays == Callable /\ \E p \in Plugins, c \in Clients, visible \in SUBSET Viewers :
                          ReplaySpray(p, c, visible)
ModelsShown == Callable /\ \E p \in Plugins, c \in Placers, r \in Viewers, visible \in SUBSET Viewers :
                              SurfaceModel(p, c, r, visible)
Callbacks == \E c \in Clients, visible \in SUBSET Viewers, cuts, sends \in BOOLEAN :
                OnSprayPlaced(c, visible, cuts, sends)

Next ==
    \/ Silent /\ (ConnectionEvents \/ Requests \/ TempEntities \/ Transfers \/ Frames)
    \/ Replays
    \/ ModelsShown
    \/ Callbacks

Spec == Init /\ [][Next]_vars

\* The game runs its frames, its calls return, and no deadline lasts for ever.
Fairness ==
    /\ WF_vars(Callbacks)
    /\ WF_vars(\E vetoed \in BOOLEAN : Silent /\ Callable /\ SprayAfter(vetoed)
                                       /\ UNCHANGED <<connections, delivery>>)
    /\ \A c \in Clients :
          SF_vars(\E settled, fast \in BOOLEAN : Silent /\ Frame(c, TRUE, settled, fast))

FairSpec == Spec /\ Fairness

TypeOK == ClientsTypeOK /\ DeliveryTypeOK /\ PlacementsTypeOK

-----------------------------------------------------------------------------
(* Properties. *)

\* A spray is shown, now or later, only to connections that it was sent to when it
\* was placed, and on the entity that it was on then: not to whoever has taken their
\* slots since, not to the audience of a call it was nested in, and not on whatever
\* has taken the slot of its entity.
ShownToItsAudience ==
    \A e \in exposed : [of |-> e.of, spot |-> e.spot, on |-> e.on, to |-> e.to] \in filters

\* A connection is only shown a model that was named for an audience it is part of:
\* it has never seen that name in the precache table before it got the files.
ModelsAreFresh ==
    \A e \in exposed : e.built # Nobody => \E r \in Clients : e.built[r] = e.to

=============================================================================
