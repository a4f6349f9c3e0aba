------------------------------ MODULE MCSprays ------------------------------
(***************************************************************************)
(* Small instances of enhanced_sprays: its publications, where one of two  *)
(* images is not a texture and the canonical copy of "good" differs from   *)
(* it, and its placements, on a wall or on a door, where player 1 sprays   *)
(* and player 2 looks on.  They share the connections only, so one of them *)
(* runs, chosen at the start, and the others stay as they began.           *)
(***************************************************************************)
EXTENDS Sprays

VARIABLES
    part,
    jobs, events, assetToken, queue, fastFiles, control, fastMode, background, mode, wish,
    asker, answers,
    entity, placement, stack, preview, dirty, calling, surface, copies, textured, models, local,
    localDone, sprays, filters, exposed

\* A wall, whose sprays may need models, and a door, which may be another's later, on a
\* map that takes no more models.
Walls == INSTANCE SprayPlacements WITH
    Assets <- {}, Capacity <- 1, Paced <- {}, MaxAssetTokens <- 0,
    Spots <- {"wall"}, Moving <- {}, NoSpot <- "nowhere", Placers <- {1}, Viewers <- {2},
    MaxDepth <- 2, MaxSprays <- 2, MaxEntities <- 0, ModelLimit <- 2

Doors == INSTANCE SprayPlacements WITH
    Assets <- {}, Capacity <- 1, Paced <- {}, MaxAssetTokens <- 0,
    Spots <- {"door"}, Moving <- {"door"}, NoSpot <- "nowhere", Placers <- {1}, Viewers <- {2},
    MaxDepth <- 2, MaxSprays <- 3, MaxEntities <- 1, ModelLimit <- 0

ASSUME
    /\ Walls!AssetsAssumption /\ Walls!PlacementsAssumption
    /\ Doors!AssetsAssumption /\ Doors!PlacementsAssumption

MCCanonical == [i \in {"good", "bad"} |-> IF i = "good" THEN "good0" ELSE "bad0"]

placed == <<jobs, events, assetToken, queue, fastFiles, control, fastMode, background, mode,
            wish, asker, answers, entity, placement, stack, preview, dirty, calling, surface, copies,
            textured, models, local, localDone, sprays, filters, exposed>>

PartsInit ==
    /\ part \in {"publications", "walls", "doors"}
    /\ Init
    /\ Walls!InitDelivery
    /\ IF part = "doors" THEN Doors!InitPlacements ELSE Walls!InitPlacements

PartsNext ==
    /\ UNCHANGED part
    /\ CASE part = "publications" -> Next /\ UNCHANGED placed
         [] part = "walls" -> Walls!Next /\ UNCHANGED publication
         [] part = "doors" -> Doors!Next /\ UNCHANGED publication

PartsSpec == PartsInit /\ [][PartsNext]_<<part, vars, placed>>

----------------------------------------------------------------------------

PartsTypeOK ==
    CASE part = "publications" -> TypeOK
      [] part = "walls" -> Walls!TypeOK
      [] part = "doors" -> Doors!TypeOK

\* A spray is shown to those it was sent to, whoever else holds their slots now or was
\* sent the call it was nested in, on the entity it was placed on, and as a model that
\* was named for them.
SpraysReachTheirAudience ==
    part # "publications" => Walls!ShownToItsAudience /\ Walls!ModelsAreFresh
=============================================================================
