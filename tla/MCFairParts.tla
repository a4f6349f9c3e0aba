----------------------------- MODULE MCFairParts -----------------------------
(***************************************************************************)
(* Small instances of the parts with liveness: the resource guard, and the *)
(* publications and deliveries of enhanced_sprays.  They share no state,   *)
(* so one of them runs, chosen at the start, and the others stay as they   *)
(* began.                                                                  *)
(***************************************************************************)
EXTENDS ResourceGuard, TLC

VARIABLES
    part,
    serial, serials, running, owner, turn,
    \* SprayPublication
    client, changes, nextToken, files, sequence, packet, cached, saved, info, asked, queries,
    pulls, holds, due, processed,
    \* SprayAssets
    jobs, events, assetToken, fileQueue, fastFiles, control, fastMode, background, mode, wish,
    asker, answers,
    \* SprayPlacements
    entity, placement, stack, preview, dirty, calling, surface, copies, textured, models, local,
    localDone, sprays, filters, exposed

connections == <<serial, serials, running, owner, turn>>
publication == <<client, changes, nextToken, files, sequence, packet, cached, saved, info,
                 asked, queries, pulls, holds, due, processed>>
delivery == <<jobs, events, assetToken, fileQueue, fastFiles, control, fastMode, background,
              mode, wish, asker, answers>>
placements == <<entity, placement, stack, preview, dirty, calling, surface, copies, textured, models,
                local, localDone, sprays, filters, exposed>>

Publications == INSTANCE Sprays WITH
    MaxClients <- 2, Plugins <- {"sprays"}, NoPlugin <- "none", MaxSerials <- 2,
    Paths <- {"one", "two"}, NoPath <- "nothing", Images <- {"good", "bad"},
    ValidImages <- {"good"}, Canonical <- ("good" :> "good0" @@ "bad" :> "bad0"),
    Announced <- {"good"}, NoCrc <- "none", Sprayers <- {1}, PathLimit <- 1, MaxTokens <- 1,
    MaxEvents <- 2, MaxFiles <- 2

Deliveries == INSTANCE SprayPlacements WITH
    MaxClients <- 2, Plugins <- {"sprays"}, NoPlugin <- "none", MaxSerials <- 2,
    Assets <- {"vmt"}, Capacity <- 1, Paced <- {1}, MaxAssetTokens <- 2,
    Spots <- {}, Moving <- {}, NoSpot <- "nowhere", Placers <- {1}, Viewers <- {2},
    MaxDepth <- 0, MaxSprays <- 0, MaxEntities <- 0, ModelLimit <- 2, queue <- fileQueue

ASSUME Deliveries!AssetsAssumption /\ Deliveries!PlacementsAssumption

----------------------------------------------------------------------------

Init ==
    /\ part \in {"guard", "publications", "deliveries"}
    /\ InitGuard /\ Publications!Init /\ Deliveries!InitDelivery /\ Deliveries!InitPlacements

Next ==
    /\ UNCHANGED part
    /\ IF part = "guard" THEN GuardNext ELSE UNCHANGED guardVars
    /\ IF part = "publications" THEN Publications!Next ELSE UNCHANGED publication
    /\ IF part = "deliveries" THEN Deliveries!Next ELSE UNCHANGED <<delivery, placements>>
    /\ part = "guard" => UNCHANGED connections

vars == <<part, guardVars, connections, publication, delivery, placements>>

\* The fairness of the part that runs.
GuardIsFair ==
    /\ WF_guardVars(part = "guard" /\ Supervisor)
    /\ WF_guardVars(part = "guard" /\ Executor)
    /\ WF_guardVars(part = "guard" /\ Publisher)

FramesAreFair ==
    /\ SF_<<connections, publication>>(
           part = "publications" /\ \E works \in BOOLEAN :
               Publications!Frame(1, TRUE, TRUE, works))
    /\ \A c \in 1 .. 2 : SF_<<connections, delivery, placements>>(
           part = "deliveries" /\ \E settled, fast \in BOOLEAN :
               Deliveries!Silent /\ Deliveries!Frame(c, TRUE, settled, fast))

FairSpec == Init /\ [][Next]_vars /\ GuardIsFair /\ FramesAreFair

----------------------------------------------------------------------------

TypeOK ==
    /\ GuardTypeOK
    /\ part = "publications" => Publications!TypeOK
    /\ part = "deliveries" => Deliveries!TypeOK

\* Each delivery is answered once, to the connection it was for, and its channel is
\* then the game's again.
DeliveriesAreSettled ==
    part = "deliveries" => Deliveries!AnsweredOnceToTheAsker /\ Deliveries!ModeIsGivenBack

\* Whatever waits to be published or delivered comes to an end: the guard's
\* incidents, requests for sprays, and deliveries of assets.
WorkEnds == IncidentsAreReported /\ Publications!RequestsEnd /\ Deliveries!DeliveriesEnd
=============================================================================
