----------------------------- MODULE MCBounties -----------------------------
(***************************************************************************)
(* Small instances of Bounties.  Liveness is looked at with fairness,      *)
(* failures and a single bounty; whether a behaviour is about that is      *)
(* chosen at the start.                                                    *)
(***************************************************************************)
EXTENDS Bounties

VARIABLE fair

Failing == INSTANCE Bounties WITH
    Fighters <- Hunted, MaxPlayed <- 1, MaxRows <- 1, MaxMoves <- 3, MaxFailures <- 1

PartsInit == fair \in BOOLEAN /\ Init

PartsNext ==
    /\ UNCHANGED fair
    /\ IF fair THEN Failing!Next ELSE Next

PartsSpec ==
    /\ PartsInit /\ [][PartsNext]_<<fair, vars>>
    /\ WF_vars(fair /\ Failing!Tick)
    /\ WF_vars(fair /\ Failing!Timer_BountyMaintenance)
    /\ WF_vars(fair /\ Failing!Execute)
    /\ WF_vars(fair /\ Failing!Deliver)

----------------------------------------------------------------------------

\* BountiesAreSettled where the clock goes on, the maintenance timer fires and the
\* worker and the main thread keep running.
BountiesEnd == fair => BountiesAreSettled
=============================================================================
