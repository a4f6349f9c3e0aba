-------------------------- MODULE MCMailRedemption --------------------------
(***************************************************************************)
(* A small instance of MailRedemption: one receiver, its mails, two        *)
(* servers.  Liveness is looked at with fairness and on one server; which  *)
(* of the two a behaviour is about is chosen at the start.                 *)
(***************************************************************************)
EXTENDS MailRedemption

CONSTANT Addressee

MCReceiver == [m \in Mails |-> Addressee]
MCGems == [m \in Mails |-> m]

VARIABLE fair

Only == CHOOSE s \in Servers : TRUE

\* Nothing happens on the other servers.
Alone ==
    \A s \in Servers \ {Only} :
        /\ \A p \in Players : at'[p] # s
        /\ store'[s] = "ready" /\ mailReady'[s] /\ queue'[s] = << >>

PartsInit == fair \in BOOLEAN /\ Init

PartsNext == UNCHANGED fair /\ Next /\ (fair => Alone)

PartsSpec ==
    /\ PartsInit /\ [][PartsNext]_<<fair, vars>>
    /\ WF_vars(fair /\ Execute(Only)) /\ WF_vars(fair /\ Deliver(Only))

----------------------------------------------------------------------------

\* PendingIsReleased where the worker keeps executing and the main thread keeps
\* running callbacks.
RedemptionsEnd == fair => PendingIsReleased
=============================================================================
