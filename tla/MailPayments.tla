---------------------------- MODULE MailPayments ----------------------------
(***************************************************************************)
(* What the gems attached to a mail promise.                               *)
(*                                                                         *)
(* The receiver of a mail is paid its gems at most once, and a mail is     *)
(* shown as redeemed only when it has been paid.  A mail that expires      *)
(* before it is redeemed goes away; that it is paid all the same is only   *)
(* possible for somebody who asked in time.                                *)
(***************************************************************************)
EXTENDS Integers

CONSTANTS
    Players,    \* accounts
    Mails,      \* mails with gems attached
    Receiver,   \* mail -> the account it was sent to
    Gems,       \* mail -> what is attached to it
    Expiring    \* mails that do not stay forever

VARIABLES
    mail,       \* mail -> "open", "redeemed" or "lapsed"
    paid,       \* mails whose gems have been paid
    balance     \* account -> what it received

vars == <<mail, paid, balance>>

Init ==
    /\ mail = [m \in Mails |-> "open"]
    /\ paid = {}
    /\ balance = [p \in Players |-> 0]

Pay(m) ==
    /\ m \notin paid
    /\ paid' = paid \union {m}
    /\ balance' = [balance EXCEPT ![Receiver[m]] = @ + Gems[m]]
    /\ UNCHANGED mail

Redeem(m) ==
    /\ mail[m] = "open" /\ m \in paid
    /\ mail' = [mail EXCEPT ![m] = "redeemed"]
    /\ UNCHANGED <<paid, balance>>

Lapse(chosen) ==
    /\ \A m \in chosen : mail[m] = "open"
    /\ mail' = [m \in Mails |-> IF m \in chosen THEN "lapsed" ELSE mail[m]]
    /\ UNCHANGED <<paid, balance>>

Next ==
    \/ \E m \in Mails : Pay(m) \/ Redeem(m)
    \/ \E chosen \in SUBSET Expiring : Lapse(chosen)

Spec == Init /\ [][Next]_vars
=============================================================================
