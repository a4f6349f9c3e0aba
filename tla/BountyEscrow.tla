---------------------------- MODULE BountyEscrow ----------------------------
(***************************************************************************)
(* What the bounties of the points store promise.                          *)
(*                                                                         *)
(* Placing a bounty moves gems out of the sender's account.  While it is   *)
(* open it may grow by gems the game adds.  It is settled once, in one of  *)
(* four ways, and the settlement decides who is paid: a claimant or the    *)
(* surviving target gets the stake and the growth, a refund returns the    *)
(* stake alone.  The game's own bounties cost nobody and refund nobody.    *)
(* Nothing is said here of queries, callbacks, timers or maps.             *)
(***************************************************************************)
EXTENDS Integers, Sequences, FiniteSetsExt

CONSTANTS
    Players,    \* accounts
    System,     \* the sender of the game's own bounties
    Stakes,     \* amounts a bounty can be placed for
    MaxWorth    \* what stake and growth together cannot exceed

VARIABLES
    bounties,   \* every bounty ever placed, oldest first
    gems        \* account -> its balance

vars == <<bounties, gems>>

Settlements == {"claimed", "survived", "expired", "disconnected"}
Returned == {"expired", "disconnected"}
Open == {b \in DOMAIN bounties : bounties[b].status = "active"}

(* Who is paid: only a claim leaves a choice.                              *)
Payee(bounty, outcome, claimant) ==
    CASE outcome = "claimed" -> claimant
      [] outcome = "survived" -> bounty.target
      [] OTHER -> bounty.sender

(* What the settlement brings in: the game's own stakes return to nobody.  *)
Payout(bounty, outcome) ==
    bounty.amount + (IF outcome \in Returned THEN 0 ELSE bounty.bonus)

Init ==
    /\ bounties = << >>
    /\ gems \in [Players -> Nat]

Place(sender, target, amount) ==
    /\ sender # target
    /\ sender \in Players => gems[sender] >= amount
    /\ gems' = [p \in Players |-> IF p = sender THEN gems[p] - amount ELSE gems[p]]
    /\ bounties' = Append(bounties,
            [sender |-> sender, target |-> target, amount |-> amount, bonus |-> 0,
             status |-> "active", payee |-> System])

Grow(b) ==
    /\ b \in Open
    /\ \E n \in 1..MaxWorth :
        /\ bounties[b].amount + bounties[b].bonus + n <= MaxWorth
        /\ bounties' = [bounties EXCEPT ![b].bonus = @ + n]
    /\ UNCHANGED gems

(* A settlement takes a set of open bounties and pays all of them at once; *)
(* a claim takes those on one target, who does not claim them itself.      *)
Settle(chosen, outcome, claimant) ==
    /\ chosen # {} /\ chosen \subseteq Open
    /\ outcome = "claimed" => \A b, c \in chosen :
            claimant # bounties[b].target /\ bounties[b].target = bounties[c].target
    /\ bounties' = [b \in DOMAIN bounties |->
            IF b \in chosen
            THEN [bounties[b] EXCEPT !.status = outcome,
                                     !.payee = Payee(bounties[b], outcome, claimant)]
            ELSE bounties[b]]
    /\ gems' = [p \in Players |-> gems[p] +
            MapThenSumSet(LAMBDA b : Payout(bounties[b], outcome),
                          {b \in chosen : Payee(bounties[b], outcome, claimant) = p})]

Next ==
    \/ \E s \in Players \union {System}, t \in Players, n \in Stakes : Place(s, t, n)
    \/ \E b \in Open : Grow(b)
    \/ \E chosen \in SUBSET Open, outcome \in Settlements, claimant \in Players :
            Settle(chosen, outcome, claimant)

(* Most steps of an implementation are silent, so silence is named first.  *)
Spec == Init /\ [][UNCHANGED vars \/ Next]_vars

=============================================================================
