--------------------------- MODULE MailRedemption ---------------------------
(***************************************************************************)
(* Redeeming the gems attached to a mail.                                  *)
(*                                                                         *)
(* Two plugins share the work.  server_mail finds out that a mail can be   *)
(* redeemed, notes it in g_MailPendingRedemptions and asks points_store to *)
(* pay; points_store pays in a transaction that starts by inserting a row  *)
(* under the mail's own award key, and tells every plugin how it went; and *)
(* server_mail marks the mail redeemed.  A payment that fails because the  *)
(* key is taken is looked up and counts as done.  Several game servers     *)
(* share the tables, a player can hop from one to another, either plugin   *)
(* can be reloaded between any two steps and a server can go down.         *)
(***************************************************************************)
EXTENDS Integers, Sequences, SequencesExt, FiniteSets

CONSTANTS
    Servers,        \* game servers on one database
    Players,        \* SteamID64s
    Nowhere,        \* where a player is who is on no server
    Mails,          \* mail_id of the mails with gems that were delivered
    Receiver,       \* mail -> receiver_steamid64
    Gems,           \* mail -> gems
    Expiring,       \* mails with an expiry date: stimulus checks
    MaxMoves,       \* bound: what players do in a behaviour
    MaxFailures,    \* bound: queries that fail in a behaviour
    MaxRestarts,    \* bound: plugins reloaded and servers restarted
    MaxInFlight     \* bound: requests outstanding when something new starts

ASSUME MailRedemptionAssumption ==
    /\ Nowhere \notin Servers /\ IsFiniteSet(Mails)
    /\ Receiver \in [Mails -> Players] /\ Gems \in [Mails -> Nat \ {0}]
    /\ Expiring \subseteq Mails
    /\ MaxMoves \in Nat /\ MaxFailures \in Nat /\ MaxRestarts \in Nat
    /\ MaxInFlight \in Nat

VARIABLES
    at,         \* player -> the server it is on
    visit,      \* player -> its user id, another one for every visit
    store,      \* server -> points_store is "unloaded", "starting" or "ready"
    mailReady,  \* server -> g_MailDatabaseReady
    pending,    \* server -> the keys of g_MailPendingRedemptions
    checking,   \* players whose g_MailRedeemAllPending is up
    mail,       \* mail -> "open", "redeemed", or "lapsed" once it is deleted
    due,        \* mails past their expires_at
    paid,       \* mails with a row in points_store_idempotent_awards
    balance,    \* account -> what these awards added to its balance
    queue,      \* server -> requests its worker has not executed yet
    results,    \* server -> results whose callback has not run yet
    moves,      \* what players did so far
    failures,   \* queries failed so far
    restarts    \* reloads and restarts so far

players == <<at, visit>>
plugins == <<store, mailReady>>
redemptions == <<pending, checking>>
tables == <<mail, paid, balance>>
channel == <<queue, results>>
vars == <<players, plugins, redemptions, tables, due, channel, moves, failures, restarts>>

(* Which plugin a result goes to; nobody, once that plugin was unloaded.   *)
Callers == {"server_mail", "points_store", "nobody"}
Visits == [player : Players, visit : Nat]
Requests ==
    [op : {"validate"}, caller : Callers, mail : Mails, by : Visits]
        \union [op : {"list"}, caller : Callers, by : Visits]
        \union [op : {"award", "verify", "mark"}, caller : Callers, mail : Mails]
        \union [op : {"purge"}, caller : {"nobody"}]
Results == [request : Requests, outcome : {"ok", "duplicate", "failed"}, found : SUBSET Mails]

Wire(s) == ToSet(queue[s]) \union {r.request : r \in ToSet(results[s])}
Room(s) == Len(queue[s]) + Len(results[s]) < MaxInFlight
Ask(s, requests) == queue' = [queue EXCEPT ![s] = @ \o requests]
Step(op, caller, m) == [op |-> op, caller |-> caller, mail |-> m]
Purge == [op |-> "purge", caller |-> "nobody"]

Init ==
    /\ at = [p \in Players |-> Nowhere]
    /\ visit = [p \in Players |-> 0]
    /\ store = [s \in Servers |-> "ready"]
    /\ mailReady = [s \in Servers |-> TRUE]
    /\ pending = [s \in Servers |-> {}]
    /\ checking = {}
    /\ mail = [m \in Mails |-> "open"]
    /\ due = {}
    /\ paid = {}
    /\ balance = [p \in Players |-> 0]
    /\ queue = [s \in Servers |-> << >>]
    /\ results = [s \in Servers |-> << >>]
    /\ moves = 0
    /\ failures = 0
    /\ restarts = 0

------------------------------------------------------------------------------
(* Players.                                                                *)

CountMove == moves < MaxMoves /\ moves' = moves + 1
IsHere(by, s) == at[by.player] = s /\ visit[by.player] = by.visit
Visit(p) == [player |-> p, visit |-> visit[p]]

OnClientConnected(s, p) ==
    /\ CountMove
    /\ at[p] = Nowhere
    /\ at' = [at EXCEPT ![p] = s]
    /\ visit' = [visit EXCEPT ![p] = @ + 1]
    /\ UNCHANGED <<plugins, redemptions, tables, due, channel, failures, restarts>>

OnClientDisconnect(p) ==
    /\ at[p] # Nowhere
    /\ at' = [at EXCEPT ![p] = Nowhere]
    /\ checking' = checking \ {p}
    /\ UNCHANGED <<visit, plugins, pending, tables, due, channel, moves, failures, restarts>>

(* Opening a mail in the inbox redeems it.                                 *)
BeginMailRedemption(s, p, m) ==
    /\ CountMove /\ Room(s)
    /\ at[p] = s /\ mailReady[s] /\ store[s] # "unloaded"
    /\ m \notin pending[s]
    /\ Ask(s, <<[op |-> "validate", caller |-> "server_mail", mail |-> m, by |-> Visit(p)]>>)
    /\ UNCHANGED <<players, plugins, redemptions, tables, due, results, failures, restarts>>

Command_RedeemAll(s, p) ==
    /\ CountMove /\ Room(s)
    /\ at[p] = s /\ mailReady[s] /\ store[s] # "unloaded"
    /\ p \notin checking
    /\ checking' = checking \union {p}
    /\ Ask(s, <<[op |-> "list", caller |-> "server_mail", by |-> Visit(p)]>>)
    /\ UNCHANGED <<players, plugins, pending, tables, due, results, failures, restarts>>

------------------------------------------------------------------------------
(* Callbacks of server_mail.                                               *)

Delivered(s, op) ==
    /\ results[s] # << >>
    /\ Head(results[s]).request.op = op /\ Head(results[s]).request.caller # "nobody"
    /\ results' = [results EXCEPT ![s] = Tail(@)]

OnCancelled(s) ==
    /\ results[s] # << >> /\ Head(results[s]).request.caller = "nobody"
    /\ results' = [results EXCEPT ![s] = Tail(@)]
    /\ UNCHANGED <<players, plugins, redemptions, tables, due, queue, moves, failures, restarts>>

(* Asking points_store for the payments of some mails, in any order; it    *)
(* refuses while its own tables are not ready, and nothing stays pending.  *)
QueueValidatedMailRedemption(s, mails) ==
    LET fresh == IF store[s] = "ready" THEN mails \ pending[s] ELSE {}
    IN  /\ pending' = [pending EXCEPT ![s] = @ \union fresh]
        /\ \E order \in [1..Cardinality(fresh) -> fresh] :
            /\ ToSet(order) = fresh
            /\ Ask(s, [i \in DOMAIN order |-> Step("award", "points_store", order[i])])

OnMailRedemptionValidated(s) ==
    /\ Delivered(s, "validate")
    /\ LET r == Head(results[s])
       IN  QueueValidatedMailRedemption(s, IF IsHere(r.request.by, s) THEN r.found ELSE {})
    /\ UNCHANGED <<players, plugins, checking, tables, due, moves, failures, restarts>>

OnRedeemAllLoaded(s) ==
    /\ Delivered(s, "list")
    /\ LET r == Head(results[s])
           here == IsHere(r.request.by, s)
       IN  /\ checking' = IF here THEN checking \ {r.request.by.player} ELSE checking
           /\ QueueValidatedMailRedemption(s, IF here THEN r.found ELSE {})
    /\ UNCHANGED <<players, plugins, tables, due, moves, failures, restarts>>

(* ClearPendingRedemption.                                                 *)
Release_WhenSuccessful(s, m) ==
    pending' = IF Head(results[s]).outcome = "ok"
               THEN [pending EXCEPT ![s] = @ \ {m}] ELSE pending
Release(s, m) == pending' = [pending EXCEPT ![s] = @ \ {m}]

OnMailMarkedRedeemed(s) ==
    /\ Delivered(s, "mark")
    /\ Release(s, Head(results[s]).request.mail)
    /\ UNCHANGED <<players, plugins, checking, tables, due, queue, moves, failures, restarts>>

(* The forward by which points_store tells how a payment went: a mail that *)
(* is not pending here is somebody else's, or was forgotten.               *)
OnApplyBonusPointsSteamIdOnce(s, m, success) ==
    \/ /\ m \in pending[s] /\ success
       /\ Ask(s, <<Step("mark", "server_mail", m)>>)
       /\ UNCHANGED pending
    \/ /\ m \in pending[s] /\ ~success
       /\ Release(s, m)
       /\ UNCHANGED queue
    \/ /\ m \notin pending[s]
       /\ UNCHANGED <<pending, queue>>

------------------------------------------------------------------------------
(* Callbacks of points_store.                                              *)

Applied_WhateverOutcome(r) == r.outcome # "duplicate"
Applied(r) == r.outcome = "ok"

OnIdempotentAward(s) ==
    /\ Delivered(s, "award")
    /\ LET r == Head(results[s])
       IN  \/ /\ r.outcome = "duplicate"
              /\ Ask(s, <<Step("verify", "points_store", r.request.mail)>>)
              /\ UNCHANGED pending
           \/ /\ r.outcome # "duplicate"
              /\ OnApplyBonusPointsSteamIdOnce(s, r.request.mail, Applied(r))
    /\ UNCHANGED <<players, plugins, checking, tables, due, moves, failures, restarts>>

(* The row under a mail's key is that mail's: neither its receiver nor its *)
(* gems change, so what is found always matches what was asked for.        *)
OnIdempotentAwardVerified(s) ==
    /\ Delivered(s, "verify")
    /\ LET r == Head(results[s])
       IN  OnApplyBonusPointsSteamIdOnce(s, r.request.mail, r.outcome = "ok" /\ r.found # {})
    /\ UNCHANGED <<players, plugins, checking, tables, due, moves, failures, restarts>>

------------------------------------------------------------------------------
(* Time, reloads and restarts.                                             *)

Expire(m) ==
    /\ m \in Expiring \ due
    /\ due' = due \union {m}
    /\ UNCHANGED <<players, plugins, redemptions, tables, channel, moves, failures, restarts>>

Stimulus_OnMapStart(s) ==
    /\ Room(s) /\ mailReady[s]
    /\ Ask(s, <<Purge>>)
    /\ UNCHANGED <<players, plugins, redemptions, tables, due, results, moves, failures, restarts>>

CountRestart == restarts < MaxRestarts /\ restarts' = restarts + 1

(* The requests of an unloaded plugin are still executed, but their        *)
(* callbacks are cancelled.                                                *)
Orphaned(req, caller) ==
    IF req.caller = caller THEN [req EXCEPT !.caller = "nobody"] ELSE req
OrphanedResult(r, caller) == [r EXCEPT !.request = Orphaned(r.request, caller)]
Orphan(s, caller) ==
    /\ queue' = [queue EXCEPT ![s] =
            [i \in DOMAIN queue[s] |-> Orphaned(queue[s][i], caller)]]
    /\ results' = [results EXCEPT ![s] =
            [i \in DOMAIN results[s] |-> OrphanedResult(results[s][i], caller)]]

ReloadServerMail(s) ==
    /\ CountRestart
    /\ mailReady' = [mailReady EXCEPT ![s] = FALSE]
    /\ pending' = [pending EXCEPT ![s] = {}]
    /\ checking' = {p \in checking : at[p] # s}
    /\ Orphan(s, "server_mail")
    /\ UNCHANGED <<players, store, tables, due, moves, failures>>

FinishMailSchemaReady(s) ==
    /\ ~mailReady[s]
    /\ mailReady' = [mailReady EXCEPT ![s] = TRUE]
    /\ Ask(s, <<Purge>>)
    /\ UNCHANGED <<players, store, redemptions, tables, due, results, moves, failures, restarts>>

(* server_mail's OnLibraryRemoved.                                         *)
ForgetRedemptions_Kept(s) == UNCHANGED pending
ForgetRedemptions(s) == pending' = [pending EXCEPT ![s] = {}]

UnloadPointsStore(s) ==
    /\ CountRestart
    /\ store[s] # "unloaded"
    /\ store' = [store EXCEPT ![s] = "unloaded"]
    /\ ForgetRedemptions(s)
    /\ Orphan(s, "points_store")
    /\ UNCHANGED <<players, mailReady, checking, tables, due, moves, failures>>

LoadPointsStore(s) ==
    /\ store[s] = "unloaded"
    /\ store' = [store EXCEPT ![s] = "starting"]
    /\ UNCHANGED <<players, mailReady, redemptions, tables, due, channel, moves, failures, restarts>>

OnIdempotentAwardsSchemaReady(s) ==
    /\ store[s] = "starting"
    /\ store' = [store EXCEPT ![s] = "ready"]
    /\ UNCHANGED <<players, mailReady, redemptions, tables, due, channel, moves, failures, restarts>>

(* The server goes down and comes up: requests not executed are lost.      *)
Restart(s) ==
    /\ CountRestart
    /\ at' = [p \in Players |-> IF at[p] = s THEN Nowhere ELSE at[p]]
    /\ checking' = {p \in checking : at[p] # s}
    /\ store' = [store EXCEPT ![s] = "starting"]
    /\ mailReady' = [mailReady EXCEPT ![s] = FALSE]
    /\ pending' = [pending EXCEPT ![s] = {}]
    /\ queue' = [queue EXCEPT ![s] = << >>]
    /\ results' = [results EXCEPT ![s] = << >>]
    /\ UNCHANGED <<visit, tables, due, moves, failures>>

------------------------------------------------------------------------------
(* What the statements do to the tables.                                   *)

IsRedeemable(m, p) == Receiver[m] = p /\ mail[m] = "open" /\ m \notin due

KeyTaken_Never(m) == FALSE
KeyTaken(m) == m \in paid

Award(m) ==
    \/ /\ KeyTaken(m)
       /\ UNCHANGED tables
    \/ /\ ~KeyTaken(m)
       /\ paid' = paid \union {m}
       /\ balance' = [balance EXCEPT ![Receiver[m]] = @ + Gems[m]]
       /\ UNCHANGED mail

Mark(m) ==
    /\ mail' = IF mail[m] = "open" THEN [mail EXCEPT ![m] = "redeemed"] ELSE mail
    /\ UNCHANGED <<paid, balance>>

CleanupExpiredMail ==
    /\ mail' = [m \in Mails |-> IF m \in due /\ mail[m] = "open" THEN "lapsed" ELSE mail[m]]
    /\ UNCHANGED <<paid, balance>>

Statement(req) ==
    CASE req.op = "award" -> Award(req.mail)
      [] req.op = "mark" -> Mark(req.mail)
      [] req.op = "purge" -> CleanupExpiredMail
      [] OTHER -> UNCHANGED tables

Found(req) ==
    CASE req.op = "validate" -> {m \in {req.mail} : IsRedeemable(m, req.by.player)}
      [] req.op = "list" -> {m \in Mails : IsRedeemable(m, req.by.player)}
      [] req.op = "verify" -> {req.mail} \intersect paid
      [] OTHER -> {}

Outcome(req) == IF req.op = "award" /\ KeyTaken(req.mail) THEN "duplicate" ELSE "ok"

Reply(s, req, outcome, found) ==
    results' = IF req.caller = "nobody" THEN results
               ELSE [results EXCEPT ![s] =
                        Append(@, [request |-> req, outcome |-> outcome, found |-> found])]

(* A query that fails may have been executed: the connection can break     *)
(* before it or after it.                                                  *)
Execute(s) ==
    /\ queue[s] # << >>
    /\ queue' = [queue EXCEPT ![s] = Tail(@)]
    /\ LET req == Head(queue[s])
       IN  \/ /\ Statement(req)
              /\ Reply(s, req, Outcome(req), Found(req))
              /\ UNCHANGED failures
           \/ /\ failures < MaxFailures
              /\ failures' = failures + 1
              /\ Statement(req) \/ UNCHANGED tables
              /\ Reply(s, req, "failed", {})
    /\ UNCHANGED <<players, plugins, redemptions, due, moves, restarts>>

------------------------------------------------------------------------------
Deliver(s) ==
    \/ OnMailRedemptionValidated(s)
    \/ OnRedeemAllLoaded(s)
    \/ OnIdempotentAward(s)
    \/ OnIdempotentAwardVerified(s)
    \/ OnMailMarkedRedeemed(s)
    \/ OnCancelled(s)

Next ==
    \/ \E s \in Servers, p \in Players :
        \/ OnClientConnected(s, p)
        \/ Command_RedeemAll(s, p)
        \/ \E m \in Mails : BeginMailRedemption(s, p, m)
    \/ \E p \in Players : OnClientDisconnect(p)
    \/ \E m \in Expiring : Expire(m)
    \/ \E s \in Servers :
        \/ Stimulus_OnMapStart(s)
        \/ ReloadServerMail(s) \/ FinishMailSchemaReady(s)
        \/ UnloadPointsStore(s) \/ LoadPointsStore(s) \/ OnIdempotentAwardsSchemaReady(s)
        \/ Restart(s)
        \/ Execute(s)
        \/ Deliver(s)

Spec == Init /\ [][Next]_vars

(* Every server's worker keeps executing, its main thread keeps running    *)
(* callbacks.                                                              *)
FairSpec ==
    /\ Spec
    /\ \A s \in Servers : WF_vars(Execute(s)) /\ WF_vars(Deliver(s))

------------------------------------------------------------------------------
(* Every variable holds a value the program can give it, and a server      *)
(* whose points_store is not ready has no payment pending.                 *)
TypeOK ==
    /\ at \in [Players -> Servers \union {Nowhere}]
    /\ visit \in [Players -> Nat]
    /\ store \in [Servers -> {"unloaded", "starting", "ready"}]
    /\ mailReady \in [Servers -> BOOLEAN]
    /\ pending \in [Servers -> SUBSET Mails]
    /\ checking \subseteq Players
    /\ mail \in [Mails -> {"open", "redeemed", "lapsed"}]
    /\ due \subseteq Expiring
    /\ paid \subseteq Mails
    /\ balance \in [Players -> Nat]
    /\ queue \in [Servers -> Seq(Requests)]
    /\ results \in [Servers -> Seq(Results)]
    /\ moves \in Nat /\ failures \in Nat /\ restarts \in Nat
    /\ \A s \in Servers : store[s] # "ready" => pending[s] = {}

(* Whatever is retried, reloaded or lost, and on however many servers the  *)
(* receiver asks, a mail is paid at most once and redeemed only when paid. *)
Payments == INSTANCE MailPayments
ImplementsPayments == Payments!Spec

(* A mail shown as redeemed has been paid: its row may only be closed by   *)
(* somebody who knows of the payment.                                      *)
RedeemedWerePaid == \A m \in Mails : mail[m] = "redeemed" => m \in paid

(* A mail that server_mail refuses to redeem a second time, "already being *)
(* redeemed", really is: a query whose answer will release it is under     *)
(* way, although the query is often the other plugin's.                    *)
Works(req, m) == req.op \in {"award", "verify", "mark"} /\ req.mail = m /\ req.caller # "nobody"
PendingHasWork ==
    \A s \in Servers : \A m \in pending[s] : \E req \in Wire(s) : Works(req, m)

(* No mail stays "already being redeemed" for ever.                        *)
PendingIsReleased == \A s \in Servers, m \in Mails : []<>(m \notin pending[s])
=============================================================================
