------------------------ MODULE MailRedemptionProofs ------------------------
(***************************************************************************)
(* What holds of redeeming mails for every number of servers, players,     *)
(* mails, failures and restarts.                                           *)
(***************************************************************************)
EXTENDS MailRedemption, FiniteSetTheorems, SequenceTheorems, TLAPS

(* A queue holds what its head and its tail hold.                           *)
LEMMA HeadTail ==
    ASSUME NEW S, NEW q \in Seq(S), q # << >>
    PROVE  /\ Head(q) \in S /\ Tail(q) \in Seq(S)
           /\ ToSet(q) = {Head(q)} \union ToSet(Tail(q))
<1>1. /\ Head(q) \in S /\ Tail(q) \in Seq(S) /\ Head(q) = q[1]
      /\ Len(q) \in Nat /\ Len(q) # 0 /\ Len(Tail(q)) = Len(q) - 1
      /\ \A i \in 1..Len(Tail(q)) : Tail(q)[i] = q[i + 1]
  BY HeadTailProperties, EmptySeq
<1>2. DOMAIN q = 1..Len(q) /\ DOMAIN Tail(q) = 1..(Len(q) - 1)
  BY <1>1
<1>3. ToSet(q) \subseteq {Head(q)} \union ToSet(Tail(q))
  <2> SUFFICES ASSUME NEW i \in 1..Len(q), i # 1
               PROVE  q[i] \in ToSet(Tail(q))
    BY <1>1, <1>2 DEF ToSet
  <2>1. i - 1 \in 1..(Len(q) - 1) /\ (i - 1) + 1 = i
    BY <1>1
  <2>2. Tail(q)[i - 1] = q[i]
    BY <1>1, <2>1
  <2> QED
    BY <1>2, <2>1, <2>2 DEF ToSet
<1>4. {Head(q)} \union ToSet(Tail(q)) \subseteq ToSet(q)
  <2>1. 1 \in 1..Len(q) /\ \A i \in 1..(Len(q) - 1) : i + 1 \in 1..Len(q)
    BY <1>1
  <2> QED
    BY <1>1, <1>2, <2>1 DEF ToSet
<1> QED
  BY <1>1, <1>3, <1>4

(* Appending one element adds it to what a queue holds.                     *)
LEMMA Appended ==
    ASSUME NEW S, NEW q \in Seq(S), NEW e \in S
    PROVE  Append(q, e) \in Seq(S) /\ ToSet(Append(q, e)) = ToSet(q) \union {e}
<1> DEFINE longer == Append(q, e)
<1>1. /\ longer \in Seq(S) /\ Len(longer) = Len(q) + 1 /\ Len(q) \in Nat
      /\ \A i \in 1..Len(q) : longer[i] = q[i]
      /\ longer[Len(q) + 1] = e
  BY AppendProperties
<1> HIDE DEF longer
<1>2. DOMAIN longer = 1..(Len(q) + 1) /\ DOMAIN q = 1..Len(q)
  BY <1>1
<1>3. /\ \A i \in 1..(Len(q) + 1) : i \in 1..Len(q) \/ i = Len(q) + 1
      /\ 1..Len(q) \subseteq 1..(Len(q) + 1) /\ Len(q) + 1 \in 1..(Len(q) + 1)
  BY <1>1
<1>4. ToSet(longer) = ToSet(q) \union {e}
  BY <1>1, <1>2, <1>3 DEF ToSet
<1> QED
  BY <1>1, <1>4 DEF longer

(* Two queues one after the other hold what each of them holds.             *)
LEMMA Joined ==
    ASSUME NEW S, NEW q \in Seq(S), NEW more \in Seq(S)
    PROVE  q \o more \in Seq(S) /\ ToSet(q \o more) = ToSet(q) \union ToSet(more)
<1> DEFINE both == q \o more
<1>1. /\ both \in Seq(S) /\ Len(both) = Len(q) + Len(more)
      /\ Len(q) \in Nat /\ Len(more) \in Nat
      /\ \A i \in 1..(Len(q) + Len(more)) :
            both[i] = IF i <= Len(q) THEN q[i] ELSE more[i - Len(q)]
  BY ConcatProperties
<1> HIDE DEF both
<1>2. /\ DOMAIN both = 1..(Len(q) + Len(more))
      /\ DOMAIN q = 1..Len(q) /\ DOMAIN more = 1..Len(more)
  BY <1>1
<1>3. ASSUME NEW i \in 1..Len(q) PROVE i \in DOMAIN both /\ both[i] = q[i]
  BY <1>1, <1>2
<1>4. ASSUME NEW i \in 1..Len(more)
      PROVE  i + Len(q) \in DOMAIN both /\ both[i + Len(q)] = more[i]
  <2>1. /\ i + Len(q) \in 1..(Len(q) + Len(more))
        /\ ~(i + Len(q) <= Len(q)) /\ (i + Len(q)) - Len(q) = i
    BY <1>1
  <2> QED
    BY <1>1, <1>2, <2>1
<1>5. ASSUME NEW i \in DOMAIN both PROVE both[i] \in ToSet(q) \union ToSet(more)
  <2>1. CASE i <= Len(q)
    BY <1>1, <1>2, <2>1 DEF ToSet
  <2>2. CASE ~(i <= Len(q))
    <3>1. i - Len(q) \in 1..Len(more) /\ both[i] = more[i - Len(q)]
      BY <1>1, <1>2, <2>2
    <3> QED
      BY <1>2, <3>1 DEF ToSet
  <2> QED
    BY <2>1, <2>2
<1>6. ToSet(both) = ToSet(q) \union ToSet(more)
  <2>1. ToSet(both) \subseteq ToSet(q) \union ToSet(more)
    BY <1>5 DEF ToSet
  <2>2. ToSet(q) \subseteq ToSet(both)
    BY <1>2, <1>3 DEF ToSet
  <2>3. ToSet(more) \subseteq ToSet(both)
    BY <1>2, <1>4 DEF ToSet
  <2> QED
    BY <2>1, <2>2, <2>3
<1> QED
  BY <1>1, <1>6 DEF both

(* A request that is asked alone.                                           *)
LEMMA Single ==
    ASSUME NEW S, NEW e \in S
    PROVE  <<e>> \in Seq(S) /\ ToSet(<<e>>) = {e}
BY DEF ToSet

------------------------------------------------------------------------------
(* The steps of a payment: requests that carry a mail and nobody's visit.   *)
Steps == [op : {"award", "verify", "mark"}, caller : Callers, mail : Mails]

(* What a request carries, by its kind.                                     *)
LEMMA RequestKind ==
    ASSUME NEW req \in Requests
    PROVE  /\ req.op \in {"validate", "list", "award", "verify", "mark", "purge"}
           /\ req.op \in {"validate", "list"} => req.by \in Visits
           /\ req.op \in {"award", "verify", "mark"} => req \in Steps
           /\ req.op = "validate" => req.mail \in Mails
BY DEF Requests, Steps, Callers

(* Steps are requests.                                                      *)
LEMMA StepKind ==
    ASSUME NEW m \in Mails, NEW op \in {"award", "verify", "mark"}, NEW caller \in Callers
    PROVE  /\ Step(op, caller, m) \in Requests
           /\ Step(op, caller, m).op = op /\ Step(op, caller, m).mail = m
           /\ Step(op, caller, m).caller = caller
BY DEF Step, Requests, Callers

(* Purging is a request.                                                    *)
LEMMA PurgeKind == Purge \in Requests /\ Purge.op = "purge" /\ Purge.caller = "nobody"
BY DEF Purge, Requests

(* An orphaned request asks for the same thing.                             *)
LEMMA OrphanKind ==
    ASSUME NEW req \in Requests, NEW caller
    PROVE  /\ Orphaned(req, caller) \in Requests
           /\ Orphaned(req, caller).op = req.op
           /\ req \in Steps => Orphaned(req, caller).mail = req.mail
<1>1. CASE req.caller # caller
  BY <1>1 DEF Orphaned
<1>2. CASE req.caller = caller
  <2>1. CASE req \in [op : {"validate"}, caller : Callers, mail : Mails, by : Visits]
    BY <1>2, <2>1 DEF Orphaned, Requests, Callers, Steps
  <2>2. CASE req \in [op : {"list"}, caller : Callers, by : Visits]
    BY <1>2, <2>2 DEF Orphaned, Requests, Callers, Steps
  <2>3. CASE req \in Steps
    BY <1>2, <2>3 DEF Orphaned, Requests, Callers, Steps
  <2>4. CASE req \in [op : {"purge"}, caller : {"nobody"}]
    BY <1>2, <2>4 DEF Orphaned, Requests, Callers, Steps
  <2> QED
    BY <2>1, <2>2, <2>3, <2>4 DEF Requests, Steps
<1> QED
  BY <1>1, <1>2

(* The parts of the type invariant that steps disturb together.             *)
ChannelTyped ==
    /\ queue \in [Servers -> Seq(Requests)]
    /\ results \in [Servers -> Seq(Results)]

(* Asking keeps the queues well formed.                                     *)
LEMMA AskTyped ==
    ASSUME queue \in [Servers -> Seq(Requests)], NEW s \in Servers,
           NEW requests \in Seq(Requests), Ask(s, requests)
    PROVE  /\ queue' \in [Servers -> Seq(Requests)]
           /\ ToSet(queue'[s]) = ToSet(queue[s]) \union ToSet(requests)
           /\ \A other \in Servers : other # s => queue'[other] = queue[other]
<1>1. queue[s] \in Seq(Requests) /\ queue'[s] = queue[s] \o requests
  BY DEF Ask
<1>2. queue[s] \o requests \in Seq(Requests)
  BY <1>1, Joined
<1>3. ToSet(queue'[s]) = ToSet(queue[s]) \union ToSet(requests)
  BY <1>1, Joined
<1> QED
  BY <1>1, <1>2, <1>3 DEF Ask

(* A callback runs for the oldest result.                                   *)
LEMMA NextResult ==
    ASSUME results \in [Servers -> Seq(Results)], NEW s \in Servers,
           results[s] # << >>, results' = [results EXCEPT ![s] = Tail(@)]
    PROVE  /\ Head(results[s]) \in Results
           /\ Head(results[s]).request \in Requests
           /\ Head(results[s]).found \subseteq Mails
           /\ results' \in [Servers -> Seq(Results)]
           /\ ToSet(results[s]) = {Head(results[s])} \union ToSet(results'[s])
           /\ \A other \in Servers : other # s => results'[other] = results[other]
<1>1. results[s] \in Seq(Results) /\ results'[s] = Tail(results[s])
  OBVIOUS
<1>2. /\ Head(results[s]) \in Results /\ Tail(results[s]) \in Seq(Results)
      /\ ToSet(results[s]) = {Head(results[s])} \union ToSet(Tail(results[s]))
  BY <1>1, HeadTail
<1>3. Head(results[s]).request \in Requests /\ Head(results[s]).found \subseteq Mails
  BY <1>2 DEF Results
<1> QED
  BY <1>1, <1>2, <1>3

(* Orphaning keeps the channel well formed, and every request and result   *)
(* that is left is one that was there before, but for its caller.          *)
LEMMA OrphanTyped ==
    ASSUME ChannelTyped, NEW s \in Servers, NEW caller, Orphan(s, caller)
    PROVE  /\ ChannelTyped'
           /\ \A other \in Servers :
                other # s => queue'[other] = queue[other] /\ results'[other] = results[other]
           /\ \A new \in ToSet(queue'[s]) :
                \E req \in ToSet(queue[s]) : new = Orphaned(req, caller)
           /\ \A new \in ToSet(results'[s]) :
                \E r \in ToSet(results[s]) : new = OrphanedResult(r, caller)
<1> DEFINE q == [i \in DOMAIN queue[s] |-> Orphaned(queue[s][i], caller)]
           d == [i \in DOMAIN results[s] |-> OrphanedResult(results[s][i], caller)]
<1>1. queue[s] \in Seq(Requests) /\ results[s] \in Seq(Results)
  BY DEF ChannelTyped
<1>2. /\ queue' = [queue EXCEPT ![s] = q] /\ results' = [results EXCEPT ![s] = d]
  BY DEF Orphan
<1>3. /\ Len(queue[s]) \in Nat /\ DOMAIN queue[s] = 1..Len(queue[s])
      /\ Len(results[s]) \in Nat /\ DOMAIN results[s] = 1..Len(results[s])
  BY <1>1
<1>4. q \in Seq(Requests)
  <2>1. \A i \in 1..Len(queue[s]) : Orphaned(queue[s][i], caller) \in Requests
    BY <1>1, ElementOfSeq, OrphanKind
  <2>2. q \in [1..Len(queue[s]) -> Requests]
    BY <1>3, <2>1
  <2> QED
    BY <1>3, <2>2, IsASeq
<1>5. d \in Seq(Results)
  <2>1. ASSUME NEW i \in 1..Len(results[s])
        PROVE  OrphanedResult(results[s][i], caller) \in Results
    <3> DEFINE r == results[s][i]
    <3>1. r \in Results
      BY <1>1, ElementOfSeq
    <3> HIDE DEF r
    <3>2. r.request \in Requests
      BY <3>1 DEF Results
    <3>3. Orphaned(r.request, caller) \in Requests
      BY <3>2, OrphanKind
    <3>4. OrphanedResult(r, caller) \in Results
      BY <3>1, <3>3 DEF Results, OrphanedResult
    <3> QED
      BY <3>4 DEF r
  <2>2. d \in [1..Len(results[s]) -> Results]
    BY <1>3, <2>1
  <2> QED
    BY <1>3, <2>2, IsASeq
<1>6. ChannelTyped'
  BY <1>2, <1>4, <1>5 DEF ChannelTyped
<1>7. queue'[s] = q /\ results'[s] = d
  BY <1>2 DEF ChannelTyped
<1>8. /\ DOMAIN q = DOMAIN queue[s] /\ DOMAIN d = DOMAIN results[s]
      /\ \A i \in DOMAIN queue[s] : q[i] = Orphaned(queue[s][i], caller)
      /\ \A i \in DOMAIN results[s] : d[i] = OrphanedResult(results[s][i], caller)
  OBVIOUS
<1> HIDE DEF q, d
<1>9. /\ \A new \in ToSet(queue'[s]) :
                \E req \in ToSet(queue[s]) : new = Orphaned(req, caller)
      /\ \A new \in ToSet(results'[s]) :
                \E r \in ToSet(results[s]) : new = OrphanedResult(r, caller)
  BY <1>7, <1>8 DEF ToSet
<1> QED
  BY <1>2, <1>6, <1>9 DEF ChannelTyped

------------------------------------------------------------------------------
(* What a callback may do on its server, given the result it is for: hand  *)
(* over some new requests, a mark only after a payment that was confirmed, *)
(* and leave a mail pending only if its work goes on.                       *)
Confirms(r) ==
    \/ r.request.op = "award" /\ r.outcome = "ok"
    \/ r.request.op = "verify" /\ r.found # {}

Follows(s, r, new) ==
    /\ new \subseteq Requests
    /\ queue' \in [Servers -> Seq(Requests)]
    /\ ToSet(queue'[s]) = ToSet(queue[s]) \union new
    /\ \A other \in Servers : other # s => queue'[other] = queue[other]
    /\ pending' \in [Servers -> SUBSET Mails]
    /\ \A other \in Servers : other # s => pending'[other] = pending[other]
    /\ store[s] # "ready" => pending'[s] \subseteq pending[s]
    /\ \A req \in new : req.op = "mark" => Confirms(r) /\ req.mail = r.request.mail
    /\ \A m \in pending'[s] :
        \/ m \in pending[s] /\ ~Works(r.request, m)
        \/ \E req \in new : Works(req, m)

(* Asking for payments follows from any answer to a look at the mailbox.    *)
LEMMA ValidatedFollows ==
    ASSUME MailRedemptionAssumption, TypeOK, NEW s \in Servers, NEW mails \in SUBSET Mails,
           NEW r, r.request.op \in {"validate", "list"},
           QueueValidatedMailRedemption(s, mails)
    PROVE  \E new : Follows(s, r, new)
<1> DEFINE fresh == IF store[s] = "ready" THEN mails \ pending[s] ELSE {}
           new == {Step("award", "points_store", m) : m \in fresh}
<1>1. PICK order \in [1..Cardinality(fresh) -> fresh] :
            /\ ToSet(order) = fresh
            /\ Ask(s, [i \in DOMAIN order |-> Step("award", "points_store", order[i])])
  BY DEF QueueValidatedMailRedemption
<1>2. pending' = [pending EXCEPT ![s] = @ \union fresh]
  BY DEF QueueValidatedMailRedemption
<1>3. /\ fresh \subseteq Mails /\ pending \in [Servers -> SUBSET Mails]
      /\ store[s] # "ready" => fresh = {}
      /\ queue \in [Servers -> Seq(Requests)]
  BY DEF TypeOK
<1> HIDE DEF fresh
<1>4. Cardinality(fresh) \in Nat
  BY <1>3, FS_Subset, FS_CardinalityType DEF MailRedemptionAssumption
<1> DEFINE asked == [i \in DOMAIN order |-> Step("award", "points_store", order[i])]
<1>5. DOMAIN order = 1..Cardinality(fresh)
  OBVIOUS
<1>6. \A i \in 1..Cardinality(fresh) : Step("award", "points_store", order[i]) \in Requests
  <2>1. \A m \in Mails : Step("award", "points_store", m) \in Requests
    BY StepKind DEF Callers
  <2>2. \A i \in 1..Cardinality(fresh) : order[i] \in Mails
    BY <1>3, <1>5
  <2> QED
    BY <2>1, <2>2
<1>7. asked \in Seq(Requests)
  <2> DEFINE n == Cardinality(fresh)
  <2>1. asked = [i \in 1..n |-> Step("award", "points_store", order[i])]
    BY <1>5
  <2> HIDE DEF n
  <2>2. [i \in 1..n |-> Step("award", "points_store", order[i])] \in Seq(Requests)
    BY <1>4, <1>6, IsASeq DEF n
  <2> QED
    BY <2>1, <2>2
<1>8. ToSet(asked) = new
  <2>1. /\ DOMAIN asked = DOMAIN order
        /\ \A i \in DOMAIN order : asked[i] = Step("award", "points_store", order[i])
    OBVIOUS
  <2>2. \A i \in DOMAIN order : order[i] \in fresh
    OBVIOUS
  <2>3. \A m \in fresh : \E i \in DOMAIN order : order[i] = m
    BY <1>1 DEF ToSet
  <2> HIDE DEF asked
  <2> QED
    BY <2>1, <2>2, <2>3 DEF ToSet
<1>9. Ask(s, asked)
  BY <1>1
<1> HIDE DEF asked
<1>10. /\ queue' \in [Servers -> Seq(Requests)]
       /\ ToSet(queue'[s]) = ToSet(queue[s]) \union new
       /\ \A other \in Servers : other # s => queue'[other] = queue[other]
  BY <1>3, <1>7, <1>8, <1>9, AskTyped
<1>11. \A m \in fresh : /\ Step("award", "points_store", m) \in Requests
                        /\ Step("award", "points_store", m).op = "award"
                        /\ Works(Step("award", "points_store", m), m)
  BY <1>3, StepKind DEF Callers, Works
<1>12. new \subseteq Requests /\ \A req \in new : req.op = "award"
  BY <1>11
<1>13. \A m \in fresh : \E req \in new : Works(req, m)
  BY <1>11
<1> HIDE DEF new
<1>14. \A m \in pending[s] : ~Works(r.request, m)
  BY DEF Works
<1> QED
  BY <1>2, <1>3, <1>10, <1>12, <1>13, <1>14 DEF Follows

(* Hearing how a payment went follows from a payment or a look at its row. *)
LEMMA ApplyFollows ==
    ASSUME TypeOK, NEW s \in Servers, NEW m \in Mails, NEW success \in BOOLEAN,
           NEW r, r.request.mail = m, r = Head(results[s]),
           success => Confirms(r),
           OnApplyBonusPointsSteamIdOnce(s, m, success)
    PROVE  \E new : Follows(s, r, new)
<1> DEFINE mark == Step("mark", "server_mail", m)
<1>1. /\ queue \in [Servers -> Seq(Requests)] /\ pending \in [Servers -> SUBSET Mails]
  BY DEF TypeOK
<1>2. \A other : Works(r.request, other) => other = m
  BY DEF Works
<1>3. CASE UNCHANGED <<pending, queue>> /\ m \notin pending[s]
  <2>1. Follows(s, r, {})
    BY <1>1, <1>2, <1>3 DEF Follows
  <2> QED
    BY <2>1
<1>4. CASE Release(s, m) /\ UNCHANGED queue
  <2>1. pending' = [pending EXCEPT ![s] = @ \ {m}]
    BY <1>4 DEF Release
  <2>2. Follows(s, r, {})
    BY <1>1, <1>2, <1>4, <2>1 DEF Follows
  <2> QED
    BY <2>2
<1>5. CASE success /\ Ask(s, <<mark>>) /\ UNCHANGED pending
  <2>1. /\ mark \in Requests /\ mark.op = "mark" /\ mark.mail = m
        /\ mark.caller = "server_mail"
    BY StepKind DEF Callers
  <2> HIDE DEF mark
  <2>2. <<mark>> \in Seq(Requests) /\ ToSet(<<mark>>) = {mark}
    BY <2>1, Single
  <2>3. /\ queue' \in [Servers -> Seq(Requests)]
        /\ ToSet(queue'[s]) = ToSet(queue[s]) \union {mark}
        /\ \A other \in Servers : other # s => queue'[other] = queue[other]
    BY <1>1, <1>5, <2>2, AskTyped
  <2>4. Works(mark, m)
    BY <2>1 DEF Works
  <2>5. Follows(s, r, {mark})
    BY <1>1, <1>2, <1>5, <2>1, <2>3, <2>4 DEF Follows
  <2> QED
    BY <2>5
<1> QED
  BY <1>3, <1>4, <1>5 DEF OnApplyBonusPointsSteamIdOnce

(* What a callback leaves alone.                                            *)
Keeps ==
    /\ UNCHANGED <<players, plugins, tables, due, moves, failures, restarts>>
    /\ checking' \subseteq checking

(* Every callback takes the oldest result and does what follows from it.    *)
LEMMA DeliverFollows ==
    ASSUME MailRedemptionAssumption, TypeOK, NEW s \in Servers, Deliver(s)
    PROVE  /\ results[s] # << >> /\ results' = [results EXCEPT ![s] = Tail(@)]
           /\ Keeps
           /\ \E new : Follows(s, Head(results[s]), new)
<1> DEFINE r == Head(results[s])
<1>1. ASSUME results[s] # << >>, results' = [results EXCEPT ![s] = Tail(@)]
      PROVE  /\ r \in Results /\ r.request \in Requests /\ r.found \subseteq Mails
             /\ r.request.op \in {"award", "verify", "mark"} => r.request.mail \in Mails
  <2>1. r \in Results /\ r.request \in Requests /\ r.found \subseteq Mails
    BY <1>1, NextResult DEF TypeOK
  <2> HIDE DEF r
  <2> QED
    BY <2>1, RequestKind DEF Steps
<1>2. CASE OnMailRedemptionValidated(s)
  <2>1. PICK mails \in {{}, r.found} : QueueValidatedMailRedemption(s, mails)
    BY <1>2 DEF OnMailRedemptionValidated
  <2>2. /\ results[s] # << >> /\ results' = [results EXCEPT ![s] = Tail(@)]
        /\ r.request.op = "validate" /\ Keeps
    BY <1>2 DEF OnMailRedemptionValidated, Delivered, Keeps
  <2>3. mails \in SUBSET Mails
    BY <1>1, <2>2
  <2> HIDE DEF r
  <2>4. \E new : Follows(s, r, new)
    BY <2>1, <2>2, <2>3, ValidatedFollows
  <2> QED
    BY <2>2, <2>4 DEF r
<1>3. CASE OnRedeemAllLoaded(s)
  <2>1. PICK mails \in {{}, r.found} : QueueValidatedMailRedemption(s, mails)
    BY <1>3 DEF OnRedeemAllLoaded
  <2>2. /\ results[s] # << >> /\ results' = [results EXCEPT ![s] = Tail(@)]
        /\ r.request.op = "list" /\ Keeps
    BY <1>3 DEF OnRedeemAllLoaded, Delivered, Keeps
  <2>3. mails \in SUBSET Mails
    BY <1>1, <2>2
  <2> HIDE DEF r
  <2>4. \E new : Follows(s, r, new)
    BY <2>1, <2>2, <2>3, ValidatedFollows
  <2> QED
    BY <2>2, <2>4 DEF r
<1>4. CASE OnIdempotentAward(s)
  <2>1. /\ results[s] # << >> /\ results' = [results EXCEPT ![s] = Tail(@)]
        /\ r.request.op = "award" /\ Keeps
    BY <1>4 DEF OnIdempotentAward, Delivered, Keeps
  <2>2. r.request.mail \in Mails
    BY <1>1, <2>1
  <2>3. CASE r.outcome = "duplicate"
    <3> DEFINE m == r.request.mail
               verify == Step("verify", "points_store", m)
    <3>1. Ask(s, <<verify>>) /\ UNCHANGED pending
      BY <1>4, <2>3 DEF OnIdempotentAward
    <3>2. /\ verify \in Requests /\ verify.op = "verify" /\ verify.mail = m
          /\ verify.caller = "points_store"
      BY <2>2, StepKind DEF Callers
    <3> HIDE DEF verify
    <3>3. <<verify>> \in Seq(Requests) /\ ToSet(<<verify>>) = {verify}
      BY <3>2, Single
    <3>4. /\ queue' \in [Servers -> Seq(Requests)]
          /\ ToSet(queue'[s]) = ToSet(queue[s]) \union {verify}
          /\ \A other \in Servers : other # s => queue'[other] = queue[other]
      BY <3>1, <3>3, AskTyped DEF TypeOK
    <3>5. Works(verify, m) /\ \A other : Works(r.request, other) => other = m
      BY <3>2 DEF Works
    <3> HIDE DEF m, r
    <3>6. Follows(s, r, {verify})
      BY <3>1, <3>2, <3>4, <3>5 DEF Follows, TypeOK
    <3> QED
      BY <2>1, <3>6 DEF r
  <2>4. CASE OnApplyBonusPointsSteamIdOnce(s, r.request.mail, Applied(r))
    <3>1. Applied(r) \in BOOLEAN /\ (Applied(r) => Confirms(r))
      BY <2>1 DEF Applied, Confirms
    <3>2. \E new : Follows(s, r, new)
      BY <2>2, <2>4, <3>1, ApplyFollows
    <3> QED
      BY <2>1, <3>2
  <2> QED
    BY <1>4, <2>3, <2>4 DEF OnIdempotentAward
<1>5. CASE OnIdempotentAwardVerified(s)
  <2>1. /\ results[s] # << >> /\ results' = [results EXCEPT ![s] = Tail(@)]
        /\ r.request.op = "verify" /\ Keeps
        /\ OnApplyBonusPointsSteamIdOnce(s, r.request.mail, r.outcome = "ok" /\ r.found # {})
    BY <1>5 DEF OnIdempotentAwardVerified, Delivered, Keeps
  <2> DEFINE success == r.outcome = "ok" /\ r.found # {}
  <2>2. success \in BOOLEAN /\ (success => Confirms(r))
    BY <2>1 DEF Confirms
  <2>3. r.request.mail \in Mails
    BY <1>1, <2>1
  <2>4. \E new : Follows(s, r, new)
    BY <2>1, <2>2, <2>3, ApplyFollows
  <2> QED
    BY <2>1, <2>4
<1>6. CASE OnMailMarkedRedeemed(s)
  <2>1. /\ results[s] # << >> /\ results' = [results EXCEPT ![s] = Tail(@)]
        /\ r.request.op = "mark" /\ Keeps /\ UNCHANGED queue
        /\ pending' = [pending EXCEPT ![s] = @ \ {r.request.mail}]
    BY <1>6 DEF OnMailMarkedRedeemed, Delivered, Keeps, Release
  <2>2. \A other : Works(r.request, other) => other = r.request.mail
    BY DEF Works
  <2> HIDE DEF r
  <2>3. Follows(s, r, {})
    BY <2>1, <2>2 DEF Follows, TypeOK
  <2> QED
    BY <2>1, <2>3 DEF r
<1>7. CASE OnCancelled(s)
  <2>1. /\ results[s] # << >> /\ results' = [results EXCEPT ![s] = Tail(@)]
        /\ r.request.caller = "nobody" /\ Keeps /\ UNCHANGED <<queue, pending>>
    BY <1>7 DEF OnCancelled, Keeps, redemptions
  <2>2. \A m : ~Works(r.request, m)
    BY <2>1 DEF Works
  <2> HIDE DEF r
  <2>3. Follows(s, r, {})
    BY <2>1, <2>2 DEF Follows, TypeOK
  <2> QED
    BY <2>1, <2>3 DEF r
<1> QED
  BY <1>2, <1>3, <1>4, <1>5, <1>6, <1>7 DEF Deliver

------------------------------------------------------------------------------
(* What the worker of a server does to the channel: it takes the oldest    *)
(* request and, unless its plugin was unloaded, answers it; an answer that *)
(* confirms a payment is right.                                            *)
Answers(s, req, answer) ==
    /\ answer \in Results /\ answer.request = req
    /\ Confirms(answer) => req.mail \in paid'
    /\ results' \in [Servers -> Seq(Results)]
    /\ ToSet(results'[s]) = ToSet(results[s]) \union
                                (IF req.caller = "nobody" THEN {} ELSE {answer})
    /\ \A other \in Servers : other # s => results'[other] = results[other]

(* Answering adds the answer to the results of its server.                  *)
LEMMA ReplyAnswers ==
    ASSUME TypeOK, NEW s \in Servers, NEW req \in Requests,
           NEW outcome \in {"ok", "duplicate", "failed"}, NEW found \in SUBSET Mails,
           Reply(s, req, outcome, found),
           req.op = "award" /\ outcome = "ok" => req.mail \in paid',
           req.op = "verify" /\ found # {} => req.mail \in paid'
    PROVE  \E answer : Answers(s, req, answer)
<1> DEFINE answer == [request |-> req, outcome |-> outcome, found |-> found]
<1>1. /\ answer \in Results /\ answer.request = req
      /\ Confirms(answer) => req.mail \in paid'
  BY DEF Results, Confirms
<1>2. /\ results \in [Servers -> Seq(Results)] /\ results[s] \in Seq(Results)
      /\ results' = IF req.caller = "nobody" THEN results
                     ELSE [results EXCEPT ![s] = Append(@, answer)]
  BY DEF TypeOK, Reply
<1> HIDE DEF answer
<1>3. /\ Append(results[s], answer) \in Seq(Results)
      /\ ToSet(Append(results[s], answer)) = ToSet(results[s]) \union {answer}
  BY <1>1, <1>2, Appended
<1>4. Answers(s, req, answer)
  BY <1>1, <1>2, <1>3 DEF Answers
<1> QED
  BY <1>4

(* An award that goes through pays its mail.                                *)
LEMMA AwardPays ==
    ASSUME NEW m, Award(m)
    PROVE  m \in paid'
BY DEF Award, KeyTaken, tables

(* The worker takes the oldest request, does it or not, and answers it.     *)
LEMMA ExecuteAnswers ==
    ASSUME TypeOK, NEW s \in Servers, Execute(s)
    PROVE  /\ Head(queue[s]) \in Requests
           /\ queue' \in [Servers -> Seq(Requests)]
           /\ ToSet(queue[s]) = {Head(queue[s])} \union ToSet(queue'[s])
           /\ \A other \in Servers : other # s => queue'[other] = queue[other]
           /\ Statement(Head(queue[s])) \/ UNCHANGED tables
           /\ \E answer : Answers(s, Head(queue[s]), answer)
           /\ UNCHANGED <<players, plugins, redemptions, due, moves, restarts>>
           /\ failures' \in Nat
<1> DEFINE req == Head(queue[s])
<1>1. queue[s] \in Seq(Requests) /\ queue[s] # << >> /\ queue'[s] = Tail(queue[s])
  BY DEF Execute, TypeOK
<1>2. /\ req \in Requests /\ Tail(queue[s]) \in Seq(Requests)
      /\ ToSet(queue[s]) = {req} \union ToSet(Tail(queue[s]))
  BY <1>1, HeadTail
<1>3. /\ queue' \in [Servers -> Seq(Requests)]
      /\ \A other \in Servers : other # s => queue'[other] = queue[other]
  BY <1>2 DEF Execute, TypeOK
<1>4. UNCHANGED <<players, plugins, redemptions, due, moves, restarts>> /\ failures' \in Nat
  BY DEF Execute, TypeOK
<1>5. CASE Statement(req) /\ Reply(s, req, Outcome(req), Found(req))
  <2> HIDE DEF req
  <2>1. Outcome(req) \in {"ok", "duplicate", "failed"}
    BY DEF Outcome
  <2>2. Found(req) \in SUBSET Mails
    BY <1>2, RequestKind DEF Found, TypeOK, Steps
  <2>3. ASSUME req.op = "award" PROVE req.mail \in paid'
    BY <1>5, <2>3, AwardPays DEF Statement
  <2>4. ASSUME req.op = "verify", Found(req) # {} PROVE req.mail \in paid'
    BY <1>5, <2>4 DEF Statement, Found, tables
  <2>5. \E answer : Answers(s, req, answer)
    BY <1>2, <1>5, <2>1, <2>2, <2>3, <2>4, ReplyAnswers
  <2> QED
    BY <1>1, <1>2, <1>3, <1>4, <1>5, <2>5 DEF req
<1>6. CASE (Statement(req) \/ UNCHANGED tables) /\ Reply(s, req, "failed", {})
  <2> HIDE DEF req
  <2>1. \E answer : Answers(s, req, answer)
    BY <1>2, <1>6, ReplyAnswers
  <2> QED
    BY <1>1, <1>2, <1>3, <1>4, <1>6, <2>1 DEF req
<1> QED
  BY <1>5, <1>6 DEF Execute

(* Statements keep the tables well formed.                                  *)
LEMMA StatementTyped ==
    ASSUME MailRedemptionAssumption, TypeOK, NEW req \in Requests, Statement(req)
    PROVE  /\ mail' \in [Mails -> {"open", "redeemed", "lapsed"}]
           /\ paid' \subseteq Mails /\ balance' \in [Players -> Nat]
<1>1. /\ mail \in [Mails -> {"open", "redeemed", "lapsed"}]
      /\ paid \subseteq Mails /\ balance \in [Players -> Nat]
  BY DEF TypeOK
<1>2. CASE req.op = "award"
  <2>1. req.mail \in Mails /\ Award(req.mail)
    BY <1>2, RequestKind DEF Statement, Steps
  <2>2. Receiver[req.mail] \in Players /\ Gems[req.mail] \in Nat
    BY <2>1 DEF MailRedemptionAssumption
  <2>3. balance[Receiver[req.mail]] + Gems[req.mail] \in Nat
    BY <1>1, <2>2
  <2> QED
    BY <1>1, <2>1, <2>3 DEF Award, tables
<1>3. CASE req.op = "mark"
  <2>1. req.mail \in Mails /\ Mark(req.mail)
    BY <1>3, RequestKind DEF Statement, Steps
  <2> QED
    BY <1>1, <2>1 DEF Mark
<1>4. CASE req.op = "purge"
  BY <1>1, <1>4 DEF Statement, CleanupExpiredMail
<1>5. CASE req.op \notin {"award", "mark", "purge"}
  BY <1>1, <1>5 DEF Statement, tables
<1> QED
  BY <1>2, <1>3, <1>4, <1>5

(* Asking one thing keeps the queues well formed.                           *)
LEMMA AskOneTyped ==
    ASSUME TypeOK, NEW s \in Servers, NEW req \in Requests, Ask(s, <<req>>)
    PROVE  /\ queue' \in [Servers -> Seq(Requests)]
           /\ ToSet(queue'[s]) = ToSet(queue[s]) \union {req}
           /\ \A other \in Servers : other # s => queue'[other] = queue[other]
<1>1. <<req>> \in Seq(Requests) /\ ToSet(<<req>>) = {req}
  BY Single
<1> QED
  BY <1>1, AskTyped DEF TypeOK

(* A player's question is a request.                                        *)
LEMMA VisitKind ==
    ASSUME TypeOK, NEW p \in Players
    PROVE  /\ [op |-> "list", caller |-> "server_mail", by |-> Visit(p)] \in Requests
           /\ \A m \in Mails :
                [op |-> "validate", caller |-> "server_mail", mail |-> m, by |-> Visit(p)]
                    \in Requests
<1>1. Visit(p) \in Visits
  BY DEF Visit, Visits, TypeOK
<1> QED
  BY <1>1 DEF Requests, Callers

(* Callbacks keep the types.                                                *)
LEMMA DeliverType ==
    ASSUME MailRedemptionAssumption, TypeOK, NEW s \in Servers, Deliver(s)
    PROVE  TypeOK'
<1>1. /\ results[s] # << >> /\ results' = [results EXCEPT ![s] = Tail(@)] /\ Keeps
  BY DeliverFollows
<1>2. PICK new : Follows(s, Head(results[s]), new)
  BY DeliverFollows
<1>3. results' \in [Servers -> Seq(Results)]
  BY <1>1, NextResult DEF TypeOK
<1>4. \A other \in Servers : store'[other] # "ready" => pending'[other] = {}
  BY <1>1, <1>2 DEF Follows, Keeps, plugins, TypeOK
<1> QED
  BY <1>1, <1>2, <1>3, <1>4 DEF Follows, Keeps, TypeOK, players, plugins, tables

(* The worker keeps the types.                                              *)
LEMMA ExecuteType ==
    ASSUME MailRedemptionAssumption, TypeOK, NEW s \in Servers, Execute(s)
    PROVE  TypeOK'
<1>1. /\ Head(queue[s]) \in Requests
      /\ queue' \in [Servers -> Seq(Requests)]
      /\ Statement(Head(queue[s])) \/ UNCHANGED tables
      /\ UNCHANGED <<players, plugins, redemptions, due, moves, restarts>>
      /\ failures' \in Nat
  BY ExecuteAnswers
<1>2. results' \in [Servers -> Seq(Results)]
  BY ExecuteAnswers DEF Answers
<1>3. /\ mail' \in [Mails -> {"open", "redeemed", "lapsed"}]
      /\ paid' \subseteq Mails /\ balance' \in [Players -> Nat]
  BY <1>1, StatementTyped DEF tables, TypeOK
<1> QED
  BY <1>1, <1>2, <1>3 DEF TypeOK, players, plugins, redemptions

(* What players do keeps the types.                                         *)
LEMMA PlayersType ==
    ASSUME MailRedemptionAssumption, TypeOK, NEW s \in Servers, NEW p \in Players,
           \/ OnClientConnected(s, p) \/ Command_RedeemAll(s, p) \/ OnClientDisconnect(p)
           \/ \E m \in Mails : BeginMailRedemption(s, p, m)
    PROVE  TypeOK'
<1>1. CASE OnClientConnected(s, p)
  BY <1>1 DEF OnClientConnected, CountMove, TypeOK, plugins, redemptions, tables, channel
<1>2. CASE OnClientDisconnect(p)
  BY <1>2 DEF OnClientDisconnect, TypeOK, plugins, tables, channel
<1>3. CASE Command_RedeemAll(s, p)
  <2>1. queue' \in [Servers -> Seq(Requests)]
    BY <1>3, VisitKind, AskOneTyped DEF Command_RedeemAll
  <2> QED
    BY <1>3, <2>1 DEF Command_RedeemAll, CountMove, TypeOK, players, plugins, tables
<1>4. ASSUME NEW m \in Mails, BeginMailRedemption(s, p, m) PROVE TypeOK'
  <2>1. queue' \in [Servers -> Seq(Requests)]
    BY <1>4, VisitKind, AskOneTyped DEF BeginMailRedemption
  <2> QED
    BY <1>4, <2>1 DEF BeginMailRedemption, CountMove, TypeOK, players, plugins, tables,
        redemptions
<1> QED
  BY <1>1, <1>2, <1>3, <1>4

(* What happens to the plugins of a server keeps the types.                 *)
LEMMA PluginsType ==
    ASSUME MailRedemptionAssumption, TypeOK, NEW s \in Servers,
           \/ Stimulus_OnMapStart(s) \/ ReloadServerMail(s) \/ FinishMailSchemaReady(s)
           \/ UnloadPointsStore(s) \/ LoadPointsStore(s) \/ OnIdempotentAwardsSchemaReady(s)
           \/ Restart(s)
    PROVE  TypeOK'
<1>1. CASE Stimulus_OnMapStart(s)
  <2>1. queue' \in [Servers -> Seq(Requests)]
    BY <1>1, PurgeKind, AskOneTyped DEF Stimulus_OnMapStart
  <2> QED
    BY <1>1, <2>1 DEF Stimulus_OnMapStart, TypeOK, players, plugins, tables, redemptions
<1>2. CASE FinishMailSchemaReady(s)
  <2>1. queue' \in [Servers -> Seq(Requests)]
    BY <1>2, PurgeKind, AskOneTyped DEF FinishMailSchemaReady
  <2> QED
    BY <1>2, <2>1 DEF FinishMailSchemaReady, TypeOK, players, tables, redemptions
<1>3. CASE ReloadServerMail(s)
  <2>1. ChannelTyped'
    BY <1>3, OrphanTyped DEF ReloadServerMail, ChannelTyped, TypeOK
  <2>2. /\ pending' \in [Servers -> SUBSET Mails] /\ UNCHANGED store
        /\ \A other \in Servers : pending'[other] \subseteq pending[other]
    BY <1>3 DEF ReloadServerMail, TypeOK
  <2>3. mailReady' \in [Servers -> BOOLEAN] /\ checking' \subseteq Players
    BY <1>3 DEF ReloadServerMail, TypeOK
  <2>4. restarts' \in Nat /\ UNCHANGED <<players, tables, due, moves, failures>>
    BY <1>3 DEF ReloadServerMail, CountRestart, TypeOK
  <2>5. \A other \in Servers : store'[other] # "ready" => pending'[other] = {}
    BY <2>2 DEF TypeOK
  <2> QED
    BY <2>1, <2>2, <2>3, <2>4, <2>5 DEF ChannelTyped, TypeOK, players, tables
<1>4. CASE UnloadPointsStore(s)
  <2>1. ChannelTyped'
    BY <1>4, OrphanTyped DEF UnloadPointsStore, ChannelTyped, TypeOK
  <2>2. /\ pending' = [pending EXCEPT ![s] = {}]
        /\ store' = [store EXCEPT ![s] = "unloaded"]
    BY <1>4 DEF UnloadPointsStore, ForgetRedemptions
  <2>3. /\ pending' \in [Servers -> SUBSET Mails]
        /\ store' \in [Servers -> {"unloaded", "starting", "ready"}]
        /\ \A other \in Servers : store'[other] # "ready" => pending'[other] = {}
    BY <2>2 DEF TypeOK
  <2>4. restarts' \in Nat /\ UNCHANGED <<players, mailReady, checking, tables, due, moves, failures>>
    BY <1>4 DEF UnloadPointsStore, CountRestart, TypeOK
  <2> QED
    BY <2>1, <2>3, <2>4 DEF ChannelTyped, TypeOK, players, tables
<1>5. CASE LoadPointsStore(s)
  BY <1>5 DEF LoadPointsStore, TypeOK, players, redemptions, tables, channel
<1>6. CASE OnIdempotentAwardsSchemaReady(s)
  BY <1>6 DEF OnIdempotentAwardsSchemaReady, TypeOK, players, redemptions, tables, channel
<1>7. CASE Restart(s)
  BY <1>7 DEF Restart, CountRestart, TypeOK, tables
<1> QED
  BY <1>1, <1>2, <1>3, <1>4, <1>5, <1>6, <1>7

(* Every step keeps the types.                                              *)
LEMMA TypeStep == MailRedemptionAssumption /\ TypeOK /\ [Next]_vars => TypeOK'
<1> SUFFICES ASSUME MailRedemptionAssumption, TypeOK, [Next]_vars PROVE TypeOK'
  OBVIOUS
<1>1. CASE \E s \in Servers, p \in Players :
            \/ OnClientConnected(s, p) \/ Command_RedeemAll(s, p)
            \/ \E m \in Mails : BeginMailRedemption(s, p, m)
  BY <1>1, PlayersType
<1>2. CASE \E p \in Players : OnClientDisconnect(p)
  BY <1>2 DEF OnClientDisconnect, TypeOK, plugins, tables, channel
<1>3. CASE \E m \in Expiring : Expire(m)
  BY <1>3 DEF Expire, TypeOK, players, plugins, redemptions, tables, channel
<1>4. CASE \E s \in Servers :
            \/ Stimulus_OnMapStart(s) \/ ReloadServerMail(s) \/ FinishMailSchemaReady(s)
            \/ UnloadPointsStore(s) \/ LoadPointsStore(s) \/ OnIdempotentAwardsSchemaReady(s)
            \/ Restart(s)
  BY <1>4, PluginsType
<1>5. CASE \E s \in Servers : Execute(s)
  BY <1>5, ExecuteType
<1>6. CASE \E s \in Servers : Deliver(s)
  BY <1>6, DeliverType
<1>7. CASE UNCHANGED vars
  BY <1>7 DEF TypeOK, vars, players, plugins, redemptions, tables, channel
<1> QED
  BY <1>1, <1>2, <1>3, <1>4, <1>5, <1>6, <1>7, Zenon DEF Next

(* Every variable keeps its type, and nothing is pending on a server whose *)
(* points_store is not ready (OnLibraryRemoved forgets what was).          *)
THEOREM TypeCorrect == Spec => []TypeOK
<1>1. Init => TypeOK
  <2>1. \A S : << >> \in Seq(S)
    OBVIOUS
  <2> QED
    BY <2>1 DEF Init, TypeOK
<1> QED
  BY <1>1, TypeStep, MailRedemptionAssumption, PTL DEF Spec

------------------------------------------------------------------------------
(* What a server has under way changes only there.                          *)
LEMMA WireElsewhere ==
    ASSUME NEW s \in Servers, queue'[s] = queue[s], results'[s] = results[s]
    PROVE  Wire(s)' = Wire(s)
BY DEF Wire

(* Whatever adds requests and keeps pending mails pending keeps work under *)
(* way.                                                                    *)
LEMMA MoreWork ==
    ASSUME PendingHasWork, UNCHANGED <<pending, results>>,
           \A s \in Servers : ToSet(queue[s]) \subseteq ToSet(queue'[s])
    PROVE  PendingHasWork'
BY DEF PendingHasWork, Wire, Works

(* A server that forgets what is pending has nothing to work on.            *)
LEMMA ForgetsWork ==
    ASSUME TypeOK, PendingHasWork, NEW s \in Servers, pending' = [pending EXCEPT ![s] = {}],
           \A other \in Servers :
                other # s => queue'[other] = queue[other] /\ results'[other] = results[other]
    PROVE  PendingHasWork'
<1> SUFFICES ASSUME NEW other \in Servers, NEW m \in pending'[other]
             PROVE  \E req \in Wire(other)' : Works(req, m)
  BY DEF PendingHasWork, Works
<1>1. other # s /\ m \in pending[other]
  BY DEF TypeOK
<1>2. Wire(other)' = Wire(other)
  BY <1>1, WireElsewhere
<1> QED
  BY <1>1, <1>2 DEF PendingHasWork

(* A callback either releases a mail or goes on working on it.              *)
LEMMA DeliverWorks ==
    ASSUME MailRedemptionAssumption, TypeOK, PendingHasWork, NEW s \in Servers, Deliver(s)
    PROVE  PendingHasWork'
<1> DEFINE r == Head(results[s])
<1>1. /\ results[s] # << >> /\ results' = [results EXCEPT ![s] = Tail(@)]
  BY DeliverFollows
<1>2. PICK new : Follows(s, r, new)
  BY DeliverFollows
<1>3. /\ ToSet(results[s]) = {r} \union ToSet(results'[s])
      /\ \A other \in Servers : other # s => results'[other] = results[other]
  BY <1>1, NextResult DEF TypeOK
<1> HIDE DEF r
<1>4. /\ ToSet(queue'[s]) = ToSet(queue[s]) \union new
      /\ \A other \in Servers : other # s => queue'[other] = queue[other]
      /\ \A other \in Servers : other # s => pending'[other] = pending[other]
      /\ \A m \in pending'[s] : \/ m \in pending[s] /\ ~Works(r.request, m)
                               \/ \E req \in new : Works(req, m)
  BY <1>2 DEF Follows
<1>5. Wire(s) \subseteq {r.request} \union Wire(s)' /\ new \subseteq Wire(s)'
  BY <1>3, <1>4 DEF Wire
<1>6. ASSUME NEW m \in pending'[s] PROVE \E req \in Wire(s)' : Works(req, m)
  <2>1. CASE \E req \in new : Works(req, m)
    BY <1>5, <2>1
  <2>2. CASE m \in pending[s] /\ ~Works(r.request, m)
    <3>1. PICK req \in Wire(s) : Works(req, m)
      BY <2>2 DEF PendingHasWork
    <3> QED
      BY <1>5, <2>2, <3>1
  <2> QED
    BY <1>4, <2>1, <2>2
<1>7. ASSUME NEW other \in Servers, other # s, NEW m \in pending'[other]
      PROVE  \E req \in Wire(other)' : Works(req, m)
  <2>1. m \in pending[other] /\ Wire(other)' = Wire(other)
    BY <1>3, <1>4, <1>7, WireElsewhere
  <2> QED
    BY <2>1 DEF PendingHasWork
<1>8. ASSUME NEW other \in Servers, NEW m \in pending'[other]
      PROVE  \E req \in Wire(other)' : Works(req, m)
  BY <1>6, <1>7, <1>8
<1> QED
  BY <1>8 DEF PendingHasWork, Works

(* The worker answers whatever it takes from a plugin that is loaded.       *)
LEMMA ExecuteWorks ==
    ASSUME TypeOK, PendingHasWork, NEW s \in Servers, Execute(s)
    PROVE  PendingHasWork'
<1> DEFINE head == Head(queue[s])
<1>1. /\ ToSet(queue[s]) = {head} \union ToSet(queue'[s])
      /\ \A other \in Servers : other # s => queue'[other] = queue[other]
      /\ UNCHANGED pending
  BY ExecuteAnswers DEF redemptions
<1>2. PICK answer : Answers(s, head, answer)
  BY ExecuteAnswers
<1> HIDE DEF head
<1>3. /\ answer.request = head
      /\ ToSet(results[s]) \subseteq ToSet(results'[s])
      /\ head.caller # "nobody" => answer \in ToSet(results'[s])
      /\ \A other \in Servers : other # s => results'[other] = results[other]
  BY <1>2 DEF Answers
<1>4. ASSUME NEW req \in Wire(s), req.caller # "nobody" PROVE req \in Wire(s)'
  BY <1>1, <1>3, <1>4 DEF Wire
<1>5. \A other \in Servers : other # s => Wire(other)' = Wire(other)
  BY <1>1, <1>3, WireElsewhere
<1>6. ASSUME NEW other \in Servers, NEW m \in pending'[other]
      PROVE  \E req \in Wire(other)' : Works(req, m)
  <2>1. PICK req \in Wire(other) : Works(req, m)
    BY <1>1 DEF PendingHasWork
  <2>2. req.caller # "nobody"
    BY <2>1 DEF Works
  <2>3. req \in Wire(other)'
    BY <1>4, <1>5, <2>2
  <2> QED
    BY <2>1, <2>3
<1> QED
  BY <1>6 DEF PendingHasWork, Works

(* Every step keeps work under way for what is pending.                     *)
LEMMA WorkStep ==
    MailRedemptionAssumption /\ TypeOK /\ PendingHasWork /\ [Next]_vars => PendingHasWork'
<1> SUFFICES ASSUME MailRedemptionAssumption, TypeOK, PendingHasWork, [Next]_vars
             PROVE  PendingHasWork'
  OBVIOUS
<1>1. ASSUME UNCHANGED <<pending, queue, results>> PROVE PendingHasWork'
  BY <1>1, MoreWork
<1>2. ASSUME NEW s \in Servers, NEW req \in Requests, Ask(s, <<req>>),
             UNCHANGED <<pending, results>>
      PROVE  PendingHasWork'
  <2>1. \A other \in Servers : ToSet(queue[other]) \subseteq ToSet(queue'[other])
    BY <1>2, AskOneTyped
  <2> QED
    BY <1>2, <2>1, MoreWork
<1>3. CASE \E s \in Servers, p \in Players : OnClientConnected(s, p)
  BY <1>1, <1>3 DEF OnClientConnected, redemptions, channel
<1>4. CASE \E s \in Servers, p \in Players : Command_RedeemAll(s, p)
  BY <1>2, <1>4, VisitKind DEF Command_RedeemAll
<1>5. CASE \E s \in Servers, p \in Players, m \in Mails : BeginMailRedemption(s, p, m)
  BY <1>2, <1>5, VisitKind DEF BeginMailRedemption, redemptions
<1>6. CASE \E p \in Players : OnClientDisconnect(p)
  BY <1>1, <1>6 DEF OnClientDisconnect, channel
<1>7. CASE \E m \in Expiring : Expire(m)
  BY <1>1, <1>7 DEF Expire, redemptions, channel
<1>8. CASE \E s \in Servers : Stimulus_OnMapStart(s) \/ FinishMailSchemaReady(s)
  BY <1>2, <1>8, PurgeKind DEF Stimulus_OnMapStart, FinishMailSchemaReady, redemptions
<1>9. CASE \E s \in Servers : LoadPointsStore(s) \/ OnIdempotentAwardsSchemaReady(s)
  BY <1>1, <1>9 DEF LoadPointsStore, OnIdempotentAwardsSchemaReady, redemptions, channel
<1>10. CASE \E s \in Servers : ReloadServerMail(s) \/ UnloadPointsStore(s)
  <2>1. PICK s \in Servers : ReloadServerMail(s) \/ UnloadPointsStore(s)
    BY <1>10
  <2>2. pending' = [pending EXCEPT ![s] = {}]
    BY <2>1 DEF ReloadServerMail, UnloadPointsStore, ForgetRedemptions
  <2>3. \A other \in Servers :
            other # s => queue'[other] = queue[other] /\ results'[other] = results[other]
    BY <2>1 DEF ReloadServerMail, UnloadPointsStore, Orphan, TypeOK
  <2> QED
    BY <2>2, <2>3, ForgetsWork
<1>11. CASE \E s \in Servers : Restart(s)
  <2>1. PICK s \in Servers : Restart(s)
    BY <1>11
  <2>2. /\ pending' = [pending EXCEPT ![s] = {}]
        /\ \A other \in Servers :
            other # s => queue'[other] = queue[other] /\ results'[other] = results[other]
    BY <2>1 DEF Restart, TypeOK
  <2> QED
    BY <2>2, ForgetsWork
<1>12. CASE \E s \in Servers : Execute(s)
  BY <1>12, ExecuteWorks
<1>13. CASE \E s \in Servers : Deliver(s)
  BY <1>13, DeliverWorks
<1>14. CASE UNCHANGED vars
  BY <1>1, <1>14 DEF vars, redemptions, channel
<1> QED
  BY <1>3, <1>4, <1>5, <1>6, <1>7, <1>8, <1>9, <1>10, <1>11, <1>12, <1>13, <1>14, Zenon DEF Next

(* A mail that cannot be redeemed because it is "already being redeemed"   *)
(* always has a query under way whose callback goes on with it, on every   *)
(* server and through every failure, reload and restart.                    *)
THEOREM PendingIsWorkedOn == Spec => []PendingHasWork
<1>1. Init => PendingHasWork
  BY DEF Init, PendingHasWork
<1> QED
  BY <1>1, TypeCorrect, WorkStep, MailRedemptionAssumption, PTL DEF Spec

------------------------------------------------------------------------------
(* Why a mail is only marked once it is paid: the request to mark it, and  *)
(* the answer that leads to that request, are about a payment that stands. *)
Honest ==
    /\ RedeemedWerePaid
    /\ \A s \in Servers : \A req \in ToSet(queue[s]) : req.op = "mark" => req.mail \in paid
    /\ \A s \in Servers : \A r \in ToSet(results[s]) : Confirms(r) => r.request.mail \in paid

(* Payments stand, so what was honest stays so.                             *)
LEMMA HonestKept ==
    ASSUME Honest, paid \subseteq paid', RedeemedWerePaid',
           \A s \in Servers : \A req \in ToSet(queue'[s]) :
                req \in ToSet(queue[s]) \/ (req.op = "mark" => req.mail \in paid'),
           \A s \in Servers : \A r \in ToSet(results'[s]) :
                r \in ToSet(results[s]) \/ (Confirms(r) => r.request.mail \in paid')
    PROVE  Honest'
BY DEF Honest, Confirms

(* A statement is a step of the payments or changes nothing of them.        *)
LEMMA StatementPays ==
    ASSUME MailRedemptionAssumption, TypeOK, RedeemedWerePaid,
           NEW req \in Requests, req.op = "mark" => req.mail \in paid,
           Statement(req) \/ UNCHANGED tables
    PROVE  /\ [Payments!Next]_(Payments!vars)
           /\ RedeemedWerePaid' /\ paid \subseteq paid'
<1>1. CASE UNCHANGED tables
  BY <1>1 DEF tables, RedeemedWerePaid, Payments!vars
<1>2. CASE Statement(req) /\ req.op = "award"
  <2>1. req.mail \in Mails /\ Award(req.mail)
    BY <1>2, RequestKind DEF Statement, Steps
  <2> DEFINE m == req.mail
  <2>2. CASE KeyTaken(m) /\ UNCHANGED tables
    BY <1>1, <2>2
  <2>3. CASE /\ ~KeyTaken(m) /\ paid' = paid \union {m}
             /\ balance' = [balance EXCEPT ![Receiver[m]] = @ + Gems[m]]
             /\ UNCHANGED mail
    <3>1. Payments!Pay(m)
      BY <2>3 DEF KeyTaken, Payments!Pay
    <3>2. Payments!Next
      BY <2>1, <3>1 DEF Payments!Next
    <3> QED
      BY <2>3, <3>2 DEF RedeemedWerePaid
  <2> QED
    BY <2>1, <2>2, <2>3 DEF Award
<1>3. CASE Statement(req) /\ req.op = "mark"
  <2>1. req.mail \in Mails /\ Mark(req.mail) /\ req.mail \in paid
    BY <1>3, RequestKind DEF Statement, Steps
  <2> DEFINE m == req.mail
  <2>2. CASE mail[m] # "open"
    <3>1. UNCHANGED tables
      BY <2>1, <2>2 DEF Mark, tables
    <3> QED
      BY <1>1, <3>1
  <2>3. CASE mail[m] = "open"
    <3>1. mail' = [mail EXCEPT ![m] = "redeemed"] /\ UNCHANGED <<paid, balance>>
      BY <2>1, <2>3 DEF Mark
    <3>2. Payments!Redeem(m)
      BY <2>1, <2>3, <3>1 DEF Payments!Redeem
    <3>3. Payments!Next
      BY <2>1, <3>2 DEF Payments!Next
    <3>4. mail \in [Mails -> {"open", "redeemed", "lapsed"}]
      BY DEF TypeOK
    <3>5. RedeemedWerePaid'
      BY <2>1, <3>1, <3>4 DEF RedeemedWerePaid
    <3> QED
      BY <3>1, <3>3, <3>5
  <2> QED
    BY <2>2, <2>3
<1>4. CASE Statement(req) /\ req.op = "purge"
  <2> DEFINE chosen == {m \in Mails : m \in due /\ mail[m] = "open"}
  <2>1. CleanupExpiredMail
    BY <1>4 DEF Statement
  <2>2. /\ mail' = [m \in Mails |-> IF m \in chosen THEN "lapsed" ELSE mail[m]]
        /\ UNCHANGED <<paid, balance>>
    BY <2>1 DEF CleanupExpiredMail
  <2>3. chosen \in SUBSET Expiring /\ \A m \in chosen : mail[m] = "open"
    BY DEF TypeOK
  <2> HIDE DEF chosen
  <2>4. Payments!Lapse(chosen)
    BY <2>2, <2>3 DEF Payments!Lapse
  <2>5. Payments!Next
    BY <2>3, <2>4 DEF Payments!Next
  <2>6. RedeemedWerePaid'
    BY <2>2 DEF RedeemedWerePaid
  <2> QED
    BY <2>2, <2>5, <2>6
<1>5. CASE Statement(req) /\ req.op \notin {"award", "mark", "purge"}
  <2>1. UNCHANGED tables
    BY <1>5 DEF Statement
  <2> QED
    BY <1>1, <2>1
<1> QED
  BY <1>1, <1>2, <1>3, <1>4, <1>5

(* The worker of a server does one statement.                               *)
LEMMA ExecutePays ==
    ASSUME MailRedemptionAssumption, TypeOK, Honest, NEW s \in Servers, Execute(s)
    PROVE  Honest' /\ [Payments!Next]_(Payments!vars)
<1> DEFINE head == Head(queue[s])
<1>1. /\ head \in Requests
      /\ ToSet(queue[s]) = {head} \union ToSet(queue'[s])
      /\ \A other \in Servers : other # s => queue'[other] = queue[other]
      /\ Statement(head) \/ UNCHANGED tables
  BY ExecuteAnswers
<1>2. PICK answer : Answers(s, head, answer)
  BY ExecuteAnswers
<1> HIDE DEF head
<1>3. head.op = "mark" => head.mail \in paid
  BY <1>1 DEF Honest
<1>4. [Payments!Next]_(Payments!vars) /\ RedeemedWerePaid' /\ paid \subseteq paid'
  BY <1>1, <1>3, StatementPays DEF Honest
<1>5. \A other \in Servers : ToSet(queue'[other]) \subseteq ToSet(queue[other])
  BY <1>1
<1>6. /\ Confirms(answer) => answer.request.mail \in paid'
      /\ ToSet(results'[s]) \subseteq ToSet(results[s]) \union {answer}
      /\ \A other \in Servers : other # s => results'[other] = results[other]
  BY <1>2 DEF Answers
<1>7. Honest'
  BY <1>4, <1>5, <1>6, HonestKept
<1> QED
  BY <1>4, <1>7

(* A callback asks for a mark only after a payment that stands.             *)
LEMMA DeliverPays ==
    ASSUME MailRedemptionAssumption, TypeOK, Honest, NEW s \in Servers, Deliver(s)
    PROVE  Honest' /\ UNCHANGED tables
<1> DEFINE r == Head(results[s])
<1>1. /\ results[s] # << >> /\ results' = [results EXCEPT ![s] = Tail(@)] /\ Keeps
  BY DeliverFollows
<1>2. PICK new : Follows(s, r, new)
  BY DeliverFollows
<1>3. /\ ToSet(results[s]) = {r} \union ToSet(results'[s])
      /\ \A other \in Servers : other # s => results'[other] = results[other]
  BY <1>1, NextResult DEF TypeOK
<1> HIDE DEF r
<1>4. UNCHANGED <<mail, paid>> /\ RedeemedWerePaid'
  BY <1>1 DEF Keeps, tables, Honest, RedeemedWerePaid
<1>5. Confirms(r) => r.request.mail \in paid
  BY <1>3 DEF Honest
<1>6. /\ ToSet(queue'[s]) = ToSet(queue[s]) \union new
      /\ \A other \in Servers : other # s => queue'[other] = queue[other]
      /\ \A req \in new : req.op = "mark" => req.mail \in paid'
  BY <1>2, <1>4, <1>5 DEF Follows
<1>7. \A other \in Servers : ToSet(results'[other]) \subseteq ToSet(results[other])
  BY <1>3
<1>8. \A other \in Servers : \A req \in ToSet(queue'[other]) :
            req \in ToSet(queue[other]) \/ (req.op = "mark" => req.mail \in paid')
  BY <1>6
<1>9. Honest'
  BY <1>4, <1>7, <1>8, HonestKept
<1> QED
  BY <1>1, <1>9 DEF Keeps

(* Orphaned requests and results are about the same payments.               *)
LEMMA OrphanPays ==
    ASSUME TypeOK, Honest, NEW s \in Servers, NEW caller, Orphan(s, caller), UNCHANGED tables
    PROVE  Honest'
<1>1. /\ \A other \in Servers :
            other # s => queue'[other] = queue[other] /\ results'[other] = results[other]
      /\ \A new \in ToSet(queue'[s]) :
            \E req \in ToSet(queue[s]) : new = Orphaned(req, caller)
      /\ \A new \in ToSet(results'[s]) :
            \E r \in ToSet(results[s]) : new = OrphanedResult(r, caller)
  BY OrphanTyped DEF TypeOK, ChannelTyped
<1>2. UNCHANGED paid /\ RedeemedWerePaid'
  BY DEF tables, Honest, RedeemedWerePaid
<1>3. /\ \A req \in ToSet(queue[s]) : req \in Requests
      /\ \A r \in ToSet(results[s]) : r \in Results
  <2>1. queue[s] \in Seq(Requests) /\ results[s] \in Seq(Results)
    BY DEF TypeOK
  <2>2. /\ \A i \in DOMAIN queue[s] : queue[s][i] \in Requests
        /\ \A i \in DOMAIN results[s] : results[s][i] \in Results
    BY <2>1
  <2> QED
    BY <2>2 DEF ToSet
<1>4. ASSUME NEW new \in ToSet(queue'[s]), new.op = "mark" PROVE new.mail \in paid'
  <2>1. PICK req \in ToSet(queue[s]) : new = Orphaned(req, caller)
    BY <1>1
  <2>2. req \in Requests
    BY <1>3
  <2>3. new.op = req.op /\ (req \in Steps => new.mail = req.mail)
    BY <2>1, <2>2, OrphanKind
  <2>4. req \in Steps
    BY <1>4, <2>2, <2>3, RequestKind
  <2> QED
    BY <1>2, <1>4, <2>3, <2>4 DEF Honest
<1>5. ASSUME NEW new \in ToSet(results'[s]), Confirms(new) PROVE new.request.mail \in paid'
  <2>1. PICK r \in ToSet(results[s]) : new = OrphanedResult(r, caller)
    BY <1>1
  <2>2. r \in Results /\ r.request \in Requests
    BY <1>3 DEF Results
  <2>3. /\ new.request = Orphaned(r.request, caller)
        /\ new.outcome = r.outcome /\ new.found = r.found
    BY <2>1, <2>2 DEF OrphanedResult, Results
  <2>4. /\ new.request.op = r.request.op
        /\ r.request \in Steps => new.request.mail = r.request.mail
    BY <2>2, <2>3, OrphanKind
  <2>5. Confirms(r) /\ r.request \in Steps
    BY <1>5, <2>2, <2>3, <2>4, RequestKind DEF Confirms
  <2> QED
    BY <1>2, <2>4, <2>5 DEF Honest
<1>6. /\ \A other \in Servers : \A req \in ToSet(queue'[other]) :
            req \in ToSet(queue[other]) \/ (req.op = "mark" => req.mail \in paid')
      /\ \A other \in Servers : \A r \in ToSet(results'[other]) :
            r \in ToSet(results[other]) \/ (Confirms(r) => r.request.mail \in paid')
  BY <1>1, <1>4, <1>5
<1> QED
  BY <1>2, <1>6, HonestKept

(* Every step keeps honesty, and is a step of the payments or changes      *)
(* nothing of them.                                                        *)
LEMMA HonestStep ==
    MailRedemptionAssumption /\ TypeOK /\ Honest /\ [Next]_vars
        => Honest' /\ [Payments!Next]_(Payments!vars)
<1> DEFINE Goal == Honest' /\ [Payments!Next]_(Payments!vars)
<1> SUFFICES ASSUME MailRedemptionAssumption, TypeOK, Honest, [Next]_vars PROVE Goal
  OBVIOUS
<1>1. ASSUME UNCHANGED tables, Honest' PROVE Goal
  BY <1>1 DEF tables, Payments!vars
<1> HIDE DEF Goal
<1>2. ASSUME UNCHANGED <<tables, results>>,
             \A s \in Servers : \A req \in ToSet(queue'[s]) :
                req \in ToSet(queue[s]) \/ req.op # "mark"
      PROVE  Goal
  <2>1. UNCHANGED paid /\ RedeemedWerePaid'
    BY <1>2 DEF tables, Honest, RedeemedWerePaid
  <2>2. Honest'
    BY <1>2, <2>1, HonestKept
  <2> QED
    BY <1>1, <1>2, <2>2
<1>3. ASSUME UNCHANGED <<tables, results, queue>> PROVE Goal
  BY <1>2, <1>3
<1>4. ASSUME NEW s \in Servers, NEW req \in Requests, req.op # "mark", Ask(s, <<req>>),
             UNCHANGED <<tables, results>>
      PROVE  Goal
  <2>1. /\ ToSet(queue'[s]) = ToSet(queue[s]) \union {req}
        /\ \A other \in Servers : other # s => queue'[other] = queue[other]
    BY <1>4, AskOneTyped
  <2> QED
    BY <1>2, <1>4, <2>1
<1>5. CASE \E s \in Servers, p \in Players : OnClientConnected(s, p)
  BY <1>3, <1>5 DEF OnClientConnected, channel
<1>6. CASE \E s \in Servers, p \in Players : Command_RedeemAll(s, p)
  BY <1>4, <1>6, VisitKind DEF Command_RedeemAll
<1>7. CASE \E s \in Servers, p \in Players, m \in Mails : BeginMailRedemption(s, p, m)
  BY <1>4, <1>7, VisitKind DEF BeginMailRedemption
<1>8. CASE \E p \in Players : OnClientDisconnect(p)
  BY <1>3, <1>8 DEF OnClientDisconnect, channel
<1>9. CASE \E m \in Expiring : Expire(m)
  BY <1>3, <1>9 DEF Expire, channel
<1>10. CASE \E s \in Servers : Stimulus_OnMapStart(s) \/ FinishMailSchemaReady(s)
  BY <1>4, <1>10, PurgeKind DEF Stimulus_OnMapStart, FinishMailSchemaReady
<1>11. CASE \E s \in Servers : LoadPointsStore(s) \/ OnIdempotentAwardsSchemaReady(s)
  BY <1>3, <1>11 DEF LoadPointsStore, OnIdempotentAwardsSchemaReady, channel
<1>12. CASE \E s \in Servers : ReloadServerMail(s) \/ UnloadPointsStore(s)
  <2>1. PICK s \in Servers, caller \in Callers : Orphan(s, caller) /\ UNCHANGED tables
    BY <1>12 DEF ReloadServerMail, UnloadPointsStore, Callers
  <2> QED
    BY <1>1, <2>1, OrphanPays
<1>13. CASE \E s \in Servers : Restart(s)
  <2>1. PICK s \in Servers : Restart(s)
    BY <1>13
  <2>2. /\ UNCHANGED tables /\ queue'[s] = << >> /\ results'[s] = << >>
        /\ \A other \in Servers :
            other # s => queue'[other] = queue[other] /\ results'[other] = results[other]
    BY <2>1 DEF Restart, TypeOK
  <2>3. ToSet(<< >>) = {}
    BY DEF ToSet
  <2>4. UNCHANGED paid /\ RedeemedWerePaid'
    BY <2>2 DEF tables, Honest, RedeemedWerePaid
  <2>5. Honest'
    BY <2>2, <2>3, <2>4, HonestKept
  <2> QED
    BY <1>1, <2>2, <2>5
<1>14. CASE \E s \in Servers : Execute(s)
  BY <1>14, ExecutePays DEF Goal
<1>15. CASE \E s \in Servers : Deliver(s)
  BY <1>1, <1>15, DeliverPays
<1>16. CASE UNCHANGED vars
  BY <1>3, <1>16 DEF vars, channel
<1> QED
  BY <1>5, <1>6, <1>7, <1>8, <1>9, <1>10, <1>11, <1>12, <1>13, <1>14, <1>15, <1>16, Zenon
  DEF Next

(* Before anything is asked there is nothing to be dishonest about.         *)
LEMMA HonestInit == Init => Honest /\ Payments!Init
BY DEF Init, Honest, RedeemedWerePaid, ToSet, Payments!Init

(* A mail is shown as redeemed only when its gems were paid, whichever of  *)
(* the two plugins or of the servers was reloaded or lost in between.      *)
THEOREM RedeemedWasPaid == Spec => []RedeemedWerePaid
<1>1. Honest => RedeemedWerePaid
  BY DEF Honest
<1> QED
  BY <1>1, HonestInit, HonestStep, TypeCorrect, MailRedemptionAssumption, PTL DEF Spec

(* Redemption implements the payments it promises: for every number of     *)
(* servers a mail is paid at most once, exactly its gems, to its receiver. *)
THEOREM PaymentsAreImplemented == Spec => ImplementsPayments
BY HonestInit, HonestStep, TypeCorrect, MailRedemptionAssumption, PTL
DEF Spec, ImplementsPayments, Payments!Spec
=============================================================================
