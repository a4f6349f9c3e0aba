------------------------- MODULE BountyTargetsProofs -------------------------
(***************************************************************************)
(* What holds of the list of hunted players for every number of players,   *)
(* placements, refused refreshes and lost connections.                     *)
(***************************************************************************)
EXTENDS BountyTargets, FiniteSetTheorems, SequenceTheorems, TLAPS

USE BountyTargetsAssumption

(* The kinds of request, told apart by op.                                 *)
Refreshes == [op : {"refresh"}, connection : Nat, generation : Nat]
Changes == [op : {"place", "settle"}, player : Players]

(* A request that is not a refresh is a change of some player's bounty.     *)
LEMMA RequestKind ==
    ASSUME NEW r \in Requests
    PROVE  /\ r.op = "refresh" => r \in Refreshes
           /\ r.op \in {"place", "settle"} => r \in Changes
           /\ r.op \in {"place", "settle", "refresh"}
BY DEF Requests, Refreshes, Changes

(* A set of players has a size, and marking one more does not shrink it.   *)
LEMMA ListSize ==
    ASSUME NEW T, T \subseteq Players
    PROVE  Cardinality(T) \in Nat
BY FS_Subset, FS_CardinalityType

(* Marking an announced target keeps the count within the list.             *)
LEMMA MarkedSize ==
    ASSUME NEW p \in Players, targets \subseteq Players, count \in 0..Cardinality(targets)
    PROVE  /\ Marked(p) \subseteq Players
           /\ count \in 0..Cardinality(Marked(p))
<1>1. IsFiniteSet(targets)
  BY FS_Subset
<1>2. /\ Cardinality(targets) \in Nat
      /\ Cardinality(targets \union {p}) \in Nat
      /\ Cardinality(targets) <= Cardinality(targets \union {p})
  BY <1>1, FS_AddElement, FS_CardinalityType
<1> QED
  BY <1>2 DEF Marked

------------------------------------------------------------------------------
(* Asking for a refresh keeps its variables well formed, and adds at most  *)
(* one refresh, of the generation given, to the queue.                     *)
RefreshTyped ==
    /\ refreshPending \in BOOLEAN /\ refreshQueued \in BOOLEAN
    /\ timer \in BOOLEAN /\ recent \in BOOLEAN
    /\ queue \in Seq(Requests)

Asked(gen) ==
    \/ UNCHANGED queue
    \/ queue' = Append(queue,
            [op |-> "refresh", connection |-> connection, generation |-> gen])

(* Starting a refresh keeps the types of what it writes.                    *)
LEMMA StartTyped ==
    ASSUME TypeOK, NEW gen \in Nat, StartActiveBountyCacheRefresh(gen), timer' \in BOOLEAN
    PROVE  RefreshTyped' /\ Asked(gen)
<1> DEFINE req == [op |-> "refresh", connection |-> connection, generation |-> gen]
<1>1. req \in Requests
  BY DEF TypeOK, Requests
<1>2. queue' = Append(queue, req)
  BY DEF StartActiveBountyCacheRefresh
<1>3. Asked(gen)
  BY <1>2 DEF Asked
<1> HIDE DEF req
<1>4. queue \in Seq(Requests)
  BY DEF TypeOK
<1>5. queue' \in Seq(Requests)
  BY <1>1, <1>2, <1>4, AppendProperties
<1> QED
  BY <1>3, <1>5 DEF StartActiveBountyCacheRefresh, RefreshTyped

(* Asking for a refresh keeps the types of what it writes.                  *)
LEMMA RefreshTypedOK ==
    ASSUME TypeOK, NEW underWay \in BOOLEAN, NEW gen \in Nat,
           RefreshActiveBountyTargets(underWay, gen)
    PROVE  RefreshTyped' /\ Asked(gen)
<1>1. CASE StartActiveBountyCacheRefresh(gen) /\ UNCHANGED timer
  BY <1>1, StartTyped DEF TypeOK
<1>2. CASE UNCHANGED queue /\ refreshPending' = underWay
           /\ refreshQueued' \in BOOLEAN /\ timer' \in BOOLEAN /\ UNCHANGED recent
  BY <1>2 DEF TypeOK, RefreshTyped, Asked
<1>3. refreshQueued \in BOOLEAN /\ timer \in BOOLEAN
  BY DEF TypeOK
<1> QED
  BY <1>1, <1>2, <1>3 DEF RefreshActiveBountyTargets

(* A refresh that cannot start leaves the worker's queue alone.             *)
LEMMA NothingAsked ==
    ASSUME TypeOK, UNCHANGED <<refresh, queue>>
    PROVE  RefreshTyped' /\ \A gen : Asked(gen)
BY DEF TypeOK, refresh, RefreshTyped, Asked

------------------------------------------------------------------------------
(* Queues as sets of what is in them.                                      *)
Members(q) == {q[i] : i \in DOMAIN q}

(* What a queue holds is its head and its tail.                             *)
LEMMA HeadTail ==
    ASSUME NEW S, NEW q \in Seq(S), q # << >>
    PROVE  /\ Head(q) \in S /\ Tail(q) \in Seq(S)
           /\ Head(q) \in Members(q) /\ Members(Tail(q)) \subseteq Members(q)
<1>1. Head(q) \in S /\ Tail(q) \in Seq(S) /\ Head(q) = q[1] /\ Len(q) # 0
  BY HeadTailProperties, EmptySeq
<1>2. \A i \in 1..Len(Tail(q)) : Tail(q)[i] = q[i + 1] /\ i + 1 \in 1..Len(q)
  BY HeadTailProperties
<1>3. DOMAIN q = 1..Len(q) /\ DOMAIN Tail(q) = 1..Len(Tail(q)) /\ Len(q) \in Nat
  BY <1>1
<1> QED
  BY <1>1, <1>2, <1>3 DEF Members

(* Appending adds one element to a queue.                                   *)
LEMMA Appended ==
    ASSUME NEW S, NEW q \in Seq(S), NEW e \in S
    PROVE  Append(q, e) \in Seq(S) /\ Members(Append(q, e)) \subseteq Members(q) \union {e}
<1>1. /\ Append(q, e) \in Seq(S) /\ Len(Append(q, e)) = Len(q) + 1 /\ Len(q) \in Nat
      /\ \A i \in 1..Len(q) : Append(q, e)[i] = q[i]
      /\ Append(q, e)[Len(q) + 1] = e
  BY AppendProperties
<1>2. DOMAIN Append(q, e) = 1..(Len(q) + 1) /\ DOMAIN q = 1..Len(q)
  BY <1>1
<1>3. \A i \in 1..(Len(q) + 1) : i \in 1..Len(q) \/ i = Len(q) + 1
  BY <1>1
<1> QED
  BY <1>1, <1>2, <1>3 DEF Members

------------------------------------------------------------------------------
(* Type correctness, one lemma per callback that does more than ask.       *)

(* The result delivered next has the type of a result.                      *)
LEMMA NextResult ==
    ASSUME TypeOK, NEW op, Taken(op)
    PROVE  /\ Head(results) \in Results /\ Head(results) \in Members(results)
           /\ Head(results).request \in Requests /\ Head(results).ok \in BOOLEAN
           /\ Head(results).players \subseteq Players
           /\ Head(results).request.op = op
           /\ results' \in Seq(Results) /\ Members(results') \subseteq Members(results)
<1>1. results \in Seq(Results) /\ results # << >> /\ results' = Tail(results)
  BY DEF TypeOK, Taken
<1>2. Head(results) \in Results
  BY <1>1, HeadTail
<1> QED
  BY <1>1, <1>2, HeadTail DEF Taken, Results

(* The placement callback keeps the types.                                  *)
LEMMA PlacedType == TypeOK /\ OnBountyPlaced => TypeOK'
<1> SUFFICES ASSUME TypeOK, OnBountyPlaced PROVE TypeOK'
  OBVIOUS
<1> DEFINE p == Head(results).request.player
<1>1. results' \in Seq(Results) /\ p \in Players
  BY NextResult, RequestKind DEF OnBountyPlaced, Changes
<1>2. CASE UNCHANGED <<targets, generation, refresh, queue, confirmed>>
  BY <1>1, <1>2 DEF OnBountyPlaced, TypeOK, database, refresh, bounds
<1>3. CASE /\ targets' = Marked(p)
           /\ generation' = generation + 1
           /\ confirmed' = confirmed \union ({p} \intersect active)
           /\ RefreshActiveBountyTargets(refreshPending, generation + 1)
  <2>1. RefreshTyped'
    BY <1>3, RefreshTypedOK DEF TypeOK
  <2>2. targets' \subseteq Players /\ count' \in 0..Cardinality(targets')
    BY <1>1, <1>3, MarkedSize DEF OnBountyPlaced, TypeOK
  <2> QED
    BY <1>1, <1>3, <2>1, <2>2 DEF OnBountyPlaced, TypeOK, RefreshTyped, database, bounds
<1> QED
  BY <1>2, <1>3 DEF OnBountyPlaced

(* The settlement callback keeps the types.                                 *)
LEMMA SettledType == TypeOK /\ OnBountySettled => TypeOK'
<1> SUFFICES ASSUME TypeOK, OnBountySettled PROVE TypeOK'
  OBVIOUS
<1>1. results' \in Seq(Results)
  BY NextResult DEF OnBountySettled
<1>2. RefreshTyped'
  BY RefreshTypedOK, NothingAsked DEF OnBountySettled, TypeOK
<1> QED
  BY <1>1, <1>2 DEF OnBountySettled, TypeOK, RefreshTyped, database, cache, bounds

(* The refresh callback keeps the types.                                    *)
LEMMA LoadedType == TypeOK /\ OnActiveBountyTargetsLoaded => TypeOK'
<1> SUFFICES ASSUME TypeOK, OnActiveBountyTargetsLoaded PROVE TypeOK'
  OBVIOUS
<1> DEFINE r == Head(results)
<1>1. results' \in Seq(Results) /\ r.players \subseteq Players
  BY NextResult DEF OnActiveBountyTargetsLoaded
<1>2. RefreshTyped'
  <2>1. CASE UNCHANGED <<refresh, queue>>
    BY <2>1, NothingAsked
  <2>2. CASE RefreshActiveBountyTargets(FALSE, generation)
    BY <2>2, RefreshTypedOK DEF TypeOK
  <2>3. CASE refreshPending' = FALSE /\ UNCHANGED <<refreshQueued, timer, recent, queue>>
    BY <2>3 DEF TypeOK, RefreshTyped
  <2> QED
    BY <2>1, <2>2, <2>3 DEF OnActiveBountyTargetsLoaded, OnRefused
<1>3. targets' \subseteq Players /\ count' \in 0..Cardinality(targets')
  <2>1. CASE UNCHANGED cache
    BY <2>1 DEF TypeOK, cache
  <2>2. CASE targets' = r.players /\ count' = Cardinality(r.players)
    BY <1>1, <2>2, ListSize
  <2> QED
    BY <2>1, <2>2 DEF OnActiveBountyTargetsLoaded
<1> QED
  BY <1>1, <1>2, <1>3 DEF OnActiveBountyTargetsLoaded, TypeOK, RefreshTyped, database, bounds

(* What the worker leaves behind.                                          *)
LEMMA ExecuteType == TypeOK /\ Execute => TypeOK'
<1> SUFFICES ASSUME TypeOK, Execute PROVE TypeOK'
  OBVIOUS
<1> DEFINE req == Head(queue)
<1>1. queue \in Seq(Requests) /\ queue # << >> /\ results \in Seq(Results)
  BY DEF TypeOK, Execute
<1>2. req \in Requests /\ queue' \in Seq(Requests)
  BY <1>1, HeadTail DEF Execute
<1>3. ASSUME NEW ok \in BOOLEAN, NEW players \in SUBSET Players, Answer(req, ok, players)
      PROVE  results' \in Seq(Results)
  <2> DEFINE r == [request |-> req, ok |-> ok, players |-> players]
  <2>1. r \in Results
    BY <1>2 DEF Results
  <2>2. results' = Append(results, r)
    BY <1>3 DEF Answer
  <2> HIDE DEF r
  <2> QED
    BY <1>1, <2>1, <2>2, Appended
<1>4. CASE req.op = "place"
  <2>1. req.player \in Players
    BY <1>2, <1>4, RequestKind DEF Changes
  <2>2. results' \in Seq(Results)
    <3>1. Answer(req, TRUE, {req.player}) \/ Answer(req, TRUE, {})
      BY <1>4 DEF Execute
    <3>2. {req.player} \in SUBSET Players /\ {} \in SUBSET Players
      BY <2>1
    <3> QED
      BY <1>3, <3>1, <3>2
  <2>3. active' \subseteq Players /\ active \subseteq active' /\ UNCHANGED <<failures, confirmed>>
    BY <1>4, <2>1 DEF Execute, TypeOK
  <2> QED
    BY <1>2, <2>2, <2>3 DEF Execute, TypeOK, database, cache, refresh
<1>5. CASE req.op = "settle"
  <2>1. req.player \in Players
    BY <1>2, <1>5, RequestKind DEF Changes
  <2>2. results' \in Seq(Results)
    <3>1. Answer(req, TRUE, {req.player} \intersect active)
      BY <1>5 DEF Execute
    <3>2. {req.player} \intersect active \in SUBSET Players
      BY <2>1
    <3> QED
      BY <1>3, <3>1, <3>2
  <2>3. active' \subseteq Players /\ confirmed' \subseteq active' /\ UNCHANGED failures
    BY <1>5, <2>1 DEF Execute, TypeOK
  <2> QED
    BY <1>2, <2>2, <2>3 DEF Execute, TypeOK, database, cache, refresh
<1>6. CASE req.op = "refresh"
  <2>1. results' \in Seq(Results)
    <3>1. Answer(req, TRUE, active) \/ Answer(req, FALSE, {})
      BY <1>6 DEF Execute
    <3>2. active \in SUBSET Players /\ {} \in SUBSET Players
      BY DEF TypeOK
    <3> QED
      BY <1>3, <3>1, <3>2
  <2>2. failures' \in Nat
    <3>1. failures' = failures \/ failures' = failures + 1
      BY <1>6 DEF Execute
    <3> QED
      BY <3>1 DEF TypeOK
  <2>3. UNCHANGED <<active, confirmed>>
    BY <1>6 DEF Execute
  <2> QED
    BY <1>2, <2>1, <2>2, <2>3 DEF Execute, TypeOK, database, cache, refresh
<1> QED
  BY <1>2, <1>4, <1>5, <1>6, RequestKind

(* Every step keeps the types.                                              *)
LEMMA TypeStep == TypeOK /\ [Next]_vars => TypeOK'
<1> SUFFICES ASSUME TypeOK, [Next]_vars PROVE TypeOK'
  OBVIOUS
<1>1. CASE Elapse
  BY <1>1 DEF Elapse, TypeOK, database, cache, bounds
<1>2. CASE Timer_RefreshBountyCache
  <2>1. RefreshTyped'
    BY <1>2, StartTyped DEF Timer_RefreshBountyCache, TypeOK, RefreshTyped
  <2> QED
    BY <1>2, <2>1 DEF Timer_RefreshBountyCache, TypeOK, RefreshTyped, database, cache, bounds
<1>3. CASE Timer_BountyMaintenance
  <2>1. RefreshTyped'
    BY <1>3, RefreshTypedOK DEF Timer_BountyMaintenance, TypeOK
  <2> QED
    BY <1>3, <2>1 DEF Timer_BountyMaintenance, TypeOK, RefreshTyped, database, cache, bounds
<1>4. ASSUME NEW op \in {"place", "settle"}, NEW p \in Players, QueueChange(op, p)
      PROVE  TypeOK'
  <2>1. [op |-> op, player |-> p] \in Requests
    BY DEF Requests
  <2>2. queue' \in Seq(Requests)
    BY <1>4, <2>1, Appended DEF QueueChange, TypeOK
  <2> QED
    BY <1>4, <2>2 DEF QueueChange, CountMove, TypeOK, database, cache, refresh
<1>5. ASSUME NEW p \in Players, Lapse(p)
      PROVE  TypeOK'
  BY <1>5 DEF Lapse, CountMove, TypeOK, database, cache, refresh
<1>6. CASE ConnectDatabase
  <2>1. 0 \in 0..Cardinality(targets)
    BY ListSize DEF TypeOK
  <2> QED
    <3>1. count' \in 0..Cardinality(targets')
      BY <1>6, <2>1 DEF ConnectDatabase
    <3>2. connection' \in Nat /\ generation' \in Nat
      BY <1>6 DEF ConnectDatabase, TypeOK
    <3>3. /\ ready' \in BOOLEAN /\ refreshPending' \in BOOLEAN
          /\ refreshQueued' \in BOOLEAN /\ timer' \in BOOLEAN /\ recent' \in BOOLEAN
      BY <1>6 DEF ConnectDatabase
    <3>4. UNCHANGED <<targets, active, queue, results, moves, failures, confirmed>>
      BY <1>6 DEF ConnectDatabase, bounds
    <3> QED
      BY <3>1, <3>2, <3>3, <3>4 DEF TypeOK
<1>7. CASE FinishBountySchemaColumnCheck
  <2>1. RefreshTyped'
    BY <1>7, StartTyped DEF FinishBountySchemaColumnCheck, TypeOK
  <2> QED
    BY <1>7, <2>1 DEF FinishBountySchemaColumnCheck, TypeOK, RefreshTyped, cache, bounds
<1>8. CASE Execute
  BY <1>8, ExecuteType
<1>9. CASE Deliver
  BY <1>9, PlacedType, SettledType, LoadedType DEF Deliver
<1>10. CASE UNCHANGED vars
  BY <1>10 DEF vars, TypeOK, database, cache, refresh, bounds
<1>11. CASE \E op \in {"place", "settle"}, p \in Players : QueueChange(op, p)
  BY <1>4, <1>11
<1>12. CASE \E p \in Players : Lapse(p)
  BY <1>5, <1>12
<1> QED
  BY <1>1, <1>2, <1>3, <1>6, <1>7, <1>8, <1>9, <1>10, <1>11, <1>12, Zenon DEF Next

(* Every variable of the list keeps its type, and the count of hunted      *)
(* players never exceeds the players on the list.                          *)
THEOREM TypeCorrect == Spec => []TypeOK
<1>1. Init => TypeOK
  <2> SUFFICES ASSUME Init PROVE TypeOK
    OBVIOUS
  <2>1. Cardinality({}) = 0
    BY FS_EmptySet
  <2>2. count \in 0..Cardinality(targets)
    BY <2>1 DEF Init
  <2>3. queue \in Seq(Requests) /\ results \in Seq(Results)
    BY DEF Init
  <2> QED
    BY <2>2, <2>3 DEF Init, TypeOK
<1> QED
  BY <1>1, TypeStep, PTL DEF Spec

------------------------------------------------------------------------------
(* RefreshIsServed is inductive once it is known that nobody waits while   *)
(* there is no connection.                                                 *)
Served == RefreshIsServed /\ (~ready => ~refreshQueued)

(* Asking for a refresh leaves nobody waiting unserved.                     *)
LEMMA RefreshServes ==
    ASSUME Served, NEW gen, UNCHANGED ready,
           \/ RefreshActiveBountyTargets(refreshPending, gen)
           \/ ready /\ RefreshActiveBountyTargets(FALSE, gen)
    PROVE  Served'
BY DEF Served, RefreshIsServed, RefreshActiveBountyTargets, StartActiveBountyCacheRefresh

(* A step that leaves the refresh flags alone leaves nobody unserved.       *)
LEMMA IdleServes ==
    ASSUME Served, UNCHANGED <<ready, refresh>>
    PROVE  Served'
BY DEF Served, RefreshIsServed, refresh

(* Every step keeps waiters served.                                         *)
LEMMA ServedStep == Served /\ [Next]_vars => Served'
<1> SUFFICES ASSUME Served, [Next]_vars PROVE Served'
  OBVIOUS
<1>1. CASE Elapse
  BY <1>1 DEF Elapse, Served, RefreshIsServed, database
<1>2. CASE Timer_RefreshBountyCache
  BY <1>2 DEF Timer_RefreshBountyCache, StartActiveBountyCacheRefresh, Served,
      RefreshIsServed, database
<1>3. CASE Timer_BountyMaintenance
  BY <1>3, RefreshServes DEF Timer_BountyMaintenance, database
<1>4. ASSUME NEW op, NEW p, QueueChange(op, p) \/ Lapse(p)
      PROVE  Served'
  BY <1>4, IdleServes DEF QueueChange, Lapse, database
<1>5. CASE ConnectDatabase
  BY <1>5 DEF ConnectDatabase, Served, RefreshIsServed
<1>6. CASE FinishBountySchemaColumnCheck
  BY <1>6 DEF FinishBountySchemaColumnCheck, StartActiveBountyCacheRefresh, Served,
      RefreshIsServed
<1>7. CASE Execute
  BY <1>7, IdleServes DEF Execute, database
<1>8. CASE OnBountyPlaced
  <2>1. UNCHANGED ready
    BY <1>8 DEF OnBountyPlaced, database
  <2>2. \/ UNCHANGED refresh
        \/ RefreshActiveBountyTargets(refreshPending, generation + 1)
    BY <1>8 DEF OnBountyPlaced
  <2> QED
    BY <2>1, <2>2, IdleServes, RefreshServes
<1>9. CASE OnBountySettled
  <2>1. UNCHANGED ready
    BY <1>9 DEF OnBountySettled, database
  <2>2. \/ UNCHANGED refresh
        \/ RefreshActiveBountyTargets(refreshPending, generation)
    BY <1>9 DEF OnBountySettled
  <2> QED
    BY <2>1, <2>2, IdleServes, RefreshServes
<1>10. CASE OnActiveBountyTargetsLoaded
  <2>1. UNCHANGED ready
    BY <1>10 DEF OnActiveBountyTargetsLoaded, database
  <2>2. \/ UNCHANGED refresh
        \/ ready /\ RefreshActiveBountyTargets(FALSE, generation)
        \/ ~refreshQueued /\ refreshPending' = FALSE /\ UNCHANGED <<refreshQueued, timer>>
    BY <1>10 DEF OnActiveBountyTargetsLoaded, OnRefused, IsOurs
  <2>3. CASE ~refreshQueued /\ refreshPending' = FALSE /\ UNCHANGED <<refreshQueued, timer>>
    BY <2>1, <2>3 DEF Served, RefreshIsServed
  <2> QED
    BY <2>1, <2>2, <2>3, IdleServes, RefreshServes
<1>11. CASE UNCHANGED vars
  BY <1>11, IdleServes DEF vars, database
<1>12. CASE \E op \in {"place", "settle"}, p \in Players : QueueChange(op, p)
  BY <1>4, <1>12
<1>13. CASE \E p \in Players : Lapse(p)
  BY <1>4, <1>13
<1> QED
  BY <1>1, <1>2, <1>3, <1>5, <1>6, <1>7, <1>8, <1>9, <1>10, <1>11, <1>12, <1>13, Zenon
  DEF Next, Deliver

(* A refresh that had to wait is never forgotten: the SELECT that is out   *)
(* or the timer that is set will start it, through refused queries and     *)
(* lost connections.                                                       *)
THEOREM WaitersAreServed == Spec => []RefreshIsServed
<1>1. Init => Served
  BY DEF Init, Served, RefreshIsServed
<1>2. Served => RefreshIsServed
  BY DEF Served
<1> QED
  BY <1>1, <1>2, ServedStep, PTL DEF Spec

------------------------------------------------------------------------------
(* AnnouncedIsListed is inductive together with what is known of the       *)
(* answers on their way: none is of a later generation than the list's,    *)
(* and one of the list's own holds every announced target, because a       *)
(* target announced after the answer was computed ended that generation.   *)
Aged(req) == req.op = "refresh" => req.generation <= generation
Complete(r) ==
    r.request.op = "refresh" /\ r.ok /\ r.request.generation = generation
        => confirmed \subseteq r.players
Listed ==
    /\ confirmed \subseteq targets
    /\ \A req \in Members(queue) : Aged(req)
    /\ \A r \in Members(results) : Aged(r.request) /\ Complete(r)

(* A step that forgets announcements, or ends the generation, and keeps    *)
(* the announced targets on the list.                                      *)
LEMMA ListedKept ==
    ASSUME TypeOK, Listed, TypeOK',
           confirmed' \subseteq targets',
           \/ generation' = generation /\ confirmed' \subseteq confirmed
           \/ generation' = generation + 1,
           Members(results') \subseteq Members(results),
           \A req \in Members(queue') : req \in Members(queue) \/ Aged(req)'
    PROVE  Listed'
<1>1. generation \in Nat
  BY DEF TypeOK
<1>2. ASSUME NEW req \in Requests, Aged(req) PROVE Aged(req)'
  <2>1. CASE req.op = "refresh"
    <3>1. req.generation \in Nat
      BY <2>1, RequestKind DEF Refreshes
    <3> QED
      BY <1>1, <1>2, <2>1, <3>1 DEF Aged
  <2> QED
    BY <2>1 DEF Aged
<1>3. \A r \in Members(results) : r \in Results
  BY DEF TypeOK, Members
<1>4. \A req \in Members(queue) : req \in Requests
  BY DEF TypeOK, Members
<1>5. ASSUME NEW r \in Members(results') PROVE Aged(r.request)' /\ Complete(r)'
  <2>1. r \in Members(results) /\ r.request \in Requests
    BY <1>3, <1>5 DEF Results
  <2>2. Aged(r.request) /\ Complete(r)
    BY <2>1 DEF Listed
  <2>3. CASE r.request.op = "refresh"
    <3>1. r.request.generation \in Nat /\ r.request.generation <= generation
      BY <2>1, <2>2, <2>3, RequestKind DEF Refreshes, Aged
    <3> QED
      BY <1>1, <1>2, <2>1, <2>2, <3>1 DEF Complete
  <2> QED
    BY <1>2, <2>1, <2>2, <2>3 DEF Complete
<1> QED
  BY <1>2, <1>4, <1>5 DEF Listed

(* Asking for a refresh keeps answers no younger than their question.       *)
LEMMA AskedAged ==
    ASSUME TypeOK, NEW gen \in Nat, gen <= generation', Asked(gen)
    PROVE  \A req \in Members(queue') : req \in Members(queue) \/ Aged(req)'
<1> DEFINE new == [op |-> "refresh", connection |-> connection, generation |-> gen]
<1>1. new \in Requests /\ new.generation <= generation'
  BY DEF TypeOK, Requests
<1>2. queue' = queue \/ queue' = Append(queue, new)
  BY DEF Asked
<1> HIDE DEF new
<1>3. Members(queue') \subseteq Members(queue) \union {new}
  BY <1>1, <1>2, Appended DEF TypeOK
<1> QED
  BY <1>1, <1>3 DEF Aged

(* The placement callback keeps announced targets listed.                   *)
LEMMA PlacedListed == TypeOK /\ TypeOK' /\ Listed /\ OnBountyPlaced => Listed'
<1> SUFFICES ASSUME TypeOK, TypeOK', Listed, OnBountyPlaced PROVE Listed'
  OBVIOUS
<1> DEFINE p == Head(results).request.player
<1>1. Members(results') \subseteq Members(results)
  BY NextResult DEF OnBountyPlaced
<1>2. CASE UNCHANGED <<targets, generation, refresh, queue, confirmed>>
  BY <1>1, <1>2, ListedKept DEF Listed
<1>3. CASE /\ targets' = Marked(p)
           /\ generation' = generation + 1
           /\ confirmed' = confirmed \union ({p} \intersect active)
           /\ RefreshActiveBountyTargets(refreshPending, generation + 1)
  <2>1. confirmed' \subseteq targets'
    BY <1>3 DEF Marked, Listed
  <2>2. generation + 1 \in Nat /\ generation + 1 <= generation'
    BY <1>3 DEF TypeOK
  <2>3. Asked(generation + 1)
    BY <1>3, <2>2, RefreshTypedOK DEF TypeOK
  <2>4. \A req \in Members(queue') : req \in Members(queue) \/ Aged(req)'
    BY <2>2, <2>3, AskedAged
  <2> QED
    BY <1>1, <1>3, <2>1, <2>4, ListedKept
<1> QED
  BY <1>2, <1>3 DEF OnBountyPlaced

(* The refresh callback keeps announced targets listed.                     *)
LEMMA LoadedListed == TypeOK /\ TypeOK' /\ Listed /\ OnActiveBountyTargetsLoaded => Listed'
<1> SUFFICES ASSUME TypeOK, TypeOK', Listed, OnActiveBountyTargetsLoaded PROVE Listed'
  OBVIOUS
<1> DEFINE r == Head(results)
<1>1. /\ Members(results') \subseteq Members(results) /\ r \in Members(results)
      /\ r.request.op = "refresh"
  BY NextResult DEF OnActiveBountyTargetsLoaded
<1>2. UNCHANGED <<generation, confirmed>>
  BY DEF OnActiveBountyTargetsLoaded
<1>3. confirmed' \subseteq targets'
  <2>1. CASE UNCHANGED cache
    BY <1>2, <2>1 DEF Listed, cache
  <2>2. CASE r.ok /\ r.request.generation = generation /\ targets' = r.players
    BY <1>1, <1>2, <2>2 DEF Listed, Complete
  <2> QED
    BY <2>1, <2>2 DEF OnActiveBountyTargetsLoaded
<1>4. Asked(generation)
  BY RefreshTypedOK, NothingAsked DEF OnActiveBountyTargetsLoaded, OnRefused, TypeOK, Asked
<1>5. \A req \in Members(queue') : req \in Members(queue) \/ Aged(req)'
  BY <1>2, <1>4, AskedAged DEF TypeOK
<1> QED
  BY <1>1, <1>2, <1>3, <1>5, ListedKept

(* A refresh is answered with all who are hunted, the announced included.  *)
LEMMA ExecuteListed == TypeOK /\ TypeOK' /\ Listed /\ Execute => Listed'
<1> SUFFICES ASSUME TypeOK, TypeOK', Listed, Execute PROVE Listed'
  OBVIOUS
<1> DEFINE req == Head(queue)
<1>1. queue \in Seq(Requests) /\ queue # << >> /\ queue' = Tail(queue)
  BY DEF TypeOK, Execute
<1>2. req \in Members(queue) /\ req \in Requests /\ Members(queue') \subseteq Members(queue)
  BY <1>1, HeadTail
<1>3. UNCHANGED <<generation, targets>> /\ confirmed' \subseteq confirmed
  BY DEF Execute, cache
<1>4. Aged(req)
  BY <1>2 DEF Listed
<1>5. ASSUME NEW ok \in BOOLEAN, NEW players \in SUBSET Players, Answer(req, ok, players),
             req.op = "refresh" /\ ok => confirmed \subseteq players
      PROVE  Listed'
  <2> DEFINE new == [request |-> req, ok |-> ok, players |-> players]
  <2>1. new \in Results
    BY <1>2 DEF Results
  <2>2. results' = Append(results, new)
    BY <1>5 DEF Answer
  <2>3. /\ new.request.op = "refresh" => new.request.generation <= generation'
        /\ /\ new.request.op = "refresh" /\ new.ok
           /\ new.request.generation = generation'
           => confirmed' \subseteq new.players
    BY <1>3, <1>4, <1>5 DEF Aged
  <2> HIDE DEF new
  <2>4. Members(results') \subseteq Members(results) \union {new}
    BY <2>1, <2>2, Appended DEF TypeOK
  <2>5. \A r \in Members(results) : Aged(r.request)' /\ Complete(r)'
    BY <1>3 DEF Listed, Aged, Complete
  <2>6. \A q \in Members(queue') : Aged(q)'
    BY <1>2, <1>3 DEF Listed, Aged
  <2>7. confirmed' \subseteq targets'
    BY <1>3 DEF Listed
  <2> QED
    BY <2>3, <2>4, <2>5, <2>6, <2>7 DEF Listed, Aged, Complete
<1>6. CASE req.op = "place"
  <2>1. req.player \in Players
    BY <1>2, <1>6, RequestKind DEF Changes
  <2>2. Answer(req, TRUE, {req.player}) \/ Answer(req, TRUE, {})
    BY <1>6 DEF Execute
  <2>3. {req.player} \in SUBSET Players /\ {} \in SUBSET Players
    BY <2>1
  <2> QED
    BY <1>5, <1>6, <2>2, <2>3
<1>7. CASE req.op = "settle"
  <2>1. req.player \in Players
    BY <1>2, <1>7, RequestKind DEF Changes
  <2>2. Answer(req, TRUE, {req.player} \intersect active)
    BY <1>7 DEF Execute
  <2>3. {req.player} \intersect active \in SUBSET Players
    BY <2>1
  <2> QED
    BY <1>5, <1>7, <2>2, <2>3
<1>8. CASE req.op = "refresh"
  <2>1. Answer(req, TRUE, active) \/ Answer(req, FALSE, {})
    BY <1>8 DEF Execute
  <2>2. active \in SUBSET Players /\ confirmed \subseteq active /\ {} \in SUBSET Players
    BY DEF TypeOK
  <2> QED
    BY <1>5, <2>1, <2>2
<1> QED
  BY <1>2, <1>6, <1>7, <1>8, RequestKind

(* Every step keeps announced targets listed.                               *)
LEMMA ListedStep == TypeOK /\ TypeOK' /\ Listed /\ [Next]_vars => Listed'
<1> SUFFICES ASSUME TypeOK, TypeOK', Listed, [Next]_vars PROVE Listed'
  OBVIOUS
<1>1. ASSUME UNCHANGED <<targets, generation, results, confirmed>>,
             Asked(generation)
      PROVE  Listed'
  <2>1. \A req \in Members(queue') : req \in Members(queue) \/ Aged(req)'
    BY <1>1, AskedAged DEF TypeOK
  <2> QED
    BY <1>1, <2>1, ListedKept DEF Listed
<1>2. CASE Elapse
  BY <1>1, <1>2 DEF Elapse, Asked, cache
<1>3. CASE Timer_RefreshBountyCache
  <2>1. Asked(generation)
    BY <1>3 DEF Timer_RefreshBountyCache, StartActiveBountyCacheRefresh, Asked
  <2> QED
    BY <1>1, <1>3, <2>1 DEF Timer_RefreshBountyCache, cache
<1>4. CASE Timer_BountyMaintenance
  <2>1. Asked(generation)
    BY <1>4, RefreshTypedOK DEF Timer_BountyMaintenance, TypeOK
  <2> QED
    BY <1>1, <1>4, <2>1 DEF Timer_BountyMaintenance, cache
<1>5. CASE \E op \in {"place", "settle"}, p \in Players : QueueChange(op, p)
  <2>1. PICK op \in {"place", "settle"}, p \in Players : QueueChange(op, p)
    BY <1>5
  <2> DEFINE new == [op |-> op, player |-> p]
  <2>2. new \in Requests /\ Aged(new)'
    BY DEF Requests, Aged
  <2>3. queue' = Append(queue, new)
    BY <2>1 DEF QueueChange
  <2> HIDE DEF new
  <2>4. Members(queue') \subseteq Members(queue) \union {new}
    BY <2>2, <2>3, Appended DEF TypeOK
  <2>5. UNCHANGED <<targets, generation, results, confirmed>>
    BY <2>1 DEF QueueChange, cache
  <2> QED
    BY <2>2, <2>4, <2>5, ListedKept DEF Listed
<1>6. CASE \E p \in Players : Lapse(p)
  <2>1. /\ UNCHANGED <<targets, generation, queue, results>>
        /\ confirmed' \subseteq confirmed
    BY <1>6 DEF Lapse, cache
  <2> QED
    BY <2>1, ListedKept DEF Listed
<1>7. CASE ConnectDatabase
  <2>1. /\ UNCHANGED <<targets, queue, results, confirmed>>
        /\ generation' = generation + 1
    BY <1>7 DEF ConnectDatabase
  <2> QED
    BY <2>1, ListedKept DEF Listed
<1>8. CASE FinishBountySchemaColumnCheck
  <2>1. Asked(generation)
    BY <1>8 DEF FinishBountySchemaColumnCheck, StartActiveBountyCacheRefresh, Asked
  <2> QED
    BY <1>1, <1>8, <2>1 DEF FinishBountySchemaColumnCheck, cache
<1>9. CASE Execute
  BY <1>9, ExecuteListed
<1>10. CASE OnBountyPlaced
  BY <1>10, PlacedListed
<1>11. CASE OnBountySettled
  <2>1. Members(results') \subseteq Members(results)
    BY <1>11, NextResult DEF OnBountySettled
  <2>2. Asked(generation)
    BY <1>11, RefreshTypedOK DEF OnBountySettled, Asked, TypeOK
  <2>3. UNCHANGED <<targets, generation, confirmed>>
    BY <1>11 DEF OnBountySettled, cache
  <2>4. \A req \in Members(queue') : req \in Members(queue) \/ Aged(req)'
    BY <2>2, <2>3, AskedAged DEF TypeOK
  <2> QED
    BY <2>1, <2>3, <2>4, ListedKept DEF Listed
<1>12. CASE OnActiveBountyTargetsLoaded
  BY <1>12, LoadedListed
<1>13. CASE UNCHANGED vars
  BY <1>1, <1>13 DEF vars, cache, Asked
<1> QED
  BY <1>2, <1>3, <1>4, <1>5, <1>6, <1>7, <1>8, <1>9, <1>10, <1>11, <1>12, <1>13, Zenon
  DEF Next, Deliver

(* No refresh drops a player whose bounty has been announced while that    *)
(* bounty stands: an answer computed before the placement is of an older   *)
(* generation and is thrown away (SQL_OnActiveBountyTargetsLoaded).        *)
THEOREM AnnouncedStaysListed == Spec => []AnnouncedIsListed
<1>1. Init => Listed
  BY DEF Init, Listed, Members
<1>2. Listed => AnnouncedIsListed
  BY DEF Listed, AnnouncedIsListed
<1> QED
  BY <1>1, <1>2, TypeCorrect, ListedStep, PTL DEF Spec

------------------------------------------------------------------------------
(* PendingIsOwned: all requests under way, the answered ones first, are a  *)
(* line, and each step adds one at its end or takes one from its front.    *)
WireOf(res, q) == [i \in DOMAIN res |-> res[i].request] \o q
IsOwn(r, c) == r.op = "refresh" /\ r.connection = c
NoneOwn(w, c) == \A i \in DOMAIN w : ~IsOwn(w[i], c)
OneOwn(w, c) ==
    \E k \in DOMAIN w : IsOwn(w[k], c) /\ \A i \in DOMAIN w \ {k} : ~IsOwn(w[i], c)

(* Where a request stands in the line.                                     *)
LEMMA WireAt ==
    ASSUME NEW res \in Seq(Results), NEW q \in Seq(Requests)
    PROVE  /\ WireOf(res, q) \in Seq(Requests)
           /\ Len(res) \in Nat /\ Len(q) \in Nat
           /\ Len(WireOf(res, q)) = Len(res) + Len(q)
           /\ \A i \in 1 .. Len(res) : WireOf(res, q)[i] = res[i].request
           /\ \A i \in 1 .. Len(q) : WireOf(res, q)[Len(res) + i] = q[i]
<1> DEFINE answered == [i \in DOMAIN res |-> res[i].request]
<1>1. DOMAIN res = 1 .. Len(res) /\ Len(res) \in Nat /\ Len(q) \in Nat
  BY LenProperties
<1>2. \A i \in 1 .. Len(res) : res[i].request \in Requests
  <2>1. \A i \in 1 .. Len(res) : res[i] \in Results
    BY ElementOfSeq
  <2> QED
    BY <2>1 DEF Results
<1>3. answered \in Seq(Requests) /\ Len(answered) = Len(res)
  <2>1. answered \in [1 .. Len(res) -> Requests]
    BY <1>1, <1>2
  <2>2. answered \in Seq(Requests)
    BY <1>1, <2>1, SeqDef
  <2>3. DOMAIN answered = 1 .. Len(answered) /\ Len(answered) \in Nat
    BY <2>2, LenProperties
  <2> QED
    BY <1>1, <2>1, <2>2, <2>3
<1>4. \A i \in 1 .. Len(res) : answered[i] = res[i].request
  BY <1>1
<1> HIDE DEF answered
<1>5. /\ answered \o q \in Seq(Requests)
      /\ Len(answered \o q) = Len(answered) + Len(q)
      /\ \A i \in 1 .. Len(answered) + Len(q) :
            (answered \o q)[i] = IF i <= Len(answered) THEN answered[i] ELSE q[i - Len(answered)]
  BY <1>3, ConcatProperties
<1>6. WireOf(res, q) = answered \o q
  BY DEF WireOf, answered
<1>7. \A i \in 1 .. Len(res) : (answered \o q)[i] = res[i].request
  BY <1>1, <1>3, <1>4, <1>5
<1>8. \A i \in 1 .. Len(q) : (answered \o q)[Len(res) + i] = q[i]
  BY <1>1, <1>3, <1>5
<1> QED
  BY <1>1, <1>3, <1>5, <1>6, <1>7, <1>8

(* A request joins the line at its end.                                    *)
LEMMA WireAppend ==
    ASSUME NEW res \in Seq(Results), NEW q \in Seq(Requests), NEW r \in Requests, NEW c
    PROVE  /\ IsOwn(r, c) /\ NoneOwn(WireOf(res, q), c) => OneOwn(WireOf(res, Append(q, r)), c)
           /\ ~IsOwn(r, c) /\ NoneOwn(WireOf(res, q), c) => NoneOwn(WireOf(res, Append(q, r)), c)
           /\ ~IsOwn(r, c) /\ OneOwn(WireOf(res, q), c) => OneOwn(WireOf(res, Append(q, r)), c)
<1> DEFINE w == WireOf(res, q)
           v == WireOf(res, Append(q, r))
<1>1. /\ Append(q, r) \in Seq(Requests) /\ Len(Append(q, r)) = Len(q) + 1
      /\ \A i \in 1 .. Len(q) : Append(q, r)[i] = q[i]
      /\ Append(q, r)[Len(q) + 1] = r
  BY AppendProperties
<1>2. /\ w \in Seq(Requests) /\ v \in Seq(Requests)
      /\ Len(res) \in Nat /\ Len(q) \in Nat
      /\ Len(w) = Len(res) + Len(q) /\ Len(v) = Len(w) + 1
  <2>1. w \in Seq(Requests) /\ Len(res) \in Nat /\ Len(q) \in Nat /\ Len(w) = Len(res) + Len(q)
    BY WireAt
  <2>2. v \in Seq(Requests) /\ Len(v) = Len(res) + Len(Append(q, r))
    BY <1>1, WireAt
  <2> QED
    BY <1>1, <2>1, <2>2
<1>3. /\ \A i \in 1 .. Len(w) : v[i] = w[i]
      /\ v[Len(w) + 1] = r
  <2>1. /\ \A i \in 1 .. Len(res) : w[i] = res[i].request /\ v[i] = res[i].request
        /\ \A i \in 1 .. Len(q) : w[Len(res) + i] = q[i]
        /\ \A i \in 1 .. Len(q) + 1 : v[Len(res) + i] = Append(q, r)[i]
    <3>1. /\ \A i \in 1 .. Len(res) : w[i] = res[i].request
          /\ \A i \in 1 .. Len(q) : w[Len(res) + i] = q[i]
      BY WireAt
    <3>2. /\ \A i \in 1 .. Len(res) : v[i] = res[i].request
          /\ \A i \in 1 .. Len(Append(q, r)) : v[Len(res) + i] = Append(q, r)[i]
      BY <1>1, WireAt
    <3> QED
      BY <1>1, <3>1, <3>2
  <2> HIDE DEF w, v
  <2>2. v[Len(w) + 1] = r
    <3>1. Len(w) + 1 = Len(res) + (Len(q) + 1) /\ Len(q) + 1 \in 1 .. Len(q) + 1
      BY <1>2
    <3> QED
      BY <1>1, <2>1, <3>1
  <2>3. ASSUME NEW i \in 1 .. Len(w)
        PROVE  v[i] = w[i]
    <3>1. CASE i <= Len(res)
      <4>1. i \in 1 .. Len(res)
        BY <1>2, <3>1
      <4>2. w[i] = res[i].request /\ v[i] = res[i].request
        BY <2>1, <4>1
      <4> QED
        BY <4>2
    <3>2. CASE i > Len(res)
      <4>1. i - Len(res) \in 1 .. Len(q) /\ i - Len(res) \in 1 .. Len(q) + 1 /\ i = Len(res) + (i - Len(res))
        BY <1>2, <3>2
      <4> QED
        BY <1>1, <2>1, <4>1
    <3> QED
      BY <1>2, <3>1, <3>2
  <2> QED
    BY <2>2, <2>3
<1>4. /\ DOMAIN w = 1 .. Len(w) /\ DOMAIN v = 1 .. Len(w) + 1 /\ Len(w) \in Nat
  BY <1>2, LenProperties
<1> HIDE DEF w, v
<1>5. /\ DOMAIN v = DOMAIN w \cup {Len(w) + 1} /\ Len(w) + 1 \notin DOMAIN w
  BY <1>4
<1>6. ASSUME IsOwn(r, c), NoneOwn(w, c)
      PROVE  OneOwn(v, c)
  BY <1>3, <1>4, <1>5, <1>6 DEF OneOwn, NoneOwn
<1>7. ASSUME ~IsOwn(r, c), NoneOwn(w, c)
      PROVE  NoneOwn(v, c)
  BY <1>3, <1>4, <1>5, <1>7 DEF NoneOwn
<1>8. ASSUME ~IsOwn(r, c), OneOwn(w, c)
      PROVE  OneOwn(v, c)
  <2>1. PICK k \in DOMAIN w : IsOwn(w[k], c) /\ \A i \in DOMAIN w \ {k} : ~IsOwn(w[i], c)
    BY <1>8 DEF OneOwn
  <2>2. k \in DOMAIN v /\ IsOwn(v[k], c)
    BY <1>3, <1>4, <1>5, <2>1
  <2>3. \A i \in DOMAIN v \ {k} : ~IsOwn(v[i], c)
    BY <1>3, <1>4, <1>5, <1>8, <2>1
  <2> QED
    BY <2>2, <2>3 DEF OneOwn
<1> QED
  BY <1>6, <1>7, <1>8 DEF w, v

(* The request at the front leaves the line.                               *)
LEMMA WireTail ==
    ASSUME NEW res \in Seq(Results), NEW q \in Seq(Requests), res # << >>, NEW c
    PROVE  LET r == Head(res).request
           IN  /\ NoneOwn(WireOf(res, q), c) => ~IsOwn(r, c) /\ NoneOwn(WireOf(Tail(res), q), c)
               /\ IsOwn(r, c) /\ OneOwn(WireOf(res, q), c) => NoneOwn(WireOf(Tail(res), q), c)
               /\ ~IsOwn(r, c) /\ OneOwn(WireOf(res, q), c) => OneOwn(WireOf(Tail(res), q), c)
<1> DEFINE w == WireOf(res, q)
           v == WireOf(Tail(res), q)
           r == Head(res).request
<1>1. /\ Tail(res) \in Seq(Results) /\ Len(Tail(res)) = Len(res) - 1
      /\ \A i \in 1 .. Len(Tail(res)) : Tail(res)[i] = res[i + 1]
      /\ Head(res) = res[1] /\ Len(res) # 0
  BY HeadTailProperties, EmptySeq
<1>2. /\ w \in Seq(Requests) /\ v \in Seq(Requests)
      /\ Len(res) \in Nat /\ Len(q) \in Nat
      /\ Len(w) = Len(res) + Len(q) /\ Len(v) = Len(w) - 1
  <2>1. w \in Seq(Requests) /\ Len(res) \in Nat /\ Len(q) \in Nat /\ Len(w) = Len(res) + Len(q)
    BY WireAt
  <2>2. v \in Seq(Requests) /\ Len(v) = Len(Tail(res)) + Len(q)
    BY <1>1, WireAt
  <2> QED
    BY <1>1, <2>1, <2>2
<1>3. /\ w[1] = r
      /\ \A i \in 1 .. Len(v) : v[i] = w[i + 1]
  <2>1. /\ \A i \in 1 .. Len(res) : w[i] = res[i].request
        /\ \A i \in 1 .. Len(res) - 1 : v[i] = Tail(res)[i].request
        /\ \A i \in 1 .. Len(q) : w[Len(res) + i] = q[i] /\ v[Len(res) - 1 + i] = q[i]
    <3>1. /\ \A i \in 1 .. Len(res) : w[i] = res[i].request
          /\ \A i \in 1 .. Len(q) : w[Len(res) + i] = q[i]
      BY WireAt
    <3>2. /\ \A i \in 1 .. Len(Tail(res)) : v[i] = Tail(res)[i].request
          /\ \A i \in 1 .. Len(q) : v[Len(Tail(res)) + i] = q[i]
      BY <1>1, WireAt
    <3> QED
      BY <1>1, <3>1, <3>2
  <2> HIDE DEF w, v
  <2>2. w[1] = r
    BY <1>1, <1>2, <2>1
  <2>3. ASSUME NEW i \in 1 .. Len(v)
        PROVE  v[i] = w[i + 1]
    <3>1. CASE i <= Len(res) - 1
      BY <1>1, <1>2, <2>1, <3>1
    <3>2. CASE i > Len(res) - 1
      <4>1. /\ i - (Len(res) - 1) \in 1 .. Len(q)
            /\ i = Len(res) - 1 + (i - (Len(res) - 1)) /\ i + 1 = Len(res) + (i - (Len(res) - 1))
        BY <1>2, <3>2
      <4> QED
        BY <2>1, <4>1
    <3> QED
      BY <1>2, <3>1, <3>2
  <2> QED
    BY <2>2, <2>3
<1>4. /\ DOMAIN w = 1 .. Len(w) /\ DOMAIN v = 1 .. Len(w) - 1 /\ Len(w) \in Nat /\ Len(w) >= 1
  BY <1>1, <1>2, LenProperties
<1> HIDE DEF w, v, r
<1>5. /\ 1 \in DOMAIN w
      /\ \A i \in DOMAIN v : i + 1 \in DOMAIN w /\ v[i] = w[i + 1] /\ i + 1 # 1 /\ i \in Int
      /\ \A i \in DOMAIN w \ {1} : i - 1 \in DOMAIN v /\ v[i - 1] = w[i] /\ i \in Int
  BY <1>2, <1>3, <1>4
<1>6. NoneOwn(w, c) => ~IsOwn(r, c) /\ NoneOwn(v, c)
  BY <1>3, <1>5 DEF NoneOwn
<1>7. ASSUME OneOwn(w, c)
      PROVE  /\ IsOwn(r, c) => NoneOwn(v, c)
             /\ ~IsOwn(r, c) => OneOwn(v, c)
  <2>1. PICK k \in DOMAIN w : IsOwn(w[k], c) /\ \A i \in DOMAIN w \ {k} : ~IsOwn(w[i], c)
    BY <1>7 DEF OneOwn
  <2>2. CASE k = 1
    BY <1>3, <1>5, <2>1, <2>2 DEF NoneOwn
  <2>3. CASE k # 1
    <3>1. ~IsOwn(r, c)
      BY <1>3, <1>5, <2>1, <2>3
    <3>2. k - 1 \in DOMAIN v /\ IsOwn(v[k - 1], c)
      BY <1>5, <2>1, <2>3
    <3>3. ASSUME NEW i \in DOMAIN v, i # k - 1
          PROVE  ~IsOwn(v[i], c)
      <4>1. i + 1 \in DOMAIN w /\ i + 1 # k /\ v[i] = w[i + 1]
        BY <1>4, <1>5, <2>1, <3>3
      <4> QED
        BY <2>1, <4>1
    <3> QED
      BY <3>1, <3>2, <3>3 DEF OneOwn
  <2> QED
    BY <2>2, <2>3
<1> QED
  BY <1>6, <1>7 DEF w, v, r

(* Executing a request moves it from the queue to the results: the line    *)
(* stays as it was.                                                        *)
LEMMA WireExecuted ==
    ASSUME NEW res \in Seq(Results), NEW q \in Seq(Requests), q # << >>,
           NEW a \in Results, a.request = Head(q)
    PROVE  WireOf(Append(res, a), Tail(q)) = WireOf(res, q)
<1> DEFINE w == WireOf(res, q)
           v == WireOf(Append(res, a), Tail(q))
<1>1. /\ Tail(q) \in Seq(Requests) /\ Len(Tail(q)) = Len(q) - 1
      /\ \A i \in 1 .. Len(Tail(q)) : Tail(q)[i] = q[i + 1]
      /\ Head(q) = q[1] /\ Len(q) # 0
  BY HeadTailProperties, EmptySeq
<1>2. /\ Append(res, a) \in Seq(Results) /\ Len(Append(res, a)) = Len(res) + 1
      /\ \A i \in 1 .. Len(res) : Append(res, a)[i] = res[i]
      /\ Append(res, a)[Len(res) + 1] = a
  BY AppendProperties
<1>3. /\ w \in Seq(Requests) /\ v \in Seq(Requests)
      /\ Len(res) \in Nat /\ Len(q) \in Nat
      /\ Len(w) = Len(res) + Len(q) /\ Len(v) = Len(w)
  <2>1. w \in Seq(Requests) /\ Len(res) \in Nat /\ Len(q) \in Nat /\ Len(w) = Len(res) + Len(q)
    BY WireAt
  <2>2. v \in Seq(Requests) /\ Len(v) = Len(Append(res, a)) + Len(Tail(q))
    BY <1>1, <1>2, WireAt
  <2> QED
    BY <1>1, <1>2, <2>1, <2>2
<1>4. /\ \A i \in 1 .. Len(res) : w[i] = res[i].request
      /\ \A i \in 1 .. Len(q) : w[Len(res) + i] = q[i]
      /\ \A i \in 1 .. Len(res) + 1 : v[i] = Append(res, a)[i].request
      /\ \A i \in 1 .. Len(q) - 1 : v[Len(res) + 1 + i] = Tail(q)[i]
  <2>1. /\ \A i \in 1 .. Len(res) : w[i] = res[i].request
        /\ \A i \in 1 .. Len(q) : w[Len(res) + i] = q[i]
    BY WireAt
  <2>2. /\ \A i \in 1 .. Len(Append(res, a)) : v[i] = Append(res, a)[i].request
        /\ \A i \in 1 .. Len(Tail(q)) : v[Len(Append(res, a)) + i] = Tail(q)[i]
    BY <1>1, <1>2, WireAt
  <2> QED
    BY <1>1, <1>2, <2>1, <2>2
<1> HIDE DEF w, v
<1>5. ASSUME NEW i \in 1 .. Len(w)
      PROVE  v[i] = w[i]
  <2>1. CASE i <= Len(res)
    <3>1. i \in 1 .. Len(res) /\ i \in 1 .. Len(res) + 1
      BY <1>3, <2>1
    <3>2. v[i] = Append(res, a)[i].request /\ Append(res, a)[i] = res[i] /\ w[i] = res[i].request
      BY <1>2, <1>4, <3>1
    <3> QED
      BY <3>2
  <2>2. CASE i = Len(res) + 1
    <3>1. 1 \in 1 .. Len(q)
      BY <1>1, <1>3
    <3> QED
      BY <1>1, <1>2, <1>3, <1>4, <2>2, <3>1
  <2>3. CASE i > Len(res) + 1
    <3>1. PICK j \in 1 .. Len(q) - 1 : i = Len(res) + 1 + j
      <4>1. i - Len(res) - 1 \in 1 .. Len(q) - 1 /\ i = Len(res) + 1 + (i - Len(res) - 1)
        BY <1>3, <2>3
      <4> QED
        BY <4>1
    <3>2. j + 1 \in 1 .. Len(q) /\ i = Len(res) + (j + 1) /\ j \in 1 .. Len(Tail(q))
      BY <1>1, <1>3, <3>1
    <3>3. v[i] = Tail(q)[j] /\ Tail(q)[j] = q[j + 1] /\ w[i] = q[j + 1]
      BY <1>1, <1>4, <3>1, <3>2
    <3> QED
      BY <3>3
  <2> QED
    BY <1>3, <2>1, <2>2, <2>3
<1>6. w = v
  BY <1>3, <1>5, SeqEqual
<1> QED
  BY <1>6 DEF w, v

------------------------------------------------------------------------------
(* What is known of the line: of the present connection it holds one       *)
(* refresh if the flag is up and none if it is not, and nothing of a later *)
(* connection.  The timer is set only while no refresh is under way, and   *)
(* neither flag outlives a connection.                                     *)
PendingOwned ==
    /\ refreshPending => OneOwn(WireOf(results, queue), connection)
    /\ ~refreshPending => NoneOwn(WireOf(results, queue), connection)
NoneLater == \A c \in Nat : c > connection => NoneOwn(WireOf(results, queue), c)
Owned ==
    /\ PendingOwned /\ NoneLater
    /\ timer => ~refreshPending
    /\ ~ready => ~refreshPending /\ ~timer

(* A refresh that starts while none is under way is the one of its         *)
(* connection.                                                             *)
LEMMA StartOwned ==
    ASSUME TypeOK, NEW res \in Seq(Results), NEW gen \in Nat, StartActiveBountyCacheRefresh(gen),
           results' = res, connection' = connection, ready', ~timer',
           NoneOwn(WireOf(res, queue), connection),
           \A c \in Nat : c > connection => NoneOwn(WireOf(res, queue), c)
    PROVE  Owned'
<1> DEFINE r == [op |-> "refresh", connection |-> connection, generation |-> gen]
<1>1. queue \in Seq(Requests) /\ connection \in Nat
  BY DEF TypeOK
<1>2. r \in Requests /\ queue' = Append(queue, r) /\ refreshPending' = TRUE
  BY <1>1 DEF StartActiveBountyCacheRefresh, Requests
<1>3. IsOwn(r, connection) /\ \A c \in Nat : c > connection => ~IsOwn(r, c)
  BY <1>1 DEF IsOwn
<1> HIDE DEF r
<1>4. OneOwn(WireOf(res, queue'), connection)
  BY <1>1, <1>2, <1>3, WireAppend
<1>5. \A c \in Nat : c > connection => NoneOwn(WireOf(res, queue'), c)
  BY <1>1, <1>2, <1>3, WireAppend
<1> QED
  BY <1>2, <1>4, <1>5 DEF Owned, PendingOwned, NoneLater

(* Asking for a refresh starts one only if none is under way.              *)
LEMMA AskOwned ==
    ASSUME TypeOK, NEW res \in Seq(Results), NEW gen \in Nat, NEW underWay \in BOOLEAN,
           \/ RefreshActiveBountyTargets(underWay, gen)
           \/ UNCHANGED <<timer, queue>> /\ refreshPending' = underWay,
           results' = res, connection' = connection, ready' = ready,
           underWay => OneOwn(WireOf(res, queue), connection),
           ~underWay => NoneOwn(WireOf(res, queue), connection),
           \A c \in Nat : c > connection => NoneOwn(WireOf(res, queue), c),
           timer => ~underWay, ~ready => ~underWay /\ ~timer
    PROVE  Owned'
<1>1. CASE ready /\ ~underWay /\ ~timer /\ StartActiveBountyCacheRefresh(gen) /\ UNCHANGED timer
  BY <1>1, StartOwned
<1>2. CASE /\ queue' = queue /\ refreshPending' = underWay
           /\ timer' = timer \/ (ready /\ ~underWay)
  <2>1. WireOf(results', queue') = WireOf(res, queue)
    BY <1>2
  <2>2. timer' => ~underWay
    BY <1>2
  <2>3. ~ready => ~underWay /\ ~timer'
    BY <1>2
  <2> QED
    BY <1>2, <2>1, <2>2, <2>3 DEF Owned, PendingOwned, NoneLater
<1> QED
  BY <1>1, <1>2 DEF RefreshActiveBountyTargets

(* Steps that leave the line and the flags alone.                          *)
LEMMA IdleOwned ==
    ASSUME Owned, WireOf(results', queue') = WireOf(results, queue),
           UNCHANGED <<ready, connection, refreshPending, timer>>
    PROVE  Owned'
BY DEF Owned, PendingOwned, NoneLater

(* What an answer that is not a refresh's, or not of this connection,      *)
(* leaves in the line.                                                     *)
LEMMA TakenOwned ==
    ASSUME TypeOK, Owned, NEW op, Taken(op), NEW c \in Nat
    PROVE  /\ results' \in Seq(Results)
           /\ NoneOwn(WireOf(results, queue), c) => NoneOwn(WireOf(results', queue), c)
           /\ IsOwn(Head(results).request, c) /\ OneOwn(WireOf(results, queue), c)
                => NoneOwn(WireOf(results', queue), c)
           /\ ~IsOwn(Head(results).request, c) /\ OneOwn(WireOf(results, queue), c)
                => OneOwn(WireOf(results', queue), c)
<1>1. results \in Seq(Results) /\ queue \in Seq(Requests) /\ results # << >> /\ results' = Tail(results)
  BY DEF TypeOK, Taken
<1>2. Tail(results) \in Seq(Results)
  BY <1>1, HeadTailProperties
<1> QED
  BY <1>1, <1>2, WireTail

(* A callback that is not a refresh's takes its answer and may ask.        *)
LEMMA ChangeOwned ==
    ASSUME TypeOK, Owned, NEW op \in {"place", "settle"}, Taken(op), NEW gen \in Nat,
           UNCHANGED <<ready, connection>>,
           \/ RefreshActiveBountyTargets(refreshPending, gen)
           \/ UNCHANGED <<refresh, queue>>
    PROVE  Owned'
<1>1. \A c \in Nat : ~IsOwn(Head(results).request, c)
  BY DEF Taken, IsOwn
<1>2. connection \in Nat /\ refreshPending \in BOOLEAN
  BY DEF TypeOK
<1>3. /\ results' \in Seq(Results)
      /\ refreshPending => OneOwn(WireOf(results', queue), connection)
      /\ ~refreshPending => NoneOwn(WireOf(results', queue), connection)
  BY <1>1, <1>2, TakenOwned DEF Owned, PendingOwned
<1>4. \A c \in Nat : c > connection => NoneOwn(WireOf(results', queue), c)
  BY <1>1, <1>2, TakenOwned DEF Owned, NoneLater
<1>5. (timer => ~refreshPending) /\ (~ready => ~refreshPending /\ ~timer)
  BY DEF Owned
<1>6. \/ RefreshActiveBountyTargets(refreshPending, gen)
      \/ UNCHANGED <<timer, queue>> /\ refreshPending' = refreshPending
  BY DEF refresh
<1> QED
  BY <1>2, <1>3, <1>4, <1>5, <1>6, AskOwned

(* The answer of the present connection's refresh was the one; any other   *)
(* leaves it in the line.                                                  *)
LEMMA LoadedOwned == TypeOK /\ Owned /\ OnActiveBountyTargetsLoaded => Owned'
<1> SUFFICES ASSUME TypeOK, Owned, OnActiveBountyTargetsLoaded PROVE Owned'
  OBVIOUS
<1> DEFINE r == Head(results).request
<1>1. /\ Taken("refresh") /\ UNCHANGED <<ready, connection>> /\ generation \in Nat
      /\ connection \in Nat /\ refreshPending \in BOOLEAN /\ r.op = "refresh"
  BY DEF OnActiveBountyTargetsLoaded, TypeOK, database, Taken
<1>2. /\ results' \in Seq(Results)
      /\ \A c \in Nat : c > connection => NoneOwn(WireOf(results', queue), c)
  BY <1>1, TakenOwned DEF Owned, NoneLater
<1>3. (timer => ~refreshPending) /\ (~ready => ~refreshPending /\ ~timer)
  BY DEF Owned
<1>4. CASE ~IsOurs(r)
  <2>1. UNCHANGED <<timer, queue>> /\ refreshPending' = refreshPending
    BY <1>4 DEF OnActiveBountyTargetsLoaded, refresh
  <2>2. /\ refreshPending => OneOwn(WireOf(results', queue), connection)
        /\ ~refreshPending => NoneOwn(WireOf(results', queue), connection)
    <3>1. CASE refreshPending
      <4>1. ~IsOwn(r, connection)
        BY <1>3, <1>4, <3>1 DEF IsOurs, IsOwn
      <4>2. OneOwn(WireOf(results, queue), connection)
        BY <3>1 DEF Owned, PendingOwned
      <4> QED
        BY <1>1, <3>1, <4>1, <4>2, TakenOwned
    <3>2. CASE ~refreshPending
      BY <1>1, <3>2, TakenOwned DEF Owned, PendingOwned
    <3> QED
      BY <3>1, <3>2
  <2> QED
    BY <1>1, <1>2, <1>3, <2>1, <2>2, AskOwned
<1>5. CASE IsOurs(r)
  <2>1. ready /\ IsOwn(r, connection)
    BY <1>1, <1>5 DEF IsOurs, IsOwn
  <2>2. OneOwn(WireOf(results, queue), connection) \/ NoneOwn(WireOf(results, queue), connection)
    BY <1>1 DEF Owned, PendingOwned
  <2>3. NoneOwn(WireOf(results', queue), connection)
    BY <1>1, <2>1, <2>2, TakenOwned
  <2>4. \/ RefreshActiveBountyTargets(FALSE, generation)
        \/ UNCHANGED <<timer, queue>> /\ refreshPending' = FALSE
    BY <1>5 DEF OnActiveBountyTargetsLoaded, OnRefused
  <2> QED
    BY <1>1, <1>2, <2>1, <2>3, <2>4, AskOwned
<1> QED
  BY <1>4, <1>5

(* The worker leaves the line as it is.                                    *)
LEMMA ExecuteOwned == TypeOK /\ TypeOK' /\ Owned /\ Execute => Owned'
<1> SUFFICES ASSUME TypeOK, TypeOK', Owned, Execute PROVE Owned'
  OBVIOUS
<1>1. /\ queue \in Seq(Requests) /\ queue # << >> /\ queue' = Tail(queue) /\ results \in Seq(Results)
      /\ results' \in Seq(Results)
      /\ UNCHANGED <<ready, connection, refreshPending, timer>>
  BY DEF TypeOK, Execute, database, refresh
<1>2. PICK ok, players : Answer(Head(queue), ok, players)
  BY DEF Execute
<1> DEFINE a == [request |-> Head(queue), ok |-> ok, players |-> players]
<1>3. results' = Append(results, a) /\ a.request = Head(queue)
  BY <1>2 DEF Answer
<1>4. a \in Results
  <2> HIDE DEF a
  <2>1. Len(results) \in Nat /\ Len(results') \in Nat /\ DOMAIN results = 1 .. Len(results)
    BY <1>1, LenProperties
  <2>2. Len(results') = Len(results) + 1 /\ results'[Len(results) + 1] = a
    <3>1. results \in Seq(Results \cup {a}) /\ a \in Results \cup {a}
      BY <1>1, SeqMonotonic
    <3> QED
      BY <1>3, <3>1, AppendProperties
  <2>3. Len(results) + 1 \in 1 .. Len(results')
    BY <2>1, <2>2
  <2> QED
    BY <1>1, <2>2, <2>3, ElementOfSeq
<1> HIDE DEF a
<1>5. WireOf(results', queue') = WireOf(results, queue)
  BY <1>1, <1>3, <1>4, WireExecuted
<1> QED
  BY <1>1, <1>5, IdleOwned

(* Every step keeps the flag true to the line.                             *)
LEMMA OwnedStep == TypeOK /\ TypeOK' /\ Owned /\ [Next]_vars => Owned'
<1> SUFFICES ASSUME TypeOK, TypeOK', Owned, [Next]_vars PROVE Owned'
  OBVIOUS
<1>1. /\ results \in Seq(Results) /\ queue \in Seq(Requests) /\ connection \in Nat /\ generation \in Nat
      /\ refreshPending \in BOOLEAN
  BY DEF TypeOK
<1>2. /\ refreshPending => OneOwn(WireOf(results, queue), connection)
      /\ ~refreshPending => NoneOwn(WireOf(results, queue), connection)
      /\ \A c \in Nat : c > connection => NoneOwn(WireOf(results, queue), c)
      /\ timer => ~refreshPending
      /\ ~ready => ~refreshPending /\ ~timer
  BY DEF Owned, PendingOwned, NoneLater
<1>3. CASE \/ Elapse \/ \E p \in Players : Lapse(p)
  <2>1. UNCHANGED <<results, queue, ready, connection, refreshPending, timer>>
    BY <1>3 DEF Elapse, Lapse, database, refresh
  <2> QED
    BY <2>1, IdleOwned
<1>4. CASE Timer_RefreshBountyCache
  <2>1. timer /\ ~timer' /\ UNCHANGED <<results, ready, connection>>
    BY <1>4 DEF Timer_RefreshBountyCache, database
  <2>2. CASE refreshQueued /\ ready /\ StartActiveBountyCacheRefresh(generation)
    BY <1>1, <1>2, <2>1, <2>2, StartOwned
  <2>3. CASE UNCHANGED <<refreshPending, queue>>
    BY <1>2, <2>1, <2>3 DEF Owned, PendingOwned, NoneLater
  <2> QED
    BY <1>4, <2>2, <2>3 DEF Timer_RefreshBountyCache
<1>5. CASE Timer_BountyMaintenance
  <2>1. /\ UNCHANGED <<results, ready, connection>>
        /\ RefreshActiveBountyTargets(refreshPending, generation)
    BY <1>5 DEF Timer_BountyMaintenance, database
  <2> QED
    BY <1>1, <1>2, <2>1, AskOwned
<1>6. CASE \E op \in {"place", "settle"}, p \in Players : QueueChange(op, p)
  <2>1. PICK op \in {"place", "settle"}, p \in Players : QueueChange(op, p)
    BY <1>6
  <2> DEFINE r == [op |-> op, player |-> p]
  <2>2. /\ queue' = Append(queue, r)
        /\ UNCHANGED <<results, ready, connection, refreshPending, timer>>
    BY <2>1 DEF QueueChange, database, refresh
  <2>3. r \in Requests /\ \A c : ~IsOwn(r, c)
    BY DEF Requests, IsOwn
  <2> HIDE DEF r
  <2>4. /\ refreshPending => OneOwn(WireOf(results, queue'), connection)
        /\ ~refreshPending => NoneOwn(WireOf(results, queue'), connection)
        /\ \A c \in Nat : c > connection => NoneOwn(WireOf(results, queue'), c)
    BY <1>1, <1>2, <2>2, <2>3, WireAppend
  <2> QED
    BY <1>2, <2>2, <2>4 DEF Owned, PendingOwned, NoneLater
<1>7. CASE ConnectDatabase
  <2>1. /\ connection' = connection + 1 /\ ~ready' /\ ~refreshPending' /\ ~timer'
        /\ UNCHANGED <<results, queue>>
    BY <1>7 DEF ConnectDatabase
  <2>2. /\ connection' \in Nat /\ connection' > connection
        /\ \A c \in Nat : c > connection' => c > connection
    BY <1>1, <2>1
  <2> QED
    BY <1>2, <2>1, <2>2 DEF Owned, PendingOwned, NoneLater
<1>8. CASE FinishBountySchemaColumnCheck
  <2>1. /\ ~ready /\ ready' /\ UNCHANGED <<results, connection, timer>>
        /\ StartActiveBountyCacheRefresh(generation)
    BY <1>8 DEF FinishBountySchemaColumnCheck
  <2> QED
    BY <1>1, <1>2, <2>1, StartOwned
<1>9. CASE Execute
  BY <1>9, ExecuteOwned
<1>10. CASE OnBountyPlaced
  <2>1. /\ Taken("place") /\ UNCHANGED <<ready, connection>> /\ generation + 1 \in Nat
        /\ \/ RefreshActiveBountyTargets(refreshPending, generation + 1)
           \/ UNCHANGED <<refresh, queue>>
    BY <1>1, <1>10 DEF OnBountyPlaced, database
  <2> QED
    BY <2>1, ChangeOwned
<1>11. CASE OnBountySettled
  <2>1. /\ Taken("settle") /\ UNCHANGED <<ready, connection>>
        /\ \/ RefreshActiveBountyTargets(refreshPending, generation)
           \/ UNCHANGED <<refresh, queue>>
    BY <1>11 DEF OnBountySettled, database
  <2> QED
    BY <1>1, <2>1, ChangeOwned
<1>12. CASE OnActiveBountyTargetsLoaded
  BY <1>12, LoadedOwned
<1>13. CASE UNCHANGED vars
  <2>1. UNCHANGED <<results, queue, ready, connection, refreshPending, timer>>
    BY <1>13 DEF vars, database, refresh
  <2> QED
    BY <2>1, IdleOwned
<1> QED
  BY <1>3, <1>4, <1>5, <1>6, <1>7, <1>8, <1>9, <1>10, <1>11, <1>12, <1>13, Zenon DEF Next, Deliver

(* The flag that makes further refreshes wait stands for one SELECT of the *)
(* present connection, wherever it is under way, and is down when there is *)
(* none: no answer of a connection since closed takes it down or leaves it *)
(* up.                                                                     *)
THEOREM PendingStandsForOne == Spec => []PendingIsOwned
<1>1. Init => Owned
  <2> SUFFICES ASSUME Init PROVE Owned
    OBVIOUS
  <2>1. results = << >> /\ queue = << >> /\ ~refreshPending /\ ~timer
    BY DEF Init
  <2>2. results \in Seq(Results) /\ queue \in Seq(Requests) /\ Len(results) = 0 /\ Len(queue) = 0
    BY <2>1, EmptySeq
  <2>3. WireOf(results, queue) \in Seq(Requests) /\ Len(WireOf(results, queue)) = 0
    <3>1. Len(WireOf(results, queue)) = Len(results) + Len(queue) /\ WireOf(results, queue) \in Seq(Requests)
      BY <2>2, WireAt
    <3> QED
      BY <2>2, <3>1
  <2>4. DOMAIN WireOf(results, queue) = {}
    BY <2>3, LenProperties
  <2>5. \A c : NoneOwn(WireOf(results, queue), c)
    BY <2>4 DEF NoneOwn
  <2> QED
    BY <2>1, <2>5 DEF Owned, PendingOwned, NoneLater
<1>2. TypeOK /\ Owned => PendingIsOwned
  <2> SUFFICES ASSUME TypeOK, Owned, ready
               PROVE  Cardinality(OwnRefreshes) = (IF refreshPending THEN 1 ELSE 0)
    BY DEF PendingIsOwned
  <2>1. Wire = WireOf(results, queue)
    BY DEF Wire, WireOf
  <2>2. OwnRefreshes = {i \in DOMAIN Wire : IsOwn(Wire[i], connection)}
    BY DEF OwnRefreshes, IsOwn
  <2>3. CASE refreshPending
    <3>1. PICK k \in DOMAIN Wire : /\ IsOwn(Wire[k], connection)
                                  /\ \A i \in DOMAIN Wire \ {k} : ~IsOwn(Wire[i], connection)
      BY <2>1, <2>3 DEF Owned, PendingOwned, OneOwn
    <3>2. OwnRefreshes = {k}
      BY <2>2, <3>1
    <3> QED
      BY <2>3, <3>2, FS_Singleton
  <2>4. CASE ~refreshPending
    <3>1. OwnRefreshes = {}
      BY <2>1, <2>2, <2>4 DEF Owned, PendingOwned, NoneOwn
    <3> QED
      BY <2>4, <3>1, FS_EmptySet
  <2> QED
    BY <2>3, <2>4
<1>3. TypeOK /\ Owned /\ [Next]_vars /\ TypeOK' => Owned'
  BY OwnedStep
<1> QED
  BY <1>1, <1>2, <1>3, TypeCorrect, PTL DEF Spec

==============================================================================
