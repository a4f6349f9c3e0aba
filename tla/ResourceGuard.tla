--------------------------- MODULE ResourceGuard ---------------------------
(***************************************************************************)
(* The resource watchdog (src/tools/resource_guard): a daemon that samples *)
(* the host, journals incidents in a local SQLite file, asks for MGE to be *)
(* stopped when CPU or memory stay critical, and publishes the journal to  *)
(* MySQL from a thread of its own.  A third thread runs the stops.  The    *)
(* daemon is killed and restarted at any point (systemd, Restart=always).  *)
(*                                                                         *)
(* An incident is named by the second it occurred at; samples are one time *)
(* unit apart.  The figures of a sample are abstracted to the set of       *)
(* metrics that are over their thresholds.                                 *)
(***************************************************************************)
EXTENDS Integers, Sequences, FiniteSets

CONSTANTS
    CriticalMetrics,    \* cpu_pct and memory_pct
    OtherMetrics,       \* max_core_pct, iowait_pct, steal_pct
    Breaches,           \* samples in a row before a diagnosis
    StopBreaches,       \* samples in a row before a stop
    Cooldown,           \* between two stops, and between two diagnoses
    Batch,              \* rows one look at the journal returns
    Retention,          \* after which a published incident is deleted
    PruneEvery,
    MaxTime, MaxRestarts, MaxFailures   \* bounds of the model

Metrics == CriticalMetrics \cup OtherMetrics
Times == 0 .. MaxTime
Outcomes == {"mge_stopped", "mge_already_inactive", "mge_stop_failed"}
Actions == Outcomes \cup
           {"diagnostic_only", "mge_stop_pending", "interrupted_no_retry"}
Nothing == 0            \* no incident: the clock starts at Cooldown

ASSUME GuardAssumption ==
    /\ Breaches \in Nat \ {0}
    /\ StopBreaches \in Nat \ {0}
    /\ Cooldown \in Nat \ {0}
    /\ Batch \in Nat \ {0}
    /\ Retention \in Nat
    /\ PruneEvery \in Nat
    /\ {MaxTime, MaxRestarts, MaxFailures} \subseteq Nat

VARIABLES
    daemon,         \* "down", "running" or "stopping"
    now,            \* time of the last sample
    counts,         \* Policy.counts
    lastStop, lastIncident,         \* of Policy
    nextPrune,
    journal,        \* incidents: [time -> [stop, action, rev, sent]]
    savedStop,      \* metadata 'last_stop' of the journal
    queue, acting,  \* the executor's queue and what its worker runs
    batch,          \* rows flush() has read and not acknowledged yet
    committed,      \* the first of them is committed in MySQL
    remote,         \* resource_guard_incidents: [time -> action]
    restarts, failures

policyVars == <<counts, lastStop, lastIncident, nextPrune>>
actionVars == <<queue, acting>>
publisherVars == <<batch, committed>>
guardVars == <<daemon, now, policyVars, journal, savedStop, actionVars,
               publisherVars, remote, restarts, failures>>

Overrides(f, i, e) == [j \in DOMAIN f \cup {i} |-> IF j = i THEN e ELSE f[j]]

NoBreach == [k \in Metrics \cup {"critical"} |-> 0]

InitGuard ==
    /\ daemon = "down" /\ now = Cooldown
    /\ counts = NoBreach /\ lastStop = Nothing /\ lastIncident = Nothing
    /\ nextPrune = 0
    /\ journal = <<>> /\ savedStop = Nothing
    /\ queue = <<>> /\ acting = Nothing
    /\ batch = <<>> /\ committed = FALSE /\ remote = <<>>
    /\ restarts = 0 /\ failures = 0

----------------------------------------------------------------------------
(* The journal.  Its queries are transactions under one lock.              *)

Unpublished == {i \in DOMAIN journal : journal[i].rev > journal[i].sent}

\* The unpublished incidents, the oldest Batch of them.
Pending == {i \in Unpublished :
                Cardinality({j \in Unpublished : j < i}) < Batch}

Acted(incident, action) ==
    [incident EXCEPT !.action = action, !.rev = @ + 1]

\* Acknowledging a revision that is not the latest changes nothing.
Acknowledged_AnyRevision(incident, rev) ==
    [incident EXCEPT !.sent = incident.rev]
Acknowledged(incident, rev) ==
    IF incident.rev = rev THEN [incident EXCEPT !.sent = rev] ELSE incident

Prunable_Unsent(t) == {i \in DOMAIN journal : i < t - Retention}
Prunable(t) == {i \in DOMAIN journal :
                    /\ i < t - Retention
                    /\ journal[i].sent = journal[i].rev}

----------------------------------------------------------------------------
(* The daemon starts, is asked to stop, or dies.                           *)

\* Requests a former daemon left open are closed, never repeated.
Recovered(i) ==
    IF i \in Pending /\ journal[i].action = "mge_stop_pending"
    THEN Acted(journal[i], "interrupted_no_retry")
    ELSE journal[i]

InitialStop_Forgotten == Nothing
InitialStop == savedStop

Start ==
    /\ daemon = "down"
    /\ daemon' = "running"
    /\ journal' = [i \in DOMAIN journal |-> Recovered(i)]
    /\ counts' = NoBreach /\ lastIncident' = Nothing /\ nextPrune' = 0
    /\ lastStop' = InitialStop
    /\ UNCHANGED <<now, savedStop, actionVars, publisherVars, remote,
                   restarts, failures>>

\* What only memory holds is gone: queued stops, the rows being published.
Dies ==
    /\ daemon' = "down"
    /\ queue' = <<>> /\ acting' = Nothing
    /\ batch' = <<>> /\ committed' = FALSE
    /\ restarts' = restarts + 1
    /\ UNCHANGED <<now, policyVars, journal, savedStop, remote, failures>>

Crash ==
    /\ daemon # "down" /\ restarts < MaxRestarts
    /\ Dies

Terminate ==
    /\ daemon = "running" /\ restarts < MaxRestarts
    /\ daemon' = "stopping"
    /\ UNCHANGED <<now, policyVars, journal, savedStop, actionVars,
                   publisherVars, remote, restarts, failures>>

\* The executor is waited for; the publisher for a limited time only.
Exit ==
    /\ daemon = "stopping"
    /\ queue = <<>> /\ acting = Nothing
    /\ Dies

----------------------------------------------------------------------------
(* A sample and what Policy.evaluate makes of it.                          *)

Breached(over) ==
    [k \in Metrics \cup {"critical"} |->
        IF \/ k \in over
           \/ k = "critical" /\ over \cap CriticalMetrics # {}
        THEN counts[k] + 1 ELSE 0]

Ready(c) == {k \in Metrics : c[k] >= Breaches}

StopDue(c, t) ==
    /\ c["critical"] >= StopBreaches
    /\ t - lastStop >= Cooldown

\* A stop is always reported; a diagnosis once per cooldown.
Decides(c, t) ==
    \/ StopDue(c, t)
    \/ Ready(c) # {} /\ t - lastIncident >= Cooldown

NewIncident(stop) ==
    [stop |-> stop, rev |-> 1, sent |-> 0,
     action |-> IF stop THEN "mge_stop_pending" ELSE "diagnostic_only"]

\* Timing assumption: a stop takes at most 40 seconds and an incident is
\* kept for a week, so none is pruned while its stop is under way.
Requested == {queue[n] : n \in DOMAIN queue} \cup ({acting} \ {Nothing})
InTime(t) == \A i \in Requested : t - i <= Retention

Sample(over) ==
    LET t == now + 1
        c == Breached(over)
        stop == StopDue(c, t)
        recorded == IF Decides(c, t)
                    THEN Overrides(journal, t, NewIncident(stop))
                    ELSE journal
        gone == IF t >= nextPrune THEN Prunable(t) ELSE {}
    IN  /\ daemon = "running" /\ now < MaxTime /\ InTime(t)
        /\ now' = t
        /\ counts' = c
        /\ lastIncident' = IF Decides(c, t) THEN t
                           ELSE IF Ready(c) = {} THEN Nothing ELSE lastIncident
        /\ lastStop' = IF stop THEN t ELSE lastStop
        /\ savedStop' = IF stop THEN t ELSE savedStop
        /\ journal' = [i \in DOMAIN recorded \ gone |-> recorded[i]]
        /\ nextPrune' = IF t >= nextPrune THEN t + PruneEvery ELSE nextPrune
        /\ queue' = IF stop THEN Append(queue, t) ELSE queue
        /\ UNCHANGED <<daemon, acting, publisherVars, remote, restarts, failures>>

----------------------------------------------------------------------------
(* The worker that stops MGE: `tf2_service.py stop-mge', 40 seconds.       *)

StopBegins ==
    /\ acting = Nothing /\ queue # <<>>
    /\ acting' = Head(queue) /\ queue' = Tail(queue)
    /\ UNCHANGED <<daemon, now, policyVars, journal, savedStop, publisherVars,
                   remote, restarts, failures>>

\* The outcome is stored if the incident is still there.
StopEnds(outcome) ==
    /\ acting # Nothing
    /\ journal' = [i \in DOMAIN journal |->
                      IF i = acting THEN Acted(journal[i], outcome)
                      ELSE journal[i]]
    /\ acting' = Nothing
    /\ UNCHANGED <<daemon, now, policyVars, savedStop, queue, publisherVars,
                   remote, restarts, failures>>

----------------------------------------------------------------------------
(* The publisher.                                                          *)

Row(i) == [id |-> i, rev |-> journal[i].rev, action |-> journal[i].action]

\* Read the pending rows, oldest first.
Fetch ==
    /\ daemon = "running" /\ batch = <<>> /\ Unpublished # {}
    /\ \E rows \in [1 .. Cardinality(Pending) -> Pending] :
           /\ \A m, n \in DOMAIN rows : m < n => rows[m] < rows[n]
           /\ batch' = [n \in DOMAIN rows |-> Row(rows[n])]
    /\ UNCHANGED <<daemon, now, policyVars, journal, savedStop, actionVars,
                   committed, remote, restarts, failures>>

\* INSERT ... ON DUPLICATE KEY UPDATE, committed.
Publish ==
    /\ batch # <<>> /\ ~committed
    /\ remote' = Overrides(remote, batch[1].id, batch[1].action)
    /\ committed' = TRUE
    /\ UNCHANGED <<daemon, now, policyVars, journal, savedStop, actionVars,
                   batch, restarts, failures>>

Acknowledge ==
    /\ committed
    /\ journal' = [i \in DOMAIN journal |->
                      IF i = batch[1].id
                      THEN Acknowledged(journal[i], batch[1].rev)
                      ELSE journal[i]]
    /\ batch' = Tail(batch) /\ committed' = FALSE
    /\ UNCHANGED <<daemon, now, policyVars, savedStop, actionVars, remote,
                   restarts, failures>>

\* An error of either database ends the flush; a commit whose answer is
\* lost has been applied all the same.
FlushFails ==
    /\ batch # <<>> /\ failures < MaxFailures
    /\ remote' \in {remote, Overrides(remote, batch[1].id, batch[1].action)}
    /\ batch' = <<>> /\ committed' = FALSE
    /\ failures' = failures + 1
    /\ UNCHANGED <<daemon, now, policyVars, journal, savedStop, actionVars,
                   restarts>>

GuardNext ==
    \/ Start \/ Crash \/ Terminate \/ Exit
    \/ \E over \in SUBSET Metrics : Sample(over)
    \/ StopBegins
    \/ \E outcome \in Outcomes : StopEnds(outcome)
    \/ Fetch \/ Publish \/ Acknowledge \/ FlushFails

\* systemd restarts the daemon and lets it end, a thread with something to do goes
\* on, and a stop ends within its 40 seconds.
Supervisor == Start \/ Exit
Executor == StopBegins \/ \E outcome \in Outcomes : StopEnds(outcome)
Publisher == Fetch \/ Publish \/ Acknowledge

GuardFairness ==
    WF_guardVars(Supervisor) /\ WF_guardVars(Executor) /\ WF_guardVars(Publisher)

GuardSpec == InitGuard /\ [][GuardNext]_guardVars
GuardFairSpec == GuardSpec /\ GuardFairness

----------------------------------------------------------------------------

GuardTypeOK ==
    /\ daemon \in {"down", "running", "stopping"}
    /\ now \in Nat
    /\ counts \in [Metrics \cup {"critical"} -> Nat]
    /\ {lastStop, lastIncident, nextPrune, savedStop, acting} \subseteq Nat
    /\ DOMAIN journal \subseteq Nat
    /\ \A i \in DOMAIN journal :
           journal[i] \in [stop : BOOLEAN, action : Actions, rev : Nat, sent : Nat]
    /\ queue \in Seq(Nat)
    /\ batch \in Seq([id : Nat, rev : Nat, action : Actions])
    /\ committed \in BOOLEAN
    /\ DOMAIN remote \subseteq Nat
    /\ \A i \in DOMAIN remote : remote[i] \in Actions
    /\ restarts \in Nat /\ failures \in Nat

\* An incident whose latest revision is acknowledged stands in MySQL as it
\* does in the journal: an acknowledgement that arrives after a newer
\* outcome was stored does not hide it, and nothing older overwrites it.
AcknowledgedIsPublished ==
    \A i \in DOMAIN journal :
        journal[i].sent = journal[i].rev =>
            i \in DOMAIN remote /\ remote[i] = journal[i].action

\* Two stops are at least the cooldown apart, also when the daemon was
\* restarted in between and its policy began anew.
StopsAreSpaced ==
    \A i, j \in DOMAIN journal :
        (journal[i].stop /\ journal[j].stop /\ i < j) => j - i >= Cooldown

\* What the journal says is true, of MySQL and of the stops.
JournalIsTrue == AcknowledgedIsPublished /\ StopsAreSpaced

\* "Unpublished incidents are never discarded": a step that deletes an
\* incident leaves its last outcome in MySQL.
PrunedWerePublished ==
    [][\A i \in DOMAIN journal \ DOMAIN journal' :
            i \in DOMAIN remote /\ remote[i] = journal[i].action]_guardVars

\* An incident that waits to be published is published, unless something
\* newer happens to it first.
IncidentsAreReported ==
    \A i \in Cooldown + 1 .. MaxTime :
        (i \in Unpublished) ~>
            (i \notin DOMAIN journal \/ journal[i].sent = journal[i].rev)

\* An incident that says its stop is pending has one: recover() closes
\* those of a former daemon.
PendingStopsAreOurs ==
    daemon = "running" =>
        \A i \in DOMAIN journal :
            journal[i].action = "mge_stop_pending" =>
                i \in Requested
=============================================================================
