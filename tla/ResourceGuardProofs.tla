------------------------ MODULE ResourceGuardProofs ------------------------
(***************************************************************************)
(* What holds of the resource guard's journal for every set of metrics,    *)
(* every cooldown, batch and retention, and any number of kills, restarts  *)
(* and failures of MySQL.                                                  *)
(***************************************************************************)
EXTENDS ResourceGuard, FiniteSetTheorems, SequenceTheorems, TLAPS

USE GuardAssumption

Incidents == [stop : BOOLEAN, action : Actions, rev : Nat, sent : Nat]
ReadRows == [id : Nat, rev : Nat, action : Actions]

(* Incidents are named by the samples so far, none of them by the next     *)
(* one, and no more of an incident is acknowledged than there is.          *)
JournalOK ==
    /\ DOMAIN journal \subseteq 1 .. now
    /\ \A i \in DOMAIN journal : journal[i].rev >= 1 /\ journal[i].sent <= journal[i].rev

(* A row that was read is of its own incident, which is still there and    *)
(* was not acknowledged since; if the incident did not change either, the  *)
(* row is what the journal says.                                           *)
ReadFromJournal(row) ==
    /\ row.id \in DOMAIN journal
    /\ journal[row.id].sent < row.rev /\ row.rev <= journal[row.id].rev
    /\ row.rev = journal[row.id].rev => row.action = journal[row.id].action

BatchOK ==
    /\ \A n \in DOMAIN batch : ReadFromJournal(batch[n])
    /\ \A m, n \in DOMAIN batch : m # n => batch[m].id # batch[n].id

(* What is committed is the first row.                                     *)
CommittedOK ==
    committed => /\ batch # <<>>
                 /\ batch[1].id \in DOMAIN remote
                 /\ remote[batch[1].id] = batch[1].action

(* The journal and, while it runs, the policy know the last stop.          *)
StopsKnown ==
    /\ \A i \in DOMAIN journal : journal[i].stop => i <= savedStop
    /\ daemon # "down" => lastStop = savedStop

(* The inductive invariant: what is acknowledged is published because rows *)
(* under way are never newer than the journal, and stops are spaced because*)
(* every policy begins with the last one.                                  *)
GuardInv ==
    /\ GuardTypeOK /\ JournalOK /\ BatchOK /\ CommittedOK /\ StopsKnown
    /\ JournalIsTrue

------------------------------------------------------------------------------
(* The names in use are finitely many, and so are the pending ones.        *)
LEMMA PendingSize ==
    ASSUME now \in Nat, JournalOK
    PROVE  Cardinality(Pending) \in Nat
<1>1. IsFiniteSet(1 .. now)
  BY FS_Interval
<1>2. Pending \subseteq 1 .. now
  BY DEF Pending, Unpublished, JournalOK
<1> QED
  BY <1>1, <1>2, FS_Subset, FS_CardinalityType

(* What a queue without its head still holds.                              *)
LEMMA TailOf ==
    ASSUME NEW S, NEW q \in Seq(S), q # <<>>
    PROVE  /\ Tail(q) \in Seq(S) /\ q[1] \in S /\ 1 \in DOMAIN q /\ Head(q) = q[1]
           /\ \A n \in DOMAIN Tail(q) : n + 1 \in DOMAIN q /\ Tail(q)[n] = q[n + 1] /\ n \in Nat /\ n >= 1
<1>1. Len(q) \in Nat /\ Len(q) # 0 /\ DOMAIN q = 1 .. Len(q)
  BY EmptySeq, LenProperties
<1>2. /\ Tail(q) \in Seq(S) /\ Len(Tail(q)) = Len(q) - 1
      /\ \A n \in 1 .. Len(Tail(q)) : Tail(q)[n] = q[n + 1]
  BY HeadTailProperties
<1>3. DOMAIN Tail(q) = 1 .. Len(Tail(q))
  BY <1>2, LenProperties
<1>4. 1 \in 1 .. Len(q) /\ q[1] \in S
  BY <1>1, ElementOfSeq
<1>5. Head(q) = q[1]
  BY HeadTailProperties
<1> QED
  BY <1>1, <1>2, <1>3, <1>4, <1>5

(* The next sample's name is a new one, and what it deletes was            *)
(* acknowledged.                                                           *)
LEMMA SampleChanges ==
    ASSUME GuardInv, NEW over \in SUBSET Metrics, Sample(over), NEW t, t = now + 1
    PROVE  /\ now' = t /\ t \notin DOMAIN journal
           /\ DOMAIN journal' \subseteq DOMAIN journal \cup {t}
           /\ \A i \in DOMAIN journal \ DOMAIN journal' : journal[i].sent = journal[i].rev
           /\ \A i \in DOMAIN journal \cap DOMAIN journal' : journal'[i] = journal[i]
           /\ \/ t \notin DOMAIN journal' /\ lastStop' = lastStop /\ savedStop' = savedStop
              \/ journal'[t] = NewIncident(FALSE) /\ lastStop' = lastStop /\ savedStop' = savedStop
              \/ /\ journal'[t] = NewIncident(TRUE) /\ t - lastStop >= Cooldown
                 /\ lastStop' = t /\ savedStop' = t
<1> DEFINE c == Breached(over)
           stop == StopDue(c, t)
           recorded == IF Decides(c, t) THEN Overrides(journal, t, NewIncident(stop)) ELSE journal
           gone == IF t >= nextPrune THEN Prunable(t) ELSE {}
<1>1. now \in Nat /\ t \notin DOMAIN journal
  BY DEF GuardInv, GuardTypeOK, JournalOK
<1>2. /\ now' = t
      /\ journal' = [i \in DOMAIN recorded \ gone |-> recorded[i]]
      /\ lastStop' = IF stop THEN t ELSE lastStop
      /\ savedStop' = IF stop THEN t ELSE savedStop
  BY DEF Sample
<1>3. /\ gone \subseteq DOMAIN journal
      /\ \A i \in gone : journal[i].sent = journal[i].rev
  BY DEF Prunable
<1>4. stop \in BOOLEAN /\ (stop => Decides(c, t)) /\ (stop => t - lastStop >= Cooldown)
  BY DEF StopDue, Decides
<1> HIDE DEF c, stop, gone
<1>5. CASE Decides(c, t)
  <2>1. DOMAIN recorded = DOMAIN journal \cup {t} /\ recorded[t] = NewIncident(stop)
        /\ \A i \in DOMAIN journal : recorded[i] = journal[i]
    BY <1>1, <1>5 DEF Overrides
  <2> HIDE DEF recorded
  <2>2. t \in DOMAIN journal' /\ journal'[t] = NewIncident(stop)
    BY <1>1, <1>2, <1>3, <2>1
  <2>3. \/ journal'[t] = NewIncident(FALSE) /\ lastStop' = lastStop /\ savedStop' = savedStop
        \/ /\ journal'[t] = NewIncident(TRUE) /\ t - lastStop >= Cooldown
           /\ lastStop' = t /\ savedStop' = t
    <3>1. CASE stop
      <4>1. stop = TRUE
        BY <1>4, <3>1
      <4> QED
        BY <1>2, <1>4, <2>2, <4>1
    <3>2. CASE ~stop
      <4>1. stop = FALSE
        BY <1>4, <3>2
      <4> QED
        BY <1>2, <2>2, <4>1
    <3> QED
      BY <3>1, <3>2
  <2>4. /\ DOMAIN journal' \subseteq DOMAIN journal \cup {t}
        /\ \A i \in DOMAIN journal \ DOMAIN journal' : journal[i].sent = journal[i].rev
        /\ \A i \in DOMAIN journal \cap DOMAIN journal' : journal'[i] = journal[i]
    BY <1>1, <1>2, <1>3, <2>1
  <2> QED
    BY <1>1, <1>2, <2>2, <2>3, <2>4
<1>6. CASE ~Decides(c, t)
  <2>1. recorded = journal /\ ~stop
    BY <1>4, <1>6
  <2> HIDE DEF recorded
  <2> QED
    BY <1>1, <1>2, <1>3, <2>1
<1> QED
  BY <1>5, <1>6

(* Storing an outcome makes a new revision and changes nothing else.       *)
LEMMA ActedFacts ==
    ASSUME NEW x \in Incidents, NEW a \in Actions
    PROVE  /\ Acted(x, a) \in Incidents
           /\ Acted(x, a).rev = x.rev + 1 /\ Acted(x, a).sent = x.sent
           /\ Acted(x, a).stop = x.stop
<1> DEFINE y == [x EXCEPT !.action = a]
<1>1. y \in Incidents /\ y.rev = x.rev /\ y.sent = x.sent /\ y.stop = x.stop
  BY DEF Incidents
<1>2. Acted(x, a) = [y EXCEPT !.rev = x.rev + 1]
  BY Zenon DEF Acted
<1> HIDE DEF y
<1>3. x.rev \in Nat
  BY DEF Incidents
<1> QED
  BY <1>1, <1>2, <1>3 DEF Incidents

LEMMA RowsAreTyped ==
    ASSUME GuardTypeOK
    PROVE  \A n \in DOMAIN batch : batch[n] \in ReadRows /\ n \in Nat /\ n >= 1
<1>1. batch \in Seq(ReadRows)
  BY DEF GuardTypeOK, ReadRows
<1>2. DOMAIN batch = 1 .. Len(batch) /\ Len(batch) \in Nat
  BY <1>1, LenProperties
<1> QED
  BY <1>1, <1>2, ElementOfSeq

(* Steps that change incidents but neither name nor delete one, and give   *)
(* those they change a new revision, keep the invariant.                   *)
LEMMA NewRevisions ==
    ASSUME GuardInv, DOMAIN journal' = DOMAIN journal,
           \A i \in DOMAIN journal :
               \/ journal'[i] = journal[i]
               \/ /\ journal'[i] \in Incidents
                  /\ journal'[i].rev = journal[i].rev + 1 /\ journal'[i].sent = journal[i].sent
                  /\ journal'[i].stop = journal[i].stop,
           UNCHANGED <<now, batch, remote, savedStop, committed>>,
           daemon' # "down" => lastStop' = savedStop
    PROVE  JournalOK' /\ BatchOK' /\ CommittedOK' /\ StopsKnown' /\ JournalIsTrue'
<1>1. /\ now \in Nat /\ savedStop \in Nat /\ \A i \in DOMAIN journal : journal[i] \in Incidents /\ i \in Nat
      /\ batch \in Seq(ReadRows)
  BY DEF GuardInv, GuardTypeOK, Incidents, ReadRows
<1>2. \A i \in DOMAIN journal : /\ journal[i].rev \in Nat /\ journal[i].sent \in Nat
                                /\ journal'[i].rev \in Nat /\ journal'[i].sent = journal[i].sent
                                /\ journal[i].rev <= journal'[i].rev
                                /\ journal'[i].stop = journal[i].stop
                                /\ journal'[i].rev = journal[i].rev => journal'[i] = journal[i]
  BY <1>1 DEF Incidents
<1>3. JournalOK'
  BY <1>1, <1>2 DEF GuardInv, JournalOK
<1>4. BatchOK'
  <2>1. \A n \in DOMAIN batch : batch[n].rev \in Nat
    BY RowsAreTyped DEF GuardInv, ReadRows
  <2>2. ASSUME NEW n \in DOMAIN batch
        PROVE  ReadFromJournal(batch[n])'
    <3>1. ReadFromJournal(batch[n])
      BY DEF GuardInv, BatchOK
    <3> QED
      BY <1>2, <2>1, <3>1 DEF ReadFromJournal
  <2> QED
    BY <2>2 DEF BatchOK, GuardInv
<1>5. CommittedOK'
  BY DEF GuardInv, CommittedOK
<1>6. StopsKnown'
  BY <1>2 DEF GuardInv, StopsKnown
<1>7. AcknowledgedIsPublished'
  <2>1. \A i \in DOMAIN journal : journal'[i].sent = journal'[i].rev =>
                                    journal'[i] = journal[i] /\ journal[i].sent = journal[i].rev
    BY <1>2 DEF GuardInv, JournalOK
  <2> QED
    BY <2>1 DEF GuardInv, JournalIsTrue, AcknowledgedIsPublished
<1>8. StopsAreSpaced'
  BY <1>2 DEF GuardInv, JournalIsTrue, StopsAreSpaced
<1> QED
  BY <1>3, <1>4, <1>5, <1>6, <1>7, <1>8 DEF JournalIsTrue

(* Steps that change neither incidents nor what is published of them.      *)
LEMMA SameJournal ==
    ASSUME GuardInv, UNCHANGED <<now, journal, savedStop>>,
           \/ UNCHANGED <<batch, remote, committed>>
           \/ UNCHANGED remote /\ batch' = <<>> /\ committed' = FALSE,
           daemon' # "down" => lastStop' = savedStop
    PROVE  JournalOK' /\ BatchOK' /\ CommittedOK' /\ StopsKnown' /\ JournalIsTrue'
<1>1. JournalOK' /\ StopsKnown' /\ JournalIsTrue' /\ CommittedOK'
  BY DEF GuardInv, JournalOK, StopsKnown, JournalIsTrue, AcknowledgedIsPublished,
         StopsAreSpaced, CommittedOK
<1>2. BatchOK'
  BY DEF GuardInv, BatchOK, ReadFromJournal
<1> QED
  BY <1>1, <1>2

------------------------------------------------------------------------------
LEMMA InitInvariant == InitGuard => GuardInv
<1> SUFFICES ASSUME InitGuard PROVE GuardInv
  OBVIOUS
<1>1. /\ daemon = "down" /\ now = Cooldown /\ counts = NoBreach /\ lastStop = 0
      /\ lastIncident = 0 /\ nextPrune = 0 /\ journal = <<>> /\ savedStop = 0
      /\ queue = <<>> /\ acting = 0 /\ batch = <<>> /\ committed = FALSE /\ remote = <<>>
      /\ restarts = 0 /\ failures = 0
  BY DEF InitGuard, Nothing
<1>2. DOMAIN <<>> = {}
  OBVIOUS
<1>3. GuardTypeOK
  <2>1. queue \in Seq(Nat) /\ batch \in Seq([id : Nat, rev : Nat, action : Actions])
    BY <1>1, EmptySeq
  <2>2. counts \in [Metrics \cup {"critical"} -> Nat]
    BY <1>1 DEF NoBreach
  <2>3. Cooldown \in Nat /\ 0 \in Nat
    BY DEF GuardAssumption
  <2>4. DOMAIN journal = {} /\ DOMAIN remote = {}
    BY <1>1, <1>2
  <2>5. now \in Nat /\ {lastStop, lastIncident, nextPrune, savedStop, acting} \subseteq Nat
    BY <1>1, <2>3
  <2> QED
    BY <1>1, <2>1, <2>2, <2>3, <2>4, <2>5 DEF GuardTypeOK
<1>4. JournalOK /\ BatchOK /\ CommittedOK /\ StopsKnown /\ JournalIsTrue
  BY <1>1, <1>2 DEF JournalOK, BatchOK, CommittedOK, StopsKnown, JournalIsTrue,
                    AcknowledgedIsPublished, StopsAreSpaced
<1> QED
  BY <1>3, <1>4 DEF GuardInv

(* The type of what a row names, and what is published of it.              *)
LEMMA RemoteTyped ==
    ASSUME GuardTypeOK, batch # <<>>
    PROVE  LET r == Overrides(remote, batch[1].id, batch[1].action)
           IN  /\ batch[1].id \in DOMAIN r /\ r[batch[1].id] = batch[1].action
               /\ DOMAIN r \subseteq Nat /\ \A i \in DOMAIN r : r[i] \in Actions
               /\ \A i \in DOMAIN remote : i \in DOMAIN r /\ (i # batch[1].id => r[i] = remote[i])
<1>1. batch[1] \in ReadRows
  <2>1. batch \in Seq(ReadRows)
    BY DEF GuardTypeOK, ReadRows
  <2> QED
    BY <2>1, TailOf
<1> QED
  BY <1>1 DEF Overrides, ReadRows, GuardTypeOK

(* Publishing a row does not touch what is acknowledged: the row is of an  *)
(* incident that is not.                                                   *)
LEMMA PublishKeeps ==
    ASSUME GuardInv, batch # <<>>, UNCHANGED <<journal, now, savedStop>>,
           remote' = Overrides(remote, batch[1].id, batch[1].action),
           \/ batch' = batch /\ committed' = TRUE
           \/ batch' = <<>> /\ committed' = FALSE,
           daemon' # "down" => lastStop' = savedStop
    PROVE  JournalOK' /\ BatchOK' /\ CommittedOK' /\ StopsKnown' /\ JournalIsTrue'
<1>1. GuardTypeOK /\ JournalOK /\ BatchOK /\ StopsKnown /\ JournalIsTrue
  BY DEF GuardInv
<1>2. JournalOK' /\ StopsKnown' /\ StopsAreSpaced'
  BY <1>1 DEF JournalOK, StopsKnown, JournalIsTrue, StopsAreSpaced
<1>3. BatchOK'
  BY <1>1 DEF BatchOK, ReadFromJournal
<1>4. CommittedOK'
  BY <1>1, RemoteTyped DEF CommittedOK
<1>5. AcknowledgedIsPublished'
  <2>1. 1 \in DOMAIN batch /\ batch[1] \in ReadRows
    <3>1. batch \in Seq(ReadRows)
      BY <1>1 DEF GuardTypeOK, ReadRows
    <3> QED
      BY <3>1, TailOf
  <2>2. journal[batch[1].id].sent # journal[batch[1].id].rev
    BY <1>1, <2>1 DEF BatchOK, ReadFromJournal, ReadRows, GuardTypeOK
  <2> QED
    BY <1>1, <2>2, RemoteTyped DEF JournalIsTrue, AcknowledgedIsPublished
<1> QED
  BY <1>2, <1>3, <1>4, <1>5 DEF JournalIsTrue

(* Acknowledging takes the first row off, and what it acknowledges is what *)
(* was committed, unless the incident has changed since.                   *)
LEMMA AcknowledgeKeeps ==
    ASSUME GuardInv, Acknowledge
    PROVE  GuardInv'
<1>1. /\ GuardTypeOK /\ JournalOK /\ BatchOK /\ CommittedOK /\ StopsKnown
      /\ AcknowledgedIsPublished /\ StopsAreSpaced
  BY DEF GuardInv, JournalIsTrue
<1>2. /\ committed /\ batch # <<>> /\ batch' = Tail(batch) /\ committed' = FALSE
      /\ UNCHANGED <<daemon, now, policyVars, savedStop, actionVars, remote, restarts, failures>>
      /\ journal' = [i \in DOMAIN journal |->
                        IF i = batch[1].id THEN Acknowledged(journal[i], batch[1].rev)
                        ELSE journal[i]]
  BY <1>1 DEF Acknowledge, CommittedOK
<1>3. batch \in Seq(ReadRows)
  BY <1>1 DEF GuardTypeOK, ReadRows
<1>4. /\ Tail(batch) \in Seq(ReadRows) /\ 1 \in DOMAIN batch /\ batch[1] \in ReadRows
      /\ \A n \in DOMAIN Tail(batch) : n + 1 \in DOMAIN batch /\ Tail(batch)[n] = batch[n + 1]
                                        /\ n \in Nat /\ n >= 1
  BY <1>2, <1>3, TailOf
<1>5. \A i \in DOMAIN journal : journal[i] \in Incidents /\ i \in Nat
  BY <1>1 DEF GuardTypeOK, Incidents
<1>6. \A i \in DOMAIN journal :
          /\ journal'[i] \in Incidents
          /\ journal'[i].rev = journal[i].rev /\ journal'[i].stop = journal[i].stop
          /\ journal'[i].action = journal[i].action
          /\ \/ journal'[i] = journal[i]
             \/ i = batch[1].id /\ journal[i].rev = batch[1].rev /\ journal'[i].sent = journal[i].rev
  BY <1>2, <1>4, <1>5 DEF Acknowledged, Incidents, ReadRows
<1>7. DOMAIN journal' = DOMAIN journal
  BY <1>2
<1>8. GuardTypeOK'
  <2>1. \A i \in DOMAIN journal' : journal'[i] \in [stop : BOOLEAN, action : Actions, rev : Nat, sent : Nat]
    BY <1>6, <1>7 DEF Incidents
  <2>2. batch' \in Seq([id : Nat, rev : Nat, action : Actions])
    BY <1>2, <1>4 DEF ReadRows
  <2> QED
    BY <1>1, <1>2, <1>7, <2>1, <2>2 DEF GuardTypeOK, policyVars, actionVars
<1>9. JournalOK'
  BY <1>1, <1>2, <1>5, <1>6, <1>7 DEF JournalOK, Incidents
<1>10. BatchOK'
  <2>1. \A n \in DOMAIN batch' : batch'[n].id # batch[1].id
    BY <1>1, <1>2, <1>4 DEF BatchOK
  <2>2. ASSUME NEW n \in DOMAIN batch'
        PROVE  ReadFromJournal(batch[n])'
    <3>1. batch'[n] = batch[n + 1] /\ ReadFromJournal(batch[n + 1])
      BY <1>1, <1>2, <1>4, <2>2 DEF BatchOK
    <3>2. journal'[batch'[n].id] = journal[batch'[n].id] /\ batch'[n].id \in DOMAIN journal'
      BY <1>6, <1>7, <2>1, <2>2, <3>1 DEF ReadFromJournal
    <3> QED
      BY <3>1, <3>2 DEF ReadFromJournal
  <2>3. \A m, n \in DOMAIN batch' : m # n => batch'[m].id # batch'[n].id
    BY <1>1, <1>2, <1>4 DEF BatchOK
  <2> QED
    BY <2>2, <2>3 DEF BatchOK
<1>11. CommittedOK' /\ StopsKnown'
  BY <1>1, <1>2, <1>6, <1>7 DEF CommittedOK, StopsKnown, policyVars
<1>12. AcknowledgedIsPublished'
  <2>1. remote' = remote /\ batch[1].id \in DOMAIN remote /\ remote[batch[1].id] = batch[1].action
    BY <1>1, <1>2 DEF CommittedOK
  <2>2. batch[1].rev = journal[batch[1].id].rev => batch[1].action = journal[batch[1].id].action
    BY <1>1, <1>4 DEF BatchOK, ReadFromJournal
  <2> QED
    BY <1>1, <1>6, <1>7, <2>1, <2>2 DEF AcknowledgedIsPublished
<1>13. StopsAreSpaced'
  BY <1>1, <1>6, <1>7 DEF StopsAreSpaced
<1> QED
  BY <1>8, <1>9, <1>10, <1>11, <1>12, <1>13 DEF GuardInv, JournalIsTrue

(* The incidents of a start: requests that were left open are closed.      *)
LEMMA StartKeeps ==
    ASSUME GuardInv, Start
    PROVE  GuardInv'
<1>1. \A i \in DOMAIN journal : journal[i] \in Incidents
  BY DEF GuardInv, GuardTypeOK, Incidents
<1>2. /\ journal' = [i \in DOMAIN journal |-> Recovered(i)] /\ lastStop' = savedStop
      /\ UNCHANGED <<now, savedStop, queue, acting, batch, committed, remote, restarts, failures>>
      /\ daemon' = "running" /\ counts' = NoBreach /\ lastIncident' = 0 /\ nextPrune' = 0
  BY DEF Start, InitialStop, actionVars, publisherVars, Nothing
<1>3. "interrupted_no_retry" \in Actions
  BY DEF Actions
<1>4. \A i \in DOMAIN journal :
          \/ journal'[i] = journal[i]
          \/ /\ journal'[i] \in Incidents
             /\ journal'[i].rev = journal[i].rev + 1 /\ journal'[i].sent = journal[i].sent
             /\ journal'[i].stop = journal[i].stop
  BY <1>1, <1>2, <1>3, ActedFacts DEF Recovered
<1>5. JournalOK' /\ BatchOK' /\ CommittedOK' /\ StopsKnown' /\ JournalIsTrue'
  BY <1>2, <1>4, NewRevisions
<1>6. GuardTypeOK'
  <2>1. DOMAIN journal' = DOMAIN journal /\ \A i \in DOMAIN journal' : journal'[i] \in Incidents
    BY <1>1, <1>2, <1>4
  <2>2. counts' \in [Metrics \cup {"critical"} -> Nat]
    BY <1>2 DEF NoBreach
  <2> QED
    BY <1>2, <2>1, <2>2 DEF GuardInv, GuardTypeOK, Incidents
<1> QED
  BY <1>5, <1>6 DEF GuardInv

(* A daemon that dies loses what only memory holds.                        *)
LEMMA DiesKeeps ==
    ASSUME GuardInv, Dies
    PROVE  GuardInv'
<1>1. /\ daemon' = "down" /\ queue' = <<>> /\ acting' = 0 /\ batch' = <<>> /\ committed' = FALSE
      /\ restarts' = restarts + 1
      /\ UNCHANGED <<now, counts, lastStop, lastIncident, nextPrune, journal, savedStop, remote, failures>>
  BY DEF Dies, Nothing, policyVars
<1>2. JournalOK' /\ BatchOK' /\ CommittedOK' /\ StopsKnown' /\ JournalIsTrue'
  BY <1>1, SameJournal
<1>3. queue' \in Seq(Nat) /\ batch' \in Seq([id : Nat, rev : Nat, action : Actions])
  BY <1>1, EmptySeq
<1>4. GuardTypeOK'
  <2>1. /\ daemon' \in {"down", "running", "stopping"} /\ acting' \in Nat /\ committed' \in BOOLEAN
        /\ UNCHANGED <<now, counts, lastStop, lastIncident, nextPrune, journal, savedStop, remote, failures>>
    BY <1>1
  <2>2. restarts' \in Nat
    BY <1>1 DEF GuardInv, GuardTypeOK
  <2> QED
    BY <1>3, <2>1, <2>2 DEF GuardInv, GuardTypeOK
<1> QED
  BY <1>2, <1>4 DEF GuardInv

(* A sample names one incident at most, newer than every stop but for its  *)
(* own, and deletes acknowledged ones only.                                *)
LEMMA SampleKeeps ==
    ASSUME GuardInv, NEW over \in SUBSET Metrics, Sample(over)
    PROVE  GuardInv'
<1>1. /\ GuardTypeOK /\ JournalOK /\ BatchOK /\ CommittedOK /\ StopsKnown
      /\ AcknowledgedIsPublished /\ StopsAreSpaced
  BY DEF GuardInv, JournalIsTrue
<1>0. PICK t : t = now + 1
  OBVIOUS
<1>2. /\ now' = t /\ t \notin DOMAIN journal
      /\ DOMAIN journal' \subseteq DOMAIN journal \cup {t}
      /\ \A i \in DOMAIN journal \ DOMAIN journal' : journal[i].sent = journal[i].rev
      /\ \A i \in DOMAIN journal \cap DOMAIN journal' : journal'[i] = journal[i]
      /\ \/ t \notin DOMAIN journal' /\ lastStop' = lastStop /\ savedStop' = savedStop
         \/ journal'[t] = NewIncident(FALSE) /\ lastStop' = lastStop /\ savedStop' = savedStop
         \/ /\ journal'[t] = NewIncident(TRUE) /\ t - lastStop >= Cooldown
            /\ lastStop' = t /\ savedStop' = t
  BY <1>0, SampleChanges
<1>3. /\ daemon = "running"
      /\ UNCHANGED <<daemon, acting, batch, committed, remote, restarts, failures>>
      /\ counts' = Breached(over)
      /\ queue' = queue \/ queue' = Append(queue, t)
      /\ nextPrune' = nextPrune \/ nextPrune' = t + PruneEvery
      /\ lastIncident' = t \/ lastIncident' = 0 \/ lastIncident' = lastIncident
  BY <1>0 DEF Sample, Nothing, publisherVars
<1>4. /\ now \in Nat /\ t \in Nat /\ t = now + 1 /\ lastStop \in Nat /\ savedStop \in Nat /\ lastStop = savedStop
      /\ \A i \in DOMAIN journal : i \in Nat /\ i >= 1 /\ i <= now /\ journal[i] \in Incidents
  BY <1>0, <1>1, <1>3 DEF GuardTypeOK, StopsKnown, JournalOK, Incidents
<1>5. \A i \in DOMAIN journal' : \/ (i \in DOMAIN journal /\ journal'[i] = journal[i])
                                  \/ i = t
  BY <1>2
<1>6. /\ NewIncident(TRUE) \in Incidents /\ NewIncident(FALSE) \in Incidents
      /\ NewIncident(TRUE).rev = 1 /\ NewIncident(TRUE).sent = 0
      /\ NewIncident(FALSE).rev = 1 /\ NewIncident(FALSE).sent = 0
      /\ ~NewIncident(FALSE).stop
  BY DEF NewIncident, Incidents, Actions
<1>7. ASSUME t \in DOMAIN journal'
      PROVE  /\ journal'[t] \in Incidents
             /\ journal'[t].rev = 1 /\ journal'[t].sent = 0
             /\ journal'[t].stop => (t - lastStop >= Cooldown /\ savedStop' = t)
  BY <1>2, <1>6, <1>7
<1>8. lastStop' = savedStop' /\ (savedStop' = savedStop \/ savedStop' = t)
  BY <1>2, <1>4
<1>9. GuardTypeOK'
  <2>1. DOMAIN journal' \subseteq Nat /\ \A i \in DOMAIN journal' : journal'[i] \in Incidents
    <3> SUFFICES ASSUME NEW i \in DOMAIN journal'
                 PROVE  i \in Nat /\ journal'[i] \in Incidents
      OBVIOUS
    <3>1. CASE i \in DOMAIN journal /\ journal'[i] = journal[i]
      BY <1>4, <3>1
    <3>2. CASE i = t
      BY <1>4, <1>7, <3>2
    <3> QED
      BY <1>5, <3>1, <3>2
  <2>2. counts' \in [Metrics \cup {"critical"} -> Nat]
    <3>1. counts \in [Metrics \cup {"critical"} -> Nat]
      BY <1>1 DEF GuardTypeOK
    <3> QED
      BY <1>3, <3>1 DEF Breached
  <2>3. queue' \in Seq(Nat)
    <3>1. queue \in Seq(Nat)
      BY <1>1 DEF GuardTypeOK
    <3>2. Append(queue, t) \in Seq(Nat)
      BY <1>4, <3>1, AppendProperties
    <3> QED
      BY <1>3, <3>1, <3>2
  <2>4. now' \in Nat /\ nextPrune' \in Nat /\ lastIncident' \in Nat /\ lastStop' \in Nat /\ savedStop' \in Nat
    BY <1>1, <1>2, <1>3, <1>4, <1>8 DEF GuardTypeOK, GuardAssumption
  <2> QED
    BY <1>1, <1>3, <2>1, <2>2, <2>3, <2>4 DEF GuardTypeOK, Incidents
<1>10. JournalOK'
  BY <1>1, <1>2, <1>4, <1>5, <1>7 DEF JournalOK
<1>11. BatchOK'
  <2>1. \A n \in DOMAIN batch : batch[n] \in ReadRows
    BY <1>1, RowsAreTyped
  <2>2. ASSUME NEW n \in DOMAIN batch
        PROVE  ReadFromJournal(batch[n])'
    <3>1. ReadFromJournal(batch[n])
      BY <1>1 DEF BatchOK
    <3>2. journal[batch[n].id].sent # journal[batch[n].id].rev
      BY <1>4, <2>1, <3>1 DEF ReadFromJournal, Incidents, ReadRows
    <3>3. batch[n].id \in DOMAIN journal' /\ journal'[batch[n].id] = journal[batch[n].id]
      BY <1>2, <3>1, <3>2 DEF ReadFromJournal
    <3> QED
      BY <1>3, <3>1, <3>3 DEF ReadFromJournal
  <2> QED
    BY <1>1, <1>3, <2>2 DEF BatchOK
<1>12. CommittedOK'
  BY <1>1, <1>3 DEF CommittedOK
<1>13. StopsKnown'
  BY <1>1, <1>4, <1>5, <1>7, <1>8 DEF StopsKnown
<1>14. AcknowledgedIsPublished'
  BY <1>1, <1>3, <1>5, <1>7 DEF AcknowledgedIsPublished
<1>15. StopsAreSpaced'
  <2> SUFFICES ASSUME NEW i \in DOMAIN journal', NEW j \in DOMAIN journal',
                      journal'[i].stop, journal'[j].stop, i < j
               PROVE  j - i >= Cooldown
    BY DEF StopsAreSpaced
  <2>1. i \in DOMAIN journal /\ journal'[i] = journal[i]
    BY <1>2, <1>4, <1>5
  <2>2. CASE j \in DOMAIN journal
    BY <1>1, <1>2, <2>1, <2>2 DEF StopsAreSpaced
  <2>3. CASE j = t
    <3>1. i \in Nat /\ i <= savedStop /\ t - lastStop >= Cooldown
      BY <1>1, <1>4, <1>7, <2>1, <2>3 DEF StopsKnown
    <3> QED
      BY <1>4, <2>3, <3>1 DEF GuardAssumption
  <2> QED
    BY <1>5, <2>2, <2>3
<1> QED
  BY <1>9, <1>10, <1>11, <1>12, <1>13, <1>14, <1>15 DEF GuardInv, JournalIsTrue

(* The worker takes a stop off the queue.                                  *)
LEMMA StopBeginsKeeps ==
    ASSUME GuardInv, StopBegins
    PROVE  GuardInv'
<1>1. /\ queue # <<>> /\ acting' = Head(queue) /\ queue' = Tail(queue)
      /\ UNCHANGED <<daemon, now, counts, lastStop, lastIncident, nextPrune, journal, savedStop,
                     batch, committed, remote, restarts, failures>>
  BY DEF StopBegins, policyVars, publisherVars
<1>2. queue \in Seq(Nat)
  BY DEF GuardInv, GuardTypeOK
<1>3. acting' \in Nat /\ queue' \in Seq(Nat)
  BY <1>1, <1>2, TailOf
<1>4. daemon' # "down" => lastStop' = savedStop
  BY <1>1 DEF GuardInv, StopsKnown
<1>5. JournalOK' /\ BatchOK' /\ CommittedOK' /\ StopsKnown' /\ JournalIsTrue'
  BY <1>1, <1>4, SameJournal
<1>6. GuardTypeOK'
  BY <1>1, <1>3 DEF GuardInv, GuardTypeOK
<1> QED
  BY <1>5, <1>6 DEF GuardInv

(* The outcome of a stop is a new revision of its incident.                *)
LEMMA StopEndsKeeps ==
    ASSUME GuardInv, NEW outcome \in Outcomes, StopEnds(outcome)
    PROVE  GuardInv'
<1>1. \A i \in DOMAIN journal : journal[i] \in Incidents
  BY DEF GuardInv, GuardTypeOK, Incidents
<1>2. /\ journal' = [i \in DOMAIN journal |->
                        IF i = acting THEN Acted(journal[i], outcome) ELSE journal[i]]
      /\ acting' = 0
      /\ UNCHANGED <<daemon, now, counts, lastStop, lastIncident, nextPrune, savedStop, queue,
                     batch, committed, remote, restarts, failures>>
  BY DEF StopEnds, policyVars, publisherVars, Nothing
<1>3. outcome \in Actions
  BY DEF Actions
<1>4. \A i \in DOMAIN journal :
          \/ journal'[i] = journal[i]
          \/ /\ journal'[i] \in Incidents
             /\ journal'[i].rev = journal[i].rev + 1 /\ journal'[i].sent = journal[i].sent
             /\ journal'[i].stop = journal[i].stop
  BY <1>1, <1>2, <1>3, ActedFacts
<1>5. daemon' # "down" => lastStop' = savedStop
  BY <1>2 DEF GuardInv, StopsKnown
<1>6. JournalOK' /\ BatchOK' /\ CommittedOK' /\ StopsKnown' /\ JournalIsTrue'
  BY <1>2, <1>4, <1>5, NewRevisions
<1>7. DOMAIN journal' = DOMAIN journal /\ \A i \in DOMAIN journal' : journal'[i] \in Incidents
  BY <1>1, <1>2, <1>4
<1>8. GuardTypeOK'
  BY <1>2, <1>7 DEF GuardInv, GuardTypeOK, Incidents
<1> QED
  BY <1>6, <1>8 DEF GuardInv

(* Rows are read of incidents that wait to be published, each once.        *)
LEMMA FetchKeeps ==
    ASSUME GuardInv, Fetch
    PROVE  GuardInv'
<1>1. /\ GuardTypeOK /\ JournalOK /\ CommittedOK /\ StopsKnown /\ JournalIsTrue
      /\ \A i \in DOMAIN journal : journal[i] \in Incidents /\ i \in Nat
  BY DEF GuardInv, GuardTypeOK, Incidents
<1>2. PICK rows \in [1 .. Cardinality(Pending) -> Pending] :
          /\ \A m, n \in DOMAIN rows : m < n => rows[m] < rows[n]
          /\ batch' = [n \in DOMAIN rows |-> Row(rows[n])]
  BY DEF Fetch
<1>3. /\ batch = <<>>
      /\ UNCHANGED <<daemon, now, counts, lastStop, lastIncident, nextPrune, journal, savedStop, queue,
                     acting, committed, remote, restarts, failures>>
  BY DEF Fetch, policyVars, actionVars
<1>4. Cardinality(Pending) \in Nat
  BY <1>1, PendingSize DEF GuardTypeOK
<1>5. \A n \in DOMAIN rows : rows[n] \in Pending
  BY <1>2
<1>6. \A i \in Pending : /\ i \in DOMAIN journal /\ journal[i].sent < journal[i].rev
                         /\ Row(i) \in ReadRows /\ Row(i).id = i
                         /\ Row(i).rev = journal[i].rev /\ Row(i).action = journal[i].action
  <2>1. \A i \in Pending : i \in DOMAIN journal /\ journal[i].rev > journal[i].sent
    BY DEF Pending, Unpublished
  <2>2. \A i \in DOMAIN journal : /\ journal[i].rev \in Nat /\ journal[i].sent \in Nat
                                   /\ journal[i].action \in Actions
    BY <1>1 DEF Incidents
  <2> QED
    BY <1>1, <2>1, <2>2 DEF Row, ReadRows
<1>7. ~committed
  BY <1>1, <1>3 DEF CommittedOK
<1>8. batch' \in Seq(ReadRows)
  <2>1. DOMAIN rows = 1 .. Cardinality(Pending)
    BY <1>2
  <2>2. \A n \in 1 .. Cardinality(Pending) : Row(rows[n]) \in ReadRows
    BY <1>5, <1>6, <2>1
  <2> QED
    BY <1>2, <1>4, <2>1, <2>2, SeqDef
<1>9. BatchOK'
  <2>1. DOMAIN batch' = DOMAIN rows /\ \A n \in DOMAIN rows : batch'[n] = Row(rows[n])
    BY <1>2
  <2>2. ASSUME NEW n \in DOMAIN batch'
        PROVE  ReadFromJournal(batch[n])'
    <3>1. /\ batch'[n].id = rows[n] /\ rows[n] \in DOMAIN journal
          /\ batch'[n].rev = journal[rows[n]].rev /\ batch'[n].action = journal[rows[n]].action
          /\ journal[rows[n]].sent < journal[rows[n]].rev /\ journal[rows[n]].rev \in Nat
      BY <1>1, <1>5, <1>6, <2>1 DEF Incidents
    <3> QED
      BY <1>3, <3>1 DEF ReadFromJournal
  <2>3. ASSUME NEW m \in DOMAIN batch', NEW n \in DOMAIN batch', m # n
        PROVE  batch'[m].id # batch'[n].id
    <3>1. m \in Nat /\ n \in Nat /\ m \in DOMAIN rows /\ n \in DOMAIN rows
      BY <1>2, <1>4, <2>1
    <3>2. batch'[m].id = rows[m] /\ batch'[n].id = rows[n]
      BY <1>5, <1>6, <2>1, <3>1
    <3>3. rows[m] \in Nat /\ rows[n] \in Nat
      BY <1>1, <1>5, <1>6, <3>1
    <3>4. m < n \/ n < m
      BY <2>3, <3>1
    <3> QED
      BY <1>2, <3>1, <3>2, <3>3, <3>4
  <2> QED
    BY <2>2, <2>3 DEF BatchOK
<1>10. JournalOK' /\ StopsKnown' /\ JournalIsTrue' /\ CommittedOK'
  BY <1>1, <1>3, <1>7 DEF JournalOK, StopsKnown, JournalIsTrue, AcknowledgedIsPublished,
                          StopsAreSpaced, CommittedOK
<1>11. GuardTypeOK'
  BY <1>1, <1>3, <1>8 DEF GuardTypeOK, ReadRows
<1> QED
  BY <1>9, <1>10, <1>11 DEF GuardInv

(* A row that is committed is not acknowledged yet.                        *)
LEMMA PublishStepKeeps ==
    ASSUME GuardInv, Publish
    PROVE  GuardInv'
<1>1. /\ batch # <<>> /\ remote' = Overrides(remote, batch[1].id, batch[1].action)
      /\ committed' = TRUE /\ batch' = batch
      /\ UNCHANGED <<daemon, now, counts, lastStop, lastIncident, nextPrune, journal, savedStop, queue,
                     acting, restarts, failures>>
  BY DEF Publish, policyVars, actionVars
<1>2. daemon' # "down" => lastStop' = savedStop
  BY <1>1 DEF GuardInv, StopsKnown
<1>3. JournalOK' /\ BatchOK' /\ CommittedOK' /\ StopsKnown' /\ JournalIsTrue'
  BY <1>1, <1>2, PublishKeeps
<1>4. DOMAIN remote' \subseteq Nat /\ \A i \in DOMAIN remote' : remote'[i] \in Actions
  BY <1>1, RemoteTyped DEF GuardInv
<1>5. GuardTypeOK'
  BY <1>1, <1>4 DEF GuardInv, GuardTypeOK
<1> QED
  BY <1>3, <1>5 DEF GuardInv

(* A flush that fails may have committed its row all the same.             *)
LEMMA FlushFailsKeeps ==
    ASSUME GuardInv, FlushFails
    PROVE  GuardInv'
<1>1. /\ batch # <<>> /\ batch' = <<>> /\ committed' = FALSE /\ failures' = failures + 1
      /\ remote' = remote \/ remote' = Overrides(remote, batch[1].id, batch[1].action)
      /\ UNCHANGED <<daemon, now, counts, lastStop, lastIncident, nextPrune, journal, savedStop, queue,
                     acting, restarts>>
  BY DEF FlushFails, policyVars, actionVars
<1>2. daemon' # "down" => lastStop' = savedStop
  BY <1>1 DEF GuardInv, StopsKnown
<1>3. JournalOK' /\ BatchOK' /\ CommittedOK' /\ StopsKnown' /\ JournalIsTrue'
  BY <1>1, <1>2, PublishKeeps, SameJournal
<1>4. DOMAIN remote' \subseteq Nat /\ \A i \in DOMAIN remote' : remote'[i] \in Actions
  BY <1>1, RemoteTyped DEF GuardInv, GuardTypeOK
<1>5. batch' \in Seq([id : Nat, rev : Nat, action : Actions])
  BY <1>1, EmptySeq
<1>6. GuardTypeOK'
  <2>1. failures \in Nat /\ failures' = failures + 1 /\ committed' \in BOOLEAN
    BY <1>1 DEF GuardInv, GuardTypeOK
  <2>2. UNCHANGED <<daemon, now, counts, lastStop, lastIncident, nextPrune, journal, savedStop, queue,
                    acting, restarts>>
    BY <1>1
  <2> QED
    BY <1>4, <1>5, <2>1, <2>2 DEF GuardInv, GuardTypeOK
<1> QED
  BY <1>3, <1>6 DEF GuardInv

------------------------------------------------------------------------------
LEMMA StepKeepsInvariant == GuardInv /\ [GuardNext]_guardVars => GuardInv'
<1> SUFFICES ASSUME GuardInv, [GuardNext]_guardVars PROVE GuardInv'
  OBVIOUS
<1>1. CASE Start
  BY <1>1, StartKeeps
<1>2. CASE Crash \/ Exit
  BY <1>2, DiesKeeps DEF Crash, Exit
<1>3. CASE Terminate
  <2>1. /\ daemon = "running" /\ daemon' = "stopping"
        /\ UNCHANGED <<now, counts, lastStop, lastIncident, nextPrune, journal, savedStop, queue,
                       acting, batch, committed, remote, restarts, failures>>
    BY <1>3 DEF Terminate, policyVars, actionVars, publisherVars
  <2>2. lastStop' = savedStop
    BY <2>1 DEF GuardInv, StopsKnown
  <2>3. JournalOK' /\ BatchOK' /\ CommittedOK' /\ StopsKnown' /\ JournalIsTrue'
    BY <2>1, <2>2, SameJournal
  <2>4. GuardTypeOK'
    BY <2>1 DEF GuardInv, GuardTypeOK
  <2> QED
    BY <2>3, <2>4 DEF GuardInv
<1>4. CASE \E over \in SUBSET Metrics : Sample(over)
  BY <1>4, SampleKeeps
<1>5. CASE StopBegins
  BY <1>5, StopBeginsKeeps
<1>6. CASE \E outcome \in Outcomes : StopEnds(outcome)
  BY <1>6, StopEndsKeeps
<1>7. CASE Fetch
  BY <1>7, FetchKeeps
<1>8. CASE Publish
  BY <1>8, PublishStepKeeps
<1>9. CASE Acknowledge
  BY <1>9, AcknowledgeKeeps
<1>10. CASE FlushFails
  BY <1>10, FlushFailsKeeps
<1>11. CASE UNCHANGED guardVars
  <2>1. UNCHANGED <<daemon, now, counts, lastStop, lastIncident, nextPrune, journal, savedStop, queue,
                    acting, batch, committed, remote, restarts, failures>>
    BY <1>11 DEF guardVars, policyVars, actionVars, publisherVars
  <2>2. daemon' # "down" => lastStop' = savedStop
    BY <2>1 DEF GuardInv, StopsKnown
  <2>3. JournalOK' /\ BatchOK' /\ CommittedOK' /\ StopsKnown' /\ JournalIsTrue'
    BY <2>1, <2>2, SameJournal
  <2>4. GuardTypeOK'
    BY <2>1 DEF GuardInv, GuardTypeOK
  <2> QED
    BY <2>3, <2>4 DEF GuardInv
<1> QED
  BY <1>1, <1>2, <1>3, <1>4, <1>5, <1>6, <1>7, <1>8, <1>9, <1>10, <1>11 DEF GuardNext

(* What the steps of the guard add up to: the invariant always holds.      *)
THEOREM GuardInvariant == GuardSpec => []GuardInv
<1>1. InitGuard => GuardInv
  BY InitInvariant
<1>2. GuardInv /\ [GuardNext]_guardVars => GuardInv'
  BY StepKeepsInvariant
<1> QED
  BY <1>1, <1>2, PTL DEF GuardSpec

(* The state has its type, whatever is killed or fails.                    *)
THEOREM GuardTypes == GuardSpec => []GuardTypeOK
<1>1. GuardInv => GuardTypeOK
  BY DEF GuardInv
<1> QED
  BY <1>1, GuardInvariant, PTL

(* What the journal says was published stands in MySQL, and two stops are  *)
(* never nearer than the cooldown, also over a restart of the daemon.      *)
THEOREM JournalTruth == GuardSpec => []JournalIsTrue
<1>1. GuardInv => JournalIsTrue
  BY DEF GuardInv
<1> QED
  BY <1>1, GuardInvariant, PTL

(* An incident a sample deletes was published as it was last stored; no    *)
(* other step deletes one.                                                 *)
THEOREM PrunedIncidents == GuardSpec => PrunedWerePublished
<1> DEFINE Pruned == \A i \in DOMAIN journal \ DOMAIN journal' :
                         i \in DOMAIN remote /\ remote[i] = journal[i].action
<1>1. GuardInv /\ [GuardNext]_guardVars => [Pruned]_guardVars
  <2> SUFFICES ASSUME GuardInv, GuardNext PROVE Pruned
    OBVIOUS
  <2>1. CASE \E over \in SUBSET Metrics : Sample(over)
    <3>1. PICK over \in SUBSET Metrics : Sample(over)
      BY <2>1
    <3>2. \A i \in DOMAIN journal \ DOMAIN journal' : journal[i].sent = journal[i].rev
      BY <3>1, SampleChanges
    <3> QED
      BY <3>2 DEF GuardInv, JournalIsTrue, AcknowledgedIsPublished
  <2>2. CASE Start \/ Acknowledge \/ \E outcome \in Outcomes : StopEnds(outcome)
    <3>1. DOMAIN journal' = DOMAIN journal
      BY <2>2 DEF Start, Acknowledge, StopEnds
    <3> QED
      BY <3>1
  <2>3. CASE Crash \/ Terminate \/ Exit \/ StopBegins \/ Fetch \/ Publish \/ FlushFails
    <3>1. journal' = journal
      BY <2>3 DEF Crash, Terminate, Exit, StopBegins, Fetch, Publish, FlushFails, Dies
    <3> QED
      BY <3>1
  <2> QED
    BY <2>1, <2>2, <2>3 DEF GuardNext
<1> QED
  BY <1>1, GuardInvariant, PTL DEF GuardSpec, PrunedWerePublished

==============================================================================
