----------------------------- MODULE SpraysProofs -----------------------------
(***************************************************************************)
(* Why the uploads on disk answer the requests that are open, why what is  *)
(* published has been validated and announced, and why a publication waits *)
(* for every peer, for any number of slots, images, requests and uploads.  *)
(***************************************************************************)
EXTENDS Sprays, WellFoundedInduction, TLAPS

USE ClientsAssumption, PublicationAssumption DEF Clients

ClientRecords ==
    [phase : Phases, token : 0 .. MaxTokens, selected : Paths \cup {NoPath},
     wanted : Paths \cup {NoPath}, known : [Paths -> Crcs \cup {NoCrc}],
     requested : SUBSET Paths, target : Crcs \cup {NoCrc},
     active : Crcs \cup {NoCrc}, stage : 0 .. 3,
     barrier : [Clients -> 0 .. MaxSerials], downloads : SUBSET Clients,
     incoming : 0 .. MaxFiles]

(* Uploads are numbered as they come, and only a client whose upload waits *)
(* for the frame holds one.                                                *)
UploadsAreNumbered ==
    /\ \A f \in files : f.id <= sequence
    /\ \A c \in Clients : /\ client[c].incoming <= sequence
                          /\ client[c].incoming # 0 => client[c].phase = "processing"

UploadInv == NoStrayUploads /\ UploadsAnswerTheirRequest /\ UploadsAreNumbered

(* The canonical copies of the images that are textures.                   *)
Validated == {Canonical[i] : i \in ValidImages}

CacheIsValidated ==
    /\ cached \subseteq Images \cup Validated
    /\ \A c \in Clients : client[c].phase = "awaitClear"
                          => client[c].target \in Validated \cap cached

ActiveIsCurrent == \A c \in Clients : client[c].active # NoCrc => Current(c)

SoundInv == PublishedIsValidated /\ PublishedIsAnnounced /\ CacheIsValidated /\ ActiveIsCurrent

(* The phases of a request before its image is published.                  *)
Unpublished == {"uploading", "processing", "awaitClear"}

TokensAreFresh ==
    /\ \A c \in Clients : /\ client[c].token <= nextToken
                          /\ client[c].phase \in Unpublished \cup {"distributing"}
                             => client[c].token # 0
    /\ \A s \in pulls : s.token <= nextToken
    /\ \A c, d \in Clients : client[c].token = client[d].token /\ client[c].token # 0 => c = d

(* A file the engine sends is what its request still has published, or is  *)
(* accounted for by the distribution.                                      *)
PullsAreTracked ==
    /\ \A s \in pulls : Current(s.peer)
    /\ \A s, t \in pulls : s.peer = t.peer /\ s.crc = t.crc => s = t
    /\ \A s \in pulls, c \in Clients : s.token = client[c].token =>
          /\ client[c].phase \in Unpublished => s.crc = client[c].active
          /\ client[c].phase = "distributing" /\ s.crc = client[c].active
             => s.peer \in client[c].downloads

RequestInv == TokensAreFresh /\ PullsAreTracked

(* Peer p has not answered the query c waits for.                          *)
Unanswered(c, p) == client[c].barrier[p] = serial[p]

(* Who owes c an answer is there; a peer that owes two answers since the   *)
(* clear is waited for in the first round, one that owes one more in the   *)
(* second; a peer that has answered since the announcement has the image   *)
(* or has asked for it.                                                    *)
ClearIsAnswered(c, p) ==
    client[c].phase = "awaitClear" =>
        /\ due[c][p] = 3 => client[c].stage \in {0, 1}
        /\ due[c][p] = 3 /\ client[c].stage = 1 => Unanswered(c, p)
        /\ due[c][p] = 2 /\ client[c].stage = 3 => Unanswered(c, p)

HandoffIsAnswered(c, p) ==
    client[c].phase = "distributing" /\ client[c].stage # 0 =>
        /\ due[c][p] # 3
        /\ due[c][p] = 2 => Unanswered(c, p)
        /\ due[c][p] = 1 => client[c].active \in holds[p] \/ Waiting(p, client[c].active)

RoundHolds(c, p) ==
    /\ due[c][p] # 0 => Current(p)
    /\ ClearIsAnswered(c, p)
    /\ HandoffIsAnswered(c, p)

RoundInv == \A c, p \in Clients : RoundHolds(c, p)

IInv == TypeOK /\ UploadInv /\ SoundInv /\ RequestInv /\ RoundInv

------------------------------------------------------------------------------
(* What the type invariant says, variable by variable.                     *)
LEMMA Typed ==
    TypeOK =>
        /\ \A c \in Clients : serial[c] \in 0 .. MaxSerials
        /\ nextToken \in Nat /\ sequence \in Nat
        /\ cached \subseteq Crcs
        /\ \A f \in files : f.id \in 1 .. MaxFiles /\ f.token \in 1 .. MaxTokens
        /\ \A s \in pulls : s.peer \in Clients /\ s.crc \in Crcs /\ s.token \in Nat
        /\ \A a \in asked : a.client \in Clients /\ a.token \in 1 .. MaxTokens /\ a.path \in Paths
        /\ \A q \in queries : q.peer \in Clients /\ q.token \in 1 .. MaxTokens
        /\ \A c \in Clients : info[c] \in Crcs \cup {NoCrc}
        /\ \A c, p \in Clients : due[c][p] \in 0 .. 3
<1> SUFFICES ASSUME TypeOK
             PROVE  /\ \A c \in Clients : serial[c] \in 0 .. MaxSerials
                    /\ nextToken \in Nat /\ sequence \in Nat
                    /\ cached \subseteq Crcs
                    /\ \A f \in files : f.id \in 1 .. MaxFiles /\ f.token \in 1 .. MaxTokens
                    /\ \A s \in pulls : s.peer \in Clients /\ s.crc \in Crcs /\ s.token \in Nat
                    /\ \A a \in asked : a.client \in Clients /\ a.token \in 1 .. MaxTokens /\ a.path \in Paths
                    /\ \A q \in queries : q.peer \in Clients /\ q.token \in 1 .. MaxTokens
                    /\ \A c \in Clients : info[c] \in Crcs \cup {NoCrc}
                    /\ \A c, p \in Clients : due[c][p] \in 0 .. 3
  OBVIOUS
<1>1. \A c \in Clients : serial[c] \in 0 .. MaxSerials
  BY DEF TypeOK, ClientsTypeOK
<1>2. /\ nextToken \in Nat /\ sequence \in Nat
      /\ cached \subseteq Crcs
      /\ \A c \in Clients : info[c] \in Crcs \cup {NoCrc}
  BY DEF TypeOK, PublicationTypeOK
<1>3. \A f \in files : f.id \in 1 .. MaxFiles /\ f.token \in 1 .. MaxTokens
  BY DEF TypeOK, PublicationTypeOK
<1>4. \A s \in pulls : s.peer \in Clients /\ s.crc \in Crcs /\ s.token \in Nat
  <2>1. pulls \subseteq [peer : Clients, crc : Crcs, token : 0 .. MaxTokens]
    BY DEF TypeOK, PublicationTypeOK
  <2> QED
    BY <2>1
<1>5. \A a \in asked : a.client \in Clients /\ a.token \in 1 .. MaxTokens /\ a.path \in Paths
  BY DEF TypeOK, PublicationTypeOK
<1>6. \A q \in queries : q.peer \in Clients /\ q.token \in 1 .. MaxTokens
  BY DEF TypeOK, PublicationTypeOK
<1>7. \A c, p \in Clients : due[c][p] \in 0 .. 3
  <2>1. due \in [Clients -> [Clients -> 0 .. 3]]
    BY DEF TypeOK, PublicationTypeOK
  <2> QED
    BY <2>1
<1> QED
  BY <1>1, <1>2, <1>3, <1>4, <1>5, <1>6, <1>7

(* What an action has to show of its effect on a record for each part.     *)

LEMMA RecordFields ==
    ASSUME NEW r \in ClientRecords
    PROVE  /\ r.phase \in Phases /\ r.token \in 0 .. MaxTokens
           /\ r.selected \in Paths \cup {NoPath} /\ r.wanted \in Paths \cup {NoPath}
           /\ r.known \in [Paths -> Crcs \cup {NoCrc}] /\ r.requested \subseteq Paths
           /\ r.target \in Crcs \cup {NoCrc} /\ r.active \in Crcs \cup {NoCrc}
           /\ r.stage \in 0 .. 3 /\ r.barrier \in [Clients -> 0 .. MaxSerials]
           /\ r.downloads \subseteq Clients /\ r.incoming \in 0 .. MaxFiles
BY DEF ClientRecords

LEMMA ClientTyped == TypeOK => client \in [Clients -> ClientRecords]
BY DEF TypeOK, PublicationTypeOK, ClientRecords

LEMMA ClientTypedNext == TypeOK' => client' \in [Clients -> ClientRecords]
BY DEF TypeOK, PublicationTypeOK, ClientRecords

(* Connection x keeps its upload, or has none, or loses its file.          *)
UploadMoves(x) ==
    \/ /\ client'[x].incoming = client[x].incoming
       /\ \/ client[x].incoming = 0
          \/ client'[x].phase = client[x].phase /\ client'[x].token = client[x].token
    \/ client'[x].incoming = 0 /\ \A f \in files' : f.id # client[x].incoming

LEMMA UploadStep ==
    ASSUME UploadInv, TypeOK, TypeOK', sequence' = sequence, files' \subseteq files,
           \A f \in files' : f.id # packet.loose \/ packet'.loose = packet.loose,
           \A x \in Clients : UploadMoves(x)
    PROVE  UploadInv'
<1>1. /\ \A c \in Clients : client[c].incoming \in 0 .. MaxFiles /\ client'[c].incoming \in 0 .. MaxFiles
      /\ \A f \in files : f.id \in 1 .. MaxFiles
      /\ sequence \in Nat
  BY ClientTyped, ClientTypedNext, RecordFields, Typed
<1>2. NoStrayUploads'
  BY <1>1 DEF NoStrayUploads, UploadInv, UploadMoves
<1>3. UploadsAnswerTheirRequest'
  BY <1>1 DEF UploadsAnswerTheirRequest, UploadInv, UploadMoves
<1>4. UploadsAreNumbered'
  BY <1>1 DEF UploadsAreNumbered, UploadInv, UploadMoves
<1> QED
  BY <1>2, <1>3, <1>4 DEF UploadInv

(* What is to be published at x, and what is, stays validated.             *)
SoundMoves(x) ==
    /\ client'[x].phase = "awaitClear" =>
          \/ client[x].phase = "awaitClear" /\ client'[x].target = client[x].target
          \/ client'[x].target \in Validated \cap cached'
    /\ \/ client'[x].active = NoCrc
       \/ client'[x].active = client[x].active /\ info'[x] = info[x] /\ serial'[x] = serial[x]
       \/ /\ client'[x].active \in Validated \cap cached'
          /\ info'[x] = client'[x].active
          /\ serial'[x] # 0

LEMMA SoundStep ==
    ASSUME SoundInv, cached \subseteq cached', cached' \subseteq Images \cup Validated,
           \A x \in Clients : SoundMoves(x)
    PROVE  SoundInv'
<1>1. PublishedIsValidated'
  BY DEF PublishedIsValidated, SoundInv, SoundMoves, Validated
<1>2. PublishedIsAnnounced'
  BY DEF PublishedIsAnnounced, SoundInv, SoundMoves
<1>3. CacheIsValidated'
  BY DEF CacheIsValidated, SoundInv, SoundMoves
<1>4. ActiveIsCurrent'
  BY DEF ActiveIsCurrent, SoundInv, SoundMoves, Current
<1> QED
  BY <1>1, <1>2, <1>3, <1>4 DEF SoundInv

(* x goes on with its request, ends it, or takes the next number.          *)
Renumbered(x) == nextToken' = nextToken + 1 /\ client'[x].token = nextToken'

RequestMoves(x) ==
    /\ client'[x].token \in {client[x].token, 0} \/ Renumbered(x)
    /\ client'[x].phase \in Unpublished =>
          /\ client'[x].active = client[x].active
          /\ \/ client[x].phase \in Unpublished /\ client'[x].token = client[x].token
             \/ Renumbered(x)
    /\ client'[x].phase = "distributing" =>
          /\ client'[x].token = client[x].token
          /\ \/ client[x].phase = "awaitClear" /\ client'[x].active # client[x].active
             \/ /\ client[x].phase = "distributing"
                /\ client'[x].active = client[x].active
                /\ \A s \in pulls' : s.crc = client[x].active /\ s.peer \in client[x].downloads
                                     => s.peer \in client'[x].downloads

LEMMA RequestStep ==
    ASSUME RequestInv, TypeOK, TypeOK', nextToken' \in {nextToken, nextToken + 1},
           pulls' \subseteq pulls, \A s \in pulls' : serial'[s.peer] # 0,
           \A x \in Clients : RequestMoves(x),
           \A x, y \in Clients : Renumbered(x) /\ Renumbered(y) => x = y
    PROVE  RequestInv'
<1>1. /\ \A c \in Clients : client[c].token \in Nat /\ client'[c].token \in Nat
      /\ \A s \in pulls : s.token \in Nat
      /\ nextToken \in Nat
  BY ClientTyped, ClientTypedNext, RecordFields, Typed
<1>2. TokensAreFresh'
  <2>1. \A c \in Clients : /\ client'[c].token <= nextToken'
                           /\ client'[c].phase \in Unpublished \cup {"distributing"}
                              => client'[c].token # 0
    BY <1>1 DEF TokensAreFresh, RequestInv, RequestMoves, Renumbered, Unpublished
  <2>2. \A s \in pulls' : s.token <= nextToken'
    BY <1>1 DEF TokensAreFresh, RequestInv
  <2>3. ASSUME NEW c \in Clients, NEW d \in Clients,
               client'[c].token = client'[d].token, client'[c].token # 0
        PROVE  c = d
    BY <1>1, <2>3 DEF TokensAreFresh, RequestInv, RequestMoves, Renumbered
  <2> QED
    BY <2>1, <2>2, <2>3 DEF TokensAreFresh
<1>3. PullsAreTracked'
  <2>1. ASSUME NEW s \in pulls', NEW c \in Clients, s.token = client'[c].token
        PROVE  /\ client'[c].phase \in Unpublished => s.crc = client'[c].active
               /\ client'[c].phase = "distributing" /\ s.crc = client'[c].active
                  => s.peer \in client'[c].downloads
    <3>1. s \in pulls /\ s.token <= nextToken /\ RequestMoves(c)
      BY DEF TokensAreFresh, RequestInv
    <3>2. ~Renumbered(c)
      BY <1>1, <2>1, <3>1 DEF Renumbered
    <3> QED
      BY <2>1, <3>1, <3>2 DEF RequestMoves, PullsAreTracked, RequestInv, Unpublished
  <2>2. /\ \A s \in pulls' : Current(s.peer)'
        /\ \A s, t \in pulls' : s.peer = t.peer /\ s.crc = t.crc => s = t
    BY DEF PullsAreTracked, RequestInv, Current
  <2> QED
    BY <2>1, <2>2 DEF PullsAreTracked
<1> QED
  BY <1>2, <1>3 DEF RequestInv

(* Peer p still has to answer x what it had to, or nothing.                *)
RoundMoves(x, p) ==
    /\ due'[x][p] # 0 =>
          /\ serial'[p] # 0
          /\ serial'[p] = serial[p]
          /\ holds[p] \subseteq holds'[p]
          /\ \A s \in pulls : s.peer = p => s \in pulls' \/ s.crc \in holds'[p]
    /\ client'[x].phase \in {"awaitClear", "distributing"} =>
          \/ client'[x].stage = 0
          \/ /\ client'[x].phase = client[x].phase
             /\ client'[x].stage = client[x].stage
             /\ client'[x].barrier[p] = client[x].barrier[p]
             /\ client'[x].active = client[x].active
             /\ due'[x][p] \in {due[x][p], 0}

LEMMA RoundStep ==
    ASSUME RoundInv, NEW x \in Clients, NEW p \in Clients, RoundMoves(x, p)
    PROVE  RoundHolds(x, p)'
<1>0. RoundHolds(x, p)
  BY DEF RoundInv
<1>1. (due[x][p] # 0 => Current(p))'
  BY DEF RoundMoves, Current
<1>2. ClearIsAnswered(x, p)'
  BY <1>0 DEF ClearIsAnswered, RoundHolds, RoundMoves, Unanswered
<1>3. HandoffIsAnswered(x, p)'
  BY <1>0 DEF HandoffIsAnswered, RoundHolds, RoundMoves, Unanswered, Waiting
<1> QED
  BY <1>1, <1>2, <1>3 DEF RoundHolds

(* A step that changes nothing the invariant speaks of at x.               *)
Steady(x) ==
    /\ client'[x].phase = client[x].phase /\ client'[x].token = client[x].token
    /\ client'[x].target = client[x].target /\ client'[x].active = client[x].active
    /\ client'[x].stage = client[x].stage /\ client'[x].barrier = client[x].barrier
    /\ client'[x].downloads = client[x].downloads
    /\ client'[x].incoming = client[x].incoming

LEMMA SteadyMoves ==
    ASSUME NEW x \in Clients, Steady(x), info'[x] = info[x], serial' = serial, holds' = holds,
           pulls' = pulls, RoundInv, due'[x] = due[x]
    PROVE  /\ UploadMoves(x) /\ SoundMoves(x) /\ RequestMoves(x)
           /\ \A p \in Clients : RoundMoves(x, p)
<1>1. UploadMoves(x) /\ SoundMoves(x)
  BY DEF Steady, UploadMoves, SoundMoves
<1>2. RequestMoves(x)
  BY DEF Steady, RequestMoves
<1>3. ASSUME NEW p \in Clients
      PROVE  RoundMoves(x, p)
  BY DEF Steady, RoundMoves, RoundInv, RoundHolds, Current
<1> QED
  BY <1>1, <1>2, <1>3

(* A step that changes the record of one connection.                       *)
LEMMA OneClientStep ==
    ASSUME IInv, TypeOK', NEW c \in Clients,
           \A x \in Clients : x # c => /\ client'[x] = client[x]
                                     /\ info'[x] = info[x]
                                     /\ due'[x] = due[x],
           serial' = serial, sequence' = sequence, pulls' = pulls, holds' = holds,
           nextToken' \in {nextToken, nextToken + 1},
           files' \subseteq files,
           \A f \in files' : f.id # packet.loose \/ packet'.loose = packet.loose,
           cached \subseteq cached', cached' \subseteq Images \cup Validated,
           UploadMoves(c), SoundMoves(c), RequestMoves(c),
           \A p \in Clients : RoundHolds(c, p)'
    PROVE  IInv'
<1>1. ASSUME NEW x \in Clients, x # c
      PROVE  Steady(x) /\ info'[x] = info[x] /\ due'[x] = due[x]
  BY <1>1 DEF Steady
<1>2. ASSUME NEW x \in Clients, x # c
      PROVE  /\ UploadMoves(x) /\ SoundMoves(x) /\ RequestMoves(x)
             /\ \A p \in Clients : RoundMoves(x, p)
  BY <1>1, <1>2, SteadyMoves DEF IInv
<1>3. UploadInv'
  BY <1>2, UploadStep DEF IInv
<1>4. SoundInv'
  BY <1>2, SoundStep DEF IInv
<1>5. RequestInv'
  <2>1. ASSUME NEW x \in Clients, x # c
        PROVE  ~Renumbered(x)
    <3>1. client'[x].token = client[x].token /\ client[x].token <= nextToken
      BY <2>1, <1>1 DEF Steady, IInv, RequestInv, TokensAreFresh
    <3>2. client[x] \in ClientRecords /\ nextToken \in Nat
      BY ClientTyped, Typed DEF IInv
    <3>3. client[x].token \in 0 .. MaxTokens
      BY <3>2, RecordFields
    <3> QED
      BY <3>1, <3>2, <3>3 DEF Renumbered
  <2>2. \A s \in pulls' : serial'[s.peer] # 0
    BY DEF IInv, RequestInv, PullsAreTracked, Current
  <2> QED
    BY <1>2, <2>1, <2>2, RequestStep DEF IInv
<1>6. RoundInv'
  BY <1>2, RoundStep DEF RoundInv, IInv
<1> QED
  BY <1>3, <1>4, <1>5, <1>6 DEF IInv

(* A step that changes nothing of what the requests wait for.              *)
LEMMA SteadyStep ==
    ASSUME IInv, TypeOK', \A x \in Clients : Steady(x),
           serial' = serial, sequence' = sequence, pulls' = pulls, holds' = holds,
           nextToken' = nextToken, info' = info, due' = due, cached' = cached,
           files' \subseteq files,
           \A f \in files' : f.id # packet.loose \/ packet'.loose = packet.loose
    PROVE  IInv'
<1>1. ASSUME NEW x \in Clients
      PROVE  /\ UploadMoves(x) /\ SoundMoves(x) /\ RequestMoves(x)
             /\ \A p \in Clients : RoundMoves(x, p)
  BY SteadyMoves DEF IInv
<1>2. UploadInv'
  BY <1>1, UploadStep DEF IInv
<1>3. SoundInv'
  <2>1. cached \subseteq Images \cup Validated
    BY DEF IInv, SoundInv, CacheIsValidated
  <2> QED
    BY <1>1, <2>1, SoundStep DEF IInv
<1>4. RequestInv'
  <2>1. /\ \A s \in pulls' : serial'[s.peer] # 0
        /\ nextToken \in Nat
    BY Typed DEF IInv, RequestInv, PullsAreTracked, Current
  <2>2. \A x \in Clients : ~Renumbered(x)
    BY <2>1 DEF Renumbered
  <2> QED
    BY <1>1, <2>1, <2>2, RequestStep DEF IInv
<1>5. RoundInv'
  BY <1>1, RoundStep DEF RoundInv, IInv
<1> QED
  BY <1>2, <1>3, <1>4, <1>5 DEF IInv

------------------------------------------------------------------------------
(* Types.                                                                  *)

RestTypeOK ==
    /\ changes \in 0 .. MaxEvents
    /\ nextToken \in 0 .. MaxTokens
    /\ files \subseteq [id : 1 .. MaxFiles, token : 1 .. MaxTokens]
    /\ sequence \in 0 .. MaxFiles
    /\ packet \in [client : 0 .. MaxClients, serial : 0 .. MaxSerials, loose : 0 .. MaxFiles]
    /\ cached \subseteq Crcs
    /\ saved \in [Clients -> [Paths -> Crcs \cup {NoCrc}]]
    /\ info \in [Clients -> Crcs \cup {NoCrc}]
    /\ asked \subseteq [client : Clients, token : 1 .. MaxTokens, path : Paths]
    /\ queries \subseteq [peer : Clients, token : 1 .. MaxTokens]
    /\ pulls \subseteq [peer : Clients, crc : Crcs, token : 0 .. MaxTokens]
    /\ holds \in [Clients -> SUBSET Crcs]
    /\ due \in [Clients -> [Clients -> 0 .. 3]]
    /\ processed \in BOOLEAN

LEMMA TypeParts ==
    /\ TypeOK => ClientsTypeOK /\ RestTypeOK /\ client \in [Clients -> ClientRecords]
    /\ ClientsTypeOK' /\ RestTypeOK' /\ client' \in [Clients -> ClientRecords] => TypeOK'
BY DEF TypeOK, PublicationTypeOK, RestTypeOK, ClientRecords

LEMMA Endings ==
    ASSUME NEW r \in ClientRecords
    PROVE  /\ Fail(r) \in ClientRecords /\ Fail(r).phase = "failed"
           /\ Fail(r).incoming = 0 /\ Fail(r).token = r.token /\ Fail(r).active = r.active
           /\ Idled(r) \in ClientRecords /\ Idled(r).phase = "idle"
           /\ Idled(r).incoming = 0 /\ Idled(r).token = r.token /\ Idled(r).active = r.active
<1>0. "failed" \in Phases /\ "idle" \in Phases /\ 0 \in 0 .. MaxFiles /\ {} \in SUBSET Clients
  BY DEF Phases
<1>1. Fail(r) \in ClientRecords
  BY <1>0 DEF ClientRecords, Fail
<1>2. Idled(r) \in ClientRecords
  BY <1>0 DEF ClientRecords, Idled
<1>3. /\ Fail(r).phase = "failed" /\ Fail(r).incoming = 0
      /\ Fail(r).token = r.token /\ Fail(r).active = r.active
  BY DEF ClientRecords, Fail
<1>4. /\ Idled(r).phase = "idle" /\ Idled(r).incoming = 0
      /\ Idled(r).token = r.token /\ Idled(r).active = r.active
  BY DEF ClientRecords, Idled
<1> QED
  BY <1>1, <1>2, <1>3, <1>4

(* Removing files keeps the others.                                        *)
LEMMA FilesLeft ==
    ASSUME RestTypeOK, NEW ids
    PROVE  /\ Without(ids) \subseteq files
           /\ \A f \in Without(ids) : f.id \notin ids
           /\ Without(ids) \subseteq [id : 1 .. MaxFiles, token : 1 .. MaxTokens]
BY DEF Without, RestTypeOK

(* The connection that ended its request, and what else it lost.           *)
Rests(c) ==
    /\ client'[c].phase \in {"idle", "failed", "ready", "warming"}
    /\ client'[c].active \in {client[c].active, NoCrc}
    /\ client'[c].token = client[c].token \/ client'[c].token = 0 \/ Renumbered(c)
    /\ client'[c].incoming = 0
    /\ client[c].incoming = 0 \/ \A f \in files' : f.id # client[c].incoming

LEMMA RestMoves ==
    ASSUME IInv, NEW c \in Clients, Rests(c), info'[c] = info[c], serial' = serial,
           holds' = holds, pulls' = pulls,
           \A p \in Clients : due'[c][p] = due[c][p] \/ (due'[c][p] # 0 => Current(p))
    PROVE  /\ UploadMoves(c) /\ SoundMoves(c) /\ RequestMoves(c)
           /\ \A p \in Clients : RoundHolds(c, p)'
<1>1. UploadMoves(c) /\ SoundMoves(c)
  BY DEF Rests, UploadMoves, SoundMoves
<1>2. RequestMoves(c)
  BY DEF Rests, RequestMoves, Unpublished
<1>3. ASSUME NEW p \in Clients
      PROVE  RoundMoves(c, p)
  BY DEF Rests, RoundMoves, RoundInv, RoundHolds, Current, IInv
<1> QED
  BY <1>1, <1>2, <1>3, RoundStep DEF IInv

------------------------------------------------------------------------------
(* The natives.                                                            *)

LEMMA CancelKeeps ==
    ASSUME IInv, NEW p \in Plugins, NEW c \in Clients, Cancel(p, c)
    PROVE  IInv'
<1>1. ClientsTypeOK /\ RestTypeOK /\ client \in [Clients -> ClientRecords]
  BY TypeParts DEF IInv
<1>2. /\ client' = [client EXCEPT ![c] = Idled(client[c])]
      /\ files' = Without({client[c].incoming})
      /\ UNCHANGED <<serial, serials, running, owner, turn, changes, nextToken, sequence, packet,
                     cached, saved, info, asked, queries, pulls, holds, due, processed>>
  BY DEF Cancel, Input, RemoveIncoming
<1>3. /\ files' \subseteq files /\ \A f \in files' : f.id # client[c].incoming
      /\ files' \subseteq [id : 1 .. MaxFiles, token : 1 .. MaxTokens]
  BY <1>1, <1>2, FilesLeft
<1>4. TypeOK'
  <2>1. ClientsTypeOK' /\ RestTypeOK'
    BY <1>1, <1>2, <1>3 DEF ClientsTypeOK, RestTypeOK
  <2>2. client' \in [Clients -> ClientRecords]
    BY <1>1, <1>2, Endings
  <2> QED
    BY <2>1, <2>2, TypeParts
<1>5. Rests(c)
  BY <1>1, <1>2, <1>3, Endings DEF Rests
<1>6. /\ UploadMoves(c) /\ SoundMoves(c) /\ RequestMoves(c)
      /\ \A q \in Clients : RoundHolds(c, q)'
  BY <1>2, <1>5, RestMoves
<1>7. cached \subseteq Images \cup Validated
  BY DEF IInv, SoundInv, CacheIsValidated
<1> QED
  BY <1>1, <1>2, <1>3, <1>4, <1>6, <1>7, OneClientStep

(* LoadSelectionCache changes what is known only.                          *)
LEMMA Loaded ==
    ASSUME RestTypeOK, NEW c \in Clients, NEW r \in ClientRecords
    PROVE  LET n == LoadSelectionCache(c, r)
           IN  /\ n \in ClientRecords
               /\ n.phase = r.phase /\ n.token = r.token /\ n.wanted = r.wanted
               /\ n.target = r.target /\ n.active = r.active /\ n.stage = r.stage
               /\ n.barrier = r.barrier /\ n.downloads = r.downloads
               /\ n.incoming = r.incoming
<1> DEFINE k == [p \in Paths |-> IF r.known[p] # NoCrc THEN r.known[p] ELSE saved[c][p]]
<1>1. k \in [Paths -> Crcs \cup {NoCrc}]
  <2>1. r.known \in [Paths -> Crcs \cup {NoCrc}]
    BY RecordFields
  <2>2. saved[c] \in [Paths -> Crcs \cup {NoCrc}]
    BY DEF RestTypeOK
  <2> QED
    BY <2>1, <2>2
<1>2. LoadSelectionCache(c, r) = [r EXCEPT !.known = k]
  BY DEF LoadSelectionCache
<1> HIDE DEF k
<1> QED
  BY <1>1, <1>2 DEF ClientRecords

(* The record a watched selection leaves.                                  *)
WatchedRecord(r, path, k) == [r EXCEPT !.wanted = path, !.known[path] = k]

LEMMA Watched ==
    ASSUME NEW r \in ClientRecords, NEW path \in Paths, NEW k \in Crcs \cup {NoCrc}
    PROVE  LET n == WatchedRecord(r, path, k)
           IN  /\ n \in ClientRecords
               /\ n.phase = r.phase /\ n.token = r.token
               /\ n.target = r.target /\ n.active = r.active /\ n.stage = r.stage
               /\ n.barrier = r.barrier /\ n.downloads = r.downloads
               /\ n.incoming = r.incoming
<1> DEFINE l == [r.known EXCEPT ![path] = k]
<1>1. l \in [Paths -> Crcs \cup {NoCrc}]
  BY RecordFields
<1>2. WatchedRecord(r, path, k) = [r EXCEPT !.wanted = path, !.known = l]
  BY DEF ClientRecords, WatchedRecord
<1>3. path \in Paths \cup {NoPath}
  OBVIOUS
<1> HIDE DEF l
<1> DEFINE n == [r EXCEPT !.wanted = path, !.known = l]
<1>4. n \in ClientRecords
  BY <1>1, <1>3 DEF ClientRecords
<1>5. /\ n.phase = r.phase /\ n.token = r.token
      /\ n.target = r.target /\ n.active = r.active /\ n.stage = r.stage
      /\ n.barrier = r.barrier /\ n.downloads = r.downloads
      /\ n.incoming = r.incoming
  BY DEF ClientRecords
<1> HIDE DEF n
<1> QED
  BY <1>2, <1>4, <1>5 DEF n

LEMMA WatchKeeps ==
    ASSUME IInv, NEW p \in Plugins, NEW c \in Clients, NEW path \in Paths, NEW first \in BOOLEAN,
           Watch(p, c, path, first)
    PROVE  IInv'
<1>1. ClientsTypeOK /\ RestTypeOK /\ client \in [Clients -> ClientRecords]
  BY TypeParts DEF IInv
<1> DEFINE r == LoadSelectionCache(c, client[c])
<1>2. r \in ClientRecords
  BY <1>1, Loaded
<1>3. PICK k \in Crcs \cup {NoCrc} :
         client' = [client EXCEPT ![c] = WatchedRecord(r, path, k)]
  <2>1. info[c] \in Crcs \cup {NoCrc} /\ r.known[path] \in Crcs \cup {NoCrc}
    BY <1>1, <1>2, RecordFields DEF RestTypeOK
  <2> DEFINE associates == /\ first /\ r.requested = {} /\ running
                           /\ info[c] # NoCrc
                           /\ r.known[path] # Canon(info[c])
             k == IF associates THEN info[c] ELSE r.known[path]
  <2>2. client' = [client EXCEPT ![c] = WatchedRecord(r, path, k)]
    BY DEF Watch, WatchedRecord
  <2> HIDE DEF r, associates
  <2>3. k \in Crcs \cup {NoCrc}
    BY <2>1
  <2> HIDE DEF k
  <2> QED
    BY <2>2, <2>3
<1>4. /\ owner' \in Plugins \cup {NoPlugin}
      /\ changes' \in 0 .. MaxEvents
      /\ UNCHANGED <<serial, serials, running, turn, nextToken, files, sequence, packet, cached,
                     saved, info, asked, queries, pulls, holds, due, processed>>
  <2>1. owner' \in Plugins \cup {NoPlugin}
    BY DEF Watch, Claim
  <2>2. changes' \in 0 .. MaxEvents
    <3>1. changes \in 0 .. MaxEvents /\ serials \in 0 .. MaxSerials
      BY <1>1 DEF ClientsTypeOK, RestTypeOK
    <3>2. changes' = changes \/ (serials + changes < MaxEvents /\ changes' = changes + 1)
      BY DEF Watch
    <3> QED
      BY <3>1, <3>2
  <2> QED
    BY <2>1, <2>2 DEF Watch, Input
<1>5. client'[c] \in ClientRecords /\ client' \in [Clients -> ClientRecords] /\ Steady(c)
  <2>1. client'[c] = WatchedRecord(r, path, k)
    BY <1>1, <1>3
  <2>2. /\ r.phase = client[c].phase /\ r.token = client[c].token
        /\ r.target = client[c].target /\ r.active = client[c].active
        /\ r.stage = client[c].stage /\ r.barrier = client[c].barrier
        /\ r.downloads = client[c].downloads /\ r.incoming = client[c].incoming
    BY <1>1, Loaded
  <2> HIDE DEF r
  <2> DEFINE n == WatchedRecord(r, path, k)
  <2>4. /\ n \in ClientRecords
        /\ n.phase = r.phase /\ n.token = r.token
        /\ n.target = r.target /\ n.active = r.active /\ n.stage = r.stage
        /\ n.barrier = r.barrier /\ n.downloads = r.downloads
        /\ n.incoming = r.incoming
    BY <1>2, Watched
  <2>5. client'[c] = n
    BY <2>1
  <2> HIDE DEF n
  <2>3. client'[c] \in ClientRecords /\ Steady(c)
    BY <2>4, <2>5, <2>2 DEF Steady
  <2> QED
    BY <1>1, <1>3, <2>1, <2>3
<1>6. \A x \in Clients : Steady(x)
  BY <1>1, <1>3, <1>5 DEF Steady
<1>7. TypeOK'
  <2>1. ClientsTypeOK' /\ RestTypeOK'
    BY <1>1, <1>4 DEF ClientsTypeOK, RestTypeOK
  <2> QED
    BY <2>1, <1>5, TypeParts
<1> QED
  BY <1>4, <1>6, <1>7, SteadyStep

(* PreparePublication opens the barrier and touches no upload.             *)
LEMMA Prepared ==
    ASSUME NEW r \in ClientRecords, NEW k \in Crcs
    PROVE  LET n == PreparePublication(r, k)
           IN  /\ n \in ClientRecords
               /\ n.phase = "awaitClear" /\ n.target = k /\ n.stage = 0
               /\ n.token = r.token /\ n.active = r.active /\ n.incoming = r.incoming
<1>1. /\ "awaitClear" \in Phases /\ {} \in SUBSET Clients /\ 0 \in 0 .. 3
      /\ k \in Crcs \cup {NoCrc}
  BY DEF Phases
<1>2. Nobody \in [Clients -> 0 .. MaxSerials]
  BY DEF Nobody
<1>3. PreparePublication(r, k) \in ClientRecords
  BY <1>1, <1>2 DEF ClientRecords, PreparePublication
<1> QED
  BY <1>3 DEF ClientRecords, PreparePublication

(* What is valid and in the cache has a validated canonical copy.          *)
LEMMA CanonValidated ==
    ASSUME IInv, NEW k \in cached, Valid(k)
    PROVE  Canon(k) \in Validated /\ Canon(k) \in Crcs
BY DEF IInv, SoundInv, CacheIsValidated, Valid, ValidCrcs, Canon, Validated, Crcs

(* A request for a selection that is known: it is validated again, or      *)
(* fails.                                                                  *)
LEMMA RequestKnownKeeps ==
    ASSUME IInv, NEW c \in Clients, NEW r \in ClientRecords, NEW path \in Paths,
           RequestKnown(c, r, path), r.phase = client[c].phase, r.phase \notin Busy,
           r.incoming = client[c].incoming, r.active = client[c].active, Current(c),
           ClientsTypeOK',
           UNCHANGED <<serial, changes, sequence, packet, saved, info, queries, pulls, holds,
                       processed>>
    PROVE  IInv'
<1>1. RestTypeOK /\ client \in [Clients -> ClientRecords]
  BY TypeParts DEF IInv
<1> DEFINE crc == r.known[path]
           chosen == [r EXCEPT !.selected = path, !.token = nextToken']
           learnt == [chosen EXCEPT !.known[path] = Canon(crc)]
<1>2. /\ crc \in cached /\ crc \in Crcs
      /\ nextToken' = nextToken + 1 /\ nextToken' \in 0 .. MaxTokens
      /\ files' = Without({r.incoming}) /\ asked' = asked
  BY <1>1 DEF RequestKnown, RemoveIncoming, RestTypeOK
<1>3. client[c].incoming = 0 /\ cached \subseteq Images \cup Validated
  BY DEF IInv, UploadInv, UploadsAreNumbered, SoundInv, CacheIsValidated, Busy
<1>4. /\ files' \subseteq files
      /\ files' \subseteq [id : 1 .. MaxFiles, token : 1 .. MaxTokens]
  BY <1>1, <1>2, FilesLeft
<1>5. /\ chosen \in ClientRecords /\ chosen.phase = r.phase /\ chosen.token = nextToken'
      /\ chosen.active = r.active /\ chosen.incoming = r.incoming /\ chosen.known = r.known
  BY <1>2 DEF ClientRecords
<1>6. CASE /\ Valid(crc)
           /\ client' = [client EXCEPT ![c] = PreparePublication(learnt, Canon(crc))]
           /\ cached' = cached \cup {Canon(crc)}
           /\ due' = [due EXCEPT ![c] = OwedAfterClear]
  <2>1. Canon(crc) \in Validated /\ Canon(crc) \in Crcs
    BY <1>2, <1>6, CanonValidated
  <2>2. /\ learnt \in ClientRecords /\ learnt.phase = r.phase /\ learnt.token = nextToken'
        /\ learnt.active = r.active /\ learnt.incoming = r.incoming
    <3> DEFINE l == [chosen.known EXCEPT ![path] = Canon(crc)]
    <3>1. l \in [Paths -> Crcs \cup {NoCrc}]
      BY <1>5, <2>1, RecordFields
    <3>2. learnt = [chosen EXCEPT !.known = l]
      BY <1>5 DEF ClientRecords
    <3> HIDE DEF l, chosen, crc
    <3> QED
      BY <1>5, <3>1, <3>2 DEF ClientRecords
  <2> HIDE DEF learnt, chosen, crc
  <2> DEFINE n == PreparePublication(learnt, Canon(crc))
  <2>3. /\ n \in ClientRecords
        /\ n.phase = "awaitClear" /\ n.target = Canon(crc) /\ n.stage = 0
        /\ n.token = nextToken' /\ n.active = client[c].active /\ n.incoming = 0
    BY <1>3, <2>1, <2>2, Prepared
  <2>4. client' = [client EXCEPT ![c] = n]
    BY <1>6
  <2> HIDE DEF n
  <2>5. client'[c] = n /\ client' \in [Clients -> ClientRecords]
    BY <1>1, <2>3, <2>4
  <2>6. OwedAfterClear \in [Clients -> 0 .. 3]
    BY DEF OwedAfterClear
  <2>7. TypeOK'
    <3>1. RestTypeOK'
      BY <1>1, <1>2, <1>4, <1>6, <2>1, <2>6 DEF RestTypeOK
    <3> QED
      BY <2>5, <3>1, TypeParts
  <2>8. UploadMoves(c)
    BY <1>3, <2>3, <2>5 DEF UploadMoves
  <2>9. SoundMoves(c)
    BY <1>6, <2>1, <2>3, <2>5 DEF SoundMoves
  <2>10. RequestMoves(c)
    BY <1>2, <2>3, <2>5 DEF RequestMoves, Renumbered, Unpublished
  <2>11. ASSUME NEW p \in Clients
         PROVE  RoundHolds(c, p)'
    <3>1. due'[c][p] # 0 => serial[p] # 0
      BY <1>1, <1>6 DEF OwedAfterClear, Current, RestTypeOK
    <3>2. RoundMoves(c, p)
      BY <2>3, <2>5, <3>1 DEF RoundMoves
    <3> QED
      BY <3>2, RoundStep DEF IInv
  <2>12. cached \subseteq cached' /\ cached' \subseteq Images \cup Validated
    BY <1>3, <1>6, <2>1
  <2>13. \A x \in Clients : x # c => /\ client'[x] = client[x]
                                     /\ info'[x] = info[x]
                                     /\ due'[x] = due[x]
    BY <1>1, <1>6, <2>4 DEF RestTypeOK
  <2> QED
    BY <1>2, <1>4, <2>7, <2>8, <2>9, <2>10, <2>11, <2>12, <2>13, OneClientStep
<1>7. CASE client' = [client EXCEPT ![c] = Fail(chosen)] /\ UNCHANGED <<cached, due>>
  <2> HIDE DEF chosen
  <2> DEFINE n == Fail(chosen)
  <2>1. /\ n \in ClientRecords /\ n.phase = "failed" /\ n.incoming = 0
        /\ n.token = nextToken' /\ n.active = client[c].active
    BY <1>5, Endings
  <2>2. client' = [client EXCEPT ![c] = n]
    BY <1>7
  <2> HIDE DEF n
  <2>3. client'[c] = n /\ client' \in [Clients -> ClientRecords]
    BY <1>1, <2>1, <2>2
  <2>4. TypeOK'
    <3>1. RestTypeOK'
      BY <1>1, <1>2, <1>4, <1>7 DEF RestTypeOK
    <3> QED
      BY <2>3, <3>1, TypeParts
  <2>5. Rests(c)
    BY <1>2, <1>3, <2>1, <2>3 DEF Rests, Renumbered
  <2>6. /\ UploadMoves(c) /\ SoundMoves(c) /\ RequestMoves(c)
        /\ \A q \in Clients : RoundHolds(c, q)'
    BY <1>7, <2>5, RestMoves
  <2>7. \A x \in Clients : x # c => client'[x] = client[x]
    BY <1>1, <2>2
  <2> QED
    BY <1>2, <1>3, <1>4, <1>7, <2>4, <2>6, <2>7, OneClientStep
<1> QED
  BY <1>6, <1>7 DEF RequestKnown

(* A request that asks the client, or is one too many.                     *)
LEMMA RequestUploadKeeps ==
    ASSUME IInv, NEW c \in Clients, NEW r \in ClientRecords, NEW path \in Paths,
           RequestUpload(c, r, path), r.phase = client[c].phase, r.phase \notin Busy,
           r.incoming = client[c].incoming, r.active = client[c].active,
           ClientsTypeOK',
           UNCHANGED <<serial, changes, sequence, packet, saved, info, queries, pulls, holds,
                       processed>>
    PROVE  IInv'
<1>1. RestTypeOK /\ client \in [Clients -> ClientRecords]
  BY TypeParts DEF IInv
<1>2. /\ nextToken' = nextToken + 1 /\ nextToken' \in 0 .. MaxTokens
      /\ nextToken' \in 1 .. MaxTokens
      /\ UNCHANGED <<cached, due>>
  BY <1>1 DEF RequestUpload, RestTypeOK
<1>3. client[c].incoming = 0 /\ cached \subseteq Images \cup Validated
  BY DEF IInv, UploadInv, UploadsAreNumbered, SoundInv, CacheIsValidated, Busy
<1>4. ASSUME NEW n \in ClientRecords, client' = [client EXCEPT ![c] = n],
             n.token = nextToken', n.active = client[c].active, n.incoming = 0,
             n.phase \in {"failed", "uploading"},
             files' \subseteq files,
             asked' \subseteq [client : Clients, token : 1 .. MaxTokens, path : Paths]
      PROVE  IInv'
  <2>1. client'[c] = n /\ client' \in [Clients -> ClientRecords]
    BY <1>1, <1>4
  <2>2. TypeOK'
    <3>1. RestTypeOK'
      BY <1>1, <1>2, <1>4 DEF RestTypeOK
    <3> QED
      BY <2>1, <3>1, TypeParts
  <2>3. UploadMoves(c)
    BY <1>3, <1>4, <2>1 DEF UploadMoves
  <2>4. SoundMoves(c)
    BY <1>4, <2>1 DEF SoundMoves
  <2>5. RequestMoves(c)
    BY <1>2, <1>4, <2>1 DEF RequestMoves, Renumbered, Unpublished
  <2>6. ASSUME NEW p \in Clients
        PROVE  RoundHolds(c, p)'
    <3>1. RoundMoves(c, p)
      BY <1>2, <1>4, <2>1 DEF RoundMoves, IInv, RoundInv, RoundHolds, Current
    <3> QED
      BY <3>1, RoundStep DEF IInv
  <2>7. \A x \in Clients : x # c => client'[x] = client[x]
    BY <1>1, <1>4
  <2> QED
    BY <1>2, <1>3, <1>4, <2>2, <2>3, <2>4, <2>5, <2>6, <2>7, OneClientStep
<1>5. CASE /\ client' = [client EXCEPT ![c] = Fail([r EXCEPT !.token = nextToken'])]
           /\ files' = RemoveIncoming(r)
           /\ UNCHANGED asked
  <2> DEFINE m == [r EXCEPT !.token = nextToken']
  <2>1. m \in ClientRecords /\ m.token = nextToken' /\ m.active = r.active
    BY <1>2 DEF ClientRecords
  <2>2. client' = [client EXCEPT ![c] = Fail(m)]
    BY <1>5
  <2> HIDE DEF m
  <2>3. /\ Fail(m) \in ClientRecords /\ Fail(m).phase = "failed"
        /\ Fail(m).incoming = 0 /\ Fail(m).token = nextToken' /\ Fail(m).active = client[c].active
    BY <2>1, Endings
  <2>4. files' \subseteq files
    BY <1>1, <1>5, FilesLeft DEF RemoveIncoming
  <2> QED
    BY <1>1, <1>4, <1>5, <2>2, <2>3, <2>4 DEF RestTypeOK
<1>6. CASE /\ client' = [client EXCEPT ![c] =
                 [r EXCEPT !.selected = path, !.requested = @ \cup {path},
                           !.token = nextToken', !.phase = "uploading"]]
           /\ asked' = asked \cup {[client |-> c, token |-> nextToken', path |-> path]}
           /\ UNCHANGED files
  <2> DEFINE m == [r EXCEPT !.selected = path, !.requested = r.requested \cup {path},
                            !.token = nextToken', !.phase = "uploading"]
  <2>1. /\ "uploading" \in Phases /\ path \in Paths \cup {NoPath}
        /\ r.requested \cup {path} \in SUBSET Paths
    BY RecordFields DEF Phases
  <2>2. m \in ClientRecords
    BY <1>2, <2>1 DEF ClientRecords
  <2>3. /\ m.token = nextToken' /\ m.active = r.active /\ m.incoming = r.incoming
        /\ m.phase = "uploading"
    BY DEF ClientRecords
  <2>4. client' = [client EXCEPT ![c] = m]
    BY <1>6
  <2> HIDE DEF m
  <2>5. asked' \subseteq [client : Clients, token : 1 .. MaxTokens, path : Paths]
    BY <1>1, <1>2, <1>6 DEF RestTypeOK
  <2> QED
    BY <1>3, <1>4, <1>6, <2>2, <2>3, <2>4, <2>5
<1> QED
  BY <1>5, <1>6 DEF RequestUpload

LEMMA RequestKeeps ==
    ASSUME IInv, NEW p \in Plugins, NEW c \in Clients, NEW force \in BOOLEAN,
           Request(p, c, force)
    PROVE  IInv'
<1>1. ClientsTypeOK /\ RestTypeOK /\ client \in [Clients -> ClientRecords]
  BY TypeParts DEF IInv
<1> DEFINE r == LoadSelectionCache(c, client[c])
<1>2. /\ r \in ClientRecords /\ r.phase = client[c].phase /\ r.wanted = client[c].wanted
      /\ r.incoming = client[c].incoming /\ r.active = client[c].active
  BY <1>1, Loaded
<1>3. /\ RequestKnown(c, r, r.wanted) \/ RequestUpload(c, r, r.wanted)
      /\ r.phase \notin Busy /\ Current(c) /\ client[c].wanted # NoPath
      /\ UNCHANGED <<serial, serials, running, turn, changes, sequence, packet, saved, info, queries,
                     pulls, holds, processed>>
      /\ owner' \in Plugins \cup {NoPlugin}
  BY DEF Request, Input, Claim
<1> HIDE DEF r
<1>4. r.wanted \in Paths
  BY <1>2, <1>3, RecordFields
<1>5. ClientsTypeOK'
  BY <1>1, <1>3 DEF ClientsTypeOK
<1> QED
  BY <1>2, <1>3, <1>4, <1>5, RequestKnownKeeps, RequestUploadKeeps

(* A step by which no request gets a number.                               *)
LEMMA NoRequestStep ==
    ASSUME IInv, TypeOK', nextToken' = nextToken,
           pulls' \subseteq pulls, \A s \in pulls' : serial'[s.peer] # 0,
           cached' = cached,
           \A x \in Clients : SoundMoves(x) /\ RequestMoves(x),
           \A x, p \in Clients : RoundHolds(x, p)'
    PROVE  SoundInv' /\ RequestInv' /\ RoundInv'
<1>1. SoundInv'
  <2>1. cached \subseteq Images \cup Validated
    BY DEF IInv, SoundInv, CacheIsValidated
  <2> QED
    BY <2>1, SoundStep DEF IInv
<1>2. RequestInv'
  <2>1. \A x \in Clients : ~Renumbered(x)
    BY Typed DEF Renumbered, IInv
  <2> QED
    BY <2>1, RequestStep DEF IInv
<1> QED
  BY <1>1, <1>2 DEF RoundInv

(* The record of one who waits for one answer less.                        *)
AckedRecord(r, p) == [r EXCEPT !.barrier[p] = 0]

LEMMA Acked ==
    ASSUME NEW r \in ClientRecords, NEW p \in Clients
    PROVE  LET n == AckedRecord(r, p)
           IN  /\ n \in ClientRecords
               /\ n.phase = r.phase /\ n.token = r.token
               /\ n.target = r.target /\ n.active = r.active /\ n.stage = r.stage
               /\ n.barrier = [r.barrier EXCEPT ![p] = 0] /\ n.downloads = r.downloads
               /\ n.incoming = r.incoming
<1> DEFINE l == [r.barrier EXCEPT ![p] = 0]
<1>1. l \in [Clients -> 0 .. MaxSerials]
  BY RecordFields
<1>2. AckedRecord(r, p) = [r EXCEPT !.barrier = l]
  BY DEF ClientRecords, AckedRecord
<1> HIDE DEF l
<1>3. AckedRecord(r, p) \in ClientRecords
  BY <1>1, <1>2 DEF ClientRecords
<1>4. LET n == AckedRecord(r, p)
      IN  /\ n.phase = r.phase /\ n.token = r.token
          /\ n.target = r.target /\ n.active = r.active /\ n.stage = r.stage
          /\ n.barrier = l /\ n.downloads = r.downloads
          /\ n.incoming = r.incoming
  BY <1>2 DEF ClientRecords
<1> QED
  BY <1>3, <1>4 DEF l

LEMMA BarrierAckKeeps ==
    ASSUME IInv, NEW q \in queries, BarrierAck(q)
    PROVE  IInv'
<1>1. ClientsTypeOK /\ RestTypeOK /\ client \in [Clients -> ClientRecords]
  BY TypeParts DEF IInv
<1> DEFINE waiting == {c \in Clients : /\ client[c].token = q.token
                                       /\ client[c].phase \in {"awaitClear", "distributing"}
                                       /\ client[c].barrier[q.peer] = serial[q.peer]}
           Owes(c) == c \in waiting /\ due[c][q.peer] > 1
<1>2. /\ serial[q.peer] # 0 /\ q.peer \in Clients
      /\ \A c \in waiting : client[c].phase = "distributing" =>
            client[c].active \in holds[q.peer] \/ Waiting(q.peer, client[c].active)
      /\ queries' = queries \ {q}
      /\ client' = [c \in Clients |-> IF c \in waiting THEN AckedRecord(client[c], q.peer) ELSE client[c]]
      /\ due' = [c \in Clients |-> IF c \in waiting /\ due[c][q.peer] > 1
                    THEN [due[c] EXCEPT ![q.peer] = due[c][q.peer] - 1] ELSE due[c]]
      /\ UNCHANGED <<serial, serials, running, owner, turn, changes, nextToken, files, sequence,
                     packet, cached, saved, info, asked, pulls, holds, processed>>
  BY <1>1 DEF BarrierAck, Input, Current, AckedRecord, RestTypeOK
<1>3. waiting \subseteq Clients
  OBVIOUS
<1> HIDE DEF waiting
<1>4. ASSUME NEW x \in Clients
      PROVE  /\ client'[x] \in ClientRecords
             /\ client'[x].phase = client[x].phase /\ client'[x].token = client[x].token
             /\ client'[x].target = client[x].target /\ client'[x].active = client[x].active
             /\ client'[x].stage = client[x].stage
             /\ client'[x].downloads = client[x].downloads
             /\ client'[x].incoming = client[x].incoming
             /\ \A p \in Clients : (x \notin waiting \/ p # q.peer) =>
                   /\ client'[x].barrier[p] = client[x].barrier[p]
                   /\ due'[x][p] = due[x][p]
  <2>0. client[x] \in ClientRecords /\ due[x] \in [Clients -> 0 .. 3]
    BY <1>1 DEF RestTypeOK
  <2>1. CASE x \in waiting
    <3>1. client'[x] = AckedRecord(client[x], q.peer)
      BY <1>2, <2>1
    <3>2. due'[x] \in {due[x], [due[x] EXCEPT ![q.peer] = due[x][q.peer] - 1]}
      BY <1>2, <2>1
    <3>3. client[x].barrier \in [Clients -> 0 .. MaxSerials]
      BY <2>0, RecordFields
    <3>4. \A p \in Clients : p # q.peer => due'[x][p] = due[x][p]
      BY <1>2, <2>0, <3>2
    <3> DEFINE n == AckedRecord(client[x], q.peer)
    <3>5. /\ n \in ClientRecords
          /\ n.phase = client[x].phase /\ n.token = client[x].token
          /\ n.target = client[x].target /\ n.active = client[x].active
          /\ n.stage = client[x].stage
          /\ n.barrier = [client[x].barrier EXCEPT ![q.peer] = 0]
          /\ n.downloads = client[x].downloads /\ n.incoming = client[x].incoming
      <4>1. q.peer \in Clients
        BY <1>2
      <4>2. client[x] \in ClientRecords
        BY <2>0
      <4> QED
        BY <4>1, <4>2, Acked
    <3> HIDE DEF n
    <3>6. \A p \in Clients : p # q.peer => n.barrier[p] = client[x].barrier[p]
      BY <1>2, <3>3, <3>5
    <3>7. client'[x] = n
      BY <3>1 DEF n
    <3> QED
      BY <2>1, <3>4, <3>5, <3>6, <3>7
  <2>2. CASE x \notin waiting
    <3>1. client'[x] = client[x] /\ due'[x] = due[x]
      BY <1>2, <2>2
    <3> QED
      BY <2>0, <3>1
  <2> QED
    BY <2>1, <2>2
<1>5. due' \in [Clients -> [Clients -> 0 .. 3]]
  <2>1. ASSUME NEW c \in Clients
        PROVE  due'[c] \in [Clients -> 0 .. 3]
    <3>1. due[c] \in [Clients -> 0 .. 3]
      BY <1>1 DEF RestTypeOK
    <3>2. CASE c \in waiting /\ due[c][q.peer] > 1
      <4>1. due'[c] = [due[c] EXCEPT ![q.peer] = due[c][q.peer] - 1]
        BY <1>2, <3>2
      <4>2. due[c][q.peer] - 1 \in 0 .. 3
        BY <1>2, <3>1, <3>2
      <4> QED
        BY <3>1, <4>1, <4>2
    <3>3. CASE ~(c \in waiting /\ due[c][q.peer] > 1)
      <4>1. due'[c] = due[c]
        BY <1>2, <3>3
      <4> QED
        BY <3>1, <4>1
    <3> QED
      BY <3>2, <3>3
  <2> QED
    BY <1>2, <2>1
<1>6. TypeOK'
  <2>1. ClientsTypeOK' /\ RestTypeOK'
    BY <1>1, <1>2, <1>5 DEF ClientsTypeOK, RestTypeOK
  <2>2. client' \in [Clients -> ClientRecords]
    BY <1>2, <1>4
  <2> QED
    BY <2>1, <2>2, TypeParts
<1>7. \A x \in Clients : UploadMoves(x) /\ SoundMoves(x)
  BY <1>2, <1>4 DEF UploadMoves, SoundMoves
<1>8. \A x \in Clients : RequestMoves(x)
  BY <1>2, <1>4 DEF RequestMoves
<1>9. ASSUME NEW x \in Clients, NEW p \in Clients
      PROVE  RoundHolds(x, p)'
  <2>0. RoundHolds(x, p)
    BY DEF IInv, RoundInv
  <2>1. CASE x \notin waiting \/ p # q.peer
    <3>1. RoundMoves(x, p)
      BY <1>2, <1>4, <2>0, <2>1 DEF RoundMoves, RoundHolds, Current
    <3> QED
      BY <3>1, RoundStep DEF IInv
  <2>2. CASE x \in waiting /\ p = q.peer
    <3>1. /\ due[x][p] \in 0 .. 3
          /\ due'[x][p] = IF due[x][p] > 1 THEN due[x][p] - 1 ELSE due[x][p]
      BY <1>1, <1>2, <2>2 DEF RestTypeOK
    <3>2. ClearIsAnswered(x, p)' /\ (due[x][p] # 0 => Current(p))'
      BY <1>2, <1>4, <2>0, <2>2, <3>1 DEF RoundHolds, ClearIsAnswered, Current
    <3>3. HandoffIsAnswered(x, p)'
      BY <1>2, <1>4, <2>0, <2>2, <3>1 DEF RoundHolds, HandoffIsAnswered, Waiting
    <3> QED
      BY <3>2, <3>3 DEF RoundHolds
  <2> QED
    BY <2>1, <2>2
<1>10. UploadInv'
  BY <1>2, <1>6, <1>7, UploadStep DEF IInv
<1>11. SoundInv' /\ RequestInv' /\ RoundInv'
  <2>1. \A s \in pulls' : serial'[s.peer] # 0
    BY <1>2 DEF IInv, RequestInv, PullsAreTracked, Current
  <2> QED
    BY <1>2, <1>6, <1>7, <1>8, <1>9, <2>1, NoRequestStep
<1> QED
  BY <1>6, <1>10, <1>11 DEF IInv

------------------------------------------------------------------------------
(* The packets.                                                            *)

LEMMA PacketBeginKeeps ==
    ASSUME IInv, NEW c \in Clients, PacketBegin(c)
    PROVE  IInv'
<1>1. ClientsTypeOK /\ RestTypeOK /\ client \in [Clients -> ClientRecords]
  BY TypeParts DEF IInv
<1>2. /\ packet' = [NoPacket EXCEPT !.client = c, !.serial = serial[c]]
      /\ files' = Without({packet.loose})
      /\ UNCHANGED <<serial, serials, running, owner, turn, client, changes, nextToken, sequence,
                     cached, saved, info, asked, queries, pulls, holds, due, processed>>
  BY DEF PacketBegin, Input, Unclaimed
<1>3. packet' \in [client : 0 .. MaxClients, serial : 0 .. MaxSerials, loose : 0 .. MaxFiles]
  <2>1. packet' = [client |-> c, serial |-> serial[c], loose |-> 0]
    BY <1>2 DEF NoPacket
  <2>2. serial[c] \in 0 .. MaxSerials
    BY <1>1 DEF ClientsTypeOK
  <2> QED
    BY <2>1, <2>2
<1>4. /\ files' \subseteq files /\ \A f \in files' : f.id # packet.loose
      /\ files' \subseteq [id : 1 .. MaxFiles, token : 1 .. MaxTokens]
  BY <1>1, <1>2, FilesLeft
<1>5. TypeOK'
  <2>1. ClientsTypeOK' /\ RestTypeOK'
    BY <1>1, <1>2, <1>3, <1>4 DEF ClientsTypeOK, RestTypeOK
  <2> QED
    BY <1>1, <1>2, <2>1, TypeParts
<1>6. \A x \in Clients : Steady(x)
  BY <1>2 DEF Steady
<1> QED
  BY <1>2, <1>4, <1>5, <1>6, SteadyStep

(* The end of a packet, and of what a frame finds of one that never ended. *)
LEMMA DroppedKeeps ==
    ASSUME IInv, ClientsTypeOK', packet' = NoPacket, files' = Without(Unclaimed),
           UNCHANGED <<serial, client, changes, nextToken, sequence, cached, saved, info, asked,
                       queries, pulls, holds, due, processed>>
    PROVE  IInv'
<1>1. RestTypeOK /\ client \in [Clients -> ClientRecords]
  BY TypeParts DEF IInv
<1>2. packet' \in [client : 0 .. MaxClients, serial : 0 .. MaxSerials, loose : 0 .. MaxFiles]
  BY DEF NoPacket
<1>3. /\ files' \subseteq files /\ \A f \in files' : f.id # packet.loose
      /\ files' \subseteq [id : 1 .. MaxFiles, token : 1 .. MaxTokens]
  BY <1>1, FilesLeft DEF Unclaimed
<1>4. TypeOK'
  <2>1. RestTypeOK'
    BY <1>1, <1>2, <1>3 DEF RestTypeOK
  <2> QED
    BY <1>1, <2>1, TypeParts
<1>5. \A x \in Clients : Steady(x)
  BY DEF Steady
<1> QED
  BY <1>3, <1>4, <1>5, SteadyStep

LEMMA PacketEndKeeps ==
    ASSUME IInv, PacketEnd
    PROVE  IInv'
<1>1. ClientsTypeOK'
  BY TypeParts DEF IInv, PacketEnd, Input, ClientsTypeOK
<1> QED
  BY <1>1, DroppedKeeps DEF PacketEnd

LEMMA FileDeniedKeeps ==
    ASSUME IInv, NEW c \in Clients, NEW a \in asked, FileDenied(c, a)
    PROVE  IInv'
<1>1. ClientsTypeOK /\ RestTypeOK /\ client \in [Clients -> ClientRecords]
  BY TypeParts DEF IInv
<1>2. /\ asked' = asked \ {a}
      /\ client' = IF Expected(client[c], a) THEN [client EXCEPT ![c] = Fail(client[c])] ELSE client
      /\ UNCHANGED <<serial, serials, running, owner, turn, changes, nextToken, files, sequence,
                     packet, cached, saved, info, queries, pulls, holds, due, processed>>
  BY DEF FileDenied, Input
<1>3. ClientsTypeOK' /\ RestTypeOK'
  BY <1>1, <1>2 DEF ClientsTypeOK, RestTypeOK
<1>4. CASE ~Expected(client[c], a)
  <2>1. TypeOK'
    BY <1>1, <1>2, <1>3, <1>4, TypeParts
  <2>2. \A x \in Clients : Steady(x)
    BY <1>2, <1>4 DEF Steady
  <2> QED
    BY <1>2, <2>1, <2>2, SteadyStep
<1>5. CASE Expected(client[c], a)
  <2>1. /\ client' = [client EXCEPT ![c] = Fail(client[c])]
        /\ client[c].phase = "uploading"
    BY <1>2, <1>5 DEF Expected
  <2>2. client[c].incoming = 0
    BY <2>1 DEF IInv, UploadInv, UploadsAreNumbered
  <2>3. /\ client'[c] = Fail(client[c]) /\ client' \in [Clients -> ClientRecords]
        /\ \A x \in Clients : x # c => client'[x] = client[x]
    BY <1>1, <2>1, Endings
  <2>4. Rests(c)
    BY <1>1, <2>2, <2>3, Endings DEF Rests
  <2>5. /\ UploadMoves(c) /\ SoundMoves(c) /\ RequestMoves(c)
        /\ \A q \in Clients : RoundHolds(c, q)'
    BY <1>2, <2>4, RestMoves
  <2>6. cached \subseteq Images \cup Validated
    BY DEF IInv, SoundInv, CacheIsValidated
  <2>7. TypeOK'
    BY <1>3, <2>3, TypeParts
  <2> QED
    BY <1>2, <2>3, <2>5, <2>6, <2>7, OneClientStep
<1> QED
  BY <1>4, <1>5

(* An upload on disk is loose or waits for its own connection's frame.     *)
LEMMA FileReceivedKeeps ==
    ASSUME IInv, NEW c \in Clients, NEW a \in asked, NEW opened \in BOOLEAN, NEW whole \in BOOLEAN,
           FileReceived(c, a, opened, whole)
    PROVE  IInv'
<1>1. ClientsTypeOK /\ RestTypeOK /\ client \in [Clients -> ClientRecords]
  BY TypeParts DEF IInv
<1>2. /\ sequence' = sequence + 1 /\ sequence < MaxFiles
      /\ files' = Without({packet.loose}) \cup
                  (IF opened THEN {[id |-> sequence', token |-> a.token]} ELSE {})
      /\ asked' = asked \ {a}
      /\ IF Expected(client[c], a) /\ whole
         THEN /\ client' = [client EXCEPT ![c].incoming = sequence', ![c].phase = "processing"]
              /\ packet' = [packet EXCEPT !.loose = 0]
         ELSE /\ client' = IF Expected(client[c], a) THEN [client EXCEPT ![c] = Fail(client[c])]
                           ELSE client
              /\ packet' = [packet EXCEPT !.loose = sequence']
      /\ UNCHANGED <<serial, serials, running, owner, turn, changes, nextToken, cached, saved, info,
                     queries, pulls, holds, due, processed>>
  BY DEF FileReceived, Input, Unclaimed
<1>3. /\ a.token \in 1 .. MaxTokens /\ sequence' \in 0 .. MaxFiles /\ sequence' \in 1 .. MaxFiles
      /\ sequence \in Nat
      /\ packet \in [client : 0 .. MaxClients, serial : 0 .. MaxSerials, loose : 0 .. MaxFiles]
  <2>1. sequence \in 0 .. MaxFiles
    BY <1>1 DEF RestTypeOK
  <2>2. sequence' \in 1 .. MaxFiles /\ sequence' \in 0 .. MaxFiles
    BY <1>2, <2>1
  <2> QED
    BY <1>1, <2>1, <2>2 DEF RestTypeOK
<1>4. /\ \A f \in files' : \/ f \in files /\ f.id # packet.loose
                           \/ f.id = sequence' /\ f.token = a.token
      /\ files' \subseteq [id : 1 .. MaxFiles, token : 1 .. MaxTokens]
  <2>1. /\ Without({packet.loose}) \subseteq files
        /\ \A f \in Without({packet.loose}) : f.id # packet.loose
        /\ Without({packet.loose}) \subseteq [id : 1 .. MaxFiles, token : 1 .. MaxTokens]
    BY <1>1, FilesLeft
  <2>2. [id |-> sequence', token |-> a.token] \in [id : 1 .. MaxFiles, token : 1 .. MaxTokens]
    BY <1>2, <1>3
  <2> DEFINE left == Without({packet.loose})
             new == [id |-> sequence', token |-> a.token]
  <2>3. files' \subseteq left \cup {new}
    BY <1>2
  <2>4. new.id = sequence' /\ new.token = a.token
    OBVIOUS
  <2>5. /\ left \subseteq files /\ \A f \in left : f.id # packet.loose
        /\ left \subseteq [id : 1 .. MaxFiles, token : 1 .. MaxTokens]
        /\ new \in [id : 1 .. MaxFiles, token : 1 .. MaxTokens]
    BY <2>1, <2>2
  <2> HIDE DEF left, new
  <2> QED
    BY <2>3, <2>4, <2>5
<1>5. /\ \A f \in files : f.id \in 1 .. MaxFiles /\ f.id <= sequence
      /\ \A x \in Clients : client[x].incoming \in 0 .. MaxFiles /\ client[x].incoming <= sequence
      /\ client[c] \in ClientRecords
  BY <1>1, Typed, RecordFields DEF IInv, UploadInv, UploadsAreNumbered
<1>6. /\ \A f \in files : f.id # sequence' /\ f.id <= sequence'
      /\ \A x \in Clients : client[x].incoming # sequence' /\ client[x].incoming <= sequence'
      /\ sequence' # 0 /\ sequence' <= sequence'
  BY <1>2, <1>3, <1>5
<1>7. \A f \in files' : f.id <= sequence'
  BY <1>4, <1>6
<1>8. asked' \subseteq [client : Clients, token : 1 .. MaxTokens, path : Paths]
  BY <1>1, <1>2 DEF RestTypeOK
<1>9. CASE Expected(client[c], a) /\ whole
  <2> DEFINE n == [client[c] EXCEPT !.incoming = sequence', !.phase = "processing"]
  <2>0. "processing" \in Phases
    BY DEF Phases
  <2>1. n \in ClientRecords
    BY <1>3, <1>5, <2>0 DEF ClientRecords
  <2>2. /\ n.incoming = sequence' /\ n.phase = "processing" /\ n.token = client[c].token
        /\ n.active = client[c].active
    BY <1>5 DEF ClientRecords
  <2>3. client' = [client EXCEPT ![c] = n]
    BY <1>1, <1>2, <1>9
  <2>4. client[c].phase = "uploading" /\ client[c].token = a.token
    BY <1>9 DEF Expected
  <2> HIDE DEF n
  <2>5. /\ client'[c] = n /\ client' \in [Clients -> ClientRecords]
        /\ \A x \in Clients : x # c => client'[x] = client[x]
    BY <1>1, <2>1, <2>3
  <2>6. packet' \in [client : 0 .. MaxClients, serial : 0 .. MaxSerials, loose : 0 .. MaxFiles]
    BY <1>2, <1>3, <1>9
  <2>7. TypeOK'
    <3>1. ClientsTypeOK' /\ RestTypeOK'
      BY <1>1, <1>2, <1>3, <1>4, <1>8, <2>6 DEF ClientsTypeOK, RestTypeOK
    <3> QED
      BY <2>5, <3>1, TypeParts
  <2>8. client[c].incoming = 0
    BY <2>4 DEF IInv, UploadInv, UploadsAreNumbered
  <2>9. NoStrayUploads'
    BY <1>4, <1>5, <2>2, <2>5, <2>8 DEF IInv, UploadInv, NoStrayUploads
  <2>10. UploadsAnswerTheirRequest'
    <3> SUFFICES ASSUME NEW x \in Clients, NEW f \in files', f.id = client'[x].incoming
                 PROVE  f.token = client'[x].token
      BY DEF UploadsAnswerTheirRequest
    <3>1. CASE x = c
      BY <1>4, <1>6, <2>2, <2>4, <2>5, <3>1
    <3>2. CASE x # c
      BY <1>4, <1>6, <2>5, <3>2 DEF IInv, UploadInv, UploadsAnswerTheirRequest
    <3> QED
      BY <3>1, <3>2
  <2>11. UploadsAreNumbered'
    BY <1>6, <1>7, <2>2, <2>5 DEF IInv, UploadInv, UploadsAreNumbered
  <2>12. \A x \in Clients : SoundMoves(x) /\ RequestMoves(x)
    BY <1>2, <2>2, <2>4, <2>5 DEF SoundMoves, RequestMoves, Unpublished
  <2>13. ASSUME NEW x \in Clients, NEW p \in Clients
         PROVE  RoundHolds(x, p)'
    <3>1. RoundMoves(x, p)
      BY <1>2, <2>2, <2>5 DEF RoundMoves, IInv, RoundInv, RoundHolds, Current
    <3> QED
      BY <3>1, RoundStep DEF IInv
  <2>14. \A s \in pulls' : serial'[s.peer] # 0
    BY <1>2 DEF IInv, RequestInv, PullsAreTracked, Current
  <2>15. SoundInv' /\ RequestInv' /\ RoundInv'
    BY <1>2, <2>7, <2>12, <2>13, <2>14, NoRequestStep
  <2> QED
    BY <2>7, <2>9, <2>10, <2>11, <2>15 DEF IInv, UploadInv
<1>10. CASE ~(Expected(client[c], a) /\ whole)
  <2>1. packet' = [packet EXCEPT !.loose = sequence']
    BY <1>2, <1>10
  <2>2. /\ packet' \in [client : 0 .. MaxClients, serial : 0 .. MaxSerials, loose : 0 .. MaxFiles]
        /\ packet'.loose = sequence'
    BY <1>3, <2>1
  <2>3. PICK n \in ClientRecords :
           /\ client' = [client EXCEPT ![c] = n]
           /\ n.active = client[c].active /\ n.token = client[c].token
           /\ \/ n = client[c]
              \/ n.phase = "failed" /\ n.incoming = 0 /\ client[c].incoming = 0
    <3>1. CASE Expected(client[c], a)
      <4>1. client' = [client EXCEPT ![c] = Fail(client[c])] /\ client[c].phase = "uploading"
        BY <1>2, <1>10, <3>1 DEF Expected
      <4>2. client[c].incoming = 0
        BY <4>1 DEF IInv, UploadInv, UploadsAreNumbered
      <4> QED
        BY <1>5, <4>1, <4>2, Endings
    <3>2. CASE ~Expected(client[c], a)
      <4>1. client' = [client EXCEPT ![c] = client[c]]
        BY <1>1, <1>2, <3>2
      <4> QED
        BY <1>5, <4>1
    <3> QED
      BY <3>1, <3>2
  <2>4. /\ client'[c] = n /\ client' \in [Clients -> ClientRecords]
        /\ \A x \in Clients : x # c => client'[x] = client[x]
    BY <1>1, <2>3
  <2>5. TypeOK'
    <3>1. ClientsTypeOK' /\ RestTypeOK'
      BY <1>1, <1>2, <1>3, <1>4, <1>8, <2>2 DEF ClientsTypeOK, RestTypeOK
    <3> QED
      BY <2>4, <3>1, TypeParts
  <2>6. \A x \in Clients : /\ client'[x].incoming = client[x].incoming
                           /\ client'[x].token = client[x].token
                           /\ client'[x].phase # client[x].phase => client[x].incoming = 0
    BY <2>3, <2>4
  <2>7. NoStrayUploads'
    BY <1>4, <2>2, <2>6 DEF IInv, UploadInv, NoStrayUploads
  <2>8. UploadsAnswerTheirRequest'
    BY <1>4, <1>6, <2>6 DEF IInv, UploadInv, UploadsAnswerTheirRequest
  <2>9. UploadsAreNumbered'
    BY <1>6, <1>7, <2>6 DEF IInv, UploadInv, UploadsAreNumbered
  <2>10. \A x \in Clients : SoundMoves(x) /\ RequestMoves(x)
    BY <1>2, <2>3, <2>4 DEF SoundMoves, RequestMoves, Unpublished
  <2>11. ASSUME NEW x \in Clients, NEW p \in Clients
         PROVE  RoundHolds(x, p)'
    <3>1. RoundMoves(x, p)
      BY <1>2, <2>3, <2>4 DEF RoundMoves, IInv, RoundInv, RoundHolds, Current
    <3> QED
      BY <3>1, RoundStep DEF IInv
  <2>12. \A s \in pulls' : serial'[s.peer] # 0
    BY <1>2 DEF IInv, RequestInv, PullsAreTracked, Current
  <2>13. SoundInv' /\ RequestInv' /\ RoundInv'
    BY <1>2, <2>5, <2>10, <2>11, <2>12, NoRequestStep
  <2> QED
    BY <2>5, <2>7, <2>8, <2>9, <2>13 DEF IInv, UploadInv
<1> QED
  BY <1>9, <1>10

(* What the start or the end of a transfer changes of a record.            *)
Transfers(x) ==
    /\ client'[x].phase = client[x].phase /\ client'[x].token = client[x].token
    /\ client'[x].target = client[x].target /\ client'[x].active = client[x].active
    /\ client'[x].stage = client[x].stage /\ client'[x].barrier = client[x].barrier
    /\ client'[x].incoming = client[x].incoming

TransferRecord(r, d) == [r EXCEPT !.downloads = d]

LEMMA TransferFields ==
    ASSUME NEW r \in ClientRecords, NEW d \in SUBSET Clients
    PROVE  LET n == TransferRecord(r, d)
           IN  /\ n \in ClientRecords
               /\ n.phase = r.phase /\ n.token = r.token
               /\ n.target = r.target /\ n.active = r.active /\ n.stage = r.stage
               /\ n.barrier = r.barrier /\ n.downloads = d /\ n.incoming = r.incoming
<1>1. TransferRecord(r, d) \in ClientRecords
  BY DEF ClientRecords, TransferRecord
<1> QED
  BY DEF ClientRecords, TransferRecord

LEMMA FileRequestedKeeps ==
    ASSUME IInv, NEW c \in Sprayers, NEW p \in Clients, FileRequested(c, p)
    PROVE  IInv'
<1>0. c \in Clients
  OBVIOUS
<1>1. ClientsTypeOK /\ RestTypeOK /\ client \in [Clients -> ClientRecords]
  BY TypeParts DEF IInv
<1> DEFINE k == client[c].active
           s == [peer |-> p, crc |-> k, token |-> client[c].token]
           In(x) == client[x].active = k /\ client[x].phase = "distributing"
<1>2. /\ serial[p] # 0 /\ k # NoCrc /\ ~Waiting(p, k)
      /\ pulls' = pulls \cup {s}
      /\ client' = [x \in Clients |-> IF In(x) THEN TransferRecord(client[x], client[x].downloads \cup {p})
                                      ELSE client[x]]
      /\ UNCHANGED <<serial, serials, running, owner, turn, changes, nextToken, files, sequence,
                     packet, cached, saved, info, asked, queries, holds, due, processed>>
  BY DEF FileRequested, Input, Context, Current, TransferRecord
<1>3. /\ k \in Crcs /\ client[c].token \in 0 .. MaxTokens
      /\ s \in [peer : Clients, crc : Crcs, token : 0 .. MaxTokens]
  BY <1>0, <1>1, <1>2, RecordFields
<1>4. s.peer = p /\ s.crc = k /\ s.token = client[c].token
  OBVIOUS
<1>5. ASSUME NEW x \in Clients
      PROVE  /\ client'[x] \in ClientRecords /\ Transfers(x)
             /\ client[x].downloads \subseteq client'[x].downloads
             /\ In(x) => p \in client'[x].downloads
  <2>1. client[x] \in ClientRecords /\ client[x].downloads \cup {p} \in SUBSET Clients
    BY <1>1, RecordFields
  <2>2. CASE In(x)
    <3> DEFINE n == TransferRecord(client[x], client[x].downloads \cup {p})
    <3>1. /\ n \in ClientRecords
          /\ n.phase = client[x].phase /\ n.token = client[x].token
          /\ n.target = client[x].target /\ n.active = client[x].active
          /\ n.stage = client[x].stage /\ n.barrier = client[x].barrier
          /\ n.downloads = client[x].downloads \cup {p} /\ n.incoming = client[x].incoming
      BY <2>1, TransferFields
    <3>2. client'[x] = n
      BY <1>2, <2>2
    <3> HIDE DEF n
    <3> QED
      BY <3>1, <3>2 DEF Transfers
  <2>3. CASE ~In(x)
    <3>1. client'[x] = client[x]
      BY <1>2, <2>3
    <3> QED
      BY <2>1, <2>3, <3>1 DEF Transfers
  <2> QED
    BY <2>2, <2>3
<1> HIDE DEF s, k
<1>6. TypeOK'
  <2>1. ClientsTypeOK' /\ RestTypeOK'
    BY <1>1, <1>2, <1>3 DEF ClientsTypeOK, RestTypeOK
  <2>2. client' \in [Clients -> ClientRecords]
    BY <1>2, <1>5
  <2> QED
    BY <2>1, <2>2, TypeParts
<1>7. UploadInv'
  <2>1. \A x \in Clients : UploadMoves(x)
    BY <1>5 DEF UploadMoves, Transfers
  <2> QED
    BY <1>2, <1>6, <2>1, UploadStep DEF IInv
<1>8. SoundInv'
  <2>1. \A x \in Clients : SoundMoves(x)
    BY <1>2, <1>5 DEF SoundMoves, Transfers
  <2>2. cached \subseteq Images \cup Validated
    BY DEF IInv, SoundInv, CacheIsValidated
  <2> QED
    BY <1>2, <2>1, <2>2, SoundStep DEF IInv
<1>9. RequestInv'
  <2>1. TokensAreFresh /\ PullsAreTracked
    BY DEF IInv, RequestInv
  <2>2. TokensAreFresh'
    <3>1. client[c].token <= nextToken
      BY <1>0, <2>1 DEF TokensAreFresh
    <3>2. \A t \in pulls' : t.token <= nextToken'
      BY <1>2, <1>4, <2>1, <3>1 DEF TokensAreFresh
    <3>3. \A x \in Clients : client'[x].phase = client[x].phase /\ client'[x].token = client[x].token
      BY <1>5 DEF Transfers
    <3>4. nextToken' = nextToken
      BY <1>2
    <3>5. \A x \in Clients : /\ client'[x].token <= nextToken'
                             /\ client'[x].phase \in Unpublished \cup {"distributing"}
                                => client'[x].token # 0
      BY <2>1, <3>3, <3>4 DEF TokensAreFresh
    <3>6. \A x, y \in Clients : client'[x].token = client'[y].token /\ client'[x].token # 0 => x = y
      BY <2>1, <3>3 DEF TokensAreFresh
    <3> QED
      BY <3>2, <3>5, <3>6 DEF TokensAreFresh
  <2>3. \A t \in pulls' : Current(t.peer)'
    BY <1>2, <1>4, <2>1 DEF PullsAreTracked, Current
  <2>4. \A t, u \in pulls' : t.peer = u.peer /\ t.crc = u.crc => t = u
    BY <1>2, <1>4, <2>1 DEF PullsAreTracked, Waiting
  <2>5. ASSUME NEW t \in pulls', NEW x \in Clients, t.token = client'[x].token
        PROVE  /\ client'[x].phase \in Unpublished => t.crc = client'[x].active
               /\ client'[x].phase = "distributing" /\ t.crc = client'[x].active
                  => t.peer \in client'[x].downloads
    <3>1. CASE t \in pulls
      BY <1>5, <2>1, <2>5, <3>1 DEF PullsAreTracked, Transfers
    <3>2. CASE t = s
      <4>1. client'[x].phase \in Unpublished => client[x].token # 0
        BY <1>5, <2>1 DEF TokensAreFresh, Transfers
      <4>2. client'[x].phase \in Unpublished => x = c
        BY <1>0, <1>4, <1>5, <2>1, <2>5, <3>2, <4>1 DEF TokensAreFresh, Transfers
      <4>3. client'[x].phase \in Unpublished => t.crc = client'[x].active
        BY <1>4, <1>5, <3>2, <4>2 DEF Transfers, k
      <4>4. client'[x].phase = "distributing" /\ t.crc = client'[x].active
            => t.peer \in client'[x].downloads
        BY <1>4, <1>5, <3>2 DEF Transfers
      <4> QED
        BY <4>3, <4>4
    <3> QED
      BY <1>2, <3>1, <3>2
  <2> QED
    BY <2>2, <2>3, <2>4, <2>5 DEF RequestInv, PullsAreTracked
<1>10. RoundInv'
  <2>1. ASSUME NEW x \in Clients, NEW q \in Clients
        PROVE  RoundMoves(x, q)
    <3>1. RoundHolds(x, q)
      BY DEF IInv, RoundInv
    <3>2. due' = due /\ serial' = serial /\ holds' = holds /\ pulls \subseteq pulls'
      BY <1>2
    <3>3. Transfers(x)
      BY <1>5
    <3> QED
      BY <3>1, <3>2, <3>3 DEF RoundMoves, Transfers, RoundHolds, Current
  <2> QED
    BY <2>1, RoundStep DEF IInv, RoundInv
<1> QED
  BY <1>6, <1>7, <1>8, <1>9, <1>10 DEF IInv

LEMMA FileSentKeeps ==
    ASSUME IInv, NEW s \in pulls, NEW told \in BOOLEAN, FileSent(s, told)
    PROVE  IInv'
<1>1. ClientsTypeOK /\ RestTypeOK /\ client \in [Clients -> ClientRecords]
  BY TypeParts DEF IInv
<1> DEFINE In(x) == told /\ client[x].active = s.crc /\ client[x].phase = "distributing"
<1>2. /\ pulls' = pulls \ {s}
      /\ holds' = [holds EXCEPT ![s.peer] = holds[s.peer] \cup {s.crc}]
      /\ client' = [x \in Clients |-> IF In(x) THEN TransferRecord(client[x], client[x].downloads \ {s.peer})
                                      ELSE client[x]]
      /\ UNCHANGED <<serial, serials, running, owner, turn, changes, nextToken, files, sequence,
                     packet, cached, saved, info, asked, queries, due, processed>>
  BY DEF FileSent, Input, TransferRecord
<1>3. s.peer \in Clients /\ s.crc \in Crcs
  BY Typed DEF IInv
<1>4. /\ holds' \in [Clients -> SUBSET Crcs]
      /\ s.crc \in holds'[s.peer]
      /\ \A p \in Clients : holds[p] \subseteq holds'[p]
  BY <1>1, <1>2, <1>3 DEF RestTypeOK
<1>5. ASSUME NEW x \in Clients
      PROVE  /\ client'[x] \in ClientRecords /\ Transfers(x)
             /\ \A p \in client[x].downloads :
                   p \in client'[x].downloads \/ (p = s.peer /\ client[x].active = s.crc)
  <2>1. client[x] \in ClientRecords /\ client[x].downloads \ {s.peer} \in SUBSET Clients
    BY <1>1, RecordFields
  <2>2. CASE In(x)
    <3> DEFINE n == TransferRecord(client[x], client[x].downloads \ {s.peer})
    <3>1. /\ n \in ClientRecords
          /\ n.phase = client[x].phase /\ n.token = client[x].token
          /\ n.target = client[x].target /\ n.active = client[x].active
          /\ n.stage = client[x].stage /\ n.barrier = client[x].barrier
          /\ n.downloads = client[x].downloads \ {s.peer} /\ n.incoming = client[x].incoming
      BY <2>1, TransferFields
    <3>2. client'[x] = n
      BY <1>2, <2>2
    <3> HIDE DEF n
    <3> QED
      BY <2>2, <3>1, <3>2 DEF Transfers
  <2>3. CASE ~In(x)
    <3>1. client'[x] = client[x]
      BY <1>2, <2>3
    <3> QED
      BY <2>1, <2>3, <3>1 DEF Transfers
  <2> QED
    BY <2>2, <2>3
<1>6. TypeOK'
  <2>1. ClientsTypeOK' /\ RestTypeOK'
    BY <1>1, <1>2, <1>4 DEF ClientsTypeOK, RestTypeOK
  <2>2. client' \in [Clients -> ClientRecords]
    BY <1>2, <1>5
  <2> QED
    BY <2>1, <2>2, TypeParts
<1>7. UploadInv'
  <2>1. \A x \in Clients : UploadMoves(x)
    BY <1>5 DEF UploadMoves, Transfers
  <2> QED
    BY <1>2, <1>6, <2>1, UploadStep DEF IInv
<1>8. \A x \in Clients : SoundMoves(x)
  BY <1>2, <1>5 DEF SoundMoves, Transfers
<1>9. ASSUME NEW x \in Clients
      PROVE  RequestMoves(x)
  <2>1. ASSUME NEW t \in pulls', t.crc = client[x].active, t.peer \in client[x].downloads
        PROVE  t.peer \in client'[x].downloads
    <3>1. t \in pulls /\ t # s
      BY <1>2
    <3>2. ~(t.peer = s.peer /\ t.crc = s.crc)
      BY <3>1 DEF IInv, RequestInv, PullsAreTracked
    <3> QED
      BY <1>5, <2>1, <3>2
  <2> QED
    BY <1>5, <2>1 DEF RequestMoves, Transfers
<1>10. ASSUME NEW x \in Clients, NEW p \in Clients
       PROVE  RoundHolds(x, p)'
  <2>1. RoundMoves(x, p)
    <3>1. \A t \in pulls : t.peer = p => t \in pulls' \/ t.crc \in holds'[p]
      BY <1>2, <1>4
    <3>2. due'[x][p] # 0 => serial'[p] # 0 /\ serial'[p] = serial[p]
      BY <1>2 DEF IInv, RoundInv, RoundHolds, Current
    <3> QED
      BY <1>2, <1>4, <1>5, <3>1, <3>2 DEF RoundMoves, Transfers
  <2> QED
    BY <2>1, RoundStep DEF IInv
<1>11. SoundInv' /\ RequestInv' /\ RoundInv'
  <2>1. \A t \in pulls' : serial'[t.peer] # 0
    BY <1>2 DEF IInv, RequestInv, PullsAreTracked, Current
  <2> QED
    BY <1>2, <1>6, <1>8, <1>9, <1>10, <2>1, NoRequestStep
<1> QED
  BY <1>6, <1>7, <1>11 DEF IInv

LEMMA InfoKeeps ==
    ASSUME IInv, NEW c \in Clients, NEW image \in Announced, Info(c, image)
    PROVE  IInv'
<1>1. ClientsTypeOK /\ RestTypeOK /\ client \in [Clients -> ClientRecords]
  BY TypeParts DEF IInv
<1>2. /\ serial[c] # 0
      /\ info' = [info EXCEPT ![c] = Repaired(c, image)]
      /\ UNCHANGED <<serial, serials, running, owner, turn, client, changes, nextToken, files,
                     sequence, packet, cached, saved, asked, queries, pulls, holds, due, processed>>
  BY DEF Info, Input, Current
<1>3. /\ Repaired(c, image) \in Crcs
      /\ client[c].active # NoCrc => Repaired(c, image) = client[c].active
  <2>1. client[c].active \in Crcs \cup {NoCrc}
    BY <1>1, RecordFields
  <2>2. image \in Crcs
    BY DEF Crcs
  <2> QED
    BY <2>1, <2>2 DEF Repaired
<1>4. /\ info' \in [Clients -> Crcs \cup {NoCrc}]
      /\ info'[c] = Repaired(c, image)
      /\ \A x \in Clients : x # c => info'[x] = info[x]
  BY <1>1, <1>2, <1>3 DEF RestTypeOK
<1>5. TypeOK'
  <2>1. ClientsTypeOK' /\ RestTypeOK'
    BY <1>1, <1>2, <1>4 DEF ClientsTypeOK, RestTypeOK
  <2> QED
    BY <1>1, <1>2, <2>1, TypeParts
<1>6. \A x \in Clients : UploadMoves(x) /\ RequestMoves(x)
  BY <1>2 DEF UploadMoves, RequestMoves
<1>7. \A x \in Clients : SoundMoves(x)
  BY <1>2, <1>3, <1>4 DEF SoundMoves, IInv, SoundInv, PublishedIsValidated, Validated
<1>8. ASSUME NEW x \in Clients, NEW p \in Clients
      PROVE  RoundHolds(x, p)'
  <2>1. RoundMoves(x, p)
    BY <1>2 DEF RoundMoves, IInv, RoundInv, RoundHolds, Current
  <2> QED
    BY <2>1, RoundStep DEF IInv
<1>9. UploadInv'
  BY <1>2, <1>5, <1>6, UploadStep DEF IInv
<1>10. SoundInv' /\ RequestInv' /\ RoundInv'
  <2>1. \A t \in pulls' : serial'[t.peer] # 0
    BY <1>2 DEF IInv, RequestInv, PullsAreTracked, Current
  <2> QED
    BY <1>2, <1>5, <1>6, <1>7, <1>8, <2>1, NoRequestStep
<1> QED
  BY <1>5, <1>9, <1>10 DEF IInv

------------------------------------------------------------------------------
(* The connections.                                                        *)

LEMMA FreshRecord ==
    /\ Fresh \in ClientRecords /\ Fresh.phase = "idle" /\ Fresh.token = 0
    /\ Fresh.active = NoCrc /\ Fresh.incoming = 0
<1>1. /\ "idle" \in Phases /\ 0 \in 0 .. MaxTokens /\ NoPath \in Paths \cup {NoPath}
      /\ Unknown \in [Paths -> Crcs \cup {NoCrc}] /\ {} \in SUBSET Paths
      /\ NoCrc \in Crcs \cup {NoCrc} /\ 0 \in 0 .. 3 /\ {} \in SUBSET Clients
      /\ 0 \in 0 .. MaxFiles
  BY DEF Phases, Unknown
<1>2. Nobody \in [Clients -> 0 .. MaxSerials]
  BY DEF Nobody
<1> QED
  BY <1>1, <1>2 DEF Fresh, ClientRecords

(* A new connection takes a slot that nobody waits for.                    *)
LEMMA PutInServerKeeps ==
    ASSUME IInv, NEW c \in Clients, PutInServer(c), PutInServerPublication(c)
    PROVE  IInv'
<1>1. ClientsTypeOK /\ RestTypeOK /\ client \in [Clients -> ClientRecords]
  BY TypeParts DEF IInv
<1>2. /\ serial[c] = 0 /\ serials < MaxSerials /\ serials' = serials + 1
      /\ serial' = [serial EXCEPT ![c] = serials']
      /\ UNCHANGED <<running, owner, turn, client, changes, nextToken, files, sequence, packet,
                     cached, saved, asked, queries, pulls, holds, due, processed>>
  BY DEF PutInServer, PutInServerPublication, Input
<1>3. PICK image \in Crcs \cup {NoCrc} : info' = [info EXCEPT ![c] = image]
  BY DEF PutInServerPublication, Crcs
<1>4. ClientsTypeOK'
  <2>1. serials' \in 0 .. MaxSerials
    BY <1>1, <1>2 DEF ClientsTypeOK
  <2> QED
    BY <1>1, <1>2, <2>1 DEF ClientsTypeOK
<1>5. TypeOK'
  <2>1. RestTypeOK'
    BY <1>1, <1>2, <1>3 DEF RestTypeOK
  <2> QED
    BY <1>1, <1>2, <1>4, <2>1, TypeParts
<1>6. \A x \in Clients : x # c => serial'[x] = serial[x] /\ info'[x] = info[x]
  BY <1>1, <1>2, <1>3 DEF ClientsTypeOK, RestTypeOK
<1>7. client[c].active = NoCrc
  BY <1>2 DEF IInv, SoundInv, ActiveIsCurrent, Current
<1>8. \A x \in Clients : UploadMoves(x) /\ RequestMoves(x)
  BY <1>2 DEF UploadMoves, RequestMoves
<1>9. \A x \in Clients : SoundMoves(x)
  BY <1>2, <1>6, <1>7 DEF SoundMoves
<1>10. ASSUME NEW x \in Clients, NEW p \in Clients
       PROVE  RoundHolds(x, p)'
  <2>1. due[x][p] # 0 => serial[p] # 0
    BY DEF IInv, RoundInv, RoundHolds, Current
  <2>2. RoundMoves(x, p)
    BY <1>2, <1>6, <2>1 DEF RoundMoves
  <2> QED
    BY <2>2, RoundStep DEF IInv
<1>11. UploadInv'
  BY <1>2, <1>5, <1>8, UploadStep DEF IInv
<1>12. SoundInv' /\ RequestInv' /\ RoundInv'
  <2>1. \A t \in pulls' : serial'[t.peer] # 0
    BY <1>2, <1>6, Typed DEF IInv, RequestInv, PullsAreTracked, Current
  <2> QED
    BY <1>2, <1>5, <1>8, <1>9, <1>10, <2>1, NoRequestStep
<1> QED
  BY <1>5, <1>11, <1>12 DEF IInv

(* Who leaves takes everything it owes and is owed along.                  *)
LEMMA DisconnectingKeeps ==
    ASSUME IInv, NEW c \in Clients, Disconnecting(c), DisconnectingPublication(c)
    PROVE  IInv'
<1>1. ClientsTypeOK /\ RestTypeOK /\ client \in [Clients -> ClientRecords]
  BY TypeParts DEF IInv
<1>2. /\ serial' = [serial EXCEPT ![c] = 0]
      /\ client' = [x \in Clients |-> IF x = c THEN Fresh
                                      ELSE TransferRecord(client[x], client[x].downloads \ {c})]
      /\ files' = Without({client[x].incoming : x \in {c}})
      /\ asked' = {a \in asked : a.client \notin {c}}
      /\ queries' = {q \in queries : q.peer \notin {c}}
      /\ pulls' = {s \in pulls : s.peer \notin {c}}
      /\ due' = [x \in Clients |-> [p \in Clients |-> IF x = c \/ p = c THEN 0 ELSE due[x][p]]]
      /\ info' = [info EXCEPT ![c] = NoCrc]
      /\ holds' = [holds EXCEPT ![c] = {}]
      /\ UNCHANGED <<serials, running, owner, turn, changes, nextToken, sequence, packet, cached, saved,
                     processed>>
  BY DEF Disconnecting, DisconnectingPublication, Input, ClearClients, ClearedClients, TransferRecord
<1>3. /\ files' \subseteq files /\ \A f \in files' : f.id # client[c].incoming
      /\ files' \subseteq [id : 1 .. MaxFiles, token : 1 .. MaxTokens]
  BY <1>1, <1>2, FilesLeft
<1>4. client'[c] = Fresh
  BY <1>2
<1>5. ASSUME NEW x \in Clients, x # c
      PROVE  /\ client'[x] \in ClientRecords /\ Transfers(x)
             /\ client'[x].downloads = client[x].downloads \ {c}
             /\ serial'[x] = serial[x] /\ info'[x] = info[x] /\ holds'[x] = holds[x]
  <2>1. client[x] \in ClientRecords /\ client[x].downloads \ {c} \in SUBSET Clients
    BY <1>1, RecordFields
  <2> DEFINE n == TransferRecord(client[x], client[x].downloads \ {c})
  <2>2. /\ n \in ClientRecords
        /\ n.phase = client[x].phase /\ n.token = client[x].token
        /\ n.target = client[x].target /\ n.active = client[x].active
        /\ n.stage = client[x].stage /\ n.barrier = client[x].barrier
        /\ n.downloads = client[x].downloads \ {c} /\ n.incoming = client[x].incoming
    BY <2>1, TransferFields
  <2>3. client'[x] = n
    BY <1>2, <1>5
  <2> HIDE DEF n
  <2>4. serial'[x] = serial[x] /\ info'[x] = info[x] /\ holds'[x] = holds[x]
    BY <1>1, <1>2, <1>5 DEF ClientsTypeOK, RestTypeOK
  <2> QED
    BY <2>2, <2>3, <2>4 DEF Transfers
<1>6. TypeOK'
  <2>1. ClientsTypeOK'
    BY <1>1, <1>2 DEF ClientsTypeOK
  <2>2. due' \in [Clients -> [Clients -> 0 .. 3]]
    BY <1>1, <1>2 DEF RestTypeOK
  <2>3. RestTypeOK'
    BY <1>1, <1>2, <1>3, <2>2 DEF RestTypeOK
  <2>4. client' \in [Clients -> ClientRecords]
    BY <1>2, <1>4, <1>5, FreshRecord
  <2> QED
    BY <2>1, <2>3, <2>4, TypeParts
<1>7. \A x \in Clients : UploadMoves(x)
  BY <1>3, <1>4, <1>5, FreshRecord DEF UploadMoves, Transfers
<1>8. \A x \in Clients : SoundMoves(x)
  BY <1>4, <1>5, FreshRecord DEF SoundMoves, Transfers
<1>9. \A x \in Clients : RequestMoves(x)
  <2>1. RequestMoves(c)
    BY <1>4, FreshRecord DEF RequestMoves, Unpublished
  <2>2. ASSUME NEW x \in Clients, x # c
        PROVE  RequestMoves(x)
    <3>1. \A s \in pulls' : s.peer # c
      BY <1>2
    <3> QED
      BY <1>5, <2>2, <3>1 DEF RequestMoves, Transfers
  <2> QED
    BY <2>1, <2>2
<1>10. ASSUME NEW x \in Clients, NEW p \in Clients
       PROVE  RoundHolds(x, p)'
  <2>1. due[x][p] # 0 => serial[p] # 0
    BY DEF IInv, RoundInv, RoundHolds, Current
  <2>2. due'[x][p] = IF x = c \/ p = c THEN 0 ELSE due[x][p]
    BY <1>2
  <2>3. \A s \in pulls : s.peer = p /\ p # c => s \in pulls'
    BY <1>2
  <2>4. RoundMoves(x, p)
    <3>1. CASE x = c
      BY <1>4, <2>2, <3>1, FreshRecord DEF RoundMoves
    <3>2. CASE x # c /\ p = c
      BY <1>5, <2>2, <3>2 DEF RoundMoves, Transfers
    <3>3. CASE x # c /\ p # c
      BY <1>5, <2>1, <2>2, <2>3, <3>3 DEF RoundMoves, Transfers
    <3> QED
      BY <3>1, <3>2, <3>3
  <2> QED
    BY <2>4, RoundStep DEF IInv
<1>11. UploadInv'
  BY <1>2, <1>3, <1>6, <1>7, UploadStep DEF IInv
<1>12. SoundInv' /\ RequestInv' /\ RoundInv'
  <2>1. \A t \in pulls' : serial'[t.peer] # 0
    BY <1>2, <1>5, Typed DEF IInv, RequestInv, PullsAreTracked, Current
  <2> QED
    BY <1>2, <1>6, <1>8, <1>9, <1>10, <2>1, NoRequestStep
<1> QED
  BY <1>6, <1>11, <1>12 DEF IInv

LEMMA LevelShutdownKeeps ==
    ASSUME IInv, LevelShutdown, StopMapPublication
    PROVE  IInv'
<1>1. ClientsTypeOK /\ RestTypeOK /\ client \in [Clients -> ClientRecords]
  BY TypeParts DEF IInv
<1>2. /\ serial' = [c \in Clients |-> 0] /\ running' = FALSE
      /\ client' = [c \in Clients |-> Fresh]
      /\ files' = Without({client[c].incoming : c \in Clients} \cup {packet.loose})
      /\ packet' = NoPacket
      /\ info' = [c \in Clients |-> NoCrc]
      /\ asked' = {} /\ queries' = {} /\ pulls' = {}
      /\ holds' = [c \in Clients |-> {}]
      /\ due' = [c \in Clients |-> [p \in Clients |-> 0]]
      /\ UNCHANGED <<serials, owner, turn, changes, nextToken, sequence, cached, saved, processed>>
  BY DEF LevelShutdown, StopMapPublication, Input, Unclaimed, Nobody
<1>3. /\ files' \subseteq files /\ \A f \in files' : f.id # packet.loose
      /\ \A c \in Clients, f \in files' : f.id # client[c].incoming
      /\ files' \subseteq [id : 1 .. MaxFiles, token : 1 .. MaxTokens]
  BY <1>1, <1>2, FilesLeft
<1>4. packet' \in [client : 0 .. MaxClients, serial : 0 .. MaxSerials, loose : 0 .. MaxFiles]
  BY <1>2 DEF NoPacket
<1>5. TypeOK'
  <2>1. ClientsTypeOK'
    <3>1. serial' \in [Clients -> 0 .. MaxSerials] /\ running' \in BOOLEAN
      <4>1. serial' = [c \in Clients |-> 0] /\ running' = FALSE
        BY <1>2
      <4>2. 0 \in 0 .. MaxSerials
        OBVIOUS
      <4> QED
        BY <4>1, <4>2
    <3>2. serials' = serials /\ owner' = owner /\ turn' = turn
      BY <1>2
    <3> QED
      BY <1>1, <3>1, <3>2 DEF ClientsTypeOK
  <2>2. due' \in [Clients -> [Clients -> 0 .. 3]]
    BY <1>2
  <2>3. RestTypeOK'
    BY <1>1, <1>2, <1>3, <1>4, <2>2 DEF RestTypeOK
  <2> QED
    BY <1>2, <2>1, <2>3, FreshRecord, TypeParts
<1>6. \A x \in Clients : UploadMoves(x) /\ SoundMoves(x) /\ RequestMoves(x)
  BY <1>2, <1>3, FreshRecord DEF UploadMoves, SoundMoves, RequestMoves, Unpublished
<1>7. ASSUME NEW x \in Clients, NEW p \in Clients
      PROVE  RoundHolds(x, p)'
  <2>1. RoundMoves(x, p)
    BY <1>2, FreshRecord DEF RoundMoves
  <2> QED
    BY <2>1, RoundStep DEF IInv
<1>8. UploadInv'
  BY <1>2, <1>3, <1>5, <1>6, UploadStep DEF IInv
<1>9. SoundInv' /\ RequestInv' /\ RoundInv'
  BY <1>2, <1>5, <1>6, <1>7, NoRequestStep
<1> QED
  BY <1>5, <1>8, <1>9 DEF IInv

LEMMA PluginUnloadedKeeps ==
    ASSUME IInv, NEW p \in Plugins, PluginUnloaded(p), PluginUnloadedPublication
    PROVE  IInv'
<1>1. ClientsTypeOK /\ RestTypeOK /\ client \in [Clients -> ClientRecords]
  BY TypeParts DEF IInv
<1> DEFINE Left(r) == [Idled(r) EXCEPT !.active = NoCrc]
<1>2. /\ owner' = NoPlugin
      /\ client' = [c \in Clients |-> Left(client[c])]
      /\ files' = Without({client[c].incoming : c \in Clients})
      /\ queries' = {}
      /\ UNCHANGED <<serial, serials, running, turn, changes, nextToken, sequence, packet, cached,
                     saved, info, asked, pulls, holds, due, processed>>
  BY DEF PluginUnloaded, PluginUnloadedPublication, Input
<1>3. /\ files' \subseteq files
      /\ \A c \in Clients, f \in files' : f.id # client[c].incoming
      /\ files' \subseteq [id : 1 .. MaxFiles, token : 1 .. MaxTokens]
  BY <1>1, <1>2, FilesLeft
<1>4. ASSUME NEW x \in Clients
      PROVE  /\ client'[x] \in ClientRecords /\ client'[x].phase = "idle"
             /\ client'[x].incoming = 0 /\ client'[x].token = client[x].token
             /\ client'[x].active = NoCrc
  <2>1. /\ Idled(client[x]) \in ClientRecords /\ Idled(client[x]).phase = "idle"
        /\ Idled(client[x]).incoming = 0 /\ Idled(client[x]).token = client[x].token
    BY <1>1, Endings
  <2>2. client'[x] = [Idled(client[x]) EXCEPT !.active = NoCrc]
    BY <1>2
  <2>3. NoCrc \in Crcs \cup {NoCrc}
    OBVIOUS
  <2> DEFINE m == Idled(client[x])
             n == [m EXCEPT !.active = NoCrc]
  <2>4. m \in ClientRecords
    BY <2>1
  <2>5. m.phase = "idle" /\ m.incoming = 0 /\ m.token = client[x].token
    BY <2>1
  <2>6. client'[x] = n
    BY <2>2
  <2> HIDE DEF m
  <2>7. n \in ClientRecords
    BY <2>3, <2>4 DEF ClientRecords
  <2>8. /\ n.phase = m.phase /\ n.incoming = m.incoming /\ n.token = m.token
        /\ n.active = NoCrc
    BY <2>4 DEF ClientRecords
  <2> HIDE DEF n
  <2> QED
    BY <2>5, <2>6, <2>7, <2>8
<1>5. TypeOK'
  <2>1. ClientsTypeOK' /\ RestTypeOK'
    BY <1>1, <1>2, <1>3 DEF ClientsTypeOK, RestTypeOK
  <2>2. client' \in [Clients -> ClientRecords]
    BY <1>2, <1>4
  <2> QED
    BY <2>1, <2>2, TypeParts
<1>6. \A x \in Clients : UploadMoves(x) /\ SoundMoves(x) /\ RequestMoves(x)
  BY <1>3, <1>4 DEF UploadMoves, SoundMoves, RequestMoves, Unpublished
<1>7. ASSUME NEW x \in Clients, NEW q \in Clients
      PROVE  RoundHolds(x, q)'
  <2>1. RoundMoves(x, q)
    BY <1>2, <1>4 DEF RoundMoves, IInv, RoundInv, RoundHolds, Current
  <2> QED
    BY <2>1, RoundStep DEF IInv
<1>8. UploadInv'
  BY <1>2, <1>3, <1>5, <1>6, UploadStep DEF IInv
<1>9. SoundInv' /\ RequestInv' /\ RoundInv'
  <2>1. \A t \in pulls' : serial'[t.peer] # 0
    BY <1>2 DEF IInv, RequestInv, PullsAreTracked, Current
  <2> QED
    BY <1>2, <1>5, <1>6, <1>7, <2>1, NoRequestStep
<1> QED
  BY <1>5, <1>8, <1>9 DEF IInv

(* A step that leaves the publications alone.                              *)
LEMMA IdleKeeps ==
    ASSUME IInv, ClientsTypeOK', UNCHANGED <<serial, publication>>
    PROVE  IInv'
<1>1. RestTypeOK /\ client \in [Clients -> ClientRecords]
  BY TypeParts DEF IInv
<1>2. UNCHANGED <<client, changes, nextToken, files, sequence, packet, cached, saved, info,
                  asked, queries, pulls, holds, due, processed>>
  BY DEF publication
<1>3. TypeOK'
  <2>1. RestTypeOK'
    BY <1>1, <1>2 DEF RestTypeOK
  <2> QED
    BY <1>1, <1>2, <2>1, TypeParts
<1>4. \A x \in Clients : Steady(x)
  BY <1>2 DEF Steady
<1> QED
  BY <1>2, <1>3, <1>4, SteadyStep

------------------------------------------------------------------------------
(* The frame.                                                              *)

(* Among the slots that are left there is a first one.                     *)
Below(i, j) == <<i, j>> \in OpToRel(<, Nat)

LEMMA LeastNatural ==
    ASSUME NEW S \in SUBSET Nat, S # {}
    PROVE  \E x \in S : \A y \in S : x <= y
<1>1. \E x \in S : \A y \in S : ~Below(y, x)
  BY Zenon, NatLessThanWellFounded, WFMin DEF Below
<1>2. \A i, j \in Nat : i < j => Below(i, j)
  BY Zenon DEF OpToRel, Below
<1> QED
  BY <1>1, <1>2

LEMMA NextSlotTyped ==
    ASSUME NEW c \in Nat, NEW busy \in SUBSET Clients
    PROVE  NextSlot(c, busy) \in 0 .. MaxClients
<1> DEFINE later == {x \in busy : x > c}
<1>1. later \in SUBSET Nat /\ later \in SUBSET Clients
  <2>1. later \subseteq busy /\ busy \subseteq Clients
    OBVIOUS
  <2>2. Clients \subseteq Nat
    OBVIOUS
  <2> HIDE DEF later, Clients
  <2> QED
    BY <2>1, <2>2
<1>2. CASE later # {}
  <2> DEFINE m == CHOOSE x \in later : \A y \in later : x <= y
  <2>1. \E x \in later : \A y \in later : x <= y
    <3> HIDE DEF later
    <3> QED
      BY <1>1, <1>2, LeastNatural
  <2>2. m \in later
    BY <2>1
  <2>3. NextSlot(c, busy) = m
    BY <1>2 DEF NextSlot
  <2> QED
    BY <1>1, <2>2, <2>3
<1>3. CASE later = {}
  BY <1>3 DEF NextSlot
<1> QED
  BY <1>2, <1>3

LEMMA FrameReachesTyped ==
    ASSUME ClientsTypeOK, NEW c \in Clients, FrameReaches(c, BusySlots)
    PROVE  ClientsTypeOK'
<1>1. BusySlots \in SUBSET Clients
  BY DEF BusySlots
<1>2. turn' \in 0 .. MaxClients
  BY <1>1, NextSlotTyped DEF FrameReaches
<1> QED
  BY <1>2 DEF FrameReaches, ClientsTypeOK

LEMMA IdleFrameKeeps ==
    ASSUME IInv, IdleFrame(BusySlots), IdleFramePublication
    PROVE  IInv'
<1>1. ClientsTypeOK'
  BY TypeParts DEF IInv, IdleFrame, Input, ClientsTypeOK
<1>2. files' = Without(Unclaimed)
  BY DEF IdleFrame, Input, IdleFramePublication, Kept
<1> QED
  BY <1>1, <1>2, DroppedKeeps DEF IdleFrame, IdleFramePublication

(* A frame drops what a packet without an end left behind.                 *)
Dropped ==
    /\ Kept \subseteq files
    /\ \A f \in Kept : f.id # packet.loose \/ packet'.loose = packet.loose
    /\ packet' \in [client : 0 .. MaxClients, serial : 0 .. MaxSerials, loose : 0 .. MaxFiles]

LEMMA FrameDrops ==
    ASSUME RestTypeOK, packet' = IF turn = 0 THEN NoPacket ELSE packet
    PROVE  Dropped
<1>1. CASE turn = 0
  <2>1. packet' = NoPacket /\ Kept = Without({packet.loose})
    BY <1>1 DEF Kept, Unclaimed
  <2>2. /\ Without({packet.loose}) \subseteq files
        /\ \A f \in Without({packet.loose}) : f.id # packet.loose
    BY FilesLeft
  <2>3. packet' \in [client : 0 .. MaxClients, serial : 0 .. MaxSerials, loose : 0 .. MaxFiles]
    BY <2>1 DEF NoPacket
  <2> QED
    BY <2>1, <2>2, <2>3 DEF Dropped
<1>2. CASE turn # 0
  BY <1>2 DEF Dropped, Kept, RestTypeOK
<1> QED
  BY <1>1, <1>2

(* A visit of the frame to a slot: what it changes besides the slot.       *)
Visits(c, n) ==
    /\ n \in ClientRecords
    /\ client' = [client EXCEPT ![c] = n]
    /\ \A x \in Clients : x # c => info'[x] = info[x] /\ due'[x] = due[x]
    /\ info' \in [Clients -> Crcs \cup {NoCrc}]
    /\ due' \in [Clients -> [Clients -> 0 .. 3]]
    /\ saved' \in [Clients -> [Paths -> Crcs \cup {NoCrc}]]
    /\ queries' \subseteq [peer : Clients, token : 1 .. MaxTokens]
    /\ cached \subseteq cached' /\ cached' \subseteq Images \cup Validated
    /\ files' \subseteq Kept
    /\ processed' \in BOOLEAN
    /\ UNCHANGED <<serial, changes, nextToken, sequence, asked, pulls, holds>>

LEMMA VisitTyped ==
    ASSUME IInv, ClientsTypeOK', Dropped, NEW c \in Clients, NEW n, Visits(c, n)
    PROVE  /\ TypeOK' /\ client'[c] = n
           /\ \A x \in Clients : x # c => client'[x] = client[x]
<1>1. RestTypeOK /\ client \in [Clients -> ClientRecords]
  BY TypeParts DEF IInv
<1>2. Images \cup Validated \subseteq Crcs
  BY DEF Crcs, Validated
<1>3. client'[c] = n /\ client' \in [Clients -> ClientRecords]
      /\ \A x \in Clients : x # c => client'[x] = client[x]
  BY <1>1 DEF Visits
<1>4. RestTypeOK'
  BY <1>1, <1>2 DEF RestTypeOK, Visits, Dropped
<1> QED
  BY <1>3, <1>4, TypeParts

LEMMA VisitKeeps ==
    ASSUME IInv, ClientsTypeOK', Dropped, NEW c \in Clients, NEW n, Visits(c, n),
           UploadMoves(c), SoundMoves(c), RequestMoves(c),
           \A p \in Clients : RoundHolds(c, p)'
    PROVE  IInv'
<1>1. /\ TypeOK' /\ \A x \in Clients : x # c => client'[x] = client[x]
  BY VisitTyped
<1>2. /\ \A x \in Clients : x # c => info'[x] = info[x] /\ due'[x] = due[x]
      /\ UNCHANGED <<serial, nextToken, sequence, pulls, holds>>
      /\ files' \subseteq files
      /\ \A f \in files' : f.id # packet.loose \/ packet'.loose = packet.loose
      /\ cached \subseteq cached' /\ cached' \subseteq Images \cup Validated
  BY DEF Visits, Dropped
<1> QED
  BY <1>1, <1>2, OneClientStep

(* A visit that ends the request of the slot, or leaves it as it is.       *)
LEMMA RestingVisitKeeps ==
    ASSUME IInv, ClientsTypeOK', Dropped, NEW c \in Clients, NEW n, Visits(c, n),
           n.phase \in {"idle", "failed", "ready", "warming"},
           n.active = client[c].active, n.token = client[c].token, n.incoming = 0,
           client[c].incoming = 0 \/ \A f \in files' : f.id # client[c].incoming,
           info'[c] = info[c],
           \A p \in Clients : due'[c][p] = due[c][p] \/ (due'[c][p] # 0 => Current(p))
    PROVE  IInv'
<1>1. client'[c] = n /\ serial' = serial /\ holds' = holds /\ pulls' = pulls
  BY VisitTyped DEF Visits
<1>2. Rests(c)
  BY <1>1 DEF Rests
<1> QED
  BY <1>1, <1>2, RestMoves, VisitKeeps

(* What an upload teaches of its selection.                                *)
LearntRecord(r, k) == [r EXCEPT !.known[r.selected] = k, !.incoming = 0]

LEMMA Learnt ==
    ASSUME NEW r \in ClientRecords, NEW k \in Crcs
    PROVE  LET n == LearntRecord(r, k)
           IN  /\ n \in ClientRecords /\ n.phase = r.phase /\ n.token = r.token
               /\ n.active = r.active /\ n.incoming = 0
               /\ n.known \in [Paths -> Crcs \cup {NoCrc}]
               /\ n.wanted = r.wanted /\ n.selected = r.selected
<1> DEFINE l == [r.known EXCEPT ![r.selected] = k]
<1>1. l \in [Paths -> Crcs \cup {NoCrc}]
  <2>1. r.known \in [Paths -> Crcs \cup {NoCrc}] /\ k \in Crcs \cup {NoCrc}
    BY RecordFields
  <2> QED
    BY <2>1
<1>2. LearntRecord(r, k) = [r EXCEPT !.known = l, !.incoming = 0]
  BY DEF ClientRecords, LearntRecord
<1>3. 0 \in 0 .. MaxFiles
  OBVIOUS
<1> HIDE DEF l
<1>4. LearntRecord(r, k) \in ClientRecords
  BY <1>1, <1>2, <1>3 DEF ClientRecords
<1>5. LET n == LearntRecord(r, k)
      IN  /\ n.phase = r.phase /\ n.token = r.token
          /\ n.active = r.active /\ n.incoming = 0 /\ n.known = l
          /\ n.wanted = r.wanted /\ n.selected = r.selected
  BY <1>2 DEF ClientRecords
<1> QED
  BY <1>1, <1>4, <1>5

ReadyRecord(r) == [r EXCEPT !.phase = "ready"]

LEMMA Readied ==
    ASSUME NEW r \in ClientRecords
    PROVE  /\ ReadyRecord(r) \in ClientRecords /\ ReadyRecord(r).phase = "ready"
           /\ ReadyRecord(r).token = r.token /\ ReadyRecord(r).active = r.active
           /\ ReadyRecord(r).incoming = r.incoming
<1>1. "ready" \in Phases
  BY DEF Phases
<1> QED
  BY <1>1 DEF ReadyRecord, ClientRecords

LEMMA CompleteKeeps ==
    ASSUME IInv, ClientsTypeOK', Dropped, NEW c \in Clients, NEW image \in Images,
           NEW works \in BOOLEAN, Complete(c, client[c], image, works),
           client[c].phase = "processing", processed' \in BOOLEAN,
           UNCHANGED <<serial, changes, nextToken, sequence, asked, pulls, holds, info, queries>>
    PROVE  IInv'
<1>1. RestTypeOK /\ client \in [Clients -> ClientRecords] /\ client[c] \in ClientRecords
  BY TypeParts DEF IInv
<1> DEFINE r == client[c]
           k == Canonical[image]
           taken == {f \in files : f.id = r.incoming}
           learnt == LearntRecord(r, k)
           accepted == works /\ Current(c) /\ taken # {} /\ Valid(image)
<1>2. /\ files' = Kept \ taken
      /\ \/ /\ accepted
            /\ cached' = cached \cup {k}
            /\ saved' = [saved EXCEPT ![c] = learnt.known]
            /\ \/ client' = [client EXCEPT ![c] = ReadyRecord(learnt)] /\ UNCHANGED due
               \/ /\ client' = [client EXCEPT ![c] = PreparePublication(learnt, k)]
                  /\ due' = [due EXCEPT ![c] = OwedAfterClear]
         \/ client' = [client EXCEPT ![c] = Fail(r)] /\ UNCHANGED <<cached, saved, due>>
  BY DEF Complete, LearntRecord, ReadyRecord
<1>3. files' \subseteq Kept /\ \A f \in files' : f.id # r.incoming
  BY <1>2 DEF Dropped
<1>4. k \in Crcs /\ cached \subseteq Images \cup Validated
  BY DEF Crcs, IInv, SoundInv, CacheIsValidated
<1>5. accepted => k \in Validated
  BY DEF Valid, ValidCrcs, Validated
<1>6. /\ learnt \in ClientRecords /\ learnt.token = r.token
      /\ learnt.active = r.active /\ learnt.incoming = 0
      /\ learnt.known \in [Paths -> Crcs \cup {NoCrc}]
  BY <1>1, <1>4, Learnt
<1>7. OwedAfterClear \in [Clients -> 0 .. 3]
  BY DEF OwedAfterClear
<1>8. r.token # 0
  BY DEF IInv, RequestInv, TokensAreFresh, Unpublished
<1> HIDE DEF k, learnt, taken, accepted
<1>9. /\ info' \in [Clients -> Crcs \cup {NoCrc}]
      /\ queries' \subseteq [peer : Clients, token : 1 .. MaxTokens]
      /\ saved \in [Clients -> [Paths -> Crcs \cup {NoCrc}]]
      /\ due \in [Clients -> [Clients -> 0 .. 3]]
  BY <1>1 DEF RestTypeOK
<1>10. CASE /\ accepted
            /\ cached' = cached \cup {k}
            /\ saved' = [saved EXCEPT ![c] = learnt.known]
            /\ client' = [client EXCEPT ![c] = ReadyRecord(learnt)] /\ UNCHANGED due
  <2> DEFINE n == ReadyRecord(learnt)
  <2>1. /\ n \in ClientRecords /\ n.phase = "ready" /\ n.token = r.token
        /\ n.active = r.active /\ n.incoming = 0
    BY <1>6, Readied
  <2>2. client' = [client EXCEPT ![c] = n]
    BY <1>10
  <2> HIDE DEF n
  <2>3. saved' \in [Clients -> [Paths -> Crcs \cup {NoCrc}]]
    BY <1>6, <1>9, <1>10
  <2>4. Visits(c, n)
    BY <1>3, <1>4, <1>5, <1>9, <1>10, <2>1, <2>2, <2>3 DEF Visits
  <2> QED
    BY <1>3, <1>10, <2>1, <2>4, RestingVisitKeeps
<1>11. CASE /\ accepted
            /\ cached' = cached \cup {k}
            /\ saved' = [saved EXCEPT ![c] = learnt.known]
            /\ client' = [client EXCEPT ![c] = PreparePublication(learnt, k)]
            /\ due' = [due EXCEPT ![c] = OwedAfterClear]
  <2> DEFINE n == PreparePublication(learnt, k)
  <2>1. /\ n \in ClientRecords /\ n.phase = "awaitClear" /\ n.target = k /\ n.stage = 0
        /\ n.token = r.token /\ n.active = r.active /\ n.incoming = 0
    BY <1>4, <1>6, Prepared
  <2>2. client' = [client EXCEPT ![c] = n]
    BY <1>11
  <2> HIDE DEF n
  <2>3. saved' \in [Clients -> [Paths -> Crcs \cup {NoCrc}]]
    BY <1>6, <1>9, <1>11
  <2>4. Visits(c, n)
    <3>1. /\ due' \in [Clients -> [Clients -> 0 .. 3]]
          /\ \A x \in Clients : x # c => due'[x] = due[x]
      BY <1>7, <1>9, <1>11
    <3> QED
      BY <1>3, <1>4, <1>5, <1>9, <1>11, <2>1, <2>2, <2>3, <3>1 DEF Visits
  <2>5. client'[c] = n
    BY <2>4, VisitTyped
  <2>6. UploadMoves(c) /\ SoundMoves(c)
    BY <1>3, <1>5, <1>11, <2>1, <2>5 DEF UploadMoves, SoundMoves
  <2>7. RequestMoves(c)
    BY <2>1, <2>5 DEF RequestMoves, Unpublished
  <2>8. ASSUME NEW p \in Clients
        PROVE  RoundHolds(c, p)'
    <3>1. due'[c][p] # 0 => serial[p] # 0
      BY <1>9, <1>11 DEF OwedAfterClear, Current
    <3>2. RoundMoves(c, p)
      BY <2>1, <2>5, <3>1 DEF RoundMoves
    <3> QED
      BY <3>2, RoundStep DEF IInv
  <2> QED
    BY <2>4, <2>6, <2>7, <2>8, VisitKeeps
<1>12. CASE client' = [client EXCEPT ![c] = Fail(r)] /\ UNCHANGED <<cached, saved, due>>
  <2> DEFINE n == Fail(r)
  <2>1. /\ n \in ClientRecords /\ n.phase = "failed" /\ n.incoming = 0
        /\ n.token = r.token /\ n.active = r.active
    BY <1>1, Endings
  <2>2. client' = [client EXCEPT ![c] = n]
    BY <1>12
  <2> HIDE DEF n
  <2>3. Visits(c, n)
    BY <1>3, <1>4, <1>9, <1>12, <2>1, <2>2 DEF Visits
  <2> QED
    BY <1>3, <1>12, <2>1, <2>3, RestingVisitKeeps
<1> QED
  BY <1>2, <1>10, <1>11, <1>12

Stages == 0 .. 3

(* The records of a round of queries.                                      *)
RoundRecord(r, s, b) == [r EXCEPT !.stage = s, !.barrier = b]

LEMMA RoundFields ==
    ASSUME NEW r \in ClientRecords, NEW s \in Stages, NEW b \in [Clients -> 0 .. MaxSerials]
    PROVE  LET n == RoundRecord(r, s, b)
           IN  /\ n \in ClientRecords
               /\ n.phase = r.phase /\ n.token = r.token
               /\ n.target = r.target /\ n.active = r.active /\ n.stage = s
               /\ n.barrier = b /\ n.downloads = r.downloads /\ n.incoming = r.incoming
               /\ n.wanted = r.wanted /\ n.selected = r.selected
<1>1. RoundRecord(r, s, b) \in ClientRecords
  BY DEF ClientRecords, RoundRecord, Stages
<1> QED
  BY <1>1 DEF ClientRecords, RoundRecord

(* QueryBarrier waits for every current peer.                              *)
LEMMA Queried ==
    ASSUME ClientsTypeOK, NEW r \in ClientRecords, NEW s \in Stages
    PROVE  LET n == QueryBarrier([r EXCEPT !.stage = s])
           IN  /\ n \in ClientRecords
               /\ n.phase = r.phase /\ n.token = r.token
               /\ n.target = r.target /\ n.active = r.active /\ n.stage = s
               /\ n.downloads = r.downloads /\ n.incoming = r.incoming
               /\ n.wanted = r.wanted /\ n.selected = r.selected
               /\ \A p \in Clients : Current(p) => n.barrier[p] = serial[p]
<1> DEFINE b == [p \in Clients |-> IF Current(p) THEN serial[p] ELSE 0]
<1>1. b \in [Clients -> 0 .. MaxSerials]
  BY DEF ClientsTypeOK
<1>2. QueryBarrier([r EXCEPT !.stage = s]) = RoundRecord(r, s, b)
  BY DEF QueryBarrier, RoundRecord, ClientRecords
<1>3. \A p \in Clients : Current(p) => b[p] = serial[p]
  OBVIOUS
<1> HIDE DEF b
<1> DEFINE m == RoundRecord(r, s, b)
<1>4. /\ m \in ClientRecords
      /\ m.phase = r.phase /\ m.token = r.token
      /\ m.target = r.target /\ m.active = r.active /\ m.stage = s
      /\ m.barrier = b /\ m.downloads = r.downloads /\ m.incoming = r.incoming
      /\ m.wanted = r.wanted /\ m.selected = r.selected
  BY <1>1, RoundFields
<1>5. QueryBarrier([r EXCEPT !.stage = s]) = m
  BY <1>2
<1> HIDE DEF m
<1> QED
  BY <1>3, <1>4, <1>5

(* DropGone goes on waiting for who is waited for and there.               *)
LEMMA GoneDropped ==
    ASSUME NEW r \in ClientRecords
    PROVE  LET n == DropGone(r)
           IN  /\ n \in ClientRecords
               /\ n.phase = r.phase /\ n.token = r.token
               /\ n.target = r.target /\ n.active = r.active /\ n.stage = r.stage
               /\ n.downloads = r.downloads /\ n.incoming = r.incoming
               /\ n.wanted = r.wanted /\ n.selected = r.selected
               /\ \A p \in Clients : Current(p) /\ r.barrier[p] = serial[p]
                                     => n.barrier[p] = serial[p]
<1> DEFINE b == [p \in Clients |-> IF p \in Asked(r) THEN r.barrier[p] ELSE 0]
<1>1. b \in [Clients -> 0 .. MaxSerials]
  BY RecordFields
<1>2. DropGone(r) = RoundRecord(r, r.stage, b)
  BY DEF DropGone, RoundRecord, ClientRecords
<1>3. \A p \in Clients : Current(p) /\ r.barrier[p] = serial[p] => b[p] = serial[p]
  BY DEF Asked, Current
<1>4. r.stage \in Stages
  BY RecordFields DEF Stages
<1> HIDE DEF b
<1> DEFINE m == RoundRecord(r, r.stage, b)
<1>5. /\ m \in ClientRecords
      /\ m.phase = r.phase /\ m.token = r.token
      /\ m.target = r.target /\ m.active = r.active /\ m.stage = r.stage
      /\ m.barrier = b /\ m.downloads = r.downloads /\ m.incoming = r.incoming
      /\ m.wanted = r.wanted /\ m.selected = r.selected
  BY <1>1, <1>4, RoundFields
<1>6. DropGone(r) = m
  BY <1>2
<1> HIDE DEF m
<1> QED
  BY <1>3, <1>5, <1>6

(* While the clear is waited for, what a record says of the answers due.   *)
ClearRecord(c, n) ==
    \A p \in Clients :
        /\ due[c][p] = 3 => n.stage \in {0, 1}
        /\ due[c][p] = 3 /\ n.stage = 1 => n.barrier[p] = serial[p]
        /\ due[c][p] = 2 /\ n.stage = 3 => n.barrier[p] = serial[p]

(* The three ways a visit leaves a slot that awaits the clear: it goes on  *)
(* waiting, it ends, or everybody has answered twice and it publishes.     *)
GoesOnWaiting(c, n) ==
    /\ n.phase = "awaitClear" /\ n.target = client[c].target
    /\ n.active = client[c].active /\ n.incoming = client[c].incoming
    /\ n.token = client[c].token
    /\ ClearRecord(c, n)
    /\ info' = info

GivesUp(c, n) ==
    /\ n.phase \in {"failed", "ready"} /\ n.incoming = client[c].incoming
    /\ n.active = client[c].active /\ n.token = client[c].token
    /\ info' = info

Announces(c, n) ==
    /\ n.phase \in {"ready", "distributing"} /\ n.incoming = client[c].incoming
    /\ n.active = client[c].target /\ n.token = client[c].token
    /\ n.phase = "distributing" => n.stage = 0 /\ info[c] # client[c].target
    /\ info' = [info EXCEPT ![c] = client[c].target]
    /\ Current(c)
    /\ \A p \in Clients : due[c][p] \in {0, 1}

PublishedRecord(r, phase, s) ==
    [r EXCEPT !.active = r.target, !.downloads = {}, !.phase = phase, !.stage = s]

LEMMA PublishedFields ==
    ASSUME NEW r \in ClientRecords, NEW phase \in Phases, NEW s \in Stages
    PROVE  LET n == PublishedRecord(r, phase, s)
           IN  /\ n \in ClientRecords /\ n.phase = phase /\ n.token = r.token
               /\ n.active = r.target /\ n.stage = s /\ n.incoming = r.incoming
<1>1. r.target \in Crcs \cup {NoCrc} /\ {} \in SUBSET Clients
  BY RecordFields
<1>2. PublishedRecord(r, phase, s) \in ClientRecords
  BY <1>1 DEF ClientRecords, PublishedRecord, Stages
<1> QED
  BY <1>2 DEF ClientRecords, PublishedRecord

(* Publish announces the image, or fails.                                  *)
LEMMA PublishOutcome ==
    ASSUME NEW c \in Clients, NEW r \in ClientRecords, NEW works \in BOOLEAN, Publish(c, r, works),
           r.incoming = 0
    PROVE  \E n \in ClientRecords :
              /\ client' = [client EXCEPT ![c] = n] /\ n.incoming = 0 /\ n.token = r.token
              /\ \/ n.phase = "failed" /\ n.active = r.active /\ info' = info
                 \/ /\ n.phase \in {"ready", "distributing"} /\ n.active = r.target
                    /\ n.phase = "distributing" => n.stage = 0 /\ info[c] # r.target
                    /\ info' = [info EXCEPT ![c] = r.target]
                    /\ Current(c)
<1>1. CASE ~(works /\ running /\ Current(c))
  <2>1. client' = [client EXCEPT ![c] = Fail(r)] /\ info' = info
    BY <1>1 DEF Publish
  <2> QED
    BY <2>1, Endings
<1>2. CASE works /\ running /\ Current(c)
  <2> DEFINE told == [r EXCEPT !.active = r.target, !.downloads = {}]
  <2>1. /\ info' = [info EXCEPT ![c] = r.target]
        /\ client' = [client EXCEPT ![c] =
               IF info[c] = r.target THEN [told EXCEPT !.phase = "ready"]
               ELSE [told EXCEPT !.phase = "distributing", !.stage = 0]]
    BY <1>2 DEF Publish
  <2>2. /\ [told EXCEPT !.phase = "ready"] = PublishedRecord(r, "ready", r.stage)
        /\ [told EXCEPT !.phase = "distributing", !.stage = 0]
              = PublishedRecord(r, "distributing", 0)
    BY DEF ClientRecords, PublishedRecord
  <2>3. /\ "ready" \in Phases /\ "distributing" \in Phases /\ r.stage \in Stages /\ 0 \in Stages
    BY RecordFields DEF Phases, Stages
  <2> HIDE DEF told
  <2>4. CASE info[c] = r.target
    <3> DEFINE n == PublishedRecord(r, "ready", r.stage)
    <3>1. /\ n \in ClientRecords /\ n.phase = "ready" /\ n.token = r.token
          /\ n.active = r.target /\ n.incoming = r.incoming
      BY <2>3, PublishedFields
    <3>2. client' = [client EXCEPT ![c] = n]
      BY <2>1, <2>2, <2>4
    <3> HIDE DEF n
    <3> QED
      BY <1>2, <2>1, <3>1, <3>2
  <2>5. CASE info[c] # r.target
    <3> DEFINE n == PublishedRecord(r, "distributing", 0)
    <3>1. /\ n \in ClientRecords /\ n.phase = "distributing" /\ n.token = r.token
          /\ n.active = r.target /\ n.stage = 0 /\ n.incoming = r.incoming
      BY <2>3, PublishedFields
    <3>2. client' = [client EXCEPT ![c] = n]
      BY <2>1, <2>2, <2>5
    <3> HIDE DEF n
    <3> QED
      BY <1>2, <2>1, <2>5, <3>1, <3>2
  <2> QED
    BY <2>4, <2>5
<1> QED
  BY <1>1, <1>2

LEMMA AwaitClearOutcome ==
    ASSUME IInv, NEW c \in Clients, NEW late \in BOOLEAN, NEW elapsed \in BOOLEAN,
           NEW works \in BOOLEAN, client[c].phase = "awaitClear",
           AwaitClear(c, client[c], late, elapsed, works)
    PROVE  /\ \E n \in ClientRecords :
                 /\ client' = [client EXCEPT ![c] = n]
                 /\ GoesOnWaiting(c, n) \/ GivesUp(c, n) \/ Announces(c, n)
           /\ queries' \subseteq [peer : Clients, token : 1 .. MaxTokens]
<1>1. /\ ClientsTypeOK /\ RestTypeOK /\ client \in [Clients -> ClientRecords]
      /\ client[c] \in ClientRecords
  BY TypeParts DEF IInv
<1> DEFINE r == client[c]
           begins == RoundBegins(r, elapsed)
           asks == IF begins THEN QueryBarrier([r EXCEPT !.stage = r.stage + 1]) ELSE r
           heard == IF asks.stage \in {1, 3} THEN DropGone(asks) ELSE asks
           Moves(next) == client' = [client EXCEPT ![c] = next] /\ UNCHANGED info
<1>2. r.incoming = 0 /\ r.token # 0 /\ r.token \in 0 .. MaxTokens /\ r.stage \in 0 .. 3
  BY <1>1, RecordFields
     DEF IInv, UploadInv, UploadsAreNumbered, RequestInv, TokensAreFresh, Unpublished
<1>3. ASSUME NEW p \in Clients
      PROVE  /\ due[c][p] # 0 => Current(p)
             /\ due[c][p] = 3 => r.stage \in {0, 1}
             /\ due[c][p] = 3 /\ r.stage = 1 => r.barrier[p] = serial[p]
             /\ due[c][p] = 2 /\ r.stage = 3 => r.barrier[p] = serial[p]
             /\ due[c][p] \in 0 .. 3
  BY <1>1, Typed DEF IInv, RoundInv, RoundHolds, ClearIsAnswered, Unanswered
<1>4. /\ asks \in ClientRecords /\ asks.phase = r.phase /\ asks.token = r.token
      /\ asks.target = r.target /\ asks.active = r.active /\ asks.incoming = r.incoming
      /\ ClearRecord(c, asks)
  <2>1. CASE begins
    <3>1. r.stage \in {0, 2} /\ r.stage + 1 \in Stages
      BY <2>1 DEF RoundBegins, Stages
    <3> DEFINE n == QueryBarrier([r EXCEPT !.stage = r.stage + 1])
    <3>2. /\ n \in ClientRecords /\ n.phase = r.phase /\ n.token = r.token
          /\ n.target = r.target /\ n.active = r.active /\ n.incoming = r.incoming
          /\ n.stage = r.stage + 1
          /\ \A p \in Clients : Current(p) => n.barrier[p] = serial[p]
      BY <1>1, <3>1, Queried
    <3>3. asks = n
      BY <2>1
    <3> HIDE DEF n, asks
    <3>4. ClearRecord(c, n)
      BY <1>3, <3>1, <3>2 DEF ClearRecord
    <3> QED
      BY <3>2, <3>3, <3>4
  <2>2. CASE ~begins
    <3>1. asks = r
      BY <2>2
    <3> HIDE DEF asks, begins
    <3> QED
      BY <1>1, <1>3, <3>1 DEF ClearRecord
  <2> QED
    BY <2>1, <2>2
<1>5. /\ late => Moves(Fail(r)) /\ UNCHANGED queries
      /\ ~late => /\ queries' = IF begins THEN queries \cup BarrierQueries(asks) ELSE queries
                  /\ \/ Moves(heard)
                     \/ /\ ~BarrierPending(asks) /\ asks.stage \in {1, 3} /\ heard.stage < 3
                        /\ Moves(RoundRecord(heard, 2, heard.barrier))
                     \/ Moves(ReadyRecord(heard))
                     \/ /\ ~BarrierPending(asks) /\ heard.stage >= 3
                        /\ Publish(c, heard, works)
  <2>1. asks.stage \in 0 .. 3
    <3> HIDE DEF asks
    <3> QED
      BY <1>4, RecordFields
  <2>2. heard.stage = asks.stage
    <3> HIDE DEF asks
    <3> QED
      BY <1>4, GoneDropped
  <2>3. IF late THEN Moves(Fail(r)) /\ UNCHANGED queries
        ELSE /\ queries' = IF begins THEN queries \cup BarrierQueries(asks) ELSE queries
             /\ IF asks.stage \in {0, 2} \/ BarrierPending(asks) THEN Moves(heard)
                ELSE IF heard.stage < 3 THEN Moves(RoundRecord(heard, 2, heard.barrier))
                ELSE IF Overtaken(heard) THEN Moves(ReadyRecord(heard))
                ELSE Publish(c, heard, works)
    <3>1. [heard EXCEPT !.stage = 2] = RoundRecord(heard, 2, heard.barrier)
      <4>1. heard \in ClientRecords
        <5> HIDE DEF asks
        <5> QED
          BY <1>4, GoneDropped
      <4> HIDE DEF heard
      <4> QED
        BY <4>1 DEF RoundRecord, ClientRecords
    <3> QED
      BY <3>1 DEF AwaitClear, LastStage, ReadyRecord
  <2> HIDE DEF asks, heard, begins, Moves
  <2>4. ASSUME ~late
        PROVE  \/ Moves(heard)
               \/ /\ ~BarrierPending(asks) /\ asks.stage \in {1, 3} /\ heard.stage < 3
                  /\ Moves(RoundRecord(heard, 2, heard.barrier))
               \/ Moves(ReadyRecord(heard))
               \/ /\ ~BarrierPending(asks) /\ heard.stage >= 3
                  /\ Publish(c, heard, works)
    BY <2>1, <2>2, <2>3, <2>4
  <2> QED
    BY <2>3, <2>4
<1>6. /\ heard \in ClientRecords /\ heard.phase = r.phase /\ heard.token = r.token
      /\ heard.target = r.target /\ heard.active = r.active /\ heard.incoming = r.incoming
      /\ heard.stage = asks.stage /\ ClearRecord(c, heard)
  <2> HIDE DEF asks
  <2>1. CASE heard = asks
    <3> HIDE DEF heard
    <3> QED
      BY <1>4, <2>1
  <2>2. CASE heard = DropGone(asks)
    <3> DEFINE n == DropGone(asks)
    <3>1. /\ n \in ClientRecords /\ n.phase = r.phase /\ n.token = r.token
          /\ n.target = r.target /\ n.active = r.active /\ n.incoming = r.incoming
          /\ n.stage = asks.stage
          /\ \A p \in Clients : Current(p) /\ asks.barrier[p] = serial[p]
                                => n.barrier[p] = serial[p]
      BY <1>4, GoneDropped
    <3>2. heard = n
      BY <2>2
    <3> HIDE DEF n, heard
    <3>3. ClearRecord(c, n)
      BY <1>3, <1>4, <3>1 DEF ClearRecord
    <3> QED
      BY <3>1, <3>2, <3>3
  <2> QED
    BY <2>1, <2>2
<1>7. queries' \subseteq [peer : Clients, token : 1 .. MaxTokens]
  <2>1. asks.token \in 1 .. MaxTokens
    <3> HIDE DEF asks
    <3> QED
      BY <1>2, <1>4
  <2> HIDE DEF asks, heard, begins, r
  <2>2. BarrierQueries(asks) \subseteq [peer : Clients, token : 1 .. MaxTokens]
    BY <2>1 DEF BarrierQueries
  <2>3. queries \subseteq [peer : Clients, token : 1 .. MaxTokens]
    BY <1>1 DEF RestTypeOK
  <2>4. queries' = queries \/ queries' = queries \cup BarrierQueries(asks)
    BY <1>5
  <2> QED
    BY <2>2, <2>3, <2>4
<1>8. ASSUME ~BarrierPending(asks), NEW p \in Clients, Current(p)
      PROVE  asks.barrier[p] # serial[p]
  <2> HIDE DEF asks
  <2> QED
    BY <1>8 DEF BarrierPending, Asked, Current
<1>9. CASE Moves(Fail(r))
  <2> DEFINE n == Fail(r)
  <2>1. /\ n \in ClientRecords /\ n.phase = "failed" /\ n.incoming = 0
        /\ n.token = r.token /\ n.active = r.active
    BY <1>1, Endings
  <2>2. client' = [client EXCEPT ![c] = n] /\ info' = info
    BY <1>9
  <2> HIDE DEF n, asks, heard
  <2>3. GivesUp(c, n)
    BY <1>2, <2>1, <2>2 DEF GivesUp
  <2> QED
    BY <1>7, <2>1, <2>2, <2>3
<1>10. CASE Moves(heard)
  <2>1. client' = [client EXCEPT ![c] = heard] /\ info' = info
    BY <1>10
  <2> HIDE DEF asks, heard
  <2>2. GoesOnWaiting(c, heard)
    BY <1>6, <2>1 DEF GoesOnWaiting
  <2> QED
    BY <1>6, <1>7, <2>1, <2>2
<1>11. CASE /\ ~BarrierPending(asks) /\ asks.stage \in {1, 3} /\ heard.stage < 3
            /\ Moves(RoundRecord(heard, 2, heard.barrier))
  <2> DEFINE n == RoundRecord(heard, 2, heard.barrier)
  <2>1. client' = [client EXCEPT ![c] = n] /\ info' = info
    BY <1>11
  <2>2. asks.stage = 1
    <3> HIDE DEF asks, heard
    <3> QED
      BY <1>6, <1>11
  <2>3. heard.barrier \in [Clients -> 0 .. MaxSerials] /\ 2 \in Stages
    <3> HIDE DEF heard
    <3> QED
      BY <1>6, RecordFields DEF Stages
  <2>4. /\ n \in ClientRecords /\ n.phase = r.phase /\ n.token = r.token
        /\ n.target = r.target /\ n.active = r.active /\ n.incoming = r.incoming
        /\ n.stage = 2
    <3> HIDE DEF heard, asks
    <3> QED
      BY <1>6, <2>3, RoundFields
  <2> HIDE DEF n, heard, asks
  <2>5. ASSUME NEW p \in Clients
        PROVE  due[c][p] # 3
    BY <1>3, <1>4, <1>8, <1>11, <2>2 DEF ClearRecord
  <2>6. ClearRecord(c, n)
    BY <2>4, <2>5 DEF ClearRecord
  <2>7. GoesOnWaiting(c, n)
    BY <2>1, <2>4, <2>6 DEF GoesOnWaiting
  <2> QED
    BY <1>7, <2>1, <2>4, <2>7
<1>12. CASE Moves(ReadyRecord(heard))
  <2> DEFINE n == ReadyRecord(heard)
  <2>1. client' = [client EXCEPT ![c] = n] /\ info' = info
    BY <1>12
  <2>2. /\ n \in ClientRecords /\ n.phase = "ready" /\ n.token = r.token
        /\ n.active = r.active /\ n.incoming = r.incoming
    <3> HIDE DEF heard, asks
    <3> QED
      BY <1>6, Readied
  <2> HIDE DEF n, heard, asks
  <2>3. GivesUp(c, n)
    BY <2>1, <2>2 DEF GivesUp
  <2> QED
    BY <1>7, <2>1, <2>2, <2>3
<1>13. CASE ~BarrierPending(asks) /\ heard.stage >= 3 /\ Publish(c, heard, works)
  <2>1. heard.stage = 3 /\ asks.stage = 3
    <3> HIDE DEF heard, asks
    <3> QED
      BY <1>6, <1>13, RecordFields
  <2>2. ASSUME NEW p \in Clients
        PROVE  due[c][p] \in {0, 1}
    <3> HIDE DEF heard, asks
    <3> QED
      BY <1>3, <1>4, <1>8, <1>13, <2>1 DEF ClearRecord
  <2>3. heard.incoming = 0 /\ heard \in ClientRecords
        /\ heard.token = r.token /\ heard.target = r.target /\ heard.active = r.active
    <3> HIDE DEF heard, asks
    <3> QED
      BY <1>2, <1>6
  <2> HIDE DEF heard, asks
  <2>4. PICK n \in ClientRecords :
           /\ client' = [client EXCEPT ![c] = n] /\ n.incoming = 0 /\ n.token = heard.token
           /\ \/ n.phase = "failed" /\ n.active = heard.active /\ info' = info
              \/ /\ n.phase \in {"ready", "distributing"} /\ n.active = heard.target
                 /\ n.phase = "distributing" => n.stage = 0 /\ info[c] # heard.target
                 /\ info' = [info EXCEPT ![c] = heard.target]
                 /\ Current(c)
    BY <1>13, <2>3, PublishOutcome
  <2>5. GivesUp(c, n) \/ Announces(c, n)
    BY <1>2, <2>2, <2>3, <2>4 DEF GivesUp, Announces
  <2> QED
    BY <1>7, <2>4, <2>5
<1> HIDE DEF asks, heard, begins, Moves
<1> QED
  BY <1>5, <1>9, <1>10, <1>11, <1>12, <1>13

LEMMA AwaitClearKeeps ==
    ASSUME IInv, ClientsTypeOK', Dropped, NEW c \in Clients, NEW late \in BOOLEAN,
           NEW elapsed \in BOOLEAN, NEW works \in BOOLEAN, client[c].phase = "awaitClear",
           AwaitClear(c, client[c], late, elapsed, works), files' = Kept,
           processed' \in BOOLEAN,
           UNCHANGED <<serial, changes, nextToken, sequence, asked, pulls, holds,
                       cached, saved, due>>
    PROVE  IInv'
<1>1. PICK n \in ClientRecords :
         /\ client' = [client EXCEPT ![c] = n]
         /\ GoesOnWaiting(c, n) \/ GivesUp(c, n) \/ Announces(c, n)
  BY AwaitClearOutcome
<1>2. /\ RestTypeOK /\ client[c] \in ClientRecords
      /\ queries' \subseteq [peer : Clients, token : 1 .. MaxTokens]
  BY AwaitClearOutcome, TypeParts DEF IInv
<1>3. client[c].incoming = 0 /\ client[c].target \in Validated \cap cached
  BY DEF IInv, UploadInv, UploadsAreNumbered, SoundInv, CacheIsValidated
<1>4. client[c].target \in Crcs /\ client[c].target # NoCrc
  BY <1>3 DEF Validated, Crcs
<1>5. /\ info' \in [Clients -> Crcs \cup {NoCrc}]
      /\ \A x \in Clients : x # c => info'[x] = info[x]
  <2>1. info \in [Clients -> Crcs \cup {NoCrc}]
    BY <1>2 DEF RestTypeOK
  <2>2. info' = info \/ info' = [info EXCEPT ![c] = client[c].target]
    BY <1>1 DEF GoesOnWaiting, GivesUp, Announces
  <2> QED
    BY <1>4, <2>1, <2>2
<1>6. Visits(c, n)
  <2>1. cached \subseteq Images \cup Validated
    BY DEF IInv, SoundInv, CacheIsValidated
  <2> QED
    BY <1>1, <1>2, <1>5, <2>1 DEF Visits, RestTypeOK
<1>7. client'[c] = n
  BY <1>6, VisitTyped
<1>8. \A p \in Clients : RoundHolds(c, p)
  BY DEF IInv, RoundInv
<1>9. CASE GivesUp(c, n)
  BY <1>3, <1>6, <1>9, RestingVisitKeeps DEF GivesUp
<1>10. CASE GoesOnWaiting(c, n)
  <2>1. UploadMoves(c) /\ SoundMoves(c)
    BY <1>3, <1>7, <1>10 DEF UploadMoves, SoundMoves, GoesOnWaiting
  <2>2. RequestMoves(c)
    BY <1>7, <1>10 DEF RequestMoves, GoesOnWaiting, Unpublished
  <2>3. ASSUME NEW p \in Clients
        PROVE  RoundHolds(c, p)'
    BY <1>7, <1>8, <1>10
       DEF RoundHolds, ClearIsAnswered, HandoffIsAnswered, Unanswered, Current,
           GoesOnWaiting, ClearRecord
  <2> QED
    BY <1>6, <2>1, <2>2, <2>3, VisitKeeps
<1>11. CASE Announces(c, n)
  <2>1. UploadMoves(c)
    BY <1>3, <1>7, <1>11 DEF UploadMoves, Announces
  <2>2. info'[c] = client[c].target
    BY <1>2, <1>11 DEF Announces, RestTypeOK
  <2>3. SoundMoves(c)
    BY <1>3, <1>7, <1>11, <2>2 DEF SoundMoves, Announces, Current
  <2>4. n.phase = "distributing" => client[c].target # client[c].active
    BY <1>4, <1>11 DEF Announces, IInv, SoundInv, PublishedIsAnnounced
  <2>5. RequestMoves(c)
    BY <1>7, <1>11, <2>4 DEF RequestMoves, Announces, Unpublished
  <2>6. ASSUME NEW p \in Clients
        PROVE  RoundHolds(c, p)'
    <3>1. RoundMoves(c, p)
      BY <1>7, <1>8, <1>11 DEF RoundMoves, RoundHolds, Announces, Current
    <3> QED
      BY <3>1, RoundStep DEF IInv
  <2> QED
    BY <1>6, <2>1, <2>3, <2>5, <2>6, VisitKeeps
<1> QED
  BY <1>1, <1>9, <1>10, <1>11

(* The three ways a visit leaves a slot that hands its image on.           *)
KeepsSending(c, n) ==
    /\ n.phase = "distributing"
    /\ \A p \in client[c].downloads :
          Current(p) /\ Waiting(p, client[c].active) => p \in n.downloads
    /\ n.stage # 0 => \A p \in Clients :
          /\ due'[c][p] # 3
          /\ due'[c][p] = 2 => n.barrier[p] = serial[p]
          /\ due'[c][p] = 1 => client[c].active \in holds[p] \/ Waiting(p, client[c].active)

Served(c, p) ==
    /\ due[c][p] = 1
    /\ \/ client[c].active \in holds[p]
       \/ \E s \in pulls : /\ s.peer = p /\ s.crc = client[c].active
                           /\ s.token # client[c].token

HandsOn(c, n) ==
    /\ n.phase \in {"warming", "ready"}
    /\ \A p \in Clients : Current(p) /\ due[c][p] # 0 => Served(c, p)

PhaseRecord(r, phase) == [r EXCEPT !.phase = phase]

LEMMA PhaseFields ==
    ASSUME NEW r \in ClientRecords, NEW phase \in Phases
    PROVE  LET n == PhaseRecord(r, phase)
           IN  /\ n \in ClientRecords /\ n.phase = phase /\ n.token = r.token
               /\ n.active = r.active /\ n.incoming = r.incoming
<1>1. PhaseRecord(r, phase) \in ClientRecords
  BY DEF ClientRecords, PhaseRecord
<1> QED
  BY <1>1 DEF ClientRecords, PhaseRecord

(* The round of the announcement waits for who is there.                   *)
LEMMA HandoffAsked ==
    ASSUME IInv, NEW c \in Clients, client[c].phase = "distributing", NEW elapsed \in BOOLEAN
    PROVE  LET r == client[c]
               begins == r.stage = 0 /\ elapsed
               asks == IF begins THEN QueryBarrier([r EXCEPT !.stage = 1]) ELSE r
               heard == IF asks.stage = 0 THEN asks ELSE DropGone(asks)
           IN  /\ asks.token = r.token
               /\ heard \in ClientRecords
               /\ heard.phase = r.phase /\ heard.token = r.token /\ heard.active = r.active
               /\ heard.downloads = r.downloads /\ heard.incoming = r.incoming
               /\ begins => heard.stage # 0
               /\ ~begins => heard.stage = r.stage
               /\ heard.stage # 0 => \A p \in Clients :
                     Current(p) /\ (begins \/ r.barrier[p] = serial[p])
                     => heard.barrier[p] = serial[p]
<1>1. ClientsTypeOK /\ client[c] \in ClientRecords
  BY TypeParts DEF IInv
<1> DEFINE r == client[c]
           begins == r.stage = 0 /\ elapsed
           asks == IF begins THEN QueryBarrier([r EXCEPT !.stage = 1]) ELSE r
           heard == IF asks.stage = 0 THEN asks ELSE DropGone(asks)
<1>2. /\ asks \in ClientRecords /\ asks.phase = r.phase /\ asks.token = r.token
      /\ asks.active = r.active /\ asks.downloads = r.downloads /\ asks.incoming = r.incoming
      /\ begins => asks.stage = 1
      /\ ~begins => asks.stage = r.stage
      /\ \A p \in Clients : Current(p) /\ (begins \/ r.barrier[p] = serial[p])
                            => asks.barrier[p] = serial[p]
  <2>1. CASE begins
    <3> DEFINE n == QueryBarrier([r EXCEPT !.stage = 1])
    <3>0. 1 \in Stages
      BY DEF Stages
    <3>1. /\ n \in ClientRecords /\ n.phase = r.phase /\ n.token = r.token
          /\ n.active = r.active /\ n.stage = 1
          /\ n.downloads = r.downloads /\ n.incoming = r.incoming
          /\ \A p \in Clients : Current(p) => n.barrier[p] = serial[p]
      BY <1>1, <3>0, Queried
    <3>2. asks = n
      BY <2>1
    <3> HIDE DEF n, asks, r
    <3> QED
      BY <2>1, <3>1, <3>2
  <2>2. CASE ~begins
    <3>1. asks = r
      BY <2>2
    <3> HIDE DEF asks, begins
    <3> QED
      BY <1>1, <2>2, <3>1
  <2> QED
    BY <2>1, <2>2
<1> DEFINE Answers ==
        /\ asks.token = r.token
        /\ heard \in ClientRecords
        /\ heard.phase = r.phase /\ heard.token = r.token /\ heard.active = r.active
        /\ heard.downloads = r.downloads /\ heard.incoming = r.incoming
        /\ begins => heard.stage # 0
        /\ ~begins => heard.stage = r.stage
        /\ heard.stage # 0 => \A p \in Clients :
              Current(p) /\ (begins \/ r.barrier[p] = serial[p])
              => heard.barrier[p] = serial[p]
<1>3. CASE asks.stage = 0
  <2>1. heard = asks
    BY <1>3
  <2> HIDE DEF asks, heard, begins
  <2>2. Answers
    BY <1>2, <1>3, <2>1
  <2> QED
    BY <2>2 DEF asks, heard, begins
<1>4. CASE asks.stage # 0
  <2> DEFINE n == DropGone(asks)
  <2>1. heard = n
    BY <1>4
  <2>2. /\ n \in ClientRecords /\ n.phase = asks.phase /\ n.token = asks.token
        /\ n.active = asks.active /\ n.stage = asks.stage
        /\ n.downloads = asks.downloads /\ n.incoming = asks.incoming
        /\ \A p \in Clients : Current(p) /\ asks.barrier[p] = serial[p]
                              => n.barrier[p] = serial[p]
    <3> HIDE DEF asks
    <3> QED
      BY <1>2, GoneDropped
  <2> HIDE DEF n, asks, heard, begins
  <2>3. Answers
    BY <1>2, <1>4, <2>1, <2>2
  <2> QED
    BY <2>3 DEF asks, heard, begins
<1> QED
  BY <1>3, <1>4

LEMMA DistributeOutcome ==
    ASSUME IInv, NEW c \in Clients, NEW late \in BOOLEAN, NEW elapsed \in BOOLEAN,
           NEW placed \in BOOLEAN, client[c].phase = "distributing",
           Distribute(c, client[c], late, elapsed, placed)
    PROVE  /\ \E n \in ClientRecords :
                 /\ client' = [client EXCEPT ![c] = n]
                 /\ n.incoming = 0 /\ n.token = client[c].token /\ n.active = client[c].active
                 /\ n.phase = "failed" \/ KeepsSending(c, n) \/ HandsOn(c, n)
           /\ queries' \subseteq [peer : Clients, token : 1 .. MaxTokens]
           /\ due' \in [Clients -> [Clients -> 0 .. 3]]
           /\ \A x \in Clients : x # c => due'[x] = due[x]
           /\ \A p \in Clients : due'[c][p] # 0 => Current(p)
           /\ info' = info
<1>1. /\ ClientsTypeOK /\ RestTypeOK /\ client \in [Clients -> ClientRecords]
      /\ client[c] \in ClientRecords
  BY TypeParts DEF IInv
<1> DEFINE r == client[c]
           begins == r.stage = 0 /\ elapsed
           asks == IF begins THEN QueryBarrier([r EXCEPT !.stage = 1]) ELSE r
           heard == IF asks.stage = 0 THEN asks ELSE DropGone(asks)
           d == StillSending(heard)
           left == TransferRecord(heard, d)
           pending == left.stage = 0 \/ BarrierPending(left) \/ left.downloads # {}
           finished == ~pending /\ elapsed
           phase == IF placed THEN "warming" ELSE "ready"
           owed == [p \in Clients |-> IF Current(p) THEN 2 ELSE 0]
           next == IF Stalled(left, late) THEN Fail(left)
                   ELSE IF finished THEN PhaseRecord(left, phase) ELSE left
<1>2. /\ queries' = IF begins THEN queries \cup BarrierQueries(asks) ELSE queries
      /\ due' = IF begins THEN [due EXCEPT ![c] = owed] ELSE due
      /\ client' = [client EXCEPT ![c] = next]
      /\ info' = info
  BY DEF Distribute, TransferRecord, PhaseRecord
<1>3. /\ asks.token = r.token
      /\ heard \in ClientRecords
      /\ heard.phase = r.phase /\ heard.token = r.token /\ heard.active = r.active
      /\ heard.downloads = r.downloads /\ heard.incoming = r.incoming
      /\ begins => heard.stage # 0
      /\ ~begins => heard.stage = r.stage
      /\ heard.stage # 0 => \A p \in Clients :
            Current(p) /\ (begins \/ r.barrier[p] = serial[p])
            => heard.barrier[p] = serial[p]
  BY HandoffAsked
<1>4. /\ r.incoming = 0 /\ r.phase = "distributing"
  BY DEF IInv, UploadInv, UploadsAreNumbered
<1>5. \A p \in Clients : RoundHolds(c, p) /\ due[c][p] \in 0 .. 3
  BY Typed DEF IInv, RoundInv
<1>6. phase \in Phases /\ phase \in {"warming", "ready"}
  BY DEF Phases
<1>7. /\ due' \in [Clients -> [Clients -> 0 .. 3]]
      /\ \A x \in Clients : x # c => due'[x] = due[x]
      /\ \A p \in Clients : due'[c][p] # 0 => Current(p)
      /\ begins => \A p \in Clients : due'[c][p] \in {0, 2}
      /\ ~begins => due' = due
  <2>1. owed \in [Clients -> 0 .. 3] /\ \A p \in Clients : owed[p] \in {0, 2} /\ (owed[p] # 0 => Current(p))
    OBVIOUS
  <2>2. due \in [Clients -> [Clients -> 0 .. 3]]
    BY <1>1 DEF RestTypeOK
  <2> HIDE DEF owed, begins
  <2> QED
    BY <1>2, <1>5, <2>1, <2>2 DEF RoundHolds
<1> HIDE DEF asks, heard, begins, owed, phase
<1>8. /\ d \in SUBSET Clients
      /\ \A p \in Clients : p \in d <=> p \in r.downloads /\ Current(p) /\ Waiting(p, r.active)
  <2>1. r.downloads \subseteq Clients
    BY <1>1, RecordFields
  <2> QED
    BY <1>3, <2>1 DEF StillSending
<1> HIDE DEF d
<1>9. /\ left \in ClientRecords /\ left.phase = "distributing" /\ left.token = r.token
      /\ left.active = r.active /\ left.stage = heard.stage /\ left.barrier = heard.barrier
      /\ left.downloads = d /\ left.incoming = 0
  BY <1>3, <1>4, <1>8, TransferFields
<1> HIDE DEF left
<1>10. queries' \subseteq [peer : Clients, token : 1 .. MaxTokens]
  <2>1. CASE ~begins
    BY <1>1, <1>2, <2>1 DEF RestTypeOK
  <2>2. CASE begins
    <3>1. queries' = queries \cup BarrierQueries(asks)
      BY <1>2, <2>2
    <3>2. asks.token \in 1 .. MaxTokens
      <4>1. r.token # 0 /\ r.token \in 0 .. MaxTokens
        BY <1>1, RecordFields DEF IInv, RequestInv, TokensAreFresh
      <4> QED
        BY <1>3, <4>1
    <3>3. BarrierQueries(asks) \subseteq [peer : Clients, token : 1 .. MaxTokens]
      BY <3>2 DEF BarrierQueries
    <3> QED
      BY <1>1, <3>1, <3>3 DEF RestTypeOK
  <2> QED
    BY <2>1, <2>2
<1>11. CASE Stalled(left, late)
  <2> DEFINE n == Fail(left)
  <2>1. /\ n \in ClientRecords /\ n.phase = "failed" /\ n.incoming = 0
        /\ n.token = r.token /\ n.active = r.active
    BY <1>9, Endings
  <2>2. client' = [client EXCEPT ![c] = n]
    BY <1>2, <1>11
  <2> HIDE DEF n
  <2> QED
    BY <1>2, <1>7, <1>10, <2>1, <2>2
<1>12. CASE ~Stalled(left, late) /\ finished
  <2> DEFINE n == PhaseRecord(left, phase)
  <2>1. /\ n \in ClientRecords /\ n.phase = phase /\ n.incoming = 0
        /\ n.token = r.token /\ n.active = r.active
    BY <1>6, <1>9, PhaseFields
  <2>2. client' = [client EXCEPT ![c] = n]
    BY <1>2, <1>12
  <2>3. heard.stage # 0 /\ ~BarrierPending(left) /\ d = {}
    BY <1>9, <1>12
  <2>4. ASSUME NEW p \in Clients, Current(p)
        PROVE  heard.barrier[p] # serial[p]
    BY <1>9, <2>3, <2>4 DEF BarrierPending, Asked, Current
  <2>5. ASSUME NEW p \in Clients, Current(p), due[c][p] # 0
        PROVE  Served(c, p)
    <3>1. ~begins /\ r.stage # 0 /\ r.barrier[p] # serial[p]
      BY <1>3, <2>3, <2>4, <2>5
    <3>2. due[c][p] = 1
      BY <1>4, <1>5, <2>5, <3>1 DEF RoundHolds, HandoffIsAnswered, Unanswered
    <3>3. r.active \in holds[p] \/ Waiting(p, r.active)
      BY <1>4, <1>5, <3>1, <3>2 DEF RoundHolds, HandoffIsAnswered
    <3>4. CASE r.active \in holds[p]
      BY <3>2, <3>4 DEF Served
    <3>5. CASE Waiting(p, r.active)
      <4>1. PICK s \in pulls : s.peer = p /\ s.crc = r.active
        BY <3>5 DEF Waiting
      <4>2. s.token # r.token
        BY <1>4, <1>8, <2>3, <2>5, <3>5, <4>1 DEF IInv, RequestInv, PullsAreTracked
      <4> QED
        BY <3>2, <4>1, <4>2 DEF Served
    <3> QED
      BY <3>3, <3>4, <3>5
  <2> HIDE DEF n
  <2>6. HandsOn(c, n)
    BY <1>6, <2>1, <2>5 DEF HandsOn
  <2> QED
    BY <1>2, <1>7, <1>10, <2>1, <2>2, <2>6
<1>13. CASE ~Stalled(left, late) /\ ~finished
  <2>1. client' = [client EXCEPT ![c] = left]
    BY <1>2, <1>13
  <2>2. ASSUME NEW p \in Clients, left.stage # 0
        PROVE  /\ due'[c][p] # 3
               /\ due'[c][p] = 2 => left.barrier[p] = serial[p]
               /\ due'[c][p] = 1 => r.active \in holds[p] \/ Waiting(p, r.active)
    <3>1. CASE begins
      <4>1. due'[c][p] \in {0, 2} /\ (due'[c][p] # 0 => Current(p))
        BY <1>7, <3>1
      <4>2. Current(p) => left.barrier[p] = serial[p]
        BY <1>3, <1>9, <2>2, <3>1
      <4> QED
        BY <4>1, <4>2
    <3>2. CASE ~begins
      <4>1. r.stage # 0 /\ due' = due /\ (due[c][p] # 0 => Current(p))
        BY <1>3, <1>5, <1>7, <1>9, <2>2, <3>2 DEF RoundHolds
      <4>2. /\ due[c][p] # 3
            /\ due[c][p] = 2 => r.barrier[p] = serial[p]
            /\ due[c][p] = 1 => r.active \in holds[p] \/ Waiting(p, r.active)
        BY <1>4, <1>5, <4>1 DEF RoundHolds, HandoffIsAnswered, Unanswered
      <4> QED
        BY <1>3, <1>9, <2>2, <4>1, <4>2
    <3> QED
      BY <3>1, <3>2
  <2>3. KeepsSending(c, left)
    <3>1. \A p \in r.downloads : Current(p) /\ Waiting(p, r.active) => p \in left.downloads
      <4>1. r.downloads \subseteq Clients
        BY <1>1, RecordFields
      <4> QED
        BY <1>8, <1>9, <4>1
    <3>2. left.phase = "distributing"
      BY <1>9
    <3> HIDE DEF r
    <3>3. left.stage # 0 => \A p \in Clients :
             /\ due'[c][p] # 3
             /\ due'[c][p] = 2 => left.barrier[p] = serial[p]
             /\ due'[c][p] = 1 => r.active \in holds[p] \/ Waiting(p, r.active)
      BY <2>2
    <3> QED
      BY <3>1, <3>2, <3>3 DEF KeepsSending, r
  <2> QED
    BY <1>2, <1>7, <1>9, <1>10, <2>1, <2>3
<1> QED
  BY <1>11, <1>12, <1>13

LEMMA DistributeKeeps ==
    ASSUME IInv, ClientsTypeOK', Dropped, NEW c \in Clients, NEW late \in BOOLEAN,
           NEW elapsed \in BOOLEAN, NEW placed \in BOOLEAN, client[c].phase = "distributing",
           Distribute(c, client[c], late, elapsed, placed), files' = Kept,
           processed' \in BOOLEAN,
           UNCHANGED <<serial, changes, nextToken, sequence, asked, pulls, holds, cached, saved>>
    PROVE  IInv'
<1>1. PICK n \in ClientRecords :
         /\ client' = [client EXCEPT ![c] = n]
         /\ n.incoming = 0 /\ n.token = client[c].token /\ n.active = client[c].active
         /\ n.phase = "failed" \/ KeepsSending(c, n) \/ HandsOn(c, n)
  BY DistributeOutcome
<1>2. /\ queries' \subseteq [peer : Clients, token : 1 .. MaxTokens]
      /\ due' \in [Clients -> [Clients -> 0 .. 3]]
      /\ \A x \in Clients : x # c => due'[x] = due[x]
      /\ \A p \in Clients : due'[c][p] # 0 => Current(p)
      /\ info' = info
  BY DistributeOutcome
<1>3. RestTypeOK /\ cached \subseteq Images \cup Validated
  BY TypeParts DEF IInv, SoundInv, CacheIsValidated
<1>4. Visits(c, n)
  BY <1>1, <1>2, <1>3 DEF Visits, RestTypeOK
<1>5. client'[c] = n
  BY <1>4, VisitTyped
<1>6. client[c].incoming = 0
  BY DEF IInv, UploadInv, UploadsAreNumbered
<1>7. CASE n.phase = "failed" \/ HandsOn(c, n)
  <2>1. n.phase \in {"idle", "failed", "ready", "warming"}
    BY <1>7 DEF HandsOn
  <2> QED
    BY <1>1, <1>2, <1>4, <1>6, <2>1, RestingVisitKeeps
<1>8. CASE KeepsSending(c, n)
  <2>1. UploadMoves(c) /\ SoundMoves(c)
    BY <1>1, <1>2, <1>5, <1>6, <1>8 DEF UploadMoves, SoundMoves, KeepsSending
  <2>2. RequestMoves(c)
    <3>1. \A s \in pulls' : s.crc = client[c].active /\ s.peer \in client[c].downloads
                            => s.peer \in client'[c].downloads
      BY <1>5, <1>8 DEF KeepsSending, Waiting, IInv, RequestInv, PullsAreTracked
    <3> QED
      BY <1>1, <1>5, <1>8, <3>1 DEF RequestMoves, KeepsSending, Unpublished
  <2>3. ASSUME NEW p \in Clients
        PROVE  RoundHolds(c, p)'
    <3>1. (due[c][p] # 0 => Current(p))'
      BY <1>2 DEF Current
    <3>2. ClearIsAnswered(c, p)'
      BY <1>5, <1>8 DEF ClearIsAnswered, KeepsSending
    <3>3. HandoffIsAnswered(c, p)'
      BY <1>1, <1>5, <1>8 DEF HandoffIsAnswered, Unanswered, Waiting, KeepsSending
    <3> QED
      BY <3>1, <3>2, <3>3 DEF RoundHolds
  <2> QED
    BY <1>4, <2>1, <2>2, <2>3, VisitKeeps
<1> QED
  BY <1>1, <1>7, <1>8

(* The visits that only end a phase.                                       *)
LEMMA EndingVisitKeeps ==
    ASSUME IInv, ClientsTypeOK', Dropped, NEW c \in Clients, files' = Kept,
           client[c].phase # "processing",
           NEW n \in ClientRecords, client' = [client EXCEPT ![c] = n],
           n.phase \in {"failed", "ready"}, n.active = client[c].active,
           n.token = client[c].token, n.incoming = 0,
           processed' \in BOOLEAN,
           UNCHANGED <<serial, changes, nextToken, sequence, asked, pulls, holds, cached, saved,
                       info, queries, due>>
    PROVE  IInv'
<1>1. RestTypeOK /\ cached \subseteq Images \cup Validated
  BY TypeParts DEF IInv, SoundInv, CacheIsValidated
<1>2. Visits(c, n)
  BY <1>1 DEF Visits, RestTypeOK
<1>3. client[c].incoming = 0
  BY DEF IInv, UploadInv, UploadsAreNumbered
<1> QED
  BY <1>2, <1>3, RestingVisitKeeps

LEMMA PassingVisitKeeps ==
    ASSUME IInv, ClientsTypeOK', Dropped, files' = Kept, processed' \in BOOLEAN,
           UNCHANGED <<serial, client, changes, nextToken, sequence, asked, pulls, holds, cached,
                       saved, info, queries, due>>
    PROVE  IInv'
<1>1. RestTypeOK /\ client \in [Clients -> ClientRecords]
  BY TypeParts DEF IInv
<1>2. TypeOK'
  <2>1. RestTypeOK'
    BY <1>1 DEF RestTypeOK, Dropped
  <2> QED
    BY <1>1, <2>1, TypeParts
<1>3. \A x \in Clients : Steady(x)
  BY DEF Steady
<1> QED
  BY <1>2, <1>3, SteadyStep DEF Dropped

(* What a visit to slot c does, by the phase it is in.                     *)
CompletesAt(c, works) ==
    /\ client[c].phase = "processing"
    /\ \E image \in Images : Complete(c, client[c], image, works)
    /\ UNCHANGED <<info, queries>>

TimesOutAt(c) ==
    /\ client[c].phase = "uploading"
    /\ client' = [client EXCEPT ![c] = Fail(client[c])]
    /\ files' = Kept
    /\ UNCHANGED <<cached, saved, info, queries, due>>

AwaitsAt(c, late, elapsed, works) ==
    /\ client[c].phase = "awaitClear"
    /\ AwaitClear(c, client[c], late, elapsed, works)
    /\ files' = Kept
    /\ UNCHANGED <<cached, saved, due>>

DistributesAt(c, late, elapsed) ==
    /\ client[c].phase = "distributing"
    /\ \E placed \in BOOLEAN : Distribute(c, client[c], late, elapsed, placed)
    /\ files' = Kept
    /\ UNCHANGED <<cached, saved>>

WarmsAt(c) ==
    /\ client[c].phase = "warming"
    /\ client' = [client EXCEPT ![c] = ReadyRecord(client[c])]
    /\ files' = Kept
    /\ UNCHANGED <<cached, saved, info, queries, due>>

PassesBy == files' = Kept /\ UNCHANGED <<client, cached, saved, info, queries, due>>

LEMMA FrameCases ==
    ASSUME NEW c \in Clients, NEW late \in BOOLEAN, NEW elapsed \in BOOLEAN,
           NEW works \in BOOLEAN, FramePublication(c, late, elapsed, works)
    PROVE  /\ processed' \in BOOLEAN
           /\ packet' = IF turn = 0 THEN NoPacket ELSE packet
           /\ UNCHANGED <<changes, nextToken, sequence, asked, pulls, holds>>
           /\ \/ CompletesAt(c, works) \/ TimesOutAt(c) \/ AwaitsAt(c, late, elapsed, works)
              \/ DistributesAt(c, late, elapsed) \/ WarmsAt(c) \/ PassesBy
<1>1. /\ processed' \in BOOLEAN
      /\ packet' = IF turn = 0 THEN NoPacket ELSE packet
      /\ UNCHANGED <<changes, nextToken, sequence, asked, pulls, holds>>
  BY DEF FramePublication
<1>2. \/ CompletesAt(c, works) \/ TimesOutAt(c) \/ AwaitsAt(c, late, elapsed, works)
      \/ DistributesAt(c, late, elapsed) \/ WarmsAt(c) \/ PassesBy
  BY DEF FramePublication, CompletesAt, TimesOutAt, AwaitsAt, DistributesAt, WarmsAt, PassesBy,
         ReadyRecord
<1> QED
  BY <1>1, <1>2

LEMMA FrameKeeps ==
    ASSUME IInv, NEW c \in Clients, NEW late \in BOOLEAN, NEW elapsed \in BOOLEAN,
           NEW works \in BOOLEAN, Frame(c, late, elapsed, works)
    PROVE  IInv'
<1>1. RestTypeOK /\ ClientsTypeOK /\ client[c] \in ClientRecords
  BY TypeParts DEF IInv
<1>2. /\ FramePublication(c, late, elapsed, works) /\ FrameReaches(c, BusySlots)
      /\ serial' = serial
  BY DEF Frame, FrameReaches
<1>3. ClientsTypeOK'
  BY <1>1, <1>2, FrameReachesTyped
<1>4. /\ processed' \in BOOLEAN
      /\ UNCHANGED <<changes, nextToken, sequence, asked, pulls, holds>>
      /\ Dropped
  BY <1>1, <1>2, FrameCases, FrameDrops
<1>5. CASE CompletesAt(c, works)
  <2>1. PICK image \in Images : Complete(c, client[c], image, works)
    BY <1>5 DEF CompletesAt
  <2> QED
    BY <1>2, <1>3, <1>4, <1>5, <2>1, CompleteKeeps DEF CompletesAt
<1>6. CASE TimesOutAt(c)
  <2> DEFINE n == Fail(client[c])
  <2>1. /\ n \in ClientRecords /\ n.phase = "failed" /\ n.incoming = 0
        /\ n.token = client[c].token /\ n.active = client[c].active
    BY <1>1, Endings
  <2>2. client' = [client EXCEPT ![c] = n] /\ client[c].phase # "processing"
    BY <1>6 DEF TimesOutAt
  <2> HIDE DEF n
  <2> QED
    BY <1>2, <1>3, <1>4, <1>6, <2>1, <2>2, EndingVisitKeeps DEF TimesOutAt
<1>7. CASE AwaitsAt(c, late, elapsed, works)
  BY <1>2, <1>3, <1>4, <1>7, AwaitClearKeeps DEF AwaitsAt
<1>8. CASE DistributesAt(c, late, elapsed)
  <2>1. PICK placed \in BOOLEAN : Distribute(c, client[c], late, elapsed, placed)
    BY <1>8 DEF DistributesAt
  <2> QED
    BY <1>2, <1>3, <1>4, <1>8, <2>1, DistributeKeeps DEF DistributesAt
<1>9. CASE WarmsAt(c)
  <2> DEFINE n == ReadyRecord(client[c])
  <2>1. /\ n \in ClientRecords /\ n.phase = "ready" /\ n.incoming = client[c].incoming
        /\ n.token = client[c].token /\ n.active = client[c].active
    BY <1>1, Readied
  <2>2. client' = [client EXCEPT ![c] = n] /\ client[c].phase # "processing"
    BY <1>9 DEF WarmsAt
  <2>3. client[c].incoming = 0
    BY <2>2 DEF IInv, UploadInv, UploadsAreNumbered
  <2> HIDE DEF n
  <2> QED
    BY <1>2, <1>3, <1>4, <1>9, <2>1, <2>2, <2>3, EndingVisitKeeps DEF WarmsAt
<1>10. CASE PassesBy
  BY <1>2, <1>3, <1>4, <1>10, PassingVisitKeeps DEF PassesBy
<1> QED
  BY <1>2, <1>5, <1>6, <1>7, <1>8, <1>9, <1>10, FrameCases

------------------------------------------------------------------------------
(* The invariant.                                                          *)

LEMMA InitHolds == Init => IInv
<1> SUFFICES ASSUME Init
             PROVE  IInv
  OBVIOUS
<1>1. \A c \in Clients : client[c] = Fresh
  BY DEF Init, InitPublication
<1>2. TypeOK
  <2>1. ClientsTypeOK
    BY DEF Init, InitClients, ClientsTypeOK
  <2>2. Unknown \in [Paths -> Crcs \cup {NoCrc}] /\ Nobody \in [Clients -> 0 .. 3]
    BY DEF Unknown, Nobody
  <2>3. Announced \subseteq Crcs
    BY DEF Crcs
  <2>4. RestTypeOK
    <3>1. /\ changes \in 0 .. MaxEvents
          /\ nextToken \in 0 .. MaxTokens
          /\ files \subseteq [id : 1 .. MaxFiles, token : 1 .. MaxTokens]
          /\ sequence \in 0 .. MaxFiles
          /\ cached \subseteq Crcs
          /\ asked \subseteq [client : Clients, token : 1 .. MaxTokens, path : Paths]
          /\ queries \subseteq [peer : Clients, token : 1 .. MaxTokens]
          /\ pulls \subseteq [peer : Clients, crc : Crcs, token : 0 .. MaxTokens]
          /\ processed \in BOOLEAN
      <4>1. /\ changes = 0 /\ nextToken = 0 /\ files = {} /\ sequence = 0 /\ cached = Announced
            /\ asked = {} /\ queries = {} /\ pulls = {} /\ processed = FALSE
        BY DEF Init, InitPublication
      <4>2. 0 \in 0 .. MaxEvents /\ 0 \in 0 .. MaxTokens /\ 0 \in 0 .. MaxFiles
        OBVIOUS
      <4> QED
        BY <2>3, <4>1, <4>2
    <3>2. packet \in [client : 0 .. MaxClients, serial : 0 .. MaxSerials, loose : 0 .. MaxFiles]
      BY DEF Init, InitPublication, NoPacket
    <3>3. saved \in [Clients -> [Paths -> Crcs \cup {NoCrc}]]
      BY <2>2 DEF Init, InitPublication
    <3>4. info \in [Clients -> Crcs \cup {NoCrc}] /\ holds \in [Clients -> SUBSET Crcs]
      BY DEF Init, InitPublication
    <3>5. due \in [Clients -> [Clients -> 0 .. 3]]
      BY <2>2 DEF Init, InitPublication
    <3> QED
      BY <3>1, <3>2, <3>3, <3>4, <3>5 DEF RestTypeOK
  <2>5. client \in [Clients -> ClientRecords]
    BY FreshRecord DEF Init, InitPublication
  <2>6. PublicationTypeOK
    BY <2>4, <2>5 DEF RestTypeOK, PublicationTypeOK, ClientRecords
  <2> QED
    BY <2>1, <2>6 DEF TypeOK
<1>3. /\ files = {} /\ pulls = {} /\ nextToken = 0 /\ sequence = 0 /\ cached = Announced
      /\ \A c, p \in Clients : due[c][p] = 0
  BY DEF Init, InitPublication, Nobody
<1>4. UploadInv
  BY <1>1, <1>3, FreshRecord
     DEF UploadInv, NoStrayUploads, UploadsAnswerTheirRequest, UploadsAreNumbered
<1>5. SoundInv
  BY <1>1, <1>3, FreshRecord
     DEF SoundInv, PublishedIsValidated, PublishedIsAnnounced, CacheIsValidated, ActiveIsCurrent
<1>6. RequestInv
  BY <1>1, <1>3, FreshRecord DEF RequestInv, TokensAreFresh, PullsAreTracked, Unpublished
<1>7. RoundInv
  BY <1>1, <1>3, FreshRecord DEF RoundInv, RoundHolds, ClearIsAnswered, HandoffIsAnswered
<1> QED
  BY <1>2, <1>4, <1>5, <1>6, <1>7 DEF IInv

LEMMA NextKeeps == IInv /\ [Next]_vars => IInv'
<1> SUFFICES ASSUME IInv, [Next]_vars
             PROVE  IInv'
  OBVIOUS
<1>1. CASE ConnectionEvents
  <2>1. CASE ServerActivate /\ UNCHANGED publication
    <3>1. ClientsTypeOK' /\ serial' = serial
      BY <2>1, TypeParts DEF IInv, ServerActivate, Input, ClientsTypeOK
    <3> QED
      BY <2>1, <3>1, IdleKeeps
  <2> QED
    BY <1>1, <2>1, PutInServerKeeps, DisconnectingKeeps, LevelShutdownKeeps, PluginUnloadedKeeps
       DEF ConnectionEvents
<1>2. CASE Natives
  BY <1>2, RequestKeeps, CancelKeeps, WatchKeeps, BarrierAckKeeps DEF Natives
<1>3. CASE Packets
  BY <1>3, PacketBeginKeeps, PacketEndKeeps, FileReceivedKeeps, FileDeniedKeeps,
     FileRequestedKeeps, FileSentKeeps, InfoKeeps DEF Packets
<1>4. CASE Frames
  BY <1>4, IdleFrameKeeps, FrameKeeps DEF Frames
<1>5. CASE UNCHANGED vars
  <2>1. ClientsTypeOK'
    BY <1>5, TypeParts DEF IInv, vars, connections, ClientsTypeOK
  <2> QED
    BY <1>5, <2>1, IdleKeeps DEF vars, connections
<1> QED
  BY <1>1, <1>2, <1>3, <1>4, <1>5 DEF Next

(* The inductive invariant holds in every reachable state.                 *)
THEOREM InvariantHolds == Spec => []IInv
BY InitHolds, NextKeeps, PTL DEF Spec

(* Every variable keeps its type.                                          *)
THEOREM SpraysTyped == Spec => []TypeOK
<1>1. IInv => TypeOK
  BY DEF IInv
<1> QED
  BY <1>1, InvariantHolds, PTL

(* Every isolated upload on disk belongs to the open packet or waits for   *)
(* the frame, and then it answers the very request that is open.           *)
THEOREM EveryUploadIsOurs == Spec => []UploadsAreOurs
<1>1. IInv => UploadsAreOurs
  BY DEF IInv, UploadInv, UploadsAreOurs
<1> QED
  BY <1>1, InvariantHolds, PTL

(* The CRC a slot has published names a validated, canonical image that is *)
(* in the cache, and userinfo carries it whatever the clients announce.    *)
THEOREM EveryPublicationIsSound == Spec => []PublishedIsSound
<1>1. IInv => PublishedIsSound
  BY DEF IInv, SoundInv, PublishedIsSound
<1> QED
  BY <1>1, InvariantHolds, PTL

------------------------------------------------------------------------------
(* What a step replaces and what it ends.                                  *)

(* A step that announces nothing new at x and ends no distribution there.  *)
Undisturbed(x) ==
    /\ client'[x].active \in {client[x].active, NoCrc}
    /\ \/ client[x].phase # "distributing"
       \/ client'[x].phase \notin {"warming", "ready"}

InOrder(x) ==
    /\ client'[x].active \notin {client[x].active, NoCrc}
       => \A p \in Clients : due[x][p] \in {0, 1}
    /\ client[x].phase = "distributing" /\ client'[x].phase \in {"warming", "ready"}
       => \A p \in Clients : Current(p) /\ due[x][p] # 0 => Served(x, p)

LEMMA UndisturbedIsInOrder == ASSUME NEW x, Undisturbed(x) PROVE InOrder(x)
BY DEF Undisturbed, InOrder

LEMMA SameIsUndisturbed == ASSUME NEW x, client'[x] = client[x] PROVE Undisturbed(x)
BY DEF Undisturbed

(* A step that gives slot c the record n.                                  *)
LEMMA OneRecord ==
    ASSUME client \in [Clients -> ClientRecords], NEW c \in Clients, NEW n,
           client' = [client EXCEPT ![c] = n],
           n.active \in {client[c].active, NoCrc},
           client[c].phase # "distributing" \/ n.phase \notin {"warming", "ready"}
    PROVE  \A x \in Clients : Undisturbed(x)
<1>1. client'[c] = n /\ \A x \in Clients : x # c => client'[x] = client[x]
  OBVIOUS
<1> QED
  BY <1>1 DEF Undisturbed

LEMMA RequestUndisturbed ==
    ASSUME IInv, NEW p \in Plugins, NEW c \in Clients, NEW force \in BOOLEAN,
           Request(p, c, force)
    PROVE  \A x \in Clients : Undisturbed(x)
<1>1. RestTypeOK /\ client \in [Clients -> ClientRecords]
  BY TypeParts DEF IInv
<1> DEFINE r == LoadSelectionCache(c, client[c])
<1>2. r \in ClientRecords /\ r.phase = client[c].phase /\ r.active = client[c].active
  BY <1>1, Loaded
<1>3. (\E path \in Paths \cup {NoPath} : RequestKnown(c, r, path) \/ RequestUpload(c, r, path))
      /\ r.phase \notin Busy
  <2>1. client[c].wanted \in Paths \cup {NoPath} /\ r.wanted = client[c].wanted
    BY <1>1, Loaded, RecordFields
  <2> QED
    BY <2>1 DEF Request
<1> HIDE DEF r
<1>4. PICK path \in Paths \cup {NoPath} : RequestKnown(c, r, path) \/ RequestUpload(c, r, path)
  BY <1>3
<1>5. PICK n : client' = [client EXCEPT ![c] = n] /\ n.active = r.active
  <2>1. ASSUME NEW t
        PROVE  /\ Fail([r EXCEPT !.token = t]).active = r.active
               /\ Fail([r EXCEPT !.selected = path, !.token = t]).active = r.active
    BY <1>2 DEF ClientRecords, Fail
  <2>4. ASSUME NEW t
        PROVE  [r EXCEPT !.selected = path, !.requested = r.requested \cup {path},
                         !.token = t, !.phase = "uploading"].active = r.active
    BY <1>2 DEF ClientRecords
  <2>5. ASSUME NEW k, NEW t
        PROVE  PreparePublication([[r EXCEPT !.selected = path, !.token = t]
                                     EXCEPT !.known[path] = k], k).active = r.active
    <3> DEFINE chosen == [r EXCEPT !.selected = path, !.token = t]
               learnt == [chosen EXCEPT !.known[path] = k]
    <3>1. DOMAIN chosen = DOMAIN r /\ chosen.active = r.active
      BY <1>2 DEF ClientRecords
    <3>2. DOMAIN r = {"phase", "token", "selected", "wanted", "known", "requested", "target",
                      "active", "stage", "barrier", "downloads", "incoming"}
      BY <1>2 DEF ClientRecords
    <3>3. DOMAIN learnt = DOMAIN r /\ learnt.active = r.active
      <4> HIDE DEF chosen
      <4> QED
        BY <3>1, <3>2
    <3>4. PreparePublication(learnt, k).active = r.active
      <4> HIDE DEF learnt
      <4> QED
        BY <3>2, <3>3 DEF PreparePublication
    <3> QED
      BY <3>4
  <2>2. CASE RequestKnown(c, r, path)
    <3> DEFINE chosen == [r EXCEPT !.selected = path, !.token = nextToken']
               k == Canon(r.known[path])
               n == PreparePublication([chosen EXCEPT !.known[path] = k], k)
               m == Fail(chosen)
    <3>1. client' = [client EXCEPT ![c] = n] \/ client' = [client EXCEPT ![c] = m]
      BY <2>2 DEF RequestKnown
    <3>2. n.active = r.active
      <4> HIDE DEF k
      <4> QED
        BY <2>5
    <3>3. m.active = r.active
      BY <2>1
    <3> HIDE DEF n, m
    <3> QED
      BY <3>1, <3>2, <3>3
  <2>3. CASE RequestUpload(c, r, path)
    BY <2>1, <2>3, <2>4 DEF RequestUpload
  <2> QED
    BY <1>4, <2>2, <2>3
<1>6. client[c].phase # "distributing"
  BY <1>2, <1>3 DEF Busy
<1> QED
  BY <1>1, <1>2, <1>5, <1>6, OneRecord

LEMMA NativesUndisturbed ==
    ASSUME IInv, Natives
    PROVE  \A x \in Clients : Undisturbed(x)
<1>1. RestTypeOK /\ client \in [Clients -> ClientRecords]
  BY TypeParts DEF IInv
<1>2. ASSUME NEW p \in Plugins, NEW c \in Clients, Cancel(p, c)
      PROVE  \A x \in Clients : Undisturbed(x)
  <2>1. client' = [client EXCEPT ![c] = Idled(client[c])]
    BY <1>2 DEF Cancel
  <2>2. Idled(client[c]).phase = "idle" /\ Idled(client[c]).active = client[c].active
    BY <1>1, Endings
  <2> QED
    BY <1>1, <2>1, <2>2, OneRecord
<1>3. ASSUME NEW p \in Plugins, NEW c \in Clients, NEW path \in Paths, NEW first \in BOOLEAN,
             Watch(p, c, path, first)
      PROVE  \A x \in Clients : Undisturbed(x)
  <2> DEFINE r == LoadSelectionCache(c, client[c])
  <2>1. r \in ClientRecords /\ r.phase = client[c].phase /\ r.active = client[c].active
    BY <1>1, Loaded
  <2>2. PICK k : client' = [client EXCEPT ![c] = [r EXCEPT !.wanted = path, !.known[path] = k]]
    BY <1>3 DEF Watch
  <2> HIDE DEF r
  <2> DEFINE n == [r EXCEPT !.wanted = path, !.known[path] = k]
  <2>3. n.phase = r.phase /\ n.active = r.active
    BY <2>1 DEF ClientRecords
  <2>4. client' = [client EXCEPT ![c] = n]
    BY <2>2
  <2> HIDE DEF n
  <2>5. client'[c] = n /\ \A x \in Clients : x # c => client'[x] = client[x]
    BY <1>1, <2>4
  <2> QED
    BY <2>1, <2>3, <2>5 DEF Undisturbed
<1>4. ASSUME NEW q \in queries, BarrierAck(q)
      PROVE  \A x \in Clients : Undisturbed(x)
  <2>1. ASSUME NEW x \in Clients
        PROVE  client'[x] \in {client[x], AckedRecord(client[x], q.peer)}
    BY <1>1, <1>4 DEF BarrierAck, AckedRecord
  <2>2. q.peer \in Clients
    BY <1>1 DEF RestTypeOK
  <2>3. ASSUME NEW x \in Clients
        PROVE  client'[x].phase = client[x].phase /\ client'[x].active = client[x].active
    <3> DEFINE n == AckedRecord(client[x], q.peer)
    <3>1. n.phase = client[x].phase /\ n.active = client[x].active
      BY <1>1, <2>2, Acked
    <3> HIDE DEF n
    <3> QED
      BY <2>1, <3>1 DEF n
  <2> QED
    BY <2>3 DEF Undisturbed
<1> QED
  BY <1>2, <1>3, <1>4, RequestUndisturbed DEF Natives

LEMMA PacketsUndisturbed ==
    ASSUME IInv, Packets
    PROVE  \A x \in Clients : Undisturbed(x)
<1>1. RestTypeOK /\ client \in [Clients -> ClientRecords]
  BY TypeParts DEF IInv
<1>2. ASSUME client' = client
      PROVE  \A x \in Clients : Undisturbed(x)
  BY <1>2, SameIsUndisturbed
<1>3. ASSUME NEW c \in Clients, client' = [client EXCEPT ![c] = Fail(client[c])]
      PROVE  \A x \in Clients : Undisturbed(x)
  <2>1. Fail(client[c]).phase = "failed" /\ Fail(client[c]).active = client[c].active
    BY <1>1, Endings
  <2> QED
    BY <1>1, <1>3, <2>1, OneRecord
<1>4. ASSUME NEW c \in Clients, NEW a \in asked, NEW opened \in BOOLEAN, NEW whole \in BOOLEAN,
             FileReceived(c, a, opened, whole)
      PROVE  \A x \in Clients : Undisturbed(x)
  <2> DEFINE n == [client[c] EXCEPT !.incoming = sequence', !.phase = "processing"]
  <2>1. \/ client' = [client EXCEPT ![c] = n]
        \/ client' = [client EXCEPT ![c] = Fail(client[c])]
        \/ client' = client
    <3>1. [client EXCEPT ![c].incoming = sequence', ![c].phase = "processing"]
             = [client EXCEPT ![c] = n]
      BY <1>1 DEF ClientRecords
    <3> HIDE DEF n
    <3> QED
      BY <1>4, <3>1 DEF FileReceived
  <2>2. n.phase = "processing" /\ n.active = client[c].active
    BY <1>1 DEF ClientRecords
  <2> HIDE DEF n
  <2>3. CASE client' = [client EXCEPT ![c] = n]
    BY <1>1, <2>2, <2>3, OneRecord
  <2> QED
    BY <1>2, <1>3, <2>1, <2>3
<1>5. ASSUME NEW c \in Clients, NEW a \in asked, FileDenied(c, a)
      PROVE  \A x \in Clients : Undisturbed(x)
  <2>1. client' = [client EXCEPT ![c] = Fail(client[c])] \/ client' = client
    BY <1>5 DEF FileDenied
  <2> QED
    BY <1>2, <1>3, <2>1
<1>6. ASSUME \A x \in Clients : \E d \in SUBSET Clients :
                client'[x] = client[x] \/ client'[x] = TransferRecord(client[x], d)
      PROVE  \A x \in Clients : Undisturbed(x)
  <2>1. ASSUME NEW x \in Clients
        PROVE  Undisturbed(x)
    <3>1. PICK d \in SUBSET Clients :
             client'[x] = client[x] \/ client'[x] = TransferRecord(client[x], d)
      BY <1>6
    <3> DEFINE n == TransferRecord(client[x], d)
    <3>2. client[x] \in ClientRecords
      BY <1>1
    <3>3. n.phase = client[x].phase /\ n.active = client[x].active
      BY <3>2, TransferFields
    <3>4. client'[x] = client[x] \/ client'[x] = n
      BY <3>1
    <3> HIDE DEF n
    <3> QED
      BY <3>3, <3>4 DEF Undisturbed
  <2> QED
    BY <2>1
<1>7. ASSUME NEW c \in Sprayers, NEW p \in Clients, FileRequested(c, p)
      PROVE  \A x \in Clients : Undisturbed(x)
  <2>1. ASSUME NEW x \in Clients
        PROVE  \E d \in SUBSET Clients :
                  client'[x] = client[x] \/ client'[x] = TransferRecord(client[x], d)
    <3>1. client[x].downloads \cup {p} \in SUBSET Clients
      BY <1>1, RecordFields
    <3>2. \/ client'[x] = client[x]
          \/ client'[x] = TransferRecord(client[x], client[x].downloads \cup {p})
      BY <1>7 DEF FileRequested, TransferRecord
    <3> QED
      BY <3>1, <3>2
  <2> QED
    BY <1>6, <2>1
<1>8. ASSUME NEW s \in pulls, NEW told \in BOOLEAN, FileSent(s, told)
      PROVE  \A x \in Clients : Undisturbed(x)
  <2>1. ASSUME NEW x \in Clients
        PROVE  \E d \in SUBSET Clients :
                  client'[x] = client[x] \/ client'[x] = TransferRecord(client[x], d)
    <3>1. client[x].downloads \ {s.peer} \in SUBSET Clients
      BY <1>1, RecordFields
    <3>2. \/ client'[x] = client[x]
          \/ client'[x] = TransferRecord(client[x], client[x].downloads \ {s.peer})
      BY <1>8 DEF FileSent, TransferRecord
    <3> QED
      BY <3>1, <3>2
  <2> QED
    BY <1>6, <2>1
<1>9. ASSUME NEW c \in Clients, PacketBegin(c) \/ PacketEnd
             \/ \E image \in Announced : Info(c, image)
      PROVE  \A x \in Clients : Undisturbed(x)
  BY <1>2, <1>9 DEF PacketBegin, PacketEnd, Info
<1> QED
  <2>1. 1 \in Clients
    OBVIOUS
  <2> QED
    BY <1>4, <1>5, <1>7, <1>8, <1>9, <2>1 DEF Packets

LEMMA ConnectionsUndisturbed ==
    ASSUME IInv, ConnectionEvents
    PROVE  \A x \in Clients : Undisturbed(x)
<1>1. client \in [Clients -> ClientRecords]
  BY TypeParts DEF IInv
<1>2. ASSUME client' = client
      PROVE  \A x \in Clients : Undisturbed(x)
  BY <1>2, SameIsUndisturbed
<1>3. ASSUME NEW c \in Clients, DisconnectingPublication(c)
      PROVE  \A x \in Clients : Undisturbed(x)
  <2>1. ASSUME NEW x \in Clients
        PROVE  Undisturbed(x)
    <3>1. client'[x] \in {Fresh, TransferRecord(client[x], client[x].downloads \ {c})}
      BY <1>3 DEF DisconnectingPublication, ClearClients, ClearedClients, TransferRecord
    <3>2. client[x].downloads \ {c} \in SUBSET Clients
      BY <1>1, RecordFields
    <3> DEFINE n == TransferRecord(client[x], client[x].downloads \ {c})
    <3>3. n.phase = client[x].phase /\ n.active = client[x].active
      BY <1>1, <3>2, TransferFields
    <3>4. client'[x] \in {Fresh, n}
      BY <3>1
    <3> HIDE DEF n
    <3> QED
      BY <3>3, <3>4, FreshRecord DEF Undisturbed
  <2> QED
    BY <2>1
<1>4. ASSUME StopMapPublication
      PROVE  \A x \in Clients : Undisturbed(x)
  BY <1>4, FreshRecord DEF StopMapPublication, Undisturbed
<1>5. ASSUME PluginUnloadedPublication
      PROVE  \A x \in Clients : Undisturbed(x)
  <2>1. ASSUME NEW x \in Clients
        PROVE  Undisturbed(x)
    <3> DEFINE n == [Idled(client[x]) EXCEPT !.active = NoCrc]
    <3>1. client'[x] = n
      BY <1>5 DEF PluginUnloadedPublication
    <3>2. n.phase = "idle" /\ n.active = NoCrc
      BY <1>1, Endings DEF ClientRecords
    <3> HIDE DEF n
    <3> QED
      BY <3>1, <3>2 DEF Undisturbed
  <2> QED
    BY <2>1
<1>6. ASSUME NEW c \in Clients, PutInServerPublication(c)
      PROVE  \A x \in Clients : Undisturbed(x)
  BY <1>2, <1>6 DEF PutInServerPublication
<1>7. ASSUME UNCHANGED publication
      PROVE  \A x \in Clients : Undisturbed(x)
  BY <1>2, <1>7 DEF publication
<1> QED
  BY <1>3, <1>4, <1>5, <1>6, <1>7 DEF ConnectionEvents

LEMMA FrameInOrder ==
    ASSUME IInv, NEW c \in Clients, NEW late \in BOOLEAN, NEW elapsed \in BOOLEAN,
           NEW works \in BOOLEAN, Frame(c, late, elapsed, works)
    PROVE  \A x \in Clients : InOrder(x)
<1>1. RestTypeOK /\ client \in [Clients -> ClientRecords] /\ client[c] \in ClientRecords
  BY TypeParts DEF IInv
<1>2. FramePublication(c, late, elapsed, works)
  BY DEF Frame
<1>3. ASSUME NEW n, client' = [client EXCEPT ![c] = n], n.active = client[c].active,
             client[c].phase # "distributing" \/ n.phase \notin {"warming", "ready"}
      PROVE  \A x \in Clients : InOrder(x)
  BY <1>1, <1>3, OneRecord, UndisturbedIsInOrder
<1>4. ASSUME NEW r \in ClientRecords
      PROVE  /\ Fail(r).active = r.active /\ Fail(r).phase = "failed"
             /\ ReadyRecord(r).active = r.active
             /\ \A k \in Crcs : PreparePublication(r, k).active = r.active
  BY Endings, Readied, Prepared
<1>5. CASE CompletesAt(c, works)
  <2>1. PICK image \in Images : Complete(c, client[c], image, works)
    BY <1>5 DEF CompletesAt
  <2> DEFINE k == Canonical[image]
             learnt == LearntRecord(client[c], k)
  <2>2. \/ client' = [client EXCEPT ![c] = ReadyRecord(learnt)]
        \/ client' = [client EXCEPT ![c] = PreparePublication(learnt, k)]
        \/ client' = [client EXCEPT ![c] = Fail(client[c])]
    BY <2>1 DEF Complete, LearntRecord, ReadyRecord
  <2>3. k \in Crcs
    BY DEF Crcs
  <2>4. learnt \in ClientRecords /\ learnt.active = client[c].active
    BY <1>1, <2>3, Learnt
  <2>5. client[c].phase # "distributing"
    BY <1>5 DEF CompletesAt
  <2> HIDE DEF learnt, k
  <2> QED
    BY <1>1, <1>3, <1>4, <2>2, <2>3, <2>4, <2>5
<1>6. CASE TimesOutAt(c)
  BY <1>1, <1>3, <1>4, <1>6 DEF TimesOutAt
<1>7. CASE AwaitsAt(c, late, elapsed, works)
  <2>1. PICK n \in ClientRecords :
           /\ client' = [client EXCEPT ![c] = n]
           /\ GoesOnWaiting(c, n) \/ GivesUp(c, n) \/ Announces(c, n)
    BY <1>7, AwaitClearOutcome DEF AwaitsAt
  <2>2. client[c].phase # "distributing"
    BY <1>7 DEF AwaitsAt
  <2>3. CASE GoesOnWaiting(c, n) \/ GivesUp(c, n)
    BY <1>3, <2>1, <2>2, <2>3 DEF GoesOnWaiting, GivesUp
  <2>4. CASE Announces(c, n)
    <3>1. client'[c] = n /\ \A x \in Clients : x # c => client'[x] = client[x]
      BY <1>1, <2>1
    <3>2. InOrder(c)
      BY <2>2, <2>4 DEF InOrder, Announces
    <3>3. ASSUME NEW x \in Clients, x # c
          PROVE  InOrder(x)
      BY <3>1, <3>3, SameIsUndisturbed, UndisturbedIsInOrder
    <3> QED
      BY <3>2, <3>3
  <2> QED
    BY <2>1, <2>3, <2>4
<1>8. CASE DistributesAt(c, late, elapsed)
  <2>1. PICK placed \in BOOLEAN : Distribute(c, client[c], late, elapsed, placed)
    BY <1>8 DEF DistributesAt
  <2>2. PICK n \in ClientRecords :
           /\ client' = [client EXCEPT ![c] = n]
           /\ n.incoming = 0 /\ n.token = client[c].token /\ n.active = client[c].active
           /\ n.phase = "failed" \/ KeepsSending(c, n) \/ HandsOn(c, n)
    BY <1>8, <2>1, DistributeOutcome DEF DistributesAt
  <2>3. CASE n.phase = "failed" \/ KeepsSending(c, n)
    BY <1>3, <2>2, <2>3 DEF KeepsSending
  <2>4. CASE HandsOn(c, n)
    <3>1. client'[c] = n /\ \A x \in Clients : x # c => client'[x] = client[x]
      BY <1>1, <2>2
    <3>2. InOrder(c)
      BY <2>2, <2>4, <3>1 DEF InOrder, HandsOn
    <3>3. ASSUME NEW x \in Clients, x # c
          PROVE  InOrder(x)
      BY <3>1, <3>3, SameIsUndisturbed, UndisturbedIsInOrder
    <3> QED
      BY <3>2, <3>3
  <2> QED
    BY <2>2, <2>3, <2>4
<1>9. CASE WarmsAt(c)
  BY <1>1, <1>3, <1>4, <1>9 DEF WarmsAt
<1>10. CASE PassesBy
  BY <1>10, SameIsUndisturbed, UndisturbedIsInOrder DEF PassesBy
<1> QED
  BY <1>2, <1>5, <1>6, <1>7, <1>8, <1>9, <1>10, FrameCases

LEMMA StepsAreInOrder ==
    ASSUME IInv, Next
    PROVE  \A x \in Clients : InOrder(x)
<1>1. ASSUME ConnectionEvents \/ Natives \/ Packets
      PROVE  \A x \in Clients : InOrder(x)
  BY <1>1, ConnectionsUndisturbed, NativesUndisturbed, PacketsUndisturbed, UndisturbedIsInOrder
<1>2. CASE Frames
  <2>1. CASE IdleFrame(BusySlots) /\ IdleFramePublication
    BY <2>1, SameIsUndisturbed, UndisturbedIsInOrder DEF IdleFramePublication
  <2> QED
    BY <1>2, <2>1, FrameInOrder DEF Frames
<1> QED
  BY <1>1, <1>2 DEF Next

(* A CRC replaces another only when every peer that was sent the clear and *)
(* is still there has answered twice since, and the handoff ends only when *)
(* every peer that was asked has answered and has the image or waits for   *)
(* it since an earlier request.                                            *)
THEOREM HandoffsKeepOrder == Spec => HandoffsAreOrderly
<1>1. IInv /\ [Next]_vars =>
         [\A c \in Clients :
            client'[c].active \notin {client[c].active, NoCrc}
            => \A p \in Clients : due[c][p] \in {0, 1}]_publication
  BY StepsAreInOrder DEF InOrder, vars
<1>2. IInv /\ [Next]_vars =>
         [\A c \in Clients :
            /\ client[c].phase = "distributing"
            /\ client'[c].phase \in {"warming", "ready"}
            => \A p \in Clients :
                  Current(p) /\ due[c][p] # 0
                  => /\ due[c][p] = 1
                     /\ \/ client[c].active \in holds[p]
                        \/ \E s \in pulls : /\ s.peer = p /\ s.crc = client[c].active
                                            /\ s.token # client[c].token]_publication
  BY StepsAreInOrder DEF InOrder, Served, vars
<1> QED
  BY <1>1, <1>2, InvariantHolds, PTL
     DEF Spec, HandoffsAreOrderly, PublishedAfterClear, HandoffIsComplete

==============================================================================
