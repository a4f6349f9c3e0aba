--------------------------- MODULE SprayPublication ---------------------------
(***************************************************************************)
(* How a player's newly selected spray becomes the one everybody loads:    *)
(* the upload asked from the client, its isolation from the game's files,  *)
(* its validation, the two acknowledged rounds that clear the old decal,   *)
(* the publication of the new identifier in userinfo and its distribution  *)
(* to the peers (extension.cpp).                                           *)
(*                                                                         *)
(* An image is known by its raw CRC; the copy the server keeps has some    *)
(* padding rewritten and so a CRC of its own, Canonical[i].  Deadlines and *)
(* waits are clock readings in the code: here a frame may find any of them *)
(* passed.  The engine's number of a file request is the request's token.  *)
(***************************************************************************)
EXTENDS SprayClients

CONSTANTS
    Paths,        \* logo files a client may select
    NoPath,
    Images,       \* raw CRCs
    ValidImages,  \* those that ValidTexture accepts
    Canonical,    \* CRC of the canonical copy of an image
    Announced,    \* bound: images clients announce at sign-on
    NoCrc,
    Sprayers,     \* bound: the slots whose selection changes
    PathLimit,    \* distinct selections of one connection
    MaxTokens,    \* bound on requests
    MaxEvents,    \* bound on connections and changes of selection together
    MaxFiles      \* bound on isolated uploads

Crcs == Images \cup {Canonical[i] : i \in Images}
ValidCrcs == ValidImages \cup {Canonical[i] : i \in ValidImages}
Canon(k) == IF k \in Images THEN Canonical[k] ELSE k

ASSUME PublicationAssumption ==
    /\ ValidImages \subseteq Images
    /\ \A i \in Images : Canonical[i] \notin Images
    /\ NoCrc \notin Crcs
    /\ Sprayers \subseteq Clients
    /\ Announced \subseteq Images
    /\ NoPath \notin Paths
    /\ PathLimit \in Nat
    /\ MaxTokens \in Nat
    /\ MaxEvents \in Nat
    /\ MaxFiles \in Nat

VARIABLES
    client,     \* client[c]: what the extension keeps of slot c's connection
    changes,    \* changes of selection so far
    nextToken,  \* requests numbered so far
    files,      \* isolated uploads on disk
    sequence,   \* isolated uploads named so far
    packet,     \* the packet being processed, with its file route
    cached,     \* CRCs in the game's search path
    saved,      \* saved[c]: selections remembered for the player of slot c
    info,       \* info[c]: CRC announced for slot c in userinfo
    asked,      \* file requests the clients have not answered
    queries,    \* barrier queries the clients have not answered
    pulls,      \* files the engine is sending: [peer, crc, token of the request]
    holds,      \* holds[c]: published CRCs the client in slot c has fetched
    due,        \* due[c][p]: one more than the answers p owes since c's last
                \* clear or announcement, 0 when p was not sent it
    processed   \* this frame has completed an upload

publication == <<client, changes, nextToken, files, sequence, packet, cached, saved, info,
                 asked, queries, pulls, holds, due, processed>>

Phases == {"idle", "uploading", "ready", "processing", "distributing", "warming",
           "awaitClear", "failed"}
Busy == {"uploading", "processing", "distributing", "warming", "awaitClear"}

Unknown == [p \in Paths |-> NoCrc]
Nobody == [p \in Clients |-> 0]
NoPacket == [client |-> 0, serial |-> 0, loose |-> 0]
Fresh == [phase |-> "idle", token |-> 0, selected |-> NoPath, wanted |-> NoPath,
          known |-> Unknown, requested |-> {}, target |-> NoCrc, active |-> NoCrc,
          stage |-> 0, barrier |-> Nobody, downloads |-> {}, incoming |-> 0]

PublicationTypeOK ==
    /\ client \in [Clients ->
         [phase : Phases, token : 0 .. MaxTokens, selected : Paths \cup {NoPath},
          wanted : Paths \cup {NoPath}, known : [Paths -> Crcs \cup {NoCrc}],
          requested : SUBSET Paths, target : Crcs \cup {NoCrc},
          active : Crcs \cup {NoCrc}, stage : 0 .. 3,
          barrier : [Clients -> 0 .. MaxSerials], downloads : SUBSET Clients,
          incoming : 0 .. MaxFiles]]
    /\ changes \in 0 .. MaxEvents
    /\ nextToken \in 0 .. MaxTokens
    /\ files \subseteq [id : 1 .. MaxFiles, token : 1 .. MaxTokens]
    /\ sequence \in 0 .. MaxFiles
    /\ packet \in [client : 0 .. MaxClients, serial : 0 .. MaxSerials, loose : 0 .. MaxFiles]
    /\ cached \subseteq Crcs
    /\ saved \in [Clients -> [Paths -> Crcs \cup {NoCrc}]]
    /\ info \in [Clients -> Crcs \cup {NoCrc}]
    /\ asked \subseteq [client : Clients, token : 1 .. MaxTokens, path : Paths]
    /\ queries \subseteq [peer : Clients, token : 1 .. MaxTokens]
    /\ pulls \subseteq [peer : Clients, crc : Crcs, token : 0 .. MaxTokens]
    /\ holds \in [Clients -> SUBSET Crcs]
    /\ due \in [Clients -> [Clients -> 0 .. 3]]
    /\ processed \in BOOLEAN

InitPublication ==
    /\ client = [c \in Clients |-> Fresh]
    /\ changes = 0
    /\ nextToken = 0
    /\ files = {}
    /\ sequence = 0
    /\ packet = NoPacket
    /\ cached = Announced   \* uploads of earlier sign-ons, stored unchecked
    /\ saved = [c \in Clients |-> Unknown]
    /\ info = [c \in Clients |-> NoCrc]
    /\ asked = {}
    /\ queries = {}
    /\ pulls = {}
    /\ holds = [c \in Clients |-> {}]
    /\ due = [c \in Clients |-> Nobody]
    /\ processed = FALSE

-----------------------------------------------------------------------------
(* The record of one connection. *)

Without(ids) == {f \in files : f.id \notin ids}

\* RemoveIncoming: the upload a connection was about to process.
RemoveIncoming_Never(r) == files
RemoveIncoming(r) == Without({r.incoming})

\* ValidTexture and CanonicalTexture, for an image or a canonical copy.
Valid_WhenKnown(k) == k \in Crcs
Valid(k) == k \in ValidCrcs

\* Fail and Cancel remove the file the connection was about to process.
Fail(r) == [r EXCEPT !.incoming = 0, !.phase = "failed", !.downloads = {}]
Idled(r) == [r EXCEPT !.incoming = 0, !.phase = "idle", !.downloads = {}]

\* The file of the packet's route, which goes unless FileReceived claimed it.
Unclaimed == {packet.loose}

\* LoadSelectionCache: remembered selections fill the gaps, never override.
LoadSelectionCache(c, r) ==
    [r EXCEPT !.known = [p \in Paths |-> IF @[p] # NoCrc THEN @[p] ELSE saved[c][p]]]

\* ClearClient(c): the slot's record, its part in other downloads, its file.
ClearedClients(gone) ==
    [c \in Clients |-> IF c \in gone THEN Fresh
                       ELSE [client[c] EXCEPT !.downloads = @ \ gone]]

ClearClients(gone) ==
    /\ client' = ClearedClients(gone)
    /\ files' = Without({client[c].incoming : c \in gone})
    /\ asked' = {a \in asked : a.client \notin gone}
    /\ queries' = {q \in queries : q.peer \notin gone}
    /\ pulls' = {s \in pulls : s.peer \notin gone}
    /\ due' = [c \in Clients |-> [p \in Clients |->
                  IF c \in gone \/ p \in gone THEN 0 ELSE due[c][p]]]

\* QueryBarrier: every current peer is asked once more, through the plugin.
QueryBarrier(r) ==
    [r EXCEPT !.barrier = [p \in Clients |-> IF Current(p) THEN serial[p] ELSE 0]]

BarrierQueries(r) == {[peer |-> p, token |-> r.token] : p \in {x \in Clients : Current(x)}}

\* BarrierPending: a peer that left is not waited for.
Asked(r) == {p \in Clients : r.barrier[p] # 0 /\ Current(p) /\ r.barrier[p] = serial[p]}
BarrierPending(r) == Asked(r) # {}
DropGone(r) == [r EXCEPT !.barrier = [p \in Clients |-> IF p \in Asked(r) THEN @[p] ELSE 0]]

\* PreparePublication sends the clear of the old decal and opens the barrier.
PreparePublication(r, crc) ==
    [r EXCEPT !.target = crc, !.downloads = {}, !.barrier = Nobody, !.stage = 0,
              !.phase = "awaitClear"]

OwedAfterClear ==
    [p \in Clients |-> IF Current(p) THEN 3 ELSE 0]

\* WaitingForFile: the engine has not sent the file yet.
Waiting(p, k) == \E s \in pulls : s.peer = p /\ s.crc = k

\* The player selected something else while this one was under way.
Overtaken(r) == r.wanted # NoPath /\ r.wanted # r.selected

-----------------------------------------------------------------------------
(* Natives of the controlling plugin. *)

\* A selection known from before whose image is still in the search path is
\* validated again and published without asking the client.
RequestKnown(c, r, path) ==
    LET crc == r.known[path]
        chosen == [r EXCEPT !.selected = path, !.token = nextToken']
    IN  /\ crc \in cached
        /\ nextToken < MaxTokens
        /\ nextToken' = nextToken + 1
        /\ \/ /\ Valid(crc)
              /\ client' = [client EXCEPT ![c] =
                    PreparePublication([chosen EXCEPT !.known[path] = Canon(crc)], Canon(crc))]
              /\ cached' = cached \cup {Canon(crc)}
              /\ due' = [due EXCEPT ![c] = OwedAfterClear]
           \/ \* unreadable, invalid, or the cache could not be written
              /\ client' = [client EXCEPT ![c] = Fail(chosen)]
              /\ UNCHANGED <<cached, due>>
        /\ files' = RemoveIncoming(r)
        /\ UNCHANGED asked

\* Otherwise the client is asked for the file, up to a number of selections.
RequestUpload(c, r, path) ==
    /\ nextToken < MaxTokens
    /\ nextToken' = nextToken + 1
    /\ IF Cardinality(r.requested) >= PathLimit /\ path \notin r.requested
       THEN /\ client' = [client EXCEPT ![c] = Fail([r EXCEPT !.token = nextToken'])]
            /\ files' = RemoveIncoming(r)
            /\ UNCHANGED asked
       ELSE /\ client' = [client EXCEPT ![c] =
                  [r EXCEPT !.selected = path, !.requested = @ \cup {path},
                            !.token = nextToken', !.phase = "uploading"]]
            /\ asked' = asked \cup {[client |-> c, token |-> nextToken', path |-> path]}
            /\ UNCHANGED files
    /\ UNCHANGED <<cached, due>>

\* The plugin requests the selection it has watched last.
Request(p, c, force) ==
    /\ Input
    /\ Claim(p)
    /\ running
    /\ c \in Sprayers
    /\ Current(c)
    /\ client[c].wanted # NoPath
    /\ LET r == LoadSelectionCache(c, client[c])
           path == r.wanted
       IN  /\ r.phase \notin Busy
           /\ \/ ~force /\ RequestKnown(c, r, path)
              \/ (force \/ r.known[path] \notin cached) /\ RequestUpload(c, r, path)
    /\ UNCHANGED <<serial, serials, running, changes, sequence, packet, saved, info, queries, pulls, holds, processed>>

\* Cancel of the current request; another token is ignored.
Cancel(p, c) ==
    /\ Input
    /\ owner \in {NoPlugin, p}
    /\ client[c].token # 0
    /\ client' = [client EXCEPT ![c] = Idled(@)]
    /\ files' = RemoveIncoming(client[c])
    /\ UNCHANGED <<serial, serials, running, owner, changes, nextToken, sequence, packet,
                   cached, saved, info, asked, queries, pulls, holds, due, processed>>

\* Watch notes what the player selects.  On the first look, before any upload,
\* the CRC the client announced at sign-on names its initial selection.
Watch(p, c, path, first) ==
    /\ Input
    /\ Claim(p)
    /\ c \in Sprayers
    /\ Current(c)
    /\ \/ client[c].wanted = path /\ changes' = changes
       \/ /\ client[c].wanted # path
          /\ serials + changes < MaxEvents
          /\ changes' = changes + 1
    /\ LET r == LoadSelectionCache(c, client[c])
           announced == info[c]
           associates == /\ first /\ r.requested = {} /\ running
                         /\ announced # NoCrc
                         /\ r.known[path] # Canon(announced)
       IN  client' = [client EXCEPT ![c] =
                [r EXCEPT !.wanted = path,
                          !.known[path] = IF associates THEN announced ELSE @]]
    /\ UNCHANGED <<serial, serials, running, nextToken, files, sequence, packet, cached, saved,
                   info, asked, queries, pulls, holds, due, processed>>

\* The plugin hands a client's answer on: the request the query was sent for, if
\* it still waits, waits for that peer no longer.  (A refused query counts as one
\* that is not answered.)
BarrierAck(q) ==
    LET waiting == {c \in Clients : /\ client[c].token = q.token
                                    /\ client[c].phase \in {"awaitClear", "distributing"}
                                    /\ client[c].barrier[q.peer] = serial[q.peer]}
    IN  /\ Input
        /\ owner # NoPlugin
        /\ q \in queries
        /\ Current(q.peer)
        \* a client has taken up what userinfo announced when it answers
        /\ \A c \in waiting : client[c].phase = "distributing" =>
              client[c].active \in holds[q.peer] \/ Waiting(q.peer, client[c].active)
        /\ queries' = queries \ {q}
        /\ client' = [c \in Clients |-> IF c \in waiting
                         THEN [client[c] EXCEPT !.barrier[q.peer] = 0] ELSE client[c]]
        /\ due' = [c \in Clients |-> IF c \in waiting /\ due[c][q.peer] > 1
                      THEN [due[c] EXCEPT ![q.peer] = @ - 1] ELSE due[c]]
        /\ UNCHANGED <<serial, serials, running, owner, changes, nextToken, files, sequence, packet,
                       cached, saved, info, asked, pulls, holds, processed>>

-----------------------------------------------------------------------------
(* Packets.  Route is set only while a packet of its connection is open. *)

\* Context: the open packet still belongs to the connection it came from.
Context(c) == packet.client = c /\ Current(c) /\ packet.serial = serial[c]

PacketBegin(c) ==
    /\ Input
    /\ Current(c)
    /\ packet' = [NoPacket EXCEPT !.client = c, !.serial = serial[c]]
    /\ files' = Without(Unclaimed)
    /\ UNCHANGED <<serial, serials, running, owner, client, changes, nextToken, sequence,
                   cached, saved, info, asked, queries, pulls, holds, due, processed>>

\* A packet whose connection was dropped while it was processed never ends.
PacketEnd ==
    /\ Input
    /\ packet # NoPacket
    /\ Context(packet.client)
    /\ packet' = NoPacket
    /\ files' = Without(Unclaimed)
    /\ UNCHANGED <<serial, serials, running, owner, client, changes, nextToken, sequence,
                   cached, saved, info, asked, queries, pulls, holds, due, processed>>

\* FileReceived: UploadExists gives the route a file of its own, which the engine
\* opens and fills unless it grows too large; only the file of the request under
\* way is taken.
Expected_ByName(r, a) == r.phase = "uploading" /\ r.selected = a.path
Expected(r, a) == r.phase = "uploading" /\ r.token = a.token /\ r.selected = a.path

FileReceived(c, a, opened, whole) ==
    /\ Input
    /\ Context(c)
    /\ a \in asked /\ a.client = c
    /\ a.path \in client[c].requested
    /\ sequence < MaxFiles
    /\ sequence' = sequence + 1
    /\ asked' = asked \ {a}
    /\ files' = Without(Unclaimed) \cup
           (IF opened THEN {[id |-> sequence', token |-> a.token]} ELSE {})
    /\ IF Expected(client[c], a) /\ whole
       THEN /\ client' = [client EXCEPT ![c].incoming = sequence', ![c].phase = "processing"]
            /\ packet' = [packet EXCEPT !.loose = 0]
       ELSE /\ client' = IF Expected(client[c], a) THEN [client EXCEPT ![c] = Fail(@)] ELSE client
            /\ packet' = [packet EXCEPT !.loose = sequence']
    /\ UNCHANGED <<serial, serials, running, owner, changes, nextToken, cached, saved, info,
                   queries, pulls, holds, due, processed>>

\* FileDenied: the client refuses, or has no such file.
FileDenied(c, a) ==
    /\ Input
    /\ Context(c)
    /\ a \in asked /\ a.client = c
    /\ asked' = asked \ {a}
    /\ client' = IF Expected(client[c], a) THEN [client EXCEPT ![c] = Fail(@)] ELSE client
    /\ UNCHANGED <<serial, serials, running, owner, changes, nextToken, files, sequence, packet,
                   cached, saved, info, queries, pulls, holds, due, processed>>

\* FileRequested: a peer lacks an image it saw announced and asks for it.
FileRequested(c, p) ==
    LET k == client[c].active
    IN  /\ Input
        /\ Context(p)
        /\ k # NoCrc /\ info[c] = k
        /\ k \notin holds[p] /\ ~Waiting(p, k)
        /\ pulls' = pulls \cup {[peer |-> p, crc |-> k, token |-> client[c].token]}
        /\ client' = [x \in Clients |->
              IF client[x].active = k /\ client[x].phase = "distributing"
              THEN [client[x] EXCEPT !.downloads = @ \cup {p}] ELSE client[x]]
        /\ UNCHANGED <<serial, serials, running, owner, changes, nextToken, files, sequence, packet,
                       cached, saved, info, asked, queries, holds, due, processed>>

\* The engine has sent a file; FileSent is not called for every one of them.
FileSent(s, told) ==
    /\ Input
    /\ s \in pulls
    /\ pulls' = pulls \ {s}
    /\ holds' = [holds EXCEPT ![s.peer] = @ \cup {s.crc}]
    /\ client' = [c \in Clients |->
          IF told /\ client[c].active = s.crc /\ client[c].phase = "distributing"
          THEN [client[c] EXCEPT !.downloads = @ \ {s.peer}] ELSE client[c]]
    /\ UNCHANGED <<serial, serials, running, owner, changes, nextToken, files, sequence, packet,
                   cached, saved, info, asked, queries, due, processed>>

\* Info: what userinfo carries for slot c after a client announced an image.
Repaired_Never(c, image) == image
Repaired(c, image) == IF client[c].active # NoCrc THEN client[c].active ELSE image

\* Info: what a client announces again is replaced by the published CRC.
Info(c, image) ==
    /\ Input
    /\ running
    /\ Current(c)
    /\ c \in Sprayers
    /\ info' = [info EXCEPT ![c] = Repaired(c, image)]
    /\ UNCHANGED <<serial, serials, running, owner, client, changes, nextToken, files, sequence,
                   packet, cached, saved, asked, queries, pulls, holds, due, processed>>

-----------------------------------------------------------------------------
(* The frame, at slot c.  "late": the phase's deadline passed; "elapsed": the  *)
(* wait the phase waits for is over; "works": the disk and userinfo obey.      *)

\* A frame begins by dropping what a packet without an end left behind.
Kept == IF turn = 0 THEN Without(Unclaimed) ELSE files

\* Complete: the upload, whatever is in it, is validated, cached and remembered.
Complete(c, r, image, works) ==
    LET taken == {f \in files : f.id = r.incoming}
        learnt == [r EXCEPT !.known[r.selected] = Canonical[image], !.incoming = 0]
    IN  /\ files' = Kept \ taken
        /\ IF works /\ Current(c) /\ taken # {} /\ Valid(image)
           THEN /\ cached' = cached \cup {Canonical[image]}
                /\ saved' = [saved EXCEPT ![c] = learnt.known]
                /\ IF Overtaken(learnt)
                   THEN /\ client' = [client EXCEPT ![c] = [learnt EXCEPT !.phase = "ready"]]
                        /\ UNCHANGED due
                   ELSE /\ client' = [client EXCEPT ![c] =
                                         PreparePublication(learnt, Canonical[image])]
                        /\ due' = [due EXCEPT ![c] = OwedAfterClear]
           ELSE /\ client' = [client EXCEPT ![c] = Fail(r)]
                /\ UNCHANGED <<cached, saved, due>>

\* Publish: the new identifier is announced and its distribution begins.
\* Without player info it fails; ApplyInfo, which fails for the same reason only, has
\* no failure of its own here: the info was read a moment before in the same call.
Publish(c, r, works) ==
    LET told == [r EXCEPT !.active = r.target, !.downloads = {}]
    IN  IF ~(works /\ running /\ Current(c))
        THEN /\ client' = [client EXCEPT ![c] = Fail(r)]
             /\ UNCHANGED info
        ELSE /\ info' = [info EXCEPT ![c] = r.target]
             /\ client' = [client EXCEPT ![c] =
                   IF info[c] = r.target THEN [told EXCEPT !.phase = "ready"]
                   ELSE [told EXCEPT !.phase = "distributing", !.stage = 0]]

\* A round of queries opens when its wait is over; the third stage is the second
\* and last round.
RoundBegins_Again(r, elapsed) == elapsed
RoundBegins(r, elapsed) == r.stage \in {0, 2} /\ elapsed
LastStage_First == 1
LastStage == 3

\* AwaitClear: two rounds of queries, a frame apart, before the publication.
AwaitClear(c, r, late, elapsed, works) ==
    LET begins == RoundBegins(r, elapsed)
        asks == IF begins THEN QueryBarrier([r EXCEPT !.stage = @ + 1]) ELSE r
        heard == IF asks.stage \in {1, 3} THEN DropGone(asks) ELSE asks
        Moves(next) == client' = [client EXCEPT ![c] = next] /\ UNCHANGED info
    IN  IF late THEN Moves(Fail(r)) /\ UNCHANGED queries
        ELSE /\ queries' = IF begins THEN queries \cup BarrierQueries(asks) ELSE queries
             /\ IF asks.stage \in {0, 2} \/ BarrierPending(asks) THEN Moves(heard)
                ELSE IF heard.stage < LastStage THEN Moves([heard EXCEPT !.stage = 2])
                ELSE IF Overtaken(heard) THEN Moves([heard EXCEPT !.phase = "ready"])
                ELSE Publish(c, heard, works)

\* The peers that have asked for the image and do not have it yet.
StillSending_Untracked(r) == {}
StillSending(r) == {p \in r.downloads : Current(p) /\ Waiting(p, r.active)}

Stalled(r, late) == late /\ (r.stage = 0 \/ BarrierPending(r) \/ r.downloads # {})

\* Distributing: until every peer that was asked has answered and every peer
\* that wanted the image has it.  A decal the player has placed is warmed up.
Distribute(c, r, late, elapsed, placed) ==
    LET begins == r.stage = 0 /\ elapsed
        asks == IF begins THEN QueryBarrier([r EXCEPT !.stage = 1]) ELSE r
        heard == IF asks.stage = 0 THEN asks ELSE DropGone(asks)
        left == [heard EXCEPT !.downloads = StillSending(heard)]
        pending == left.stage = 0 \/ BarrierPending(left) \/ left.downloads # {}
        finished == ~pending /\ elapsed
        next == IF Stalled(left, late) THEN Fail(left)
                ELSE IF finished
                THEN [left EXCEPT !.phase = IF placed THEN "warming" ELSE "ready"]
                ELSE left
    IN  /\ queries' = IF begins THEN queries \cup BarrierQueries(asks) ELSE queries
        /\ due' = IF begins THEN [due EXCEPT ![c] = [p \in Clients |-> IF Current(p) THEN 2 ELSE 0]]
                  ELSE due
        /\ client' = [client EXCEPT ![c] = next]
        /\ UNCHANGED info

\* The slots a frame has something to do for.
BusySlots == {c \in Clients : client[c].phase \in Busy}

\* One slot of a frame; only one upload is completed in a frame.
FramePublication(c, late, elapsed, works) ==
    LET r == client[c]
    IN  /\ processed' = (turn' # 0 /\ (processed \/ r.phase = "processing"))
        /\ packet' = IF turn = 0 THEN NoPacket ELSE packet
        /\ CASE r.phase = "processing" /\ ~processed ->
                   \E image \in Images : Complete(c, r, image, works) /\ UNCHANGED <<info, queries>>
              [] r.phase = "uploading" /\ late ->
                   /\ client' = [client EXCEPT ![c] = Fail(r)]
                   /\ files' = Kept
                   /\ UNCHANGED <<cached, saved, info, queries, due>>
              [] r.phase = "awaitClear" ->
                   /\ AwaitClear(c, r, late, elapsed, works)
                   /\ files' = Kept
                   /\ UNCHANGED <<cached, saved, due>>
              [] r.phase = "distributing" ->
                   /\ \E placed \in BOOLEAN : Distribute(c, r, late, elapsed, placed)
                   /\ files' = Kept
                   /\ UNCHANGED <<cached, saved>>
              [] r.phase = "warming" /\ elapsed ->
                   /\ client' = [client EXCEPT ![c].phase = "ready"]
                   /\ files' = Kept
                   /\ UNCHANGED <<cached, saved, info, queries, due>>
              [] OTHER -> files' = Kept /\ UNCHANGED <<client, cached, saved, info, queries, due>>
        /\ UNCHANGED <<changes, nextToken, sequence, asked, pulls, holds>>

-----------------------------------------------------------------------------
(* What happens to the connections. *)

PutInServerPublication(c) ==
    /\ serials + changes < MaxEvents
    /\ \E image \in {NoCrc} \cup (IF c \in Sprayers THEN Announced ELSE {}) :
          info' = [info EXCEPT ![c] = image]
    /\ UNCHANGED <<client, changes, nextToken, files, sequence, packet, cached, saved, asked, queries,
                   pulls, holds, due, processed>>

DisconnectingPublication(c) ==
    /\ ClearClients({c})
    /\ info' = [info EXCEPT ![c] = NoCrc]
    /\ holds' = [holds EXCEPT ![c] = {}]
    /\ UNCHANGED <<changes, nextToken, sequence, packet, cached, saved, processed>>

\* StopMap also ends the packet that is open.
StopMapPublication ==
    /\ client' = [c \in Clients |-> Fresh]
    /\ files' = Without({client[c].incoming : c \in Clients} \cup Unclaimed)
    /\ packet' = NoPacket
    /\ info' = [c \in Clients |-> NoCrc]
    /\ asked' = {} /\ queries' = {} /\ pulls' = {}
    /\ holds' = [c \in Clients |-> {}]
    /\ due' = [c \in Clients |-> Nobody]
    /\ UNCHANGED <<changes, nextToken, sequence, cached, saved, processed>>

PluginUnloadedPublication ==
    /\ client' = [c \in Clients |-> [Idled(client[c]) EXCEPT !.active = NoCrc]]
    /\ files' = Without({client[c].incoming : c \in Clients})
    /\ queries' = {}   \* the answers were for the plugin that is gone
    /\ UNCHANGED <<changes, nextToken, sequence, packet, cached, saved, info, asked, pulls, holds, due,
                   processed>>

IdleFramePublication ==
    /\ packet' = NoPacket
    /\ files' = Kept
    /\ UNCHANGED <<client, changes, nextToken, sequence, cached, saved, info, asked, queries,
                   pulls, holds, due, processed>>

-----------------------------------------------------------------------------
(* Properties. *)

\* Every isolated upload on disk belongs to the open packet or waits for the
\* frame to process it: refused, late, oversized and abandoned files are gone.
NoStrayUploads ==
    \A f \in files : \/ f.id = packet.loose
                     \/ \E c \in Clients : f.id = client[c].incoming

\* What is about to be published was sent in answer to this very request, not
\* to one that timed out or was cancelled.
UploadsAnswerTheirRequest ==
    \A c \in Clients, f \in files :
        f.id = client[c].incoming => f.token = client[c].token

\* The CRC that is announced names a validated, canonical image in the cache.
PublishedIsValidated ==
    \A c \in Clients : client[c].active # NoCrc =>
        client[c].active \in {Canonical[i] : i \in ValidImages} \cap cached

\* Whatever a client announces, userinfo carries the published CRC.
PublishedIsAnnounced ==
    \A c \in Clients : client[c].active # NoCrc => info[c] = client[c].active

\* When an identifier replaces another, every peer that was sent the clear and
\* is still connected has answered twice since.
PublishedAfterClear ==
    [][\A c \in Clients :
          client'[c].active \notin {client[c].active, NoCrc}
          => \A p \in Clients : due[c][p] \in {0, 1}]_publication

\* The handoff ends only when every peer that was asked, and is still there,
\* has answered and has the published image on its disk, or waits for it since
\* an earlier request.
HandoffIsComplete ==
    [][\A c \in Clients :
          /\ client[c].phase = "distributing"
          /\ client'[c].phase \in {"warming", "ready"}
          => \A p \in Clients :
                Current(p) /\ due[c][p] # 0
                => /\ due[c][p] = 1
                   /\ \/ client[c].active \in holds[p]
                      \/ \E s \in pulls : /\ s.peer = p /\ s.crc = client[c].active
                                          /\ s.token # client[c].token]_publication

\* An upload on disk is one that was asked for, and answers the request that is open.
UploadsAreOurs == NoStrayUploads /\ UploadsAnswerTheirRequest

\* What is published has been validated and is what the clients were told.
PublishedIsSound == PublishedIsValidated /\ PublishedIsAnnounced

\* What replaces a spray comes after every client has let go of it, and reaches all.
HandoffsAreOrderly == PublishedAfterClear /\ HandoffIsComplete

\* A request is over in the end.
RequestsEnd ==
    \A c \in Sprayers : client[c].phase \in Busy ~> client[c].phase \notin Busy

=============================================================================
