----------------------------- MODULE SprayAssets -----------------------------
(***************************************************************************)
(* Files the extension sends to a client of its own accord: the ledger of  *)
(* requested assets (asset_delivery.h), the answers its plugin is given at *)
(* the end of a game frame, and the file-transmission mode it borrows from *)
(* the game while it sends (extension.cpp).                                *)
(*                                                                         *)
(* A file is named by a tuple of its kind and what tells it apart; the     *)
(* engine's queue of a channel is the set of files it has not sent yet.    *)
(* Deadlines and waits are clock readings in the code: here a frame may    *)
(* find any of them passed.                                                *)
(***************************************************************************)
EXTENDS SprayClients, Integers, Sequences

CONSTANTS
    Assets,         \* generated textures and materials the plugin may request
    Capacity,       \* jobs of one connection
    Paced,          \* bound: the slots whose transmission mode and bandwidth vary
    MaxAssetTokens  \* bound on requests

AssetsAssumption ==
    /\ Capacity \in Nat
    /\ Paced \subseteq Clients
    /\ MaxAssetTokens \in Nat

VARIABLES
    jobs,        \* jobs[c][a]: token and state of the delivery of a to c
    events,      \* events[c]: finished jobs the plugin has not been told of
    assetToken,  \* tokens handed out so far
    queue,       \* queue[c]: files the engine has yet to send to c
    fastFiles,   \* fastFiles[c]: files the mode of c's channel is borrowed for
    control,     \* control[c]: the extension decides the mode of c's channel
    fastMode,    \* fastMode[c]: the mode it decided on, fast or background
    background,  \* background[c]: the game wants background transmission
    mode,        \* mode[c]: the channel transmits in the background
    wish,        \* wish[c]: the mode the game last asked of c's channel
    asker,       \* asker[t]: connection token t was requested for, 0 for none
    answers      \* answers[t]: connections the answer to t was reported for

delivery == <<jobs, events, assetToken, queue, fastFiles, control, fastMode, background,
              mode, wish, asker, answers>>

NoJob == [token |-> 0, state |-> 0]
NoJobs == [a \in Assets |-> NoJob]
AssetTokens == 1 .. MaxAssetTokens
FileOf(a) == <<"asset", a, {}>>

DeliveryTypeOK ==
    /\ jobs \in [Clients -> [Assets -> [token : 0 .. MaxAssetTokens, state : {-1, 0, 1, 2}]]]
    /\ \A c \in Clients : events[c] \in SUBSET [token : AssetTokens, success : BOOLEAN]
    /\ assetToken \in 0 .. MaxAssetTokens
    /\ control \in [Clients -> BOOLEAN]
    /\ fastMode \in [Clients -> BOOLEAN]
    /\ background \in [Clients -> BOOLEAN]
    /\ mode \in [Clients -> BOOLEAN]
    /\ wish \in [Clients -> BOOLEAN]
    /\ asker \in [AssetTokens -> 0 .. MaxSerials]
    /\ \A t \in AssetTokens : answers[t] \in Seq(1 .. MaxSerials)
    /\ \A c \in Clients : fastFiles[c] # {} => control[c]

InitDelivery ==
    /\ jobs = [c \in Clients |-> NoJobs]
    /\ events = [c \in Clients |-> {}]
    /\ assetToken = 0
    /\ queue = [c \in Clients |-> {}]
    /\ fastFiles = [c \in Clients |-> {}]
    /\ control = [c \in Clients |-> FALSE]
    /\ fastMode = [c \in Clients |-> FALSE]
    /\ background = [c \in Clients |-> TRUE]
    /\ mode = [c \in Clients |-> TRUE]
    /\ wish = [c \in Clients |-> TRUE]
    /\ asker = [t \in AssetTokens |-> 0]
    /\ answers = [t \in AssetTokens |-> <<>>]

-----------------------------------------------------------------------------
(* The ledger of one connection: its jobs and the events they end in. *)

\* Finish: a job ends once; whatever is heard of it later changes nothing.
Unfinished_Ever(job) == job.token # 0
Unfinished(job) == job.state = 1

Finish(js, ends, success) ==
    [a \in Assets |-> IF a \in ends /\ Unfinished(js[a])
                      THEN [js[a] EXCEPT !.state = IF success THEN 2 ELSE -1] ELSE js[a]]
FinishEvents(js, ends, success) ==
    {[token |-> js[a].token, success |-> success] : a \in {x \in ends : Unfinished(js[x])}}

Pending(js) == {a \in Assets : js[a].state = 1}

\* Existing: a delivery under way or done is not repeated, a failed one may be.
Existing(js, a) == js[a].state >= 1

\* Begin also refuses what does not fit in the ledger.
Fits(js, a) == Cardinality({x \in Assets : js[x].token # 0}) < Capacity \/ js[a].token # 0

\* WaitingForFile: the engine has not sent the file yet.
Waiting(c, file) == file \in queue[c]

\* ArmFastFile and QueueFile: the mode is borrowed even when SendFile refuses.
Armed_ModeKept(c, sent) ==
    /\ fastFiles' = [fastFiles EXCEPT ![c] = @ \cup sent]
    /\ UNCHANGED control
Armed(c, sent) ==
    /\ fastFiles' = [fastFiles EXCEPT ![c] = @ \cup sent]
    /\ control' = [control EXCEPT ![c] = @ \/ sent # {}]

-----------------------------------------------------------------------------
(* Natives and what the engine reports. *)

\* RequestAsset: a refused request still uses its token up.
RequestAsset(p, c, a, sends) ==
    /\ Input
    /\ Claim(p)
    /\ Current(c)
    /\ ~Existing(jobs[c], a)
    /\ assetToken < MaxAssetTokens
    /\ assetToken' = assetToken + 1
    /\ LET begun == [jobs[c] EXCEPT ![a] = [token |-> assetToken', state |-> 1]]
       IN  IF ~Fits(jobs[c], a)
           THEN UNCHANGED <<jobs, events, queue, fastFiles, control, asker>>
           ELSE /\ asker' = [asker EXCEPT ![assetToken'] = serial[c]]
                /\ Armed(c, {FileOf(a)})
                /\ IF sends
                   THEN /\ jobs' = [jobs EXCEPT ![c] = begun]
                        /\ queue' = [queue EXCEPT ![c] = @ \cup {FileOf(a)}]
                        /\ UNCHANGED events
                   ELSE /\ jobs' = [jobs EXCEPT ![c] = Finish(begun, {a}, FALSE)]
                        /\ events' = [events EXCEPT ![c] = @ \cup FinishEvents(begun, {a}, FALSE)]
                        /\ UNCHANGED queue
    /\ UNCHANGED <<serial, serials, running, fastMode, background, mode, wish, answers>>

\* FileDenied for one of the transfers the ledger started.
AssetDenied(c, a) ==
    /\ Input
    /\ Current(c)
    /\ FileOf(a) \in queue[c]
    /\ jobs[c][a].token # 0
    /\ queue' = [queue EXCEPT ![c] = @ \ {FileOf(a)}]
    /\ jobs' = [jobs EXCEPT ![c] = Finish(@, {a}, FALSE)]
    /\ events' = [events EXCEPT ![c] = @ \cup FinishEvents(jobs[c], {a}, FALSE)]
    /\ UNCHANGED <<serial, serials, running, owner, assetToken, fastFiles, control, fastMode,
                   background, mode, wish, asker, answers>>

\* The engine has sent a file.
Sent(c, file) ==
    /\ Input
    /\ Current(c)
    /\ queue' = [queue EXCEPT ![c] = @ \ {file}]
    /\ UNCHANGED <<serial, serials, running, owner, jobs, events, assetToken, fastFiles,
                   control, fastMode, background, mode, wish, asker, answers>>

\* FileMode: the game sets the mode; while it is borrowed its wish is only noted.
FileMode(c, wanted) ==
    /\ Input
    /\ Current(c)
    /\ c \in Paced
    /\ background' = [background EXCEPT ![c] = wanted]
    /\ wish' = [wish EXCEPT ![c] = wanted]
    /\ mode' = [mode EXCEPT ![c] = IF control[c] THEN ~fastMode[c] ELSE wanted]
    /\ UNCHANGED <<serial, serials, running, owner, jobs, events, assetToken, queue, fastFiles,
                   control, fastMode, asker, answers>>

-----------------------------------------------------------------------------
(* The frame, at slot c.  "late": the deadlines of its jobs passed; "settled": *)
(* their shortest wait is over; "fast": the bandwidth allows the fast mode.    *)

Arrived(c) == {a \in Pending(jobs[c]) : ~Waiting(c, FileOf(a))}

Overdue_Never(c, late) == {}
Overdue(c, late) == IF late THEN Pending(jobs[c]) ELSE {}

\* Poll: a job fails at its deadline and succeeds when its file has been sent.
Poll(c, late, settled) ==
    LET failed == Overdue(c, late)
        done == IF settled /\ ~late THEN Arrived(c) ELSE {}
    IN  [jobs |-> Finish(Finish(jobs[c], failed, FALSE), done, TRUE),
         events |-> events[c] \cup FinishEvents(jobs[c], failed, FALSE)
                              \cup FinishEvents(jobs[c], done, TRUE)]

\* The mode goes back to what the game wants when nothing is left to send.
GivenBack_Kept(c) == mode[c]
GivenBack(c) == background[c]

Transmission(c, fast) ==
    LET left == {f \in fastFiles[c] : Waiting(c, f)}
    IN  /\ fastFiles' = [fastFiles EXCEPT ![c] = left]
        /\ control' = [control EXCEPT ![c] = @ /\ left # {}]
        /\ fastMode' = [fastMode EXCEPT ![c] = control[c] /\ left # {} /\ fast]
        /\ mode' = [mode EXCEPT ![c] = IF ~control[c] THEN @
                                       ELSE IF left = {} THEN GivenBack(c)
                                       ELSE IF fast # fastMode[c] THEN ~fast ELSE @]

\* At the end of a frame the plugin hears of the finished jobs, provided it is
\* there and the connection still is the one that asked.
Told(happened) ==
    IF owner = NoPlugin THEN answers
    ELSE [t \in AssetTokens |->
             LET to == {c \in Clients : Current(c) /\ \E e \in happened[c] : e.token = t}
             IN  IF to = {} THEN answers[t]
                 ELSE Append(answers[t], serial[CHOOSE c \in to : TRUE])]

FrameDelivery(c, late, settled, fast) ==
    LET polled == Poll(c, late, settled)
        happened == [events EXCEPT ![c] = polled.events]
    IN  /\ ~background[c] \/ c \notin Paced => fast
        /\ jobs' = [jobs EXCEPT ![c] = polled.jobs]
        /\ Transmission(c, fast)
        /\ events' = IF turn' = 0 THEN [x \in Clients |-> {}] ELSE happened
        /\ answers' = IF turn' = 0 THEN Told(happened) ELSE answers
        /\ UNCHANGED <<assetToken, queue, background, wish, asker>>

-----------------------------------------------------------------------------
(* What happens to the connections. *)

\* ClearClient gives the mode back and forgets the ledger.
Emptied(c, gone) == IF c \in gone THEN {} ELSE events[c]

ClearDelivery(gone) ==
    /\ jobs' = [c \in Clients |-> IF c \in gone THEN NoJobs ELSE jobs[c]]
    /\ events' = [c \in Clients |-> Emptied(c, gone)]
    /\ queue' = [c \in Clients |-> IF c \in gone THEN {} ELSE queue[c]]
    /\ fastFiles' = [c \in Clients |-> IF c \in gone THEN {} ELSE fastFiles[c]]
    /\ mode' = [c \in Clients |-> IF c \in gone /\ control[c] THEN background[c] ELSE mode[c]]
    /\ control' = [c \in Clients |-> control[c] /\ c \notin gone]
    /\ fastMode' = [c \in Clients |-> fastMode[c] /\ c \notin gone]
    /\ background' = [c \in Clients |-> background[c] \/ c \in gone]
    /\ UNCHANGED <<assetToken, wish, asker, answers>>

\* A new connection's channel transmits in the background.
PutInServerDelivery(c) ==
    /\ mode' = [mode EXCEPT ![c] = TRUE]
    /\ wish' = [wish EXCEPT ![c] = TRUE]
    /\ UNCHANGED <<jobs, events, assetToken, queue, fastFiles, control, fastMode, background,
                   asker, answers>>

PluginUnloadedDelivery ==
    /\ jobs' = [c \in Clients |-> NoJobs]
    /\ events' = [c \in Clients |-> {}]
    /\ UNCHANGED <<assetToken, queue, fastFiles, control, fastMode, background, mode, wish,
                   asker, answers>>

-----------------------------------------------------------------------------
(* Properties. *)

\* The plugin hears of a delivery at most once, whatever is denied, sent or timed
\* out afterwards, and only while the connection that it was made for is there.
AnsweredOnceToTheAsker ==
    \A t \in AssetTokens :
        /\ Len(answers[t]) <= 1
        /\ \A i \in 1 .. Len(answers[t]) : answers[t][i] = asker[t]

\* The mode of a channel is the game's again whenever the extension has nothing
\* left to send, and after it has let go of the connection.
ModeIsGivenBack == \A c \in Clients : ~control[c] => mode[c] = wish[c]

\* A requested delivery comes to an end.
DeliveriesEnd ==
    \A c \in Clients, a \in Assets : jobs[c][a].state = 1 ~> jobs[c][a].state # 1

=============================================================================
