-------------------------- MODULE ServerLifecycle --------------------------
(***************************************************************************)
(* The owner of the servers' lifecycle, src/tools/tf2_service.py.  Two     *)
(* servers, tf2 and mge, share one installation; each is a screen session  *)
(* whose loop (srcds_run) starts an engine and starts it again when it     *)
(* dies.  The commands start, stop and stop-mge are processes of their own *)
(* (systemd, the watchdog, an administrator) that take a file lock; start  *)
(* asks Valve whether the installation is current and updates it if not.   *)
(*                                                                         *)
(* A process is its pid and its start time.  Pids are used again, also     *)
(* between the looks a stop takes: the sessions, the processes, the        *)
(* engines, whether a pid still is what it was.  One look, the walk of     *)
(* processes() through /proc, is one step.  A command may be killed at any *)
(* point; SteamCMD then dies with it (KillMode=control-group), leaving the *)
(* files half replaced.  It is assumed to replace steam.inf, which names   *)
(* the version, last.                                                      *)
(***************************************************************************)
EXTENDS Integers, Sequences

CONSTANTS
    Commands,           \* processes that run commands
    Pids,
    MaxStarts,          \* bounds: processes started, commands run,
    MaxCommands,        \* releases of the game
    MaxReleases

Roles == {"tf2", "mge"}
Nobody == "nobody"
Points == {"idle", "lock", "begin", "update", "steamcmd", "launch tf2",
           "launch mge", "look", "table", "engines", "quit", "term", "kill"}

LifecycleAssumption ==
    /\ Nobody \notin Commands
    /\ {MaxStarts, MaxCommands, MaxReleases} \subseteq Nat

VARIABLES
    procs,      \* live processes: [pid -> [kind, role, start, version]]
    starts,     \* the clock processes take their start times from
    lock,       \* who holds lifecycle.lock
    run,        \* per command: what it runs, where it is, what it knows
    commands,   \* commands run so far
    installed, latest,  \* versions
    torn        \* some files are of `latest', not all

lifecycleVars == <<procs, starts, lock, run, commands, installed, latest, torn>>
worldVars == <<commands, installed, latest, torn>>

\* Of a stop: the sessions it still has to quit, the processes selected, those
\* left to signal, and the one it is about to signal.  `screened' and `checked'
\* are history, the time of its look at the sessions and of its last check.
Idle == [cmd |-> "none", at |-> "idle", sessions |-> {}, seen |-> {}, left |-> {},
         aim |-> {}, screened |-> 0, checked |-> 0]

InitLifecycle ==
    /\ procs = <<>> /\ starts = 0
    /\ lock = Nobody /\ run = [c \in Commands |-> Idle]
    /\ commands = 0
    /\ installed = 0 /\ latest \in {0, 1} \cap 0 .. MaxReleases /\ torn = FALSE

Of(kind) == {p \in DOMAIN procs : procs[p].kind = kind}
Screen(role) == {p \in Of("screen") : procs[p].role = role}
Screens == Of("screen")
Engines == Of("engine")

\* The engine below a screen; an engine whose screen is gone has no parent.
Below(p) == {e \in Engines : /\ p \in Screens
                             /\ procs[e].role = procs[p].role /\ ~procs[e].orphan}

\* Of a pid that may be somebody else's by now, or nobody's.
Descendants(p) == ({p} \cap DOMAIN procs) \cup Below(p)

Stamped(pids) == {<<p, procs[p].start>> : p \in pids}

Remaining_ByPid(seen) == {s \in seen : s[1] \in DOMAIN procs}

\* Only a process with the same start time is the process that was seen.
Remaining(seen) == {s \in seen : s[1] \in DOMAIN procs /\ procs[s[1]].start = s[2]}

Without(pids) == [p \in DOMAIN procs \ pids |-> procs[p]]

\* A session ends and hangs up on what runs in it: an engine ends as well,
\* or goes on without a parent.
HangUp(sessions) ==
    LET below == UNION {Below(p) : p \in sessions}
    IN  \E deaf \in SUBSET below :
           procs' = [p \in DOMAIN procs \ (sessions \cup (below \ deaf)) |->
                        [procs[p] EXCEPT !.orphan = @ \/ p \in deaf]]

New(kind, role) == [kind |-> kind, role |-> role, start |-> starts + 1,
                    version |-> installed, orphan |-> FALSE]
With(pid, entry) ==
    [p \in DOMAIN procs \cup {pid} |-> IF p = pid THEN entry ELSE procs[p]]

----------------------------------------------------------------------------
(* The servers and Valve.                                                  *)

\* srcds_run starts the engine, and again after it ended.
Respawn(role, pid) ==
    /\ Screen(role) # {} /\ pid \notin DOMAIN procs /\ starts < MaxStarts
    /\ ~\E e \in Engines : procs[e].role = role /\ ~procs[e].orphan
    /\ procs' = With(pid, New("engine", role))
    /\ starts' = starts + 1
    /\ UNCHANGED <<lock, run, worldVars>>

EngineEnds(pid) ==
    /\ pid \in Engines
    /\ procs' = Without({pid})
    /\ UNCHANGED <<starts, lock, run, worldVars>>

ScreenEnds(pid) ==
    /\ pid \in Screens
    /\ HangUp({pid})
    /\ UNCHANGED <<starts, lock, run, worldVars>>

Release ==
    /\ latest < MaxReleases
    /\ latest' = latest + 1
    /\ UNCHANGED <<procs, starts, lock, run, commands, installed, torn>>

----------------------------------------------------------------------------
(* Commands and their lock.                                                *)

Goes(c, point) == run' = [run EXCEPT ![c].at = point]
Ends(c) == run' = [run EXCEPT ![c] = Idle] /\ lock' = Nobody

Invoke(c, cmd) ==
    /\ run[c].at = "idle" /\ commands < MaxCommands
    /\ run' = [run EXCEPT ![c] = [Idle EXCEPT !.cmd = cmd, !.at = "lock"]]
    /\ commands' = commands + 1
    /\ UNCHANGED <<procs, starts, lock, installed, latest, torn>>

Available_Always(c) == TRUE
Available(c) == lock = Nobody

Lock(c) ==
    /\ run[c].at = "lock" /\ Available(c)
    /\ lock' = c
    /\ Goes(c, IF run[c].cmd = "start" THEN "begin" ELSE "look")
    /\ UNCHANGED <<procs, starts, worldVars>>

\* 25 seconds are over and another command still holds the lock.
LockTimesOut(c) ==
    /\ run[c].at = "lock" /\ lock # Nobody
    /\ run' = [run EXCEPT ![c] = Idle]
    /\ UNCHANGED <<procs, starts, lock, worldVars>>

Killed(c) ==
    /\ run[c].at # "idle"
    /\ run' = [run EXCEPT ![c] = Idle]
    /\ lock' = IF lock = c THEN Nobody ELSE lock
    /\ UNCHANGED <<procs, starts, worldVars>>

----------------------------------------------------------------------------
(* start: nothing may run, then the gate, then tf2, then mge.              *)

\* Unknown when the query fails; the version of a torn installation is old.
MayAnswer(answer) ==
    answer \in {"unknown", IF installed = latest THEN "current" ELSE "outdated"}

MustUpdate_IfOutdated(answer) == answer = "outdated"
MustUpdate(answer) == answer # "current"

Begin(c) ==
    /\ run[c].at = "begin"
    /\ IF Screens \cup Engines # {} THEN Ends(c)
       ELSE /\ \E answer \in {"current", "outdated", "unknown"} :
                  /\ MayAnswer(answer)
                  /\ Goes(c, IF MustUpdate(answer) THEN "update" ELSE "launch tf2")
            /\ UNCHANGED lock
    /\ UNCHANGED <<procs, starts, worldVars>>

\* Refused while anything runs, and without space or a launcher.
UpdateBegins(c) ==
    /\ run[c].at = "update"
    /\ \/ Ends(c)
       \/ Screens \cup Engines = {} /\ Goes(c, "steamcmd") /\ UNCHANGED lock
    /\ UNCHANGED <<procs, starts, worldVars>>

Replaces(c) ==
    /\ run[c].at = "steamcmd" /\ installed < latest /\ ~torn
    /\ torn' = TRUE
    /\ UNCHANGED <<procs, starts, lock, run, commands, installed, latest>>

\* Without its success marker, or still outdated, nothing is launched.
SteamCmdEnds(c) ==
    /\ run[c].at = "steamcmd"
    /\ \/ /\ installed' = IF torn THEN latest ELSE installed
          /\ torn' = FALSE
          /\ \/ Goes(c, "launch tf2") /\ UNCHANGED lock
             \/ installed' < latest /\ Ends(c)
       \/ Ends(c) /\ UNCHANGED <<installed, torn>>
    /\ UNCHANGED <<procs, starts, commands, latest>>

\* A launch that fails may have started its screen; both are stopped then.
Launch(c, role, pid) ==
    /\ run[c].at = "launch " \o role
    /\ pid \notin DOMAIN procs /\ starts < MaxStarts
    /\ \/ /\ procs' = With(pid, New("screen", role)) /\ starts' = starts + 1
          /\ \/ role = "tf2" /\ Goes(c, "launch mge") /\ UNCHANGED lock
             \/ role = "mge" /\ Ends(c)
             \/ Goes(c, "look") /\ UNCHANGED lock
       \/ /\ Goes(c, "look")
          /\ UNCHANGED <<procs, starts, lock>>
    /\ UNCHANGED worldVars

----------------------------------------------------------------------------
(* stop_roles.                                                             *)

Targets(c) == IF run[c].cmd = "stop-mge" THEN {"mge"} ELSE Roles

\* `screen -ls' names a session by its pid and role.
Look(c) ==
    /\ run[c].at = "look"
    /\ run' = [run EXCEPT
           ![c].sessions = {s \in Screens \X Targets(c) : procs[s[1]].role = s[2]},
           ![c].screened = starts, ![c].at = "table"]
    /\ UNCHANGED <<procs, starts, lock, worldVars>>

\* Whatever the pids of the sessions are now, and what runs below it.
Select(c) ==
    /\ run[c].at = "table"
    /\ LET selected == UNION {Descendants(s[1]) : s \in run[c].sessions}
       IN  run' = [run EXCEPT ![c].seen = Stamped(selected),
                       ![c].at = IF Targets(c) = Roles THEN "engines" ELSE "quit"]
    /\ UNCHANGED <<procs, starts, lock, worldVars>>

\* When both servers are to stop, engines without a screen as well.
SelectEngines(c) ==
    /\ run[c].at = "engines"
    /\ run' = [run EXCEPT ![c].seen = {s \in @ : s[1] \notin Engines} \cup Stamped(Engines),
                          ![c].at = "quit"]
    /\ UNCHANGED <<procs, starts, lock, worldVars>>

\* `screen -X quit' finds its session by pid and role, or does nothing.
Quit(c, s) ==
    /\ run[c].at = "quit" /\ s \in run[c].sessions
    /\ run' = [run EXCEPT ![c].sessions = @ \ {s}]
    /\ \/ HangUp({s[1]} \cap Screen(s[2]))
       \/ UNCHANGED procs
    /\ UNCHANGED <<starts, lock, worldVars>>

\* Five seconds later, what still lives is signalled one by one.
Wait(c) ==
    /\ run[c].at = "quit" /\ run[c].sessions = {}
    /\ run' = [run EXCEPT ![c].left = Remaining(run[c].seen), ![c].at = "term"]
    /\ UNCHANGED <<procs, starts, lock, worldVars>>

\* Each is looked up once more.
Check(c, s) ==
    /\ run[c].at = "term" /\ s \in run[c].left
    /\ run' = [run EXCEPT ![c].left = @ \ {s}, ![c].aim = Remaining({s}),
                          ![c].at = IF Remaining({s}) = {} THEN "term" ELSE "kill",
                          ![c].checked = IF Remaining({s}) = {} THEN 0 ELSE starts]
    /\ UNCHANGED <<procs, starts, lock, worldVars>>

\* The signal goes to the pid, whoever has it, who may not heed it.
Term(c) ==
    /\ run[c].at = "kill"
    /\ run' = [run EXCEPT ![c].aim = {}, ![c].checked = 0, ![c].at = "term"]
    /\ \/ HangUp({s[1] : s \in run[c].aim} \cap DOMAIN procs)
       \/ UNCHANGED procs
    /\ UNCHANGED <<starts, lock, worldVars>>

\* Whether all of it went decides the outcome only; a start was failing already.
Verify(c) ==
    /\ run[c].at = "term" /\ run[c].left = {}
    /\ Ends(c)
    /\ UNCHANGED <<procs, starts, worldVars>>

LifecycleNext ==
    \/ \E role \in Roles, pid \in Pids : Respawn(role, pid)
    \/ \E pid \in Pids : EngineEnds(pid) \/ ScreenEnds(pid)
    \/ Release
    \/ \E c \in Commands :
          \/ \E cmd \in {"start", "stop", "stop-mge"} : Invoke(c, cmd)
          \/ Lock(c) \/ LockTimesOut(c) \/ Killed(c)
          \/ Begin(c) \/ UpdateBegins(c) \/ Replaces(c) \/ SteamCmdEnds(c)
          \/ \E role \in Roles, pid \in Pids : Launch(c, role, pid)
          \/ Look(c) \/ Select(c) \/ SelectEngines(c)
          \/ \E s \in run[c].sessions : Quit(c, s)
          \/ Wait(c)
          \/ \E s \in run[c].left : Check(c, s)
          \/ Term(c) \/ Verify(c)

LifecycleSpec == InitLifecycle /\ [][LifecycleNext]_lifecycleVars

----------------------------------------------------------------------------

Stamps == Pids \X (1 .. MaxStarts)

LifecycleTypeOK ==
    /\ DOMAIN procs \subseteq Pids
    /\ \A p \in DOMAIN procs :
           procs[p] \in [kind : {"screen", "engine"}, role : Roles,
                         start : 1 .. MaxStarts, version : 0 .. MaxReleases,
                         orphan : BOOLEAN]
    /\ starts \in 0 .. MaxStarts
    /\ lock \in Commands \cup {Nobody}
    /\ run \in [Commands -> [cmd : {"none", "start", "stop", "stop-mge"}, at : Points,
                             sessions : SUBSET (Pids \X Roles),
                             seen : SUBSET Stamps, left : SUBSET Stamps,
                             aim : SUBSET Stamps, screened : 0 .. MaxStarts,
                             checked : 0 .. MaxStarts]]
    /\ commands \in 0 .. MaxCommands
    /\ {installed, latest} \subseteq 0 .. MaxReleases
    /\ torn \in BOOLEAN

\* SteamCMD replaces the shared files only while neither server runs,
\* whatever stops, starts, crashes and killed commands came before.
NoServerDuringUpdate ==
    (\E c \in Commands : run[c].at = "steamcmd") => DOMAIN procs = {}

\* "MGE can never run ahead of an update": whatever runs was started from
\* the complete installation that is there now, also after an update that
\* was cut off half way.
ServersRunInstalled ==
    \A p \in DOMAIN procs : procs[p].version = installed /\ ~torn

\* The process p goes on as it is.
Spared(p) == p \in DOMAIN procs' /\ procs'[p] = procs[p]

StepOfStopMge(c) == run[c].cmd = "stop-mge" /\ run'[c] # run[c]

\* A stop of MGE ends no process of the main server, although processes die
\* and their pids are used again all the time, but in two windows: p took
\* over the pid of an MGE session after the sessions were listed and before
\* the processes were, or it took over a pid after the last check on it.
\* "A re-used PID must never receive a signal" (tf2_service.py:164), and a
\* stop of MGE never touches tf2 (tf2_service.py:305), hold but for these.
StopMgeSparesTf2 ==
    [][\A c \in Commands : StepOfStopMge(c) =>
           \A p \in DOMAIN procs :
               \/ procs[p].role # "tf2" \/ Spared(p)
               \/ procs[p].start > run[c].screened /\ <<p, procs[p].start>> \in run[c].seen
               \/ run[c].at = "kill" /\ procs[p].start > run[c].checked]_lifecycleVars
=============================================================================
