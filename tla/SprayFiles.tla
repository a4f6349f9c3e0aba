----------------------------- MODULE SprayFiles -----------------------------
(***************************************************************************)
(* The detours that keep uploaded sprays off the disk                      *)
(* (enhanced_sprays/native/filesystem_hooks.cpp).  The game thread puts    *)
(* them in place and takes them away again, while worker threads of the    *)
(* engine go on calling the functions.  A call that has jumped into the    *)
(* module counts itself, asks the policy when it is the game thread's, and *)
(* goes on to the original through the trampoline of the detour.           *)
(***************************************************************************)
EXTENDS Integers, FiniteSets

CONSTANTS
    Game,       \* the game thread
    Workers,    \* the engine's other threads
    NumDetours  \* detours.size()

ASSUME FilesAssumption ==
    /\ Game \notin Workers
    /\ NumDetours \in Nat \ {0}

Threads == Workers \cup {Game}
FileCalls == 1 .. NumDetours

VARIABLES
    doing,    \* how far the game thread is with Install or Uninstall
    next,     \* the detour it is at
    detour,   \* detour[i]: not there, prepared or enabled
    routing,  \* enabled
    active,   \* calls counted
    at,       \* at[t]: how far a thread's call through a detour is
    through,  \* through[t]: the detour
    route,    \* route[t]: the policy is asked
    overtook  \* the count was found zero with a call inside that had not counted itself

files == <<doing, next, detour, routing, active, at, through, route, overtook>>

FilesTypeOK ==
    /\ doing \in {"out", "attaching", "enabling", "in", "disabling", "draining", "freeing"}
    /\ next \in 1 .. NumDetours + 1
    /\ detour \in [FileCalls -> {"none", "prepared", "enabled"}]
    /\ {routing, overtook} \subseteq BOOLEAN
    /\ active \in 0 .. Cardinality(Threads)
    /\ at \in [Threads -> {"idle", "jumped", "counted", "original", "returned"}]
    /\ through \in [Threads -> FileCalls]
    /\ route \in [Threads -> BOOLEAN]

InitFiles ==
    /\ doing = "out"
    /\ next = 1
    /\ detour = [i \in FileCalls |-> "none"]
    /\ routing = FALSE
    /\ active = 0
    /\ at = [t \in Threads |-> "idle"]
    /\ through = [t \in Threads |-> 1]
    /\ route = [t \in Threads |-> FALSE]
    /\ overtook = FALSE

calls == <<active, at, through, route>>

-----------------------------------------------------------------------------
(* Install and Uninstall. *)

Install ==
    /\ doing = "out"
    /\ at[Game] = "idle"
    /\ doing' = "attaching"
    /\ next' = 1
    /\ UNCHANGED <<detour, routing, calls, overtook>>

Uninstalling ==
    /\ doing' = "disabling"
    /\ next' = 1
    /\ routing' = FALSE

Attach(succeeds) ==
    /\ doing = "attaching"
    /\ IF succeeds
       THEN /\ detour' = [detour EXCEPT ![next] = "prepared"]
            /\ doing' = IF next = NumDetours THEN "enabling" ELSE "attaching"
            /\ next' = IF next = NumDetours THEN 1 ELSE next + 1
            /\ routing' = (doing' = "enabling")
       ELSE UNCHANGED detour /\ Uninstalling
    /\ UNCHANGED <<calls, overtook>>

Enable(succeeds) ==
    /\ doing = "enabling"
    /\ IF succeeds
       THEN /\ detour' = [detour EXCEPT ![next] = "enabled"]
            /\ doing' = IF next = NumDetours THEN "in" ELSE "enabling"
            /\ next' = IF next = NumDetours THEN 1 ELSE next + 1
            /\ UNCHANGED routing
       ELSE UNCHANGED detour /\ Uninstalling
    /\ UNCHANGED <<calls, overtook>>

Uninstall ==
    /\ doing = "in"
    /\ at[Game] = "idle"
    /\ Uninstalling
    /\ UNCHANGED <<detour, calls, overtook>>

Disable ==
    /\ doing = "disabling"
    /\ detour' = [detour EXCEPT ![next] = IF @ = "enabled" THEN "prepared" ELSE @]
    /\ doing' = IF next = NumDetours THEN "draining" ELSE "disabling"
    /\ next' = IF next = NumDetours THEN 1 ELSE next + 1
    /\ UNCHANGED <<routing, calls, overtook>>

\* Calls that have counted themselves are waited for.
Drained == active = 0

Drain ==
    /\ doing = "draining"
    /\ Drained
    /\ doing' = "freeing"
    /\ overtook' = (overtook \/ \E t \in Threads : at[t] = "jumped")
    /\ UNCHANGED <<next, detour, routing, calls>>

FreeTrampoline ==
    /\ doing = "freeing"
    /\ detour' = [detour EXCEPT ![next] = "none"]
    /\ doing' = IF next = NumDetours THEN "out" ELSE "freeing"
    /\ next' = IF next = NumDetours THEN 1 ELSE next + 1
    /\ UNCHANGED <<routing, calls, overtook>>

-----------------------------------------------------------------------------
(* Calls of the hooked functions.  One that meets no detour does not concern us. *)

CallThrough(t, i) ==
    /\ at[t] = "idle"
    /\ t = Game => doing \in {"out", "in"}
    /\ detour[i] = "enabled"
    /\ at' = [at EXCEPT ![t] = "jumped"]
    /\ through' = [through EXCEPT ![t] = i]
    /\ UNCHANGED <<doing, next, detour, routing, active, route, overtook>>

\* The constructor of Call
Count(t) ==
    /\ at[t] = "jumped"
    /\ active' = active + 1
    /\ route' = [route EXCEPT ![t] = t = Game /\ routing]
    /\ at' = [at EXCEPT ![t] = "counted"]
    /\ UNCHANGED <<doing, next, detour, routing, through, overtook>>

\* Exists, Open, Write, Close and Directory: the policy may answer by itself.
CallOriginal(t) ==
    /\ at[t] = "counted"
    /\ \/ at' = [at EXCEPT ![t] = "original"]
       \/ route[t] /\ at' = [at EXCEPT ![t] = "returned"]
    /\ UNCHANGED <<doing, next, detour, routing, active, through, route, overtook>>

OriginalReturns(t) ==
    /\ at[t] = "original"
    /\ at' = [at EXCEPT ![t] = "returned"]
    /\ UNCHANGED <<doing, next, detour, routing, active, through, route, overtook>>

\* The destructor of Call
ReturnFromBridge(t) ==
    /\ at[t] = "returned"
    /\ active' = active - 1
    /\ at' = [at EXCEPT ![t] = "idle"]
    /\ route' = [route EXCEPT ![t] = FALSE]
    /\ UNCHANGED <<doing, next, detour, routing, through, overtook>>

-----------------------------------------------------------------------------

NextFiles ==
    \/ Install \/ Uninstall \/ Disable \/ Drain \/ FreeTrampoline
    \/ \E succeeds \in BOOLEAN : Attach(succeeds) \/ Enable(succeeds)
    \/ \E t \in Threads, i \in FileCalls : CallThrough(t, i)
    \/ \E t \in Threads : Count(t) \/ CallOriginal(t) \/ OriginalReturns(t) \/ ReturnFromBridge(t)

FilesSpec == InitFiles /\ [][NextFiles]_files

\* filesystem_hooks.cpp: "Keep each trampoline alive until filesystem calls already
\* inside this module have returned".
TrampolinesOutliveCalls ==
    \A t \in Threads : at[t] \in {"jumped", "counted", "original"} => detour[through[t]] # "none"

\* They do when no thread stood between its jump and its count as the count was found
\* zero; and the policy is asked for calls of the game thread only, never once the
\* detours are being taken away.
CountedCallsAreSafe ==
    /\ overtook \/ TrampolinesOutliveCalls
    /\ \A t \in Threads : route[t] => t = Game /\ doing = "in"

=============================================================================
