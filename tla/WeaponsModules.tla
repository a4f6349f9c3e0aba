--------------------------- MODULE WeaponsModules ---------------------------
(***************************************************************************)
(* The modules behind one extension interface                              *)
(* (weapons_ext/src/extension.cpp and modules.h): they are attached to     *)
(* Metamod and loaded one after the other, unloaded the other way round    *)
(* when one of them fails or the extension goes, and share one listener    *)
(* for the connections of clients.                                         *)
(***************************************************************************)
EXTENDS Integers, FiniteSets, Sequences

CONSTANTS
    NumModules,    \* modules_.size()
    Listening,     \* modules that listen as long as they are loaded
    OnDemand,      \* a module that listens while a plugin wants it to
    NumListeners   \* listeners_.size()

ModulesAssumption ==
    /\ NumModules \in Nat \ {0}
    /\ Listening \cup {OnDemand} \subseteq 1 .. NumModules
    /\ OnDemand \notin Listening
    /\ NumListeners \in Nat
    /\ Cardinality(Listening) < NumListeners

ModuleIds == 1 .. NumModules

VARIABLES
    startup,    \* what the extension is doing
    attached,   \* metamod_: modules attached, the first ones
    loaded,     \* loaded_: modules loaded, the first ones
    modulesUp,  \* modules whose load is complete and that have not been unloaded
    registered, \* listening_
    listeners,  \* listeners_, 0 where there is none
    place,      \* how far a client's connection has been passed on, 0 when none is
    heard,      \* listeners that have been told of it
    missed      \* listeners that were not there all the time

modules == <<startup, attached, loaded, modulesUp, registered, listeners, place, heard, missed>>

ModulesTypeOK ==
    /\ startup \in {"out", "attaching", "loading", "running", "undoing"}
    /\ {attached, loaded} \subseteq 0 .. NumModules
    /\ modulesUp \subseteq ModuleIds
    /\ registered \in BOOLEAN
    /\ listeners \in [1 .. NumListeners -> ModuleIds \cup {0}]
    /\ place \in 0 .. NumListeners
    /\ heard \in Seq(ModuleIds) /\ Len(heard) <= NumListeners
    /\ missed \subseteq ModuleIds

InitModules ==
    /\ startup = "out"
    /\ attached = 0
    /\ loaded = 0
    /\ modulesUp = {}
    /\ registered = FALSE
    /\ listeners = [i \in 1 .. NumListeners |-> 0]
    /\ place = 0
    /\ heard = <<>>
    /\ missed = {}

-----------------------------------------------------------------------------
(* ClientDispatch. *)

Listed(m) == \E i \in 1 .. NumListeners : listeners[i] = m

Free == {i \in 1 .. NumListeners : listeners[i] = 0}

Added(m) ==
    IF Listed(m) \/ Free = {} THEN listeners
    ELSE [listeners EXCEPT ![CHOOSE i \in Free : \A j \in Free : i <= j] = m]

Removed_Never(m) == listeners
Removed(m) == [i \in 1 .. NumListeners |-> IF listeners[i] = m THEN 0 ELSE listeners[i]]

\* A connection is passed on place by place.
DispatchBegins ==
    /\ registered /\ startup = "running"
    /\ place = 0
    /\ place' = 1
    /\ heard' = <<>>
    /\ missed' = {m \in ModuleIds : ~Listed(m)}
    /\ UNCHANGED <<startup, attached, loaded, modulesUp, registered, listeners>>

DispatchGoesOn ==
    /\ place > 0
    /\ heard' = IF listeners[place] = 0 THEN heard ELSE Append(heard, listeners[place])
    /\ place' = IF place = NumListeners THEN 0 ELSE place + 1
    /\ UNCHANGED <<startup, attached, loaded, modulesUp, registered, listeners, missed>>

\* The module on demand, which plugins may come to want or no longer want while a
\* connection is passed on.
ListenOnDemand ==
    /\ startup = "running"
    /\ OnDemand \in modulesUp /\ ~Listed(OnDemand)
    /\ listeners' = Added(OnDemand)
    /\ UNCHANGED <<startup, attached, loaded, modulesUp, registered, place, heard, missed>>

ListenNoMore ==
    /\ startup = "running"
    /\ Listed(OnDemand)
    /\ listeners' = Removed(OnDemand)
    /\ missed' = missed \cup {OnDemand}
    /\ UNCHANGED <<startup, attached, loaded, modulesUp, registered, place, heard>>

-----------------------------------------------------------------------------
(* Loading and unloading. *)

\* SDK_OnLoad, once no legacy file or plugin is found.
StartExtension ==
    /\ startup = "out"
    /\ startup' = "attaching"
    /\ UNCHANGED <<attached, loaded, modulesUp, registered, listeners, place, heard, missed>>

AttachModule(succeeds) ==
    /\ startup = "attaching"
    /\ attached' = attached + 1
    /\ startup' = IF ~succeeds THEN "undoing"
                  ELSE IF attached' = NumModules THEN "loading" ELSE "attaching"
    /\ registered' = (startup' = "loading")
    /\ UNCHANGED <<loaded, modulesUp, listeners, place, heard, missed>>

\* A module listens at the end of a load that succeeds.
LoadModule(succeeds) ==
    /\ startup = "loading"
    /\ loaded' = loaded + 1
    /\ modulesUp' = IF succeeds THEN modulesUp \cup {loaded'} ELSE modulesUp
    /\ listeners' = IF succeeds /\ loaded' \in Listening THEN Added(loaded') ELSE listeners
    /\ startup' = IF ~succeeds THEN "undoing"
                  ELSE IF loaded' = NumModules THEN "running" ELSE "loading"
    /\ UNCHANGED <<attached, registered, place, heard, missed>>

StopExtension ==
    /\ startup = "running" /\ place = 0
    /\ startup' = "undoing"
    /\ UNCHANGED <<attached, loaded, modulesUp, registered, listeners, place, heard, missed>>

\* SDK_OnUnload: the modules loaded, the one that failed included, then the listener,
\* then the modules attached.
UnloadModule ==
    /\ startup = "undoing"
    /\ loaded > 0
    /\ loaded' = loaded - 1
    /\ modulesUp' = modulesUp \ {loaded}
    /\ listeners' = Removed(loaded)
    /\ UNCHANGED <<startup, attached, registered, place, heard, missed>>

DetachModule ==
    /\ startup = "undoing"
    /\ loaded = 0
    /\ registered' = FALSE
    /\ attached' = IF attached = 0 THEN 0 ELSE attached - 1
    /\ startup' = IF attached' = 0 THEN "out" ELSE "undoing"
    /\ UNCHANGED <<loaded, modulesUp, listeners, place, heard, missed>>

-----------------------------------------------------------------------------

NextModules ==
    \/ DispatchBegins \/ DispatchGoesOn
    \/ ListenOnDemand \/ ListenNoMore
    \/ StartExtension \/ StopExtension
    \/ \E succeeds \in BOOLEAN : AttachModule(succeeds) \/ LoadModule(succeeds)
    \/ UnloadModule \/ DetachModule

ModulesSpec == InitModules /\ [][NextModules]_modules

\* A connection is passed only to modules that are up, and to each that listens all
\* the while exactly once, whoever comes and goes meanwhile; a module is unloaded with
\* everything it needs still up, and when the extension is out nothing is left of it.
ModulesAreInOrder ==
    /\ \A i \in 1 .. NumListeners : listeners[i] # 0 => listeners[i] \in modulesUp
    /\ modulesUp \in {1 .. loaded, 1 .. loaded - 1}
    /\ loaded > 0 => attached = NumModules
    /\ startup = "out" => ~registered /\ modulesUp = {} /\ Free = 1 .. NumListeners
    /\ startup = "running" /\ place = 0 /\ heard # <<>> =>
          \A m \in ModuleIds \ missed : Cardinality({i \in DOMAIN heard : heard[i] = m}) = 1
    /\ \A i, j \in DOMAIN heard : heard[i] = heard[j] => i = j \/ heard[i] \in missed

=============================================================================
