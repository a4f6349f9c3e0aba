---------------------------- MODULE SharedClients ----------------------------
(***************************************************************************)
(* The table of weapons_ext that finds a client by the address of its      *)
(* CTFPlayerShared (shared_client_cache.h, services/utilities.cpp): open   *)
(* addressing, in which the clients removed leave their entries behind.    *)
(* Addresses are used again for other players.                             *)
(***************************************************************************)
EXTENDS Integers, FiniteSets

CONSTANTS
    MaxClients,
    Addresses,          \* of CTFPlayerShared
    Capacity, Hash

Seats == 1 .. MaxClients
Slots == 0 .. Capacity - 1
Empty == 0              \* keys of entries without a client
Left == 1
NoClient == 0

SharedClientsAssumption ==
    /\ MaxClients \in Nat /\ Capacity \in Nat /\ 2 * MaxClients < Capacity
    /\ Hash \in [Addresses -> Slots] /\ Addresses \cap {Empty, Left} = {}

VARIABLES
    up,                 \* the module is loaded
    stage,              \* stage[c]: "out", "in", "leaving"
    address,            \* of the player in the slot
    table               \* sharedClients

sharedVars == <<up, stage, address, table>>

Vacant == [key |-> Empty, client |-> NoClient]
NoEntries == [s \in Slots |-> Vacant]

InitShared ==
    /\ up = FALSE
    /\ stage = [c \in Seats |-> "out"] /\ address = [c \in Seats |-> Empty]
    /\ table = NoEntries

\* The slots a search for a key looks at, in order, and where it is when it
\* first meets one of the given keys.
Probe(key, n) == (Hash[key] + n) % Capacity
Meets(t, key, keys) ==
    {n \in Slots : /\ t[Probe(key, n)].key \in keys
                   /\ \A k \in 0 .. n - 1 : t[Probe(key, k)].key \notin keys}

Holds(t, key) == {n \in Meets(t, key, {key, Empty}) : t[Probe(key, n)].key = key}

Find(t, key) ==
    IF Holds(t, key) = {} THEN NoClient
    ELSE t[Probe(key, CHOOSE n \in Holds(t, key) : TRUE)].client

Vacated_Empty == Vacant
Vacated == [Vacant EXCEPT !.key = Left]

Remove(t, c) == [s \in Slots |-> IF t[s].client = c THEN Vacated ELSE t[s]]

\* Where the key is already, or else at the first vacant entry.
Put(t, key, c) ==
    LET cleared == Remove(t, c)
        at == IF Holds(cleared, key) # {} THEN Holds(cleared, key)
              ELSE Meets(cleared, key, {Empty, Left})
    IN  [s \in Slots |-> IF \E n \in at : s = Probe(key, n)
                         THEN [key |-> key, client |-> c] ELSE cleared[s]]

\* Everybody with an entity, in the order of the slots.
Listed ==
    LET First[n \in 0 .. MaxClients] ==
            IF n = 0 THEN NoEntries
            ELSE IF stage[n] = "out" THEN First[n - 1]
            ELSE Put(First[n - 1], address[n], n)
    IN  First[MaxClients]

----------------------------------------------------------------------------

UtilitiesLoad ==
    /\ ~up
    /\ up' = TRUE /\ table' = Listed
    /\ UNCHANGED <<stage, address>>

\* The table goes with the memory of the extension.
UtilitiesUnload ==
    /\ up
    /\ up' = FALSE /\ table' = NoEntries
    /\ UNCHANGED <<stage, address>>

PutInServer(c, a) ==
    /\ stage[c] = "out"
    /\ \A b \in Seats : stage[b] # "out" => address[b] # a
    /\ stage' = [stage EXCEPT ![c] = "in"]
    /\ address' = [address EXCEPT ![c] = a]
    /\ table' = IF up THEN Put(table, a, c) ELSE table
    /\ UNCHANGED up

ClientDisconnecting(c) ==
    /\ stage[c] = "in"
    /\ stage' = [stage EXCEPT ![c] = "leaving"]
    /\ table' = IF up THEN Remove(table, c) ELSE table
    /\ UNCHANGED <<up, address>>

ClientDisconnected(c) ==
    /\ stage[c] = "leaving"
    /\ stage' = [stage EXCEPT ![c] = "out"]
    /\ table' = IF up THEN Remove(table, c) ELSE table
    /\ UNCHANGED <<up, address>>

SharedNext ==
    \/ UtilitiesLoad \/ UtilitiesUnload
    \/ \E c \in Seats :
          \/ \E a \in Addresses : PutInServer(c, a)
          \/ ClientDisconnecting(c) \/ ClientDisconnected(c)

SharedSpec == InitShared /\ [][SharedNext]_sharedVars

----------------------------------------------------------------------------

SharedTypeOK ==
    /\ up \in BOOLEAN
    /\ stage \in [Seats -> {"out", "in", "leaving"}]
    /\ address \in [Seats -> Addresses \cup {Empty}]
    /\ table \in [Slots -> [key : Addresses \cup {Empty, Left},
                            client : Seats \cup {NoClient}]]

\* The table finds the client of every address that belongs to a player in
\* the game, and no client for any other, whatever was put, removed and put
\* again along the slots the search looks at.
SharedAddressesAreFound ==
    up => \A a \in Addresses :
        LET owners == {c \in Seats : stage[c] # "out" /\ address[c] = a}
            here == {c \in owners : stage[c] = "in"}
        IN  IF here # {} THEN Find(table, a) \in here
            ELSE Find(table, a) \in owners \cup {NoClient}
=============================================================================
