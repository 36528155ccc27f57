------------------------------ MODULE Session ------------------------------
(***************************************************************************)
(* The slots of a server (server_setup.cpp, server_adapter.hpp): how a     *)
(* connection becomes a client, the client a player of the mode, and how   *)
(* both go again. A client's slot is the id of its player. In each tick    *)
(* the server handles the events of the transport, then the messages of    *)
(* each client, then looks after its clients slot by slot; then the step   *)
(* is solved, which adds and removes at most one player.                   *)
(*                                                                         *)
(* Connections are numbered in the order in which they are made. That is   *)
(* how the model, not the code, tells who is in a slot and whose player it *)
(* holds. A player who comes back is a new connection.                     *)
(***************************************************************************)
EXTENDS Integers, Sequences, FiniteSetsExt, SequencesExt, Functions

CONSTANTS
  SlotCount,        \* max_incoming_connections
  TimeToEnter,      \* time_limit_to_enter_game_since_connection, in ticks
  TimeInGame,       \* kick_if_no_messages_for_secs, in ticks
  Linger,           \* max_kick_ban_linger_secs, in ticks
  Nameless,         \* the connections that ask for an empty nickname
  MaxConnections    \* bound: connections made

ASSUME SessionAssumption ==
  /\ SlotCount \in Nat \ {0}
  /\ {TimeToEnter, TimeInGame, Linger, MaxConnections} \subseteq Nat
  /\ Nameless \subseteq 1..MaxConnections

VARIABLES
  transport,        \* who is connected in each slot, as the transport sees it
  pending_events,   \* what the transport reported since the last tick
  clients,          \* the server's record of each slot
  players,          \* whose player the mode has under the id of each slot
  connections,      \* how many were made so far
  receiving         \* the tick is still at its packets

vars == <<transport, pending_events, clients, players, connections, receiving>>

Slots == 0..SlotCount - 1
Nobody == 0
NotKicked == -1
NoSlot == -1

(* Times are kept as ages, no longer than anybody asks for. *)
Aged(age, limit) == IF age > limit THEN age ELSE age + 1

Unset == [state |-> "INITIATING_CONNECTION", silent |-> 0, kicked |-> NotKicked]

IsSet(client) == client.state # "INITIATING_CONNECTION"

Kicked(client) ==
  IF IsSet(client) /\ client.kicked = NotKicked THEN [client EXCEPT !.kicked = 0] ELSE client

Init ==
  /\ transport = [s \in Slots |-> Nobody]
  /\ pending_events = <<>>
  /\ clients = [s \in Slots |-> Unset]
  /\ players = [s \in Slots |-> Nobody]
  /\ connections = 0
  /\ receiving = TRUE

-----------------------------------------------------------------------------
(* The transport gives a newcomer the lowest free slot. *)
Connect ==
  LET free == {s \in Slots : transport[s] = Nobody}
  IN /\ receiving
     /\ connections < MaxConnections
     /\ free # {}
     /\ connections' = connections + 1
     /\ transport' = [transport EXCEPT ![Min(free)] = connections + 1]
     /\ pending_events' = Append(pending_events, [client_id |-> Min(free), connected |-> TRUE])
     /\ UNCHANGED <<clients, players, receiving>>

(* A client leaves, or the transport gives it up. *)
Leave(s) ==
  /\ receiving
  /\ transport[s] # Nobody
  /\ transport' = [transport EXCEPT ![s] = Nobody]
  /\ pending_events' = Append(pending_events, [client_id |-> s, connected |-> FALSE])
  /\ UNCHANGED <<clients, players, connections, receiving>>

(* server.ReceivePackets() returns. *)
PacketsReceived ==
  /\ receiving
  /\ receiving' = FALSE
  /\ UNCHANGED <<transport, pending_events, clients, players, connections>>

HandleEvent(handled, event) ==
  [handled EXCEPT ![event.client_id] =
     IF event.connected THEN [@ EXCEPT !.state = "PENDING_WELCOME", !.silent = 0] ELSE Unset]

HandleEvents(events) == FoldLeft(HandleEvent, clients, events)

-----------------------------------------------------------------------------
(* A tick in progress: what the clients say in it, what it has done to the *)
(* slots so far, and the one player it adds and the one it removes.        *)
Begun(said) ==
  [said |-> said, clients |-> HandleEvents(pending_events), transport |-> transport,
   events |-> <<>>, added |-> NoSlot, removed |-> NoSlot]

UnsetOnly(tick, s) == [tick EXCEPT !.clients[s] = Unset]
DisconnectAndUnset(tick, s) ==
  [tick EXCEPT !.clients[s] = Unset,
               !.transport[s] = Nobody,
               !.events = Append(@, [client_id |-> s, connected |-> FALSE])]

(* What a client may say: nothing; its settings, which it may restate;     *)
(* anything else that is valid in every state and leads to no other (chat, *)
(* remote control, an avatar, a request for the state); the command of a   *)
(* step when it has the initial state, perhaps one more empty one of a     *)
(* player away from the keyboard; something for which it is kicked, or     *)
(* disconnected at once. Whatever is valid counts as a sign of life.       *)
Receives(client) == client.state \in {"RECEIVING_INITIAL_STATE", "IN_GAME"}

MaySay(client) ==
  {"nothing"}
    \cup (IF IsSet(client) THEN {"settings", "talk", "offence", "garbage"} ELSE {})
    \cup (IF Receives(client) THEN {"command", "idle command"} ELSE {})

Heard(client, saying) ==
  CASE saying = "settings" ->
         [client EXCEPT !.state = IF @ = "PENDING_WELCOME" THEN "WELCOME_ARRIVED" ELSE @, !.silent = 0]
    [] saying = "talk" -> [client EXCEPT !.silent = 0]
    [] saying \in {"command", "idle command"} -> [client EXCEPT !.state = "IN_GAME", !.silent = 0]
    [] saying = "offence"  -> [Kicked(client) EXCEPT !.silent = 0]
    [] OTHER -> client

HandleMessage(tick, s) ==
  IF tick.said[s] = "garbage" THEN DisconnectAndUnset(tick, s)
  ELSE [tick EXCEPT !.clients[s] = Heard(@, tick.said[s])]

(* A client who was kicked is given some time to go by itself. *)
LingersTooLong(tick, s) ==
  tick.removed = NoSlot /\ tick.clients[s].kicked > Linger

(* One client per tick gets its player, if its id is free. With the player *)
(* goes the initial state; an empty nickname is refused.                   *)
AdmitsOverPredecessor(tick, s) ==
  /\ tick.added = NoSlot
  /\ tick.clients[s].state \notin {"INITIATING_CONNECTION", "PENDING_WELCOME"}
  /\ players[s] = Nobody \/ tick.clients[s].state = "WELCOME_ARRIVED"
Admits(tick, s) ==
  /\ tick.added = NoSlot
  /\ tick.clients[s].state \notin {"INITIATING_CONNECTION", "PENDING_WELCOME"}
  /\ players[s] = Nobody

Admit(tick, s) ==
  IF transport[s] \in Nameless THEN DisconnectAndUnset(tick, s)
  ELSE [tick EXCEPT
          !.added = s,
          !.clients[s].state = IF @ = "WELCOME_ARRIVED" THEN "RECEIVING_INITIAL_STATE" ELSE @]

IsSilentInGame(client) == client.state = "IN_GAME" /\ client.silent > TimeInGame
IsSilent(client) ==
  client.silent > IF client.state = "IN_GAME" THEN TimeInGame ELSE TimeToEnter

KickIfAway(tick, s) ==
  LET client == tick.clients[s]
      away   == tick.said[s] = "idle command" /\ client.state = "IN_GAME"
  IN IF away \/ IsSilent(client) THEN [tick EXCEPT !.clients[s] = Kicked(@)] ELSE tick

(* The player of an empty slot is removed from the mode, one per tick. *)
Removes(tick, s) == tick.removed = NoSlot /\ players[s] # Nobody

ProcessClient(tick, s) ==
  LET lingered == IF LingersTooLong(tick, s) THEN DisconnectAndUnset(tick, s) ELSE tick
  IN IF ~IsSet(lingered.clients[s])
     THEN IF Removes(lingered, s) THEN [lingered EXCEPT !.removed = s] ELSE lingered
     ELSE KickIfAway(IF Admits(lingered, s) THEN Admit(lingered, s) ELSE lingered, s)

Aging(client) ==
  IF ~IsSet(client) THEN client
  ELSE [client EXCEPT
          !.silent = Aged(@, Max({TimeToEnter, TimeInGame})),
          !.kicked = IF @ = NotKicked THEN @ ELSE Aged(@, Linger)]

(* The rest of the tick. *)
Ascending == [i \in 1..SlotCount |-> i - 1]
Tick(said) ==
  LET heard == FoldLeft(HandleMessage, Begun(said), Ascending)
      done  == FoldLeft(ProcessClient, heard, Ascending)
  IN /\ ~receiving
     /\ receiving' = TRUE
     /\ \A s \in Slots : said[s] \in MaySay(Begun(said).clients[s])
     /\ clients' = [s \in Slots |-> Aging(done.clients[s])]
     /\ transport' = done.transport
     /\ pending_events' = done.events
     /\ players' = [s \in Slots |->
          IF s = done.removed THEN Nobody
          ELSE IF s = done.added /\ players[s] = Nobody THEN transport[s]
          ELSE players[s]]
     /\ UNCHANGED connections

Sayings == {"nothing", "settings", "talk", "command", "idle command", "offence", "garbage"}

Next ==
  \/ Connect
  \/ \E s \in Slots : Leave(s)
  \/ PacketsReceived
  \/ \E said \in [Slots -> Sayings] : Tick(said)

Spec == Init /\ [][Next]_vars

(* The server keeps ticking: only PacketsReceived and Tick change this, and *)
(* one of them is always possible.                                         *)
FairSpec == Spec /\ WF_receiving(receiving' = ~receiving)

-----------------------------------------------------------------------------
Now == HandleEvents(pending_events)

(* The server's records and the transport agree on who is connected, once  *)
(* the pending events are handled, and those never connect a client into a *)
(* record still in use (the assertion of server_client_state::init).       *)
SlotsAgree ==
  /\ \A s \in Slots : IsSet(Now[s]) <=> transport[s] # Nobody
  /\ \A i \in DOMAIN pending_events :
       pending_events[i].connected =>
         ~IsSet(HandleEvents(SubSeq(pending_events, 1, i - 1))[pending_events[i].client_id])

(* Nobody who receives the steps of the game plays the character of the    *)
(* client who had the slot before; who waits for its own longer than it    *)
(* may take to enter waits for that one to go.                             *)
OwnCharacter == \A s \in Slots : Receives(Now[s]) => players[s] = transport[s]
Waiting(s) == clients[s].state = "WELCOME_ARRIVED" /\ clients[s].silent > TimeToEnter
PlaysOwnCharacter == OwnCharacter /\ \A s \in Slots : Waiting(s) => players[s] # Nobody

(* Heard from in this tick, but not about to get any further by that: not  *)
(* given settings yet, or commands, or behind the player of a predecessor. *)
(* The time limits count from the last valid message, not from the         *)
(* connection, so who goes on like this is never kicked.                   *)
Stalls(s) ==
  /\ clients[s].silent = 1
  /\ \/ clients[s].state \in {"PENDING_WELCOME", "RECEIVING_INITIAL_STATE"}
     \/ clients[s].state = "WELCOME_ARRIVED" /\ players[s] # Nobody

(* Who connects gets to play its own character or is gone in the end, even *)
(* out of a slot that is held by the player of another, unless it stalls   *)
(* again and again.                                                        *)
Settles ==
  \A c \in 1..MaxConnections :
    \/ []<>(\E s \in Slots : transport[s] = c /\ Stalls(s))
    \/ c \in Range(transport) ~>
         \/ c \notin Range(transport)
         \/ \E s \in Slots : transport[s] = c /\ players[s] = c /\ clients[s].state = "IN_GAME"

(* The players of clients who have gone are removed in the end, unless one *)
(* who took the slot stalls there again and again.                         *)
DepartedAreRemoved ==
  \A c \in 1..MaxConnections :
    \/ []<>(\E s \in Slots : players[s] = c /\ Stalls(s))
    \/ c \in Range(players) /\ c \notin Range(transport) ~> c \notin Range(players)

=============================================================================
