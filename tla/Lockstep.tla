------------------------------ MODULE Lockstep ------------------------------
(***************************************************************************)
(* A server and one of its clients advance the same world step by step     *)
(* (server_setup, client_setup, simulation_receiver.h). The server alone   *)
(* decides what enters a step; the client solves each step it receives in  *)
(* its referential world and plays ahead in a predicted one. When a hash   *)
(* tells that the worlds differ, the client asks for the whole state anew. *)
(*                                                                         *)
(* Both channels are reliable and ordered. One message is handled per step *)
(* of this module; the rest of a tick of either side is one step. That a   *)
(* message may be handled before the tick that sent it is over is as if it *)
(* had been handled after it, since nothing is sent back in between.       *)
(*                                                                         *)
(* A world is its arena, whether the client's player is in the mode and a  *)
(* digest of the steps made and of what was solved in them. A command is   *)
(* an amount of motion, which each side scales by the settings it knows of *)
(* the player when it solves the command; 0 is an empty one.               *)
(***************************************************************************)
EXTENDS Integers, Sequences, SequencesExt

CONSTANTS
  Arenas,
  Motions,          \* the player's commands
  Others,           \* what the other players contribute to a step
  Sensitivities,    \* values of the player's public settings
  SquashSteps,      \* jitter.buffer_at_least_steps
  MaxSquashed,      \* jitter.max_commands_to_squash_at_once
  MaxClientResyncs, \* max_client_resyncs
  MaxPredicted,     \* max_predicted_client_commands
  RconChanges,      \* may the server's solvable variables be changed
  DefaultSettings,  \* those of public_client_settings
  DigestSpan,       \* the digest of a world is a number below this
  MaxStepsInFlight  \* bound: steps sent and not yet unpacked

ASSUME LockstepAssumption ==
  /\ Motions \cup Others \subseteq Nat
  /\ Sensitivities \subseteq Nat \ {0}
  /\ DefaultSettings \in Sensitivities
  /\ {SquashSteps, MaxSquashed} \subseteq Nat
  /\ DigestSpan \in Nat \ {0}
  /\ {MaxClientResyncs, MaxPredicted} \subseteq Nat
  /\ MaxStepsInFlight \in Nat \ {0}
  /\ RconChanges \in BOOLEAN

VARIABLES
  server,           \* the server's world and what it keeps of the client
  client,
  to_client,        \* channel SERVER_SOLVABLE_AND_STEPS
  to_server,        \* channel CLIENT_COMMANDS
  link,             \* "up", or why the connection was closed
  history           \* what the properties remember

vars == <<server, client, to_client, to_server, link, history>>

(* choose_arena(): the players migrate to the new world. *)
Fresh(arena, joined) == [arena |-> arena, joined |-> joined, digest |-> 0]

(* Modes are not hashed. *)
Hash(world) == [world EXCEPT !.joined = FALSE]

(* What a step asks of a world: commands of players who are not in the     *)
(* mode, and empty ones, vanish in unpack().                               *)
Unpacked(payload, joined, settings) ==
  LET heard == joined /\ payload.own # 0
  IN [own      |-> IF heard THEN payload.own ELSE 0,
      settings |-> IF heard THEN settings ELSE 0,
      others   |-> payload.others,
      added    |-> payload.added]

Solve(world, entropy) ==
  [world EXCEPT
     !.joined = @ \/ entropy.added,
     !.digest = (2 * @ + 1 + entropy.own * entropy.settings + entropy.others) % DigestSpan]

SolveAll(world, entropies) == FoldLeft(Solve, world, entropies)

Total(amounts) == FoldLeft(LAMBDA sum, amount : sum + amount, 0, amounts)

Number(messages, Is(_)) ==
  Total([i \in DOMAIN messages |-> IF Is(messages[i]) THEN 1 ELSE 0])

Vars(arena)        == [type |-> "vars", arena |-> arena]
InitialState(w)    == [type |-> "initial", world |-> w]
Settings(settings) == [type |-> "settings", settings |-> settings]
Command(motion)    == [type |-> "command", motion |-> motion]
Resync             == [type |-> "resync"]

IsStep(message)    == message.type = "step"
IsCommand(message) == message.type = "command"

Unanswered == Number(to_server, IsCommand) + Len(server.pending_entropies)

StepsInFlight == Len(client.incoming) + Number(to_client, IsStep)

Init ==
  /\ \E arena \in Arenas :
       /\ server = [state |-> "PENDING_WELCOME", settings |-> DefaultSettings, rebroadcast |-> FALSE,
                    pending_entropies |-> <<>>, resyncs_counter |-> 0,
                    reinference_necessary |-> FALSE, world |-> Fresh(arena, FALSE)]
       /\ client = [state |-> "INITIATING_CONNECTION",
                    settings |-> DefaultSettings, own_settings |-> DefaultSettings,
                    sv_arena |-> arena, referential |-> Fresh(arena, FALSE),
                    predicted |-> Fresh(arena, FALSE), incoming |-> <<>>,
                    predicted_entropies |-> <<>>, schedule_reprediction |-> FALSE,
                    pending_request |-> FALSE, now_resyncing |-> FALSE]
  /\ to_client = <<>>
  /\ to_server = <<>>
  /\ link = "up"
  /\ history = [overtaken |-> FALSE, behind |-> FALSE, forgotten |-> 0]

-----------------------------------------------------------------------------
(* The server handles a message of the client. *)
ServerTakes(type) ==
  /\ link = "up"
  /\ to_server # <<>>
  /\ Head(to_server).type = type
  /\ to_server' = Tail(to_server)

ServerHandlesSettings ==
  /\ ServerTakes("settings")
  /\ server' = [server EXCEPT
       !.settings = Head(to_server).settings,
       !.state = IF @ = "PENDING_WELCOME" THEN "WELCOME_ARRIVED" ELSE @,
       !.rebroadcast = TRUE]
  /\ UNCHANGED <<client, to_client, link, history>>

Receives(state) == state \in {"RECEIVING_INITIAL_STATE", "IN_GAME"}

ServerHandlesCommand ==
  /\ ServerTakes("command")
  /\ IF Receives(server.state)
     THEN /\ server' = [server EXCEPT
               !.state = "IN_GAME",
               !.pending_entropies = Append(@, Head(to_server).motion)]
          /\ UNCHANGED link
     ELSE /\ link' = "early command"
          /\ UNCHANGED server
  /\ UNCHANGED <<client, to_client, history>>

TooManyResyncs(counter) == counter > MaxClientResyncs

(* The counter starts anew when the last request is long past. *)
ServerHandlesResync ==
  /\ ServerTakes("resync")
  /\ \E counter \in {1, server.resyncs_counter + 1} :
       IF TooManyResyncs(counter)
       THEN /\ link' = "too many resyncs"
            /\ UNCHANGED <<server, to_client>>
       ELSE /\ server' = [server EXCEPT !.resyncs_counter = counter,
                                        !.reinference_necessary = TRUE]
            /\ to_client' = Append(to_client, InitialState(server.world))
            /\ UNCHANGED link
  /\ UNCHANGED <<client, history>>

(* An rcon changes the solvable variables. apply() is forced then and      *)
(* chooses the arena even if it is the same again. A bound: one change is  *)
(* under way at a time.                                                    *)
ServerAppliesSolvableVars(arena) ==
  /\ link = "up"
  /\ RconChanges
  /\ \A i \in DOMAIN to_client : to_client[i].type # "vars"
  /\ to_client' = Append(to_client, Vars(arena))
  /\ server' = [server EXCEPT !.world = Fresh(arena, @.joined)]
  /\ UNCHANGED <<client, to_server, link, history>>

(* contribute_to_step_entropy(): how many commands enter the next step. *)
Accepts ==
  LET pending == Len(server.pending_entropies)
  IN IF server.state # "IN_GAME" \/ pending = 0 THEN 0
     ELSE IF pending < SquashSteps THEN 1
     ELSE IF pending < MaxSquashed THEN pending ELSE MaxSquashed

(* The step is sent before it is solved, with the hash of the world as it is. *)
StepHashedSolved(payload) ==
  [type                  |-> "step",
   accepted              |-> Accepts,
   hash                  |-> Hash(Solve(server.world,
                               Unpacked(payload, server.world.joined, server.settings))),
   reinference_necessary |-> server.reinference_necessary,
   payload               |-> payload]
Step(payload) ==
  [type                  |-> "step",
   accepted              |-> Accepts,
   hash                  |-> Hash(server.world),
   reinference_necessary |-> server.reinference_necessary,
   payload               |-> payload]

(* The rest of the tick: the client is added to the mode and gets the      *)
(* whole state the first time, the step is sent and then solved.           *)
ServerTick(others) ==
  LET joining == server.state # "PENDING_WELCOME" /\ ~server.world.joined
      first   == joining /\ server.state = "WELCOME_ARRIVED"
      state   == IF first THEN "RECEIVING_INITIAL_STATE" ELSE server.state
      payload == [own    |-> Total(SubSeq(server.pending_entropies, 1, Accepts)),
                  others |-> others,
                  added  |-> joining]
      welcome == <<Vars(server.world.arena), InitialState(server.world),
                   Settings(server.settings)>>
  IN /\ link = "up"
     /\ StepsInFlight < MaxStepsInFlight
     /\ to_client' = to_client
          \o (IF first THEN welcome ELSE <<>>)
          \o (IF server.rebroadcast THEN <<Settings(server.settings)>> ELSE <<>>)
          \o (IF Receives(state) THEN <<Step(payload)>> ELSE <<>>)
     /\ server' = [server EXCEPT
          !.state = state,
          !.rebroadcast = FALSE,
          !.pending_entropies = SubSeq(@, Accepts + 1, Len(@)),
          !.reinference_necessary = FALSE,
          !.world = Solve(@, Unpacked(payload, @.joined, server.settings))]
     /\ UNCHANGED <<client, to_server, link, history>>

-----------------------------------------------------------------------------
(* The client handles a message of the server. *)
ClientTakes(type) ==
  /\ link = "up"
  /\ to_client # <<>>
  /\ Head(to_client).type = type
  /\ to_client' = Tail(to_client)

(* Another arena is loaded at once, whatever steps of the last one are     *)
(* still queued; the same one is not, though the server has begun it anew. *)
ClientHandlesVars ==
  LET arena   == Head(to_client).arena
      initial == client.state = "PENDING_WELCOME"
      loads   == initial \/ arena # client.sv_arena
      world   == Fresh(arena, client.referential.joined)
  IN /\ ClientTakes("vars")
     /\ client' = [client EXCEPT
          !.state       = IF initial THEN "RECEIVING_INITIAL_STATE" ELSE @,
          !.sv_arena    = arena,
          !.referential = IF loads THEN world ELSE @,
          !.predicted   = IF loads THEN world ELSE @]
     /\ history' = [history EXCEPT
          !.overtaken = @ \/ ~loads \/ client.incoming # <<>>,
          !.behind = IF loads THEN client.predicted_entropies # <<>> ELSE @]
     /\ UNCHANGED <<server, to_server, link>>

ClientHandlesInitialState ==
  LET world == Head(to_client).world
  IN /\ ClientTakes("initial")
     /\ IF client.now_resyncing \/ client.state = "RECEIVING_INITIAL_STATE"
        THEN /\ client' = [client EXCEPT
                  !.state = "IN_GAME",
                  !.now_resyncing = FALSE,
                  !.referential = world,
                  !.predicted = world,
                  !.schedule_reprediction = @ \/ client.now_resyncing,
                  !.incoming = <<>>]
             /\ history' = [overtaken |-> FALSE, behind |-> FALSE,
                  forgotten |-> history.forgotten +
                    Total([i \in DOMAIN client.incoming |-> client.incoming[i].accepted])]
             /\ UNCHANGED link
        ELSE /\ link' = "early state"
             /\ UNCHANGED <<client, history>>
     /\ UNCHANGED <<server, to_server>>

(* "We can assign it right away and it won't desync". *)
ClientHandlesSettings ==
  LET settings == Head(to_client).settings
  IN /\ ClientTakes("settings")
     /\ client' = [client EXCEPT !.own_settings = settings]
     /\ history' = [history EXCEPT
          !.overtaken = @ \/ (settings # client.own_settings /\ client.incoming # <<>>)]
     /\ UNCHANGED <<server, to_server, link>>

ClientHandlesStep ==
  /\ ClientTakes("step")
  /\ IF client.state = "IN_GAME"
     THEN /\ client' = [client EXCEPT !.incoming = Append(@, Head(to_client))]
          /\ UNCHANGED link
     ELSE /\ link' = "early step"
          /\ UNCHANGED client
  /\ UNCHANGED <<server, to_server, history>>

-----------------------------------------------------------------------------
(* Reading behind the last prediction changes nothing: more or less than   *)
(* one accepted command asks for a reprediction anyhow, and exactly one is *)
(* then more than was predicted, which is malicious.                       *)
ForeseenMotion(entropy, p) ==
  p \in DOMAIN client.predicted_entropies => entropy.own = client.predicted_entropies[p].own
Foreseen(entropy, p) ==
  p \in DOMAIN client.predicted_entropies => entropy = client.predicted_entropies[p]

(* One queued step is solved in the referential world and held against the *)
(* prediction.                                                             *)
UnpackStep(result, message) ==
  LET entropy  == Unpacked(message.payload, result.referential.joined, client.own_settings)
      reinfers == message.reinference_necessary \/ message.payload.added
      foreseen == Foreseen(entropy, result.accepted + 1)
  IN [referential |-> Solve(result.referential, entropy),
      accepted    |-> result.accepted + message.accepted,
      desync      |-> result.desync \/ message.hash # Hash(result.referential),
      repredict   |-> result.repredict \/ reinfers \/ ~foreseen \/ message.accepted # 1]

UnpackDeterministicSteps ==
  FoldLeft(UnpackStep,
           [referential |-> client.referential, accepted |-> 0, desync |-> FALSE,
            repredict |-> client.schedule_reprediction /\ client.predicted_entropies # <<>>],
           client.incoming)

(* What is predicted and not yet accepted. *)
RemainingAfterOne(accepted) ==
  LET first == IF accepted = 0 THEN 1 ELSE 2
  IN SubSeq(client.predicted_entropies, first, Len(client.predicted_entropies))
Remaining(accepted) ==
  SubSeq(client.predicted_entropies, accepted + 1, Len(client.predicted_entropies))

(* advance_single_step() once the messages are handled: what is pending is *)
(* sent, then in game the player's command, the queued steps are unpacked, *)
(* and the predicted world is brought in line and goes one step further.   *)
(* (No step of these worlds is inconsistent and asks to be redone.)        *)
SendsOneRequest(settings) ==
  LET changed == client.state = "INITIATING_CONNECTION" \/ settings # client.settings
  IN IF changed THEN <<Settings(settings)>>
     ELSE IF client.pending_request THEN <<Resync>> ELSE <<>>
Sends(settings) ==
  LET changed == client.state = "INITIATING_CONNECTION" \/ settings # client.settings
  IN (IF changed THEN <<Settings(settings)>> ELSE <<>>)
     \o (IF client.pending_request THEN <<Resync>> ELSE <<>>)

(* The player's settings change at most once a second: a bound, by then    *)
(* the last change has come back.                                          *)
MayChange(settings) ==
  settings # client.settings =>
    /\ client.own_settings = client.settings
    /\ ~server.rebroadcast
    /\ \A i \in DOMAIN to_client : to_client[i].type # "settings"

ClientStepBeforeGame(settings) ==
  /\ link = "up"
  /\ MayChange(settings)
  /\ client.state # "IN_GAME"
  /\ Sends(settings) # <<>>
  /\ to_server' = to_server \o Sends(settings)
  /\ client' = [client EXCEPT
       !.state = IF @ = "INITIATING_CONNECTION" THEN "PENDING_WELCOME" ELSE @,
       !.settings = settings,
       !.pending_request = FALSE]
  /\ UNCHANGED <<server, to_client, link, history>>

ClientStep(motion, settings) ==
  LET result    == UnpackDeterministicSteps
      local     == Unpacked([own |-> motion, others |-> 0, added |-> FALSE],
                            client.referential.joined, client.settings)
      remaining == Remaining(result.accepted)
      current   == IF result.repredict THEN SolveAll(result.referential, remaining)
                                       ELSE client.predicted
      malicious == result.accepted > Len(client.predicted_entropies)
      noticed   == result.desync /\ ~client.now_resyncing
  IN /\ link = "up"
     /\ client.state = "IN_GAME"
     /\ MayChange(settings)
     /\ to_server' = to_server \o Sends(settings) \o <<Command(local.own)>>
     /\ client' = [client EXCEPT
          !.settings = settings,
          !.referential = result.referential,
          !.incoming = <<>>,
          !.predicted_entropies = Append(remaining, local),
          !.predicted = Solve(current, local),
          !.schedule_reprediction = @ /\ client.predicted_entropies = <<>>,
          !.pending_request = noticed,
          !.now_resyncing = @ \/ noticed]
     /\ link' = IF malicious THEN "malicious server"
                ELSE IF Len(remaining) > MaxPredicted THEN "too many predictions"
                ELSE link
     /\ history' = [history EXCEPT !.behind = @ /\ ~result.repredict]
     /\ UNCHANGED <<server, to_client>>

Next ==
  \/ ServerHandlesSettings \/ ServerHandlesCommand \/ ServerHandlesResync
  \/ \E arena \in Arenas : ServerAppliesSolvableVars(arena)
  \/ \E others \in Others : ServerTick(others)
  \/ ClientHandlesVars \/ ClientHandlesInitialState
  \/ ClientHandlesSettings \/ ClientHandlesStep
  \/ \E settings \in Sensitivities :
       \/ ClientStepBeforeGame(settings)
       \/ \E motion \in Motions : ClientStep(motion, settings)

Spec == Init /\ [][Next]_vars

-----------------------------------------------------------------------------
(* A client that noticed a difference is never left alone with it: the     *)
(* request is about to be sent or on its way, or so is exactly one answer. *)
AnswerUnderWay ==
  link = "up" =>
    (IF client.now_resyncing THEN 1 ELSE 0) =
      (IF client.pending_request THEN 1 ELSE 0)
        + Number(to_server, LAMBDA message : message.type = "resync")
        + Number(to_client, LAMBDA message :
                              message.type = "initial" /\ client.state = "IN_GAME")

(* Neither side ever finds the other breaking the protocol: no state, step *)
(* or command arrives early ("The client shall not send commands until it  *)
(* receives the first step entropy, at which point being IN_GAME is        *)
(* guaranteed"), no more commands are accepted than were predicted, and a  *)
(* request is answered by one state, no less and no more.                  *)
Orderly ==
  /\ link \in {"up", "too many resyncs", "too many predictions"}
  /\ AnswerUnderWay

(* Each command of the client is on its way, waits at the server, is       *)
(* reported as accepted by a step on its way back, or was forgotten with   *)
(* the steps a new state made obsolete: the predictions kept are these.    *)
AcceptedIn(steps) ==
  Total([i \in DOMAIN steps |-> IF IsStep(steps[i]) THEN steps[i].accepted ELSE 0])

CommandsConserved ==
  link = "up" =>
    Len(client.predicted_entropies) =
      Unanswered + AcceptedIn(to_client) + AcceptedIn(client.incoming) + history.forgotten

(* The predicted world is the referential one with every prediction played *)
(* on top of it, unless that is about to be redone or an arena was loaded  *)
(* and nothing has been mispredicted since.                                *)
PredictionCurrent ==
  client.schedule_reprediction \/ history.behind
    \/ client.predicted = SolveAll(client.referential, client.predicted_entropies)

(* The worlds of both sides only ever differ after an update that the      *)
(* client applied before the steps queued ahead of it, or a forced choice  *)
(* of the arena it was already in.                                         *)
DesyncOnlyIfOvertaken == client.now_resyncing => history.overtaken

=============================================================================
